--------------------------- MODULE ContextAsk_proofs ---------------------------
(***************************************************************************)
(* Theorems of ContextAsk, for any number of questions, entities and       *)
(* overlapping requests.                                                   *)
(***************************************************************************)
EXTENDS ContextAsk, TLAPS

\* Request r has its topic, under the alias of its question in the table as.
Settled(r, as) == /\ r.topic \in Topic
                  /\ r.question \notin Epics => <<Alias[r.question], r.topic>> \in as

\* The edges es know the entity e under the topic t.
Knows(es, t, e) == \E edge \in es : edge[1] = t /\ edge[2] = Node(e)

\* What request r may rely on, in the tables as of aliases, es of edges and bs of bundles:
\* each transaction hands on to the next what it has committed.
RequestOK(r, as, es, bs) ==
    /\ r \in Request
    /\ r.phase # "idle" => r.question \in Questions /\ r.bundle \in Bundle
    /\ r.phase = "alias" => r.nodes = {Wanted(r.question)}
    /\ r.phase # "alias" => r.nodes \subseteq {Node(e) : e \in Entities}
    /\ r.phase = "insert" => r.missing \in r.todo
    /\ r.phase \in {"link", "insert", "check", "record"} => Settled(r, as)
    /\ r.phase \in {"link", "insert"} =>
         \A e \in r.bundle.entities \ r.todo : Knows(es \cup r.links, r.topic, e)
    /\ r.phase \in {"check", "record"} =>
         \A e \in r.bundle.entities : Knows(es, r.topic, e)
    /\ r.phase = "record" => r.bundle \in bs /\ Grounded(r.bundle)

\* The tables have their types, an alias leads to one topic, and a remembered question to
\* its topic.
TablesOK ==
    /\ topics \subseteq Topic \cup {Node(e) : e \in Entities}
    /\ aliases \subseteq {Alias[u] : u \in Questions} \X Topic
    /\ edges \subseteq Edge
    /\ bundles \subseteq Bundle
    /\ memory \subseteq [question : Questions, topic : Topic, bundle : Bundles]
    /\ \A v, w \in aliases : v[1] = w[1] => v = w
    /\ \A m \in memory : m.question \notin Epics => <<Alias[m.question], m.topic>> \in aliases

RequestsOK == /\ requests \in [Requests -> Request]
              /\ \A q \in Requests : RequestOK(requests[q], aliases, edges, bundles)

IInv == TablesOK /\ TopicsKeepAnAlias /\ AnswersAreLinked /\ RequestsOK

-----------------------------------------------------------------------------
\* No node of an entity is a topic that a question created.
LEMMA NodesAreNoTopics == \A e \in Entities, t \in Topic : Node(e) # t
BY DEF Node, Topic, Wanted

\* A request that does nothing relies on nothing.
LEMMA NoRequestOK == ASSUME NEW as, NEW es, NEW bs PROVE RequestOK(NoRequest, as, es, bs)
BY DEF NoRequest, NoBundle, RequestOK, Request

\* What a request relies on is not taken away by rows that others add.
LEMMA RowsOnlyHelp ==
    ASSUME NEW r, NEW as, NEW es, NEW bs, NEW as2, NEW es2, NEW bs2,
           RequestOK(r, as, es, bs), as \subseteq as2, es \subseteq es2, bs \subseteq bs2
    PROVE  RequestOK(r, as2, es2, bs2)
BY DEF RequestOK, Settled, Knows

\* The edge to an entity of the request is there, committed or not, when it is dealt with.
LEMMA WithEdgeOK ==
    ASSUME NEW q \in Requests, NEW r, r = requests[q], NEW e \in r.todo,
           RequestOK(r, aliases, edges, bundles), r.phase \in {"link", "insert"}
    PROVE  RequestOK(WithEdge(q, r, e), aliases, edges, bundles)
<1> DEFINE s == WithEdge(q, r, e)
<1>1. /\ r \in Request /\ r.question \in Questions /\ r.bundle \in Bundle
      /\ r.topic \in Topic /\ e \in Entities /\ r.bundle.id \in Bundles
  BY DEF RequestOK, Settled, Request, Bundle
<1>2. s = [r EXCEPT !.phase = "link", !.todo = r.todo \ {e}, !.missing = None, !.links = s.links]
      /\ s.links = r.links \cup IF Linked(q, e) THEN {}
                                ELSE {<<r.topic, Node(e), r.bundle.id>>}
  BY <1>1 DEF WithEdge, Request
<1>3. s.links \subseteq Edge /\ r.links \subseteq s.links
  BY <1>1, <1>2 DEF Edge, Request
<1>4. Knows(edges \cup s.links, r.topic, e)
  <2>1. CASE Linked(q, e)
    BY <2>1 DEF Knows, Linked
  <2>2. CASE ~Linked(q, e)
    <3>1. <<r.topic, Node(e), r.bundle.id>> \in edges \cup s.links
      BY <1>2, <2>2
    <3> HIDE DEF s
    <3> QED BY <3>1 DEF Knows
  <2> QED BY <2>1, <2>2
<1>5. \A d \in r.bundle.entities \ (r.todo \ {e}) : Knows(edges \cup s.links, r.topic, d)
  BY <1>3, <1>4 DEF RequestOK, Knows
<1> HIDE DEF s
<1>6. s \in Request
  <2>1. ASSUME NEW todo \in SUBSET Entities, NEW links \in SUBSET Edge
        PROVE  [r EXCEPT !.phase = "link", !.todo = todo, !.missing = None, !.links = links]
                 \in Request
    BY <1>1 DEF Request
  <2>2. r.todo \ {e} \in SUBSET Entities /\ s.links \in SUBSET Edge
    BY <1>1, <1>3 DEF Request
  <2>3. [r EXCEPT !.phase = "link", !.todo = r.todo \ {e}, !.missing = None, !.links = s.links]
          \in Request
    BY <2>1, <2>2
  <2> QED BY <1>2, <2>3, Zenon
<1>7. /\ s.phase = "link" /\ s.todo = r.todo \ {e} /\ s.bundle = r.bundle /\ s.topic = r.topic
      /\ s.question = r.question /\ s.nodes = r.nodes
  BY <1>1, <1>2 DEF Request
<1>8. RequestOK(s, aliases, edges, bundles)
  BY <1>1, <1>5, <1>6, <1>7 DEF RequestOK, Settled
<1> QED BY <1>8 DEF s

\* A step of request q that leaves it in the state r keeps the requests sound.
LEMMA RequestStep ==
    ASSUME IInv, NEW q \in Requests, NEW r,
           requests' = [requests EXCEPT ![q] = r],
           RequestOK(r, aliases', edges', bundles'),
           aliases \subseteq aliases', edges \subseteq edges', bundles \subseteq bundles'
    PROVE  RequestsOK'
<1>1. r \in Request
  BY DEF RequestOK
<1>2. requests' \in [Requests -> Request]
  BY <1>1 DEF IInv, RequestsOK
<1>3. ASSUME NEW p \in Requests PROVE RequestOK(requests'[p], aliases', edges', bundles')
  <2>1. CASE p = q
    BY <2>1 DEF IInv, RequestsOK
  <2>2. CASE p # q
    <3>1. requests'[p] = requests[p] /\ RequestOK(requests[p], aliases, edges, bundles)
      BY <2>2 DEF IInv, RequestsOK
    <3> QED BY <3>1, RowsOnlyHelp
  <2> QED BY <2>1, <2>2
<1> QED BY <1>2, <1>3 DEF RequestsOK

\* A step that writes no row of topics, aliases, bundles and memory, and adds edges at most.
LEMMA TablesStep ==
    ASSUME IInv, UNCHANGED <<topics, aliases, bundles, memory>>,
           edges \subseteq edges', edges' \subseteq Edge
    PROVE  TablesOK' /\ TopicsKeepAnAlias' /\ AnswersAreLinked'
BY DEF IInv, TablesOK, TopicsKeepAnAlias, AnswersAreLinked

-----------------------------------------------------------------------------
LEMMA InitIInv == Init => IInv
<1> SUFFICES ASSUME Init PROVE IInv
  OBVIOUS
<1>1. RequestsOK
  <2>1. NoRequest \in Request
    BY NoRequestOK DEF RequestOK
  <2> QED BY <2>1, NoRequestOK DEF Init, RequestsOK
<1>2. TablesOK /\ TopicsKeepAnAlias /\ AnswersAreLinked
  BY DEF Init, TablesOK, TopicsKeepAnAlias, AnswersAreLinked
<1> QED BY <1>1, <1>2 DEF IInv

LEMMA StepIInv == IInv /\ [Next]_vars => IInv'
<1> SUFFICES ASSUME IInv, [Next]_vars PROVE IInv'
  OBVIOUS
<1>0. CASE UNCHANGED vars
  BY <1>0 DEF vars, IInv, TablesOK, TopicsKeepAnAlias, AnswersAreLinked, RequestsOK
<1>1. ASSUME NEW q \in Requests, NEW u \in Questions, NEW b \in Bundles, Ask(q, u, b)
      PROVE  IInv'
  <2>1. PICK found \in SUBSET Entities, grounded \in BOOLEAN :
          requests' = [requests EXCEPT ![q] =
             [NoRequest EXCEPT !.question = u, !.phase = "resolve",
                               !.bundle = [id |-> b, entities |-> found,
                                           grounded |-> grounded]]]
    BY <1>1 DEF Ask
  <2>2. RequestOK([NoRequest EXCEPT !.question = u, !.phase = "resolve",
                               !.bundle = [id |-> b, entities |-> found,
                                           grounded |-> grounded]],
                  aliases', edges', bundles')
    BY DEF NoRequest, RequestOK, Request, Bundle
  <2>3. UNCHANGED <<topics, aliases, edges, bundles, memory>>
    BY <1>1 DEF Ask
  <2>4. edges' \subseteq Edge
    BY <2>3 DEF IInv, TablesOK
  <2> QED BY <2>1, <2>2, <2>3, <2>4, RequestStep, TablesStep DEF IInv
<1>2. ASSUME NEW q \in Requests, GiveUp(q) PROVE IInv'
  <2>1. edges' \subseteq Edge
    BY <1>2 DEF GiveUp, IInv, TablesOK
  <2> QED BY <1>2, <2>1, NoRequestOK, RequestStep, TablesStep DEF GiveUp, IInv
<1>3. ASSUME NEW q \in Requests, LookUp(q) PROVE IInv'
  <2> DEFINE r == requests[q]
  <2>1. UNCHANGED <<topics, aliases, edges, bundles, memory>> /\ edges' \subseteq Edge
    BY <1>3 DEF LookUp, IInv, TablesOK
  <2>2. RequestOK(r, aliases', edges', bundles') /\ r.phase = "resolve" /\ r \in Request
    BY <1>3, <2>1 DEF LookUp, IInv, RequestsOK, RequestOK
  <2>3. ASSUME NEW t \in Known(r.question) PROVE RequestOK(Resolved(r, t), aliases', edges', bundles')
    <3>1. t \in Topic /\ (r.question \notin Epics => <<Alias[r.question], t>> \in aliases)
      <4>1. CASE r.question \in Epics
        BY <4>1, <2>2, <2>3 DEF Known, Topic, RequestOK
      <4>2. CASE r.question \notin Epics
        BY <4>2, <2>2, <2>3 DEF Known, IInv, TablesOK
      <4> QED BY <4>1, <4>2
    <3> QED BY <3>1, <2>1, <2>2 DEF RequestOK, Resolved, Settled, Request, Bundle
  <2>4. RequestOK([r EXCEPT !.phase = "create"], aliases', edges', bundles')
    BY <2>2 DEF RequestOK, Request
  <2>5. CASE \E t \in Known(r.question) : requests' = [requests EXCEPT ![q] = Resolved(r, t)]
    BY <2>1, <2>3, <2>5, RequestStep, TablesStep DEF IInv
  <2>6. CASE requests' = [requests EXCEPT ![q].phase = "create"]
    <3>1. requests' = [requests EXCEPT ![q] = [r EXCEPT !.phase = "create"]]
      BY <2>6
    <3> QED BY <2>1, <2>4, <3>1, RequestStep, TablesStep DEF IInv
  <2> QED BY <1>3, <2>5, <2>6 DEF LookUp
<1>4. ASSUME NEW q \in Requests, CreateTopic(q) PROVE IInv'
  <2> DEFINE r == requests[q]
             t == Wanted(r.question)
  <2>1. UNCHANGED <<topics, aliases, edges, bundles, memory>> /\ edges' \subseteq Edge
    BY <1>4 DEF CreateTopic, IInv, TablesOK
  <2>2. RequestOK(r, aliases', edges', bundles') /\ r.phase = "create" /\ r \in Request
    BY <1>4, <2>1 DEF CreateTopic, IInv, RequestsOK, RequestOK
  <2>3. t \in Topic
    BY <2>2 DEF RequestOK, Topic
  <2>4. RequestOK([r EXCEPT !.phase = "alias", !.nodes = {t}], aliases', edges', bundles')
    BY <2>2, <2>3 DEF RequestOK, Request
  <2>5. requests' = [requests EXCEPT ![q] = [r EXCEPT !.phase = "alias", !.nodes = {t}]]
    BY <1>4 DEF CreateTopic
  <2> QED BY <2>1, <2>4, <2>5, RequestStep, TablesStep DEF IInv
<1>5. ASSUME NEW q \in Requests, AttachAlias(q) PROVE IInv'
  <2> DEFINE r == requests[q]
             t == Wanted(r.question)
             a == Alias[r.question]
  <2>1. /\ RequestOK(r, aliases, edges, bundles) /\ r.phase = "alias" /\ r \in Request
        /\ r.question \in Questions /\ r.nodes = {t} /\ t \in Topic
        /\ topics' = topics \cup {t} /\ aliases' = aliases \cup {<<a, t>>}
        /\ AliasFree(a) /\ UNCHANGED <<edges, bundles, memory>>
        /\ requests' = [requests EXCEPT ![q] = Resolved(r, t)]
    BY <1>5 DEF AttachAlias, IInv, RequestsOK, RequestOK, Topic
  <2>2. RequestOK(Resolved(r, t), aliases', edges', bundles')
    BY <2>1 DEF RequestOK, Resolved, Settled, Request, Bundle
  <2>3. RequestsOK'
    BY <2>1, <2>2, RequestStep
  <2>4. TablesOK'
    BY <2>1 DEF IInv, TablesOK, AliasFree
  <2>5. TopicsKeepAnAlias'
    <3>1. <<a, t>> \in aliases' /\ <<a, t>>[2] = t
      BY <2>1
    <3> QED BY <2>1, <3>1 DEF IInv, TopicsKeepAnAlias
  <2>6. AnswersAreLinked'
    BY <2>1 DEF IInv, AnswersAreLinked
  <2> QED BY <2>3, <2>4, <2>5, <2>6 DEF IInv
<1>6. ASSUME NEW q \in Requests, FindNode(q) PROVE IInv'
  <2> DEFINE r == requests[q]
  <2>1. UNCHANGED <<topics, aliases, edges, bundles, memory>> /\ edges' \subseteq Edge
    BY <1>6 DEF FindNode, IInv, TablesOK
  <2>2. RequestOK(r, aliases', edges', bundles') /\ r.phase = "link" /\ r \in Request
    BY <1>6, <2>1 DEF FindNode, IInv, RequestsOK, RequestOK
  <2>3. PICK e \in r.todo : requests' = [requests EXCEPT ![q] =
                 IF Node(e) \in topics THEN WithEdge(q, r, e)
                 ELSE [r EXCEPT !.phase = "insert", !.missing = e]]
    BY <1>6 DEF FindNode
  <2>4. CASE Node(e) \in topics
    <3>1. RequestOK(WithEdge(q, r, e), aliases', edges', bundles')
      BY <2>1, <2>2, WithEdgeOK DEF IInv, RequestsOK
    <3> QED BY <2>1, <2>3, <2>4, <3>1, RequestStep, TablesStep DEF IInv
  <2>5. CASE Node(e) \notin topics
    <3>1. RequestOK([r EXCEPT !.phase = "insert", !.missing = e], aliases', edges', bundles')
      BY <2>2 DEF RequestOK, Request, Settled
    <3> QED BY <2>1, <2>3, <2>5, <3>1, RequestStep, TablesStep DEF IInv
  <2> QED BY <2>4, <2>5
<1>7. ASSUME NEW q \in Requests, InsertNode(q) PROVE IInv'
  <2> DEFINE r == requests[q]
             e == r.missing
             s == WithEdge(q, r, e)
  <2>1. UNCHANGED <<topics, aliases, edges, bundles, memory>> /\ edges' \subseteq Edge
    BY <1>7 DEF InsertNode, IInv, TablesOK
  <2>2. /\ RequestOK(r, aliases', edges', bundles') /\ r.phase = "insert" /\ r \in Request
        /\ e \in r.todo /\ e \in Entities
    BY <1>7, <2>1 DEF InsertNode, IInv, RequestsOK, RequestOK, Request
  <2>3. RequestOK(s, aliases', edges', bundles') /\ s.phase = "link"
    BY <2>1, <2>2, WithEdgeOK DEF IInv, RequestsOK, WithEdge, Request
  <2>4. RequestOK([s EXCEPT !.nodes = @ \cup {Node(e)}], aliases', edges', bundles')
    BY <2>2, <2>3 DEF RequestOK, Request, Settled
  <2> QED BY <1>7, <2>1, <2>4, RequestStep, TablesStep DEF IInv, InsertNode
<1>8. ASSUME NEW q \in Requests, CommitLinks(q) PROVE IInv'
  <2> DEFINE r == requests[q]
  <2>1. /\ RequestOK(r, aliases, edges, bundles) /\ r.phase = "link" /\ r \in Request
        /\ r.todo = {} /\ r.links \subseteq Edge /\ r.nodes \subseteq {Node(e) : e \in Entities}
        /\ topics' = topics \cup r.nodes /\ edges' = edges \cup r.links
        /\ UNCHANGED <<aliases, bundles, memory>>
        /\ requests' = [requests EXCEPT ![q] =
               [r EXCEPT !.phase = "check", !.nodes = {}, !.links = {}]]
    BY <1>8 DEF CommitLinks, IInv, RequestsOK, RequestOK, Request
  <2>2. RequestOK([r EXCEPT !.phase = "check", !.nodes = {}, !.links = {}],
                  aliases', edges', bundles')
    BY <2>1 DEF RequestOK, Request, Settled
  <2>3. RequestsOK'
    BY <2>1, <2>2, RequestStep
  <2>4. TablesOK'
    BY <2>1 DEF IInv, TablesOK
  <2>5. topics' \cap Topic = topics \cap Topic
    BY <2>1, NodesAreNoTopics
  <2>6. TopicsKeepAnAlias' /\ AnswersAreLinked'
    BY <2>1, <2>5 DEF IInv, TopicsKeepAnAlias, AnswersAreLinked
  <2> QED BY <2>3, <2>4, <2>6 DEF IInv
<1>9. ASSUME NEW q \in Requests, PersistBundle(q) PROVE IInv'
  <2> DEFINE r == requests[q]
  <2>1. /\ RequestOK(r, aliases, edges, bundles) /\ r.phase = "check" /\ r \in Request
        /\ r.bundle \in Bundle /\ Grounded(r.bundle)
        /\ bundles' = bundles \cup {r.bundle}
        /\ UNCHANGED <<topics, aliases, edges, memory>>
        /\ requests' = [requests EXCEPT ![q] = [r EXCEPT !.phase = "record"]]
    BY <1>9 DEF PersistBundle, IInv, RequestsOK, RequestOK
  <2>2. RequestOK([r EXCEPT !.phase = "record"], aliases', edges', bundles')
    BY <2>1 DEF RequestOK, Request, Settled
  <2>3. RequestsOK'
    BY <2>1, <2>2, RequestStep
  <2>4. TablesOK' /\ TopicsKeepAnAlias' /\ AnswersAreLinked'
    BY <2>1 DEF IInv, TablesOK, TopicsKeepAnAlias, AnswersAreLinked
  <2> QED BY <2>3, <2>4 DEF IInv
<1>10. ASSUME NEW q \in Requests, RecordQuestion(q) PROVE IInv'
  <2> DEFINE r == requests[q]
             m == [question |-> r.question, topic |-> r.topic, bundle |-> r.bundle.id]
  <2>1. /\ RequestOK(r, aliases, edges, bundles) /\ r.phase = "record"
        /\ r.question \in Questions /\ r.topic \in Topic /\ r.bundle.id \in Bundles
        /\ r.bundle \in bundles /\ r.bundle.grounded
        /\ memory' = memory \cup {m}
        /\ UNCHANGED <<topics, aliases, edges, bundles>>
        /\ requests' = [requests EXCEPT ![q] = NoRequest]
    BY <1>10 DEF RecordQuestion, IInv, RequestsOK, RequestOK, Settled, Bundle, Grounded
  <2>2. RequestsOK'
    BY <2>1, NoRequestOK, RequestStep
  <2>3. TablesOK'
    BY <2>1 DEF IInv, TablesOK, RequestOK, Settled
  <2>4. TopicsKeepAnAlias'
    BY <2>1 DEF IInv, TopicsKeepAnAlias
  <2>5. AnswersAreLinked'
    <3>1. \A e \in r.bundle.entities : Knows(edges, r.topic, e)
      BY <2>1 DEF RequestOK
    <3> QED BY <2>1, <3>1 DEF IInv, AnswersAreLinked, Knows
  <2> QED BY <2>2, <2>3, <2>4, <2>5 DEF IInv
<1> QED
  BY <1>0, <1>1, <1>2, <1>3, <1>4, <1>5, <1>6, <1>7, <1>8, <1>9, <1>10
  DEF Next, StructuringFails, Refuse, RejectUngrounded, Abort

-----------------------------------------------------------------------------
\* The inductive invariant holds in every reachable state.
THEOREM Inductive == Spec => []IInv
BY InitIInv, StepIInv, PTL DEF Spec

\* Every table and every request has its columns' values: no answer is remembered without
\* a topic.
THEOREM TypeCorrect == Spec => []TypeOK
<1>1. IInv => TypeOK
  BY DEF IInv, TablesOK, RequestsOK, TypeOK
<1> QED BY <1>1, Inductive, PTL

\* No topic that a question created is left without an alias (resolve_topic).
THEOREM TopicsFound == Spec => []TopicsKeepAnAlias
<1>1. IInv => TopicsKeepAnAlias
  BY DEF IInv
<1> QED BY <1>1, Inductive, PTL

\* Answers to questions with the same normalized text hang from the same topic.
THEOREM OneTopicPerAlias == Spec => []SameAliasSameTopic
<1>1. IInv => SameAliasSameTopic
  BY DEF IInv, TablesOK, SameAliasSameTopic
<1> QED BY <1>1, Inductive, PTL

\* A remembered answer has its grounded bundle and the edges to all its entities in the
\* database (ask: link, check, persist and record are four transactions).
THEOREM AnswersLinked == Spec => []AnswersAreLinked
<1>1. IInv => AnswersAreLinked
  BY DEF IInv
<1> QED BY <1>1, Inductive, PTL
=============================================================================
