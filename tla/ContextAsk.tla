------------------------------ MODULE ContextAsk ------------------------------
(***************************************************************************)
(* POST /v1/context/ask in one workspace: the question is resolved to a    *)
(* topic, the entities of the bundle are linked to that topic, the bundle  *)
(* is checked and persisted, and the answer is remembered.  These are four *)
(* transactions of one session, and PostgreSQL's unique constraints on     *)
(* topics and aliases are all that keeps concurrent requests apart.        *)
(***************************************************************************)
EXTENDS Naturals, FiniteSets, FiniteSetsExt

CONSTANTS
    Questions,  \* questions with their hints
    Epics,      \* the ones whose hint has an epic_key
    Alias,      \* alias_norm of a question, of its epic_key for an epic
    Name,       \* canonical name of the topic it creates: epic_key, squad or title
    Entities,   \* canonical names of the issues and docs the connectors return
    Bundles,    \* bundle ids
    Models,     \* the primary model of the router and its fallbacks
    Requests,   \* HTTP requests that may be in flight together
    None

ASSUME EpicsAreQuestions == Epics \subseteq Questions
ASSUME AliasAndNameAreTotal == Questions \subseteq DOMAIN Alias \cap DOMAIN Name
ASSUME ModelsAreCounted == Models \in Nat \ {0}
ASSUME NoneIsNoBundle == None \notin Bundles \cup Entities \cup Questions

VARIABLES
    topics,     \* committed rows of topics: <<type, canonical_name>>
    aliases,    \* committed rows of topic_aliases: <<alias_norm, topic>>
    edges,      \* committed rows of topic_relations: <<from, to, source bundle>>
    bundles,    \* committed rows of context_bundles
    memory,     \* committed rows of context_questions
    requests    \* the requests in flight

vars == <<topics, aliases, edges, bundles, memory, requests>>

\* The topic that resolve_topic looks for or creates.
Wanted(u) == <<IF u \in Epics THEN "epic" ELSE "generic", Name[u]>>

\* The node of an issue or doc.
Node(e) == <<"entity", e>>

Topic == {Wanted(u) : u \in Questions}
Edge  == Topic \X {Node(e) : e \in Entities} \X Bundles

Bundle == [id : Bundles, entities : SUBSET Entities, grounded : BOOLEAN]

NoBundle == [id |-> None, entities |-> {}, grounded |-> FALSE]

Request == [question : Questions \cup {None},
            phase : {"idle", "resolve", "create", "alias", "link", "insert",
                     "check", "record"},
            bundle : Bundle \cup {NoBundle},     \* held in memory until it is persisted
            topic : Topic \cup {None},
            todo : SUBSET Entities,              \* entities not yet linked
            missing : Entities \cup {None},      \* entity whose node was not found
            nodes : SUBSET (Topic \cup {Node(e) : e \in Entities}),
            links : SUBSET Edge]                 \* rows of the open transaction

NoRequest == [question |-> None, phase |-> "idle", bundle |-> NoBundle, topic |-> None,
              todo |-> {}, missing |-> None, nodes |-> {}, links |-> {}]

Init == /\ topics = {} /\ aliases = {} /\ edges = {}
        /\ bundles = {} /\ memory = {}
        /\ requests = [q \in Requests |-> NoRequest]

-----------------------------------------------------------------------------
\* A bundle id no row and no request has.
Unused(b) == /\ \A row \in bundles : row.id # b
             /\ \A edge \in edges : edge[3] # b
             /\ \A q \in Requests : requests[q].bundle.id # b

\* A model does not answer, its answer costs too much, does not have the schema, or does.
Replies == {"unreachable", "expensive", "malformed", "valid"}

\* structured_complete walks the models until one gives a valid answer; one that is too
\* expensive ends the walk.
Structured(reply) ==
    LET last == {i \in 1..Models : reply[i] \in {"expensive", "valid"}}
    IN  last # {} /\ reply[Min(last)] = "valid"

\* The builder calls the connectors and the models, and has written nothing.
Ask(q, u, b) ==
    /\ requests[q].phase = "idle"
    /\ Unused(b)
    /\ \E reply \in [1..Models -> Replies] : Structured(reply)
    /\ \E found \in SUBSET Entities, grounded \in BOOLEAN :
         requests' = [requests EXCEPT ![q] =
             [NoRequest EXCEPT !.question = u, !.phase = "resolve",
                               !.bundle = [id |-> b, entities |-> found,
                                           grounded |-> grounded]]]
    /\ UNCHANGED <<topics, aliases, edges, bundles, memory>>

\* No model gave a valid answer: 502, or 500 if one was too expensive; nothing was written.
StructuringFails(q) == /\ requests[q].phase = "idle"
                       /\ \E reply \in [1..Models -> Replies] : ~Structured(reply)
                       /\ UNCHANGED vars

\* An error, a refusal or a crash: the open transaction is rolled back.
GiveUp(q) == /\ requests' = [requests EXCEPT ![q] = NoRequest]
             /\ UNCHANGED <<topics, aliases, edges, bundles, memory>>

-----------------------------------------------------------------------------
\* resolve_topic.

\* Bug: the topic just created is not returned.
ResolvedToNothing(r, t) == [r EXCEPT !.phase = "link", !.todo = r.bundle.entities,
                                     !.nodes = {}]

\* Request r has its topic and goes on to link_entities.
Resolved(r, t) == [r EXCEPT !.topic = t, !.phase = "link",
                            !.todo = r.bundle.entities, !.nodes = {}]

\* The committed topics a question is known by: at most one.
Known(u) == IF u \in Epics THEN topics \cap {Wanted(u)}
            ELSE {t \in topics : <<Alias[u], t>> \in aliases}

LookUp(q) ==
    LET r == requests[q]
    IN  /\ r.phase = "resolve"
        /\ \/ \E t \in Known(r.question) :
                requests' = [requests EXCEPT ![q] = Resolved(r, t)]
           \/ /\ Known(r.question) = {}
              /\ requests' = [requests EXCEPT ![q].phase = "create"]
        /\ UNCHANGED <<topics, aliases, edges, bundles, memory>>

\* An INSERT waits for the transaction that inserted the same key.
Awaited(q, t) == \E p \in Requests \ {q} : t \in requests[p].nodes

\* Bug: the topic is committed before its alias.
CreateTopicAlone(q) ==
    LET t == Wanted(requests[q].question)
    IN  /\ requests[q].phase = "create"
        /\ ~Awaited(q, t) /\ t \notin topics
        /\ topics' = topics \cup {t}
        /\ requests' = [requests EXCEPT ![q].phase = "alias", ![q].nodes = {t}]
        /\ UNCHANGED <<aliases, edges, bundles, memory>>

CreateTopic(q) ==
    LET t == Wanted(requests[q].question)
    IN  /\ requests[q].phase = "create"
        /\ ~Awaited(q, t) /\ t \notin topics
        /\ requests' = [requests EXCEPT ![q].phase = "alias", ![q].nodes = {t}]
        /\ UNCHANGED <<topics, aliases, edges, bundles, memory>>

\* Bug: nothing makes an alias unique.
AnyAlias(a) == TRUE

AliasFree(a) == \A row \in aliases : row[1] # a

AttachAlias(q) ==
    LET r == requests[q]
        t == Wanted(r.question)
    IN  /\ r.phase = "alias"
        /\ AliasFree(Alias[r.question])
        /\ topics' = topics \cup r.nodes
        /\ aliases' = aliases \cup {<<Alias[r.question], t>>}
        /\ requests' = [requests EXCEPT ![q] = Resolved(r, t)]
        /\ UNCHANGED <<edges, bundles, memory>>

\* uq_topics_ws_name_type or uq_topic_aliases_ws_norm refuses the row: 500.
Refuse(q) ==
    LET r == requests[q]
    IN  /\ \/ r.phase = "create" /\ Wanted(r.question) \in topics
           \/ r.phase = "alias" /\ ~AliasFree(Alias[r.question])
           \/ r.phase = "insert" /\ Node(r.missing) \in topics
        /\ GiveUp(q)

-----------------------------------------------------------------------------
\* link_entities.

\* Bug: an edge to the entity from any topic is taken for this one.
LinkedByAnyTopic(q, e) == \E edge \in edges : edge[2] = Node(e)

\* An edge from the request's topic to the entity is already committed.
Linked(q, e) == \E edge \in edges : edge[1] = requests[q].topic /\ edge[2] = Node(e)

\* Request r after the edge to entity e is skipped or added.
WithEdge(q, r, e) ==
    [r EXCEPT !.phase = "link", !.todo = @ \ {e}, !.missing = None,
              !.links = @ \cup IF Linked(q, e) THEN {}
                               ELSE {<<r.topic, Node(e), r.bundle.id>>}]

FindNode(q) ==
    LET r == requests[q]
    IN  /\ r.phase = "link"
        /\ \E e \in r.todo :
             requests' = [requests EXCEPT ![q] =
                 IF Node(e) \in topics THEN WithEdge(q, r, e)
                 ELSE [r EXCEPT !.phase = "insert", !.missing = e]]
        /\ UNCHANGED <<topics, aliases, edges, bundles, memory>>

InsertNode(q) ==
    LET r == requests[q]
        e == r.missing
    IN  /\ r.phase = "insert"
        /\ ~Awaited(q, Node(e)) /\ Node(e) \notin topics
        /\ requests' = [requests EXCEPT ![q] =
               [WithEdge(q, r, e) EXCEPT !.nodes = @ \cup {Node(e)}]]
        /\ UNCHANGED <<topics, aliases, edges, bundles, memory>>

CommitLinks(q) ==
    LET r == requests[q]
    IN  /\ r.phase = "link" /\ r.todo = {}
        /\ topics' = topics \cup r.nodes
        /\ edges' = edges \cup r.links
        /\ requests' = [requests EXCEPT ![q] =
               [r EXCEPT !.phase = "check", !.nodes = {}, !.links = {}]]
        /\ UNCHANGED <<aliases, bundles, memory>>

-----------------------------------------------------------------------------
\* The rest of ask.

\* _check_grounding: every claim cites sources of the bundle.
Grounded(bundle) == bundle.grounded

RejectUngrounded(q) ==
    /\ requests[q].phase = "check" /\ ~Grounded(requests[q].bundle)
    /\ GiveUp(q)

PersistBundle(q) ==
    /\ requests[q].phase = "check" /\ Grounded(requests[q].bundle)
    /\ bundles' = bundles \cup {requests[q].bundle}
    /\ requests' = [requests EXCEPT ![q].phase = "record"]
    /\ UNCHANGED <<topics, aliases, edges, memory>>

RecordQuestion(q) ==
    LET r == requests[q]
    IN  /\ r.phase = "record"
        /\ memory' = memory \cup {[question |-> r.question, topic |-> r.topic,
                                   bundle |-> r.bundle.id]}
        /\ requests' = [requests EXCEPT ![q] = NoRequest]
        /\ UNCHANGED <<topics, aliases, edges, bundles>>

\* The process dies, or the database drops the connection or picks the request
\* as the victim of a deadlock.
Abort(q) == requests[q].phase # "idle" /\ GiveUp(q)

Next == \E q \in Requests :
           \/ \E u \in Questions, b \in Bundles : Ask(q, u, b)
           \/ StructuringFails(q)
           \/ LookUp(q) \/ CreateTopic(q) \/ AttachAlias(q) \/ Refuse(q)
           \/ FindNode(q) \/ InsertNode(q) \/ CommitLinks(q)
           \/ RejectUngrounded(q) \/ PersistBundle(q) \/ RecordQuestion(q)
           \/ Abort(q)

Spec == Init /\ [][Next]_vars

-----------------------------------------------------------------------------
\* Every table and every request has its columns' values; in particular an
\* answer is never remembered without a topic.
TypeOK ==
    /\ topics \subseteq Topic \cup {Node(e) : e \in Entities}
    /\ aliases \subseteq {Alias[u] : u \in Questions} \X Topic
    /\ edges \subseteq Edge
    /\ bundles \subseteq Bundle
    /\ memory \subseteq [question : Questions, topic : Topic, bundle : Bundles]
    /\ requests \in [Requests -> Request]

\* A topic that a question created can be found again: it has an alias.  The
\* flush of the topic and the insertion of the alias are one transaction, and a
\* crash or a refused alias must leave neither (resolve_topic).
TopicsKeepAnAlias ==
    \A t \in topics \cap Topic : \E row \in aliases : row[2] = t

\* Two answers to questions with the same normalized text hang from the same
\* topic, also when the questions first came in together and were spelled
\* differently (resolve_topic under its unique constraints).
SameAliasSameTopic ==
    \A m, n \in memory :
        {m.question, n.question} \cap Epics = {} /\ Alias[m.question] = Alias[n.question]
            => m.topic = n.topic

\* Every remembered answer has its bundle in the database, with its claims
\* grounded, and the graph knows each entity of that bundle under the topic of
\* the answer, although edges that exist are skipped and other requests link the
\* same entities at the same time (link_entities; ask: link, check, persist and
\* record are four transactions).
AnswersAreLinked ==
    \A m \in memory :
        \E row \in bundles :
            /\ row.id = m.bundle /\ row.grounded
            /\ \A e \in row.entities :
                  \E edge \in edges : edge[1] = m.topic /\ edge[2] = Node(e)

\* No question is out of reach of the topics: it is known, or the topic and the
\* alias that would be created for it are free (resolve_topic: "Return the
\* canonical topic id for a natural-language question ... Falling back, create a
\* new generic topic with the alias attached").
EveryQuestionResolves ==
    \A u \in Questions :
        Known(u) # {} \/ (Wanted(u) \notin topics /\ AliasFree(Alias[u]))
=============================================================================
