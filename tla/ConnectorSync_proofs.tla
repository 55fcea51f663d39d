-------------------------- MODULE ConnectorSync_proofs --------------------------
(***************************************************************************)
(* Theorems of ConnectorSync, for any documents, contents, endpoints and   *)
(* overlapping requests, refused documents, lost answers and crashes.      *)
(***************************************************************************)
EXTENDS ConnectorSync, TLAPS

\* A row that says it was ingested has a copy in Onyx, of whatever content.
RowsAreIndexed == \A d \in Docs : rows[d].ingested => onyx[d] # 0

\* What a sync in progress may rely on, with the index x: the same of its uncommitted rows,
\* and the documents it has dealt with are in Onyx.
DraftIsIndexed(r, x) ==
    r.phase = "writing" =>
        /\ \A d \in r.todo : r.pulled[d] # 0
        /\ \A d \in Docs : /\ r.draft[d].ingested => x[d] # 0
                           /\ d \notin r.todo /\ r.pulled[d] # 0 => x[d] # 0

IInv == TypeOK /\ RowsAreIndexed /\ \A q \in Requests : DraftIsIndexed(requests[q], onyx)

-----------------------------------------------------------------------------
\* Requests and settings.

LEMMA NoRequestType == NoRequest \in Request /\ NoRequest.phase = "idle"
BY DEF NoRequest, Request, NewSetting, Setting, NoRow, Row

\* An UPDATE of some columns leaves a settings row.
LEMMA FlushedType ==
    ASSUME TypeOK, NEW q \in Requests, NEW new \in Setting, NEW sent
    PROVE  Flushed(q, new, sent) \in Setting
<1> DEFINE f == Flushed(q, new, sent)
<1>1. setting \in Setting
  BY DEF TypeOK
<1>2. DOMAIN setting = {"secret", "config", "validation", "docset", "retrieval", "active"}
  BY <1>1 DEF Setting
<1>3. f = [c \in {"secret", "config", "validation", "docset", "retrieval", "active"} |->
              IF c \notin sent /\ new[c] = requests[q].base[c] THEN setting[c] ELSE new[c]]
  BY <1>2 DEF Flushed
<1>4. f = [secret |-> f.secret, config |-> f.config, validation |-> f.validation,
           docset |-> f.docset, retrieval |-> f.retrieval, active |-> f.active]
  BY <1>3
<1>5. /\ f.secret \in {setting.secret, new.secret}
      /\ f.config \in {setting.config, new.config}
      /\ f.validation \in {setting.validation, new.validation}
      /\ f.docset \in {setting.docset, new.docset}
      /\ f.retrieval \in {setting.retrieval, new.retrieval}
      /\ f.active \in {setting.active, new.active}
  BY <1>3
<1> HIDE DEF f
<1>6. f \in Setting
  BY <1>1, <1>4, <1>5 DEF Setting
<1> QED BY <1>6 DEF f

\* The settings rows that requests write.
LEMMA SettingsType ==
    ASSUME NEW s \in Setting
    PROVE  /\ Unvalidated(s) \in Setting /\ MarkFailed(s) \in Setting
           /\ WithSecret(s) \in Setting /\ Activated(s) \in Setting
           /\ [s EXCEPT !.docset = TRUE] \in Setting
           /\ [s EXCEPT !.active = FALSE] \in Setting
           /\ \A complete \in BOOLEAN : [Unvalidated(s) EXCEPT !.config = complete] \in Setting
           /\ [Unvalidated(s) EXCEPT !.secret = FALSE] \in Setting
           /\ \A docset \in BOOLEAN, retrieval \in {"fresh", "error", "other"} :
                 Probed(s, docset, retrieval) \in Setting
           /\ \A retrieval \in {"fresh", "other"} : Finished(s, retrieval) \in Setting
<1>1. Unvalidated(s) \in Setting
  BY DEF Setting, Unvalidated
<1>2. MarkFailed(s) \in Setting
  BY DEF Setting, MarkFailed
<1>3. WithSecret(s) \in Setting
  BY <1>1 DEF Setting, WithSecret
<1>4. Activated(s) \in Setting
  <2>1. [s EXCEPT !.active = TRUE] \in Setting
    BY DEF Setting
  <2> QED BY <2>1 DEF Activated
<1>5. [s EXCEPT !.docset = TRUE] \in Setting /\ [s EXCEPT !.active = FALSE] \in Setting
  BY DEF Setting
<1>6. ASSUME NEW complete \in BOOLEAN PROVE [Unvalidated(s) EXCEPT !.config = complete] \in Setting
  BY <1>1 DEF Setting
<1>7. [Unvalidated(s) EXCEPT !.secret = FALSE] \in Setting
  BY <1>1 DEF Setting
<1>8. ASSUME NEW docset \in BOOLEAN, NEW retrieval \in {"fresh", "error", "other"}
      PROVE  Probed(s, docset, retrieval) \in Setting
  BY DEF Setting, Probed
<1>9. ASSUME NEW retrieval \in {"fresh", "other"} PROVE Finished(s, retrieval) \in Setting
  BY DEF Setting, Finished
<1> QED BY <1>1, <1>2, <1>3, <1>4, <1>5, <1>6, <1>7, <1>8, <1>9

\* A request in the state r, in a step that takes nothing out of Onyx.
LEMMA RequestStep ==
    ASSUME IInv, NEW q \in Requests, NEW r \in Request,
           requests' = [requests EXCEPT ![q] = r],
           DraftIsIndexed(r, onyx'),
           \A d \in Docs : onyx[d] # 0 => onyx'[d] # 0
    PROVE  /\ requests' \in [Requests -> Request]
           /\ \A p \in Requests : DraftIsIndexed(requests'[p], onyx')
<1>1. requests \in [Requests -> Request] /\ \A p \in Requests : DraftIsIndexed(requests[p], onyx)
  BY DEF IInv, TypeOK
<1>2. ASSUME NEW p \in Requests PROVE DraftIsIndexed(requests'[p], onyx')
  <2>1. CASE p = q
    BY <1>1, <2>1
  <2>2. CASE p # q
    <3>1. requests'[p] = requests[p] /\ DraftIsIndexed(requests[p], onyx)
      BY <1>1, <2>2
    <3> QED BY <3>1 DEF DraftIsIndexed
  <2> QED BY <2>1, <2>2
<1> QED BY <1>1, <1>2

\* A request that answers, and leaves rows and index in agreement.
LEMMA AnswerKeeps ==
    ASSUME IInv, NEW q \in Requests, NEW new \in Setting, NEW sent, Answer(q, new, sent),
           onyx' \in [Docs -> Contents \cup {0}], rows' \in [Docs -> Row], crashes' = crashes,
           \A d \in Docs : onyx[d] # 0 => onyx'[d] # 0, RowsAreIndexed'
    PROVE  IInv'
<1>1. /\ setting' = Flushed(q, new, sent) /\ lock' = None
      /\ requests' = [requests EXCEPT ![q] = NoRequest] /\ source' = source
  BY DEF Answer
<1>2. /\ requests' \in [Requests -> Request]
      /\ \A p \in Requests : DraftIsIndexed(requests'[p], onyx')
  BY <1>1, RequestStep, NoRequestType DEF DraftIsIndexed
<1>3. setting' \in Setting
  BY <1>1, FlushedType DEF IInv
<1> QED BY <1>1, <1>2, <1>3 DEF IInv, TypeOK

\* One that touches neither.
LEMMA AnswerOnlyKeeps ==
    ASSUME IInv, NEW q \in Requests, NEW new \in Setting, NEW sent, Answer(q, new, sent),
           UNCHANGED <<onyx, rows>>
    PROVE  IInv'
<1>1. /\ onyx' \in [Docs -> Contents \cup {0}] /\ rows' \in [Docs -> Row] /\ crashes' = crashes
      /\ \A d \in Docs : onyx[d] # 0 => onyx'[d] # 0
      /\ RowsAreIndexed'
  BY DEF IInv, TypeOK, RowsAreIndexed, Answer
<1> QED BY <1>1, AnswerKeeps

-----------------------------------------------------------------------------
LEMMA InitIInv == Init => IInv
<1> SUFFICES ASSUME Init PROVE IInv
  OBVIOUS
<1>1. NewSetting \in Setting /\ NoRow \in Row /\ NoRow.ingested = FALSE
  BY DEF NewSetting, Setting, NoRow, Row
<1>2. TypeOK
  BY <1>1, NoRequestType, MaxCrashesIsNat DEF Init, TypeOK
<1>3. RowsAreIndexed
  BY <1>1 DEF Init, RowsAreIndexed
<1>4. ASSUME NEW q \in Requests PROVE DraftIsIndexed(requests[q], onyx)
  BY NoRequestType DEF Init, DraftIsIndexed
<1> QED BY <1>2, <1>3, <1>4 DEF IInv

\* The settings endpoints, and a sync that is refused or loses its upstream.
LEMMA EndpointKeeps ==
    ASSUME IInv, NEW q \in Requests,
           \/ SaveConfig(q) \/ SaveSecret(q) \/ DeleteSecret(q) \/ Probe(q)
           \/ EnsureDocumentSet(q) \/ Activate(q) \/ Deactivate(q)
           \/ RefuseSync(q) \/ LoseUpstream(q)
    PROVE  IInv'
<1> DEFINE s == requests[q].base
<1>1. s \in Setting
  BY DEF IInv, TypeOK, Request
<1>2. \E new \in Setting : \E sent : Answer(q, new, sent)
  BY <1>1, SettingsType DEF SaveConfig, SaveSecret, DeleteSecret, Probe, EnsureDocumentSet,
                            Activate, Deactivate, RefuseSync, LoseUpstream
<1>3. UNCHANGED <<onyx, rows>>
  BY DEF SaveConfig, SaveSecret, DeleteSecret, Probe, EnsureDocumentSet,
         Activate, Deactivate, RefuseSync, LoseUpstream
<1> QED BY <1>2, <1>3, AnswerOnlyKeeps

\* A request that changes its own state and the lock, and no row.
LEMMA PrivateStepKeeps ==
    ASSUME IInv, NEW q \in Requests, NEW r \in Request,
           requests' = [requests EXCEPT ![q] = r], DraftIsIndexed(r, onyx),
           lock' \in Requests \cup {None}, crashes' \in 0..MaxCrashes,
           UNCHANGED <<source, onyx, rows, setting>>
    PROVE  IInv'
<1>1. DraftIsIndexed(r, onyx')
  OBVIOUS
<1>2. /\ requests' \in [Requests -> Request]
      /\ \A p \in Requests : DraftIsIndexed(requests'[p], onyx')
  BY <1>1, RequestStep
<1> QED BY <1>2 DEF IInv, TypeOK, RowsAreIndexed

LEMMA StepIInv == IInv /\ [Next]_vars => IInv'
<1> SUFFICES ASSUME IInv, [Next]_vars PROVE IInv'
  OBVIOUS
<1> USE DEF IInv, TypeOK
<1>0. CASE UNCHANGED vars
  BY <1>0 DEF vars, RowsAreIndexed, DraftIsIndexed
<1>1. ASSUME NEW d \in Docs, Edit(d) PROVE IInv'
  BY <1>1 DEF Edit, RowsAreIndexed, DraftIsIndexed
<1>2. ASSUME NEW q \in Requests, NEW kind \in Kinds, Receive(q, kind) PROVE IInv'
  <2> DEFINE r == [NoRequest EXCEPT !.kind = kind, !.phase = "loaded", !.base = setting]
  <2>1. r \in Request /\ r.phase = "loaded"
    BY NoRequestType DEF Request
  <2> QED BY <1>2, <2>1, PrivateStepKeeps DEF Receive, DraftIsIndexed
<1>3. ASSUME NEW q \in Requests, ReceiveBridge(q) PROVE IInv'
  <2>1. PICK sent \in SUBSET Docs : requests' = [requests EXCEPT ![q] =
             [NoRequest EXCEPT !.kind = "bridge", !.phase = "pulled", !.base = setting,
                               !.pulled = [d \in Docs |-> IF d \in sent THEN source[d] ELSE 0]]]
    BY <1>3 DEF ReceiveBridge
  <2> DEFINE pulled == [d \in Docs |-> IF d \in sent THEN source[d] ELSE 0]
             r == [NoRequest EXCEPT !.kind = "bridge", !.phase = "pulled", !.base = setting,
                                    !.pulled = pulled]
  <2>2. pulled \in [Docs -> Contents \cup {0}]
    OBVIOUS
  <2> HIDE DEF pulled
  <2>3. r \in Request /\ r.phase = "pulled"
    BY <1>3, <2>2, NoRequestType DEF Request, ReceiveBridge
  <2> QED BY <1>3, <2>1, <2>3, PrivateStepKeeps DEF ReceiveBridge, DraftIsIndexed, pulled
<1>4. ASSUME NEW q \in Requests, Pull(q) PROVE IInv'
  <2> DEFINE r == [requests[q] EXCEPT !.phase = "pulled", !.pulled = source]
  <2>1. r \in Request /\ r.phase = "pulled"
    BY DEF Request
  <2>2. DraftIsIndexed(r, onyx)
    BY <2>1 DEF DraftIsIndexed
  <2>3. requests' = [requests EXCEPT ![q] = r] /\ UNCHANGED <<source, onyx, rows, setting, lock, crashes>>
    BY <1>4 DEF Pull
  <2> HIDE DEF r
  <2> QED BY <2>1, <2>2, <2>3, PrivateStepKeeps
<1>5. ASSUME NEW q \in Requests, OpenDocumentSet(q) PROVE IInv'
  <2> DEFINE todo == {d \in Docs : requests[q].pulled[d] # 0}
             r == [requests[q] EXCEPT !.phase = "writing", !.todo = todo, !.draft = rows]
  <2>1. r \in Request
    BY DEF Request
  <2>2. DraftIsIndexed(r, onyx)
    BY DEF DraftIsIndexed, RowsAreIndexed, Request
  <2>3. requests' = [requests EXCEPT ![q] = r]
    BY <1>5 DEF OpenDocumentSet
  <2> QED BY <1>5, <2>1, <2>2, <2>3, PrivateStepKeeps DEF OpenDocumentSet
<1>6. ASSUME NEW q \in Requests, NEW d \in Docs, SyncDocument(q, d) PROVE IInv'
  <2> DEFINE s == requests[q]
             content == s.pulled[d]
             changed == Changed(s.draft[d], content)
             row == [hash |-> content, ingested |-> changed \/ s.draft[d].ingested]
             r == [s EXCEPT !.todo = s.todo \ {d}, !.draft = [s.draft EXCEPT ![d] = row]]
  <2>1. /\ s \in Request /\ s.phase = "writing" /\ DraftIsIndexed(s, onyx) /\ d \in s.todo
        /\ content \in Contents \cup {0} /\ content # 0
    BY <1>6 DEF SyncDocument, DraftIsIndexed, Request
  <2>2. requests' = [requests EXCEPT ![q] = r]
    BY <1>6 DEF SyncDocument
  <2>3. onyx' = IF changed THEN [onyx EXCEPT ![d] = content] ELSE onyx
    BY <1>6 DEF SyncDocument
  <2>4. row \in Row /\ (row.ingested <=> changed \/ s.draft[d].ingested)
    BY <2>1 DEF Row
  <2> HIDE DEF row, changed
  <2>5. r \in Request
    BY <2>1, <2>4 DEF Request
  <2>6. onyx' \in [Docs -> Contents \cup {0}] /\ \A e \in Docs : onyx[e] # 0 => onyx'[e] # 0
    BY <2>1, <2>3
  <2>7. onyx'[d] # 0
    <3>1. changed \/ s.draft[d].ingested
      BY <2>1 DEF changed, Changed
    <3> QED BY <2>1, <2>3, <3>1 DEF DraftIsIndexed
  <2>8. DraftIsIndexed(r, onyx')
    <3>1. /\ r.phase = "writing" /\ r.pulled = s.pulled /\ r.todo = s.todo \ {d}
          /\ \A e \in Docs : r.draft[e] = IF e = d THEN row ELSE s.draft[e]
      BY <2>1 DEF Request
    <3> HIDE DEF r
    <3> QED BY <2>1, <2>6, <2>7, <3>1 DEF DraftIsIndexed
  <2>9. /\ requests' \in [Requests -> Request]
        /\ \A p \in Requests : DraftIsIndexed(requests'[p], onyx')
    BY <2>2, <2>5, <2>6, <2>8, RequestStep
  <2>10. RowsAreIndexed'
    BY <1>6, <2>6 DEF SyncDocument, RowsAreIndexed
  <2> QED BY <1>6, <2>6, <2>9, <2>10 DEF SyncDocument
<1>7. ASSUME NEW q \in Requests, NEW d \in Docs, IngestFails(q, d) PROVE IInv'
  <2> DEFINE s == requests[q]
             content == s.pulled[d]
             row == [hash |-> content, ingested |-> s.draft[d].ingested]
             new == MarkFailed([s.base EXCEPT !.docset = TRUE])
  <2>1. /\ s \in Request /\ s.phase = "writing" /\ DraftIsIndexed(s, onyx) /\ d \in s.todo
        /\ content \in Contents \cup {0} /\ content # 0
        /\ onyx' \in {onyx, [onyx EXCEPT ![d] = content]}
        /\ rows' = [s.draft EXCEPT ![d] = row] /\ Answer(q, new, {})
    BY <1>7 DEF IngestFails, DraftIsIndexed, Request
  <2>2. new \in Setting
    BY <2>1, SettingsType DEF Request
  <2>3. row \in Row /\ row.ingested = s.draft[d].ingested /\ s.draft \in [Docs -> Row]
    BY <2>1 DEF Row, Request
  <2> HIDE DEF row, new
  <2>4. onyx' \in [Docs -> Contents \cup {0}] /\ \A e \in Docs : onyx[e] # 0 => onyx'[e] # 0
    BY <2>1
  <2>5. rows' \in [Docs -> Row]
    BY <2>1, <2>3
  <2>6. RowsAreIndexed'
    BY <2>1, <2>3, <2>4 DEF RowsAreIndexed, DraftIsIndexed
  <2>7. crashes' = crashes
    BY <2>1 DEF Answer
  <2> QED BY <2>1, <2>2, <2>4, <2>5, <2>6, <2>7, AnswerKeeps
<1>8. ASSUME NEW q \in Requests, FinishSync(q) PROVE IInv'
  <2> DEFINE s == requests[q]
  <2>1. s \in Request /\ DraftIsIndexed(s, onyx) /\ s.phase = "writing" /\ rows' = s.draft /\ onyx' = onyx
    BY <1>8 DEF FinishSync
  <2>2. PICK retrieval \in {"fresh", "other"}, sent \in SUBSET {"retrieval"} :
          Answer(q, Finished(s.base, retrieval), sent)
    BY <1>8 DEF FinishSync
  <2>3. Finished(s.base, retrieval) \in Setting
    BY <2>1, SettingsType DEF Request
  <2>4. rows' \in [Docs -> Row] /\ RowsAreIndexed' /\ onyx' \in [Docs -> Contents \cup {0}]
        /\ crashes' = crashes /\ \A d \in Docs : onyx[d] # 0 => onyx'[d] # 0
    BY <2>1, <2>2 DEF Request, RowsAreIndexed, DraftIsIndexed, Answer
  <2> QED BY <2>2, <2>3, <2>4, AnswerKeeps
<1>9. ASSUME NEW q \in Requests, Crash(q) PROVE IInv'
  <2>1. crashes' \in 0..MaxCrashes /\ lock' \in Requests \cup {None}
    BY <1>9, MaxCrashesIsNat DEF Crash
  <2> QED BY <1>9, <2>1, NoRequestType, PrivateStepKeeps DEF Crash, DraftIsIndexed
<1> QED BY <1>0, <1>1, <1>2, <1>3, <1>4, <1>5, <1>6, <1>7, <1>8, <1>9, EndpointKeeps DEF Next

-----------------------------------------------------------------------------
\* The inductive invariant holds in every reachable state.
THEOREM Inductive == Spec => []IInv
BY InitIInv, StepIInv, PTL DEF Spec

\* Every variable keeps its type.
THEOREM TypeCorrect == Spec => []TypeOK
<1>1. IInv => TypeOK
  BY DEF IInv
<1> QED BY <1>1, Inductive, PTL

\* After any successful sync every document it pulled is in Onyx, whatever was refused, lost
\* or rolled back before (_persist_and_ingest, _upsert_document).
THEOREM NoneLeftOut == Spec => SuccessLeavesNoneOut
<1>1. ASSUME IInv, NEW q \in Requests, FinishSync(q), NEW d \in Docs, requests[q].pulled[d] # 0
      PROVE  onyx[d] # 0
  BY <1>1 DEF IInv, FinishSync, DraftIsIndexed
<1>2. IInv /\ [Next]_vars => [\A q \in Requests : FinishSync(q) =>
         \A d \in Docs : requests[q].pulled[d] # 0 => onyx[d] # 0]_vars
  BY <1>1
<1> QED BY <1>2, Inductive, PTL DEF Spec, SuccessLeavesNoneOut

-----------------------------------------------------------------------------
\* Syncs that Onyx refuses nothing and that do not die (Faults = {}), with any number of
\* requests.  A sync in progress holds the lock, its rows agree with the index, and what it
\* has dealt with is indexed as it was pulled.
WriterAgrees(q) ==
    requests[q].phase = "writing" =>
        /\ lock = q
        /\ \A d \in Docs : requests[q].draft[d].hash = onyx[d]
        /\ \A d \in Docs \ requests[q].todo : requests[q].pulled[d] \in {0, onyx[d]}

LockIsAWriters == lock # None => requests[lock].phase = "writing"

Agreement == IInv /\ RowsMatchIndex /\ LockIsAWriters /\ \A q \in Requests : WriterAgrees(q)

LEMMA InitAgreement == Init => Agreement
BY InitIInv, NoRequestType
   DEF Init, Agreement, RowsMatchIndex, LockIsAWriters, WriterAgrees, NoRow

\* A request that is not writing, before or after, and leaves rows, index and lock alone.
LEMMA BystanderAgrees ==
    ASSUME Agreement, IInv', NEW q \in Requests, NEW r \in Request,
           requests' = [requests EXCEPT ![q] = r], r.phase # "writing",
           requests[q].phase # "writing", UNCHANGED <<onyx, rows, lock>>
    PROVE  Agreement'
<1>1. /\ requests'[q] = r /\ \A p \in Requests \ {q} : requests'[p] = requests[p]
      /\ lock \in Requests \cup {None}
  BY DEF Agreement, IInv, TypeOK
<1>2. LockIsAWriters'
  BY <1>1 DEF Agreement, LockIsAWriters
<1>3. ASSUME NEW p \in Requests PROVE WriterAgrees(p)'
  BY <1>1 DEF Agreement, WriterAgrees
<1> QED BY <1>2, <1>3 DEF Agreement, RowsMatchIndex

\* A request that answers, with rows and index that agree unless another one is writing.
LEMMA AnswerAgrees ==
    ASSUME Agreement, IInv', NEW q \in Requests, NEW new, NEW sent, Answer(q, new, sent),
           \A d \in Docs : rows'[d].hash = onyx'[d]
    PROVE  Agreement'
<1>1. lock \in {None, q} /\ lock' = None /\ requests' = [requests EXCEPT ![q] = NoRequest]
  BY DEF Answer
<1>2. ASSUME NEW p \in Requests PROVE requests'[p].phase # "writing"
  <2>1. CASE p = q
    BY <1>1, <2>1, NoRequestType DEF Agreement, IInv, TypeOK
  <2>2. CASE p # q
    <3>1. requests'[p] = requests[p] /\ lock # p
      BY <1>1, <2>2, NoneIsNoRequest DEF Agreement, IInv, TypeOK
    <3> QED BY <3>1 DEF Agreement, WriterAgrees
  <2> QED BY <2>1, <2>2
<1> QED BY <1>1, <1>2 DEF Agreement, RowsMatchIndex, LockIsAWriters, WriterAgrees

LEMMA StepAgreement == ASSUME Faults = {}, Agreement, [Next]_vars PROVE Agreement'
<1>0. IInv /\ IInv' /\ requests \in [Requests -> Request]
  BY StepIInv DEF Agreement, IInv, TypeOK
<1>1. CASE UNCHANGED vars
  BY <1>0, <1>1 DEF vars, Agreement, RowsMatchIndex, LockIsAWriters, WriterAgrees
<1>2. ASSUME NEW d \in Docs, Edit(d) PROVE Agreement'
  BY <1>0, <1>2 DEF Edit, Agreement, RowsMatchIndex, LockIsAWriters, WriterAgrees
<1>3. ASSUME NEW q \in Requests, NEW kind \in Kinds, Receive(q, kind) PROVE Agreement'
  <2> DEFINE r == [NoRequest EXCEPT !.kind = kind, !.phase = "loaded", !.base = setting]
  <2>1. r \in Request /\ r.phase # "writing"
    BY <1>0, NoRequestType DEF IInv, TypeOK, Request
  <2>2. requests' = [requests EXCEPT ![q] = r] /\ requests[q].phase # "writing"
        /\ UNCHANGED <<onyx, rows, lock>>
    BY <1>3 DEF Receive
  <2> HIDE DEF r
  <2> QED BY <1>0, <2>1, <2>2, BystanderAgrees
<1>4. ASSUME NEW q \in Requests, ReceiveBridge(q) PROVE Agreement'
  <2>1. PICK sent \in SUBSET Docs : requests' = [requests EXCEPT ![q] =
             [NoRequest EXCEPT !.kind = "bridge", !.phase = "pulled", !.base = setting,
                               !.pulled = [d \in Docs |-> IF d \in sent THEN source[d] ELSE 0]]]
    BY <1>4 DEF ReceiveBridge
  <2>2. PICK r : r = [NoRequest EXCEPT !.kind = "bridge", !.phase = "pulled", !.base = setting,
                               !.pulled = [d \in Docs |-> IF d \in sent THEN source[d] ELSE 0]]
    OBVIOUS
  <2>3. r.phase # "writing" /\ requests[q].phase # "writing" /\ UNCHANGED <<onyx, rows, lock>>
    BY <1>4, <2>2 DEF ReceiveBridge, NoRequest
  <2>4. r \in Request
    BY <1>0, <2>1, <2>2 DEF IInv, TypeOK
  <2> QED BY <1>0, <2>1, <2>2, <2>3, <2>4, BystanderAgrees
<1>5. ASSUME NEW q \in Requests, Pull(q) PROVE Agreement'
  <2>1. PICK r : r = [requests[q] EXCEPT !.phase = "pulled", !.pulled = source]
    OBVIOUS
  <2>2. requests' = [requests EXCEPT ![q] = r] /\ requests[q].phase # "writing"
        /\ UNCHANGED <<onyx, rows, lock>>
    BY <1>5, <2>1 DEF Pull, Loaded
  <2>3. r \in Request /\ r.phase # "writing"
    BY <1>0, <2>1 DEF IInv, TypeOK, Request
  <2> QED BY <1>0, <2>2, <2>3, BystanderAgrees
<1>6. ASSUME NEW q \in Requests,
             \/ SaveConfig(q) \/ SaveSecret(q) \/ DeleteSecret(q) \/ Probe(q)
             \/ EnsureDocumentSet(q) \/ Activate(q) \/ Deactivate(q)
             \/ RefuseSync(q) \/ LoseUpstream(q)
      PROVE  Agreement'
  <2>1. PICK new, sent : Answer(q, new, sent)
    BY <1>6 DEF SaveConfig, SaveSecret, DeleteSecret, Probe, EnsureDocumentSet,
                Activate, Deactivate, RefuseSync, LoseUpstream
  <2>2. UNCHANGED <<onyx, rows>> /\ requests[q].phase # "writing"
    BY <1>6 DEF SaveConfig, SaveSecret, DeleteSecret, Probe, EnsureDocumentSet,
                Activate, Deactivate, RefuseSync, LoseUpstream, Loaded
  <2>3. lock = None
    BY <2>1, <2>2 DEF Answer, Agreement, LockIsAWriters
  <2> QED BY <1>0, <2>1, <2>2, <2>3, AnswerAgrees DEF Agreement, RowsMatchIndex
<1>7. ASSUME NEW q \in Requests, OpenDocumentSet(q) PROVE Agreement'
  <2>1. PICK r : r = [requests[q] EXCEPT !.phase = "writing",
                         !.todo = {d \in Docs : requests[q].pulled[d] # 0}, !.draft = rows]
    OBVIOUS
  <2>2. /\ requests' = [requests EXCEPT ![q] = r] /\ lock = None /\ lock' = q
        /\ UNCHANGED <<onyx, rows>>
    BY <1>7, <2>1 DEF OpenDocumentSet
  <2>3. /\ r.phase = "writing" /\ r.draft = rows /\ r.pulled = requests[q].pulled
        /\ r.todo = {d \in Docs : r.pulled[d] # 0}
    BY <1>0, <2>1 DEF Request
  <2>4. requests'[q] = r /\ \A p \in Requests \ {q} : requests'[p] = requests[p]
    BY <1>0, <2>2
  <2>5. WriterAgrees(q)'
    BY <2>2, <2>3, <2>4 DEF WriterAgrees, Agreement, RowsMatchIndex
  <2>6. ASSUME NEW p \in Requests \ {q} PROVE WriterAgrees(p)'
    BY <2>2, <2>4, <2>6, NoneIsNoRequest DEF WriterAgrees, Agreement
  <2>7. LockIsAWriters' /\ RowsMatchIndex'
    BY <2>2, <2>3, <2>4, NoneIsNoRequest DEF LockIsAWriters, RowsMatchIndex
  <2> QED BY <1>0, <2>5, <2>6, <2>7 DEF Agreement
<1>8. ASSUME NEW q \in Requests, NEW d \in Docs, SyncDocument(q, d) PROVE Agreement'
  <2>1. PICK content : content = requests[q].pulled[d]
    OBVIOUS
  <2>2. PICK changed : changed = Changed(requests[q].draft[d], content)
    OBVIOUS
  <2>3. PICK row : row = [hash |-> content, ingested |-> changed \/ requests[q].draft[d].ingested]
    OBVIOUS
  <2>4. PICK r : r = [requests[q] EXCEPT !.todo = requests[q].todo \ {d},
                                         !.draft = [requests[q].draft EXCEPT ![d] = row]]
    OBVIOUS
  <2>5. /\ requests' = [requests EXCEPT ![q] = r] /\ requests[q].phase = "writing"
        /\ onyx' = IF changed THEN [onyx EXCEPT ![d] = content] ELSE onyx
        /\ UNCHANGED <<rows, lock>>
    BY <1>8, <2>1, <2>2, <2>3, <2>4 DEF SyncDocument
  <2>6. /\ r.phase = "writing" /\ r.pulled = requests[q].pulled
        /\ r.todo = requests[q].todo \ {d}
        /\ \A e \in Docs : r.draft[e] = IF e = d THEN row ELSE requests[q].draft[e]
    BY <1>0, <2>4, <2>5 DEF IInv, TypeOK, Request
  <2>7. requests'[q] = r /\ \A p \in Requests \ {q} : requests'[p] = requests[p]
    BY <1>0, <2>5
  <2>8. lock = q /\ \A e \in Docs : requests[q].draft[e].hash = onyx[e]
    BY <2>5 DEF Agreement, WriterAgrees
  <2>9. onyx'[d] = content /\ \A e \in Docs \ {d} : onyx'[e] = onyx[e]
    BY <1>0, <2>2, <2>5, <2>8 DEF Changed, IInv, TypeOK
  <2>10. row.hash = content
    BY <2>3
  <2>11. WriterAgrees(q)'
    <3>1. \A e \in Docs : requests'[q].draft[e].hash = onyx'[e]
      BY <2>6, <2>7, <2>8, <2>9, <2>10
    <3>2. \A e \in Docs \ requests'[q].todo : requests'[q].pulled[e] \in {0, onyx'[e]}
      BY <2>1, <2>5, <2>6, <2>7, <2>9 DEF Agreement, WriterAgrees
    <3> QED BY <2>5, <2>8, <3>1, <3>2 DEF WriterAgrees
  <2>12. ASSUME NEW p \in Requests \ {q} PROVE WriterAgrees(p)'
    BY <2>5, <2>7, <2>8, <2>12 DEF WriterAgrees, Agreement
  <2>13. LockIsAWriters' /\ RowsMatchIndex'
    BY <2>5, <2>6, <2>7, <2>8, NoneIsNoRequest DEF LockIsAWriters, RowsMatchIndex
  <2> QED BY <1>0, <2>11, <2>12, <2>13 DEF Agreement
<1>9. ASSUME NEW q \in Requests, FinishSync(q) PROVE Agreement'
  <2>1. PICK new, sent : Answer(q, new, sent)
    BY <1>9 DEF FinishSync
  <2>2. \A d \in Docs : rows'[d].hash = onyx'[d]
    BY <1>9 DEF FinishSync, Agreement, WriterAgrees
  <2> QED BY <1>0, <2>1, <2>2, AnswerAgrees
<1>10. \A q \in Requests : ~Crash(q) /\ \A d \in Docs : ~IngestFails(q, d)
  BY DEF Crash, IngestFails
<1> QED BY <1>1, <1>2, <1>3, <1>4, <1>5, <1>6, <1>7, <1>8, <1>9, <1>10 DEF Next

\* As long as Onyx refuses no document and no sync dies, rows and index differ only while a
\* sync is in progress, however many requests overlap (the lock of the settings row).
THEOREM RowsFollowTheIndex == ASSUME Faults = {} PROVE Spec => []RowsMatchIndex
<1>1. Agreement /\ [Next]_vars => Agreement'
  BY StepAgreement
<1>2. Agreement => RowsMatchIndex
  BY DEF Agreement
<1> QED BY <1>1, <1>2, InitAgreement, PTL DEF Spec

\* Then a sync that succeeds leaves in Onyx the very content it pulled, also when another
\* one pulled older content before or after it.
THEOREM IndexedAsPulled == ASSUME Faults = {} PROVE Spec => SuccessIndexesWhatWasPulled
<1>1. Agreement /\ [Next]_vars => Agreement'
  BY StepAgreement
<1>2. ASSUME Agreement, NEW q \in Requests, FinishSync(q), NEW d \in Docs
      PROVE  requests[q].pulled[d] \in {0, onyx[d]}
  BY <1>2 DEF Agreement, FinishSync, WriterAgrees
<1>3. Agreement /\ [Next]_vars => [\A q \in Requests : FinishSync(q) =>
         \A d \in Docs : requests[q].pulled[d] \in {0, onyx[d]}]_vars
  BY <1>2
<1> QED BY <1>1, <1>3, InitAgreement, PTL DEF Spec, SuccessIndexesWhatWasPulled

-----------------------------------------------------------------------------
\* One request at a time: the row it loaded is still the committed one when it answers, so
\* that it writes what it decided.
OneAtATime == \A p, q \in Requests : p = q

Reads == \A q \in Requests : requests[q].phase # "idle" => requests[q].base = setting

Serial == IInv /\ Reads /\ ActiveIsConfigured

LEMMA FlushedAlone ==
    ASSUME TypeOK, NEW q \in Requests, requests[q].base = setting, NEW new \in Setting, NEW sent
    PROVE  Flushed(q, new, sent) = new
<1>1. Flushed(q, new, sent) = [c \in DOMAIN setting |-> new[c]]
  BY DEF Flushed
<1>2. DOMAIN setting = DOMAIN new /\ new = [c \in DOMAIN new |-> new[c]]
  BY DEF TypeOK, Setting
<1> QED BY <1>1, <1>2

\* What the endpoints and syncs make of a row whose activation is justified.
Configured(s) == s.active => s.secret /\ s.config

LEMMA StaysConfigured ==
    ASSUME NEW s \in Setting, Configured(s)
    PROVE  /\ Configured(Unvalidated(s)) /\ Configured(MarkFailed(s))
           /\ Configured(WithSecret(s)) /\ Configured(Activated(s))
           /\ Configured([s EXCEPT !.docset = TRUE])
           /\ Configured([s EXCEPT !.active = FALSE])
           /\ \A complete \in BOOLEAN : Configured([Unvalidated(s) EXCEPT !.config = complete])
           /\ Configured([Unvalidated(s) EXCEPT !.secret = FALSE])
           /\ \A docset \in BOOLEAN, retrieval \in {"fresh", "error", "other"} :
                 Configured(Probed(s, docset, retrieval))
           /\ \A retrieval \in {"fresh", "other"} : Configured(Finished(s, retrieval))
BY DEF Setting, Configured, Unvalidated, MarkFailed, WithSecret, Activated, Activable, Probed,
       Finished

LEMMA StepSerial == ASSUME OneAtATime, Serial, [Next]_vars PROVE Serial'
<1>0. IInv /\ IInv' /\ requests \in [Requests -> Request] /\ TypeOK
  BY StepIInv DEF Serial, IInv, TypeOK
\* An answer.
<1>1. ASSUME NEW q \in Requests, NEW new \in Setting, NEW sent, Answer(q, new, sent),
             requests[q].phase # "idle", Configured(new)
      PROVE  Serial'
  <2>1. setting' = new /\ requests' = [requests EXCEPT ![q] = NoRequest]
    BY <1>0, <1>1, FlushedAlone DEF Serial, Reads, Answer
  <2>2. \A p \in Requests : requests'[p].phase = "idle"
    BY <1>0, <2>1, NoRequestType DEF OneAtATime
  <2> QED BY <1>0, <1>1, <2>1, <2>2 DEF Serial, Reads, ActiveIsConfigured, Configured
\* A step that leaves the row alone.
<1>2. ASSUME NEW q \in Requests, NEW r, requests' = [requests EXCEPT ![q] = r], setting' = setting,
             r.phase # "idle" => r.base = setting
      PROVE  Serial'
  <2>1. \A p \in Requests : requests'[p] = r
    BY <1>0, <1>2 DEF OneAtATime
  <2> QED BY <1>0, <1>2, <2>1 DEF Serial, Reads, ActiveIsConfigured
<1>3. CASE UNCHANGED vars
  BY <1>0, <1>3 DEF vars, Serial, Reads, ActiveIsConfigured
<1>4. ASSUME NEW d \in Docs, Edit(d) PROVE Serial'
  BY <1>0, <1>4 DEF Edit, Serial, Reads, ActiveIsConfigured
<1>5. ASSUME NEW q \in Requests, NEW kind \in Kinds, Receive(q, kind) PROVE Serial'
  <2>1. PICK r : r = [NoRequest EXCEPT !.kind = kind, !.phase = "loaded", !.base = setting]
    OBVIOUS
  <2>2. r.base = setting
    BY <2>1 DEF NoRequest
  <2> QED BY <1>2, <1>5, <2>1, <2>2 DEF Receive
<1>6. ASSUME NEW q \in Requests, ReceiveBridge(q) PROVE Serial'
  <2>1. PICK sent \in SUBSET Docs : requests' = [requests EXCEPT ![q] =
             [NoRequest EXCEPT !.kind = "bridge", !.phase = "pulled", !.base = setting,
                               !.pulled = [d \in Docs |-> IF d \in sent THEN source[d] ELSE 0]]]
    BY <1>6 DEF ReceiveBridge
  <2>2. PICK r : r = [NoRequest EXCEPT !.kind = "bridge", !.phase = "pulled", !.base = setting,
                               !.pulled = [d \in Docs |-> IF d \in sent THEN source[d] ELSE 0]]
    OBVIOUS
  <2>3. r.base = setting
    BY <2>2 DEF NoRequest
  <2> QED BY <1>2, <1>6, <2>1, <2>2, <2>3 DEF ReceiveBridge
<1>7. ASSUME NEW q \in Requests,
             Pull(q) \/ OpenDocumentSet(q) \/ \E d \in Docs : SyncDocument(q, d)
      PROVE  Serial'
  <2>1. PICK r : r = requests'[q]
    OBVIOUS
  <2>2. requests[q].phase # "idle" /\ r.base = requests[q].base
    <3>1. requests[q] \in Request
      BY <1>0
    <3>2. CASE Pull(q)
      BY <1>0, <2>1, <3>1, <3>2 DEF Pull, Loaded, Request
    <3>3. CASE OpenDocumentSet(q)
      BY <1>0, <2>1, <3>1, <3>3 DEF OpenDocumentSet, Request
    <3>4. CASE \E d \in Docs : SyncDocument(q, d)
      BY <1>0, <2>1, <3>1, <3>4 DEF SyncDocument, Request
    <3> QED BY <1>7, <3>2, <3>3, <3>4
  <2>3. requests' = [requests EXCEPT ![q] = r] /\ setting' = setting
    BY <1>0, <1>7, <2>1 DEF Pull, OpenDocumentSet, SyncDocument
  <2> QED BY <1>2, <2>2, <2>3 DEF Serial, Reads
<1>8. ASSUME NEW q \in Requests, Crash(q) PROVE Serial'
  BY <1>2, <1>8, NoRequestType DEF Crash
<1>9. ASSUME NEW q \in Requests, requests[q].phase # "idle"
      PROVE  requests[q].base \in Setting /\ Configured(requests[q].base)
  BY <1>0, <1>9 DEF TypeOK, Request, Serial, Reads, ActiveIsConfigured, Configured
<1>10. ASSUME NEW q \in Requests,
              \/ SaveConfig(q) \/ SaveSecret(q) \/ DeleteSecret(q) \/ Probe(q)
              \/ EnsureDocumentSet(q) \/ Activate(q) \/ Deactivate(q)
              \/ RefuseSync(q) \/ LoseUpstream(q)
       PROVE  Serial'
  <2>1. requests[q].phase # "idle"
    BY <1>10 DEF SaveConfig, SaveSecret, DeleteSecret, Probe, EnsureDocumentSet, Activate,
                 Deactivate, RefuseSync, LoseUpstream, Loaded
  <2>2. PICK s \in Setting : s = requests[q].base /\ Configured(s)
    BY <1>9, <2>1
  <2>3. \E new \in Setting : Configured(new) /\ \E sent : Answer(q, new, sent)
    BY <1>10, <2>2, SettingsType, StaysConfigured
       DEF SaveConfig, SaveSecret, DeleteSecret, Probe, EnsureDocumentSet, Activate,
           Deactivate, RefuseSync, LoseUpstream
  <2> QED BY <1>1, <2>1, <2>3
<1>11. ASSUME NEW q \in Requests, NEW d \in Docs, IngestFails(q, d) PROVE Serial'
  <2>1. PICK s \in Setting : s = requests[q].base /\ Configured(s)
    BY <1>9, <1>11 DEF IngestFails
  <2>2. PICK t \in Setting : t = [s EXCEPT !.docset = TRUE] /\ Configured(t)
    BY <2>1, SettingsType, StaysConfigured
  <2>3. MarkFailed(t) \in Setting /\ Configured(MarkFailed(t))
    BY <2>2, SettingsType, StaysConfigured
  <2> QED BY <1>1, <1>11, <2>1, <2>2, <2>3 DEF IngestFails
<1>12. ASSUME NEW q \in Requests, FinishSync(q) PROVE Serial'
  <2>1. PICK s \in Setting : s = requests[q].base /\ Configured(s)
    BY <1>9, <1>12 DEF FinishSync
  <2>2. PICK retrieval \in {"fresh", "other"} : \E sent : Answer(q, Finished(s, retrieval), sent)
    BY <1>12, <2>1 DEF FinishSync
  <2>3. Finished(s, retrieval) \in Setting /\ Configured(Finished(s, retrieval))
    BY SettingsType, StaysConfigured, <2>1
  <2> QED BY <1>1, <1>12, <2>2, <2>3 DEF FinishSync
<1> QED BY <1>3, <1>4, <1>5, <1>6, <1>7, <1>8, <1>10, <1>11, <1>12 DEF Next

LEMMA InitSerial == Init => Serial
BY InitIInv, NoRequestType DEF Init, Serial, Reads, ActiveIsConfigured, NewSetting

\* As long as requests come one at a time, an active connector has the secret and the
\* configuration its activation asked for, whatever fails or crashes (activate_connector).
\* Its document set is not claimed: a probe may clear it.
THEOREM ActiveStaysConfigured == ASSUME OneAtATime PROVE Spec => []ActiveIsConfigured
<1>1. Serial /\ [Next]_vars => Serial'
  BY StepSerial
<1>2. Serial => ActiveIsConfigured
  BY DEF Serial
<1> QED BY <1>1, <1>2, InitSerial, PTL DEF Spec
=============================================================================
