---------------------------- MODULE ConnectorSync ----------------------------
(***************************************************************************)
(* One custom connector: its settings row, the documents it pulls from a   *)
(* provider, their rows in connector_documents and their copies in Onyx.   *)
(* A request loads the settings row when it starts and writes back, when   *)
(* it commits, only the columns it changed.  A sync updates the settings   *)
(* row before it touches a document and holds that row's lock until it     *)
(* commits; Onyx sees each document at once.                               *)
(***************************************************************************)
EXTENDS Naturals, FiniteSets

CONSTANTS
    Docs,        \* external ids the provider returns
    Contents,    \* content hashes a document may have
    Edits,       \* <<old, new>> changes the provider's users may make
    Requests,    \* HTTP requests that may be in flight together
    Kinds,       \* the endpoints they call
    Faults,      \* of "ingest" (Onyx refuses a document) and "crash"
    MaxCrashes,  \* crashes that may happen
    PersistenceReady,  \* database, migration head and audit pass their checks
    None

ASSUME ContentsAreHashes == Contents \subseteq Nat \ {0}
ASSUME EditsAreOfContents == Edits \subseteq Contents \X Contents
ASSUME KindsAreEndpoints ==
    Kinds \subseteq {"sync", "bridge", "config", "secret", "unsecret", "probe",
                     "docset", "activate", "deactivate"}
ASSUME FaultsAreKnown == Faults \subseteq {"ingest", "crash"}
ASSUME MaxCrashesIsNat == MaxCrashes \in Nat
ASSUME PersistenceReadyIsBoolean == PersistenceReady \in BOOLEAN
ASSUME NoneIsNoRequest == None \notin Requests

VARIABLES
    source,     \* current content of every document at the provider
    onyx,       \* content Onyx has indexed, 0 for none
    rows,       \* committed rows of connector_documents
    setting,    \* committed row of connector_settings
    lock,       \* the sync that updated the settings row and has not committed
    requests,   \* the requests in flight
    crashes     \* crashes so far

vars == <<source, onyx, rows, setting, lock, requests, crashes>>

Row == [hash : Contents \cup {0}, ingested : BOOLEAN]  \* last_ingested_at is set

NoRow == [hash |-> 0, ingested |-> FALSE]

\* Columns of connector_settings: a usable secret, a complete configuration,
\* validation_status, document_set_present, retrieval_status ("other" when it
\* is not set, stale, empty or missing) and activation_status.
Setting == [secret : BOOLEAN, config : BOOLEAN,
            validation : {"not_validated", "validated", "validation_failed"},
            docset : BOOLEAN, retrieval : {"fresh", "error", "other"},
            active : BOOLEAN]

NewSetting == [secret |-> FALSE, config |-> FALSE, validation |-> "not_validated",
               docset |-> FALSE, retrieval |-> "other", active |-> FALSE]

Request == [kind : Kinds \cup {None},
            phase : {"idle", "loaded", "pulled", "writing"},
            base : Setting,                      \* the settings row as loaded
            pulled : [Docs -> Contents \cup {0}],
            todo : SUBSET Docs,                  \* documents not yet upserted
            draft : [Docs -> Row]]               \* rows as this transaction sees them

NoRequest == [kind |-> None, phase |-> "idle", base |-> NewSetting,
              pulled |-> [d \in Docs |-> 0], todo |-> {},
              draft |-> [d \in Docs |-> NoRow]]

Init == /\ source \in [Docs -> Contents]
        /\ onyx = [d \in Docs |-> 0]
        /\ rows = [d \in Docs |-> NoRow]
        /\ setting = NewSetting
        /\ lock = None
        /\ requests = [q \in Requests |-> NoRequest]
        /\ crashes = 0

-----------------------------------------------------------------------------
\* A user of the provider changes a document.
Edit(d) ==
    /\ \E c \in Contents : <<source[d], c>> \in Edits /\ source' = [source EXCEPT ![d] = c]
    /\ UNCHANGED <<onyx, rows, setting, lock, requests, crashes>>

\* A request arrives and loads the settings row (get_or_create_connector_setting).
Receive(q, kind) ==
    /\ kind # "bridge" /\ requests[q].phase = "idle"
    /\ requests' = [requests EXCEPT ![q] =
           [NoRequest EXCEPT !.kind = kind, !.phase = "loaded", !.base = setting]]
    /\ UNCHANGED <<source, onyx, rows, setting, lock, crashes>>

\* An export job sends some of the documents along with its request.
ReceiveBridge(q) ==
    /\ "bridge" \in Kinds /\ requests[q].phase = "idle"
    /\ \E sent \in SUBSET Docs :
         requests' = [requests EXCEPT ![q] =
             [NoRequest EXCEPT !.kind = "bridge", !.phase = "pulled", !.base = setting,
                               !.pulled = [d \in Docs |-> IF d \in sent THEN source[d] ELSE 0]]]
    /\ UNCHANGED <<source, onyx, rows, setting, lock, crashes>>

\* The settings row after request q wrote its columns.  An attribute assigned
\* the value it was loaded with is not part of the UPDATE; the columns "sent"
\* are, as they hold another value that the model does not tell apart.
Flushed(q, new, sent) ==
    [c \in DOMAIN setting |-> IF c \notin sent /\ new[c] = requests[q].base[c]
                              THEN setting[c] ELSE new[c]]

\* Request q commits the settings row and is answered.
Answer(q, new, sent) ==
    /\ lock \in {None, q}
    /\ setting' = Flushed(q, new, sent)
    /\ lock' = None
    /\ requests' = [requests EXCEPT ![q] = NoRequest]
    /\ UNCHANGED <<source, crashes>>

-----------------------------------------------------------------------------
\* Settings endpoints.

Loaded(q, kind) == requests[q].phase = "loaded" /\ requests[q].kind = kind

\* Bug: the validation status is cleared to NULL.
UnvalidatedToNull(s) == [s EXCEPT !.validation = None, !.active = FALSE]

\* Bug: new credentials do not take the connector out of service.
UnvalidatedOnly(s) == [s EXCEPT !.validation = "not_validated"]

\* New credentials or configuration must be validated and activated again.
Unvalidated(s) == [s EXCEPT !.validation = "not_validated", !.active = FALSE]

SaveConfig(q) ==
    /\ Loaded(q, "config")
    /\ \E complete \in BOOLEAN, sent \in SUBSET {"config"} :
         Answer(q, [Unvalidated(requests[q].base) EXCEPT !.config = complete], sent)
    /\ UNCHANGED <<onyx, rows>>

WithSecret(s) == [Unvalidated(s) EXCEPT !.secret = TRUE]

\* A key that is too short, or for a connector that takes none, is refused.
SaveSecret(q) ==
    /\ Loaded(q, "secret")
    /\ \/ Answer(q, WithSecret(requests[q].base), {"secret"})
       \/ Answer(q, requests[q].base, {})
    /\ UNCHANGED <<onyx, rows>>

DeleteSecret(q) ==
    /\ Loaded(q, "unsecret")
    /\ Answer(q, [Unvalidated(requests[q].base) EXCEPT !.secret = FALSE], {})
    /\ UNCHANGED <<onyx, rows>>

\* _mark_failed, and probe_connector when the readiness check fails.
MarkFailed(s) == [s EXCEPT !.validation = "validation_failed", !.retrieval = "error"]

\* probe_connector: what Onyx told of the document set and its freshest document.
Probed(s, docset, retrieval) ==
    [s EXCEPT !.validation = IF s.secret THEN "validated" ELSE "not_validated",
              !.docset = docset, !.retrieval = retrieval]

\* The readiness check fails, or Onyx does not answer and the request changes nothing.
Probe(q) ==
    LET base == requests[q].base
    IN  /\ Loaded(q, "probe")
        /\ \/ \E docset \in BOOLEAN, retrieval \in {"fresh", "error", "other"},
                 sent \in SUBSET {"retrieval"} :
                /\ ~docset => retrieval = "other"
                /\ Answer(q, Probed(base, docset, retrieval), sent)
           \/ Answer(q, MarkFailed(base), {})
           \/ Answer(q, base, {})
        /\ UNCHANGED <<onyx, rows>>

\* ensure_connector_document_set finds or creates the document set; the
\* request fails, and changes nothing, when Onyx does not answer.
EnsureDocumentSet(q) ==
    /\ Loaded(q, "docset")
    /\ \/ Answer(q, [requests[q].base EXCEPT !.docset = TRUE], {})
       \/ Answer(q, requests[q].base, {})
    /\ UNCHANGED <<onyx, rows>>

\* activation_blockers finds nothing.
Activable(s) == /\ s.secret /\ s.config /\ s.docset /\ PersistenceReady
                /\ s.validation = "validated" /\ s.retrieval = "fresh"

Activated(s) == IF Activable(s) THEN [s EXCEPT !.active = TRUE] ELSE s

Activate(q) ==
    /\ Loaded(q, "activate")
    /\ Answer(q, Activated(requests[q].base), {})
    /\ UNCHANGED <<onyx, rows>>

Deactivate(q) ==
    /\ Loaded(q, "deactivate")
    /\ Answer(q, [requests[q].base EXCEPT !.active = FALSE], {})
    /\ UNCHANGED <<onyx, rows>>

-----------------------------------------------------------------------------
\* Syncs.

\* sync_connector refuses to run without configuration and secret.
RefuseSync(q) ==
    /\ Loaded(q, "sync")
    /\ ~(requests[q].base.secret /\ requests[q].base.config)
    /\ Answer(q, MarkFailed(requests[q].base), {})
    /\ UNCHANGED <<onyx, rows>>

\* fetch_documents returns what the provider has at that moment.
Pull(q) ==
    /\ Loaded(q, "sync")
    /\ requests[q].base.secret /\ requests[q].base.config
    /\ requests' = [requests EXCEPT ![q].phase = "pulled", ![q].pulled = source]
    /\ UNCHANGED <<source, onyx, rows, setting, lock, crashes>>

\* The provider, or Onyx when asked for the document set, does not answer.
LoseUpstream(q) ==
    /\ \/ Loaded(q, "sync") /\ requests[q].base.secret /\ requests[q].base.config
       \/ requests[q].phase = "pulled"
    /\ Answer(q, MarkFailed(requests[q].base), {})
    /\ UNCHANGED <<onyx, rows>>

\* ensure_connector_document_set updates the settings row, and so takes its
\* lock; the rows read from here on are those the previous sync committed.
OpenDocumentSet(q) ==
    /\ requests[q].phase = "pulled"
    /\ lock = None
    /\ lock' = q
    /\ requests' = [requests EXCEPT ![q].phase = "writing",
                                    ![q].todo = {d \in Docs : requests[q].pulled[d] # 0},
                                    ![q].draft = rows]
    /\ UNCHANGED <<source, onyx, rows, setting, crashes>>

\* Bug: only a new content hash counts as a change (what the Go store does).
ChangedHash(row, content) == row.hash # content

\* Bug: documents that have been ingested once are skipped.
NeverIngested(row, content) == ~row.ingested

\* _upsert_document: the document is new, has other content than the row, or
\* was never ingested.
Changed(row, content) == row.hash # content \/ ~row.ingested

\* One document is upserted and, if changed, ingested.
SyncDocument(q, d) ==
    LET content == requests[q].pulled[d]
        changed == Changed(requests[q].draft[d], content)
    IN  /\ requests[q].phase = "writing"
        /\ d \in requests[q].todo
        /\ requests' = [requests EXCEPT
               ![q].todo = @ \ {d},
               ![q].draft[d] = [hash |-> content, ingested |-> changed \/ @.ingested]]
        /\ onyx' = IF changed THEN [onyx EXCEPT ![d] = content] ELSE onyx
        /\ UNCHANGED <<source, rows, setting, lock, crashes>>

\* Onyx refuses a document, or its answer is lost.  The rows written so far,
\* this document's new hash included, are committed with the failed run.
IngestFails(q, d) ==
    LET content == requests[q].pulled[d]
        row == requests[q].draft[d]
    IN  /\ "ingest" \in Faults
        /\ requests[q].phase = "writing"
        /\ d \in requests[q].todo
        /\ Changed(row, content)
        /\ onyx' \in {onyx, [onyx EXCEPT ![d] = content]}
        /\ rows' = [requests[q].draft EXCEPT
                        ![d] = [hash |-> content, ingested |-> row.ingested]]
        /\ Answer(q, MarkFailed([requests[q].base EXCEPT !.docset = TRUE]), {})

\* _finish_setting.
Finished(s, retrieval) ==
    [s EXCEPT !.docset = TRUE, !.validation = "validated", !.retrieval = retrieval]

\* All documents are done: the run succeeds and is committed.
FinishSync(q) ==
    /\ requests[q].phase = "writing"
    /\ requests[q].todo = {}
    /\ rows' = requests[q].draft
    /\ \E retrieval \in {"fresh", "other"}, sent \in SUBSET {"retrieval"} :
         Answer(q, Finished(requests[q].base, retrieval), sent)
    /\ UNCHANGED onyx

\* The process dies: the transaction is rolled back, Onyx keeps what it got.
Crash(q) ==
    /\ "crash" \in Faults
    /\ crashes < MaxCrashes
    /\ requests[q].phase # "idle"
    /\ crashes' = crashes + 1
    /\ lock' = IF lock = q THEN None ELSE lock
    /\ requests' = [requests EXCEPT ![q] = NoRequest]
    /\ UNCHANGED <<source, onyx, rows, setting>>

-----------------------------------------------------------------------------
Next ==
    \/ \E d \in Docs : Edit(d)
    \/ \E q \in Requests :
         \/ \E kind \in Kinds : Receive(q, kind)
         \/ ReceiveBridge(q)
         \/ SaveConfig(q)
         \/ SaveSecret(q)
         \/ DeleteSecret(q)
         \/ Probe(q)
         \/ EnsureDocumentSet(q)
         \/ Activate(q)
         \/ Deactivate(q)
         \/ RefuseSync(q)
         \/ Pull(q)
         \/ LoseUpstream(q)
         \/ OpenDocumentSet(q)
         \/ \E d \in Docs : SyncDocument(q, d) \/ IngestFails(q, d)
         \/ FinishSync(q)
         \/ Crash(q)

Spec == Init /\ [][Next]_vars

\* Every request that was loaded runs to its end, as the calls it makes have
\* timeouts.  Scheduled syncs keep arriving, and provider and Onyx do not fail
\* all of them.
Fairness ==
    \A q \in Requests :
        /\ WF_vars(SaveConfig(q) \/ SaveSecret(q) \/ DeleteSecret(q) \/ Probe(q)
                   \/ EnsureDocumentSet(q) \/ Activate(q) \/ Deactivate(q) \/ RefuseSync(q))
        /\ SF_vars(Receive(q, "sync"))
        /\ SF_vars(Pull(q))
        /\ SF_vars(requests[q].kind = "sync" /\ OpenDocumentSet(q))
        /\ WF_vars(OpenDocumentSet(q))
        /\ WF_vars(\E d \in Docs : SyncDocument(q, d))
        /\ WF_vars(FinishSync(q))

FairSpec == Spec /\ Fairness

-----------------------------------------------------------------------------
\* Properties.

\* Every variable has its type.
TypeOK ==
    /\ source \in [Docs -> Contents]
    /\ onyx \in [Docs -> Contents \cup {0}]
    /\ rows \in [Docs -> Row]
    /\ setting \in Setting
    /\ lock \in Requests \cup {None}
    /\ requests \in [Requests -> Request]
    /\ crashes \in 0..MaxCrashes

\* A document whose first ingestion failed or was lost is retried: after any
\* successful sync every document it pulled is in Onyx.
SuccessLeavesNoneOut ==
    [][\A q \in Requests : FinishSync(q) =>
         \A d \in Docs : requests[q].pulled[d] # 0 => onyx[d] # 0]_vars

\* A successful sync leaves in Onyx the content it pulled.
SuccessIndexesWhatWasPulled ==
    [][\A q \in Requests : FinishSync(q) =>
         \A d \in Docs : requests[q].pulled[d] \in {0, onyx[d]}]_vars

\* Nothing but a sync in progress may make a row and its indexed copy differ.
RowsMatchIndex ==
    lock = None => \A d \in Docs : rows[d].hash = onyx[d]

\* An active connector has the secret and the configuration that its activation asked for,
\* whatever was saved, deleted or probed since (one request at a time; activate_connector
\* checks the row it has loaded).  The document set it asked for too may be gone: a probe
\* that does not find it clears it.
ActiveIsConfigured == setting.active => setting.secret /\ setting.config

\* While a connector stays configured, its index catches up with a provider
\* whose documents no longer change.
IndexCatchesUp ==
    <>[](setting.secret /\ setting.config) => <>[](onyx = source)
=============================================================================
