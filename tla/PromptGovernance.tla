-------------------------- MODULE PromptGovernance --------------------------
(***************************************************************************)
(* Prompt governance of one skill: the prompt versions and which of them   *)
(* is active, the eval rounds that score them, the gold examples the       *)
(* rounds replay, the drift events they emit, and the promotion requests   *)
(* that swap the active version.  Every HTTP request is a transaction of   *)
(* its own on a READ COMMITTED database: each SELECT is a step that sees   *)
(* what is committed at that moment, and the writes of a request become    *)
(* visible together when it commits.                                       *)
(***************************************************************************)
EXTENDS Naturals, FiniteSets

CONSTANTS
    Versions,    \* prompt versions that may ever exist
    Rounds,      \* eval rounds that may ever exist
    Golds,       \* regression and canary gold examples, ordered by gold_id
    Canaries,    \* those of Golds whose role is canary
    Tests,       \* locked test input labels of the skill
    Requests,    \* promotion requests that may be in flight together
    Threshold,   \* dreamfi_improvement_threshold, in outputs of a round
    NullsFirst,  \* ORDER BY x DESC lists NULLs first (PostgreSQL) or last (SQLite)
    MaxRunning,  \* rounds that may run at the same time
    None

ASSUME GoldsAreOrdered == Golds \subseteq Nat /\ IsFiniteSet(Golds)
ASSUME TestsAreLabels == IsFiniteSet(Tests) /\ Tests \cap Golds = {}
ASSUME ThresholdIsPositive == Threshold \in Nat \ {0}
ASSUME NullsFirstIsBoolean == NullsFirst \in BOOLEAN
ASSUME MaxRunningIsNat == MaxRunning \in Nat
ASSUME NoneIsNoValue == None \notin Versions \cup Rounds
ASSUME RoundsAreFinite == IsFiniteSet(Rounds)

VARIABLES
    versions,   \* rows of prompt_versions
    active,     \* those with is_active
    rounds,     \* rows of eval_rounds, and the transactions producing them
    gold,       \* last_result and last_run_round_id of every gold example
    drift,      \* rows of gold_drift_events, as <<round, gold or test label>>
    requests    \* the promotion requests in flight

vars == <<versions, active, rounds, gold, drift, requests>>

Verdicts == {"none", "pass", "fail"}
Unjudged == [g \in Golds |-> "none"]
MaxScore == Cardinality(Tests) + Cardinality(Golds)

\* A row of eval_rounds with the local variables of the run that writes it.
\* "running" (run_round) and "drafting" (workflow artifact) rows are not yet
\* committed; a "partial" row was committed with completed_at still NULL.
Round == [phase : {"unused", "running", "drafting", "partial", "done"},
          version : Versions \cup {None},
          seen : [Golds -> Verdicts],      \* previous_gold_results
          verdict : [Golds -> Verdicts],   \* new_gold_results
          passes : SUBSET Tests,           \* labels with a passing output
          score : Nat,                     \* total_passes
          previous : Rounds \cup {None},   \* row previous_score was read from
          at : Nat]                        \* completed_at, 0 for NULL

NoRound == [phase |-> "unused", version |-> None, seen |-> Unjudged,
            verdict |-> Unjudged, passes |-> {}, score |-> 0,
            previous |-> None, at |-> 0]

GoldRow == [result : Verdicts, round : Rounds \cup {None}]

\* The local variables of promote().
Request == [phase : {"idle", "target", "active", "baseline", "promote",
                     "promoted", "blocked"},
            round : Rounds \cup {None},      \* target_round
            loaded : BOOLEAN,                \* target_pv.is_active as loaded
            active : Versions \cup {None},   \* active_pv
            base : Rounds \cup {None},       \* previous_round
            mark : Rounds \cup {None}]       \* history: newest completed round then

NoRequest == [phase |-> "idle", round |-> None, loaded |-> FALSE,
              active |-> None, base |-> None, mark |-> None]

Init == /\ versions = {}
        /\ active = {}
        /\ rounds = [r \in Rounds |-> NoRound]
        /\ gold = [g \in Golds |-> [result |-> "none", round |-> None]]
        /\ drift = {}
        /\ requests = [q \in Requests |-> NoRequest]

-----------------------------------------------------------------------------
\* Queries.

Done == {r \in Rounds : rounds[r].phase = "done"}
Committed == {r \in Rounds : rounds[r].phase \in {"done", "partial"}}
Running == {r \in Rounds : rounds[r].phase \in {"running", "drafting"}}
OrNone(S) == IF S = {} THEN {None} ELSE S

\* The most recently completed rounds of S.
NewestDone(S) ==
    {r \in S \cap Done : \A s \in S \cap Done : rounds[s].at <= rounds[r].at}

\* What ORDER BY completed_at DESC LIMIT 1 may return for the rows S.
FirstByCompletion(S) ==
    LET open == S \ Done
    IN  IF open # {} /\ (NullsFirst \/ S \cap Done = {})
        THEN open ELSE NewestDone(S)

RoundsOf(V) == {r \in Committed : rounds[r].version \in V}

\* The rounds _prev_active_score chooses from inside round r's transaction:
\* it sees its own row, whose completed_at is still NULL.
PreviousCandidates(r) ==
    RoundsOf(active) \cup (IF rounds[r].version \in active THEN {r} ELSE {})

\* The partial unique index ix_prompt_versions_one_active_per_skill.
UniqueActive(S) == \A v, w \in S : v = w

-----------------------------------------------------------------------------
\* Prompt versions.

\* An inactive candidate is added: approve_learning_proposal.
AddCandidate(v) ==
    /\ v \notin versions
    /\ versions' = versions \cup {v}
    /\ UNCHANGED <<active, rounds, gold, drift, requests>>

\* Seeding, or the first workflow of a skill without an active version,
\* inserts an active one; the unique index refuses it if another is active.
Bootstrap(v) ==
    /\ v \notin versions
    /\ UniqueActive(active \cup {v})
    /\ versions' = versions \cup {v}
    /\ active' = active \cup {v}
    /\ UNCHANGED <<rounds, gold, drift, requests>>

-----------------------------------------------------------------------------
\* Eval rounds.

\* run_round inserts its row and loads the gold examples, remembering the
\* result each one had.
BeginRound(r, v) ==
    /\ rounds[r].phase = "unused"
    /\ v \in versions
    /\ Cardinality(Running) < MaxRunning
    /\ rounds' = [rounds EXCEPT ![r].phase = "running",
                                ![r].version = v,
                                ![r].seen = [g \in Golds |-> gold[g].result]]
    /\ UNCHANGED <<versions, active, gold, drift, requests>>

\* Bug: the pass counter starts at one.
ScoreOffByOne(passes, verdict) ==
    1 + Cardinality(passes) + Cardinality({g \in Golds : verdict[g] = "pass"})

\* total_passes of a round.
Score(passes, verdict) ==
    Cardinality(passes) + Cardinality({g \in Golds : verdict[g] = "pass"})

\* The gold row after round r wrote the verdict it reached.  The session
\* updates only the columns whose value differs from the one it loaded, so a
\* result equal to the loaded one leaves a newer committed result in place.
RowAfter(g, r, verdict) ==
    [result |-> IF verdict = rounds[r].seen[g] THEN gold[g].result ELSE verdict,
     round  |-> r]

\* detect_drift_events: golds seen passing that now fail.
GoldDrift(r, verdict) ==
    {g \in Golds : rounds[r].seen[g] = "pass" /\ verdict[g] = "fail"}

\* _emit_output_drift_events: labels that passed in the previously completed
\* round of the skill and now fail.
OutputDrift(r, passes) ==
    UNION {rounds[p].passes : p \in NewestDone(Rounds \ {r})} \ passes

\* run_round replays every test input and gold example, records the drift,
\* the score and the previous score, and commits.
FinishRound(r) ==
    /\ rounds[r].phase = "running"
    /\ \E passes \in SUBSET Tests, verdict \in [Golds -> {"pass", "fail"}],
          previous \in OrNone(FirstByCompletion(PreviousCandidates(r))) :
        /\ rounds' = [rounds EXCEPT ![r].phase = "done",
                                    ![r].verdict = verdict,
                                    ![r].passes = passes,
                                    ![r].score = Score(passes, verdict),
                                    ![r].previous = previous,
                                    ![r].at = Cardinality(Done) + 1]
        /\ gold' = [g \in Golds |-> RowAfter(g, r, verdict[g])]
        /\ drift' = drift \cup
               {<<r, x>> : x \in GoldDrift(r, verdict) \cup OutputDrift(r, passes)}
    /\ UNCHANGED <<versions, active, requests>>

\* Generation fails inside a scheduled replay, which swallows the error: the
\* unfinished row and the gold results of the golds already replayed are
\* committed, without score, completed_at or drift events.
AbandonReplay(r) ==
    /\ rounds[r].phase = "running"
    /\ \E g \in Golds \cup {0} :
         LET replayed == {h \in Golds : h < g}
         IN  \E verdict \in [replayed -> {"pass", "fail"}] :
               /\ rounds' = [rounds EXCEPT
                     ![r].phase = "partial",
                     ![r].verdict = [h \in Golds |-> IF h \in replayed
                                                     THEN verdict[h] ELSE "none"]]
               /\ gold' = [h \in Golds |-> IF h \in replayed
                                           THEN RowAfter(h, r, verdict[h])
                                           ELSE gold[h]]
    /\ UNCHANGED <<versions, active, drift, requests>>

\* A workflow reads the active version and asks Onyx for the artifact.
BeginArtifact(r) ==
    /\ rounds[r].phase = "unused"
    /\ Cardinality(Running) < MaxRunning
    /\ \E v \in active :
         rounds' = [rounds EXCEPT ![r].phase = "drafting", ![r].version = v]
    /\ UNCHANGED <<versions, active, gold, drift, requests>>

\* The artifact is stored as a completed round of one output, scored by the
\* workflow's own criteria; no gold is replayed and no drift computed.
FinishArtifact(r) ==
    /\ rounds[r].phase = "drafting"
    /\ \E score \in 0..MaxScore :
         rounds' = [rounds EXCEPT ![r].phase = "done",
                                  ![r].score = score,
                                  ![r].at = Cardinality(Done) + 1]
    /\ UNCHANGED <<versions, active, gold, drift, requests>>

\* An error or a crash before the commit rolls the row back.
RollBackRound(r) ==
    /\ r \in Running
    /\ rounds' = [rounds EXCEPT ![r] = NoRound]
    /\ UNCHANGED <<versions, active, gold, drift, requests>>

-----------------------------------------------------------------------------
\* Promotion.

Target(q) == rounds[requests[q].round].version

\* promote() loads the round and its prompt version.
ReadTarget(q, r) ==
    /\ requests[q].phase = "idle"
    /\ r \in Committed
    /\ requests' = [requests EXCEPT
           ![q] = [NoRequest EXCEPT !.phase = "target", !.round = r,
                                    !.loaded = rounds[r].version \in active]]
    /\ UNCHANGED <<versions, active, rounds, gold, drift>>

\* ... selects the active version ...
ReadActive(q) ==
    /\ requests[q].phase = "target"
    /\ \E v \in OrNone(active) :
         requests' = [requests EXCEPT ![q].phase = "active", ![q].active = v]
    /\ UNCHANGED <<versions, active, rounds, gold, drift>>

ComparesVersions(q) == requests[q].active \notin {None, Target(q)}

\* ... and, when it differs from the target, its latest round.
ReadBaseline(q) ==
    LET rows == IF ComparesVersions(q) THEN RoundsOf({requests[q].active}) ELSE {}
    IN  /\ requests[q].phase = "active"
        /\ \E base \in OrNone(FirstByCompletion(rows)),
              mark \in OrNone(NewestDone(rows)) :
             requests' = [requests EXCEPT ![q].phase = "baseline",
                                          ![q].base = base,
                                          ![q].mark = mark]
        /\ UNCHANGED <<versions, active, rounds, gold, drift>>

\* Bug: the gate trusts the shared gold rows and ignores the drift events.
FailuresOfGoldRows(r) ==
    {g \in Golds \ Canaries : gold[g] = [result |-> "fail", round |-> r]}

\* _gold_failures_for_round, the part that blocks: every drift event of the
\* round, and the regressions whose last run is this round and failed.
RegressionFailures(r) ==
    {x \in Golds \cup Tests : <<r, x>> \in drift}
        \cup {g \in Golds \ Canaries : gold[g] = [result |-> "fail", round |-> r]}

\* Bug: equal scores clear the gate.
ScoreDoesNotDrop(q) ==
    \/ requests[q].base = None
    \/ rounds[requests[q].round].score >= rounds[requests[q].base].score

\* PromotionGate.decide on the scores.
ScoreClears(q) ==
    \/ requests[q].base = None
    \/ rounds[requests[q].round].score
           >= rounds[requests[q].base].score + Threshold

Decide(q) ==
    /\ requests[q].phase = "baseline"
    /\ requests' = [requests EXCEPT ![q].phase =
           IF RegressionFailures(requests[q].round) = {} /\ ScoreClears(q)
           THEN "promote" ELSE "blocked"]
    /\ UNCHANGED <<versions, active, rounds, gold, drift>>

\* Bug: UPDATE ... SET is_active = false for the whole skill, as the Go store's
\* ActivatePromptVersion does, overwrites a version activated in between.
OnlyTheTarget(q) == {Target(q)}

\* Bug: the target is never switched on.
ActiveVersionCleared(q) == active \ {requests[q].active}

\* The active versions after the two UPDATEs of promote().  Setting is_active
\* on an object loaded with is_active true changes nothing and is not sent.
ActiveAfter(q) ==
    (IF ComparesVersions(q) THEN active \ {requests[q].active} ELSE active)
        \cup (IF requests[q].loaded THEN {} ELSE {Target(q)})

Promote(q) ==
    /\ requests[q].phase = "promote"
    /\ UniqueActive(ActiveAfter(q))
    /\ active' = ActiveAfter(q)
    /\ requests' = [requests EXCEPT ![q].phase = "promoted"]
    /\ UNCHANGED <<versions, rounds, gold, drift>>

\* The response is sent, or the request fails and its transaction is rolled
\* back: a unique-index violation, a lost connection, a crash.
EndRequest(q) ==
    /\ requests[q].phase # "idle"
    /\ requests' = [requests EXCEPT ![q] = NoRequest]
    /\ UNCHANGED <<versions, active, rounds, gold, drift>>

-----------------------------------------------------------------------------
Next ==
    \/ \E v \in Versions : AddCandidate(v) \/ Bootstrap(v)
    \/ \E r \in Rounds :
         \/ \E v \in Versions : BeginRound(r, v)
         \/ FinishRound(r)
         \/ AbandonReplay(r)
         \/ BeginArtifact(r)
         \/ FinishArtifact(r)
         \/ RollBackRound(r)
    \/ \E q \in Requests :
         \/ \E r \in Rounds : ReadTarget(q, r)
         \/ ReadActive(q)
         \/ ReadBaseline(q)
         \/ Decide(q)
         \/ Promote(q)
         \/ EndRequest(q)

Spec == Init /\ [][Next]_vars

-----------------------------------------------------------------------------
\* Properties.

\* Every variable has its type.
TypeOK ==
    /\ versions \subseteq Versions
    /\ active \subseteq versions
    /\ rounds \in [Rounds -> Round]
    /\ \A r \in Rounds : rounds[r].score <= MaxScore
    /\ gold \in [Golds -> GoldRow]
    /\ drift \subseteq Rounds \X (Golds \cup Tests)
    /\ requests \in [Requests -> Request]

\* A promotion never succeeds on a completed round in which a gold example that
\* had been seen passing turned to failing, whatever other rounds wrote to the
\* shared gold rows between that round and the decision.  A round that an
\* abandoned replay left unfinished has no drift events: there a regression
\* example keeps the round from being promoted as long as no later round has
\* replayed it, and a canary does not.
PromotedWithoutSeenRegression ==
    \A q \in Requests, g \in Golds :
        LET r == rounds[requests[q].round]
        IN  requests[q].phase = "promoted" /\ r.seen[g] = "pass" /\ r.verdict[g] = "fail" =>
                /\ r.phase = "partial"
                /\ g \in Canaries \/ gold[g].round # requests[q].round

\* Promotion behaves as a compare-and-swap on the active version: a request
\* replaces only the version it compared its target with.
Cell == INSTANCE ActivePromptCell WITH
            Clients <- Requests,
            expected <- [q \in Requests |-> {requests[q].active} \ {None}]

ImplementsCell == Cell!CellSpec

\* A version that replaces the active one scored at least the threshold
\* better than the newest completed round the active one had when promote()
\* looked.
PromotionClearsBaseline ==
    \A q \in Requests :
        requests[q].phase = "promoted" /\ requests[q].mark # None =>
            rounds[requests[q].round].score
                >= rounds[requests[q].mark].score + Threshold

\* When promote() answers with success, its target is the active version.
PromotionActivatesTarget ==
    [][\A q \in Requests :
         requests[q].phase = "promote" /\ requests'[q].phase = "promoted" =>
             active' = {Target(q)}]_vars
=============================================================================
