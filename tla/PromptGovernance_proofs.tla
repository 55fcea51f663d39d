---------------------- MODULE PromptGovernance_proofs ----------------------
(***************************************************************************)
(* Theorems of PromptGovernance, for every number of versions, rounds,     *)
(* gold examples and requests: its types, the gold regressions promotion   *)
(* never misses, that promotion implements the compare-and-swap cell, the  *)
(* baseline it clears and the target it activates.                         *)
(***************************************************************************)
EXTENDS PromptGovernance, TLAPS, FiniteSetTheorems

\* The partial unique index.
OneActive == UniqueActive(active)

\* A row names an existing version from the moment it is inserted.
RoundsHaveVersions ==
    \A r \in Rounds : rounds[r].phase # "unused" => rounds[r].version \in versions

\* A round has judged nothing until it is committed.
OpenRoundsUnjudged ==
    \A r \in Rounds \ Committed : rounds[r].verdict = Unjudged

\* A request works on a committed round.
RequestsHaveRounds ==
    \A q \in Requests : requests[q].phase # "idle" => requests[q].round \in Committed

\* Every regression a completed round saw is in the drift table.
DriftIsRecorded ==
    \A r \in Done, g \in Golds :
        rounds[r].seen[g] = "pass" /\ rounds[r].verdict[g] = "fail"
            => <<r, g>> \in drift

\* The round of a request that passed the gate has no drift event: events of
\* a round are written when it commits, never later.
GateSawNoDrift ==
    \A q \in Requests : requests[q].phase \in {"promote", "promoted"} =>
        \A g \in Golds : <<requests[q].round, g>> \notin drift

IInv == /\ TypeOK
        /\ OneActive
        /\ RoundsHaveVersions
        /\ OpenRoundsUnjudged
        /\ RequestsHaveRounds
        /\ DriftIsRecorded
        /\ GateSawNoDrift

-----------------------------------------------------------------------------
\* Operators.

LEMMA MaxScoreIsNat == MaxScore \in Nat
BY GoldsAreOrdered, TestsAreLabels, FS_CardinalityType DEF MaxScore

\* A round's score is a natural number that the outputs of a round bound.
LEMMA ScoreIsBounded ==
    ASSUME NEW passes \in SUBSET Tests, NEW verdict \in [Golds -> Verdicts]
    PROVE  Score(passes, verdict) \in 0..MaxScore
<1> DEFINE good == {g \in Golds : verdict[g] = "pass"}
<1>1. /\ IsFiniteSet(Tests) /\ IsFiniteSet(Golds)
      /\ Cardinality(Tests) \in Nat /\ Cardinality(Golds) \in Nat
  BY GoldsAreOrdered, TestsAreLabels, FS_CardinalityType
<1>2. /\ IsFiniteSet(passes) /\ Cardinality(passes) <= Cardinality(Tests)
  BY <1>1, FS_Subset
<1>3. /\ IsFiniteSet(good) /\ Cardinality(good) <= Cardinality(Golds)
  <2>1. good \in SUBSET Golds
    OBVIOUS
  <2> QED BY <1>1, <2>1, FS_Subset
<1>4. Cardinality(passes) \in Nat /\ Cardinality(good) \in Nat
  BY <1>2, <1>3, FS_CardinalityType
<1>5. Cardinality(passes) + Cardinality(good)
        <= Cardinality(Tests) + Cardinality(Golds)
  <2> HIDE DEF good
  <2> QED BY <1>1, <1>2, <1>3, <1>4
<1> QED BY <1>1, <1>4, <1>5 DEF Score, MaxScore

\* The number of completed rounds, the clock of completed_at, is natural.
LEMMA DoneIsCounted == Cardinality(Done) \in Nat
<1>1. Done \in SUBSET Rounds
  BY DEF Done
<1> QED BY <1>1, RoundsAreFinite, FS_Subset, FS_CardinalityType

\* The ORDER BY completed_at DESC LIMIT 1 queries return rows they selected.
LEMMA QueriesReturnRows ==
    ASSUME NEW S \in SUBSET Rounds
    PROVE  /\ OrNone(FirstByCompletion(S)) \subseteq Rounds \cup {None}
           /\ OrNone(NewestDone(S)) \subseteq Rounds \cup {None}
BY DEF OrNone, FirstByCompletion, NewestDone, Done

\* Drift events are about gold examples and test labels.
LEMMA DriftIsOfOutputs ==
    ASSUME TypeOK, NEW r \in Rounds, NEW verdict, NEW passes
    PROVE  /\ GoldDrift(r, verdict) \subseteq Golds
           /\ OutputDrift(r, passes) \subseteq Tests
<1>1. \A p \in Rounds : rounds[p].passes \subseteq Tests
  BY DEF TypeOK, Round
<1> QED BY <1>1 DEF GoldDrift, OutputDrift, NewestDone, Done

-----------------------------------------------------------------------------
\* Preservation of the invariant, one lemma per action.

LEMMA InitInv == Init => IInv
<1> SUFFICES ASSUME Init PROVE IInv
  OBVIOUS
<1>1. NoRound \in Round /\ NoRequest \in Request /\ NoRound.score <= MaxScore
  <2>1. Score({}, Unjudged) \in 0..MaxScore
    BY ScoreIsBounded DEF Unjudged, Verdicts
  <2>2. MaxScore \in Nat
    BY MaxScoreIsNat
  <2> QED BY <2>2 DEF NoRound, Round, NoRequest, Request, Unjudged, Verdicts
<1>2. TypeOK
  BY <1>1 DEF Init, TypeOK, GoldRow, Verdicts
<1>3. OneActive /\ RoundsHaveVersions /\ OpenRoundsUnjudged
  BY DEF Init, OneActive, UniqueActive, RoundsHaveVersions,
         OpenRoundsUnjudged, NoRound
<1>4. RequestsHaveRounds /\ DriftIsRecorded /\ GateSawNoDrift
  BY DEF Init, RequestsHaveRounds, DriftIsRecorded, GateSawNoDrift, Done,
         NoRound, NoRequest
<1> QED BY <1>2, <1>3, <1>4 DEF IInv

LEMMA AddCandidateInv ==
    ASSUME IInv, NEW v \in Versions, AddCandidate(v) PROVE IInv'
BY DEF IInv, AddCandidate, TypeOK, OneActive, UniqueActive,
       RoundsHaveVersions, OpenRoundsUnjudged, RequestsHaveRounds,
       DriftIsRecorded, GateSawNoDrift, Committed, Done

LEMMA BootstrapInv ==
    ASSUME IInv, NEW v \in Versions, Bootstrap(v) PROVE IInv'
BY DEF IInv, Bootstrap, TypeOK, OneActive, UniqueActive,
       RoundsHaveVersions, OpenRoundsUnjudged, RequestsHaveRounds,
       DriftIsRecorded, GateSawNoDrift, Committed, Done

\* A step that replaces the row of one uncommitted round by another well
\* formed row, and adds drift events of that round only.
LEMMA RoundStepInv ==
    ASSUME IInv, NEW r \in Rounds \ Committed, NEW row \in Round,
           rounds' = [rounds EXCEPT ![r] = row],
           UNCHANGED <<versions, active, requests>>,
           gold' \in [Golds -> GoldRow],
           row.score <= MaxScore,
           row.phase # "unused" => row.version \in versions,
           row.phase \notin {"done", "partial"} => row.verdict = Unjudged,
           NEW events \in SUBSET (Golds \cup Tests),
           drift' = drift \cup {<<r, x>> : x \in events},
           row.phase = "done" =>
               {g \in Golds : row.seen[g] = "pass" /\ row.verdict[g] = "fail"}
                   \subseteq events
    PROVE  IInv'
<1> USE DEF IInv
<1>1. TypeOK'
  BY DEF TypeOK
<1>2. OneActive'
  BY DEF OneActive, UniqueActive
<1>3. RoundsHaveVersions'
  BY DEF RoundsHaveVersions, TypeOK
<1>4. OpenRoundsUnjudged'
  BY DEF OpenRoundsUnjudged, Committed, TypeOK
<1>5. RequestsHaveRounds'
  BY DEF RequestsHaveRounds, Committed, TypeOK
<1>6. DriftIsRecorded'
  <2> SUFFICES ASSUME NEW s \in Done', NEW g \in Golds,
                      rounds'[s].seen[g] = "pass", rounds'[s].verdict[g] = "fail"
               PROVE  <<s, g>> \in drift'
    BY DEF DriftIsRecorded
  <2>1. CASE s = r
    <3>1. rounds'[r] = row /\ row.phase = "done"
      BY <2>1 DEF TypeOK, Done
    <3>2. g \in events
      BY <2>1, <3>1
    <3> QED BY <2>1, <3>1, <3>2
  <2>2. CASE s # r
    <3>1. rounds'[s] = rounds[s] /\ s \in Done
      BY <2>2 DEF TypeOK, Done
    <3> QED BY <3>1 DEF DriftIsRecorded
  <2> QED BY <2>1, <2>2
<1>7. GateSawNoDrift'
  <2> SUFFICES ASSUME NEW q \in Requests, NEW g \in Golds,
                      requests[q].phase \in {"promote", "promoted"}
               PROVE  <<requests[q].round, g>> \notin drift'
    BY DEF GateSawNoDrift
  <2>1. requests[q].round # r
    BY DEF RequestsHaveRounds
  <2>2. <<requests[q].round, g>> \notin drift
    BY DEF GateSawNoDrift
  <2> QED BY <2>1, <2>2
<1> QED BY <1>1, <1>2, <1>3, <1>4, <1>5, <1>6, <1>7

\* The special case of a step that adds no drift event, when the new row has
\* judged no gold example or is left unfinished.
LEMMA QuietRoundStepInv ==
    ASSUME IInv, NEW r \in Rounds \ Committed, NEW row \in Round,
           rounds' = [rounds EXCEPT ![r] = row],
           UNCHANGED <<versions, active, requests, drift>>,
           gold' \in [Golds -> GoldRow],
           row.score <= MaxScore,
           row.phase # "unused" => row.version \in versions,
           row.phase # "partial" => row.verdict = Unjudged
    PROVE  IInv'
<1> DEFINE events == {}
<1>1. /\ events \in SUBSET (Golds \cup Tests)
      /\ drift' = drift \cup {<<r, x>> : x \in events}
  OBVIOUS
<1>2. row.phase = "done" =>
        {g \in Golds : row.seen[g] = "pass" /\ row.verdict[g] = "fail"}
            \subseteq events
  BY DEF Unjudged
<1> HIDE DEF events
<1> QED BY <1>1, <1>2, RoundStepInv

LEMMA BeginRoundInv ==
    ASSUME IInv, NEW r \in Rounds, NEW v \in Versions, BeginRound(r, v)
    PROVE  IInv'
<1> DEFINE row == [rounds[r] EXCEPT !.phase = "running",
                                    !.version = v,
                                    !.seen = [g \in Golds |-> gold[g].result]]
<1>1. rounds[r] \in Round /\ rounds[r].score <= MaxScore /\ gold \in [Golds -> GoldRow]
  BY DEF IInv, TypeOK
<1>2. row \in Round
  BY <1>1 DEF Round, GoldRow
<1>3. rounds' = [rounds EXCEPT ![r] = row]
  BY <1>1 DEF BeginRound, IInv, TypeOK
<1>4. r \in Rounds \ Committed
  BY DEF BeginRound, Committed
<1>5. row.verdict = Unjudged
  BY <1>1, <1>4 DEF IInv, OpenRoundsUnjudged, Round
<1>6. /\ row.phase = "running" /\ row.version = v /\ row.score <= MaxScore
  BY <1>1 DEF Round
<1> HIDE DEF row
<1> QED
  BY <1>1, <1>2, <1>3, <1>4, <1>5, <1>6, QuietRoundStepInv DEF BeginRound

\* The gold rows stay well formed when a round writes its verdicts.
LEMMA RowAfterIsGoldRow ==
    ASSUME TypeOK, NEW r \in Rounds, NEW g \in Golds, NEW verdict \in Verdicts
    PROVE  RowAfter(g, r, verdict) \in GoldRow
BY DEF TypeOK, RowAfter, GoldRow

LEMMA FinishRoundInv ==
    ASSUME IInv, NEW r \in Rounds, FinishRound(r)
    PROVE  IInv'
<1>1. PICK passes \in SUBSET Tests, verdict \in [Golds -> {"pass", "fail"}],
           previous \in OrNone(FirstByCompletion(PreviousCandidates(r))) :
        /\ rounds' = [rounds EXCEPT ![r].phase = "done",
                                    ![r].verdict = verdict,
                                    ![r].passes = passes,
                                    ![r].score = Score(passes, verdict),
                                    ![r].previous = previous,
                                    ![r].at = Cardinality(Done) + 1]
        /\ gold' = [g \in Golds |-> RowAfter(g, r, verdict[g])]
        /\ drift' = drift \cup
               {<<r, x>> : x \in GoldDrift(r, verdict) \cup OutputDrift(r, passes)}
  BY DEF FinishRound
<1> DEFINE row == [rounds[r] EXCEPT !.phase = "done",
                                    !.verdict = verdict,
                                    !.passes = passes,
                                    !.score = Score(passes, verdict),
                                    !.previous = previous,
                                    !.at = Cardinality(Done) + 1]
<1> DEFINE events == GoldDrift(r, verdict) \cup OutputDrift(r, passes)
<1>2. rounds[r] \in Round /\ rounds[r].phase = "running"
  BY DEF IInv, TypeOK, FinishRound
<1>3. verdict \in [Golds -> Verdicts]
  BY DEF Verdicts
<1>4. Score(passes, verdict) \in 0..MaxScore
  BY <1>3, ScoreIsBounded
<1>5. previous \in Rounds \cup {None}
  <2>1. PreviousCandidates(r) \in SUBSET Rounds
    BY DEF PreviousCandidates, RoundsOf, Committed
  <2> QED BY <2>1, QueriesReturnRows
<1>6. row \in Round /\ row.score <= MaxScore
  <2>1. Cardinality(Done) + 1 \in Nat
    BY DoneIsCounted
  <2>2. MaxScore \in Nat
    BY MaxScoreIsNat
  <2>3. Score(passes, verdict) \in Nat /\ Score(passes, verdict) <= MaxScore
    BY <1>4, <2>2
  <2> QED BY <1>2, <1>3, <1>5, <2>1, <2>3 DEF Round
<1>7. rounds' = [rounds EXCEPT ![r] = row]
  BY <1>1, <1>2 DEF IInv, TypeOK
<1>8. r \in Rounds \ Committed
  BY <1>2 DEF Committed
<1>9. /\ row.phase = "done" /\ row.verdict = verdict
      /\ row.seen = rounds[r].seen /\ row.version = rounds[r].version
  BY <1>2 DEF Round
<1>10. row.version \in versions
  BY <1>2, <1>9 DEF IInv, RoundsHaveVersions
<1>11. gold' \in [Golds -> GoldRow]
  BY <1>1, <1>3, RowAfterIsGoldRow DEF IInv
<1>12. events \in SUBSET (Golds \cup Tests)
  BY DriftIsOfOutputs DEF IInv
<1>13. /\ drift' = drift \cup {<<r, x>> : x \in events}
       /\ {g \in Golds : row.seen[g] = "pass" /\ row.verdict[g] = "fail"}
              \subseteq events
  BY <1>1, <1>9 DEF GoldDrift
<1>14. UNCHANGED <<versions, active, requests>>
  BY DEF FinishRound
<1> HIDE DEF row, events
<1> QED
  BY <1>6, <1>7, <1>8, <1>9, <1>10, <1>11, <1>12, <1>13, <1>14, RoundStepInv

LEMMA AbandonReplayInv ==
    ASSUME IInv, NEW r \in Rounds, AbandonReplay(r)
    PROVE  IInv'
<1>1. PICK h \in Golds \cup {0} :
         LET replayed == {g \in Golds : g < h}
         IN  \E verdict \in [replayed -> {"pass", "fail"}] :
               /\ rounds' = [rounds EXCEPT
                     ![r].phase = "partial",
                     ![r].verdict = [g \in Golds |-> IF g \in replayed
                                                     THEN verdict[g] ELSE "none"]]
               /\ gold' = [g \in Golds |-> IF g \in replayed
                                           THEN RowAfter(g, r, verdict[g])
                                           ELSE gold[g]]
  BY DEF AbandonReplay
<1> DEFINE replayed == {g \in Golds : g < h}
<1>2. PICK some \in [replayed -> {"pass", "fail"}] :
               /\ rounds' = [rounds EXCEPT
                     ![r].phase = "partial",
                     ![r].verdict = [g \in Golds |-> IF g \in replayed
                                                     THEN some[g] ELSE "none"]]
               /\ gold' = [g \in Golds |-> IF g \in replayed
                                           THEN RowAfter(g, r, some[g])
                                           ELSE gold[g]]
  BY <1>1
<1> DEFINE verdict == [g \in Golds |-> IF g \in replayed THEN some[g] ELSE "none"]
<1> DEFINE row == [rounds[r] EXCEPT !.phase = "partial", !.verdict = verdict]
<1> HIDE DEF replayed
<1>3. rounds[r] \in Round /\ rounds[r].phase = "running" /\ rounds[r].score <= MaxScore
  BY DEF IInv, TypeOK, AbandonReplay
<1>4. verdict \in [Golds -> Verdicts]
  BY DEF Verdicts
<1>5. row \in Round /\ row.score <= MaxScore /\ row.phase = "partial"
      /\ row.version = rounds[r].version
  <2> HIDE DEF verdict
  <2> QED BY <1>3, <1>4 DEF Round
<1>6. rounds' = [rounds EXCEPT ![r] = row]
  BY <1>2, <1>3 DEF IInv, TypeOK
<1>7. r \in Rounds \ Committed
  BY <1>3 DEF Committed
<1>8. row.version \in versions
  BY <1>3, <1>5 DEF IInv, RoundsHaveVersions
<1>9. gold' \in [Golds -> GoldRow]
  <2> SUFFICES ASSUME NEW g \in Golds
               PROVE  (IF g \in replayed THEN RowAfter(g, r, some[g]) ELSE gold[g])
                        \in GoldRow
    BY <1>2
  <2>1. gold[g] \in GoldRow
    BY DEF IInv, TypeOK
  <2>2. g \in replayed => some[g] \in Verdicts
    BY DEF Verdicts
  <2>3. g \in replayed => RowAfter(g, r, some[g]) \in GoldRow
    BY <2>2, RowAfterIsGoldRow DEF IInv
  <2> QED BY <2>1, <2>3
<1>10. UNCHANGED <<versions, active, requests, drift>>
  BY DEF AbandonReplay
<1> HIDE DEF row
<1> QED BY <1>5, <1>6, <1>7, <1>8, <1>9, <1>10, QuietRoundStepInv

LEMMA BeginArtifactInv ==
    ASSUME IInv, NEW r \in Rounds, BeginArtifact(r)
    PROVE  IInv'
<1>1. PICK v \in active :
         rounds' = [rounds EXCEPT ![r].phase = "drafting", ![r].version = v]
  BY DEF BeginArtifact
<1> DEFINE row == [rounds[r] EXCEPT !.phase = "drafting", !.version = v]
<1>2. /\ rounds[r] \in Round /\ rounds[r].score <= MaxScore
      /\ v \in versions /\ v \in Versions /\ gold \in [Golds -> GoldRow]
  BY DEF IInv, TypeOK
<1>3. r \in Rounds \ Committed
  BY DEF BeginArtifact, Committed
<1>4. /\ row \in Round /\ row.score <= MaxScore /\ row.phase = "drafting"
      /\ row.version = v /\ row.verdict = rounds[r].verdict
  BY <1>2 DEF Round
<1>5. rounds' = [rounds EXCEPT ![r] = row]
  BY <1>1 DEF IInv, TypeOK
<1>6. row.verdict = Unjudged
  BY <1>3, <1>4 DEF IInv, OpenRoundsUnjudged
<1> HIDE DEF row
<1> QED
  BY <1>2, <1>3, <1>4, <1>5, <1>6, QuietRoundStepInv DEF BeginArtifact

LEMMA FinishArtifactInv ==
    ASSUME IInv, NEW r \in Rounds, FinishArtifact(r)
    PROVE  IInv'
<1>1. PICK score \in 0..MaxScore :
         rounds' = [rounds EXCEPT ![r].phase = "done",
                                  ![r].score = score,
                                  ![r].at = Cardinality(Done) + 1]
  BY DEF FinishArtifact
<1> DEFINE row == [rounds[r] EXCEPT !.phase = "done",
                                    !.score = score,
                                    !.at = Cardinality(Done) + 1]
<1>2. /\ rounds[r] \in Round /\ rounds[r].phase = "drafting"
      /\ gold \in [Golds -> GoldRow]
  BY DEF IInv, TypeOK, FinishArtifact
<1>3. r \in Rounds \ Committed
  BY <1>2 DEF Committed
<1>4. Cardinality(Done) + 1 \in Nat
  BY DoneIsCounted
<1>5. score \in Nat /\ score <= MaxScore
  BY MaxScoreIsNat
<1>6. /\ row \in Round /\ row.score <= MaxScore
      /\ row.version = rounds[r].version /\ row.verdict = rounds[r].verdict
  BY <1>2, <1>4, <1>5 DEF Round
<1>7. rounds' = [rounds EXCEPT ![r] = row]
  BY <1>1 DEF IInv, TypeOK
<1>8. row.verdict = Unjudged /\ row.version \in versions
  BY <1>2, <1>3, <1>6 DEF IInv, OpenRoundsUnjudged, RoundsHaveVersions
<1> HIDE DEF row
<1> QED
  BY <1>2, <1>3, <1>6, <1>7, <1>8, QuietRoundStepInv DEF FinishArtifact

LEMMA RollBackRoundInv ==
    ASSUME IInv, NEW r \in Rounds, RollBackRound(r)
    PROVE  IInv'
<1>1. r \in Rounds \ Committed
  BY DEF RollBackRound, Running, Committed
<1>2. NoRound \in Round /\ NoRound.score <= MaxScore
  <2>1. MaxScore \in Nat
    BY MaxScoreIsNat
  <2> QED BY <2>1 DEF NoRound, Round, Unjudged, Verdicts
<1>3. NoRound.phase = "unused" /\ NoRound.verdict = Unjudged
  BY DEF NoRound
<1>4. rounds' = [rounds EXCEPT ![r] = NoRound] /\ gold' \in [Golds -> GoldRow]
  BY DEF RollBackRound, IInv, TypeOK
<1> QED BY <1>1, <1>2, <1>3, <1>4, QuietRoundStepInv DEF RollBackRound

\* A step that only replaces the local state of one request.
LEMMA RequestStepInv ==
    ASSUME IInv, NEW q \in Requests, NEW local \in Request,
           requests' = [requests EXCEPT ![q] = local],
           UNCHANGED <<versions, active, rounds, gold, drift>>,
           local.phase # "idle" => local.round \in Committed,
           local.phase \in {"promote", "promoted"} =>
               \A g \in Golds : <<local.round, g>> \notin drift
    PROVE  IInv'
<1> USE DEF IInv
<1>1. TypeOK'
  BY DEF TypeOK
<1>2. OneActive' /\ RoundsHaveVersions' /\ OpenRoundsUnjudged' /\ DriftIsRecorded'
  BY DEF OneActive, RoundsHaveVersions, OpenRoundsUnjudged,
         DriftIsRecorded, Committed, Done
<1>3. RequestsHaveRounds'
  BY DEF RequestsHaveRounds, Committed, TypeOK
<1>4. GateSawNoDrift'
  BY DEF GateSawNoDrift, TypeOK
<1> QED BY <1>1, <1>2, <1>3, <1>4

LEMMA ReadTargetInv ==
    ASSUME IInv, NEW q \in Requests, NEW r \in Rounds, ReadTarget(q, r)
    PROVE  IInv'
<1> DEFINE isActive == rounds[r].version \in active
<1> DEFINE local == [NoRequest EXCEPT !.phase = "target", !.round = r,
                                      !.loaded = isActive]
<1>1. local \in Request /\ local.phase = "target" /\ local.round = r
  <2>1. isActive \in BOOLEAN
    OBVIOUS
  <2> HIDE DEF isActive
  <2> QED BY <2>1 DEF NoRequest, Request
<1>2. r \in Committed /\ requests' = [requests EXCEPT ![q] = local]
  BY DEF ReadTarget
<1>3. UNCHANGED <<versions, active, rounds, gold, drift>>
  BY DEF ReadTarget
<1> HIDE DEF local
<1> QED BY <1>1, <1>2, <1>3, RequestStepInv

LEMMA ReadActiveInv ==
    ASSUME IInv, NEW q \in Requests, ReadActive(q)
    PROVE  IInv'
<1>1. PICK v \in OrNone(active) :
         requests' = [requests EXCEPT ![q].phase = "active", ![q].active = v]
  BY DEF ReadActive
<1> DEFINE local == [requests[q] EXCEPT !.phase = "active", !.active = v]
<1>2. requests[q] \in Request /\ v \in Versions \cup {None}
  BY DEF IInv, TypeOK, OrNone
<1>3. local \in Request /\ local.phase = "active" /\ local.round = requests[q].round
  BY <1>2 DEF Request
<1>4. requests' = [requests EXCEPT ![q] = local]
  BY <1>1 DEF IInv, TypeOK
<1>5. requests[q].round \in Committed
  BY DEF IInv, RequestsHaveRounds, ReadActive
<1>6. UNCHANGED <<versions, active, rounds, gold, drift>>
  BY DEF ReadActive
<1> HIDE DEF local
<1> QED BY <1>3, <1>4, <1>5, <1>6, RequestStepInv

LEMMA ReadBaselineInv ==
    ASSUME IInv, NEW q \in Requests, ReadBaseline(q)
    PROVE  IInv'
<1> DEFINE rows == IF ComparesVersions(q) THEN RoundsOf({requests[q].active}) ELSE {}
<1>1. PICK base \in OrNone(FirstByCompletion(rows)), mark \in OrNone(NewestDone(rows)) :
         requests' = [requests EXCEPT ![q].phase = "baseline",
                                      ![q].base = base,
                                      ![q].mark = mark]
  BY DEF ReadBaseline
<1>2. base \in Rounds \cup {None} /\ mark \in Rounds \cup {None}
  <2>1. rows \in SUBSET Rounds
    BY DEF RoundsOf, Committed
  <2> HIDE DEF rows
  <2> QED BY <2>1, QueriesReturnRows
<1> DEFINE local == [requests[q] EXCEPT !.phase = "baseline",
                                        !.base = base, !.mark = mark]
<1>3. requests[q] \in Request
  BY DEF IInv, TypeOK
<1>4. local \in Request /\ local.phase = "baseline" /\ local.round = requests[q].round
  BY <1>2, <1>3 DEF Request
<1>5. requests' = [requests EXCEPT ![q] = local]
  BY <1>1 DEF IInv, TypeOK
<1>6. requests[q].round \in Committed
  BY DEF IInv, RequestsHaveRounds, ReadBaseline
<1>7. UNCHANGED <<versions, active, rounds, gold, drift>>
  BY DEF ReadBaseline
<1> HIDE DEF local
<1> QED BY <1>4, <1>5, <1>6, <1>7, RequestStepInv

LEMMA DecideInv ==
    ASSUME IInv, NEW q \in Requests, Decide(q)
    PROVE  IInv'
<1> DEFINE clears == RegressionFailures(requests[q].round) = {} /\ ScoreClears(q)
<1> DEFINE local == [requests[q] EXCEPT !.phase =
                        IF clears THEN "promote" ELSE "blocked"]
<1>1. requests[q] \in Request /\ requests[q].phase = "baseline"
  BY DEF IInv, TypeOK, Decide
<1>2. requests' = [requests EXCEPT ![q] = local]
  BY DEF Decide, IInv, TypeOK
<1>3. clears => \A g \in Golds : <<requests[q].round, g>> \notin drift
  BY DEF RegressionFailures
<1> HIDE DEF clears
<1>4. /\ local \in Request /\ local.round = requests[q].round
      /\ local.phase = IF clears THEN "promote" ELSE "blocked"
  BY <1>1 DEF Request
<1>5. requests[q].round \in Committed
  BY <1>1 DEF IInv, RequestsHaveRounds
<1>6. UNCHANGED <<versions, active, rounds, gold, drift>>
  BY DEF Decide
<1> HIDE DEF local
<1> QED BY <1>2, <1>3, <1>4, <1>5, <1>6, RequestStepInv

LEMMA EndRequestInv ==
    ASSUME IInv, NEW q \in Requests, EndRequest(q)
    PROVE  IInv'
<1>1. NoRequest \in Request /\ NoRequest.phase = "idle"
  BY DEF NoRequest, Request
<1>2. requests' = [requests EXCEPT ![q] = NoRequest]
  BY DEF EndRequest
<1> QED BY <1>1, <1>2, RequestStepInv DEF EndRequest

LEMMA PromoteInv ==
    ASSUME IInv, NEW q \in Requests, Promote(q)
    PROVE  IInv'
<1> USE DEF IInv
<1>1. requests[q] \in Request /\ requests[q].phase = "promote"
  BY DEF TypeOK, Promote
<1>2. requests[q].round \in Committed
  BY <1>1 DEF RequestsHaveRounds
<1>3. Target(q) \in versions
  BY <1>2 DEF RoundsHaveVersions, Committed, Target
<1>4. active' \subseteq versions'
  BY <1>3 DEF Promote, ActiveAfter, TypeOK
<1> DEFINE local == [requests[q] EXCEPT !.phase = "promoted"]
<1>5. local \in Request /\ local.phase = "promoted" /\ local.round = requests[q].round
  BY <1>1 DEF Request
<1>6. requests' = [requests EXCEPT ![q] = local]
  BY DEF Promote, TypeOK
<1> HIDE DEF local
<1>7. TypeOK'
  BY <1>4, <1>5, <1>6 DEF TypeOK, Promote
<1>8. OneActive'
  BY DEF OneActive, UniqueActive, Promote
<1>9. RoundsHaveVersions' /\ OpenRoundsUnjudged' /\ DriftIsRecorded'
  BY DEF RoundsHaveVersions, OpenRoundsUnjudged, DriftIsRecorded, Committed,
         Done, Promote
<1>10. RequestsHaveRounds'
  BY <1>2, <1>5, <1>6 DEF RequestsHaveRounds, Committed, Promote, TypeOK
<1>11. GateSawNoDrift'
  BY <1>1, <1>5, <1>6 DEF GateSawNoDrift, Promote, TypeOK
<1> QED BY <1>7, <1>8, <1>9, <1>10, <1>11

LEMMA StutterInv == ASSUME IInv, UNCHANGED vars PROVE IInv'
BY DEF IInv, vars, TypeOK, OneActive, UniqueActive, RoundsHaveVersions,
       OpenRoundsUnjudged, RequestsHaveRounds, DriftIsRecorded, GateSawNoDrift,
       Committed, Done

LEMMA StepInv == IInv /\ [Next]_vars => IInv'
<1> SUFFICES ASSUME IInv, [Next]_vars PROVE IInv'
  OBVIOUS
<1>1. CASE UNCHANGED vars
  BY <1>1, StutterInv
<1>2. ASSUME NEW v \in Versions, AddCandidate(v) \/ Bootstrap(v) PROVE IInv'
  BY <1>2, AddCandidateInv, BootstrapInv
<1>3. ASSUME NEW r \in Rounds,
             \/ \E v \in Versions : BeginRound(r, v)
             \/ FinishRound(r) \/ AbandonReplay(r)
             \/ BeginArtifact(r) \/ FinishArtifact(r) \/ RollBackRound(r)
      PROVE  IInv'
  BY <1>3, BeginRoundInv, FinishRoundInv, AbandonReplayInv, BeginArtifactInv,
     FinishArtifactInv, RollBackRoundInv
<1>4. ASSUME NEW q \in Requests,
             \/ \E r \in Rounds : ReadTarget(q, r)
             \/ ReadActive(q) \/ ReadBaseline(q) \/ Decide(q)
             \/ Promote(q) \/ EndRequest(q)
      PROVE  IInv'
  BY <1>4, ReadTargetInv, ReadActiveInv, ReadBaselineInv, DecideInv,
     PromoteInv, EndRequestInv
<1> QED BY <1>1, <1>2, <1>3, <1>4 DEF Next

\* The invariant is inductive.
THEOREM Inductive == Spec => []IInv
BY InitInv, StepInv, PTL DEF Spec

\* Every variable keeps its type: in particular a round never scores more
\* than its outputs, and only existing versions are ever active.
THEOREM TypeCorrect == Spec => []TypeOK
<1>1. IInv => TypeOK
  BY DEF IInv
<1> QED BY Inductive, <1>1, PTL

-----------------------------------------------------------------------------
\* Promotion implements the compare-and-swap cell.

LEMMA CellInitMaps == Init => Cell!CellInit
BY DEF Init, Cell!CellInit, NoRequest

\* A step of the requests that leaves the active version each of them compares
\* with alone, and the active set too, is a stutter of the cell.
LEMMA CellStutters ==
    ASSUME UNCHANGED active, \A q \in Requests : requests'[q].active = requests[q].active
    PROVE  UNCHANGED Cell!cellVars
BY DEF Cell!cellVars

LEMMA BootstrapFills ==
    ASSUME IInv, NEW v \in Versions, Bootstrap(v) PROVE Cell!Fill(v)
<1>1. active = {} /\ active' = {v}
  BY DEF IInv, TypeOK, Bootstrap, UniqueActive
<1>2. UNCHANGED requests
  BY DEF Bootstrap
<1> QED BY <1>1, <1>2 DEF Cell!Fill

LEMMA ReadActiveReads ==
    ASSUME IInv, NEW q \in Requests, ReadActive(q) PROVE Cell!Read(q)
<1>1. PICK v \in OrNone(active) :
         requests' = [requests EXCEPT ![q].phase = "active", ![q].active = v]
  BY DEF ReadActive
<1>2. requests \in [Requests -> Request]
  BY DEF IInv, TypeOK
<1>3. /\ requests'[q].active = v
      /\ \A p \in Requests \ {q} : requests'[p] = requests[p]
  BY <1>1, <1>2 DEF Request
<1>4. {v} \ {None} = active
  BY NoneIsNoValue DEF OrNone, IInv, TypeOK, OneActive, UniqueActive
<1>5. UNCHANGED active
  BY DEF ReadActive
<1> QED BY <1>3, <1>4, <1>5 DEF Cell!Read

\* Starting and ending a request forgets what the request had read.
LEMMA ResetForgets ==
    ASSUME IInv, NEW q \in Requests, NEW local, local.active = None,
           requests' = [requests EXCEPT ![q] = local], UNCHANGED active
    PROVE  Cell!Forget(q)
<1>1. requests'[q] = local /\ \A p \in Requests \ {q} : requests'[p] = requests[p]
  BY DEF IInv, TypeOK
<1> QED BY <1>1 DEF Cell!Forget

LEMMA PromoteSwaps ==
    ASSUME IInv, NEW q \in Requests, Promote(q)
    PROVE  \/ \E v \in Versions : Cell!Swap(q, v)
           \/ Cell!Clear(q)
           \/ UNCHANGED Cell!cellVars
<1>1. /\ requests \in [Requests -> Request]
      /\ requests[q].round \in Rounds
      /\ rounds[requests[q].round].version \in Versions
  BY DEF IInv, TypeOK, Promote, RequestsHaveRounds, RoundsHaveVersions, Committed
<1>2. \A p \in Requests : requests'[p].active = requests[p].active
  BY <1>1 DEF Promote, Request
<1>3. /\ active' = ActiveAfter(q) /\ UniqueActive(active')
      /\ Target(q) \in Versions
  BY <1>1 DEF Promote, Target
<1>4. CASE ~requests[q].loaded
  <2>1. Target(q) \in active'
    BY <1>3, <1>4 DEF ActiveAfter
  <2>2. active' = {Target(q)}
    BY <1>3, <2>1 DEF UniqueActive
  <2>3. active \ {Target(q)} \subseteq {requests[q].active} \ {None}
    BY <1>3, <2>2, NoneIsNoValue DEF ActiveAfter, ComparesVersions, IInv, TypeOK
  <2> QED BY <1>2, <1>3, <2>2, <2>3 DEF Cell!Swap
<1>5. CASE requests[q].loaded /\ ComparesVersions(q)
  <2>1. active' = active \ {requests[q].active}
    BY <1>3, <1>5 DEF ActiveAfter
  <2>2. requests[q].active # None
    BY <1>5 DEF ComparesVersions
  <2> QED BY <1>2, <2>1, <2>2 DEF Cell!Clear
<1>6. CASE requests[q].loaded /\ ~ComparesVersions(q)
  <2>1. UNCHANGED active
    BY <1>3, <1>6 DEF ActiveAfter
  <2> QED BY <1>2, <2>1, CellStutters
<1> QED BY <1>4, <1>5, <1>6

\* The detailed system, with its rounds, its gold rows and the three separate
\* reads of promote(), implements the compare-and-swap cell.
THEOREM PromotionImplementsCell == Spec => ImplementsCell
<1>1. IInv /\ [Next]_vars => [Cell!CellNext]_(Cell!cellVars)
  <2> SUFFICES ASSUME IInv, [Next]_vars PROVE [Cell!CellNext]_(Cell!cellVars)
    OBVIOUS
  <2>1. CASE UNCHANGED vars
    BY <2>1, CellStutters DEF vars
  <2>2. ASSUME NEW v \in Versions, AddCandidate(v) PROVE UNCHANGED Cell!cellVars
    BY <2>2, CellStutters DEF AddCandidate
  <2>3. ASSUME NEW v \in Versions, Bootstrap(v) PROVE Cell!CellNext
    BY <2>3, BootstrapFills DEF Cell!CellNext
  <2>4. ASSUME NEW r \in Rounds,
               \/ \E v \in Versions : BeginRound(r, v)
               \/ FinishRound(r) \/ AbandonReplay(r)
               \/ BeginArtifact(r) \/ FinishArtifact(r) \/ RollBackRound(r)
        PROVE  UNCHANGED Cell!cellVars
    <3>1. UNCHANGED <<active, requests>>
      BY <2>4 DEF BeginRound, FinishRound, AbandonReplay, BeginArtifact,
                  FinishArtifact, RollBackRound
    <3> QED BY <3>1, CellStutters
  <2>5. ASSUME NEW q \in Requests, NEW r \in Rounds, ReadTarget(q, r)
        PROVE  Cell!CellNext
    <3> DEFINE isActive == rounds[r].version \in active
    <3> DEFINE local == [NoRequest EXCEPT !.phase = "target", !.round = r,
                                          !.loaded = isActive]
    <3>1. requests' = [requests EXCEPT ![q] = local] /\ UNCHANGED active
      BY <2>5 DEF ReadTarget
    <3> HIDE DEF isActive
    <3>2. local.active = None
      BY DEF NoRequest
    <3> HIDE DEF local
    <3> QED BY <3>1, <3>2, ResetForgets DEF Cell!CellNext
  <2>6. ASSUME NEW q \in Requests, ReadActive(q) PROVE Cell!CellNext
    BY <2>6, ReadActiveReads DEF Cell!CellNext
  <2>7. ASSUME NEW q \in Requests, ReadBaseline(q) \/ Decide(q)
        PROVE  UNCHANGED Cell!cellVars
    <3>1. requests \in [Requests -> Request]
      BY DEF IInv, TypeOK
    <3>2. CASE ReadBaseline(q)
      <4>1. PICK base, mark :
               requests' = [requests EXCEPT ![q].phase = "baseline",
                                            ![q].base = base,
                                            ![q].mark = mark]
        BY <3>2 DEF ReadBaseline
      <4>2. \A p \in Requests : requests'[p].active = requests[p].active
        BY <3>1, <4>1 DEF Request
      <4> QED BY <3>2, <4>2, CellStutters DEF ReadBaseline
    <3>3. CASE Decide(q)
      <4>1. PICK phase : requests' = [requests EXCEPT ![q].phase = phase]
        BY <3>3 DEF Decide
      <4>2. \A p \in Requests : requests'[p].active = requests[p].active
        BY <3>1, <4>1 DEF Request
      <4> QED BY <3>3, <4>2, CellStutters DEF Decide
    <3> QED BY <2>7, <3>2, <3>3
  <2>8. ASSUME NEW q \in Requests, Promote(q) PROVE [Cell!CellNext]_(Cell!cellVars)
    BY <2>8, PromoteSwaps DEF Cell!CellNext
  <2>9. ASSUME NEW q \in Requests, EndRequest(q) PROVE Cell!CellNext
    <3>1. requests' = [requests EXCEPT ![q] = NoRequest] /\ UNCHANGED active
      BY <2>9 DEF EndRequest
    <3>2. NoRequest.active = None
      BY DEF NoRequest
    <3> QED BY <3>1, <3>2, ResetForgets DEF Cell!CellNext
  <2> QED BY <2>1, <2>2, <2>3, <2>4, <2>5, <2>6, <2>7, <2>8, <2>9 DEF Next
<1> QED BY CellInitMaps, <1>1, Inductive, PTL DEF Spec, ImplementsCell, Cell!CellSpec

-----------------------------------------------------------------------------
\* The baseline of a promotion, where NULLs are listed last.

\* Completed rounds have different completion times, none later than their number.
Times == /\ \A r \in Done : rounds[r].at \in Nat /\ rounds[r].at <= Cardinality(Done)
         /\ \A r, s \in Done : rounds[r].at = rounds[s].at => r = s

\* The steps of a round write its row and no other.
LEMMA RoundActions ==
    ASSUME IInv, NEW r \in Rounds,
           \/ \E v \in Versions : BeginRound(r, v)
           \/ FinishRound(r) \/ AbandonReplay(r)
           \/ BeginArtifact(r) \/ FinishArtifact(r) \/ RollBackRound(r)
    PROVE  /\ rounds' = [rounds EXCEPT ![r] = rounds'[r]]
           /\ rounds[r].phase \in {"unused", "running", "drafting"}
           /\ rounds'[r].phase = "done" => rounds'[r].at = Cardinality(Done) + 1
<1>1. rounds \in [Rounds -> Round] /\ rounds[r] \in Round
  BY DEF IInv, TypeOK
<1>2. CASE \E v \in Versions : BeginRound(r, v)
  <2>1. PICK v, seen : rounds' = [rounds EXCEPT ![r].phase = "running", ![r].version = v,
                                               ![r].seen = seen]
    BY <1>2 DEF BeginRound
  <2>2. rounds[r].phase = "unused"
    BY <1>2 DEF BeginRound
  <2>3. rounds'[r].phase = "running" /\ rounds' = [rounds EXCEPT ![r] = rounds'[r]]
    BY <1>1, <2>1 DEF Round
  <2> QED BY <2>2, <2>3
<1>3. CASE FinishRound(r)
  <2>1. PICK passes \in SUBSET Tests, verdict \in [Golds -> {"pass", "fail"}],
             previous \in OrNone(FirstByCompletion(PreviousCandidates(r))) :
            rounds' = [rounds EXCEPT ![r].phase = "done", ![r].verdict = verdict,
                           ![r].passes = passes, ![r].score = Score(passes, verdict),
                           ![r].previous = previous, ![r].at = Cardinality(Done) + 1]
    BY <1>3 DEF FinishRound
  <2>2. rounds[r].phase = "running"
    BY <1>3 DEF FinishRound
  <2>3. /\ rounds'[r].phase = "done" /\ rounds'[r].at = Cardinality(Done) + 1
        /\ rounds' = [rounds EXCEPT ![r] = rounds'[r]]
    BY <1>1, <2>1 DEF Round
  <2> QED BY <2>2, <2>3
<1>4. CASE AbandonReplay(r)
  <2>1. PICK verdict : rounds' = [rounds EXCEPT ![r].phase = "partial", ![r].verdict = verdict]
    BY <1>4 DEF AbandonReplay
  <2>2. rounds[r].phase = "running"
    BY <1>4 DEF AbandonReplay
  <2>3. rounds'[r].phase = "partial" /\ rounds' = [rounds EXCEPT ![r] = rounds'[r]]
    BY <1>1, <2>1 DEF Round
  <2> QED BY <2>2, <2>3
<1>5. CASE BeginArtifact(r)
  <2>1. PICK v : rounds' = [rounds EXCEPT ![r].phase = "drafting", ![r].version = v]
    BY <1>5 DEF BeginArtifact
  <2>2. rounds[r].phase = "unused"
    BY <1>5 DEF BeginArtifact
  <2>3. rounds'[r].phase = "drafting" /\ rounds' = [rounds EXCEPT ![r] = rounds'[r]]
    BY <1>1, <2>1 DEF Round
  <2> QED BY <2>2, <2>3
<1>6. CASE FinishArtifact(r)
  <2>1. PICK score : rounds' = [rounds EXCEPT ![r].phase = "done", ![r].score = score,
                                              ![r].at = Cardinality(Done) + 1]
    BY <1>6 DEF FinishArtifact
  <2>2. rounds[r].phase = "drafting"
    BY <1>6 DEF FinishArtifact
  <2>3. /\ rounds'[r].phase = "done" /\ rounds'[r].at = Cardinality(Done) + 1
        /\ rounds' = [rounds EXCEPT ![r] = rounds'[r]]
    BY <1>1, <2>1 DEF Round
  <2> QED BY <2>2, <2>3
<1>7. CASE RollBackRound(r)
  <2>1. rounds' = [rounds EXCEPT ![r] = NoRound] /\ rounds[r].phase \in {"running", "drafting"}
    BY <1>7 DEF RollBackRound, Running
  <2>2. NoRound.phase = "unused"
    BY DEF NoRound
  <2>3. rounds'[r] = NoRound
    BY <1>1, <2>1
  <2> QED BY <2>1, <2>2, <2>3
<1> QED BY <1>2, <1>3, <1>4, <1>5, <1>6, <1>7

\* A committed row is never written again.
LEMMA CommittedStay ==
    ASSUME IInv, [Next]_vars, NEW r \in Committed
    PROVE  rounds'[r] = rounds[r]
<1>1. rounds \in [Rounds -> Round] /\ r \in Rounds /\ rounds[r].phase \in {"done", "partial"}
  BY DEF IInv, TypeOK, Committed
<1>2. CASE UNCHANGED rounds
  BY <1>2
<1>3. ASSUME NEW s \in Rounds,
             \/ \E v \in Versions : BeginRound(s, v)
             \/ FinishRound(s) \/ AbandonReplay(s)
             \/ BeginArtifact(s) \/ FinishArtifact(s) \/ RollBackRound(s)
      PROVE  rounds'[r] = rounds[r]
  <2>1. /\ rounds[s].phase \in {"unused", "running", "drafting"}
        /\ rounds' = [rounds EXCEPT ![s] = rounds'[s]]
    BY <1>3, RoundActions
  <2> QED BY <1>1, <2>1
<1> QED BY <1>2, <1>3 DEF Next, vars, AddCandidate, Bootstrap, ReadTarget, ReadActive,
                          ReadBaseline, Decide, Promote, EndRequest

\* A round that is completed comes last.
LEMMA CompletionIsLast ==
    ASSUME IInv, Times, NEW r \in Rounds \ Done, Done' = Done \cup {r},
           rounds'[r].at = Cardinality(Done) + 1,
           \A s \in Done : rounds'[s] = rounds[s]
    PROVE  Times'
<1>1. Done \subseteq Rounds /\ IsFiniteSet(Done) /\ Cardinality(Done) \in Nat
  BY RoundsAreFinite, FS_Subset, FS_CardinalityType DEF Done
<1>2. Cardinality(Done') = Cardinality(Done) + 1
  BY <1>1, FS_AddElement
<1>3. \A s \in Done : rounds'[s].at \in Nat /\ rounds'[s].at <= Cardinality(Done)
                      /\ rounds'[s].at # rounds'[r].at
  BY <1>1 DEF Times
<1>4. \A s \in Done' : rounds'[s].at \in Nat /\ rounds'[s].at <= Cardinality(Done')
  BY <1>1, <1>2, <1>3
<1>5. \A s, t \in Done' : rounds'[s].at = rounds'[t].at => s = t
  BY <1>3 DEF Times
<1> QED BY <1>4, <1>5 DEF Times

LEMMA TimesStep == ASSUME IInv, Times, [Next]_vars PROVE Times'
<1>1. rounds \in [Rounds -> Round] /\ \A r \in Done : rounds'[r] = rounds[r]
  BY CommittedStay DEF IInv, TypeOK, Done, Committed
<1>2. CASE Done' = Done
  BY <1>1, <1>2 DEF Times
<1>3. ASSUME NEW r \in Rounds,
             \/ \E v \in Versions : BeginRound(r, v)
             \/ FinishRound(r) \/ AbandonReplay(r)
             \/ BeginArtifact(r) \/ FinishArtifact(r) \/ RollBackRound(r)
      PROVE  Times'
  <2>1. /\ rounds' = [rounds EXCEPT ![r] = rounds'[r]]
        /\ rounds[r].phase \in {"unused", "running", "drafting"}
        /\ rounds'[r].phase = "done" => rounds'[r].at = Cardinality(Done) + 1
    BY <1>3, RoundActions
  <2>2. CASE rounds'[r].phase = "done"
    <3>1. Done' = Done \cup {r} /\ r \in Rounds \ Done
      BY <1>1, <2>1, <2>2 DEF Done
    <3> QED BY <1>1, <2>1, <2>2, <3>1, CompletionIsLast
  <2>3. CASE rounds'[r].phase # "done"
    <3>1. Done' = Done
      BY <1>1, <2>1, <2>3 DEF Done
    <3> QED BY <1>2, <3>1
  <2> QED BY <2>2, <2>3
<1>4. UNCHANGED rounds => Done' = Done
  BY DEF Done
<1> QED BY <1>2, <1>3, <1>4
        DEF Next, vars, AddCandidate, Bootstrap, ReadTarget, ReadActive,
            ReadBaseline, Decide, Promote, EndRequest

\* The baseline a request compares with is the newest completed round, when there is one,
\* and a request that has passed the gate clears it.
HasBaseline(q) ==
    /\ requests[q].phase \in {"baseline", "promote", "promoted"} =>
           /\ requests[q].base \in Committed \cup {None}
           /\ requests[q].mark # None => requests[q].base = requests[q].mark
    /\ requests[q].phase \in {"promote", "promoted"} => ScoreClears(q)

Baselines == IInv /\ Times /\ \A q \in Requests : HasBaseline(q)

LEMMA InitBaselines == Init => Baselines
BY InitInv DEF Init, Baselines, Times, HasBaseline, Done, NoRound, NoRequest

\* A request that is between two steps keeps what it has found.
LEMMA BaselineStays ==
    ASSUME Baselines, [Next]_vars, NEW q \in Requests, requests'[q] = requests[q],
           requests[q].phase # "idle"
    PROVE  HasBaseline(q)'
<1>1. /\ \A r \in Committed : rounds'[r] = rounds[r]
      /\ requests[q].round \in Committed
  BY CommittedStay DEF Baselines, IInv, RequestsHaveRounds
<1>2. \A r \in Committed : r \in Committed'
  BY <1>1 DEF Committed
<1>3. CASE requests[q].phase \in {"baseline", "promote", "promoted"}
  <2>1. /\ requests[q].base \in Committed \cup {None}
        /\ requests[q].mark # None => requests[q].base = requests[q].mark
        /\ requests[q].phase \in {"promote", "promoted"} => ScoreClears(q)
    BY <1>3 DEF Baselines, HasBaseline
  <2>2. CASE requests[q].base = None
    BY <2>1, <2>2 DEF HasBaseline, ScoreClears
  <2>3. CASE requests[q].base \in Committed
    BY <1>1, <1>2, <2>1, <2>3 DEF HasBaseline, ScoreClears
  <2> QED BY <2>1, <2>2, <2>3
<1> QED BY <1>3 DEF HasBaseline

LEMMA ReadBaselineFinds ==
    ASSUME NullsFirst = FALSE, Baselines, NEW q \in Requests, ReadBaseline(q)
    PROVE  HasBaseline(q)'
<1>1. PICK rows : rows = IF ComparesVersions(q) THEN RoundsOf({requests[q].active}) ELSE {}
  OBVIOUS
<1>2. PICK base \in OrNone(FirstByCompletion(rows)), mark \in OrNone(NewestDone(rows)) :
         requests' = [requests EXCEPT ![q].phase = "baseline", ![q].base = base,
                                      ![q].mark = mark]
  BY <1>1 DEF ReadBaseline
<1>3. requests \in [Requests -> Request] /\ UNCHANGED rounds
  BY DEF ReadBaseline, Baselines, IInv, TypeOK
<1>4. /\ requests'[q].phase = "baseline" /\ requests'[q].base = base
      /\ requests'[q].mark = mark
  BY <1>2, <1>3 DEF Request
<1>5. rows \subseteq Committed /\ Done \subseteq Committed
  BY <1>1 DEF RoundsOf, Committed, Done
<1>6. base \in Committed \cup {None}
  BY <1>5 DEF OrNone, FirstByCompletion, NewestDone
<1>7. ASSUME mark # None PROVE base = mark
  <2>1. mark \in NewestDone(rows)
    BY <1>7 DEF OrNone
  <2>2. base \in NewestDone(rows)
    BY <2>1 DEF OrNone, FirstByCompletion, NewestDone
  <2>3. /\ mark \in Done /\ base \in Done /\ rounds[mark].at <= rounds[base].at
        /\ rounds[base].at <= rounds[mark].at
    BY <2>1, <2>2 DEF NewestDone
  <2>4. rounds[mark].at \in Nat /\ rounds[base].at \in Nat
    BY <2>3 DEF Baselines, Times
  <2> QED BY <2>3, <2>4 DEF Baselines, Times
<1>8. Committed' = Committed
  BY <1>3 DEF Committed
<1> QED BY <1>4, <1>6, <1>7, <1>8 DEF HasBaseline

LEMMA StepBaselines ==
    ASSUME NullsFirst = FALSE, Baselines, [Next]_vars PROVE Baselines'
<1>1. IInv /\ IInv' /\ Times' /\ requests \in [Requests -> Request]
  BY TimesStep, StepInv DEF Baselines, IInv, TypeOK
<1>2. ASSUME NEW q \in Requests PROVE HasBaseline(q)'
  <2>1. CASE requests'[q].phase \notin {"baseline", "promote", "promoted"}
    BY <2>1 DEF HasBaseline
  <2>2. CASE requests'[q] = requests[q] /\ requests[q].phase # "idle"
    BY <2>2, BaselineStays
  <2>3. ASSUME NEW p \in Requests, p # q,
               \/ \E r \in Rounds : ReadTarget(p, r)
               \/ ReadActive(p) \/ ReadBaseline(p) \/ Decide(p)
               \/ Promote(p) \/ EndRequest(p)
        PROVE  requests'[q] = requests[q]
    BY <1>1, <2>3 DEF ReadTarget, ReadActive, ReadBaseline, Decide, Promote, EndRequest
  <2>4. CASE ReadBaseline(q)
    BY <2>4, ReadBaselineFinds
  <2>5. CASE Decide(q)
    <3>1. /\ requests[q].phase = "baseline" /\ UNCHANGED rounds
          /\ requests'[q].phase = IF RegressionFailures(requests[q].round) = {} /\ ScoreClears(q)
                                  THEN "promote" ELSE "blocked"
          /\ requests'[q].base = requests[q].base /\ requests'[q].mark = requests[q].mark
          /\ requests'[q].round = requests[q].round
      BY <1>1, <2>5 DEF Decide, Request
    <3>2. /\ requests[q].base \in Committed \cup {None}
          /\ requests[q].mark # None => requests[q].base = requests[q].mark
      BY <3>1 DEF Baselines, HasBaseline
    <3> QED BY <3>1, <3>2 DEF HasBaseline, ScoreClears, Committed
  <2>6. CASE Promote(q)
    <3>1. /\ requests[q].phase = "promote" /\ UNCHANGED rounds
          /\ requests'[q].base = requests[q].base /\ requests'[q].mark = requests[q].mark
          /\ requests'[q].round = requests[q].round
      BY <1>1, <2>6 DEF Promote, Request
    <3> QED BY <3>1 DEF Baselines, HasBaseline, ScoreClears, Committed
  <2>7. CASE ReadActive(q) \/ EndRequest(q) \/ \E r \in Rounds : ReadTarget(q, r)
    <3>1. ASSUME ReadActive(q) PROVE requests'[q].phase = "active"
      <4>1. PICK v : requests' = [requests EXCEPT ![q].phase = "active", ![q].active = v]
        BY <3>1 DEF ReadActive
      <4> QED BY <1>1, <4>1 DEF Request
    <3>2. ASSUME EndRequest(q) PROVE requests'[q].phase = "idle"
      BY <1>1, <3>2 DEF EndRequest, NoRequest
    <3>3. ASSUME NEW r \in Rounds, ReadTarget(q, r) PROVE requests'[q].phase = "target"
      <4>1. PICK loaded : requests' = [requests EXCEPT ![q] =
                    [NoRequest EXCEPT !.phase = "target", !.round = r, !.loaded = loaded]]
        BY <3>3 DEF ReadTarget
      <4> QED BY <1>1, <4>1 DEF NoRequest
    <3> QED BY <2>1, <2>7, <3>1, <3>2, <3>3
  <2>8. UNCHANGED requests => requests'[q] = requests[q]
    OBVIOUS
  <2>9. CASE requests'[q] = requests[q] /\ requests[q].phase = "idle"
    BY <2>9 DEF HasBaseline
  <2>10. \/ UNCHANGED requests
         \/ \E p \in Requests : \/ \E r \in Rounds : ReadTarget(p, r)
                               \/ ReadActive(p) \/ ReadBaseline(p) \/ Decide(p)
                               \/ Promote(p) \/ EndRequest(p)
    BY DEF Next, vars, AddCandidate, Bootstrap, BeginRound, FinishRound, AbandonReplay,
           BeginArtifact, FinishArtifact, RollBackRound
  <2>11. CASE requests'[q] = requests[q]
    BY <2>2, <2>9, <2>11
  <2> QED BY <2>3, <2>4, <2>5, <2>6, <2>7, <2>8, <2>10, <2>11
<1> QED BY <1>1, <1>2 DEF Baselines

\* Where NULLs are listed last (SQLite, and so the tests), a version that replaces the
\* active one scored the threshold better than its newest completed round, however many
\* rounds and promotions overlap (promote, _latest_round).
THEOREM PromotionIsEarned == ASSUME NullsFirst = FALSE PROVE Spec => []PromotionClearsBaseline
<1>1. Baselines => PromotionClearsBaseline
  BY DEF Baselines, HasBaseline, ScoreClears, PromotionClearsBaseline, IInv, TypeOK
<1>2. Baselines /\ [Next]_vars => Baselines'
  BY StepBaselines
<1> QED BY <1>1, <1>2, InitBaselines, PTL DEF Spec

-----------------------------------------------------------------------------
\* The regressions of the round of a promotion.

Regressed(r, g) == rounds[r].seen[g] = "pass" /\ rounds[r].verdict[g] = "fail"

\* A regression of a committed round shows in the gold row until a later round
\* replays the example: the row of an unfinished round has no drift event.
GoldRowsShowRegressions ==
    \A r \in Committed, g \in Golds :
        Regressed(r, g) /\ gold[g].round = r => gold[g].result = "fail"

\* The gate saw the gold row of no regression of its round, and none appears
\* later: only a round that is not yet committed writes gold rows.
GateSawNoGoldRow ==
    \A q \in Requests : requests[q].phase \in {"promote", "promoted"} =>
        \A g \in Golds \ Canaries :
            Regressed(requests[q].round, g) => gold[g].round # requests[q].round

Regressions == IInv /\ GoldRowsShowRegressions /\ GateSawNoGoldRow

LEMMA InitRegressions == Init => Regressions
BY InitInv DEF Init, Regressions, GoldRowsShowRegressions, GateSawNoGoldRow,
       Committed, NoRound, NoRequest

\* A gold row is kept, or becomes that of a round that was not committed and
\* shows the regression that round found.
LEMMA GoldRowsStep ==
    ASSUME IInv, [Next]_vars, NEW g \in Golds
    PROVE  \/ /\ gold'[g] = gold[g]
              /\ \A r \in Committed' \ Committed : ~Regressed(r, g)'
           \/ \E s \in Rounds \ Committed :
                 /\ gold'[g].round = s
                 /\ Committed' \subseteq Committed \cup {s}
                 /\ Regressed(s, g)' => gold'[g].result = "fail"
<1>1. rounds \in [Rounds -> Round]
  BY DEF IInv, TypeOK
<1>2. ASSUME NEW s \in Rounds, NEW row, rounds' = [rounds EXCEPT ![s] = row]
      PROVE  Committed' \subseteq Committed \cup {s} /\ rounds'[s] = row
  BY <1>1, <1>2 DEF Committed
<1>3. ASSUME NEW s \in Rounds, NEW v \in Versions, BeginRound(s, v)
      PROVE  gold' = gold /\ Committed' \subseteq Committed
  <2>1. PICK seen : rounds' = [rounds EXCEPT ![s].phase = "running", ![s].version = v,
                                             ![s].seen = seen]
    BY <1>3 DEF BeginRound
  <2> QED BY <1>1, <1>3, <2>1 DEF BeginRound, Committed, Round
<1>4. ASSUME NEW s \in Rounds, FinishRound(s)
      PROVE  /\ s \notin Committed /\ gold'[g].round = s
             /\ Committed' \subseteq Committed \cup {s}
             /\ Regressed(s, g)' => gold'[g].result = "fail"
  <2>1. PICK passes \in SUBSET Tests, verdict \in [Golds -> {"pass", "fail"}],
             previous \in OrNone(FirstByCompletion(PreviousCandidates(s))) :
          /\ rounds' = [rounds EXCEPT ![s].phase = "done",
                                      ![s].verdict = verdict,
                                      ![s].passes = passes,
                                      ![s].score = Score(passes, verdict),
                                      ![s].previous = previous,
                                      ![s].at = Cardinality(Done) + 1]
          /\ gold' = [h \in Golds |-> RowAfter(h, s, verdict[h])]
    BY <1>4 DEF FinishRound
  <2>2. /\ rounds'[s].verdict = verdict /\ rounds'[s].seen = rounds[s].seen
        /\ Committed' \subseteq Committed \cup {s}
    <3>1. PICK row : row = [rounds[s] EXCEPT !.phase = "done", !.verdict = verdict,
                               !.passes = passes, !.score = Score(passes, verdict),
                               !.previous = previous, !.at = Cardinality(Done) + 1]
      OBVIOUS
    <3>2. rounds' = [rounds EXCEPT ![s] = row]
      BY <2>1, <3>1
    <3>3. rounds[s] \in Round
      BY <1>1
    <3>4. row.verdict = verdict /\ row.seen = rounds[s].seen
      BY <3>1, <3>3 DEF Round
    <3> QED BY <1>2, <3>2, <3>4
  <2>3. gold'[g] = RowAfter(g, s, verdict[g])
    BY <2>1
  <2>4. s \notin Committed
    BY <1>4 DEF FinishRound, Committed
  <2> QED BY <2>2, <2>3, <2>4 DEF RowAfter, Regressed
<1>5. ASSUME NEW s \in Rounds, AbandonReplay(s)
      PROVE  /\ s \notin Committed /\ Committed' \subseteq Committed \cup {s}
             /\ \/ gold'[g] = gold[g] /\ ~Regressed(s, g)'
                \/ /\ gold'[g].round = s
                   /\ Regressed(s, g)' => gold'[g].result = "fail"
  <2>1. PICK replayed \in SUBSET Golds :
          \E verdict \in [replayed -> {"pass", "fail"}] :
            /\ rounds' = [rounds EXCEPT
                  ![s].phase = "partial",
                  ![s].verdict = [h \in Golds |-> IF h \in replayed
                                                  THEN verdict[h] ELSE "none"]]
            /\ gold' = [h \in Golds |-> IF h \in replayed
                                        THEN RowAfter(h, s, verdict[h]) ELSE gold[h]]
    <3>1. PICK last \in Golds \cup {0} :
            LET replayed == {h \in Golds : h < last}
            IN  \E verdict \in [replayed -> {"pass", "fail"}] :
                  /\ rounds' = [rounds EXCEPT
                        ![s].phase = "partial",
                        ![s].verdict = [h \in Golds |-> IF h \in replayed
                                                        THEN verdict[h] ELSE "none"]]
                  /\ gold' = [h \in Golds |-> IF h \in replayed
                                              THEN RowAfter(h, s, verdict[h])
                                              ELSE gold[h]]
      BY <1>5 DEF AbandonReplay
    <3> DEFINE chosen == {h \in Golds : h < last}
    <3>2. chosen \in SUBSET Golds
      OBVIOUS
    <3> HIDE DEF chosen
    <3> WITNESS chosen \in SUBSET Golds
    <3> QED BY <3>1 DEF chosen
  <2>2. PICK verdict \in [replayed -> {"pass", "fail"}] :
            /\ rounds' = [rounds EXCEPT
                  ![s].phase = "partial",
                  ![s].verdict = [h \in Golds |-> IF h \in replayed
                                                  THEN verdict[h] ELSE "none"]]
            /\ gold' = [h \in Golds |-> IF h \in replayed
                                        THEN RowAfter(h, s, verdict[h]) ELSE gold[h]]
    BY <2>1
  <2>3. /\ rounds'[s].verdict[g] = IF g \in replayed THEN verdict[g] ELSE "none"
        /\ rounds'[s].seen = rounds[s].seen
        /\ Committed' \subseteq Committed \cup {s}
    <3> DEFINE all == [h \in Golds |-> IF h \in replayed THEN verdict[h] ELSE "none"]
    <3>1. all[g] = IF g \in replayed THEN verdict[g] ELSE "none"
      OBVIOUS
    <3>2. rounds' = [rounds EXCEPT ![s].phase = "partial", ![s].verdict = all]
      BY <2>2
    <3> HIDE DEF all
    <3>3. PICK row : row = [rounds[s] EXCEPT !.phase = "partial", !.verdict = all]
      OBVIOUS
    <3>4. rounds' = [rounds EXCEPT ![s] = row]
      BY <3>2, <3>3
    <3>5. rounds[s] \in Round
      BY <1>1
    <3>6. row.verdict = all /\ row.seen = rounds[s].seen
      BY <3>3, <3>5 DEF Round
    <3> QED BY <1>2, <3>1, <3>4, <3>6
  <2>4. gold'[g] = IF g \in replayed THEN RowAfter(g, s, verdict[g]) ELSE gold[g]
    BY <2>2
  <2>5. s \notin Committed
    BY <1>5 DEF AbandonReplay, Committed
  <2> QED BY <2>3, <2>4, <2>5 DEF RowAfter, Regressed
<1>6. ASSUME NEW s \in Rounds, BeginArtifact(s)
      PROVE  gold' = gold /\ Committed' \subseteq Committed
  <2>1. PICK v : rounds' = [rounds EXCEPT ![s].phase = "drafting", ![s].version = v]
    BY <1>6 DEF BeginArtifact
  <2> QED BY <1>1, <1>6, <2>1 DEF BeginArtifact, Committed, Round
<1>7. ASSUME NEW s \in Rounds, FinishArtifact(s)
      PROVE  /\ gold' = gold /\ Committed' \subseteq Committed \cup {s}
             /\ ~Regressed(s, g)'
  <2>1. PICK score : rounds' = [rounds EXCEPT ![s].phase = "done", ![s].score = score,
                                              ![s].at = Cardinality(Done) + 1]
    BY <1>7 DEF FinishArtifact
  <2>2. s \notin Committed /\ gold' = gold
    BY <1>7 DEF FinishArtifact, Committed
  <2>3. rounds[s].verdict[g] = "none"
    BY <2>2 DEF IInv, OpenRoundsUnjudged, Unjudged
  <2>4. PICK row : row = [rounds[s] EXCEPT !.phase = "done", !.score = score,
                                           !.at = Cardinality(Done) + 1]
    OBVIOUS
  <2>5. rounds' = [rounds EXCEPT ![s] = row]
    BY <2>1, <2>4
  <2>6. rounds[s] \in Round
    BY <1>1
  <2>7. row.verdict = rounds[s].verdict
    BY <2>4, <2>6 DEF Round
  <2> QED BY <1>2, <2>2, <2>3, <2>5, <2>7 DEF Regressed
<1>8. ASSUME NEW s \in Rounds, RollBackRound(s)
      PROVE  gold' = gold /\ Committed' \subseteq Committed
  <2>1. rounds' = [rounds EXCEPT ![s] = NoRound] /\ gold' = gold
    BY <1>8 DEF RollBackRound
  <2> QED BY <1>1, <2>1 DEF Committed, NoRound
<1>9. CASE UNCHANGED <<rounds, gold>>
  BY <1>9 DEF Committed
<1> QED BY <1>3, <1>4, <1>5, <1>6, <1>7, <1>8, <1>9
        DEF Next, vars, AddCandidate, Bootstrap, ReadTarget, ReadActive,
            ReadBaseline, Decide, Promote, EndRequest

\* A request past the gate was there before the step, or the gate lets it pass.
LEMMA PastTheGate ==
    ASSUME IInv, [Next]_vars, NEW q \in Requests,
           requests'[q].phase \in {"promote", "promoted"}
    PROVE  /\ requests'[q].round = requests[q].round
           /\ \/ requests[q].phase \in {"promote", "promoted"}
              \/ /\ requests[q].phase = "baseline" /\ UNCHANGED <<rounds, gold>>
                 /\ RegressionFailures(requests[q].round) = {}
<1>1. requests \in [Requests -> Request]
  BY DEF IInv, TypeOK
<1>2. CASE requests'[q] = requests[q]
  BY <1>2
<1>3. ASSUME NEW p \in Requests, p # q,
             \/ \E r \in Rounds : ReadTarget(p, r)
             \/ ReadActive(p) \/ ReadBaseline(p) \/ Decide(p)
             \/ Promote(p) \/ EndRequest(p)
      PROVE  requests'[q] = requests[q]
  BY <1>1, <1>3 DEF ReadTarget, ReadActive, ReadBaseline, Decide, Promote, EndRequest
<1>4. ASSUME NEW r \in Rounds, ReadTarget(q, r) PROVE FALSE
  <2>1. PICK loaded : requests' = [requests EXCEPT ![q] =
                [NoRequest EXCEPT !.phase = "target", !.round = r, !.loaded = loaded]]
    BY <1>4 DEF ReadTarget
  <2> QED BY <1>1, <2>1 DEF NoRequest
<1>5. ASSUME ReadActive(q) \/ ReadBaseline(q) PROVE FALSE
  <2>1. CASE ReadActive(q)
    <3>1. PICK v : requests' = [requests EXCEPT ![q].phase = "active", ![q].active = v]
      BY <2>1 DEF ReadActive
    <3> QED BY <1>1, <3>1 DEF Request
  <2>2. CASE ReadBaseline(q)
    <3>1. PICK base, mark : requests' = [requests EXCEPT ![q].phase = "baseline",
                                                         ![q].base = base, ![q].mark = mark]
      BY <2>2 DEF ReadBaseline
    <3> QED BY <1>1, <3>1 DEF Request
  <2> QED BY <1>5, <2>1, <2>2
<1>6. CASE Decide(q)
  <2>1. PICK phase \in {"promote", "blocked"} :
           /\ requests' = [requests EXCEPT ![q].phase = phase]
           /\ phase = "promote" => RegressionFailures(requests[q].round) = {}
    BY <1>6 DEF Decide
  <2>2. requests'[q].phase = phase /\ requests'[q].round = requests[q].round
    BY <1>1, <2>1 DEF Request
  <2> QED BY <1>6, <2>1, <2>2 DEF Decide
<1>7. CASE Promote(q)
  BY <1>1, <1>7 DEF Promote, Request
<1>8. CASE EndRequest(q)
  BY <1>1, <1>8 DEF EndRequest, NoRequest
<1> QED BY <1>2, <1>3, <1>4, <1>5, <1>6, <1>7, <1>8
        DEF Next, vars, AddCandidate, Bootstrap, BeginRound, FinishRound,
            AbandonReplay, BeginArtifact, FinishArtifact, RollBackRound

LEMMA StepRegressions == Regressions /\ [Next]_vars => Regressions'
<1> SUFFICES ASSUME Regressions, [Next]_vars PROVE Regressions'
  OBVIOUS
<1>1. IInv /\ IInv' /\ Committed \subseteq Rounds
  BY StepInv DEF Regressions, Committed
<1>2. \A r \in Committed : rounds'[r] = rounds[r]
  BY <1>1, CommittedStay
<1>3. GoldRowsShowRegressions'
  <2> SUFFICES ASSUME NEW r \in Committed', NEW g \in Golds,
                      Regressed(r, g)', gold'[g].round = r
               PROVE  gold'[g].result = "fail"
    BY DEF GoldRowsShowRegressions
  <2>1. CASE r \notin Committed
    BY <1>1, <2>1, GoldRowsStep
  <2>2. CASE r \in Committed
    <3>1. gold'[g] = gold[g]
      BY <1>1, <2>2, GoldRowsStep
    <3>2. rounds'[r] = rounds[r]
      BY <1>2, <2>2
    <3> QED BY <2>2, <3>1, <3>2 DEF Regressions, GoldRowsShowRegressions, Regressed
  <2> QED BY <2>1, <2>2
<1>4. GateSawNoGoldRow'
  <2> SUFFICES ASSUME NEW q \in Requests, NEW g \in Golds \ Canaries,
                      requests'[q].phase \in {"promote", "promoted"},
                      Regressed(requests[q].round, g)'
               PROVE  gold'[g].round # requests'[q].round
    BY DEF GateSawNoGoldRow
  <2>1. requests'[q].round = requests[q].round /\ requests[q].phase # "idle"
    BY <1>1, PastTheGate
  <2>2. requests[q].round \in Committed
    BY <1>1, <2>1 DEF IInv, RequestsHaveRounds
  <2>3. Regressed(requests[q].round, g)
    <3>1. rounds'[requests[q].round] = rounds[requests[q].round]
      BY <1>2, <2>2
    <3> QED BY <2>1, <3>1 DEF Regressed
  <2>4. CASE requests[q].phase \in {"promote", "promoted"}
    <3>1. gold[g].round # requests[q].round
      BY <2>3, <2>4 DEF Regressions, GateSawNoGoldRow
    <3> QED BY <1>1, <2>1, <2>2, <3>1, GoldRowsStep
  <2>5. CASE UNCHANGED gold /\ RegressionFailures(requests[q].round) = {}
    <3>1. gold[g] \in GoldRow
      BY <1>1 DEF IInv, TypeOK
    <3>2. gold[g] # [result |-> "fail", round |-> requests[q].round]
      BY <2>5 DEF RegressionFailures
    <3>3. gold[g].round = requests[q].round => gold[g].result = "fail"
      BY <2>2, <2>3 DEF Regressions, GoldRowsShowRegressions
    <3>4. gold[g].round # requests[q].round
      BY <3>1, <3>2, <3>3 DEF GoldRow
    <3> QED BY <2>1, <2>5, <3>4
  <2> QED BY <1>1, <2>4, <2>5, PastTheGate
<1> QED BY <1>1, <1>3, <1>4 DEF Regressions

\* promote() never succeeds on a completed round in which a gold example seen
\* passing turned to failing: the drift event of the round survives every
\* later write to the gold rows.  On a round that an abandoned replay left
\* unfinished, which has no drift events, it can only when the example is a
\* canary or a later round has replayed it (_gold_failures_for_round).
THEOREM NoSeenRegressionPromoted == Spec => []PromotedWithoutSeenRegression
<1>1. Regressions => PromotedWithoutSeenRegression
  <2> SUFFICES ASSUME Regressions, NEW q \in Requests, NEW g \in Golds,
                      requests[q].phase = "promoted",
                      rounds[requests[q].round].seen[g] = "pass",
                      rounds[requests[q].round].verdict[g] = "fail"
               PROVE  /\ rounds[requests[q].round].phase = "partial"
                      /\ g \in Canaries \/ gold[g].round # requests[q].round
    BY DEF PromotedWithoutSeenRegression
  <2>1. requests[q].round \in Committed
    BY DEF Regressions, IInv, RequestsHaveRounds
  <2>2. requests[q].round \notin Done
    BY DEF Regressions, IInv, DriftIsRecorded, GateSawNoDrift
  <2> QED BY <2>1, <2>2 DEF Regressions, GateSawNoGoldRow, Regressed, Committed, Done
<1> QED BY <1>1, InitRegressions, StepRegressions, PTL DEF Spec

-----------------------------------------------------------------------------
\* One promotion at a time: a target that was active when it was loaded still is.
OneRequest == \A p, q \in Requests : p = q

HoldsTarget(q) ==
    LET r == requests[q]
    IN  r.loaded /\ r.phase \in {"target", "active", "baseline", "promote"} =>
            Target(q) \in active /\ (r.phase # "target" => r.active = Target(q))

HoldsTargets == IInv /\ \A q \in Requests : HoldsTarget(q)

LEMMA InitHoldsTargets == Init => HoldsTargets
BY InitInv DEF Init, HoldsTargets, HoldsTarget, NoRequest

\* A step of versions and rounds.
LEMMA TargetStays ==
    ASSUME HoldsTargets, [Next]_vars, UNCHANGED requests, active \subseteq active',
           NEW q \in Requests
    PROVE  HoldsTarget(q)'
<1>1. CASE requests[q].phase = "idle"
  BY <1>1 DEF HoldsTarget
<1>2. CASE requests[q].phase # "idle"
  <2>1. rounds'[requests[q].round] = rounds[requests[q].round]
    BY <1>2, CommittedStay DEF HoldsTargets, IInv, RequestsHaveRounds
  <2>2. HoldsTarget(q) /\ requests' = requests /\ Target(q)' = Target(q)
    BY <2>1 DEF HoldsTargets, Target
  <2> QED BY <2>2 DEF HoldsTarget
<1> QED BY <1>1, <1>2

LEMMA StepHoldsTargets ==
    ASSUME OneRequest, HoldsTargets, [Next]_vars PROVE HoldsTargets'
<1>1. IInv /\ IInv' /\ requests \in [Requests -> Request] /\ OneActive
  BY StepInv DEF HoldsTargets, IInv, TypeOK
<1>2. ASSUME NEW q \in Requests, HoldsTarget(q)' PROVE HoldsTargets'
  BY <1>1, <1>2 DEF OneRequest, HoldsTargets
<1>3. CASE UNCHANGED requests /\ active \subseteq active'
  BY <1>1, <1>3, TargetStays DEF HoldsTargets
<1>4. ASSUME NEW q \in Requests, NEW r \in Rounds, ReadTarget(q, r) PROVE HoldsTargets'
  <2>1. PICK loaded : loaded = (rounds[r].version \in active)
    OBVIOUS
  <2>2. requests' = [requests EXCEPT ![q] =
            [NoRequest EXCEPT !.phase = "target", !.round = r, !.loaded = loaded]]
    BY <1>4, <2>1 DEF ReadTarget
  <2>3. /\ requests'[q].phase = "target" /\ requests'[q].round = r
        /\ requests'[q].loaded = loaded /\ UNCHANGED <<rounds, active>>
    BY <1>1, <1>4, <2>2 DEF NoRequest, ReadTarget
  <2>4. HoldsTarget(q)'
    BY <2>1, <2>3 DEF HoldsTarget, Target
  <2> QED BY <1>2, <2>4
<1>5. ASSUME NEW q \in Requests, ReadActive(q) PROVE HoldsTargets'
  <2>1. PICK v \in OrNone(active) :
            requests' = [requests EXCEPT ![q].phase = "active", ![q].active = v]
    BY <1>5 DEF ReadActive
  <2>2. /\ requests'[q].phase = "active" /\ requests'[q].round = requests[q].round
        /\ requests'[q].loaded = requests[q].loaded /\ requests'[q].active = v
        /\ UNCHANGED <<rounds, active>> /\ requests[q].phase = "target"
    BY <1>1, <1>5, <2>1 DEF Request, ReadActive
  <2>3. ASSUME requests[q].loaded PROVE Target(q) \in active /\ v = Target(q)
    <3>1. Target(q) \in active
      BY <2>2, <2>3 DEF HoldsTargets, HoldsTarget
    <3> QED BY <1>1, <3>1 DEF OrNone, OneActive, UniqueActive
  <2>4. HoldsTarget(q)'
    BY <2>2, <2>3 DEF HoldsTarget, Target
  <2> QED BY <1>2, <2>4
<1>6. ASSUME NEW q \in Requests, ReadBaseline(q) \/ Decide(q) PROVE HoldsTargets'
  <2>1. /\ requests'[q].round = requests[q].round /\ requests'[q].loaded = requests[q].loaded
        /\ requests'[q].active = requests[q].active /\ requests[q].phase \in {"active", "baseline"}
    <3>1. CASE ReadBaseline(q)
      <4>1. PICK base, mark : requests' = [requests EXCEPT ![q].phase = "baseline",
                                               ![q].base = base, ![q].mark = mark]
        BY <3>1 DEF ReadBaseline
      <4> QED BY <1>1, <3>1, <4>1 DEF Request, ReadBaseline
    <3>2. CASE Decide(q)
      BY <1>1, <3>2 DEF Decide, Request
    <3> QED BY <1>6, <3>1, <3>2
  <2>2. UNCHANGED <<rounds, active>>
    BY <1>6 DEF ReadBaseline, Decide
  <2>3. HoldsTarget(q)'
    BY <2>1, <2>2 DEF HoldsTargets, HoldsTarget, Target
  <2> QED BY <1>2, <2>3
<1>7. ASSUME NEW q \in Requests, Promote(q) \/ EndRequest(q) PROVE HoldsTargets'
  <2>1. requests'[q].phase \in {"promoted", "idle"}
    BY <1>1, <1>7 DEF Promote, EndRequest, Request, NoRequest
  <2>2. HoldsTarget(q)'
    BY <2>1 DEF HoldsTarget
  <2> QED BY <1>2, <2>2
<1>8. \/ UNCHANGED requests /\ active \subseteq active'
      \/ \E q \in Requests : \/ \E r \in Rounds : ReadTarget(q, r)
                            \/ ReadActive(q) \/ ReadBaseline(q) \/ Decide(q)
                            \/ Promote(q) \/ EndRequest(q)
  BY DEF Next, vars, AddCandidate, Bootstrap, BeginRound, FinishRound, AbandonReplay,
         BeginArtifact, FinishArtifact, RollBackRound
<1> QED BY <1>3, <1>4, <1>5, <1>6, <1>7, <1>8

\* The only step that reports a promotion is Promote.
LEMMA PromotedByPromote ==
    ASSUME IInv, [Next]_vars, NEW q \in Requests,
           requests[q].phase = "promote", requests'[q].phase = "promoted"
    PROVE  Promote(q)
<1>1. requests \in [Requests -> Request]
  BY DEF IInv, TypeOK
<1>2. ASSUME NEW p \in Requests, p # q,
             \/ \E r \in Rounds : ReadTarget(p, r)
             \/ ReadActive(p) \/ ReadBaseline(p) \/ Decide(p)
             \/ Promote(p) \/ EndRequest(p)
      PROVE  requests'[q] = requests[q]
  BY <1>1, <1>2 DEF ReadTarget, ReadActive, ReadBaseline, Decide, Promote, EndRequest
<1>3. ~ReadActive(q) /\ ~ReadBaseline(q) /\ ~Decide(q) /\ \A r \in Rounds : ~ReadTarget(q, r)
  BY DEF ReadTarget, ReadActive, ReadBaseline, Decide
<1>4. ~EndRequest(q)
  BY <1>1 DEF EndRequest, NoRequest
<1>5. \/ UNCHANGED requests
      \/ \E p \in Requests : \/ \E r \in Rounds : ReadTarget(p, r)
                            \/ ReadActive(p) \/ ReadBaseline(p) \/ Decide(p)
                            \/ Promote(p) \/ EndRequest(p)
  BY DEF Next, vars, AddCandidate, Bootstrap, BeginRound, FinishRound, AbandonReplay,
         BeginArtifact, FinishArtifact, RollBackRound
<1> QED BY <1>2, <1>3, <1>4, <1>5

\* With one promotion at a time, whatever rounds, workflows and seeding do meanwhile, the
\* target of a promotion that answers with success is the active version (promote).
THEOREM TargetIsActive == ASSUME OneRequest PROVE Spec => PromotionActivatesTarget
<1>1. HoldsTargets /\ [Next]_vars => HoldsTargets'
  BY StepHoldsTargets
<1>2. ASSUME HoldsTargets, [Next]_vars, NEW q \in Requests,
             requests[q].phase = "promote", requests'[q].phase = "promoted"
      PROVE  active' = {Target(q)}
  <2>1. Promote(q)
    BY <1>2, PromotedByPromote DEF HoldsTargets
  <2>2. active' = ActiveAfter(q) /\ UniqueActive(active')
    BY <2>1 DEF Promote
  <2>3. Target(q) \in active'
    BY <1>2, <2>2 DEF HoldsTargets, HoldsTarget, ActiveAfter, ComparesVersions
  <2> QED BY <2>2, <2>3 DEF UniqueActive
<1>3. HoldsTargets /\ [Next]_vars => [\A q \in Requests :
         requests[q].phase = "promote" /\ requests'[q].phase = "promoted" =>
             active' = {Target(q)}]_vars
  BY <1>2
<1> QED BY <1>1, <1>3, InitHoldsTargets, PTL DEF Spec, PromotionActivatesTarget
=============================================================================
