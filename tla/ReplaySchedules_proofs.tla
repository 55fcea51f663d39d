------------------------ MODULE ReplaySchedules_proofs ------------------------
(***************************************************************************)
(* Theorems of ReplaySchedules, for any schedules, runners and limit:      *)
(* every run that is committed as "running" has a runner; and for each     *)
(* time a schedule becomes due, a runner that is alone completes it once,  *)
(* and runners that overlap complete it at most once each.                 *)
(***************************************************************************)
EXTENDS ReplaySchedules, FiniteSetTheorems, SequenceTheorems, TLAPS

\* The phases of a runner: a batch has every schedule once, and what it has not run, is
\* running and has run are different schedules; a run is visible if it is the one before
\* the last commit, or the current one after it.
WellFormed(r) ==
    /\ r \in Runner /\ Len(r.batch) <= Limit
    /\ r.step = "idle" => r = Idle
    /\ r.schedule # None <=> r.step \in {"replay", "refresh", "finish"}
    /\ r.step = "refresh" => r.todo # <<>>
    /\ \A i, j \in DOMAIN r.batch : r.batch[i] = r.batch[j] => i = j
    /\ Range(r.batch) \cap (r.done \cup {r.schedule}) = {} /\ r.schedule \notin r.done
    /\ r.visible \subseteq r.done \cup {r.schedule}
    /\ r.step \in {"replay", "refresh"} => r.schedule \notin r.visible

\* The runners that have a run of schedule s committed as "running".
Witnesses(s) == {w \in Runners : s \in runners[w].visible}

\* A run that is committed as "running" and has no runner is one that was given up.
Counted == \A s \in Schedules :
               /\ running[s] >= Cardinality(Witnesses(s))
               /\ ~lost => running[s] = Cardinality(Witnesses(s))

\* As long as runners come one at a time, what a runner has taken is due and not served.
Alone == ~together =>
             /\ \A v, w \in Runners : v = w \/ runners[v] = Idle \/ runners[w] = Idle
             /\ \A w \in Runners : \A s \in Taken(runners[w]) : s \in due /\ served[s] = 0

Books == /\ TypeOK /\ \A w \in Runners : WellFormed(runners[w])
         /\ \A s \in Schedules : <<s, s>> \notin earlier
         /\ Counted /\ Alone /\ OncePerDue
-----------------------------------------------------------------------------
\* The first schedule of a batch and the others.
LEMMA FirstAndRest ==
    ASSUME NEW b \in Seq(Schedules), b # <<>>,
           \A i, j \in DOMAIN b : b[i] = b[j] => i = j
    PROVE  /\ Head(b) \in Schedules /\ Tail(b) \in Seq(Schedules) /\ Len(Tail(b)) = Len(b) - 1
           /\ \A i, j \in DOMAIN Tail(b) : Tail(b)[i] = Tail(b)[j] => i = j
           /\ Head(b) \notin Range(Tail(b))
           /\ Range(b) = {Head(b)} \cup Range(Tail(b))
<1>1. /\ Head(b) \in Schedules /\ Tail(b) \in Seq(Schedules) /\ Len(Tail(b)) = Len(b) - 1
      /\ \A i \in 1..Len(Tail(b)) : Tail(b)[i] = b[i + 1]
  BY HeadTailProperties
<1>2. Len(b) \in Nat \ {0} /\ DOMAIN b = 1..Len(b) /\ DOMAIN Tail(b) = 1..(Len(b) - 1)
      /\ Head(b) = b[1]
  BY <1>1, EmptySeq, LenProperties
<1>3. \A i, j \in DOMAIN Tail(b) : Tail(b)[i] = Tail(b)[j] => i = j
  BY <1>1, <1>2
<1>4. Head(b) \notin Range(Tail(b))
  BY <1>1, <1>2 DEF Range
<1>5. \A i \in DOMAIN b : b[i] = Head(b) \/ b[i] \in Range(Tail(b))
  <2> TAKE i \in DOMAIN b
  <2>1. CASE i = 1
    BY <1>2, <2>1
  <2>2. CASE i # 1
    <3>1. i - 1 \in 1..Len(Tail(b)) /\ i - 1 \in DOMAIN Tail(b) /\ i = (i - 1) + 1
      BY <1>1, <1>2, <2>2
    <3>2. Tail(b)[i - 1] = b[i]
      BY <1>1, <3>1
    <3> QED BY <3>1, <3>2 DEF Range
  <2> QED BY <2>1, <2>2
<1>6. \A i \in DOMAIN Tail(b) : i + 1 \in DOMAIN b /\ Tail(b)[i] = b[i + 1]
  BY <1>1, <1>2
<1>7. Range(b) = {Head(b)} \cup Range(Tail(b))
  BY <1>2, <1>5, <1>6 DEF Range
<1> QED BY <1>1, <1>3, <1>4, <1>7

LEMMA IdleIsWellFormed ==
    /\ WellFormed(Idle) /\ Taken(Idle) = {} /\ Idle.visible = {} /\ Idle.step = "idle"
<1>1. <<>> \in Seq(Schedules) /\ <<>> \in Seq(Rows) /\ Len(<<>>) = 0 /\ Range(<<>>) = {}
      /\ DOMAIN <<>> = {}
  BY EmptySeq DEF Range
<1>2. /\ Idle \in Runner /\ Idle.step = "idle" /\ Idle.batch = <<>> /\ Idle.schedule = None
      /\ Idle.done = {} /\ Idle.visible = {}
  BY <1>1 DEF Idle, Runner
<1> QED BY <1>1, <1>2, LimitIsPositive DEF WellFormed, Taken

\* A step of runner w that leaves it well formed leaves all of them so.
LEMMA RunnersStayWellFormed ==
    ASSUME Books, NEW w \in Runners, NEW r, WellFormed(r), runners' = [runners EXCEPT ![w] = r]
    PROVE  /\ runners' \in [Runners -> Runner] /\ runners'[w] = r
           /\ \A v \in Runners \ {w} : runners'[v] = runners[v]
           /\ \A v \in Runners : WellFormed(runners'[v])
BY DEF Books, TypeOK, WellFormed
-----------------------------------------------------------------------------
\* A batch is a sequence of due schedules, without repetition and within the limit.
LEMMA BatchOfDue ==
    ASSUME Books, NEW b \in Batch
    PROVE  /\ b \in Seq(Schedules) /\ Len(b) <= Limit /\ Range(b) \subseteq due
           /\ \A i, j \in DOMAIN b : b[i] = b[j] => i = j
<1>1. due \subseteq Schedules /\ Cardinality(due) \in Nat
  BY AllAreFinite, FS_Subset, FS_CardinalityType DEF Books, TypeOK
<1>2. PICK n : n = Capped(Cardinality(due), Limit)
  OBVIOUS
<1>3. n \in Nat /\ n <= Limit
  BY <1>1, <1>2, LimitIsPositive DEF Capped
<1>4. b \in [1..n -> due] /\ \A i, j \in DOMAIN b : i < j => <<b[i], b[j]>> \in earlier
  BY <1>2 DEF Batch, Sorted
<1>5. b \in Seq(Schedules) /\ Len(b) = n
  BY <1>1, <1>3, <1>4
<1>6. Range(b) \subseteq due
  BY <1>4 DEF Range
<1>7. ASSUME NEW i \in DOMAIN b, NEW j \in DOMAIN b, b[i] = b[j] PROVE i = j
  <2>1. i \in Nat /\ j \in Nat /\ b[i] \in Schedules /\ <<b[i], b[i]>> \notin earlier
    BY <1>1, <1>3, <1>4 DEF Books
  <2>2. ~(i < j) /\ ~(j < i)
    BY <1>4, <1>7, <2>1
  <2> QED BY <2>1, <2>2
<1> QED BY <1>3, <1>5, <1>6, <1>7

LEMMA SelectOutcome ==
    ASSUME Books, NEW w \in Runners, Select(w)
    PROVE  \E r : /\ WellFormed(r) /\ runners' = [runners EXCEPT ![w] = r]
                  /\ r.visible = {} /\ Taken(r) \subseteq due
<1>1. PICK b \in Batch :
          runners' = [runners EXCEPT ![w] = [Idle EXCEPT !.step = "pick", !.batch = b]]
  BY DEF Select
<1>2. PICK r : r = [Idle EXCEPT !.step = "pick", !.batch = b]
  OBVIOUS
<1>3. /\ r.step = "pick" /\ r.batch = b /\ r.schedule = None /\ r.done = {} /\ r.visible = {}
  BY <1>2 DEF Idle
<1>4. r \in Runner
  <2>1. <<>> \in Seq(Rows)
    BY EmptySeq
  <2> QED BY <1>2, <2>1, BatchOfDue DEF Idle, Runner
<1>5. None \notin Range(b)
  BY BatchOfDue, NoneIsNoSchedule DEF Books, TypeOK
<1>6. WellFormed(r)
  BY <1>3, <1>4, <1>5, BatchOfDue DEF WellFormed
<1>7. Taken(r) \subseteq due
  BY <1>3, BatchOfDue DEF Taken
<1> QED BY <1>1, <1>2, <1>3, <1>6, <1>7

\* A step of runner w that is neither a selection nor a commit: it goes on with what it has
\* taken, and what is visible stays so.
Continues(w) == \E r : /\ WellFormed(r) /\ runners' = [runners EXCEPT ![w] = r]
                       /\ r.visible = runners[w].visible /\ Taken(r) \subseteq Taken(runners[w])

LEMMA StartContinues == ASSUME Books, NEW w \in Runners, StartRun(w) PROVE Continues(w)
<1>1. PICK o : o = runners[w]
  OBVIOUS
<1>2. PICK s : s = Head(o.batch)
  OBVIOUS
<1>3. PICK r : r = [o EXCEPT !.batch = Tail(o.batch), !.schedule = s, !.todo = Writes[s],
                      !.step = IF Kind[s] # "source_refresh" THEN "replay"
                               ELSE IF Writes[s] = <<>> THEN "finish" ELSE "refresh"]
  OBVIOUS
<1>4. WellFormed(o) /\ o \in Runner /\ o.step = "pick" /\ o.batch # <<>>
  BY <1>1 DEF Books, StartRun, WellFormed
<1>5. /\ o.batch \in Seq(Schedules) /\ o.schedule = None /\ o.visible \subseteq Schedules
      /\ o.done \subseteq Schedules
      /\ \A i, j \in DOMAIN o.batch : o.batch[i] = o.batch[j] => i = j
  BY <1>4 DEF WellFormed, Runner
<1>6. /\ s \in Schedules /\ Tail(o.batch) \in Seq(Schedules)
      /\ Len(Tail(o.batch)) = Len(o.batch) - 1
      /\ \A i, j \in DOMAIN Tail(o.batch) : Tail(o.batch)[i] = Tail(o.batch)[j] => i = j
      /\ s \notin Range(Tail(o.batch)) /\ Range(o.batch) = {s} \cup Range(Tail(o.batch))
  BY <1>2, <1>4, <1>5, FirstAndRest
<1>7. Writes[s] \in Seq(Rows)
  BY <1>6, WritesAreSequences
<1>8. r \in Runner
  BY <1>3, <1>4, <1>6, <1>7 DEF Runner
<1>9. /\ r.batch = Tail(o.batch) /\ r.schedule = s /\ r.todo = Writes[s] /\ r.done = o.done
      /\ r.visible = o.visible /\ r.step \in {"replay", "refresh", "finish"}
      /\ r.step = "refresh" => r.todo # <<>>
  BY <1>3, <1>4 DEF Runner
<1>10. s # None
  BY <1>6, NoneIsNoSchedule
<1>11. o.visible \subseteq o.done /\ s \notin o.done
  BY <1>4, <1>5, <1>6, NoneIsNoSchedule DEF WellFormed
<1>12. Len(r.batch) <= Limit
  <2>1. Len(o.batch) \in Nat /\ Len(o.batch) <= Limit
    BY <1>4, <1>5, LenProperties DEF WellFormed
  <2> QED BY <1>6, <1>9, <2>1, LimitIsPositive
<1>13. Range(r.batch) \cap (r.done \cup {r.schedule}) = {}
  BY <1>4, <1>6, <1>9 DEF WellFormed
<1>14. WellFormed(r)
  BY <1>6, <1>8, <1>9, <1>10, <1>11, <1>12, <1>13 DEF WellFormed
<1>15. Taken(r) \subseteq Taken(o)
  BY <1>6, <1>9 DEF Taken
<1>16. runners' = [runners EXCEPT ![w] = r]
  BY <1>1, <1>2, <1>3 DEF StartRun
<1> QED BY <1>1, <1>9, <1>14, <1>15, <1>16 DEF Continues

LEMMA EndContinues == ASSUME Books, NEW w \in Runners, EndReplay(w) PROVE Continues(w)
<1>1. PICK o : o = runners[w]
  OBVIOUS
<1>2. PICK r : r = [o EXCEPT !.step = "finish", !.todo = <<>>]
  OBVIOUS
<1>3. WellFormed(o) /\ o \in Runner /\ o.step = "replay" /\ <<>> \in Seq(Rows)
  BY <1>1, EmptySeq DEF Books, EndReplay, WellFormed
<1>4. /\ r \in Runner /\ r.step = "finish" /\ r.batch = o.batch /\ r.schedule = o.schedule
      /\ r.done = o.done /\ r.visible = o.visible
  BY <1>2, <1>3 DEF Runner
<1>5. WellFormed(r) /\ Taken(r) = Taken(o)
  BY <1>3, <1>4 DEF WellFormed, Taken
<1>6. runners' = [runners EXCEPT ![w] = r]
  BY <1>1, <1>2 DEF EndReplay, Books, TypeOK
<1> QED BY <1>1, <1>4, <1>5, <1>6 DEF Continues

LEMMA ExampleContinues == ASSUME Books, NEW w \in Runners, ReplayExample(w) PROVE Continues(w)
<1>1. PICK o : o = runners[w]
  OBVIOUS
<1>2. PICK r : r = [o EXCEPT !.todo = Tail(o.todo), !.locks = o.locks \cup {Head(o.todo)}]
  OBVIOUS
<1>3. WellFormed(o) /\ o \in Runner /\ o.step = "replay" /\ o.todo \in Seq(Rows)
      /\ o.todo # <<>>
  BY <1>1 DEF Books, ReplayExample, WellFormed, Runner
<1>4. Head(o.todo) \in Rows /\ Tail(o.todo) \in Seq(Rows)
  BY <1>3, HeadTailProperties
<1>5. /\ r \in Runner /\ r.step = "replay" /\ r.batch = o.batch /\ r.schedule = o.schedule
      /\ r.done = o.done /\ r.visible = o.visible
  BY <1>2, <1>3, <1>4 DEF Runner
<1>6. WellFormed(r) /\ Taken(r) = Taken(o)
  BY <1>3, <1>5 DEF WellFormed, Taken
<1>7. runners' = [runners EXCEPT ![w] = r]
  BY <1>1, <1>2 DEF ReplayExample
<1> QED BY <1>1, <1>5, <1>6, <1>7 DEF Continues

LEMMA RefreshContinues == ASSUME Books, NEW w \in Runners, RefreshSource(w) PROVE Continues(w)
<1>1. PICK o : o = runners[w]
  OBVIOUS
<1>2. PICK r : r = [o EXCEPT !.todo = Tail(o.todo), !.locks = o.locks \cup {Head(o.todo)},
                      !.step = IF Len(o.todo) = 1 THEN "finish" ELSE "refresh"]
  OBVIOUS
<1>3. WellFormed(o) /\ o \in Runner /\ o.step = "refresh" /\ o.todo \in Seq(Rows)
      /\ o.todo # <<>>
  BY <1>1 DEF Books, RefreshSource, WellFormed, Runner
<1>4. /\ Head(o.todo) \in Rows /\ Tail(o.todo) \in Seq(Rows)
      /\ Len(Tail(o.todo)) = Len(o.todo) - 1 /\ Len(o.todo) \in Nat
  BY <1>3, HeadTailProperties, LenProperties
<1>5. r \in Runner
  BY <1>2, <1>3, <1>4 DEF Runner
<1>6. /\ r.step \in {"refresh", "finish"} /\ r.batch = o.batch /\ r.schedule = o.schedule
      /\ r.done = o.done /\ r.visible = o.visible
      /\ r.step = "refresh" => Len(o.todo) # 1 /\ r.todo = Tail(o.todo)
  BY <1>2, <1>3 DEF Runner
<1>7. r.step = "refresh" => r.todo # <<>>
  <2> SUFFICES ASSUME r.step = "refresh", r.todo = <<>> PROVE FALSE
    OBVIOUS
  <2>1. Tail(o.todo) = <<>> /\ Len(o.todo) # 1
    BY <1>6
  <2>2. PICK q : q = Tail(o.todo)
    OBVIOUS
  <2>3. q = <<>> => Len(q) = 0
    OBVIOUS
  <2> QED BY <1>4, <2>1, <2>2, <2>3
<1>8. WellFormed(r) /\ Taken(r) = Taken(o)
  BY <1>3, <1>5, <1>6, <1>7 DEF WellFormed, Taken
<1>9. runners' = [runners EXCEPT ![w] = r]
  BY <1>1, <1>2 DEF RefreshSource
<1> QED BY <1>1, <1>6, <1>8, <1>9 DEF Continues

LEMMA FinishContinues == ASSUME Books, NEW w \in Runners, FinishRun(w) PROVE Continues(w)
<1>1. PICK o : o = runners[w]
  OBVIOUS
<1>2. PICK r : r = [o EXCEPT !.step = "pick", !.schedule = None, !.done = o.done \cup {o.schedule},
                             !.locks = o.locks \cup {o.schedule}]
  OBVIOUS
<1>3. WellFormed(o) /\ o \in Runner /\ o.step = "finish"
  BY <1>1 DEF Books, FinishRun, WellFormed
<1>4. o.schedule \in Schedules /\ o.batch \in Seq(Schedules)
  BY <1>3 DEF WellFormed, Runner
<1>5. r \in Runner
  BY <1>2, <1>3, <1>4 DEF Runner
<1>6. /\ r.step = "pick" /\ r.batch = o.batch /\ r.schedule = None
      /\ r.done = o.done \cup {o.schedule} /\ r.visible = o.visible
  BY <1>2, <1>3 DEF Runner
<1>7. None \notin Range(o.batch) /\ None \notin r.done
  <2>1. Range(o.batch) \subseteq Schedules
    BY <1>4 DEF Range
  <2> QED BY <1>3, <1>4, <1>6, <2>1, NoneIsNoSchedule DEF Runner
<1>8. WellFormed(r)
  BY <1>3, <1>5, <1>6, <1>7 DEF WellFormed
<1>9. Taken(r) = Taken(o)
  BY <1>4, <1>6, NoneIsNoSchedule DEF Taken
<1>10. runners' = [runners EXCEPT ![w] = r]
  BY <1>1, <1>2 DEF FinishRun
<1> QED BY <1>1, <1>6, <1>8, <1>9, <1>10 DEF Continues

\* A commit keeps what has not been run, and makes the current run visible and no other.
Commits(w) == \E r : /\ WellFormed(r) /\ runners' = [runners EXCEPT ![w] = r]
                     /\ r.visible = {runners[w].schedule} \ {None}
                     /\ Taken(r) = Taken(runners[w]) \ runners[w].done
                     /\ runners[w].schedule \notin runners[w].visible
                     /\ runners[w].visible \subseteq runners[w].done

LEMMA RoundCommits == ASSUME Books, NEW w \in Runners, CommitRound(w) PROVE Commits(w)
<1>1. PICK o : o = runners[w]
  OBVIOUS
<1>2. PICK r : r = Committed(o)
  OBVIOUS
<1>3. WellFormed(o) /\ o \in Runner /\ o.step = "replay"
  BY <1>1 DEF Books, CommitRound, WellFormed
<1>4. o.schedule \in Schedules /\ o.schedule # None
  BY <1>3 DEF WellFormed, Runner
<1>5. r \in Runner
  BY <1>2, <1>3, <1>4 DEF Runner, Committed
<1>6. /\ r.step = "finish" /\ r.batch = o.batch /\ r.schedule = o.schedule
      /\ r.done = {} /\ r.visible = {o.schedule}
  BY <1>2, <1>3 DEF Runner, Committed
<1>7. WellFormed(r)
  BY <1>3, <1>4, <1>5, <1>6 DEF WellFormed
<1>8. Taken(r) = Taken(o) \ o.done
  <2>1. Range(o.batch) \cap o.done = {} /\ o.schedule \notin o.done
    BY <1>3 DEF WellFormed
  <2> QED BY <1>6, <2>1 DEF Taken
<1>9. o.schedule \notin o.visible /\ o.visible \subseteq o.done
  BY <1>3 DEF WellFormed
<1>10. runners' = [runners EXCEPT ![w] = r]
  BY <1>1, <1>2 DEF CommitRound
<1> QED BY <1>1, <1>4, <1>6, <1>7, <1>8, <1>9, <1>10 DEF Commits

LEMMA BatchCommits == ASSUME Books, NEW w \in Runners, CommitBatch(w) PROVE Commits(w)
<1>1. PICK o : o = runners[w]
  OBVIOUS
<1>2. WellFormed(o) /\ o \in Runner /\ o.step = "pick" /\ o.batch = <<>>
  BY <1>1 DEF Books, CommitBatch, WellFormed
<1>3. o.schedule = None /\ o.schedule \notin o.visible /\ o.visible \subseteq o.done
  BY <1>2, NoneIsNoSchedule DEF WellFormed, Runner
<1>4. Taken(o) \ o.done = {}
  <2>1. Range(o.batch) = {}
    BY <1>2, EmptySeq DEF Range
  <2> QED BY <1>3, <2>1 DEF Taken
<1>5. runners' = [runners EXCEPT ![w] = Idle]
  BY DEF CommitBatch
<1> QED BY <1>1, <1>3, <1>4, <1>5, IdleIsWellFormed DEF Commits
-----------------------------------------------------------------------------
LEMMA WitnessesAreCountable ==
    ASSUME NEW s PROVE IsFiniteSet(Witnesses(s)) /\ Cardinality(Witnesses(s)) \in Nat
                       /\ Cardinality(Witnesses(s)) <= Cardinality(Runners)
                       /\ Cardinality(Runners) \in Nat
BY AllAreFinite, FS_Subset, FS_CardinalityType DEF Witnesses

LEMMA MostServedIsPositive == MostServed \in Nat /\ MostServed >= 1
BY WitnessesAreCountable DEF MostServed

LEMMA InitBooks == Init => Books
<1> SUFFICES ASSUME Init PROVE Books
  OBVIOUS
<1>1. Cardinality(Runners) \in Nat
  BY WitnessesAreCountable
<1>2. \A w \in Runners : runners[w] = Idle /\ WellFormed(runners[w])
  BY IdleIsWellFormed DEF Init
<1>3. TypeOK
  <2>1. runners \in [Runners -> Runner] /\ \A w \in Runners : Len(runners[w].batch) <= Limit
    BY <1>2 DEF Init, WellFormed
  <2>2. running \in [Schedules -> 0..Cardinality(Runners)]
    BY <1>1 DEF Init
  <2>3. served \in [Schedules -> 0..MostServed]
    BY MostServedIsPositive DEF Init
  <2>4. due \subseteq Schedules /\ earlier \subseteq due \X due
    BY DEF Init
  <2>5. console \in {"idle", "due", "later"} /\ lost \in BOOLEAN /\ together \in BOOLEAN
    BY DEF Init
  <2> QED BY <2>1, <2>2, <2>3, <2>4, <2>5 DEF TypeOK
<1>4. \A s : Witnesses(s) = {}
  BY <1>2, IdleIsWellFormed DEF Witnesses
<1>5. Counted
  BY <1>4, FS_EmptySet DEF Counted, Init
<1>6. Alone
  BY <1>2, IdleIsWellFormed DEF Alone
<1> QED BY <1>2, <1>3, <1>5, <1>6 DEF Books, Init, OncePerDue

LEMMA ContinueKeeps ==
    ASSUME Books, NEW w \in Runners, Continues(w), runners[w] # Idle,
           UNCHANGED <<due, earlier, served, running, console, lost, together>>
    PROVE  Books'
<1>1. PICK r : /\ WellFormed(r) /\ runners' = [runners EXCEPT ![w] = r]
               /\ r.visible = runners[w].visible /\ Taken(r) \subseteq Taken(runners[w])
  BY DEF Continues
<1>2. /\ runners' \in [Runners -> Runner] /\ runners'[w] = r
      /\ \A v \in Runners \ {w} : runners'[v] = runners[v]
      /\ \A v \in Runners : WellFormed(runners'[v])
  BY <1>1, RunnersStayWellFormed
<1>3. TypeOK'
  BY <1>2 DEF Books, TypeOK, WellFormed
<1>4. \A s : Witnesses(s)' = Witnesses(s)
  BY <1>1, <1>2 DEF Witnesses
<1>5. Counted'
  BY <1>4 DEF Books, Counted
<1>6. Alone'
  BY <1>1, <1>2 DEF Books, Alone
<1> QED BY <1>2, <1>3, <1>5, <1>6 DEF Books, OncePerDue

LEMMA SelectKeeps == ASSUME Books, NEW w \in Runners, Select(w) PROVE Books'
<1>1. PICK r : /\ WellFormed(r) /\ runners' = [runners EXCEPT ![w] = r]
               /\ r.visible = {} /\ Taken(r) \subseteq due
  BY SelectOutcome
<1>2. /\ runners' \in [Runners -> Runner] /\ runners'[w] = r
      /\ \A v \in Runners \ {w} : runners'[v] = runners[v]
      /\ \A v \in Runners : WellFormed(runners'[v])
  BY <1>1, RunnersStayWellFormed
<1>3. UNCHANGED <<due, earlier, served, running, console, lost>> /\ runners[w] = Idle
  BY DEF Select, Books, WellFormed
<1>4. TypeOK'
  BY <1>2, <1>3 DEF Books, TypeOK, WellFormed, Select
<1>5. \A s : Witnesses(s)' = Witnesses(s)
  BY <1>1, <1>2, <1>3, IdleIsWellFormed DEF Witnesses
<1>6. Counted'
  BY <1>3, <1>5 DEF Books, Counted
<1>7. ASSUME ~together' PROVE ~together /\ \A v \in Runners \ {w} : runners[v] = Idle
  BY <1>7 DEF Select
<1>8. ~together => \A s \in due : served[s] = 0
  BY DEF Books, OncePerDue, TypeOK
<1>9. Alone'
  BY <1>1, <1>2, <1>3, <1>7, <1>8, IdleIsWellFormed DEF Alone
<1> QED BY <1>2, <1>3, <1>4, <1>6, <1>7, <1>9 DEF Books, OncePerDue

LEMMA CommitKeeps ==
    ASSUME Books, NEW w \in Runners, Commits(w), Commit(w), runners[w] # Idle,
           UNCHANGED <<console, lost, together>>
    PROVE  Books'
<1>1. PICK o : o = runners[w]
  OBVIOUS
<1>2. PICK r : /\ WellFormed(r) /\ runners' = [runners EXCEPT ![w] = r]
               /\ r.visible = {o.schedule} \ {None} /\ Taken(r) = Taken(o) \ o.done
               /\ o.schedule \notin o.visible /\ o.visible \subseteq o.done
  BY <1>1 DEF Commits
<1>3. /\ runners' \in [Runners -> Runner] /\ runners'[w] = r
      /\ \A v \in Runners \ {w} : runners'[v] = runners[v]
      /\ \A v \in Runners : WellFormed(runners'[v])
  BY <1>2, RunnersStayWellFormed
<1>4. /\ due' = due \ o.done /\ earlier' = earlier \cap (due' \X due')
      /\ served' = [s \in Schedules |-> IF s \in o.done THEN Capped(served[s] + 1, MostServed)
                                                         ELSE served[s]]
      /\ running' = [s \in Schedules |->
               IF s = o.schedule THEN Capped(running[s] + 1, Cardinality(Runners))
               ELSE IF s \in o.done \cap o.visible THEN running[s] - 1 ELSE running[s]]
  BY <1>1 DEF Commit, ServedAfter, RunningAfter
<1>5. WellFormed(o) /\ o \in Runner
  BY <1>1 DEF Books, WellFormed
<1>6. ASSUME NEW s \in Schedules
      PROVE  /\ running'[s] \in 0..Cardinality(Runners)
             /\ running'[s] >= Cardinality(Witnesses(s)')
             /\ ~lost => running'[s] = Cardinality(Witnesses(s)')
  <2>1. /\ running[s] \in 0..Cardinality(Runners) /\ running[s] >= Cardinality(Witnesses(s))
        /\ ~lost => running[s] = Cardinality(Witnesses(s))
    BY DEF Books, TypeOK, Counted
  <2>2. /\ IsFiniteSet(Witnesses(s)) /\ Cardinality(Witnesses(s)) \in Nat
        /\ IsFiniteSet(Witnesses(s)') /\ Cardinality(Witnesses(s)') \in Nat
        /\ Cardinality(Witnesses(s)') <= Cardinality(Runners) /\ Cardinality(Runners) \in Nat
    <3>1. Witnesses(s)' \subseteq Runners
      BY DEF Witnesses
    <3> QED BY <3>1, WitnessesAreCountable, AllAreFinite, FS_Subset, FS_CardinalityType
  <2>3. CASE s = o.schedule
    <3>1. Witnesses(s)' = Witnesses(s) \cup {w} /\ w \notin Witnesses(s)
      BY <1>1, <1>2, <1>3, <2>3, NoneIsNoSchedule DEF Witnesses
    <3>2. Cardinality(Witnesses(s)') = Cardinality(Witnesses(s)) + 1
      BY <2>2, <3>1, FS_AddElement
    <3>3. running'[s] = Capped(running[s] + 1, Cardinality(Runners))
      BY <1>4, <2>3
    <3> QED BY <2>1, <2>2, <3>2, <3>3 DEF Capped
  <2>4. CASE s # o.schedule /\ s \in o.visible
    <3>1. Witnesses(s)' = Witnesses(s) \ {w} /\ w \in Witnesses(s)
      BY <1>1, <1>2, <1>3, <2>4 DEF Witnesses
    <3>2. Cardinality(Witnesses(s)') = Cardinality(Witnesses(s)) - 1
      BY <2>2, <3>1, FS_RemoveElement
    <3>3. running'[s] = running[s] - 1
      BY <1>2, <1>4, <2>4
    <3> QED BY <2>1, <2>2, <3>2, <3>3
  <2>5. CASE s # o.schedule /\ s \notin o.visible
    <3>1. Witnesses(s)' = Witnesses(s)
      BY <1>1, <1>2, <1>3, <2>5 DEF Witnesses
    <3>2. running'[s] = running[s]
      BY <1>4, <2>5
    <3> QED BY <2>1, <2>2, <3>1, <3>2
  <2> QED BY <2>3, <2>4, <2>5
<1>7. TypeOK'
  <2>1. due' \subseteq Schedules /\ earlier' \subseteq due' \X due'
    BY <1>4 DEF Books, TypeOK
  <2>2. served' \in [Schedules -> 0..MostServed]
    BY <1>4, MostServedIsPositive DEF Books, TypeOK, Capped
  <2>3. running' \in [Schedules -> 0..Cardinality(Runners)]
    BY <1>4, <1>6
  <2> QED BY <1>3, <2>1, <2>2, <2>3 DEF Books, TypeOK, WellFormed
<1>8. Counted'
  BY <1>6 DEF Counted
<1>9. \A s \in Schedules : <<s, s>> \notin earlier'
  BY <1>4 DEF Books
<1>10. ASSUME ~together'
       PROVE  /\ ~together /\ \A v \in Runners \ {w} : runners[v] = Idle
              /\ \A s \in Taken(o) : s \in due /\ served[s] = 0
  BY <1>1, <1>10 DEF Books, Alone
<1>11. o.done \subseteq Taken(o) /\ o.done \subseteq Schedules
  BY <1>5 DEF Taken, Runner
<1>12. ASSUME ~together', NEW s \in Taken(r) PROVE s \in due' /\ served'[s] = 0
  <2>1. s \in due /\ served[s] = 0 /\ s \notin o.done
    BY <1>2, <1>10, <1>12
  <2>2. s \in Schedules
    BY <2>1 DEF Books, TypeOK
  <2> QED BY <1>4, <2>1, <2>2
<1>13. Alone'
  <2>1. ASSUME ~together', NEW v \in Runners, NEW u \in Runners
        PROVE  v = u \/ runners'[v] = Idle \/ runners'[u] = Idle
    BY <1>3, <1>10, <2>1
  <2>2. ASSUME ~together', NEW v \in Runners, NEW s \in Taken(runners'[v])
        PROVE  s \in due' /\ served'[s] = 0
    BY <1>3, <1>10, <1>12, <2>2, IdleIsWellFormed
  <2> QED BY <2>1, <2>2 DEF Alone
<1>14. OncePerDue'
  <2> SUFFICES ASSUME ~together', NEW s \in Schedules
               PROVE  served'[s] <= 1 /\ (served'[s] = 1 => s \notin due')
    BY DEF OncePerDue
  <2>1. CASE s \in o.done
    <3>1. s \in due /\ served[s] = 0
      BY <1>10, <1>11, <2>1
    <3>2. due' = due \ o.done /\ served'[s] = Capped(served[s] + 1, MostServed)
      BY <1>4, <2>1
    <3> QED BY <2>1, <3>1, <3>2, MostServedIsPositive DEF Capped
  <2>2. CASE s \notin o.done
    BY <1>4, <1>10, <2>2 DEF Books, OncePerDue
  <2> QED BY <2>1, <2>2
<1> QED BY <1>3, <1>7, <1>8, <1>9, <1>13, <1>14 DEF Books

\* A runner that gives up leaves its run visible.
LEMMA GiveUpKeeps == ASSUME Books, NEW w \in Runners, RollBack(w) PROVE Books'
<1>1. /\ runners' \in [Runners -> Runner] /\ runners'[w] = Idle
      /\ \A v \in Runners \ {w} : runners'[v] = runners[v]
      /\ \A v \in Runners : WellFormed(runners'[v])
  BY IdleIsWellFormed, RunnersStayWellFormed DEF RollBack
<1>2. UNCHANGED <<due, earlier, served, running, console, together>> /\ lost' = TRUE
  BY DEF RollBack
<1>3. TypeOK'
  BY <1>1, <1>2 DEF Books, TypeOK, WellFormed
<1>4. ASSUME NEW s \in Schedules PROVE running'[s] >= Cardinality(Witnesses(s)')
  <2>1. Witnesses(s)' \subseteq Witnesses(s)
    BY <1>1, IdleIsWellFormed DEF Witnesses
  <2>2. Cardinality(Witnesses(s)') <= Cardinality(Witnesses(s))
        /\ Cardinality(Witnesses(s)') \in Nat /\ Cardinality(Witnesses(s)) \in Nat
    BY <2>1, WitnessesAreCountable, FS_Subset, FS_CardinalityType
  <2>3. running'[s] \in Int /\ running'[s] >= Cardinality(Witnesses(s))
    BY <1>2, WitnessesAreCountable DEF Books, TypeOK, Counted
  <2> QED BY <2>2, <2>3
<1>5. Counted'
  BY <1>2, <1>4 DEF Counted
<1>6. Alone'
  BY <1>1, <1>2, IdleIsWellFormed DEF Books, Alone
<1> QED BY <1>1, <1>2, <1>3, <1>5, <1>6 DEF Books, OncePerDue

LEMMA ProceedKeepsBooks == ASSUME Books, NEW w \in Runners, Proceed(w) PROVE Books'
<1>1. CASE Select(w)
  BY <1>1, SelectKeeps
<1>2. CASE StartRun(w)
  BY <1>2, StartContinues, ContinueKeeps, IdleIsWellFormed DEF StartRun
<1>3. CASE CommitRound(w)
  BY <1>3, RoundCommits, CommitKeeps, IdleIsWellFormed DEF CommitRound
<1>4. CASE CommitBatch(w)
  BY <1>4, BatchCommits, CommitKeeps, IdleIsWellFormed DEF CommitBatch
<1>5. CASE BreakDeadlock(w)
  BY <1>5, GiveUpKeeps DEF BreakDeadlock
<1> QED BY <1>1, <1>2, <1>3, <1>4, <1>5 DEF Proceed

LEMMA WriteRowKeepsBooks == ASSUME Books, NEW w \in Runners, WriteRow(w) PROVE Books'
<1>1. CASE RefreshSource(w)
  BY <1>1, RefreshContinues, ContinueKeeps, IdleIsWellFormed DEF RefreshSource
<1>2. CASE FinishRun(w)
  BY <1>2, FinishContinues, ContinueKeeps, IdleIsWellFormed DEF FinishRun
<1>3. CASE ReplayExample(w)
  BY <1>3, ExampleContinues, ContinueKeeps, IdleIsWellFormed DEF ReplayExample
<1> QED BY <1>1, <1>2, <1>3 DEF WriteRow

\* Nobody has taken a schedule that becomes due.
LEMMA BecomeDueKeeps == ASSUME Books, NEW s \in Schedules, BecomeDue(s) PROVE Books'
<1>1. /\ due' = due \cup {s} /\ earlier' = earlier \cup (due \X {s}) /\ s \notin due
      /\ served' = [served EXCEPT ![s] = 0]
      /\ UNCHANGED <<running, runners, console, lost, together>>
  BY DEF BecomeDue
<1>2. TypeOK'
  BY <1>1, MostServedIsPositive DEF Books, TypeOK
<1>3. \A t \in Schedules : <<t, t>> \notin earlier'
  BY <1>1 DEF Books
<1>4. \A t : Witnesses(t)' = Witnesses(t)
  BY <1>1 DEF Witnesses
<1>5. Counted'
  BY <1>1, <1>4 DEF Books, Counted
<1>6. Alone'
  BY <1>1 DEF Books, Alone, TypeOK
<1>7. OncePerDue'
  BY <1>1 DEF Books, OncePerDue, TypeOK
<1> QED BY <1>1, <1>2, <1>3, <1>5, <1>6, <1>7 DEF Books

LEMMA ScheduleRefreshKeeps == ASSUME Books, ScheduleRefresh PROVE Books'
<1>1. UNCHANGED <<running, runners, lost, together>> /\ console' = "idle"
  BY DEF ScheduleRefresh
<1>2. \A t : Witnesses(t)' = Witnesses(t)
  BY <1>1 DEF Witnesses
<1>3. Counted'
  BY <1>1, <1>2 DEF Books, Counted
<1>4. CASE UNCHANGED <<due, earlier, served>>
  BY <1>1, <1>3, <1>4 DEF Books, TypeOK, Alone, OncePerDue
<1>5. CASE /\ due' = due \cup {Newest} /\ served' = [served EXCEPT ![Newest] = 0]
           /\ earlier' = (earlier \cap ((due \ {Newest}) \X (due \ {Newest})))
                         \cup ((due \ {Newest}) \X {Newest})
  <2>1. TypeOK'
    BY <1>1, <1>5, NewestIsARefresh, MostServedIsPositive DEF Books, TypeOK
  <2>2. \A t \in Schedules : <<t, t>> \notin earlier'
    BY <1>5 DEF Books
  <2>3. Alone'
    BY <1>1, <1>5 DEF Books, Alone, TypeOK
  <2>4. OncePerDue'
    BY <1>1, <1>5 DEF Books, OncePerDue, TypeOK
  <2> QED BY <1>1, <1>3, <2>1, <2>2, <2>3, <2>4 DEF Books
<1> QED BY <1>4, <1>5 DEF ScheduleRefresh

LEMMA StepBooks == Books /\ [Next]_vars => Books'
<1> SUFFICES ASSUME Books, [Next]_vars PROVE Books'
  OBVIOUS
<1>1. CASE LookAtRefresh
  BY <1>1 DEF LookAtRefresh, Books, TypeOK, Counted, Witnesses, Alone, OncePerDue
<1>2. CASE UNCHANGED vars
  BY <1>2 DEF vars, Books, TypeOK, Counted, Witnesses, Alone, OncePerDue
<1>3. ASSUME NEW w \in Runners, Fail(w) PROVE Books'
  BY <1>3, GiveUpKeeps DEF Fail
<1>4. ASSUME NEW w \in Runners, EndReplay(w) PROVE Books'
  BY <1>4, EndContinues, ContinueKeeps, IdleIsWellFormed DEF EndReplay
<1> QED BY <1>1, <1>2, <1>3, <1>4, BecomeDueKeeps, ScheduleRefreshKeeps, ProceedKeepsBooks,
           WriteRowKeepsBooks DEF Next

-----------------------------------------------------------------------------
\* Every variable has its type; in particular no runner takes away a run it did not count
\* (run_due_replay_schedules).
THEOREM TypeCorrect == Spec => []TypeOK
<1>1. Books => TypeOK
  BY DEF Books
<1> QED BY <1>1, InitBooks, StepBooks, PTL DEF Spec

\* As long as no transaction is rolled back, as many runs of a schedule are committed as
\* "running" as there are runners that will complete one: the commit of run_round in the
\* middle of a batch leaves nothing behind.
THEOREM NoRunIsLeftRunning == Spec => []RunningHasRunner
<1>1. Books => RunningHasRunner
  BY DEF Books, Counted, Witnesses, RunningHasRunner
<1> QED BY <1>1, InitBooks, StepBooks, PTL DEF Spec

\* Runners that come one at a time complete a schedule at most once for each time it
\* becomes due, whatever fails in between and however often the console asks for a refresh.
THEOREM ServedOnce == Spec => []OncePerDue
<1>1. Books => OncePerDue
  BY DEF Books
<1> QED BY <1>1, InitBooks, StepBooks, PTL DEF Spec

-----------------------------------------------------------------------------
\* Runners that overlap.

\* The runners that may still complete a schedule.
Takers(s) == {w \in Runners : s \in Taken(runners[w])}

Owed(s) == /\ s \in due => served[s] = 0
           /\ served[s] + Cardinality(Takers(s)) <= Cardinality(Runners)

\* Nobody takes a schedule that is not due, and nobody completes one.
LEMMA OwedStays ==
    ASSUME Books, NEW s \in Schedules, Owed(s), Takers(s)' \subseteq Takers(s),
           s \in due' => s \in due, served'[s] = served[s]
    PROVE  Owed(s)'
<1>1. /\ IsFiniteSet(Takers(s)) /\ Cardinality(Takers(s)) \in Nat
      /\ Cardinality(Takers(s)') \in Nat /\ Cardinality(Takers(s)') <= Cardinality(Takers(s))
  <2>1. Takers(s) \subseteq Runners
    BY DEF Takers
  <2> QED BY <2>1, AllAreFinite, FS_Subset, FS_CardinalityType
<1>2. served[s] \in Int /\ Cardinality(Runners) \in Nat
  BY WitnessesAreCountable DEF Books, TypeOK, MostServed
<1> QED BY <1>1, <1>2 DEF Owed

\* A schedule becomes due, or is due and is taken: nobody has completed it.
LEMMA OwedAfresh ==
    ASSUME NEW s \in Schedules, served'[s] = 0 PROVE Owed(s)'
<1>1. Takers(s)' \subseteq Runners
  BY DEF Takers
<1>2. Cardinality(Takers(s)') \in Nat /\ Cardinality(Takers(s)') <= Cardinality(Runners)
  BY <1>1, AllAreFinite, FS_Subset, FS_CardinalityType
<1> QED BY <1>2 DEF Owed

LEMMA OwedAtFirst == ASSUME Init, NEW s \in Schedules PROVE Owed(s)
<1>1. Takers(s) = {} /\ served[s] = 0
  BY IdleIsWellFormed DEF Init, Takers
<1> QED BY <1>1, FS_EmptySet, WitnessesAreCountable DEF Owed

\* A commit completes what it has taken.
LEMMA OwedAfterCommit ==
    ASSUME Books, NEW w \in Runners, Commits(w), Commit(w), NEW s \in Schedules, Owed(s)
    PROVE  Owed(s)'
<1>1. PICK r : /\ WellFormed(r) /\ runners' = [runners EXCEPT ![w] = r]
               /\ Taken(r) = Taken(runners[w]) \ runners[w].done
  BY DEF Commits
<1>2. /\ runners'[w] = r /\ \A v \in Runners \ {w} : runners'[v] = runners[v]
  BY <1>1, RunnersStayWellFormed
<1>3. /\ due' = due \ runners[w].done
      /\ served'[s] = IF s \in runners[w].done THEN Capped(served[s] + 1, MostServed)
                                                ELSE served[s]
  BY DEF Commit, ServedAfter
<1>4. CASE s \notin runners[w].done
  <2>1. Takers(s)' \subseteq Takers(s)
    BY <1>1, <1>2 DEF Takers
  <2> QED BY <1>3, <1>4, <2>1, OwedStays
<1>5. CASE s \in runners[w].done
  <2>1. w \in Takers(s) /\ Takers(s)' = Takers(s) \ {w}
    BY <1>1, <1>2, <1>5 DEF Takers, Taken
  <2>2. IsFiniteSet(Takers(s)) /\ Cardinality(Takers(s)) \in Nat
        /\ Cardinality(Takers(s)') = Cardinality(Takers(s)) - 1
        /\ Cardinality(Takers(s)') \in Nat
    <3>1. Takers(s) \subseteq Runners
      BY DEF Takers
    <3>2. IsFiniteSet(Takers(s)) /\ IsFiniteSet(Takers(s)')
      BY <2>1, <3>1, AllAreFinite, FS_Subset
    <3> QED BY <2>1, <3>2, FS_RemoveElement, FS_CardinalityType
  <2>3. served[s] \in Int /\ Cardinality(Runners) \in Nat
    BY WitnessesAreCountable DEF Books, TypeOK, MostServed
  <2>4. served'[s] = served[s] + 1
    BY <1>3, <1>5, <2>2, <2>3 DEF Owed, Capped, MostServed
  <2> QED BY <1>3, <1>5, <2>2, <2>3, <2>4 DEF Owed
<1> QED BY <1>4, <1>5

LEMMA StepOwed ==
    ASSUME Books, [Next]_vars, NEW s \in Schedules, Owed(s) PROVE Owed(s)'
<1>1. CASE UNCHANGED <<due, served, runners>>
  BY <1>1, OwedStays DEF Takers
<1>2. ASSUME NEW w \in Runners, Continues(w), UNCHANGED <<due, served>> PROVE Owed(s)'
  <2>1. Takers(s)' \subseteq Takers(s)
    BY <1>2, RunnersStayWellFormed DEF Continues, Takers
  <2> QED BY <1>2, <2>1, OwedStays
<1>3. ASSUME NEW w \in Runners, Select(w) PROVE Owed(s)'
  <2>1. PICK r : /\ WellFormed(r) /\ runners' = [runners EXCEPT ![w] = r]
                 /\ Taken(r) \subseteq due
    BY <1>3, SelectOutcome
  <2>2. UNCHANGED <<due, served>>
    BY <1>3 DEF Select
  <2>3. CASE s \in due
    BY <2>2, <2>3, OwedAfresh DEF Owed
  <2>4. CASE s \notin due
    <3>1. Takers(s)' \subseteq Takers(s)
      BY <2>1, <2>4, RunnersStayWellFormed DEF Takers
    <3> QED BY <2>2, <3>1, OwedStays
  <2> QED BY <2>3, <2>4
<1>4. ASSUME NEW w \in Runners, CommitRound(w) \/ CommitBatch(w) PROVE Owed(s)'
  BY <1>4, RoundCommits, BatchCommits, OwedAfterCommit DEF CommitRound, CommitBatch
<1>5. ASSUME NEW w \in Runners, RollBack(w) PROVE Owed(s)'
  <2>1. Takers(s)' \subseteq Takers(s)
    BY <1>5, IdleIsWellFormed, RunnersStayWellFormed DEF RollBack, Takers
  <2> QED BY <1>5, <2>1, OwedStays DEF RollBack
<1>6. ASSUME NEW t \in Schedules, served' = [served EXCEPT ![t] = 0], UNCHANGED runners,
             due' = due \cup {t}
      PROVE  Owed(s)'
  <2>1. CASE s = t
    BY <1>6, <2>1, OwedAfresh DEF Books, TypeOK
  <2>2. CASE s # t
    BY <1>6, <2>2, OwedStays DEF Takers, Books, TypeOK
  <2> QED BY <2>1, <2>2
<1>7. CASE ScheduleRefresh
  BY <1>1, <1>6, <1>7, NewestIsARefresh DEF ScheduleRefresh
<1>8. ASSUME NEW w \in Runners, StartRun(w) \/ WriteRow(w) \/ EndReplay(w) PROVE Owed(s)'
  <2>1. Continues(w)
    BY <1>8, StartContinues, EndContinues, ExampleContinues, RefreshContinues,
       FinishContinues DEF WriteRow
  <2>2. UNCHANGED <<due, served>>
    BY <1>8 DEF StartRun, EndReplay, WriteRow, ReplayExample, RefreshSource, FinishRun
  <2> QED BY <1>2, <2>1, <2>2
<1> QED BY <1>1, <1>3, <1>4, <1>5, <1>6, <1>7, <1>8
        DEF Next, vars, Proceed, BecomeDue, LookAtRefresh, BreakDeadlock, Fail

\* However runners overlap, commit in the middle, fail or are aborted, each of them completes
\* a schedule at most once for each time it becomes due (run_due_replay_schedules).
THEOREM ServedOncePerRunner == Spec => []OncePerRunner
<1> DEFINE AllOwed == Books /\ \A s \in Schedules : Owed(s)
<1>1. Init => AllOwed
  BY InitBooks, OwedAtFirst
<1>2. AllOwed /\ [Next]_vars => AllOwed'
  <2>1. ASSUME AllOwed, [Next]_vars, NEW s \in Schedules PROVE Owed(s)'
    BY <2>1, StepOwed
  <2> QED BY <2>1, StepBooks
<1>3. AllOwed => OncePerRunner
  BY DEF Owed, Takers, OncePerRunner
<1> QED BY <1>1, <1>2, <1>3, PTL DEF Spec
=============================================================================
