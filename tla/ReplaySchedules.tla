--------------------------- MODULE ReplaySchedules ---------------------------
(***************************************************************************)
(* Runners of due replay schedules: the cron job and the endpoint          *)
(* /replay-schedules/run-due.  A runner selects a batch without locking    *)
(* it, replays its schedules one after the other in one transaction and    *)
(* commits at the end; but a gold replay commits in the middle, with       *)
(* everything before it, and the rows a replay or a source refresh writes  *)
(* stay locked until the next commit.                                      *)
(***************************************************************************)
EXTENDS Integers, FiniteSets, Sequences, Functions

CONSTANTS
    Schedules,      \* active replay schedules
    Kind,           \* "gold", "workflow" or "source_refresh"
    Writes,         \* rows a schedule writes: the settings of the connectors of a refresh,
                    \* in the order of its payload, or the gold examples of a gold replay
    Newest,         \* the source refresh that was created last
    Runners,        \* processes that run due schedules
    Limit,          \* schedules of one batch
    None

ASSUME KindsAreKnown ==
    Kind \in [Schedules -> {"gold", "workflow", "source_refresh"}]
ASSUME NewestIsARefresh == Newest \in Schedules /\ Kind[Newest] = "source_refresh"
ASSUME LimitIsPositive == Limit \in Nat \ {0}
ASSUME AllAreFinite == IsFiniteSet(Runners) /\ IsFiniteSet(Schedules)
ASSUME NoneIsNoSchedule == None \notin Schedules

Rows == UNION {Range(Writes[s]) : s \in Schedules}

ASSUME WritesAreSequences == Writes \in [Schedules -> Seq(Rows)]

VARIABLES
    due,        \* schedules with next_run_at in the past
    earlier,    \* pairs of due schedules: the first has the earlier next_run_at
    served,     \* history: runs completed since the schedule became due, at most MostServed
    running,    \* committed replay_runs of a schedule with status "running", at most
                \* one for each runner
    runners,
    console,    \* a request for a refresh: none ("idle"), or what it has read of Newest
    lost,       \* history: a transaction was rolled back
    together    \* history: two runners have had a batch at the same time

vars == <<due, earlier, served, running, runners, console, lost, together>>

Runner == [step : {"idle", "pick", "replay", "refresh", "finish"},
           batch : Seq(Schedules),                 \* still to be run
           schedule : Schedules \cup {None},       \* being run
           todo : Seq(Rows),                       \* not yet written
           locks : SUBSET (Rows \cup Schedules),   \* rows written and not committed
           done : SUBSET Schedules,        \* run, but not committed
           visible : SUBSET Schedules]     \* whose run is committed as "running"

Idle == [step |-> "idle", batch |-> <<>>, schedule |-> None, todo |-> <<>>,
         locks |-> {}, done |-> {}, visible |-> {}]

\* What a runner has selected and not committed.
Taken(r) == Range(r.batch) \cup r.done \cup ({r.schedule} \ {None})

\* Bound of served: one more than there are runners.
MostServed == Cardinality(Runners) + 1

Capped(n, most) == IF n > most THEN most ELSE n

Init == /\ due = {} /\ earlier = {}
        /\ served = [s \in Schedules |-> 0]
        /\ running = [s \in Schedules |-> 0]
        /\ runners = [w \in Runners |-> Idle]
        /\ console = "idle" /\ lost = FALSE /\ together = FALSE

\* A schedule is created or its cadence is over.  No batch lasts as long as a cadence,
\* which is a day at least.
BecomeDue(s) ==
    /\ s \notin due
    /\ \A w \in Runners : s \notin Taken(runners[w])
    /\ due' = due \cup {s} /\ earlier' = earlier \cup (due \X {s})
    /\ served' = [served EXCEPT ![s] = 0]
    /\ UNCHANGED <<running, runners, console, lost, together>>

-----------------------------------------------------------------------------
\* The sequences of as many due schedules as a batch has, by next_run_at.
Sorted == {b \in [1..Capped(Cardinality(due), Limit) -> due] :
               \A i, j \in DOMAIN b : i < j => <<b[i], b[j]>> \in earlier}

\* Bug: the batch has the newest of the due schedules.
NewestDue == {b \in Sorted : \A s \in due \ Range(b) : \A t \in Range(b) : <<s, t>> \in earlier}

\* ORDER BY next_run_at LIMIT limit: the one sequence that leaves no earlier schedule out.
Batch == {b \in Sorted : \A s \in due \ Range(b) : \A t \in Range(b) : <<t, s>> \in earlier}

Select(w) ==
    /\ runners[w].step = "idle" /\ due # {}
    /\ \E b \in Batch :
           runners' = [runners EXCEPT ![w] = [Idle EXCEPT !.step = "pick", !.batch = b]]
    /\ together' = (together \/ \E v \in Runners \ {w} : runners[v] # Idle)
    /\ UNCHANGED <<due, earlier, served, running, console, lost>>

\* run_replay_schedule inserts a run with status "running", not yet committed.
StartRun(w) ==
    LET r == runners[w]
        s == Head(r.batch)
    IN  /\ r.step = "pick" /\ r.batch # <<>>
        /\ runners' = [runners EXCEPT ![w] =
               [r EXCEPT !.batch = Tail(r.batch), !.schedule = s, !.todo = Writes[s],
                         !.step = IF Kind[s] # "source_refresh" THEN "replay"
                                  ELSE IF Writes[s] = <<>> THEN "finish" ELSE "refresh"]]
        /\ UNCHANGED <<due, earlier, served, running, console, lost, together>>

\* The runs runner r completes are counted ...
ServedAfter(r) == [s \in Schedules |-> IF s \in r.done THEN Capped(served[s] + 1, MostServed)
                                                       ELSE served[s]]

\* Bug: every finished run is taken for one that was committed as running.
AllWereRunning(r) ==
    [s \in Schedules |-> IF s = r.schedule THEN Capped(running[s] + 1, Cardinality(Runners))
                         ELSE IF s \in r.done THEN running[s] - 1 ELSE running[s]]

\* ... those that were committed as running are so no more, and its current run is.
RunningAfter(r) ==
    [s \in Schedules |-> IF s = r.schedule THEN Capped(running[s] + 1, Cardinality(Runners))
                         ELSE IF s \in r.done \cap r.visible THEN running[s] - 1
                         ELSE running[s]]

\* Bug: the finished runs do not move next_run_at.
CommitStillDue(w) == /\ UNCHANGED <<due, earlier>>
                     /\ served' = ServedAfter(runners[w])
                     /\ running' = RunningAfter(runners[w])

\* What a commit of runner w makes visible: the finished runs and their new next_run_at,
\* and the current run as running.
Commit(w) == /\ due' = due \ runners[w].done
             /\ earlier' = earlier \cap (due' \X due')
             /\ served' = ServedAfter(runners[w])
             /\ running' = RunningAfter(runners[w])

Committed(r) == [r EXCEPT !.locks = {}, !.done = {}, !.visible = {r.schedule},
                          !.step = "finish"]

Free(w, row) == \A v \in Runners \ {w} : row \notin runners[v].locks

\* A gold replay: run_round writes the result of one gold example after the other ...
ReplayExample(w) ==
    LET r == runners[w]
    IN  /\ r.step = "replay" /\ r.todo # <<>> /\ Free(w, Head(r.todo))
        /\ runners' = [runners EXCEPT ![w] =
               [r EXCEPT !.todo = Tail(r.todo), !.locks = r.locks \cup {Head(r.todo)}]]
        /\ UNCHANGED <<due, earlier, served, running, console, lost, together>>

\* ... and commits the session at its end ...
CommitRound(w) ==
    LET r == runners[w]
    IN  /\ r.step = "replay" /\ Kind[r.schedule] = "gold" /\ r.todo = <<>>
        /\ Commit(w)
        /\ runners' = [runners EXCEPT ![w] = Committed(r)]
        /\ UNCHANGED <<console, lost, together>>

\* ... unless a generation fails, which is swallowed: the rows it has written stay locked.
\* A workflow replay, failed or not, leaves the commit to the runner.
EndReplay(w) ==
    /\ runners[w].step = "replay"
    /\ runners' = [runners EXCEPT ![w].step = "finish", ![w].todo = <<>>]
    /\ UNCHANGED <<due, earlier, served, running, console, lost, together>>

\* A source refresh writes the settings rows of its connectors in the order of the payload.
\* A connector that fails is counted and the refresh goes on.
RefreshSource(w) ==
    LET r == runners[w]
    IN  /\ r.step = "refresh" /\ Free(w, Head(r.todo))
        /\ runners' = [runners EXCEPT ![w] =
               [r EXCEPT !.todo = Tail(r.todo), !.locks = r.locks \cup {Head(r.todo)},
                         !.step = IF Len(r.todo) = 1 THEN "finish" ELSE "refresh"]]
        /\ UNCHANGED <<due, earlier, served, running, console, lost, together>>

\* Bug: a failed run is not scheduled again.
NotScheduledAgain(w) ==
    LET r == runners[w]
    IN  /\ r.step = "finish" /\ Free(w, r.schedule)
        /\ runners' = [runners EXCEPT ![w] = [r EXCEPT !.step = "pick", !.schedule = None]]
        /\ UNCHANGED <<due, earlier, served, running, console, lost, together>>

\* finally: the run is completed and the schedule gets its next_run_at.
FinishRun(w) ==
    LET r == runners[w]
    IN  /\ r.step = "finish" /\ Free(w, r.schedule)
        /\ runners' = [runners EXCEPT ![w] =
               [r EXCEPT !.step = "pick", !.schedule = None,
                         !.done = r.done \cup {r.schedule},
                         !.locks = r.locks \cup {r.schedule}]]
        /\ UNCHANGED <<due, earlier, served, running, console, lost, together>>

CommitBatch(w) ==
    /\ runners[w].step = "pick" /\ runners[w].batch = <<>>
    /\ Commit(w)
    /\ runners' = [runners EXCEPT ![w] = Idle]
    /\ UNCHANGED <<console, lost, together>>

-----------------------------------------------------------------------------
\* schedule_source_refresh loads the newest source refresh ...
LookAtRefresh ==
    /\ console = "idle"
    /\ console' = IF Newest \in due THEN "due" ELSE "later"
    /\ UNCHANGED <<due, earlier, served, running, runners, lost, together>>

\* ... and makes it due now, unless it was due when it was loaded.
ScheduleRefresh ==
    /\ console # "idle" /\ \A v \in Runners : Newest \notin runners[v].locks
    /\ console' = "idle"
    /\ IF console = "due" THEN UNCHANGED <<due, earlier, served>>
       ELSE LET others == due \ {Newest}
            IN  /\ due' = due \cup {Newest}
                /\ earlier' = (earlier \cap (others \X others)) \cup (others \X {Newest})
                /\ served' = [served EXCEPT ![Newest] = 0]
    /\ UNCHANGED <<running, runners, lost, together>>

-----------------------------------------------------------------------------
\* The transaction is rolled back; a run that was committed as running stays so.
RollBack(w) == /\ runners' = [runners EXCEPT ![w] = Idle]
               /\ lost' = TRUE
               /\ UNCHANGED <<due, earlier, served, running, console, together>>

\* The process dies, or a database error breaks the session: the flush in finally raises
\* and the whole batch is given up.  Bound: only as long as nothing was rolled back.
Fail(w) == runners[w] # Idle /\ ~lost /\ RollBack(w)

\* The row runner w waits for.
Awaited(r) == IF r.todo # <<>> THEN {Head(r.todo)}
              ELSE IF r.step = "finish" THEN {r.schedule} ELSE {}

Waits(w, v) == w # v /\ Awaited(runners[w]) \cap runners[v].locks # {}

\* PostgreSQL aborts one of two transactions that wait for each other.
BreakDeadlock(w) == /\ \E v \in Runners : Waits(w, v) /\ Waits(v, w)
                    /\ RollBack(w)

\* The steps that wait for no other runner, and those that write a row.
Proceed(w) == \/ Select(w) \/ StartRun(w) \/ CommitRound(w)
              \/ CommitBatch(w) \/ BreakDeadlock(w)
WriteRow(w) == ReplayExample(w) \/ RefreshSource(w) \/ FinishRun(w)

Next == \/ \E s \in Schedules : BecomeDue(s)
        \/ LookAtRefresh \/ ScheduleRefresh
        \/ \E w \in Runners : Proceed(w) \/ WriteRow(w) \/ EndReplay(w) \/ Fail(w)

Spec == Init /\ [][Next]_vars

\* The scheduler keeps starting runners, a runner keeps working, and PostgreSQL detects
\* deadlocks and serves the waiters of a row in turn.  No replay is expected to fail: only
\* one that has nothing left to write ends.
Fairness == \A w \in Runners :
               /\ WF_vars(Proceed(w) \/ (runners[w].todo = <<>> /\ EndReplay(w)))
               /\ SF_vars(WriteRow(w))

FairSpec == Spec /\ Fairness

-----------------------------------------------------------------------------
\* Every variable has its type.
TypeOK == /\ due \subseteq Schedules /\ earlier \subseteq due \X due
          /\ served \in [Schedules -> 0..MostServed]
          /\ running \in [Schedules -> 0..Cardinality(Runners)]
          /\ runners \in [Runners -> Runner]
          /\ \A w \in Runners : Len(runners[w].batch) <= Limit
          /\ console \in {"idle", "due", "later"}
          /\ lost \in BOOLEAN /\ together \in BOOLEAN

\* As long as no transaction is rolled back, a run committed as "running" has a runner
\* that will complete it (the commit of run_round inside the batch).
RunningHasRunner ==
    ~lost => \A s \in Schedules :
               running[s] = Cardinality({w \in Runners : s \in runners[w].visible})

\* As long as runners come one at a time, a schedule that became due is completed at most
\* once, whatever fails; then it is not due any more.
OncePerDue ==
    ~together => \A s \in Schedules : served[s] <= 1 /\ (served[s] = 1 => s \notin due)

\* However runners overlap, a schedule is completed at most once by each of them for each
\* time it becomes due: a runner that has finished it does not find it due again
\* (run_due_replay_schedules selects without locking).
OncePerRunner ==
    \A s \in Schedules :
        /\ s \in due => served[s] = 0
        /\ served[s] + Cardinality({w \in Runners : s \in Taken(runners[w])})
               <= Cardinality(Runners)

\* A due schedule is run in the end, though batches overlap, block each other, abort and
\* have a limit (run_due_replay_schedules).
EveryDueScheduleRuns == \A s \in Schedules : s \in due ~> s \notin due
=============================================================================
