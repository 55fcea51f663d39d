------------------------------ MODULE OnyxSeeding ------------------------------
(***************************************************************************)
(* The commands that fill an empty installation: "make seed" (skills,      *)
(* document sets and personas in Onyx, an active prompt per skill),        *)
(* "make seed-local" (skills and prompts), "make seed-demo" (these and the *)
(* demo rows) and "make setup-docsets" (the connectors' document sets).    *)
(* Each may be run again at any time, while another one runs, and may die  *)
(* at any step.                                                            *)
(*                                                                         *)
(* A command works in one session that commits the skill rows first and    *)
(* all the rest at its end.  An insert that meets the unique row of a      *)
(* transaction still open waits for it; here the conflict shows at the     *)
(* commit.  The creates of Onyx check no name, so what a call made whose   *)
(* answer got lost is made again by its retry.                             *)
(***************************************************************************)
EXTENDS Integers, Sequences, Functions, FiniteSets

CONSTANTS
    Seeders,        \* processes that run a command
    SkillOrder,     \* the registered skills, in the order of the registry
    ConnectorSets,  \* the document sets that the connectors expect
    Minimum,        \* regression examples that every skill must have
    FaultsAlone,    \* bound on failed calls of Onyx and on crashes
    FaultsTogether  \* the same once two commands have run at the same time

Skills == Range(SkillOrder)

\* The names are literals of the source (SKILLS, CONNECTORS), each used once.
ASSUME OrdersAreSequences ==
    SkillOrder \in Seq(Range(SkillOrder)) /\ ConnectorSets \in Seq(Range(ConnectorSets))
ASSUME NamesAreDistinct == /\ IsInjective(SkillOrder) /\ IsInjective(ConnectorSets)
                           /\ Skills \cap Range(ConnectorSets) = {}
ASSUME SeedBoundsAreNumbers == /\ IsFiniteSet(Seeders) /\ {Minimum, FaultsAlone} \subseteq Nat
                               /\ FaultsTogether \in 0..FaultsAlone

VARIABLES
    jobs,           \* what each process does
    rows,           \* skills that have their row
    linked,         \* the persona of each skill's row, 0 for none
    prompted,       \* skills with an active prompt
    golds,          \* regression examples of each skill
    docSets,        \* document sets in Onyx under each name
    personas,       \* personas in Onyx under each skill's name
    demos,          \* copies of the demo outputs
    topic,          \* who made the demo topic: "none", "demo" or "user"
    faults,         \* failed calls and crashes so far
    lost,           \* history: the answer of a create got lost
    together        \* history: two commands ran at the same time

databaseVars == <<rows, linked, prompted, golds, demos, topic>>
onyxVars == <<docSets, personas>>
seedVars == <<jobs, databaseVars, onyxVars, faults, lost, together>>

\* A skill and the document set "dreamfi-<skill>" go by the same name.
SetNames == Skills \cup Range(ConnectorSets)

NoJob == [cmd |-> "none", step |-> "none", missing |-> {}, seen |-> {},
          ids |-> [s \in Skills |-> 0], at |-> 1, tries |-> 0, drafts |-> {}, sends |-> {},
          newTopic |-> FALSE, newDemo |-> FALSE]

Copies == 0..Cardinality(Seeders) + FaultsAlone

InitSeed ==
    /\ jobs = [p \in Seeders |-> NoJob]
    /\ rows = {} /\ topic = "none" /\ demos = 0
    /\ linked = [s \in Skills |-> 0] /\ prompted = {}
    /\ golds = [s \in Skills |-> 0]
    /\ docSets = [n \in SetNames |-> 0] /\ personas = [s \in Skills |-> 0]
    /\ faults = 0 /\ lost = FALSE /\ together = FALSE

Goto(p, step) == jobs' = [jobs EXCEPT ![p].step = step]
EndJob(p) == jobs' = [jobs EXCEPT ![p] = NoJob]

Others(p) == \E q \in Seeders \ {p} : jobs[q] # NoJob

MaxFaults == IF together THEN FaultsTogether ELSE FaultsAlone

Start(p, cmd) ==
    /\ jobs[p] = NoJob /\ (Others(p) => faults <= FaultsTogether)
    /\ jobs' = [jobs EXCEPT ![p] = [NoJob EXCEPT !.cmd = cmd,
                    !.step = IF cmd = "docsets" THEN "list" ELSE "skills"]]
    /\ together' = (together \/ Others(p))
    /\ UNCHANGED <<databaseVars, onyxVars, faults, lost>>

-----------------------------------------------------------------------------
(* The skill rows.                                                         *)

LookAtSkills(p) ==
    /\ jobs[p].step = "skills"
    /\ jobs' = [jobs EXCEPT ![p].step = "insert", ![p].missing = Skills \ rows]
    /\ UNCHANGED <<databaseVars, onyxVars, faults, lost, together>>

CommitSkills(p) ==
    /\ jobs[p].step = "insert" /\ jobs[p].missing \cap rows = {}
    /\ rows' = rows \cup jobs[p].missing
    /\ jobs' = [jobs EXCEPT ![p].missing = {},
                            ![p].step = IF jobs[p].cmd = "seed" THEN "coverage" ELSE "prompts"]
    /\ UNCHANGED <<linked, prompted, golds, demos, topic, onyxVars, faults, lost, together>>

\* Skills with too few regression examples, those with none included.
Deficits == {s \in Skills : golds[s] < Minimum}

CheckCoverage(p) ==
    /\ jobs[p].step = "coverage"
    /\ IF Deficits = {} THEN Goto(p, "list") ELSE EndJob(p)
    /\ UNCHANGED <<databaseVars, onyxVars, faults, lost, together>>

-----------------------------------------------------------------------------
(* Onyx.                                                                   *)

\* What a command ensures in Onyx, and "link", the row and the prompt of a skill.
Plan(cmd) ==
    LET sets == Len(ConnectorSets)
        kinds == <<"set", "persona", "link">>
    IN  [i \in 1..sets + (IF cmd = "seed" THEN 3 * Len(SkillOrder) ELSE 0) |->
            IF i <= sets THEN <<"set", ConnectorSets[i]>>
            ELSE <<kinds[((i - sets - 1) % 3) + 1], SkillOrder[((i - sets - 1) \div 3) + 1]>>]

\* Bug: the personas that exist are not looked up.
ListSets(p) ==
    /\ jobs[p].step = "list"
    /\ jobs' = [jobs EXCEPT ![p].step = "ensure",
                            ![p].seen = {n \in SetNames : docSets[n] > 0}]
    /\ UNCHANGED <<databaseVars, onyxVars, faults, lost, together>>

\* Bug: the document sets are taken to be there.
ListPersonas(p) ==
    /\ jobs[p].step = "list"
    /\ \E ids \in [Skills -> Copies] :
        /\ \A s \in Skills : IF personas[s] = 0 THEN ids[s] = 0 ELSE ids[s] \in 1..personas[s]
        /\ jobs' = [jobs EXCEPT ![p].step = "ensure", ![p].ids = ids, ![p].seen = SetNames]
    /\ UNCHANGED <<databaseVars, onyxVars, faults, lost, together>>

\* Of several personas of one name any may come last in the list, and that one is taken.
ListOnyx(p) ==
    /\ jobs[p].step = "list"
    /\ \E ids \in [Skills -> Copies] :
        /\ \A s \in Skills : IF personas[s] = 0 THEN ids[s] = 0 ELSE ids[s] \in 1..personas[s]
        /\ jobs' = [jobs EXCEPT ![p].step = "ensure", ![p].ids = ids,
                                ![p].seen = {n \in SetNames : docSets[n] > 0}]
    /\ UNCHANGED <<databaseVars, onyxVars, faults, lost, together>>

Item(p) == Plan(jobs[p].cmd)[jobs[p].at]
Doing(p, kind) == jobs[p].step = "ensure" /\ jobs[p].at <= Len(Plan(jobs[p].cmd))
                  /\ Item(p)[1] = kind

SkipSet(p) ==
    /\ Doing(p, "set") /\ Item(p)[2] \in jobs[p].seen
    /\ jobs' = [jobs EXCEPT ![p].at = @ + 1]
    /\ UNCHANGED <<databaseVars, onyxVars, faults, lost, together>>

\* A call is tried three times: after an error of the server, a timeout and a broken
\* connection, but not after a refused key.
AfterCall(p, outcome) ==
    CASE outcome = "done" -> [jobs[p] EXCEPT !.at = @ + 1, !.tries = 0]
      [] outcome \in {"lost", "failed"} /\ jobs[p].tries < 2 -> [jobs[p] EXCEPT !.tries = @ + 1]
      [] OTHER -> NoJob

CountFault(p, outcome, creates) ==
    /\ outcome # "done" => faults < MaxFaults
    /\ faults' = IF outcome = "done" THEN faults ELSE faults + 1
    /\ lost' = (lost \/ (outcome = "lost" /\ creates))

CreateSet(p, outcome) ==
    LET name == Item(p)[2]
    IN  /\ Doing(p, "set") /\ name \notin jobs[p].seen
        /\ docSets' = IF outcome \in {"done", "lost"} THEN [docSets EXCEPT ![name] = @ + 1]
                      ELSE docSets
        /\ jobs' = [jobs EXCEPT ![p] = AfterCall(p, outcome)]
        /\ CountFault(p, outcome, TRUE)
        /\ UNCHANGED <<databaseVars, personas, together>>

CreatePersona(p, outcome) ==
    LET s == Item(p)[2]
    IN  /\ Doing(p, "persona") /\ jobs[p].ids[s] = 0
        /\ personas' = IF outcome \in {"done", "lost"} THEN [personas EXCEPT ![s] = @ + 1]
                       ELSE personas
        /\ jobs' = [jobs EXCEPT ![p] =
               IF outcome = "done" THEN [AfterCall(p, outcome) EXCEPT !.ids[s] = personas'[s]]
               ELSE AfterCall(p, outcome)]
        /\ CountFault(p, outcome, TRUE)
        /\ UNCHANGED <<databaseVars, docSets, together>>

UpdatePersona(p, outcome) ==
    /\ Doing(p, "persona") /\ jobs[p].ids[Item(p)[2]] # 0
    /\ jobs' = [jobs EXCEPT ![p] = AfterCall(p, outcome)]
    /\ CountFault(p, outcome, FALSE)
    /\ UNCHANGED <<databaseVars, onyxVars, together>>

\* The row is read again here, and an id that it has already is not written.
LinkSkill(p) ==
    LET s == Item(p)[2]
    IN  /\ Doing(p, "link")
        /\ jobs' = [jobs EXCEPT ![p].at = @ + 1,
                                ![p].drafts = IF s \notin prompted THEN @ \cup {s} ELSE @,
                                ![p].sends = IF jobs[p].ids[s] # linked[s] THEN @ \cup {s} ELSE @]
        /\ UNCHANGED <<databaseVars, onyxVars, faults, lost, together>>

-----------------------------------------------------------------------------
(* The prompts and the demo rows.                                          *)

LookAtPrompts(p) ==
    /\ jobs[p].step = "prompts"
    /\ jobs' = [jobs EXCEPT ![p].drafts = Skills \ prompted,
                            ![p].step = IF jobs[p].cmd = "demo" THEN "demo" ELSE "commit"]
    /\ UNCHANGED <<databaseVars, onyxVars, faults, lost, together>>

\* Bug: the demo outputs are not looked up by their labels.
LookAtTopic(p) ==
    /\ jobs[p].step = "demo"
    /\ jobs' = [jobs EXCEPT ![p].step = "commit", ![p].newTopic = (topic = "none"),
                            ![p].newDemo = TRUE]
    /\ UNCHANGED <<databaseVars, onyxVars, faults, lost, together>>

LookAtDemo(p) ==
    /\ jobs[p].step = "demo"
    /\ jobs' = [jobs EXCEPT ![p].step = "commit", ![p].newTopic = (topic = "none"),
                            ![p].newDemo = (demos = 0)]
    /\ UNCHANGED <<databaseVars, onyxVars, faults, lost, together>>

\* A skill has one active prompt, and the topics' ids are unique.
Collides(j) == \/ j.drafts \cap prompted # {}
               \/ j.newTopic /\ topic # "none"

AtEnd(p) == \/ jobs[p].step = "commit"
            \/ jobs[p].step = "ensure" /\ jobs[p].at > Len(Plan(jobs[p].cmd))

\* The topic, and the outputs with the feedback, the proposal and the schedule on them.
AddDemo(j) == /\ topic' = IF j.newTopic THEN "demo" ELSE topic
              /\ demos' = IF j.newDemo THEN demos + 1 ELSE demos

CommitSeed(p) ==
    LET j == jobs[p]
    IN  /\ AtEnd(p) /\ ~Collides(j)
        /\ linked' = [s \in Skills |-> IF s \in j.sends THEN j.ids[s] ELSE linked[s]]
        /\ prompted' = prompted \cup j.drafts
        /\ AddDemo(j)
        /\ EndJob(p)
        /\ UNCHANGED <<rows, golds, onyxVars, faults, lost, together>>

\* An insert conflicts with a row of another transaction: all is rolled back.
FailJob(p) ==
    /\ \/ jobs[p].step = "insert" /\ jobs[p].missing \cap rows # {}
       \/ AtEnd(p) /\ Collides(jobs[p])
    /\ EndJob(p)
    /\ UNCHANGED <<databaseVars, onyxVars, faults, lost, together>>

\* The process dies, or the list of Onyx cannot be read.
AbortJob(p) ==
    /\ jobs[p] # NoJob /\ faults < MaxFaults
    /\ EndJob(p)
    /\ faults' = faults + 1
    /\ UNCHANGED <<databaseVars, onyxVars, lost, together>>

-----------------------------------------------------------------------------
(* What the service does meanwhile.                                        *)

GrowGold(s) ==
    /\ s \in prompted /\ golds[s] < Minimum
    /\ golds' = [golds EXCEPT ![s] = @ + 1]
    /\ UNCHANGED <<jobs, rows, linked, prompted, demos, topic, onyxVars, faults, lost, together>>

CreateConsoleTopic ==
    /\ topic = "none"
    /\ topic' = "user"
    /\ UNCHANGED <<jobs, rows, linked, prompted, golds, demos, onyxVars, faults, lost, together>>

Commands == {"seed", "local", "demo", "docsets"}
SeedOutcomes == {"done", "lost", "failed", "denied"}

Seed == \/ \E p \in Seeders : \E cmd \in Commands : Start(p, cmd)
        \/ \E p \in Seeders :
             \/ LookAtSkills(p) \/ CommitSkills(p) \/ CheckCoverage(p) \/ ListOnyx(p)
             \/ SkipSet(p) \/ LinkSkill(p) \/ LookAtPrompts(p) \/ LookAtDemo(p)
             \/ CommitSeed(p) \/ FailJob(p) \/ AbortJob(p)
        \/ \E p \in Seeders : \E outcome \in SeedOutcomes :
             CreateSet(p, outcome) \/ CreatePersona(p, outcome) \/ UpdatePersona(p, outcome)
        \/ \E s \in Skills : GrowGold(s)
        \/ CreateConsoleTopic

SeedSpec == InitSeed /\ [][Seed]_seedVars

-----------------------------------------------------------------------------
Job == [cmd : Commands \cup {"none"},
        step : {"none", "skills", "insert", "coverage", "list", "ensure", "prompts", "demo",
                "commit"},
        missing : SUBSET Skills, seen : SUBSET SetNames, ids : [Skills -> Copies],
        at : 1..Len(Plan("seed")) + 1, tries : 0..2, drafts : SUBSET Skills,
        sends : SUBSET Skills, newTopic : BOOLEAN, newDemo : BOOLEAN]

\* Every variable has its type.
SeedTypeOK ==
    /\ jobs \in [Seeders -> Job] /\ rows \in SUBSET Skills
    /\ linked \in [Skills -> Copies] /\ prompted \in SUBSET Skills
    /\ golds \in [Skills -> 0..Minimum] /\ demos \in Copies
    /\ topic \in {"none", "demo", "user"}
    /\ docSets \in [SetNames -> Copies] /\ personas \in [Skills -> Copies]
    /\ faults \in 0..FaultsAlone
    /\ lost \in BOOLEAN /\ together \in BOOLEAN

\* A skill whose row names a persona can generate: the persona and the document set exist in
\* Onyx and the skill has an active prompt, wherever a command died.
LinkedSkillsCanGenerate ==
    \A s \in Skills : linked[s] # 0 =>
        s \in rows /\ linked[s] <= personas[s] /\ docSets[s] > 0 /\ s \in prompted

\* Commands that run one at a time and lose no answer leave one persona and one document set
\* per name, though they are run again and die between a create and the commit.
OnePersonaPerSkill ==
    ~together /\ ~lost => /\ \A s \in Skills : personas[s] <= 1
                          /\ \A n \in SetNames : docSets[n] <= 1

\* The demo rows are there once, even after overlapping runs: the first to insert the topic
\* keeps the others out.  Only a topic that a user made before opens the way.
DemoSeededOnce == topic # "user" \/ ~together => demos <= 1
=============================================================================
