--------------------------- MODULE OnyxSeeding_proofs ---------------------------
(***************************************************************************)
(* Theorems of OnyxSeeding, for any number of processes, skills and        *)
(* document sets and any bounds on the faults.                             *)
(***************************************************************************)
EXTENDS OnyxSeeding, FiniteSetTheorems, TLAPS

\* A job; what it counts has no bound here.
JobRow == [cmd : Commands \cup {"none"},
           step : {"none", "skills", "insert", "coverage", "list", "ensure", "prompts", "demo",
                   "commit"},
           missing : SUBSET Skills, seen : SUBSET SetNames, ids : [Skills -> Nat],
           at : Nat \ {0}, tries : 0..2, drafts : SUBSET Skills,
           sends : SUBSET Skills, newTopic : BOOLEAN, newDemo : BOOLEAN]

\* A process with no job is at no step; as long as commands have run one at a time, one
\* process has a job.
Shapes ==
    /\ jobs \in [Seeders -> JobRow] /\ rows \in SUBSET Skills
    /\ linked \in [Skills -> Nat] /\ prompted \in SUBSET Skills
    /\ docSets \in [SetNames -> Nat] /\ personas \in [Skills -> Nat] /\ demos \in Nat
    /\ topic \in {"none", "demo", "user"} /\ lost \in BOOLEAN /\ together \in BOOLEAN
    /\ ~together => \A p, q \in Seeders : jobs[p] # NoJob /\ jobs[q] # NoJob => p = q

-----------------------------------------------------------------------------
(* The plan of a command.                                                  *)

LEMMA PlanType ==
    ASSUME NEW cmd
    PROVE  /\ Len(Plan(cmd)) \in Nat /\ DOMAIN Plan(cmd) = 1..Len(Plan(cmd))
           /\ Len(Plan(cmd)) = Len(ConnectorSets)
                                 + (IF cmd = "seed" THEN 3 * Len(SkillOrder) ELSE 0)
           /\ \A i \in 1..Len(ConnectorSets) : Plan(cmd)[i] = <<"set", ConnectorSets[i]>>
           /\ cmd = "seed" => \A k \in 1..Len(SkillOrder), d \in 1..3 :
                 Plan(cmd)[Len(ConnectorSets) + 3 * (k - 1) + d]
                   = << <<"set", "persona", "link">>[d], SkillOrder[k] >>
<1> DEFINE sets == Len(ConnectorSets)
           length == sets + (IF cmd = "seed" THEN 3 * Len(SkillOrder) ELSE 0)
           item(i) == IF i <= sets THEN <<"set", ConnectorSets[i]>>
                      ELSE << <<"set", "persona", "link">>[((i - sets - 1) % 3) + 1],
                              SkillOrder[((i - sets - 1) \div 3) + 1] >>
<1>1. sets \in Nat /\ Len(SkillOrder) \in Nat
  BY OrdersAreSequences
<1>2. length \in Nat
  BY <1>1
<1>3. Plan(cmd) = [i \in 1..length |-> item(i)]
  BY DEF Plan
<1> HIDE DEF length, item, sets
<1>4. Len(Plan(cmd)) = length /\ DOMAIN Plan(cmd) = 1..length
  BY <1>2, <1>3
<1>5. \A i \in 1..length : Plan(cmd)[i] = item(i)
  BY <1>3
<1>6. \A i \in 1..sets : Plan(cmd)[i] = <<"set", ConnectorSets[i]>>
  <2>1. ASSUME NEW i \in 1..sets PROVE i \in 1..length /\ i <= sets
    BY <1>1 DEF length
  <2> QED BY <1>5, <2>1 DEF item
<1>7. ASSUME cmd = "seed", NEW k \in 1..Len(SkillOrder), NEW d \in 1..3
      PROVE  Plan(cmd)[sets + 3 * (k - 1) + d] = << <<"set", "persona", "link">>[d], SkillOrder[k] >>
  <2> DEFINE i == sets + 3 * (k - 1) + d
  <2>1. i \in 1..length /\ ~(i <= sets) /\ i - sets - 1 = 3 * (k - 1) + (d - 1)
    BY <1>1, <1>7 DEF length
  <2>2. (i - sets - 1) % 3 = d - 1 /\ (i - sets - 1) \div 3 = k - 1
    BY <2>1, <1>1
  <2>3. Plan(cmd)[i] = item(i)
    BY <1>5, <2>1
  <2> QED BY <2>1, <2>2, <2>3, <1>1 DEF item
<1> QED BY <1>2, <1>4, <1>6, <1>7 DEF length, sets

\* The work of a seeding: the connectors' sets, then a set, a persona and a link per skill.
LEMMA PlanItems ==
    ASSUME NEW cmd, NEW i \in 1..Len(Plan(cmd))
    PROVE  \/ \E j \in 1..Len(ConnectorSets) : i = j /\ Plan(cmd)[i] = <<"set", ConnectorSets[j]>>
           \/ \E k \in 1..Len(SkillOrder), d \in 1..3 :
                /\ i = Len(ConnectorSets) + 3 * (k - 1) + d
                /\ Plan(cmd)[i] = << <<"set", "persona", "link">>[d], SkillOrder[k] >>
<1> DEFINE sets == Len(ConnectorSets)
           h == i - sets - 1
<1>1. sets \in Nat /\ Len(SkillOrder) \in Nat
  BY OrdersAreSequences
<1>2. CASE i <= sets
  BY <1>1, <1>2, PlanType
<1>3. CASE i > sets
  <2>1. cmd = "seed" /\ i <= sets + 3 * Len(SkillOrder)
    BY <1>1, <1>3, PlanType
  <2>2. h \in Nat /\ h < 3 * Len(SkillOrder)
    BY <1>1, <1>3, <2>1, PlanType
  <2> DEFINE k == (h \div 3) + 1
             d == (h % 3) + 1
  <2>3. k \in 1..Len(SkillOrder) /\ d \in 1..3 /\ h = 3 * (k - 1) + (d - 1)
    BY <1>1, <2>2
  <2>4. i = sets + 3 * (k - 1) + d
    BY <1>1, <2>3
  <2>5. Plan(cmd)[sets + 3 * (k - 1) + d] = << <<"set", "persona", "link">>[d], SkillOrder[k] >>
    BY <2>1, <2>3, PlanType
  <2> HIDE DEF k, d
  <2> QED BY <2>3, <2>4, <2>5
<1> QED BY <1>1, <1>2, <1>3, PlanType

\* Only a seeding links skills.
LEMMA LinksAreSeeds ==
    ASSUME NEW cmd, NEW i \in 1..Len(Plan(cmd)), Plan(cmd)[i][1] = "link"
    PROVE  cmd = "seed"
<1> SUFFICES ASSUME cmd # "seed" PROVE FALSE
  OBVIOUS
<1>1. Len(ConnectorSets) \in Nat /\ Len(SkillOrder) \in Nat
  BY OrdersAreSequences
<1>2. i \in 1..Len(ConnectorSets)
  BY <1>1, PlanType
<1>3. Plan(cmd)[i] = <<"set", ConnectorSets[i]>>
  BY <1>2, PlanType
<1> QED BY <1>3

LEMMA ItemType ==
    ASSUME NEW cmd, NEW i \in 1..Len(Plan(cmd))
    PROVE  /\ Plan(cmd)[i] = <<Plan(cmd)[i][1], Plan(cmd)[i][2]>>
           /\ Plan(cmd)[i][1] \in {"set", "persona", "link"} /\ Plan(cmd)[i][2] \in SetNames
           /\ Plan(cmd)[i][1] # "set" => Plan(cmd)[i][2] \in Skills
<1>1. CASE \E j \in 1..Len(ConnectorSets) : Plan(cmd)[i] = <<"set", ConnectorSets[j]>>
  <2>1. PICK j \in 1..Len(ConnectorSets) : Plan(cmd)[i] = <<"set", ConnectorSets[j]>>
    BY <1>1
  <2>2. ConnectorSets[j] \in Range(ConnectorSets)
    BY OrdersAreSequences DEF Range
  <2> QED BY <2>1, <2>2 DEF SetNames
<1>2. CASE \E k \in 1..Len(SkillOrder), d \in 1..3 :
              Plan(cmd)[i] = << <<"set", "persona", "link">>[d], SkillOrder[k] >>
  <2>1. PICK k \in 1..Len(SkillOrder), d \in 1..3 :
              Plan(cmd)[i] = << <<"set", "persona", "link">>[d], SkillOrder[k] >>
    BY <1>2
  <2>2. SkillOrder[k] \in Skills
    BY OrdersAreSequences DEF Range, Skills
  <2>3. d = 1 \/ d = 2 \/ d = 3
    OBVIOUS
  <2> QED BY <2>1, <2>2, <2>3 DEF SetNames
<1> QED BY <1>1, <1>2, PlanItems

\* Where a document set stands in a plan.
LEMMA SetItems ==
    ASSUME NEW cmd, NEW i \in 1..Len(Plan(cmd)), Plan(cmd)[i][1] = "set"
    PROVE  \/ \E a \in 1..Len(ConnectorSets) : i = a /\ Plan(cmd)[i] = <<"set", ConnectorSets[a]>>
           \/ \E a \in 1..Len(SkillOrder) : i = Len(ConnectorSets) + 3 * (a - 1) + 1
                                            /\ Plan(cmd)[i] = <<"set", SkillOrder[a]>>
<1>1. CASE \E a \in 1..Len(ConnectorSets) : i = a /\ Plan(cmd)[i] = <<"set", ConnectorSets[a]>>
  BY <1>1
<1>2. CASE \E k \in 1..Len(SkillOrder), d \in 1..3 :
              /\ i = Len(ConnectorSets) + 3 * (k - 1) + d
              /\ Plan(cmd)[i] = << <<"set", "persona", "link">>[d], SkillOrder[k] >>
  <2>1. PICK k \in 1..Len(SkillOrder), d \in 1..3 :
              /\ i = Len(ConnectorSets) + 3 * (k - 1) + d
              /\ Plan(cmd)[i] = << <<"set", "persona", "link">>[d], SkillOrder[k] >>
    BY <1>2
  <2>2. <<"set", "persona", "link">>[d] = "set"
    BY <2>1
  <2>3. d = 1
    <3>1. d = 1 \/ d = 2 \/ d = 3
      OBVIOUS
    <3> QED BY <2>2, <3>1
  <2> QED BY <2>1, <2>3
<1> QED BY <1>1, <1>2, PlanItems

\* A document set is ensured once.
LEMMA SetsAreDistinct ==
    ASSUME NEW cmd, NEW i \in 1..Len(Plan(cmd)), NEW j \in 1..Len(Plan(cmd)),
           Plan(cmd)[i][1] = "set", Plan(cmd)[j] = Plan(cmd)[i]
    PROVE  i = j
<1>1. /\ \A a, b \in 1..Len(SkillOrder) : SkillOrder[a] = SkillOrder[b] => a = b
      /\ \A a, b \in 1..Len(ConnectorSets) : ConnectorSets[a] = ConnectorSets[b] => a = b
      /\ \A a \in 1..Len(SkillOrder), b \in 1..Len(ConnectorSets) :
            SkillOrder[a] # ConnectorSets[b]
      /\ Len(ConnectorSets) \in Nat
  <2>1. DOMAIN SkillOrder = 1..Len(SkillOrder) /\ DOMAIN ConnectorSets = 1..Len(ConnectorSets)
        /\ Len(ConnectorSets) \in Nat
    BY OrdersAreSequences
  <2>2. IsInjective(SkillOrder) /\ IsInjective(ConnectorSets)
        /\ \A x \in Range(SkillOrder), y \in Range(ConnectorSets) : x # y
    BY NamesAreDistinct DEF Skills
  <2>3. \A a \in 1..Len(SkillOrder), b \in 1..Len(ConnectorSets) :
           SkillOrder[a] # ConnectorSets[b]
    BY <2>1, <2>2 DEF Range
  <2> QED BY <2>1, <2>2, <2>3 DEF IsInjective
<1>2. \/ \E a \in 1..Len(ConnectorSets) : i = a /\ Plan(cmd)[i] = <<"set", ConnectorSets[a]>>
      \/ \E a \in 1..Len(SkillOrder) : i = Len(ConnectorSets) + 3 * (a - 1) + 1
                                       /\ Plan(cmd)[i] = <<"set", SkillOrder[a]>>
  BY SetItems
<1>3. \/ \E b \in 1..Len(ConnectorSets) : j = b /\ Plan(cmd)[j] = <<"set", ConnectorSets[b]>>
      \/ \E b \in 1..Len(SkillOrder) : j = Len(ConnectorSets) + 3 * (b - 1) + 1
                                       /\ Plan(cmd)[j] = <<"set", SkillOrder[b]>>
  BY SetItems
<1> QED BY <1>1, <1>2, <1>3

\* Every skill has its set and its link in the plan of a seeding.
LEMMA PlanIsComplete ==
    ASSUME NEW cmd, cmd = "seed", NEW s \in Skills
    PROVE  \E i, j \in 1..Len(Plan(cmd)) : /\ Plan(cmd)[i] = <<"set", s>>
                                           /\ Plan(cmd)[j] = <<"link", s>>
<1>1. PICK k \in 1..Len(SkillOrder) : s = SkillOrder[k]
  BY OrdersAreSequences DEF Skills, Range
<1>2. Len(SkillOrder) \in Nat /\ Len(ConnectorSets) \in Nat
  BY OrdersAreSequences
<1> DEFINE base == Len(ConnectorSets) + 3 * (k - 1)
<1>3. base + 1 \in 1..Len(Plan(cmd)) /\ base + 3 \in 1..Len(Plan(cmd))
  BY <1>2, PlanType
<1>4. Plan(cmd)[base + 1] = <<"set", s>> /\ Plan(cmd)[base + 3] = <<"link", s>>
  BY <1>1, PlanType
<1> QED BY <1>3, <1>4

-----------------------------------------------------------------------------
(* What a job may rely on.                                                 *)

\* The items of its plan that a job is done with.
Past(j) == {k \in 1..Len(Plan(j.cmd)) : k < j.at}

\* A job that adds the demo outputs adds the topic too, unless a user's topic is there; one
\* that works alone adds them only if there are none.
DemoOK(j) == /\ j.newTopic => j.newDemo
             /\ topic # "user" /\ j.newDemo => j.newTopic
             /\ ~together /\ j.newDemo => demos = 0

\* What a seeding has put behind it exists, and goes on existing.
LinkOK(j) ==
    /\ j.step # "ensure" => j.at = 1
    /\ j.step = "insert" => Skills \subseteq rows \cup j.missing
    /\ j.cmd = "seed" /\ j.step \in {"coverage", "list", "ensure"} => Skills \subseteq rows
    /\ j.cmd = "seed" => j.step \notin {"prompts", "demo", "commit"}
    /\ j.cmd # "seed" => j.sends = {}
    /\ j.step = "ensure" =>
         /\ \A n \in j.seen : docSets[n] > 0
         /\ \A s \in Skills : j.ids[s] <= personas[s]
         /\ \A k \in Past(j) :
              /\ Plan(j.cmd)[k][1] = "set" => docSets[Plan(j.cmd)[k][2]] > 0
              /\ Plan(j.cmd)[k][1] = "link" => Plan(j.cmd)[k][2] \in prompted \cup j.drafts

\* As long as commands run one at a time and no answer got lost: what exists in Onyx has been
\* listed by the job, or made by it.
OnceOK(j) ==
    ~together /\ ~lost /\ j.step = "ensure" =>
      /\ \A s \in Skills : j.ids[s] = 0 => personas[s] = 0
      /\ \A n \in SetNames \ j.seen : docSets[n] > 0 =>
           \E k \in Past(j) : Plan(j.cmd)[k] = <<"set", n>>

JobOK(j) == DemoOK(j) /\ LinkOK(j) /\ OnceOK(j)

\* Until a user makes the topic, the demo outputs are there exactly with it.
DemoState == /\ topic = "none" => demos = 0
             /\ topic = "demo" => demos = 1
             /\ ~together => demos <= 1

JobsOK == \A p \in Seeders : JobOK(jobs[p])

SeedInv == /\ Shapes /\ DemoState /\ LinkedSkillsCanGenerate /\ OnePersonaPerSkill
           /\ JobsOK

-----------------------------------------------------------------------------
LEMMA NoJobType ==
    /\ NoJob \in JobRow /\ NoJob.step = "none" /\ NoJob.cmd = "none" /\ NoJob.at = 1
    /\ NoJob.missing = {} /\ NoJob.seen = {} /\ NoJob.drafts = {} /\ NoJob.sends = {}
    /\ NoJob.tries = 0
    /\ NoJob.newTopic = FALSE /\ NoJob.newDemo = FALSE
BY DEF NoJob, JobRow

LEMMA NoJobOK == JobOK(NoJob)
BY NoJobType DEF JobOK, DemoOK, LinkOK, OnceOK

\* Job p is replaced by x.
Acts(p, x) == /\ jobs[p] # NoJob /\ x \in JobRow
              /\ jobs' = [jobs EXCEPT ![p] = x] /\ together' = together

LEMMA ActsShape ==
    ASSUME Shapes, NEW p \in Seeders, NEW x, Acts(p, x)
    PROVE  /\ jobs' \in [Seeders -> JobRow] /\ jobs'[p] = x
           /\ \A q \in Seeders \ {p} : jobs'[q] = jobs[q]
           /\ ~together => \A q \in Seeders \ {p} : jobs'[q] = NoJob
           /\ ~together' => \A q, r \in Seeders : jobs'[q] # NoJob /\ jobs'[r] # NoJob => q = r
<1>1. /\ jobs' \in [Seeders -> JobRow] /\ jobs'[p] = x
      /\ \A q \in Seeders \ {p} : jobs'[q] = jobs[q]
  BY DEF Shapes, Acts
<1>2. ~together => \A q \in Seeders \ {p} : jobs'[q] = NoJob
  BY <1>1 DEF Shapes, Acts
<1> QED BY <1>1, <1>2 DEF Acts

LEMMA JobBecomes ==
    ASSUME NEW q \in Seeders, NEW j, jobs'[q] = j, JobOK(j)' PROVE JobOK(jobs[q])'
<1>1. DemoOK(jobs[q])'
  BY DEF JobOK, DemoOK
<1>2. LinkOK(jobs[q])'
  BY DEF JobOK, LinkOK, Past
<1>3. OnceOK(jobs[q])'
  BY DEF JobOK, OnceOK, Past
<1> QED BY <1>1, <1>2, <1>3 DEF JobOK

\* Rows, prompts, document sets and personas are only added.
LEMMA LinkStays ==
    ASSUME Shapes, NEW j \in JobRow, LinkOK(j),
           rows \subseteq rows', prompted \subseteq prompted',
           docSets' \in [SetNames -> Nat], personas' \in [Skills -> Nat],
           \A n \in SetNames : docSets[n] <= docSets'[n],
           \A s \in Skills : personas[s] <= personas'[s]
    PROVE  LinkOK(j)'
<1>1. ASSUME j.step = "ensure"
      PROVE  /\ \A n \in j.seen : docSets'[n] > 0
             /\ \A s \in Skills : j.ids[s] <= personas'[s]
  <2>1. j.seen \subseteq SetNames /\ j.ids \in [Skills -> Nat]
    BY DEF JobRow
  <2>2. \A n \in j.seen : docSets[n] > 0
    BY <1>1 DEF LinkOK
  <2>3. \A s \in Skills : j.ids[s] <= personas[s]
    BY <1>1 DEF LinkOK
  <2>4. docSets \in [SetNames -> Nat] /\ personas \in [Skills -> Nat]
    BY DEF Shapes
  <2>5. \A n \in j.seen : docSets'[n] > 0
    BY <2>1, <2>2, <2>4
  <2>6. \A s \in Skills : j.ids[s] <= personas'[s]
    BY <2>1, <2>3, <2>4
  <2> QED BY <2>5, <2>6
<1>2. ASSUME j.step = "ensure", NEW k \in Past(j)
      PROVE  /\ Plan(j.cmd)[k][1] = "set" => docSets'[Plan(j.cmd)[k][2]] > 0
             /\ Plan(j.cmd)[k][1] = "link" => Plan(j.cmd)[k][2] \in prompted' \cup j.drafts
  <2>1. Plan(j.cmd)[k][2] \in SetNames
    BY <1>2, ItemType DEF Past
  <2>2. /\ Plan(j.cmd)[k][1] = "set" => docSets[Plan(j.cmd)[k][2]] > 0
        /\ Plan(j.cmd)[k][1] = "link" => Plan(j.cmd)[k][2] \in prompted \cup j.drafts
    BY <1>2 DEF LinkOK
  <2>3. docSets \in [SetNames -> Nat]
    BY DEF Shapes
  <2> QED BY <2>1, <2>2, <2>3
<1>3. /\ j.step # "ensure" => j.at = 1
      /\ j.step = "insert" => Skills \subseteq rows' \cup j.missing
      /\ j.cmd = "seed" /\ j.step \in {"coverage", "list", "ensure"} => Skills \subseteq rows'
      /\ j.cmd = "seed" => j.step \notin {"prompts", "demo", "commit"}
      /\ j.cmd # "seed" => j.sends = {}
  BY DEF LinkOK
<1>4. Past(j)' = Past(j)
  BY DEF Past
<1> QED BY <1>1, <1>2, <1>3, <1>4 DEF LinkOK

\* What other jobs rely on stays true: rows are only added, a topic is never taken back, and
\* a job that works alone has no other beside it.
LEMMA JobsKeep ==
    ASSUME SeedInv, NEW p \in Seeders, NEW x, Acts(p, x), JobOK(x)',
           rows \subseteq rows', prompted \subseteq prompted', topic = "user" => topic' = "user",
           lost => lost',
           docSets' \in [SetNames -> Nat], personas' \in [Skills -> Nat],
           \A n \in SetNames : docSets[n] <= docSets'[n],
           \A s \in Skills : personas[s] <= personas'[s]
    PROVE  JobsOK'
<1>1. Shapes
  BY DEF SeedInv
<1>2. CASE ~together
  <2>1. \A q \in Seeders : jobs'[q] = x \/ jobs'[q] = NoJob
    BY <1>1, <1>2, ActsShape
  <2>2. JobOK(NoJob)'
    BY NoJobType DEF JobOK, DemoOK, LinkOK, OnceOK
  <2>3. ASSUME NEW q \in Seeders PROVE JobOK(jobs[q])'
    BY <2>1, <2>2, JobBecomes
  <2> QED BY <2>3 DEF JobsOK
<1>3. CASE together
  <2>1. together'
    BY <1>3 DEF Acts
  <2> SUFFICES ASSUME NEW q \in Seeders, q # p PROVE JobOK(jobs[q])'
    BY <1>1, ActsShape, JobBecomes DEF JobsOK
  <2>0. PICK j : j = jobs[q]
    OBVIOUS
  <2>2. jobs'[q] = j /\ j \in JobRow /\ JobOK(j)
    BY <1>1, <2>0, ActsShape DEF SeedInv, JobsOK, Shapes
  <2>3. DemoOK(j)'
    BY <2>1, <2>2, <1>1 DEF JobOK, DemoOK, Shapes
  <2>4. OnceOK(j)'
    BY <2>1 DEF OnceOK
  <2>5. LinkOK(j)'
    BY <1>1, <2>2, LinkStays DEF JobOK
  <2>6. JobOK(j)'
    BY <2>3, <2>4, <2>5 DEF JobOK
  <2> QED BY <2>2, <2>6, JobBecomes
<1> QED BY <1>2, <1>3, <1>1 DEF Shapes, JobsOK

\* A step that changes only the job.
LEMMA QuietStep ==
    ASSUME SeedInv, NEW p \in Seeders, NEW x, Acts(p, x), JobOK(x),
           UNCHANGED <<rows, linked, prompted, demos, topic, docSets, personas, lost>>
    PROVE  SeedInv'
<1>1. Shapes /\ together' = together
  BY DEF SeedInv, Acts
<1>2. JobOK(x)'
  BY <1>1 DEF JobOK, DemoOK, LinkOK, OnceOK, Past
<1>3. docSets \in [SetNames -> Nat] /\ personas \in [Skills -> Nat]
  BY <1>1 DEF Shapes
<1>4. JobsOK'
  BY <1>2, <1>3, JobsKeep
<1>5. Shapes'
  BY <1>1, ActsShape DEF Shapes
<1>6. DemoState' /\ LinkedSkillsCanGenerate' /\ OnePersonaPerSkill'
  BY <1>1 DEF SeedInv, DemoState, LinkedSkillsCanGenerate, OnePersonaPerSkill
<1> QED BY <1>4, <1>5, <1>6 DEF SeedInv

\* A command that ends, refused or dead, leaves nothing of its transaction.
LEMMA EndStep ==
    ASSUME SeedInv, NEW p \in Seeders, jobs[p] # NoJob, EndJob(p),
           UNCHANGED <<rows, linked, prompted, demos, topic, docSets, personas, lost, together>>
    PROVE  SeedInv'
<1>1. Acts(p, NoJob)
  BY NoJobType DEF Acts, EndJob
<1> QED BY <1>1, NoJobOK, QuietStep

-----------------------------------------------------------------------------
LEMMA InitSeedInv == InitSeed => SeedInv
<1> SUFFICES ASSUME InitSeed PROVE SeedInv
  OBVIOUS
<1>1. Shapes
  BY NoJobType DEF InitSeed, Shapes
<1>2. DemoState /\ LinkedSkillsCanGenerate /\ OnePersonaPerSkill
  BY DEF InitSeed, DemoState, LinkedSkillsCanGenerate, OnePersonaPerSkill
<1>3. JobsOK
  BY NoJobOK DEF InitSeed, JobsOK
<1> QED BY <1>1, <1>2, <1>3 DEF SeedInv

\* The job of p, and what the invariant says of it.
LEMMA JobFacts ==
    ASSUME SeedInv, NEW p \in Seeders
    PROVE  /\ jobs \in [Seeders -> JobRow] /\ jobs[p] \in JobRow /\ JobOK(jobs[p])
           /\ jobs[p].step # "none" => jobs[p] # NoJob
BY NoJobType DEF SeedInv, Shapes, JobsOK

LEMMA StartKeeps ==
    ASSUME SeedInv, NEW p \in Seeders, NEW cmd \in Commands, Start(p, cmd) PROVE SeedInv'
<1>1. PICK x : x = [NoJob EXCEPT !.cmd = cmd, !.step = IF cmd = "docsets" THEN "list" ELSE "skills"]
  OBVIOUS
<1>2. /\ jobs[p] = NoJob /\ jobs' = [jobs EXCEPT ![p] = x]
      /\ together' = (together \/ Others(p))
      /\ UNCHANGED <<rows, linked, prompted, demos, topic, docSets, personas, lost>>
  BY <1>1 DEF Start, databaseVars, onyxVars
<1>3. /\ x \in JobRow /\ x.cmd = cmd /\ x.at = 1 /\ x.step \in {"list", "skills"}
      /\ cmd = "seed" => x.step = "skills"
      /\ x.newTopic = FALSE /\ x.newDemo = FALSE /\ x.sends = {}
  BY <1>1, NoJobType DEF JobRow
<1>4. jobs' \in [Seeders -> JobRow] /\ jobs'[p] = x
      /\ \A q \in Seeders \ {p} : jobs'[q] = jobs[q]
  BY <1>2, <1>3 DEF SeedInv, Shapes
<1>5. together' \in BOOLEAN /\ (~together' => ~together)
      /\ (~together' => \A q, r \in Seeders : jobs'[q] # NoJob /\ jobs'[r] # NoJob => q = r)
  BY <1>2, <1>4 DEF Others, SeedInv, Shapes
<1>6. Shapes'
  BY <1>2, <1>4, <1>5 DEF SeedInv, Shapes
<1>7. DemoState' /\ LinkedSkillsCanGenerate' /\ OnePersonaPerSkill'
  BY <1>2, <1>5 DEF SeedInv, DemoState, LinkedSkillsCanGenerate, OnePersonaPerSkill
<1>8. ASSUME NEW q \in Seeders PROVE JobOK(jobs[q])'
  <2>1. CASE q = p
    <3>1. JobOK(x)'
      BY <1>3 DEF JobOK, DemoOK, LinkOK, OnceOK
    <3> QED BY <2>1, <3>1, <1>4, JobBecomes
  <2>2. CASE q # p
    <3>0. PICK j : j = jobs[q]
      OBVIOUS
    <3>1. jobs'[q] = j /\ JobOK(j)
      BY <2>2, <3>0, <1>4 DEF SeedInv, JobsOK
    <3>2. DemoOK(j)'
      BY <3>1, <1>2, <1>5 DEF JobOK, DemoOK
    <3>3. LinkOK(j)'
      BY <3>1, <1>2 DEF JobOK, LinkOK, Past
    <3>4. OnceOK(j)'
      BY <3>1, <1>2, <1>5 DEF JobOK, OnceOK, Past
    <3>5. JobOK(j)'
      BY <3>2, <3>3, <3>4 DEF JobOK
    <3> QED BY <3>1, <3>5, JobBecomes
  <2> QED BY <2>1, <2>2
<1> QED BY <1>6, <1>7, <1>8 DEF SeedInv, JobsOK

-----------------------------------------------------------------------------
LEMMA LookAtSkillsKeeps == ASSUME SeedInv, NEW p \in Seeders, LookAtSkills(p) PROVE SeedInv'
<1>1. PICK x : x = [jobs[p] EXCEPT !.step = "insert", !.missing = Skills \ rows]
  OBVIOUS
<1>2. /\ jobs[p].step = "skills" /\ jobs' = [jobs EXCEPT ![p] = x] /\ together' = together
      /\ UNCHANGED <<rows, linked, prompted, demos, topic, docSets, personas, lost>>
  BY <1>1, JobFacts DEF LookAtSkills, databaseVars, onyxVars, JobRow
<1>3. /\ x \in JobRow /\ x.step = "insert" /\ x.missing = Skills \ rows /\ x.at = jobs[p].at
      /\ x.cmd = jobs[p].cmd
      /\ x.newTopic = jobs[p].newTopic /\ x.newDemo = jobs[p].newDemo /\ x.sends = jobs[p].sends
  BY <1>1, JobFacts DEF JobRow
<1>4. Acts(p, x)
  BY <1>2, <1>3, JobFacts DEF Acts
<1>5. JobOK(x)
  BY <1>2, <1>3, JobFacts DEF JobOK, DemoOK, LinkOK, OnceOK
<1> QED BY <1>2, <1>4, <1>5, QuietStep

LEMMA CommitSkillsKeeps == ASSUME SeedInv, NEW p \in Seeders, CommitSkills(p) PROVE SeedInv'
<1>1. PICK x : x = [jobs[p] EXCEPT !.missing = {},
                                   !.step = IF jobs[p].cmd = "seed" THEN "coverage" ELSE "prompts"]
  OBVIOUS
<1>2. /\ jobs[p].step = "insert" /\ jobs' = [jobs EXCEPT ![p] = x] /\ together' = together
      /\ rows' = rows \cup jobs[p].missing
      /\ UNCHANGED <<linked, prompted, demos, topic, docSets, personas, lost>>
  BY <1>1, JobFacts DEF CommitSkills, onyxVars, JobRow
<1>3. /\ x \in JobRow /\ x.cmd = jobs[p].cmd /\ x.at = jobs[p].at
      /\ x.newTopic = jobs[p].newTopic /\ x.newDemo = jobs[p].newDemo /\ x.sends = jobs[p].sends
      /\ x.step = (IF jobs[p].cmd = "seed" THEN "coverage" ELSE "prompts")
  BY <1>1, JobFacts DEF JobRow
<1>4. Acts(p, x)
  BY <1>2, <1>3, JobFacts DEF Acts
<1>5. rows' \in SUBSET Skills
  BY <1>2, JobFacts DEF SeedInv, Shapes, JobRow
<1>6. Skills \subseteq rows'
  BY <1>2, JobFacts DEF JobOK, LinkOK
<1>7. JobOK(x)'
  <2>1. DemoOK(x)' /\ x.at = 1
    BY <1>2, <1>3, JobFacts DEF JobOK, DemoOK, LinkOK
  <2>2. LinkOK(x)' /\ OnceOK(x)'
    BY <1>3, <1>6, <2>1, JobFacts DEF JobOK, LinkOK, OnceOK
  <2> QED BY <2>1, <2>2 DEF JobOK
<1>8. Shapes /\ docSets \in [SetNames -> Nat] /\ personas \in [Skills -> Nat]
  BY DEF SeedInv, Shapes
<1>9. JobsOK'
  BY <1>2, <1>4, <1>7, <1>8, JobsKeep
<1>10. Shapes'
  BY <1>2, <1>4, <1>5, <1>8, ActsShape DEF Shapes
<1>11. DemoState' /\ LinkedSkillsCanGenerate' /\ OnePersonaPerSkill'
  BY <1>2 DEF SeedInv, DemoState, LinkedSkillsCanGenerate, OnePersonaPerSkill
<1> QED BY <1>9, <1>10, <1>11 DEF SeedInv

LEMMA CheckCoverageKeeps == ASSUME SeedInv, NEW p \in Seeders, CheckCoverage(p) PROVE SeedInv'
<1>1. /\ jobs[p].step = "coverage" /\ together' = together /\ (Goto(p, "list") \/ EndJob(p))
      /\ UNCHANGED <<rows, linked, prompted, demos, topic, docSets, personas, lost>>
  BY DEF CheckCoverage, databaseVars, onyxVars
<1>2. CASE EndJob(p)
  BY <1>1, <1>2, JobFacts, EndStep
<1>3. CASE Goto(p, "list")
  <2>1. PICK x : x = [jobs[p] EXCEPT !.step = "list"]
    OBVIOUS
  <2>2. jobs' = [jobs EXCEPT ![p] = x]
    BY <1>3, <2>1 DEF Goto
  <2>3. /\ x \in JobRow /\ x.step = "list" /\ x.cmd = jobs[p].cmd /\ x.at = jobs[p].at
        /\ x.newTopic = jobs[p].newTopic /\ x.newDemo = jobs[p].newDemo /\ x.sends = jobs[p].sends
    BY <2>1, JobFacts DEF JobRow
  <2>4. Acts(p, x)
    BY <1>1, <2>2, <2>3, JobFacts DEF Acts
  <2>5. JobOK(x)
    BY <1>1, <2>3, JobFacts DEF JobOK, DemoOK, LinkOK, OnceOK
  <2> QED BY <1>1, <2>4, <2>5, QuietStep
<1> QED BY <1>1, <1>2, <1>3

LEMMA ListOnyxKeeps == ASSUME SeedInv, NEW p \in Seeders, ListOnyx(p) PROVE SeedInv'
<1> DEFINE seen == {n \in SetNames : docSets[n] > 0}
<1>1. PICK ids \in [Skills -> Copies] :
         /\ \A s \in Skills : IF personas[s] = 0 THEN ids[s] = 0 ELSE ids[s] \in 1..personas[s]
         /\ jobs' = [jobs EXCEPT ![p].step = "ensure", ![p].ids = ids, ![p].seen = seen]
  BY DEF ListOnyx
<1>2. /\ jobs[p].step = "list" /\ together' = together
      /\ UNCHANGED <<rows, linked, prompted, demos, topic, docSets, personas, lost>>
  BY DEF ListOnyx, databaseVars, onyxVars
<1>3. seen \in SUBSET SetNames /\ (\A n \in seen : docSets[n] > 0)
      /\ \A n \in SetNames \ seen : ~(docSets[n] > 0)
  OBVIOUS
<1>4. personas \in [Skills -> Nat] /\ ids \in [Skills -> Nat]
      /\ \A s \in Skills : ids[s] <= personas[s] /\ (ids[s] = 0 => personas[s] = 0)
  <2>1. personas \in [Skills -> Nat]
    BY DEF SeedInv, Shapes
  <2>2. ASSUME NEW s \in Skills
        PROVE  ids[s] \in Nat /\ ids[s] <= personas[s] /\ (ids[s] = 0 => personas[s] = 0)
    BY <1>1, <2>1
  <2> QED BY <2>1, <2>2
<1> HIDE DEF seen
<1>5. PICK x : x = [jobs[p] EXCEPT !.step = "ensure", !.ids = ids, !.seen = seen]
  OBVIOUS
<1>6. jobs' = [jobs EXCEPT ![p] = x]
  BY <1>1, <1>5, JobFacts DEF JobRow
<1>7. /\ x \in JobRow /\ x.step = "ensure" /\ x.ids = ids /\ x.seen = seen
      /\ x.cmd = jobs[p].cmd /\ x.at = jobs[p].at
      /\ x.newTopic = jobs[p].newTopic /\ x.newDemo = jobs[p].newDemo /\ x.sends = jobs[p].sends
  BY <1>3, <1>4, <1>5, JobFacts DEF JobRow
<1>8. Acts(p, x)
  BY <1>2, <1>6, <1>7, JobFacts DEF Acts
<1>9. Past(x) = {}
  <2>1. x.at = 1
    BY <1>2, <1>7, JobFacts DEF JobOK, LinkOK
  <2> QED BY <2>1, PlanType DEF Past
<1>10. DemoOK(x)
  BY <1>7, JobFacts DEF JobOK, DemoOK
<1>11. LinkOK(x)
  BY <1>2, <1>3, <1>4, <1>7, <1>9, JobFacts DEF JobOK, LinkOK
<1>12. OnceOK(x)
  BY <1>3, <1>4, <1>7 DEF OnceOK
<1>13. JobOK(x)
  BY <1>10, <1>11, <1>12 DEF JobOK
<1> QED BY <1>2, <1>8, <1>13, QuietStep

\* What a job that goes on to the next item of its plan is done with.
LEMMA Advance ==
    ASSUME NEW j \in JobRow, NEW x \in JobRow, x.cmd = j.cmd, x.at = j.at + 1,
           j.at <= Len(Plan(j.cmd))
    PROVE  /\ Past(x) = Past(j) \cup {j.at} /\ j.at \in 1..Len(Plan(j.cmd))
           /\ Plan(x.cmd) = Plan(j.cmd)
<1>1. j.at \in Nat \ {0} /\ Len(Plan(j.cmd)) \in Nat
  BY PlanType DEF JobRow
<1> QED BY <1>1 DEF Past

LEMMA OnceAdvances ==
    ASSUME NEW j, NEW x, x.ids = j.ids, x.seen = j.seen, Past(j) \subseteq Past(x),
           Plan(x.cmd) = Plan(j.cmd), j.step = "ensure", OnceOK(j)
    PROVE  OnceOK(x)
<1> SUFFICES ASSUME ~together, ~lost PROVE OnceOK(x)
  BY DEF OnceOK
<1>1. \A s \in Skills : x.ids[s] = 0 => personas[s] = 0
  BY DEF OnceOK
<1>2. ASSUME NEW n \in SetNames \ x.seen, docSets[n] > 0
      PROVE  \E k \in Past(x) : Plan(x.cmd)[k] = <<"set", n>>
  <2>1. PICK k \in Past(j) : Plan(j.cmd)[k] = <<"set", n>>
    BY <1>2 DEF OnceOK
  <2> QED BY <2>1
<1> QED BY <1>1, <1>2 DEF OnceOK

LEMMA SkipSetKeeps == ASSUME SeedInv, NEW p \in Seeders, SkipSet(p) PROVE SeedInv'
<1>1. PICK x : x = [jobs[p] EXCEPT !.at = @ + 1]
  OBVIOUS
<1>2. /\ jobs[p].step = "ensure" /\ jobs[p].at <= Len(Plan(jobs[p].cmd))
      /\ Plan(jobs[p].cmd)[jobs[p].at][1] = "set"
      /\ Plan(jobs[p].cmd)[jobs[p].at][2] \in jobs[p].seen
      /\ jobs' = [jobs EXCEPT ![p] = x] /\ together' = together
      /\ UNCHANGED <<rows, linked, prompted, demos, topic, docSets, personas, lost>>
  BY <1>1, JobFacts DEF SkipSet, Doing, Item, databaseVars, onyxVars, JobRow
<1>3. /\ x \in JobRow /\ x.step = "ensure" /\ x.ids = jobs[p].ids /\ x.seen = jobs[p].seen
      /\ x.cmd = jobs[p].cmd /\ x.at = jobs[p].at + 1 /\ x.drafts = jobs[p].drafts
      /\ x.newTopic = jobs[p].newTopic /\ x.newDemo = jobs[p].newDemo /\ x.sends = jobs[p].sends
  <2>1. jobs[p].at + 1 \in Nat \ {0}
    BY JobFacts DEF JobRow
  <2> QED BY <1>1, <1>2, <2>1, JobFacts DEF JobRow
<1>4. Acts(p, x)
  BY <1>2, <1>3, JobFacts DEF Acts
<1>5. /\ Past(x) = Past(jobs[p]) \cup {jobs[p].at} /\ Plan(x.cmd) = Plan(jobs[p].cmd)
  BY <1>2, <1>3, JobFacts, Advance
<1>6. DemoOK(x)
  BY <1>3, JobFacts DEF JobOK, DemoOK
<1>7. LinkOK(x)
  BY <1>2, <1>3, <1>5, JobFacts DEF JobOK, LinkOK
<1>8. OnceOK(x)
  BY <1>2, <1>3, <1>5, JobFacts, OnceAdvances DEF JobOK
<1>9. JobOK(x)
  BY <1>6, <1>7, <1>8 DEF JobOK
<1> QED BY <1>2, <1>4, <1>9, QuietStep

LEMMA LinkSkillKeeps == ASSUME SeedInv, NEW p \in Seeders, LinkSkill(p) PROVE SeedInv'
<1> DEFINE s == Plan(jobs[p].cmd)[jobs[p].at][2]
           drafts == IF s \notin prompted THEN jobs[p].drafts \cup {s} ELSE jobs[p].drafts
           sends == IF jobs[p].ids[s] # linked[s] THEN jobs[p].sends \cup {s} ELSE jobs[p].sends
<1>1. PICK x : x = [jobs[p] EXCEPT !.at = @ + 1, !.drafts = drafts, !.sends = sends]
  OBVIOUS
<1>2. /\ jobs[p].step = "ensure" /\ jobs[p].at <= Len(Plan(jobs[p].cmd))
      /\ Plan(jobs[p].cmd)[jobs[p].at][1] = "link" /\ together' = together
      /\ UNCHANGED <<rows, linked, prompted, demos, topic, docSets, personas, lost>>
  BY DEF LinkSkill, Doing, Item, databaseVars, onyxVars
<1>3. jobs' = [jobs EXCEPT ![p] = x]
  BY <1>1, JobFacts DEF LinkSkill, Item, JobRow
<1>4. jobs[p].at \in 1..Len(Plan(jobs[p].cmd)) /\ s \in Skills
  <2>1. jobs[p].at \in 1..Len(Plan(jobs[p].cmd))
    BY <1>2, JobFacts, PlanType DEF JobRow
  <2> QED BY <1>2, <2>1, ItemType
<1>5. /\ drafts \in SUBSET Skills /\ jobs[p].drafts \subseteq drafts /\ s \in prompted \cup drafts
      /\ sends \in SUBSET Skills
  BY <1>4, JobFacts DEF JobRow
<1> HIDE DEF drafts, sends
<1>6. /\ x \in JobRow /\ x.step = "ensure" /\ x.ids = jobs[p].ids /\ x.seen = jobs[p].seen
      /\ x.cmd = jobs[p].cmd /\ x.at = jobs[p].at + 1 /\ x.drafts = drafts
      /\ x.newTopic = jobs[p].newTopic /\ x.newDemo = jobs[p].newDemo /\ x.sends = sends
  <2>1. jobs[p].at + 1 \in Nat \ {0}
    BY JobFacts DEF JobRow
  <2>2. jobs[p] \in JobRow
    BY JobFacts
  <2> QED BY <1>1, <1>2, <1>5, <2>1, <2>2 DEF JobRow
<1>7. jobs[p].cmd = "seed"
  BY <1>2, <1>4, LinksAreSeeds
<1>8. Acts(p, x)
  BY <1>2, <1>3, <1>6, JobFacts DEF Acts
<1>9. /\ Past(x) = Past(jobs[p]) \cup {jobs[p].at} /\ Plan(x.cmd) = Plan(jobs[p].cmd)
  BY <1>2, <1>6, JobFacts, Advance
<1>10. DemoOK(x)
  BY <1>6, JobFacts DEF JobOK, DemoOK
<1>11. LinkOK(x)
  BY <1>2, <1>5, <1>6, <1>7, <1>9, JobFacts DEF JobOK, LinkOK
<1>12. OnceOK(x)
  BY <1>2, <1>6, <1>9, JobFacts, OnceAdvances DEF JobOK
<1>13. JobOK(x)
  BY <1>10, <1>11, <1>12 DEF JobOK
<1> QED BY <1>2, <1>8, <1>13, QuietStep

\* A call of Onyx that ends its try without an answer, and the job that goes on with another.
LEMMA AfterCallType ==
    ASSUME SeedInv, NEW p \in Seeders, NEW outcome, outcome # "done", jobs[p].step = "ensure"
    PROVE  /\ AfterCall(p, outcome) \in JobRow
           /\ \/ AfterCall(p, outcome) = NoJob
              \/ \A j : j = AfterCall(p, outcome) =>
                   /\ j.cmd = jobs[p].cmd /\ j.step = jobs[p].step /\ j.missing = jobs[p].missing
                   /\ j.seen = jobs[p].seen /\ j.ids = jobs[p].ids /\ j.at = jobs[p].at
                   /\ j.drafts = jobs[p].drafts /\ j.sends = jobs[p].sends
                   /\ j.newTopic = jobs[p].newTopic /\ j.newDemo = jobs[p].newDemo
<1>1. \/ AfterCall(p, outcome) = NoJob
      \/ jobs[p].tries < 2 /\ AfterCall(p, outcome) = [jobs[p] EXCEPT !.tries = @ + 1]
  BY DEF AfterCall
<1>2. CASE AfterCall(p, outcome) = NoJob
  BY <1>2, NoJobType
<1>3. CASE jobs[p].tries < 2 /\ AfterCall(p, outcome) = [jobs[p] EXCEPT !.tries = @ + 1]
  <2>1. jobs[p].tries + 1 \in 0..2
    BY <1>3, JobFacts DEF JobRow
  <2>2. PICK x : x = [jobs[p] EXCEPT !.tries = @ + 1]
    OBVIOUS
  <2>3. /\ x \in JobRow /\ x.cmd = jobs[p].cmd /\ x.step = jobs[p].step
        /\ x.missing = jobs[p].missing /\ x.seen = jobs[p].seen /\ x.ids = jobs[p].ids
        /\ x.at = jobs[p].at /\ x.drafts = jobs[p].drafts
        /\ x.newTopic = jobs[p].newTopic /\ x.newDemo = jobs[p].newDemo /\ x.sends = jobs[p].sends
    BY <2>1, <2>2, JobFacts DEF JobRow
  <2> QED BY <1>3, <2>2, <2>3
<1> QED BY <1>1, <1>2, <1>3

LEMMA RetryOK ==
    ASSUME SeedInv, NEW p \in Seeders, NEW outcome, outcome # "done", jobs[p].step = "ensure"
    PROVE  JobOK(AfterCall(p, outcome))
<1>1. PICK x : x = AfterCall(p, outcome)
  OBVIOUS
<1>2. CASE x = NoJob
  BY <1>1, <1>2, NoJobOK
<1>3. CASE x # NoJob
  <2>1. /\ x.cmd = jobs[p].cmd /\ x.step = jobs[p].step /\ x.missing = jobs[p].missing
        /\ x.seen = jobs[p].seen /\ x.ids = jobs[p].ids /\ x.at = jobs[p].at
        /\ x.drafts = jobs[p].drafts
        /\ x.newTopic = jobs[p].newTopic /\ x.newDemo = jobs[p].newDemo /\ x.sends = jobs[p].sends
    BY <1>1, <1>3, AfterCallType
  <2>2. Past(x) = Past(jobs[p])
    BY <2>1 DEF Past
  <2>3. DemoOK(x)
    BY <2>1, JobFacts DEF JobOK, DemoOK
  <2>4. LinkOK(x)
    BY <2>1, <2>2, JobFacts DEF JobOK, LinkOK
  <2>5. OnceOK(x)
    BY <2>1, <2>2, JobFacts, OnceAdvances DEF JobOK
  <2> QED BY <1>1, <2>3, <2>4, <2>5 DEF JobOK
<1> QED BY <1>2, <1>3

\* A try that made nothing.
LEMMA FailedCall ==
    ASSUME SeedInv, NEW p \in Seeders, NEW outcome, outcome # "done", jobs[p].step = "ensure",
           jobs' = [jobs EXCEPT ![p] = AfterCall(p, outcome)],
           UNCHANGED <<rows, linked, prompted, demos, topic, docSets, personas, lost, together>>
    PROVE  SeedInv'
<1>1. Acts(p, AfterCall(p, outcome))
  BY AfterCallType, JobFacts DEF Acts
<1> QED BY <1>1, RetryOK, QuietStep

\* A create: Onyx gets more, the database stays as it is.
LEMMA CreateStep ==
    ASSUME SeedInv, NEW p \in Seeders, NEW x, Acts(p, x), JobOK(x)', lost' \in BOOLEAN,
           UNCHANGED <<rows, linked, prompted, demos, topic>>, lost => lost',
           docSets' \in [SetNames -> Nat], personas' \in [Skills -> Nat],
           \A n \in SetNames : docSets[n] <= docSets'[n],
           \A s \in Skills : personas[s] <= personas'[s], OnePersonaPerSkill'
    PROVE  SeedInv'
<1>1. Shapes /\ together' = together
  BY DEF SeedInv, Acts
<1>2. JobsOK'
  BY JobsKeep
<1>3. Shapes'
  BY <1>1, ActsShape DEF Shapes
<1>4. DemoState'
  BY <1>1 DEF SeedInv, DemoState
<1>5. LinkedSkillsCanGenerate'
  <2> SUFFICES ASSUME NEW s \in Skills, linked[s] # 0
               PROVE  s \in rows /\ linked[s] <= personas'[s] /\ docSets'[s] > 0 /\ s \in prompted
    BY DEF LinkedSkillsCanGenerate
  <2>1. s \in rows /\ linked[s] <= personas[s] /\ docSets[s] > 0 /\ s \in prompted
    BY DEF SeedInv, LinkedSkillsCanGenerate
  <2>2. s \in SetNames /\ linked[s] \in Nat /\ personas[s] \in Nat /\ docSets[s] \in Nat
    BY <1>1 DEF Shapes, SetNames
  <2>3. personas'[s] \in Nat /\ docSets'[s] \in Nat
        /\ personas[s] <= personas'[s] /\ docSets[s] <= docSets'[s]
    BY <2>2
  <2> QED BY <2>1, <2>2, <2>3
<1> QED BY <1>2, <1>3, <1>4, <1>5 DEF SeedInv

LEMMA CreateSetKeeps ==
    ASSUME SeedInv, NEW p \in Seeders, NEW outcome \in SeedOutcomes, CreateSet(p, outcome)
    PROVE  SeedInv'
<1>1. PICK j : j = jobs[p]
  OBVIOUS
<1>2. PICK name : name = Plan(j.cmd)[j.at][2]
  OBVIOUS
<1>3. /\ j.step = "ensure" /\ j.at <= Len(Plan(j.cmd)) /\ Plan(j.cmd)[j.at][1] = "set"
      /\ name \notin j.seen
      /\ jobs' = [jobs EXCEPT ![p] = AfterCall(p, outcome)] /\ together' = together
      /\ lost' = (lost \/ outcome = "lost")
      /\ docSets' = IF outcome \in {"done", "lost"} THEN [docSets EXCEPT ![name] = @ + 1] ELSE docSets
      /\ UNCHANGED <<rows, linked, prompted, demos, topic, personas>>
  BY <1>1, <1>2 DEF CreateSet, Doing, Item, CountFault, databaseVars
<1>4. /\ Shapes /\ j \in JobRow /\ JobOK(j) /\ jobs[p] # NoJob
  BY <1>1, <1>3, JobFacts DEF SeedInv
<1>5. j.at \in 1..Len(Plan(j.cmd)) /\ name \in SetNames /\ Plan(j.cmd)[j.at] = <<"set", name>>
  <2>1. j.at \in 1..Len(Plan(j.cmd))
    BY <1>3, <1>4, PlanType DEF JobRow
  <2> QED BY <1>2, <1>3, <2>1, ItemType
<1>6. docSets \in [SetNames -> Nat] /\ personas \in [Skills -> Nat]
  BY <1>4 DEF Shapes
<1>7. ASSUME outcome \in {"done", "lost"}
      PROVE  /\ docSets' \in [SetNames -> Nat] /\ docSets'[name] = docSets[name] + 1
             /\ \A n \in SetNames : docSets[n] <= docSets'[n]
             /\ \A n \in SetNames \ {name} : docSets'[n] = docSets[n]
  BY <1>3, <1>5, <1>6, <1>7
<1>8. CASE outcome \notin {"done", "lost"}
  <2>1. outcome # "done" /\ outcome # "lost" /\ lost \in BOOLEAN
    BY <1>4, <1>8 DEF Shapes
  <2>2. lost' = lost
    BY <1>3, <2>1
  <2>3. docSets' = docSets
    BY <1>3, <1>8
  <2> QED BY <1>1, <1>3, <2>1, <2>2, <2>3, FailedCall
<1>9. CASE outcome = "lost"
  <2>1. PICK x : x = AfterCall(p, outcome)
    OBVIOUS
  <2>2. Acts(p, x) /\ JobOK(x) /\ x \in JobRow
    BY <1>1, <1>3, <1>4, <1>9, <2>1, AfterCallType, RetryOK DEF Acts
  <2>3. LinkOK(x)'
    BY <1>3, <1>4, <1>6, <1>7, <1>9, <2>2, LinkStays DEF JobOK
  <2>4. DemoOK(x)'
    BY <1>3, <2>2 DEF JobOK, DemoOK
  <2>5. lost'
    BY <1>3, <1>9
  <2>6. OnceOK(x)' /\ OnePersonaPerSkill'
    BY <2>5 DEF OnceOK, OnePersonaPerSkill
  <2>7. JobOK(x)'
    BY <2>3, <2>4, <2>6 DEF JobOK
  <2> QED BY <1>3, <1>6, <1>7, <1>9, <2>2, <2>5, <2>6, <2>7, CreateStep
<1>10. CASE outcome = "done"
  <2>1. PICK x : x = [j EXCEPT !.at = @ + 1, !.tries = 0]
    OBVIOUS
  <2>2. j.at + 1 \in Nat \ {0} /\ 0 \in 0..2
    BY <1>4 DEF JobRow
  <2>3. /\ x \in JobRow /\ x.step = "ensure" /\ x.ids = j.ids /\ x.seen = j.seen
        /\ x.cmd = j.cmd /\ x.at = j.at + 1 /\ x.drafts = j.drafts
        /\ x.newTopic = j.newTopic /\ x.newDemo = j.newDemo /\ x.sends = j.sends
    BY <1>3, <1>4, <2>1, <2>2 DEF JobRow
  <2>4. Acts(p, x)
    BY <1>1, <1>3, <1>4, <1>10, <2>1, <2>3 DEF Acts, AfterCall
  <2>5. /\ Past(x) = Past(j) \cup {j.at} /\ Plan(x.cmd) = Plan(j.cmd)
    BY <1>3, <1>4, <2>3, Advance
  <2>6. lost' = lost /\ lost \in BOOLEAN
    BY <1>3, <1>4, <1>10 DEF Shapes
  <2>7. docSets'[name] > 0
    BY <1>5, <1>6, <1>7, <1>10
  <2>8. LinkOK(x)'
    <3>1. LinkOK(j)'
      BY <1>3, <1>4, <1>6, <1>7, <1>10, LinkStays DEF JobOK
    <3>2. Plan(j.cmd)[j.at][1] = "set" /\ Plan(j.cmd)[j.at][2] = name
      BY <1>2, <1>3
    <3> QED BY <1>3, <2>3, <2>5, <2>7, <3>1, <3>2 DEF LinkOK, Past
  <2>9. DemoOK(x)'
    BY <1>3, <1>4, <2>3 DEF JobOK, DemoOK
  <2>10. ASSUME ~together, ~lost PROVE docSets[name] = 0
    <3>1. SUFFICES ASSUME docSets[name] > 0 PROVE FALSE
      BY <1>5, <1>6
    <3>2. PICK k \in Past(j) : Plan(j.cmd)[k] = <<"set", name>>
      BY <1>3, <1>4, <1>5, <2>10, <3>1 DEF JobOK, OnceOK
    <3>3. k \in 1..Len(Plan(j.cmd)) /\ k < j.at
      BY <3>2 DEF Past
    <3>4. k = j.at
      BY <1>3, <1>5, <3>2, <3>3, SetsAreDistinct
    <3> QED BY <1>5, <3>3, <3>4
  <2>11. OnceOK(x)'
    <3> SUFFICES ASSUME ~together, ~lost
                 PROVE  /\ \A s \in Skills : x.ids[s] = 0 => personas'[s] = 0
                        /\ \A n \in SetNames \ x.seen : docSets'[n] > 0 =>
                             \E k \in Past(x) : Plan(x.cmd)[k] = <<"set", n>>
      BY <1>3, <2>6 DEF OnceOK, Past
    <3>1. \A s \in Skills : x.ids[s] = 0 => personas'[s] = 0
      BY <1>3, <1>4, <2>3 DEF JobOK, OnceOK
    <3>2. ASSUME NEW n \in SetNames \ x.seen, docSets'[n] > 0
          PROVE  \E k \in Past(x) : Plan(x.cmd)[k] = <<"set", n>>
      <4>1. CASE n = name
        BY <1>5, <2>5, <4>1
      <4>2. CASE n # name
        <5>1. docSets[n] > 0
          BY <1>7, <1>10, <3>2, <4>2
        <5>2. PICK k \in Past(j) : Plan(j.cmd)[k] = <<"set", n>>
          BY <1>3, <1>4, <2>3, <3>2, <5>1 DEF JobOK, OnceOK
        <5> QED BY <2>5, <5>2
      <4> QED BY <4>1, <4>2
    <3> QED BY <3>1, <3>2
  <2>12. JobOK(x)'
    BY <2>8, <2>9, <2>11 DEF JobOK
  <2>13. OnePersonaPerSkill'
    <3> SUFFICES ASSUME ~together, ~lost
                 PROVE  /\ \A s \in Skills : personas'[s] <= 1
                        /\ \A n \in SetNames : docSets'[n] <= 1
      BY <1>3, <2>6 DEF OnePersonaPerSkill
    <3>1. /\ \A s \in Skills : personas[s] <= 1
          /\ \A n \in SetNames : docSets[n] <= 1
      BY DEF SeedInv, OnePersonaPerSkill
    <3> QED BY <1>3, <1>7, <1>10, <2>10, <3>1
  <2> QED BY <1>3, <1>6, <1>7, <1>10, <2>4, <2>6, <2>12, <2>13, CreateStep
<1> QED BY <1>8, <1>9, <1>10 DEF SeedOutcomes

LEMMA CreatePersonaKeeps ==
    ASSUME SeedInv, NEW p \in Seeders, NEW outcome \in SeedOutcomes, CreatePersona(p, outcome)
    PROVE  SeedInv'
<1>1. PICK j : j = jobs[p]
  OBVIOUS
<1>2. PICK s : s = Plan(j.cmd)[j.at][2]
  OBVIOUS
<1>3. /\ j.step = "ensure" /\ j.at <= Len(Plan(j.cmd)) /\ Plan(j.cmd)[j.at][1] = "persona"
      /\ j.ids[s] = 0 /\ together' = together
      /\ jobs' = [jobs EXCEPT ![p] =
             IF outcome = "done" THEN [AfterCall(p, outcome) EXCEPT !.ids[s] = personas'[s]]
             ELSE AfterCall(p, outcome)]
      /\ lost' = (lost \/ outcome = "lost")
      /\ personas' = IF outcome \in {"done", "lost"} THEN [personas EXCEPT ![s] = @ + 1]
                     ELSE personas
      /\ UNCHANGED <<rows, linked, prompted, demos, topic, docSets>>
  BY <1>1, <1>2 DEF CreatePersona, Doing, Item, CountFault, databaseVars
<1>4. /\ Shapes /\ j \in JobRow /\ JobOK(j) /\ jobs[p] # NoJob
  BY <1>1, <1>3, JobFacts DEF SeedInv
<1>5. j.at \in 1..Len(Plan(j.cmd)) /\ s \in Skills
  <2>1. j.at \in 1..Len(Plan(j.cmd))
    BY <1>3, <1>4, PlanType DEF JobRow
  <2> QED BY <1>2, <1>3, <2>1, ItemType
<1>6. docSets \in [SetNames -> Nat] /\ personas \in [Skills -> Nat]
  BY <1>4 DEF Shapes
<1>7. ASSUME outcome \in {"done", "lost"}
      PROVE  /\ personas' \in [Skills -> Nat] /\ personas'[s] = personas[s] + 1
             /\ \A r \in Skills : personas[r] <= personas'[r]
             /\ \A r \in Skills \ {s} : personas'[r] = personas[r]
  BY <1>3, <1>5, <1>6, <1>7
<1>8. CASE outcome \notin {"done", "lost"}
  <2>1. outcome # "done" /\ outcome # "lost" /\ lost \in BOOLEAN
    BY <1>4, <1>8 DEF Shapes
  <2>2. lost' = lost
    BY <1>3, <2>1
  <2>3. personas' = personas /\ jobs' = [jobs EXCEPT ![p] = AfterCall(p, outcome)]
    BY <1>3, <1>8
  <2> QED BY <1>1, <1>3, <2>1, <2>2, <2>3, FailedCall
<1>9. CASE outcome = "lost"
  <2>1. PICK x : x = AfterCall(p, outcome)
    OBVIOUS
  <2>2. Acts(p, x) /\ JobOK(x) /\ x \in JobRow
    BY <1>1, <1>3, <1>4, <1>9, <2>1, AfterCallType, RetryOK DEF Acts
  <2>3. LinkOK(x)'
    BY <1>3, <1>4, <1>6, <1>7, <1>9, <2>2, LinkStays DEF JobOK
  <2>4. DemoOK(x)'
    BY <1>3, <2>2 DEF JobOK, DemoOK
  <2>5. lost'
    BY <1>3, <1>9
  <2>6. OnceOK(x)' /\ OnePersonaPerSkill'
    BY <2>5 DEF OnceOK, OnePersonaPerSkill
  <2>7. JobOK(x)'
    BY <2>3, <2>4, <2>6 DEF JobOK
  <2> QED BY <1>3, <1>6, <1>7, <1>9, <2>2, <2>5, <2>6, <2>7, CreateStep
<1>10. CASE outcome = "done"
  <2>1. PICK ids : ids = [j.ids EXCEPT ![s] = personas'[s]]
    OBVIOUS
  <2>2. PICK x : x = [j EXCEPT !.at = @ + 1, !.tries = 0, !.ids = ids]
    OBVIOUS
  <2>3. /\ ids \in [Skills -> Nat] /\ ids[s] = personas'[s]
        /\ \A r \in Skills \ {s} : ids[r] = j.ids[r]
    <3>1. j.ids \in [Skills -> Nat]
      BY <1>4 DEF JobRow
    <3>2. personas'[s] \in Nat
      BY <1>5, <1>7, <1>10
    <3> QED BY <1>5, <2>1, <3>1, <3>2
  <2>4. j.at + 1 \in Nat \ {0} /\ 0 \in 0..2
    BY <1>4 DEF JobRow
  <2>5. /\ x \in JobRow /\ x.step = "ensure" /\ x.ids = ids /\ x.seen = j.seen
        /\ x.cmd = j.cmd /\ x.at = j.at + 1 /\ x.drafts = j.drafts
        /\ x.newTopic = j.newTopic /\ x.newDemo = j.newDemo /\ x.sends = j.sends
    BY <1>3, <1>4, <2>2, <2>3, <2>4 DEF JobRow
  <2>6. jobs' = [jobs EXCEPT ![p] = x]
    <3>1. PICK y : y = [j EXCEPT !.at = @ + 1, !.tries = 0]
      OBVIOUS
    <3>2. AfterCall(p, outcome) = y
      BY <1>1, <1>10, <3>1 DEF AfterCall
    <3>3. y \in JobRow /\ y.ids = j.ids
      BY <1>4, <2>4, <3>1 DEF JobRow
    <3>4. [y EXCEPT !.ids[s] = personas'[s]] = [y EXCEPT !.ids = ids]
      BY <2>1, <3>3 DEF JobRow
    <3>5. [y EXCEPT !.ids = ids] = x
      BY <1>4, <2>2, <3>1 DEF JobRow
    <3> QED BY <1>3, <1>10, <3>2, <3>4, <3>5
  <2>7. Acts(p, x)
    BY <1>1, <1>3, <1>4, <2>5, <2>6 DEF Acts
  <2>8. /\ Past(x) = Past(j) \cup {j.at} /\ Plan(x.cmd) = Plan(j.cmd)
    BY <1>3, <1>4, <2>5, Advance
  <2>9. lost' = lost /\ lost \in BOOLEAN
    BY <1>3, <1>4, <1>10 DEF Shapes
  <2>10. LinkOK(x)'
    <3>1. LinkOK(j)'
      BY <1>3, <1>4, <1>6, <1>7, <1>10, LinkStays DEF JobOK
    <3>2. \A r \in Skills : x.ids[r] <= personas'[r]
      <4>1. \A r \in Skills \ {s} : j.ids[r] <= personas'[r]
        BY <1>3, <3>1 DEF LinkOK
      <4> QED BY <1>5, <1>7, <1>10, <2>3, <2>5, <4>1
    <3> QED BY <1>3, <2>5, <2>8, <3>1, <3>2 DEF LinkOK, Past
  <2>11. DemoOK(x)'
    BY <1>3, <1>4, <2>5 DEF JobOK, DemoOK
  <2>12. OnceOK(x)'
    <3> SUFFICES ASSUME ~together, ~lost
                 PROVE  /\ \A r \in Skills : x.ids[r] = 0 => personas'[r] = 0
                        /\ \A n \in SetNames \ x.seen : docSets'[n] > 0 =>
                             \E k \in Past(x) : Plan(x.cmd)[k] = <<"set", n>>
      BY <1>3, <2>9 DEF OnceOK, Past
    <3>1. \A r \in Skills : x.ids[r] = 0 => personas'[r] = 0
      <4>1. \A r \in Skills \ {s} : j.ids[r] = 0 => personas[r] = 0
        BY <1>3, <1>4 DEF JobOK, OnceOK
      <4> QED BY <1>5, <1>7, <1>10, <2>3, <2>5, <4>1
    <3>2. ASSUME NEW n \in SetNames \ x.seen, docSets'[n] > 0
          PROVE  \E k \in Past(x) : Plan(x.cmd)[k] = <<"set", n>>
      <4>1. docSets[n] > 0
        BY <1>3, <3>2
      <4>2. PICK k \in Past(j) : Plan(j.cmd)[k] = <<"set", n>>
        BY <1>3, <1>4, <2>5, <3>2, <4>1 DEF JobOK, OnceOK
      <4> QED BY <2>8, <4>2
    <3> QED BY <3>1, <3>2
  <2>13. JobOK(x)'
    BY <2>10, <2>11, <2>12 DEF JobOK
  <2>14. OnePersonaPerSkill'
    <3> SUFFICES ASSUME ~together, ~lost
                 PROVE  /\ \A r \in Skills : personas'[r] <= 1
                        /\ \A n \in SetNames : docSets'[n] <= 1
      BY <1>3, <2>9 DEF OnePersonaPerSkill
    <3>1. /\ \A r \in Skills : personas[r] <= 1
          /\ \A n \in SetNames : docSets[n] <= 1
      BY DEF SeedInv, OnePersonaPerSkill
    <3>2. personas[s] = 0
      BY <1>3, <1>4, <1>5 DEF JobOK, OnceOK
    <3> QED BY <1>3, <1>7, <1>10, <3>1, <3>2
  <2> QED BY <1>3, <1>6, <1>7, <1>10, <2>7, <2>9, <2>13, <2>14, CreateStep
<1> QED BY <1>8, <1>9, <1>10 DEF SeedOutcomes

LEMMA UpdatePersonaKeeps ==
    ASSUME SeedInv, NEW p \in Seeders, NEW outcome \in SeedOutcomes, UpdatePersona(p, outcome)
    PROVE  SeedInv'
<1>1. PICK j : j = jobs[p]
  OBVIOUS
<1>2. /\ j.step = "ensure" /\ j.at <= Len(Plan(j.cmd)) /\ Plan(j.cmd)[j.at][1] = "persona"
      /\ jobs' = [jobs EXCEPT ![p] = AfterCall(p, outcome)] /\ together' = together
      /\ lost' = (lost \/ (outcome = "lost" /\ FALSE))
      /\ UNCHANGED <<rows, linked, prompted, demos, topic, docSets, personas>>
  BY <1>1 DEF UpdatePersona, Doing, Item, CountFault, databaseVars, onyxVars
<1>3. lost' = lost /\ j \in JobRow /\ JobOK(j) /\ jobs[p] # NoJob
  <2>1. lost \in BOOLEAN
    BY DEF SeedInv, Shapes
  <2>2. lost' = lost
    BY <1>2, <2>1
  <2> QED BY <1>1, <1>2, <2>2, JobFacts
<1>4. CASE outcome # "done"
  BY <1>1, <1>2, <1>3, <1>4, FailedCall
<1>5. CASE outcome = "done"
  <2>1. PICK x : x = [j EXCEPT !.at = @ + 1, !.tries = 0]
    OBVIOUS
  <2>2. j.at + 1 \in Nat \ {0} /\ 0 \in 0..2
    BY <1>3 DEF JobRow
  <2>3. /\ x \in JobRow /\ x.step = "ensure" /\ x.ids = j.ids /\ x.seen = j.seen
        /\ x.cmd = j.cmd /\ x.at = j.at + 1 /\ x.drafts = j.drafts
        /\ x.newTopic = j.newTopic /\ x.newDemo = j.newDemo /\ x.sends = j.sends
    BY <1>2, <1>3, <2>1, <2>2 DEF JobRow
  <2>4. Acts(p, x)
    BY <1>1, <1>2, <1>3, <1>5, <2>1, <2>3 DEF Acts, AfterCall
  <2>5. /\ Past(x) = Past(j) \cup {j.at} /\ Plan(x.cmd) = Plan(j.cmd)
    BY <1>2, <1>3, <2>3, Advance
  <2>6. DemoOK(x)
    BY <1>3, <2>3 DEF JobOK, DemoOK
  <2>7. LinkOK(x)
    BY <1>2, <1>3, <2>3, <2>5 DEF JobOK, LinkOK
  <2>8. OnceOK(x)
    BY <1>2, <1>3, <2>3, <2>5, OnceAdvances DEF JobOK
  <2>9. JobOK(x)
    BY <2>6, <2>7, <2>8 DEF JobOK
  <2> QED BY <1>2, <1>3, <2>4, <2>9, QuietStep
<1> QED BY <1>4, <1>5

-----------------------------------------------------------------------------
LEMMA LookAtPromptsKeeps == ASSUME SeedInv, NEW p \in Seeders, LookAtPrompts(p) PROVE SeedInv'
<1>1. PICK x : x = [jobs[p] EXCEPT !.drafts = Skills \ prompted,
                                   !.step = IF jobs[p].cmd = "demo" THEN "demo" ELSE "commit"]
  OBVIOUS
<1>2. /\ jobs[p].step = "prompts" /\ jobs' = [jobs EXCEPT ![p] = x] /\ together' = together
      /\ UNCHANGED <<rows, linked, prompted, demos, topic, docSets, personas, lost>>
  BY <1>1, JobFacts DEF LookAtPrompts, databaseVars, onyxVars, JobRow
<1>3. /\ x \in JobRow /\ x.step \in {"demo", "commit"} /\ x.cmd = jobs[p].cmd
      /\ x.at = jobs[p].at /\ x.sends = jobs[p].sends
      /\ x.newTopic = jobs[p].newTopic /\ x.newDemo = jobs[p].newDemo
  BY <1>1, JobFacts DEF JobRow
<1>4. Acts(p, x)
  BY <1>2, <1>3, JobFacts DEF Acts
<1>5. JobOK(x)
  BY <1>2, <1>3, JobFacts DEF JobOK, DemoOK, LinkOK, OnceOK
<1> QED BY <1>2, <1>4, <1>5, QuietStep

LEMMA LookAtDemoKeeps == ASSUME SeedInv, NEW p \in Seeders, LookAtDemo(p) PROVE SeedInv'
<1>1. PICK x : x = [jobs[p] EXCEPT !.step = "commit", !.newTopic = (topic = "none"),
                                   !.newDemo = (demos = 0)]
  OBVIOUS
<1>2. /\ jobs[p].step = "demo" /\ jobs' = [jobs EXCEPT ![p] = x] /\ together' = together
      /\ UNCHANGED <<rows, linked, prompted, demos, topic, docSets, personas, lost>>
  BY <1>1, JobFacts DEF LookAtDemo, databaseVars, onyxVars, JobRow
<1>3. /\ x \in JobRow /\ x.step = "commit" /\ x.cmd = jobs[p].cmd /\ x.at = jobs[p].at
      /\ x.newTopic = (topic = "none") /\ x.newDemo = (demos = 0) /\ x.sends = jobs[p].sends
  BY <1>1, JobFacts DEF JobRow
<1>4. Acts(p, x)
  BY <1>2, <1>3, JobFacts DEF Acts
<1>5. DemoOK(x)
  <2>1. /\ topic = "none" => demos = 0
        /\ topic = "demo" => demos = 1
        /\ topic \in {"none", "demo", "user"}
    BY DEF SeedInv, DemoState, Shapes
  <2>2. x.newTopic => x.newDemo
    BY <1>3, <2>1
  <2>3. topic # "user" /\ x.newDemo => x.newTopic
    <3>1. demos = 0 /\ topic # "user" => topic = "none"
      BY <2>1
    <3> QED BY <1>3, <3>1
  <2> QED BY <1>3, <2>2, <2>3 DEF DemoOK
<1>6. LinkOK(x) /\ OnceOK(x)
  BY <1>2, <1>3, JobFacts DEF JobOK, LinkOK, OnceOK
<1>7. JobOK(x)
  BY <1>5, <1>6 DEF JobOK
<1> QED BY <1>2, <1>4, <1>7, QuietStep

LEMMA FailJobKeeps == ASSUME SeedInv, NEW p \in Seeders, FailJob(p) PROVE SeedInv'
<1>1. jobs[p].step \in {"insert", "commit", "ensure"}
  BY DEF FailJob, AtEnd
<1>2. /\ EndJob(p) /\ together' = together
      /\ UNCHANGED <<rows, linked, prompted, demos, topic, docSets, personas, lost>>
  BY DEF FailJob, databaseVars, onyxVars
<1> QED BY <1>1, <1>2, JobFacts, EndStep

LEMMA AbortJobKeeps == ASSUME SeedInv, NEW p \in Seeders, AbortJob(p) PROVE SeedInv'
<1>1. /\ jobs[p] # NoJob /\ EndJob(p) /\ together' = together
      /\ UNCHANGED <<rows, linked, prompted, demos, topic, docSets, personas, lost>>
  BY DEF AbortJob, databaseVars, onyxVars
<1> QED BY <1>1, EndStep

\* At the end of a seeding every skill it links can generate.
LEMMA SeedingIsDone ==
    ASSUME SeedInv, NEW p \in Seeders, jobs[p].cmd = "seed", AtEnd(p), NEW s \in Skills
    PROVE  /\ s \in rows /\ jobs[p].ids[s] <= personas[s] /\ docSets[s] > 0
           /\ s \in prompted \cup jobs[p].drafts
<1>1. PICK j : j = jobs[p]
  OBVIOUS
<1>2. j \in JobRow /\ LinkOK(j) /\ j.cmd = "seed"
  BY <1>1, JobFacts DEF JobOK
<1>3. j.step = "ensure" /\ j.at > Len(Plan(j.cmd))
  BY <1>1, <1>2 DEF AtEnd, LinkOK
<1>4. Past(j) = 1..Len(Plan(j.cmd))
  BY <1>2, <1>3, PlanType DEF Past, JobRow
<1>5. PICK h, i \in 1..Len(Plan(j.cmd)) : /\ Plan(j.cmd)[h] = <<"set", s>>
                                          /\ Plan(j.cmd)[i] = <<"link", s>>
  BY <1>2, PlanIsComplete
<1>6. docSets[s] > 0
  <2>1. Plan(j.cmd)[h][1] = "set" /\ Plan(j.cmd)[h][2] = s
    BY <1>5
  <2> QED BY <1>2, <1>3, <1>4, <2>1 DEF LinkOK
<1>7. s \in prompted \cup j.drafts
  <2>1. Plan(j.cmd)[i][1] = "link" /\ Plan(j.cmd)[i][2] = s
    BY <1>5
  <2> QED BY <1>2, <1>3, <1>4, <2>1 DEF LinkOK
<1>8. s \in rows /\ j.ids[s] <= personas[s]
  BY <1>2, <1>3 DEF LinkOK
<1> QED BY <1>1, <1>6, <1>7, <1>8

LEMMA CommitSeedKeeps == ASSUME SeedInv, NEW p \in Seeders, CommitSeed(p) PROVE SeedInv'
<1>1. PICK j : j = jobs[p]
  OBVIOUS
<1>2. /\ AtEnd(p) /\ ~(j.newTopic /\ topic # "none")
      /\ linked' = [s \in Skills |-> IF s \in j.sends THEN j.ids[s] ELSE linked[s]]
      /\ prompted' = prompted \cup j.drafts
      /\ topic' = IF j.newTopic THEN "demo" ELSE topic
      /\ demos' = IF j.newDemo THEN demos + 1 ELSE demos
      /\ jobs' = [jobs EXCEPT ![p] = NoJob]
      /\ UNCHANGED <<rows, docSets, personas, lost, together>>
  BY <1>1 DEF CommitSeed, Collides, AddDemo, EndJob, onyxVars
<1>3. j \in JobRow /\ JobOK(j) /\ Shapes
  BY <1>1, JobFacts DEF SeedInv
<1>4. Acts(p, NoJob)
  BY <1>1, <1>2, JobFacts, NoJobType DEF Acts, AtEnd
<1>5. topic = "user" => topic' = "user"
  BY <1>2
<1>6. JobOK(NoJob)'
  BY NoJobType DEF JobOK, DemoOK, LinkOK, OnceOK
<1>7. JobsOK'
  <2>1. docSets \in [SetNames -> Nat] /\ personas \in [Skills -> Nat]
    BY <1>3 DEF Shapes
  <2> QED BY <1>2, <1>4, <1>5, <1>6, <2>1, JobsKeep
<1>8. Shapes'
  <2>1. linked' \in [Skills -> Nat] /\ prompted' \in SUBSET Skills
    BY <1>2, <1>3 DEF Shapes, JobRow
  <2>2. topic' \in {"none", "demo", "user"} /\ demos' \in Nat
    BY <1>2, <1>3 DEF Shapes
  <2> QED BY <1>2, <1>3, <1>4, <2>1, <2>2, ActsShape DEF Shapes
<1>9. DemoState'
  <2>1. /\ topic = "none" => demos = 0
        /\ topic = "demo" => demos = 1
        /\ ~together => demos <= 1
        /\ demos \in Nat /\ topic \in {"none", "demo", "user"}
    BY <1>3 DEF SeedInv, DemoState, Shapes
  <2>2. /\ j.newTopic => j.newDemo
        /\ topic # "user" /\ j.newDemo => j.newTopic
        /\ ~together /\ j.newDemo => demos = 0
    BY <1>3 DEF JobOK, DemoOK
  <2>3. topic' = "none" => demos' = 0
    BY <1>2, <2>1, <2>2
  <2>4. topic' = "demo" => demos' = 1
    BY <1>2, <2>1, <2>2
  <2>5. ~together' => demos' <= 1
    BY <1>2, <2>1, <2>2
  <2> QED BY <2>3, <2>4, <2>5 DEF DemoState
<1>10. LinkedSkillsCanGenerate'
  <2> SUFFICES ASSUME NEW s \in Skills, linked'[s] # 0
               PROVE  s \in rows /\ linked'[s] <= personas[s] /\ docSets[s] > 0 /\ s \in prompted'
    BY <1>2 DEF LinkedSkillsCanGenerate
  <2>1. CASE s \in j.sends
    <3>1. j.cmd = "seed" /\ linked'[s] = j.ids[s]
      BY <1>2, <1>3, <2>1 DEF JobOK, LinkOK
    <3> QED BY <1>1, <1>2, <3>1, SeedingIsDone
  <2>2. CASE s \notin j.sends
    <3>1. linked'[s] = linked[s]
      BY <1>2, <2>2
    <3> QED BY <1>2, <3>1 DEF SeedInv, LinkedSkillsCanGenerate
  <2> QED BY <2>1, <2>2
<1>11. OnePersonaPerSkill'
  BY <1>2 DEF SeedInv, OnePersonaPerSkill
<1> QED BY <1>7, <1>8, <1>9, <1>10, <1>11 DEF SeedInv

\* A step of the service that leaves the jobs alone.
LEMMA ServiceStep ==
    ASSUME SeedInv, topic = "user" => topic' = "user", topic' \in {"none", "demo", "user"},
           topic' # topic => topic = "none" /\ topic' = "user",
           UNCHANGED <<jobs, rows, linked, prompted, demos, docSets, personas, lost, together>>
    PROVE  SeedInv'
<1>1. Shapes'
  BY DEF SeedInv, Shapes
<1>2. DemoState' /\ LinkedSkillsCanGenerate' /\ OnePersonaPerSkill'
  BY DEF SeedInv, DemoState, LinkedSkillsCanGenerate, OnePersonaPerSkill
<1>3. ASSUME NEW p \in Seeders PROVE JobOK(jobs[p])'
  <2>1. PICK j : j = jobs[p]
    OBVIOUS
  <2>2. jobs'[p] = j /\ JobOK(j)
    BY <2>1 DEF SeedInv, JobsOK
  <2>3. DemoOK(j)'
    BY <2>2 DEF JobOK, DemoOK
  <2>4. LinkOK(j)'
    BY <2>2 DEF JobOK, LinkOK, Past
  <2>5. OnceOK(j)'
    BY <2>2 DEF JobOK, OnceOK, Past
  <2>6. JobOK(j)'
    BY <2>3, <2>4, <2>5 DEF JobOK
  <2> QED BY <2>2, <2>6, JobBecomes
<1> QED BY <1>1, <1>2, <1>3 DEF SeedInv, JobsOK

LEMMA StepSeedInv == SeedInv /\ [Seed]_seedVars => SeedInv'
<1> SUFFICES ASSUME SeedInv, [Seed]_seedVars PROVE SeedInv'
  OBVIOUS
<1>1. ASSUME NEW s \in Skills, GrowGold(s) PROVE SeedInv'
  <2>1. topic \in {"none", "demo", "user"}
    BY DEF SeedInv, Shapes
  <2> QED BY <1>1, <2>1, ServiceStep DEF GrowGold, onyxVars
<1>2. CASE CreateConsoleTopic
  BY <1>2, ServiceStep DEF CreateConsoleTopic, onyxVars
<1>3. CASE UNCHANGED seedVars
  <2>1. topic \in {"none", "demo", "user"}
    BY DEF SeedInv, Shapes
  <2> QED BY <1>3, <2>1, ServiceStep DEF seedVars, databaseVars, onyxVars
<1> QED BY <1>1, <1>2, <1>3, StartKeeps, LookAtSkillsKeeps, CommitSkillsKeeps, CheckCoverageKeeps,
           ListOnyxKeeps, SkipSetKeeps, LinkSkillKeeps, CreateSetKeeps, CreatePersonaKeeps,
           UpdatePersonaKeeps, LookAtPromptsKeeps, LookAtDemoKeeps, CommitSeedKeeps,
           FailJobKeeps, AbortJobKeeps DEF Seed

-----------------------------------------------------------------------------
(* What a job counts.                                                      *)

\* The jobs that may still make document set n, and a persona of skill s.
MakesSet(j, n) == /\ j.step = "ensure" /\ n \notin j.seen
                  /\ \A k \in Past(j) : Plan(j.cmd)[k] # <<"set", n>>
MakesPersona(j, s) == j.step = "ensure" /\ j.ids[s] = 0

SetMakers(n) == {p \in Seeders : MakesSet(jobs[p], n)}
PersonaMakers(s) == {p \in Seeders : MakesPersona(jobs[p], s)}
DemoMakers == {p \in Seeders : jobs[p].newDemo}

\* A job stays within its plan, and takes a persona that is there.
JobFits(j) == /\ j.at <= Len(Plan(j.cmd)) + 1
              /\ \A s \in Skills : j.ids[s] <= personas[s]

\* Of everything there is, or may still come, a copy for every process and every fault.
Counts ==
    /\ golds \in [Skills -> 0..Minimum] /\ faults \in 0..FaultsAlone
    /\ \A p \in Seeders : JobFits(jobs[p])
    /\ demos + Cardinality(DemoMakers) <= Cardinality(Seeders)
    /\ \A n \in SetNames : docSets[n] + Cardinality(SetMakers(n)) <= Cardinality(Seeders) + faults
    /\ \A s \in Skills : personas[s] + Cardinality(PersonaMakers(s))
                             <= Cardinality(Seeders) + faults

LEMMA SeedersAreFinite ==
    /\ Cardinality(Seeders) \in Nat
    /\ \A S \in SUBSET Seeders : /\ IsFiniteSet(S) /\ Cardinality(S) \in Nat
                                 /\ Cardinality(S) <= Cardinality(Seeders)
BY SeedBoundsAreNumbers, FS_Subset, FS_CardinalityType

\* Copies and makers before and after a step of one process: there is no copy, or no other,
\* or one of a maker, or of a fault.
Counted(c, d, was, is, fault) ==
    \/ d = 0
    \/ d = c /\ (is => was)
    \/ d = c + 1 /\ was /\ ~is
    \/ d = c + 1 /\ fault /\ (is => was)

LEMMA Counting ==
    ASSUME NEW p \in Seeders, NEW S \in SUBSET Seeders, NEW T \in SUBSET Seeders,
           NEW c \in Nat, NEW d \in Nat, NEW f \in Nat, NEW g \in Nat, f <= g,
           T \ {p} \subseteq S, Counted(c, d, p \in S, p \in T, g = f + 1),
           c + Cardinality(S) <= Cardinality(Seeders) + f
    PROVE  d + Cardinality(T) <= Cardinality(Seeders) + g
<1>1. /\ Cardinality(Seeders) \in Nat /\ Cardinality(S) \in Nat /\ Cardinality(T) \in Nat
      /\ Cardinality(T) <= Cardinality(Seeders) /\ IsFiniteSet(S) /\ IsFiniteSet(T)
  BY SeedersAreFinite
<1>2. CASE d = 0
  BY <1>1, <1>2
<1>3. CASE p \in T => p \in S
  <2>1. T \subseteq S
    BY <1>3
  <2>2. Cardinality(T) <= Cardinality(S)
    BY <1>1, <2>1, FS_Subset
  <2>3. CASE d = c \/ (d = c + 1 /\ g = f + 1)
    BY <1>1, <2>2, <2>3
  <2>4. CASE d = c + 1 /\ p \in S /\ p \notin T
    <3>1. T \subseteq S \ {p}
      BY <2>1, <2>4
    <3>2. /\ IsFiniteSet(S \ {p}) /\ Cardinality(S \ {p}) = Cardinality(S) - 1
      BY <1>1, <2>4, FS_RemoveElement
    <3>3. Cardinality(T) <= Cardinality(S \ {p})
      BY <3>1, <3>2, FS_Subset
    <3> QED BY <1>1, <2>4, <3>2, <3>3
  <2> QED BY <1>2, <2>3, <2>4 DEF Counted
<1> QED BY <1>2, <1>3 DEF Counted

\* A step of one process.
LEMMA CountStep ==
    ASSUME Shapes, Counts, NEW p \in Seeders, NEW j, j = jobs[p], NEW x \in JobRow,
           jobs' = [jobs EXCEPT ![p] = x],
           golds' = golds, demos' \in Nat, docSets' \in [SetNames -> Nat],
           personas' \in [Skills -> Nat], faults' \in 0..FaultsAlone, faults <= faults',
           x.at <= Len(Plan(x.cmd)) + 1,
           \A s \in Skills : x.ids[s] <= personas'[s] /\ personas[s] <= personas'[s],
           Counted(demos, demos', j.newDemo, x.newDemo, FALSE),
           \A n \in SetNames : Counted(docSets[n], docSets'[n], MakesSet(j, n), MakesSet(x, n),
                                       faults' = faults + 1),
           \A s \in Skills : Counted(personas[s], personas'[s], MakesPersona(j, s),
                                     MakesPersona(x, s), faults' = faults + 1)
    PROVE  Counts'
<1>1. /\ jobs \in [Seeders -> JobRow] /\ jobs'[p] = x /\ FaultsAlone \in Nat
      /\ \A q \in Seeders \ {p} : jobs'[q] = jobs[q]
      /\ demos \in Nat /\ docSets \in [SetNames -> Nat] /\ personas \in [Skills -> Nat]
      /\ faults \in Nat /\ faults' \in Nat
  BY SeedBoundsAreNumbers DEF Shapes, Counts
<1>2. ASSUME NEW q \in Seeders PROVE JobFits(jobs[q])'
  <2>1. CASE q = p
    BY <1>1, <2>1 DEF JobFits
  <2>2. CASE q # p
    <3>1. PICK k : k = jobs[q]
      OBVIOUS
    <3>2. jobs'[q] = k /\ k \in JobRow /\ JobFits(k)
      BY <1>1, <2>2, <3>1 DEF Counts
    <3>3. \A s \in Skills : k.ids[s] <= personas'[s]
      <4>1. k.ids \in [Skills -> Nat]
        BY <3>2 DEF JobRow
      <4> QED BY <1>1, <3>2, <4>1 DEF JobFits
    <3> QED BY <3>2, <3>3 DEF JobFits
  <2> QED BY <2>1, <2>2
<1>3. demos' + Cardinality(DemoMakers') <= Cardinality(Seeders)
  <2>1. /\ DemoMakers \in SUBSET Seeders /\ DemoMakers' \in SUBSET Seeders
        /\ DemoMakers' \ {p} \subseteq DemoMakers
        /\ (p \in DemoMakers <=> j.newDemo) /\ (p \in DemoMakers' <=> x.newDemo)
    BY <1>1 DEF DemoMakers
  <2>2. PICK z \in Nat : z = 0
    OBVIOUS
  <2>3. z <= z /\ ~(z = z + 1)
    OBVIOUS
  <2>4. Counted(demos, demos', p \in DemoMakers, p \in DemoMakers', z = z + 1)
    BY <2>1, <2>3 DEF Counted
  <2>5. demos + Cardinality(DemoMakers) <= Cardinality(Seeders) + z
    BY <2>2, SeedersAreFinite DEF Counts
  <2>6. demos' + Cardinality(DemoMakers') <= Cardinality(Seeders) + z
    BY <1>1, <2>1, <2>3, <2>4, <2>5, Counting
  <2> QED BY <2>2, <2>6, SeedersAreFinite
<1>4. ASSUME NEW n \in SetNames
      PROVE  docSets'[n] + Cardinality(SetMakers(n)') <= Cardinality(Seeders) + faults'
  <2>1. /\ SetMakers(n) \in SUBSET Seeders /\ SetMakers(n)' \in SUBSET Seeders
        /\ SetMakers(n)' \ {p} \subseteq SetMakers(n)
        /\ (p \in SetMakers(n) <=> MakesSet(j, n)) /\ (p \in SetMakers(n)' <=> MakesSet(x, n))
    BY <1>1 DEF SetMakers, MakesSet, Past
  <2>2. Counted(docSets[n], docSets'[n], p \in SetMakers(n), p \in SetMakers(n)',
                faults' = faults + 1)
    BY <2>1 DEF Counted
  <2>3. docSets[n] \in Nat /\ docSets'[n] \in Nat
        /\ docSets[n] + Cardinality(SetMakers(n)) <= Cardinality(Seeders) + faults
    BY <1>1 DEF Counts
  <2>4. PICK S \in SUBSET Seeders, T \in SUBSET Seeders :
          S = SetMakers(n) /\ T = SetMakers(n)'
    BY <2>1
  <2>5. PICK c \in Nat, d \in Nat : c = docSets[n] /\ d = docSets'[n]
    BY <2>3
  <2>6. T \ {p} \subseteq S /\ Counted(c, d, p \in S, p \in T, faults' = faults + 1)
        /\ c + Cardinality(S) <= Cardinality(Seeders) + faults
    BY <2>1, <2>2, <2>3, <2>4, <2>5
  <2>7. d + Cardinality(T) <= Cardinality(Seeders) + faults'
    BY <1>1, <2>6, Counting
  <2> QED BY <2>4, <2>5, <2>7
<1>5. ASSUME NEW s \in Skills
      PROVE  personas'[s] + Cardinality(PersonaMakers(s)') <= Cardinality(Seeders) + faults'
  <2>1. /\ PersonaMakers(s) \in SUBSET Seeders /\ PersonaMakers(s)' \in SUBSET Seeders
        /\ PersonaMakers(s)' \ {p} \subseteq PersonaMakers(s)
        /\ (p \in PersonaMakers(s) <=> MakesPersona(j, s))
        /\ (p \in PersonaMakers(s)' <=> MakesPersona(x, s))
    BY <1>1 DEF PersonaMakers, MakesPersona
  <2>2. Counted(personas[s], personas'[s], p \in PersonaMakers(s), p \in PersonaMakers(s)',
                faults' = faults + 1)
    BY <2>1 DEF Counted
  <2>3. personas[s] \in Nat /\ personas'[s] \in Nat
        /\ personas[s] + Cardinality(PersonaMakers(s)) <= Cardinality(Seeders) + faults
    BY <1>1 DEF Counts
  <2>4. PICK S \in SUBSET Seeders, T \in SUBSET Seeders :
          S = PersonaMakers(s) /\ T = PersonaMakers(s)'
    BY <2>1
  <2>5. PICK c \in Nat, d \in Nat : c = personas[s] /\ d = personas'[s]
    BY <2>3
  <2>6. T \ {p} \subseteq S /\ Counted(c, d, p \in S, p \in T, faults' = faults + 1)
        /\ c + Cardinality(S) <= Cardinality(Seeders) + faults
    BY <2>1, <2>2, <2>3, <2>4, <2>5
  <2>7. d + Cardinality(T) <= Cardinality(Seeders) + faults'
    BY <1>1, <2>6, Counting
  <2> QED BY <2>4, <2>5, <2>7
<1>6. golds' \in [Skills -> 0..Minimum]
  BY DEF Counts
<1>7. /\ \A n \in SetNames : (docSets[n] + Cardinality(SetMakers(n))
                                 <= Cardinality(Seeders) + faults)'
      /\ \A s \in Skills : (personas[s] + Cardinality(PersonaMakers(s))
                                 <= Cardinality(Seeders) + faults)'
  BY <1>4, <1>5
<1> QED BY <1>2, <1>3, <1>6, <1>7 DEF Counts

LEMMA InitCounts == InitSeed => Counts
<1> SUFFICES ASSUME InitSeed PROVE Counts
  OBVIOUS
<1>1. golds \in [Skills -> 0..Minimum] /\ faults \in 0..FaultsAlone
  BY SeedBoundsAreNumbers DEF InitSeed
<1>2. /\ NoJob.at <= Len(Plan(NoJob.cmd)) + 1 /\ NoJob.ids = [s \in Skills |-> 0]
      /\ ~NoJob.newDemo /\ NoJob.step # "ensure"
  BY NoJobType, PlanType DEF NoJob
<1>3. \A p \in Seeders : jobs[p] = NoJob
  BY DEF InitSeed
<1>4. /\ docSets = [n \in SetNames |-> 0] /\ personas = [s \in Skills |-> 0] /\ demos = 0 /\ faults = 0
  BY DEF InitSeed
<1>5. \A s \in Skills : NoJob.ids[s] <= personas[s]
  BY <1>2, <1>4
<1>6. \A p \in Seeders : JobFits(jobs[p])
  BY <1>2, <1>3, <1>5 DEF JobFits
<1>7. /\ DemoMakers \in SUBSET Seeders /\ \A n \in SetNames : SetMakers(n) \in SUBSET Seeders
      /\ \A s \in Skills : PersonaMakers(s) \in SUBSET Seeders
  BY DEF DemoMakers, SetMakers, PersonaMakers
<1>8. \A S \in SUBSET Seeders : 0 + Cardinality(S) <= Cardinality(Seeders)
                                /\ 0 + Cardinality(S) <= Cardinality(Seeders) + 0
  BY SeedersAreFinite
<1> QED BY <1>1, <1>4, <1>6, <1>7, <1>8 DEF Counts

\* The job of p, and what the counts say of it.
LEMMA JobCounts ==
    ASSUME SeedInv, Counts, NEW p \in Seeders
    PROVE  /\ Shapes /\ jobs[p] \in JobRow /\ jobs[p].at <= Len(Plan(jobs[p].cmd)) + 1
           /\ \A s \in Skills : jobs[p].ids[s] <= personas[s]
           /\ jobs[p].step # "ensure" => jobs[p].at = 1
           /\ docSets \in [SetNames -> Nat] /\ personas \in [Skills -> Nat] /\ demos \in Nat
           /\ faults \in 0..FaultsAlone /\ FaultsAlone \in Nat
<1>1. Shapes /\ jobs[p] \in JobRow /\ LinkOK(jobs[p])
  BY JobFacts DEF SeedInv, JobOK
<1> QED BY <1>1, SeedBoundsAreNumbers DEF Counts, JobFits, LinkOK, Shapes

\* A step of a job that has no part in Onyx after it.
LEMMA CountAside ==
    ASSUME SeedInv, Counts, NEW p \in Seeders, NEW x \in JobRow,
           jobs' = [jobs EXCEPT ![p] = x], x.step # "ensure", x.at = 1,
           \A s \in Skills : x.ids[s] <= personas[s],
           UNCHANGED <<golds, docSets, personas>>, demos' \in Nat,
           Counted(demos, demos', jobs[p].newDemo, x.newDemo, FALSE),
           faults' \in 0..FaultsAlone, faults <= faults'
    PROVE  Counts'
<1>1. PICK j : j = jobs[p]
  OBVIOUS
<1>2. x.at <= Len(Plan(x.cmd)) + 1
  BY PlanType
<1>3. \A n \in SetNames : Counted(docSets[n], docSets'[n], MakesSet(j, n), MakesSet(x, n),
                                  faults' = faults + 1)
  BY DEF Counted, MakesSet
<1>4. \A s \in Skills : Counted(personas[s], personas'[s], MakesPersona(j, s),
                                MakesPersona(x, s), faults' = faults + 1)
  BY DEF Counted, MakesPersona
<1>5. \A s \in Skills : x.ids[s] <= personas'[s] /\ personas[s] <= personas'[s]
  BY JobCounts
<1> QED BY <1>1, <1>2, <1>3, <1>4, <1>5, JobCounts, CountStep

\* A job that ends.
LEMMA CountEnd ==
    ASSUME SeedInv, Counts, NEW p \in Seeders, EndJob(p),
           UNCHANGED <<golds, docSets, personas>>, demos' \in Nat,
           demos' = demos \/ (demos' = demos + 1 /\ jobs[p].newDemo),
           faults' \in 0..FaultsAlone, faults <= faults'
    PROVE  Counts'
<1>1. \A s \in Skills : NoJob.ids[s] <= personas[s]
  <2>1. \A s \in Skills : NoJob.ids[s] = 0
    BY DEF NoJob
  <2> QED BY <2>1, JobCounts
<1>2. Counted(demos, demos', jobs[p].newDemo, NoJob.newDemo, FALSE)
  BY NoJobType DEF Counted
<1> QED BY <1>1, <1>2, NoJobType, CountAside DEF EndJob

\* A job that stays within its plan, and is done with no less of it.
LEMMA MakersStay ==
    ASSUME NEW j \in JobRow, NEW x \in JobRow, x.step = j.step, x.cmd = j.cmd,
           x.seen = j.seen, x.ids = j.ids, j.at <= x.at
    PROVE  /\ \A n : MakesSet(x, n) => MakesSet(j, n)
           /\ \A s : MakesPersona(x, s) => MakesPersona(j, s)
<1>1. Past(j) \subseteq Past(x)
  BY PlanType DEF Past, JobRow
<1> QED BY <1>1 DEF MakesSet, MakesPersona

\* A step of a job on its plan that makes nothing.
LEMMA CountAlong ==
    ASSUME SeedInv, Counts, NEW p \in Seeders, NEW x \in JobRow,
           jobs' = [jobs EXCEPT ![p] = x], x.step = jobs[p].step, x.cmd = jobs[p].cmd,
           x.seen = jobs[p].seen, x.ids = jobs[p].ids, jobs[p].at <= x.at,
           x.at <= Len(Plan(x.cmd)) + 1, x.newDemo = jobs[p].newDemo,
           UNCHANGED <<golds, docSets, personas, demos>>,
           faults' \in 0..FaultsAlone, faults <= faults'
    PROVE  Counts'
<1>1. PICK j : j = jobs[p]
  OBVIOUS
<1>2. j \in JobRow /\ (\A n : MakesSet(x, n) => MakesSet(j, n))
      /\ \A s : MakesPersona(x, s) => MakesPersona(j, s)
  BY <1>1, JobCounts, MakersStay
<1>3. /\ \A n \in SetNames : Counted(docSets[n], docSets'[n], MakesSet(j, n), MakesSet(x, n),
                                     faults' = faults + 1)
      /\ \A s \in Skills : Counted(personas[s], personas'[s], MakesPersona(j, s),
                                   MakesPersona(x, s), faults' = faults + 1)
      /\ Counted(demos, demos', j.newDemo, x.newDemo, FALSE)
  BY <1>1, <1>2 DEF Counted
<1>4. \A s \in Skills : x.ids[s] <= personas'[s] /\ personas[s] <= personas'[s]
  BY JobCounts
<1> QED BY <1>1, <1>3, <1>4, JobCounts, CountStep

\* The row of a job gets only the fields of a step that does not count.
LEMMA AsideCounts ==
    ASSUME SeedInv, Counts, NEW p \in Seeders,
           \/ \E cmd \in Commands : Start(p, cmd)
           \/ LookAtSkills(p) \/ CommitSkills(p) \/ LookAtPrompts(p) \/ LookAtDemo(p)
    PROVE  Counts'
<1>1. PICK j : j = jobs[p]
  OBVIOUS
<1>2. /\ j \in JobRow /\ (\A s \in Skills : j.ids[s] <= personas[s]) /\ demos \in Nat
      /\ j.step # "ensure" => j.at = 1
      /\ faults \in 0..FaultsAlone /\ faults <= faults
  BY <1>1, JobCounts
<1>3. UNCHANGED <<golds, docSets, personas, demos, faults>>
  BY DEF Start, LookAtSkills, CommitSkills, LookAtPrompts, LookAtDemo, databaseVars, onyxVars
<1> SUFFICES \E x \in JobRow :
               /\ jobs' = [jobs EXCEPT ![p] = x] /\ x.step # "ensure" /\ x.at = 1
               /\ x.ids = j.ids /\ (x.newDemo => j.newDemo \/ demos = 0)
  <2> SUFFICES ASSUME NEW x \in JobRow, jobs' = [jobs EXCEPT ![p] = x], x.step # "ensure",
                      x.at = 1, x.ids = j.ids, x.newDemo => j.newDemo \/ demos = 0
               PROVE  Counts'
    OBVIOUS
  <2>1. Counted(demos, demos', jobs[p].newDemo, x.newDemo, FALSE)
    BY <1>1, <1>3 DEF Counted
  <2>2. \A s \in Skills : x.ids[s] <= personas[s]
    BY <1>2
  <2>3. demos' \in Nat /\ faults' \in 0..FaultsAlone /\ faults <= faults'
    BY <1>2, <1>3
  <2> QED BY <1>3, <2>1, <2>2, <2>3, CountAside
<1>4. ASSUME NEW cmd \in Commands, Start(p, cmd)
      PROVE  \E x \in JobRow :
               /\ jobs' = [jobs EXCEPT ![p] = x] /\ x.step # "ensure" /\ x.at = 1
               /\ x.ids = j.ids /\ (x.newDemo => j.newDemo \/ demos = 0)
  <2>1. PICK x : x = [NoJob EXCEPT !.cmd = cmd, !.step = IF cmd = "docsets" THEN "list" ELSE "skills"]
    OBVIOUS
  <2>2. jobs' = [jobs EXCEPT ![p] = x] /\ j = NoJob
    BY <1>1, <1>4, <2>1 DEF Start
  <2>3. x \in JobRow /\ x.step # "ensure" /\ x.at = 1 /\ x.ids = NoJob.ids /\ x.newDemo = FALSE
    BY <2>1, NoJobType DEF JobRow
  <2> QED BY <2>2, <2>3
<1>5. CASE LookAtSkills(p)
  <2>1. PICK x : x = [j EXCEPT !.step = "insert", !.missing = Skills \ rows]
    OBVIOUS
  <2>2. jobs' = [jobs EXCEPT ![p] = x] /\ j.step = "skills"
    BY <1>1, <1>2, <1>5, <2>1 DEF LookAtSkills, JobRow
  <2>3. x \in JobRow /\ x.step = "insert" /\ x.at = j.at /\ x.ids = j.ids /\ x.newDemo = j.newDemo
    BY <1>2, <2>1 DEF JobRow
  <2> QED BY <1>2, <2>2, <2>3
<1>6. CASE CommitSkills(p)
  <2>1. PICK x : x = [j EXCEPT !.missing = {},
                               !.step = IF j.cmd = "seed" THEN "coverage" ELSE "prompts"]
    OBVIOUS
  <2>2. jobs' = [jobs EXCEPT ![p] = x] /\ j.step = "insert"
    BY <1>1, <1>2, <1>6, <2>1 DEF CommitSkills, JobRow
  <2>3. /\ x \in JobRow /\ x.step \in {"coverage", "prompts"} /\ x.at = j.at /\ x.ids = j.ids
        /\ x.newDemo = j.newDemo
    BY <1>2, <2>1 DEF JobRow
  <2> QED BY <1>2, <2>2, <2>3
<1>7. CASE LookAtPrompts(p)
  <2>1. PICK x : x = [j EXCEPT !.drafts = Skills \ prompted,
                               !.step = IF j.cmd = "demo" THEN "demo" ELSE "commit"]
    OBVIOUS
  <2>2. jobs' = [jobs EXCEPT ![p] = x] /\ j.step = "prompts"
    BY <1>1, <1>2, <1>7, <2>1 DEF LookAtPrompts, JobRow
  <2>3. /\ x \in JobRow /\ x.step \in {"demo", "commit"} /\ x.at = j.at /\ x.ids = j.ids
        /\ x.newDemo = j.newDemo
    BY <1>2, <2>1 DEF JobRow
  <2> QED BY <1>2, <2>2, <2>3
<1>8. CASE LookAtDemo(p)
  <2>1. PICK x : x = [j EXCEPT !.step = "commit", !.newTopic = (topic = "none"),
                               !.newDemo = (demos = 0)]
    OBVIOUS
  <2>2. jobs' = [jobs EXCEPT ![p] = x] /\ j.step = "demo"
    BY <1>1, <1>2, <1>8, <2>1 DEF LookAtDemo, JobRow
  <2>3. /\ x \in JobRow /\ x.step = "commit" /\ x.at = j.at /\ x.ids = j.ids
        /\ x.newDemo = (demos = 0)
    BY <1>2, <2>1 DEF JobRow
  <2> QED BY <1>2, <2>2, <2>3
<1> QED BY <1>4, <1>5, <1>6, <1>7, <1>8

\* A command that ends, done, refused or dead.
LEMMA EndCounts ==
    ASSUME SeedInv, Counts, NEW p \in Seeders, CommitSeed(p) \/ FailJob(p) \/ AbortJob(p)
    PROVE  Counts'
<1>1. /\ demos \in Nat /\ faults \in 0..FaultsAlone
      /\ FaultsAlone \in Nat /\ FaultsTogether \in 0..FaultsAlone
  BY JobCounts, SeedBoundsAreNumbers
<1>2. EndJob(p) /\ UNCHANGED <<golds, docSets, personas>>
  BY DEF CommitSeed, FailJob, AbortJob, databaseVars, onyxVars
<1>3. demos' = demos \/ (demos' = demos + 1 /\ jobs[p].newDemo)
  BY DEF CommitSeed, AddDemo, FailJob, AbortJob, databaseVars
<1>4. faults' = faults \/ (faults < MaxFaults /\ faults' = faults + 1)
  BY DEF CommitSeed, FailJob, AbortJob
<1>5. MaxFaults \in 0..FaultsAlone
  BY <1>1 DEF MaxFaults
<1>6. demos' \in Nat /\ faults' \in 0..FaultsAlone /\ faults <= faults'
  BY <1>1, <1>3, <1>4, <1>5
<1> QED BY <1>2, <1>3, <1>6, CountEnd

LEMMA CheckCoverageCounts ==
    ASSUME SeedInv, Counts, NEW p \in Seeders, CheckCoverage(p) PROVE Counts'
<1>1. PICK j : j = jobs[p]
  OBVIOUS
<1>2. /\ j \in JobRow /\ (\A s \in Skills : j.ids[s] <= personas[s]) /\ demos \in Nat
      /\ j.step # "ensure" => j.at = 1
      /\ faults \in 0..FaultsAlone /\ faults <= faults
  BY <1>1, JobCounts
<1>3. /\ UNCHANGED <<golds, docSets, personas, demos, faults>> /\ j.step = "coverage"
      /\ EndJob(p) \/ Goto(p, "list")
  BY <1>1 DEF CheckCoverage, databaseVars, onyxVars
<1>4. demos' \in Nat /\ faults' \in 0..FaultsAlone /\ faults <= faults'
  BY <1>2, <1>3
<1>5. CASE EndJob(p)
  BY <1>3, <1>4, <1>5, CountEnd
<1>6. CASE Goto(p, "list")
  <2>1. PICK x : x = [j EXCEPT !.step = "list"]
    OBVIOUS
  <2>2. jobs' = [jobs EXCEPT ![p] = x]
    BY <1>1, <1>6, <2>1 DEF Goto
  <2>3. x \in JobRow /\ x.step = "list" /\ x.at = j.at /\ x.ids = j.ids /\ x.newDemo = j.newDemo
    BY <1>2, <2>1 DEF JobRow
  <2>4. Counted(demos, demos', jobs[p].newDemo, x.newDemo, FALSE)
    BY <1>1, <1>3, <2>3 DEF Counted
  <2> QED BY <1>2, <1>3, <1>4, <2>2, <2>3, <2>4, CountAside
<1> QED BY <1>3, <1>5, <1>6

\* A list of Onyx leaves to make what is not there.
LEMMA ListOnyxCounts ==
    ASSUME SeedInv, Counts, NEW p \in Seeders, ListOnyx(p) PROVE Counts'
<1> DEFINE seen == {n \in SetNames : docSets[n] > 0}
<1>1. PICK ids \in [Skills -> Copies] :
         /\ \A s \in Skills : IF personas[s] = 0 THEN ids[s] = 0 ELSE ids[s] \in 1..personas[s]
         /\ jobs' = [jobs EXCEPT ![p].step = "ensure", ![p].ids = ids, ![p].seen = seen]
  BY DEF ListOnyx
<1>2. PICK j : j = jobs[p]
  OBVIOUS
<1>3. /\ j \in JobRow /\ Shapes /\ demos \in Nat /\ j.at = 1
      /\ docSets \in [SetNames -> Nat] /\ personas \in [Skills -> Nat]
      /\ faults \in 0..FaultsAlone /\ faults <= faults
      /\ UNCHANGED <<golds, docSets, personas, demos, faults>>
  BY <1>2, JobCounts DEF ListOnyx, databaseVars, onyxVars
<1>4. /\ seen \in SUBSET SetNames /\ \A n \in SetNames : n \notin seen => docSets[n] = 0
      /\ ids \in [Skills -> Nat]
      /\ \A s \in Skills : ids[s] <= personas[s] /\ (ids[s] = 0 => personas[s] = 0)
  <2>1. \A n \in SetNames : n \notin seen => docSets[n] = 0
    BY <1>3
  <2>2. ASSUME NEW s \in Skills
        PROVE  ids[s] \in Nat /\ ids[s] <= personas[s] /\ (ids[s] = 0 => personas[s] = 0)
    BY <1>1, <1>3
  <2> QED BY <2>1, <2>2
<1> HIDE DEF seen
<1>5. PICK x : x = [j EXCEPT !.step = "ensure", !.ids = ids, !.seen = seen]
  OBVIOUS
<1>6. jobs' = [jobs EXCEPT ![p] = x]
  BY <1>1, <1>2, <1>3, <1>5 DEF JobRow
<1>7. /\ x \in JobRow /\ x.step = "ensure" /\ x.ids = ids /\ x.seen = seen
      /\ x.cmd = j.cmd /\ x.at = j.at /\ x.newDemo = j.newDemo
  BY <1>3, <1>4, <1>5 DEF JobRow
<1>8. x.at <= Len(Plan(x.cmd)) + 1
  BY <1>3, <1>7, PlanType
<1>9. \A s \in Skills : x.ids[s] <= personas'[s] /\ personas[s] <= personas'[s]
  BY <1>3, <1>4, <1>7
<1>10. /\ \A n \in SetNames : Counted(docSets[n], docSets'[n], MakesSet(j, n), MakesSet(x, n),
                                      faults' = faults + 1)
       /\ \A s \in Skills : Counted(personas[s], personas'[s], MakesPersona(j, s),
                                    MakesPersona(x, s), faults' = faults + 1)
       /\ Counted(demos, demos', j.newDemo, x.newDemo, FALSE)
  BY <1>3, <1>4, <1>7 DEF Counted, MakesSet, MakesPersona
<1> QED BY <1>2, <1>3, <1>6, <1>7, <1>8, <1>9, <1>10, CountStep

LEMMA AlongCounts ==
    ASSUME SeedInv, Counts, NEW p \in Seeders, SkipSet(p) \/ LinkSkill(p) PROVE Counts'
<1>1. PICK j : j = jobs[p]
  OBVIOUS
<1>2. /\ j \in JobRow /\ faults \in 0..FaultsAlone /\ faults <= faults
      /\ j.at + 1 \in Nat \ {0} /\ j.at <= j.at + 1
  BY <1>1, JobCounts DEF JobRow
<1>3. /\ UNCHANGED <<golds, docSets, personas, demos, faults>>
      /\ j.step = "ensure" /\ j.at <= Len(Plan(j.cmd))
      /\ Plan(j.cmd)[j.at][1] \in {"set", "link"}
      /\ \E drafts, sends :
            /\ Plan(j.cmd)[j.at][1] # "link" => drafts = j.drafts /\ sends = j.sends
            /\ drafts \in {j.drafts, j.drafts \cup {Plan(j.cmd)[j.at][2]}}
            /\ sends \in {j.sends, j.sends \cup {Plan(j.cmd)[j.at][2]}}
            /\ jobs' = [jobs EXCEPT ![p] =
                          [j EXCEPT !.at = @ + 1, !.drafts = drafts, !.sends = sends]]
  <2>1. CASE SkipSet(p)
    <3>1. [j EXCEPT !.at = @ + 1]
            = [j EXCEPT !.at = @ + 1, !.drafts = j.drafts, !.sends = j.sends]
      BY <1>2 DEF JobRow
    <3>2. jobs' = [jobs EXCEPT ![p] = [j EXCEPT !.at = @ + 1]]
      BY <1>1, <1>2, <2>1 DEF SkipSet, JobRow
    <3>3. /\ UNCHANGED <<golds, docSets, personas, demos, faults>>
          /\ j.step = "ensure" /\ j.at <= Len(Plan(j.cmd)) /\ Plan(j.cmd)[j.at][1] = "set"
      BY <1>1, <2>1 DEF SkipSet, Doing, Item, databaseVars, onyxVars
    <3> QED BY <3>1, <3>2, <3>3
  <2>2. CASE LinkSkill(p)
    <3> DEFINE s == Plan(j.cmd)[j.at][2]
               drafts == IF s \notin prompted THEN j.drafts \cup {s} ELSE j.drafts
               sends == IF j.ids[s] # linked[s] THEN j.sends \cup {s} ELSE j.sends
    <3>1. jobs' = [jobs EXCEPT ![p] = [j EXCEPT !.at = @ + 1, !.drafts = drafts, !.sends = sends]]
      BY <1>1, <1>2, <2>2 DEF LinkSkill, Item, JobRow
    <3>2. /\ drafts \in {j.drafts, j.drafts \cup {Plan(j.cmd)[j.at][2]}}
          /\ sends \in {j.sends, j.sends \cup {Plan(j.cmd)[j.at][2]}}
      OBVIOUS
    <3> HIDE DEF drafts, sends
    <3> QED BY <1>1, <2>2, <3>1, <3>2 DEF LinkSkill, Doing, Item, databaseVars, onyxVars
  <2> QED BY <2>1, <2>2
<1>4. PICK drafts, sends :
         /\ Plan(j.cmd)[j.at][1] # "link" => drafts = j.drafts /\ sends = j.sends
         /\ drafts \in {j.drafts, j.drafts \cup {Plan(j.cmd)[j.at][2]}}
         /\ sends \in {j.sends, j.sends \cup {Plan(j.cmd)[j.at][2]}}
         /\ jobs' = [jobs EXCEPT ![p] = [j EXCEPT !.at = @ + 1, !.drafts = drafts, !.sends = sends]]
  BY <1>3
<1>5. drafts \in SUBSET Skills /\ sends \in SUBSET Skills
  <2>1. /\ j.at \in 1..Len(Plan(j.cmd))
        /\ j.drafts \in SUBSET Skills /\ j.sends \in SUBSET Skills
    BY <1>2, <1>3, PlanType DEF JobRow
  <2>2. Plan(j.cmd)[j.at][1] = "link" => Plan(j.cmd)[j.at][2] \in Skills
    BY <2>1, ItemType
  <2> QED BY <1>4, <2>1, <2>2
<1>6. PICK x : x = [j EXCEPT !.at = @ + 1, !.drafts = drafts, !.sends = sends]
  OBVIOUS
<1>7. /\ x \in JobRow /\ x.step = j.step /\ x.cmd = j.cmd /\ x.seen = j.seen /\ x.ids = j.ids
      /\ x.at = j.at + 1 /\ x.newDemo = j.newDemo
  BY <1>2, <1>5, <1>6 DEF JobRow
<1>8. jobs' = [jobs EXCEPT ![p] = x]
  BY <1>4, <1>6
<1>9. x.at <= Len(Plan(x.cmd)) + 1
  <2>1. Len(Plan(x.cmd)) \in Nat /\ j.at \in Nat /\ j.at <= Len(Plan(x.cmd))
    BY <1>2, <1>3, <1>7, PlanType DEF JobRow
  <2> QED BY <1>7, <2>1
<1>10. faults' \in 0..FaultsAlone /\ faults <= faults' /\ j.at <= x.at
  BY <1>2, <1>3, <1>7
<1> QED BY <1>1, <1>3, <1>7, <1>8, <1>9, <1>10, CountAlong

\* A fault is counted, and there is a bound on them.
LEMMA FaultCounts ==
    ASSUME Counts, NEW p \in Seeders, NEW outcome, NEW creates, CountFault(p, outcome, creates)
    PROVE  /\ faults' \in 0..FaultsAlone /\ faults <= faults' /\ faults \in Nat
           /\ faults' = IF outcome = "done" THEN faults ELSE faults + 1
<1>1. faults \in 0..FaultsAlone /\ FaultsAlone \in Nat /\ FaultsTogether \in 0..FaultsAlone
  BY SeedBoundsAreNumbers DEF Counts
<1>2. MaxFaults \in 0..FaultsAlone
  BY <1>1 DEF MaxFaults
<1>3. (outcome # "done" => faults < MaxFaults)
      /\ faults' = IF outcome = "done" THEN faults ELSE faults + 1
  BY DEF CountFault
<1> QED BY <1>1, <1>2, <1>3

\* A try that got no answer: the job tries again where it is, or ends.
LEMMA RetryCounts ==
    ASSUME SeedInv, Counts, NEW p \in Seeders, NEW outcome, outcome # "done",
           jobs[p].step = "ensure", NEW x, x = AfterCall(p, outcome)
    PROVE  /\ x \in JobRow /\ x.at <= Len(Plan(x.cmd)) + 1
           /\ \A s \in Skills : x.ids[s] <= personas[s]
           /\ x.newDemo => jobs[p].newDemo
           /\ \A n : MakesSet(x, n) => MakesSet(jobs[p], n)
           /\ \A s : MakesPersona(x, s) => MakesPersona(jobs[p], s)
<1>1. PICK j : j = jobs[p]
  OBVIOUS
<1>2. /\ j \in JobRow /\ j.at <= Len(Plan(j.cmd)) + 1 /\ x \in JobRow
      /\ (\A s \in Skills : j.ids[s] <= personas[s]) /\ personas \in [Skills -> Nat]
  BY <1>1, JobCounts, AfterCallType
<1>3. CASE x = NoJob
  <2>1. x.at = 1 /\ x.step # "ensure" /\ x.newDemo = FALSE /\ \A s \in Skills : x.ids[s] = 0
    BY <1>3, NoJobType DEF NoJob
  <2> QED BY <1>2, <2>1, PlanType DEF MakesSet, MakesPersona
<1>4. CASE x # NoJob
  <2>1. /\ x.cmd = j.cmd /\ x.step = j.step /\ x.seen = j.seen /\ x.ids = j.ids
        /\ x.at = j.at /\ x.newDemo = j.newDemo
    BY <1>1, <1>4, AfterCallType
  <2>2. j.at <= x.at
    BY <1>2, <2>1 DEF JobRow
  <2> QED BY <1>1, <1>2, <2>1, <2>2, MakersStay
<1> QED BY <1>3, <1>4

\* The job that goes on after an answer.
LEMMA DoneCounts ==
    ASSUME NEW j \in JobRow, j.at <= Len(Plan(j.cmd)), NEW x, x = [j EXCEPT !.at = @ + 1, !.tries = 0]
    PROVE  /\ x \in JobRow /\ x.step = j.step /\ x.cmd = j.cmd /\ x.seen = j.seen
           /\ x.ids = j.ids /\ x.at = j.at + 1 /\ x.newDemo = j.newDemo
           /\ x.at <= Len(Plan(x.cmd)) + 1 /\ j.at <= x.at /\ j.at \in 1..Len(Plan(j.cmd))
<1>1. j.at + 1 \in Nat \ {0} /\ 0 \in 0..2 /\ j.at \in Nat \ {0} /\ Len(Plan(j.cmd)) \in Nat
  BY PlanType DEF JobRow
<1>2. /\ x \in JobRow /\ x.step = j.step /\ x.cmd = j.cmd /\ x.seen = j.seen
      /\ x.ids = j.ids /\ x.at = j.at + 1 /\ x.newDemo = j.newDemo
  BY <1>1 DEF JobRow
<1> QED BY <1>1, <1>2

LEMMA UpdatePersonaCounts ==
    ASSUME SeedInv, Counts, NEW p \in Seeders, NEW outcome, UpdatePersona(p, outcome)
    PROVE  Counts'
<1>1. PICK j : j = jobs[p]
  OBVIOUS
<1>2. /\ UNCHANGED <<golds, docSets, personas, demos>> /\ j.step = "ensure"
      /\ j.at <= Len(Plan(j.cmd)) /\ CountFault(p, outcome, FALSE)
      /\ jobs' = [jobs EXCEPT ![p] = AfterCall(p, outcome)]
  BY <1>1 DEF UpdatePersona, Doing, databaseVars, onyxVars
<1>3. j \in JobRow /\ faults' \in 0..FaultsAlone /\ faults <= faults'
  BY <1>1, <1>2, JobCounts, FaultCounts
<1>4. CASE outcome = "done"
  <2>1. PICK x : x = [j EXCEPT !.at = @ + 1, !.tries = 0]
    OBVIOUS
  <2>2. jobs' = [jobs EXCEPT ![p] = x]
    BY <1>1, <1>2, <1>4, <2>1 DEF AfterCall
  <2>3. /\ x \in JobRow /\ x.step = j.step /\ x.cmd = j.cmd /\ x.seen = j.seen
        /\ x.ids = j.ids /\ x.newDemo = j.newDemo
        /\ x.at <= Len(Plan(x.cmd)) + 1 /\ j.at <= x.at
    BY <1>2, <1>3, <2>1, DoneCounts
  <2> QED BY <1>1, <1>2, <1>3, <2>2, <2>3, CountAlong
<1>5. CASE outcome # "done"
  <2>1. PICK x : x = AfterCall(p, outcome)
    OBVIOUS
  <2>2. /\ x \in JobRow /\ x.at <= Len(Plan(x.cmd)) + 1
        /\ \A s \in Skills : x.ids[s] <= personas[s]
        /\ x.newDemo => j.newDemo
        /\ \A n : MakesSet(x, n) => MakesSet(j, n)
        /\ \A s : MakesPersona(x, s) => MakesPersona(j, s)
    BY <1>1, <1>2, <1>5, <2>1, RetryCounts
  <2>3. /\ \A n \in SetNames : Counted(docSets[n], docSets'[n], MakesSet(j, n), MakesSet(x, n),
                                       faults' = faults + 1)
        /\ \A s \in Skills : Counted(personas[s], personas'[s], MakesPersona(j, s),
                                     MakesPersona(x, s), faults' = faults + 1)
        /\ Counted(demos, demos', j.newDemo, x.newDemo, FALSE)
    BY <1>2, <2>2 DEF Counted
  <2>4. /\ docSets' \in [SetNames -> Nat] /\ personas' \in [Skills -> Nat] /\ demos' \in Nat
        /\ \A s \in Skills : x.ids[s] <= personas'[s] /\ personas[s] <= personas'[s]
    BY <1>2, <2>2, JobCounts
  <2>5. Shapes
    BY JobCounts
  <2> QED BY <1>1, <1>2, <1>3, <2>1, <2>2, <2>3, <2>4, <2>5, CountStep
<1> QED BY <1>4, <1>5

\* A document set more is of a job that was to make it, or of an answer that got lost.
LEMMA CreateSetCounts ==
    ASSUME SeedInv, Counts, NEW p \in Seeders, NEW outcome, CreateSet(p, outcome) PROVE Counts'
<1>1. PICK j : j = jobs[p]
  OBVIOUS
<1>2. PICK name : name = Plan(j.cmd)[j.at][2]
  OBVIOUS
<1>3. /\ UNCHANGED <<golds, personas, demos>> /\ j.step = "ensure" /\ name \notin j.seen
      /\ j.at <= Len(Plan(j.cmd)) /\ Plan(j.cmd)[j.at][1] = "set"
      /\ CountFault(p, outcome, TRUE)
      /\ jobs' = [jobs EXCEPT ![p] = AfterCall(p, outcome)]
      /\ docSets' = IF outcome \in {"done", "lost"} THEN [docSets EXCEPT ![name] = @ + 1] ELSE docSets
  BY <1>1, <1>2 DEF CreateSet, Doing, Item, databaseVars
<1>4. /\ j \in JobRow /\ Shapes /\ (\A s \in Skills : j.ids[s] <= personas[s]) /\ demos \in Nat
      /\ docSets \in [SetNames -> Nat] /\ personas \in [Skills -> Nat]
      /\ faults' \in 0..FaultsAlone /\ faults <= faults'
      /\ faults' = IF outcome = "done" THEN faults ELSE faults + 1
  BY <1>1, <1>3, JobCounts, FaultCounts
<1>5. j.at \in 1..Len(Plan(j.cmd)) /\ name \in SetNames /\ Plan(j.cmd)[j.at] = <<"set", name>>
  <2>1. j.at \in 1..Len(Plan(j.cmd))
    BY <1>3, <1>4, PlanType DEF JobRow
  <2> QED BY <1>2, <1>3, <2>1, ItemType
<1>6. /\ docSets' \in [SetNames -> Nat]
      /\ \A n \in SetNames : \/ docSets'[n] = docSets[n]
                             \/ n = name /\ docSets'[n] = docSets[n] + 1
  BY <1>3, <1>4, <1>5
<1>7. MakesSet(j, name)
  <2>1. ASSUME NEW k \in Past(j), Plan(j.cmd)[k] = <<"set", name>> PROVE FALSE
    <3>1. k \in 1..Len(Plan(j.cmd)) /\ k < j.at
      BY DEF Past
    <3>2. k = j.at
      BY <1>3, <1>5, <2>1, <3>1, SetsAreDistinct
    <3> QED BY <1>5, <3>1, <3>2
  <2> QED BY <1>3, <2>1 DEF MakesSet
<1>8. PICK x : x = AfterCall(p, outcome)
  OBVIOUS
<1>9. /\ x \in JobRow /\ x.at <= Len(Plan(x.cmd)) + 1
      /\ \A s \in Skills : x.ids[s] <= personas[s]
      /\ x.newDemo => j.newDemo
      /\ \A n : MakesSet(x, n) => MakesSet(j, n)
      /\ \A s : MakesPersona(x, s) => MakesPersona(j, s)
      /\ outcome = "done" => ~MakesSet(x, name)
  <2>1. CASE outcome = "done"
    <3>1. x = [j EXCEPT !.at = @ + 1, !.tries = 0]
      BY <1>1, <1>8, <2>1 DEF AfterCall
    <3>2. /\ x \in JobRow /\ x.step = j.step /\ x.cmd = j.cmd /\ x.seen = j.seen
          /\ x.ids = j.ids /\ x.at = j.at + 1 /\ x.newDemo = j.newDemo
          /\ x.at <= Len(Plan(x.cmd)) + 1 /\ j.at <= x.at
      BY <1>3, <1>4, <3>1, DoneCounts
    <3>3. j.at \in Past(x)
      BY <1>5, <3>2 DEF Past
    <3>4. ~MakesSet(x, name)
      BY <1>5, <3>2, <3>3 DEF MakesSet
    <3>5. (\A n : MakesSet(x, n) => MakesSet(j, n)) /\ \A s : MakesPersona(x, s) => MakesPersona(j, s)
      BY <1>4, <3>2, MakersStay
    <3> QED BY <1>4, <3>2, <3>4, <3>5
  <2>2. CASE outcome # "done"
    BY <1>1, <1>3, <1>8, <2>2, RetryCounts
  <2> QED BY <2>1, <2>2
<1>10. \A n \in SetNames : Counted(docSets[n], docSets'[n], MakesSet(j, n), MakesSet(x, n),
                                   faults' = faults + 1)
  BY <1>4, <1>6, <1>7, <1>9 DEF Counted
<1>11. /\ \A s \in Skills : Counted(personas[s], personas'[s], MakesPersona(j, s),
                                    MakesPersona(x, s), faults' = faults + 1)
       /\ Counted(demos, demos', j.newDemo, x.newDemo, FALSE)
  BY <1>3, <1>9 DEF Counted
<1>12. personas' \in [Skills -> Nat] /\ demos' \in Nat
       /\ \A s \in Skills : x.ids[s] <= personas'[s] /\ personas[s] <= personas'[s]
  BY <1>3, <1>4, <1>9
<1> QED BY <1>1, <1>3, <1>4, <1>6, <1>8, <1>9, <1>10, <1>11, <1>12, CountStep

\* A persona more is of a job that found none, or of an answer that got lost.
LEMMA CreatePersonaCounts ==
    ASSUME SeedInv, Counts, NEW p \in Seeders, NEW outcome, CreatePersona(p, outcome) PROVE Counts'
<1>1. PICK j : j = jobs[p]
  OBVIOUS
<1>2. PICK s : s = Plan(j.cmd)[j.at][2]
  OBVIOUS
<1>3. /\ UNCHANGED <<golds, docSets, demos>> /\ j.step = "ensure" /\ j.ids[s] = 0
      /\ j.at <= Len(Plan(j.cmd)) /\ Plan(j.cmd)[j.at][1] = "persona"
      /\ CountFault(p, outcome, TRUE)
      /\ jobs' = [jobs EXCEPT ![p] =
             IF outcome = "done" THEN [AfterCall(p, outcome) EXCEPT !.ids[s] = personas'[s]]
             ELSE AfterCall(p, outcome)]
      /\ personas' = IF outcome \in {"done", "lost"} THEN [personas EXCEPT ![s] = @ + 1]
                     ELSE personas
  <2>1. s = Item(p)[2] /\ CreatePersona(p, outcome)
    BY <1>1, <1>2 DEF Item
  <2>2. Doing(p, "persona") /\ UNCHANGED <<golds, docSets, demos>>
    BY <2>1 DEF CreatePersona, databaseVars
  <2>3. /\ j.ids[s] = 0 /\ CountFault(p, outcome, TRUE)
        /\ personas' = IF outcome \in {"done", "lost"} THEN [personas EXCEPT ![s] = @ + 1]
                       ELSE personas
    BY <1>1, <2>1 DEF CreatePersona
  <2>4. jobs' = [jobs EXCEPT ![p] =
               IF outcome = "done" THEN [AfterCall(p, outcome) EXCEPT !.ids[s] = personas'[s]]
               ELSE AfterCall(p, outcome)]
    BY <2>1, Zenon DEF CreatePersona
  <2> QED BY <1>1, <2>2, <2>3, <2>4 DEF Doing, Item
<1>4. /\ j \in JobRow /\ Shapes /\ (\A r \in Skills : j.ids[r] <= personas[r]) /\ demos \in Nat
      /\ docSets \in [SetNames -> Nat] /\ personas \in [Skills -> Nat]
      /\ faults' \in 0..FaultsAlone /\ faults <= faults'
      /\ faults' = IF outcome = "done" THEN faults ELSE faults + 1
  BY <1>1, <1>3, JobCounts, FaultCounts
<1>5. s \in Skills
  <2>1. j.at \in 1..Len(Plan(j.cmd))
    BY <1>3, <1>4, PlanType DEF JobRow
  <2> QED BY <1>2, <1>3, <2>1, ItemType
<1>6. /\ personas' \in [Skills -> Nat]
      /\ \A r \in Skills : personas[r] <= personas'[r]
      /\ \A r \in Skills : \/ personas'[r] = personas[r]
                           \/ r = s /\ personas'[r] = personas[r] + 1
  BY <1>3, <1>4, <1>5
<1>7. MakesPersona(j, s)
  BY <1>3 DEF MakesPersona
<1>8. PICK x \in JobRow :
         /\ jobs' = [jobs EXCEPT ![p] = x] /\ x.at <= Len(Plan(x.cmd)) + 1
         /\ \A r \in Skills : x.ids[r] <= personas'[r]
         /\ x.newDemo => j.newDemo
         /\ \A n : MakesSet(x, n) => MakesSet(j, n)
         /\ \A r \in Skills : MakesPersona(x, r) => MakesPersona(j, r)
         /\ outcome = "done" => ~MakesPersona(x, s)
  <2>1. CASE outcome = "done"
    <3>1. PICK y : y = [j EXCEPT !.at = @ + 1, !.tries = 0]
      OBVIOUS
    <3>2. /\ y \in JobRow /\ y.step = j.step /\ y.cmd = j.cmd /\ y.seen = j.seen
          /\ y.ids = j.ids /\ y.at = j.at + 1 /\ y.newDemo = j.newDemo
          /\ y.at <= Len(Plan(y.cmd)) + 1 /\ j.at <= y.at
      BY <1>3, <1>4, <3>1, DoneCounts
    <3>3. AfterCall(p, outcome) = y
      BY <1>1, <2>1, <3>1 DEF AfterCall
    <3>4. PICK ids : ids = [y.ids EXCEPT ![s] = personas'[s]]
      OBVIOUS
    <3>5. PICK x : x = [y EXCEPT !.ids = ids]
      OBVIOUS
    <3>6. personas'[s] \in Nat /\ personas'[s] = personas[s] + 1 /\ personas[s] \in Nat
      BY <1>3, <1>4, <1>5, <2>1
    <3>7. /\ ids \in [Skills -> Nat] /\ ids[s] = personas'[s]
          /\ \A r \in Skills \ {s} : ids[r] = y.ids[r]
      <4>1. y.ids \in [Skills -> Nat]
        BY <3>2 DEF JobRow
      <4> QED BY <1>5, <3>4, <3>6, <4>1
    <3>8. /\ x \in JobRow /\ x.step = y.step /\ x.cmd = y.cmd /\ x.seen = y.seen
          /\ x.ids = ids /\ x.at = y.at /\ x.newDemo = y.newDemo
      BY <3>2, <3>5, <3>7 DEF JobRow
    <3>9. jobs' = [jobs EXCEPT ![p] = x]
      <4>1. [y EXCEPT !.ids[s] = personas'[s]] = x
        BY <3>2, <3>4, <3>5 DEF JobRow
      <4> QED BY <1>3, <2>1, <3>3, <4>1
    <3>10. \A r \in Skills : x.ids[r] <= personas'[r]
      <4>1. j.ids \in [Skills -> Nat]
        BY <1>4 DEF JobRow
      <4>2. ASSUME NEW r \in Skills PROVE x.ids[r] <= personas'[r]
        <5>1. CASE r = s
          BY <3>6, <3>7, <3>8, <5>1
        <5>2. CASE r # s
          <6>1. x.ids[r] = j.ids[r] /\ j.ids[r] \in Nat /\ j.ids[r] <= personas[r]
            BY <1>4, <3>2, <3>7, <3>8, <4>1, <5>2
          <6> QED BY <1>4, <1>6, <6>1
        <5> QED BY <5>1, <5>2
      <4> QED BY <4>2
    <3>11. \A n : MakesSet(y, n) => MakesSet(j, n)
      BY <1>4, <3>2, MakersStay
    <3>12. \A n : MakesSet(x, n) => MakesSet(j, n)
      BY <3>8, <3>11 DEF MakesSet, Past
    <3>13. ~MakesPersona(x, s)
      BY <3>6, <3>7, <3>8 DEF MakesPersona
    <3>14. \A r \in Skills : MakesPersona(x, r) => MakesPersona(j, r)
      BY <3>2, <3>7, <3>8, <3>13 DEF MakesPersona
    <3>15. x.at <= Len(Plan(x.cmd)) + 1 /\ (x.newDemo => j.newDemo)
      BY <3>2, <3>8
    <3> QED BY <3>8, <3>9, <3>10, <3>12, <3>13, <3>14, <3>15
  <2>2. CASE outcome # "done"
    <3>1. PICK x : x = AfterCall(p, outcome)
      OBVIOUS
    <3>2. /\ x \in JobRow /\ x.at <= Len(Plan(x.cmd)) + 1
          /\ \A r \in Skills : x.ids[r] <= personas[r]
          /\ x.newDemo => j.newDemo
          /\ \A n : MakesSet(x, n) => MakesSet(j, n)
          /\ \A r : MakesPersona(x, r) => MakesPersona(j, r)
      BY <1>1, <1>3, <2>2, <3>1, RetryCounts
    <3>3. jobs' = [jobs EXCEPT ![p] = x]
      BY <1>3, <2>2, <3>1
    <3>4. \A r \in Skills : x.ids[r] <= personas'[r]
      <4>1. x.ids \in [Skills -> Nat]
        BY <3>2 DEF JobRow
      <4> QED BY <1>4, <1>6, <3>2, <4>1
    <3> QED BY <2>2, <3>2, <3>3, <3>4
  <2> QED BY <2>1, <2>2
<1>9. \A r \in Skills : Counted(personas[r], personas'[r], MakesPersona(j, r),
                                MakesPersona(x, r), faults' = faults + 1)
  <2>1. ASSUME NEW r \in Skills
        PROVE  Counted(personas[r], personas'[r], MakesPersona(j, r), MakesPersona(x, r),
                       faults' = faults + 1)
    <3>1. CASE personas'[r] = personas[r]
      BY <1>8, <3>1 DEF Counted
    <3>2. CASE r = s /\ personas'[r] = personas[r] + 1
      BY <1>4, <1>7, <1>8, <3>2 DEF Counted
    <3> QED BY <1>6, <3>1, <3>2
  <2> QED BY <2>1
<1>10. /\ \A n \in SetNames : Counted(docSets[n], docSets'[n], MakesSet(j, n), MakesSet(x, n),
                                      faults' = faults + 1)
       /\ Counted(demos, demos', j.newDemo, x.newDemo, FALSE)
  BY <1>3, <1>8 DEF Counted
<1>11. docSets' \in [SetNames -> Nat] /\ demos' \in Nat
  BY <1>3, <1>4
<1> QED BY <1>1, <1>3, <1>4, <1>6, <1>8, <1>9, <1>10, <1>11, CountStep

\* What the service does meanwhile.
LEMMA ServiceCounts ==
    ASSUME Counts, golds' \in [Skills -> 0..Minimum],
           UNCHANGED <<jobs, docSets, personas, demos, faults>>
    PROVE  Counts'
<1>1. /\ DemoMakers' = DemoMakers
      /\ \A n \in SetNames : SetMakers(n)' = SetMakers(n)
      /\ \A s \in Skills : PersonaMakers(s)' = PersonaMakers(s)
  BY DEF DemoMakers, SetMakers, PersonaMakers, MakesSet, MakesPersona, Past
<1>2. \A p \in Seeders : JobFits(jobs[p])'
  BY DEF Counts, JobFits
<1>3. /\ \A n \in SetNames : (docSets[n] + Cardinality(SetMakers(n))
                                 <= Cardinality(Seeders) + faults)'
      /\ \A s \in Skills : (personas[s] + Cardinality(PersonaMakers(s))
                                 <= Cardinality(Seeders) + faults)'
      /\ (demos + Cardinality(DemoMakers) <= Cardinality(Seeders))'
  BY <1>1 DEF Counts
<1>4. faults' \in 0..FaultsAlone
  BY DEF Counts
<1> QED BY <1>2, <1>3, <1>4 DEF Counts

LEMMA StepCounts == SeedInv /\ Counts /\ [Seed]_seedVars => Counts'
<1> SUFFICES ASSUME SeedInv, Counts, [Seed]_seedVars PROVE Counts'
  OBVIOUS
<1>1. golds \in [Skills -> 0..Minimum] /\ Minimum \in Nat
  BY SeedBoundsAreNumbers DEF Counts
<1>2. ASSUME NEW s \in Skills, GrowGold(s) PROVE Counts'
  <2>1. golds[s] + 1 \in 0..Minimum
    BY <1>1, <1>2 DEF GrowGold
  <2>2. golds' \in [Skills -> 0..Minimum]
    BY <1>1, <1>2, <2>1 DEF GrowGold
  <2> QED BY <1>2, <2>2, ServiceCounts DEF GrowGold, onyxVars
<1>3. CASE CreateConsoleTopic
  BY <1>1, <1>3, ServiceCounts DEF CreateConsoleTopic, onyxVars
<1>4. CASE UNCHANGED seedVars
  BY <1>1, <1>4, ServiceCounts DEF seedVars, databaseVars, onyxVars
<1> QED BY <1>2, <1>3, <1>4, AsideCounts, EndCounts, CheckCoverageCounts, ListOnyxCounts,
           AlongCounts, UpdatePersonaCounts, CreateSetCounts, CreatePersonaCounts DEF Seed

LEMMA CountsType == SeedInv /\ Counts => SeedTypeOK
<1> SUFFICES ASSUME SeedInv, Counts PROVE SeedTypeOK
  OBVIOUS
<1>1. /\ Shapes /\ faults \in Nat /\ faults <= FaultsAlone /\ FaultsAlone \in Nat
      /\ Cardinality(Seeders) \in Nat
  BY SeedBoundsAreNumbers, SeedersAreFinite DEF SeedInv, Counts
<1>2. /\ DemoMakers \in SUBSET Seeders /\ \A n \in SetNames : SetMakers(n) \in SUBSET Seeders
      /\ \A s \in Skills : PersonaMakers(s) \in SUBSET Seeders
  BY DEF DemoMakers, SetMakers, PersonaMakers
<1>3. /\ Cardinality(DemoMakers) \in Nat
      /\ \A n \in SetNames : Cardinality(SetMakers(n)) \in Nat
      /\ \A s \in Skills : Cardinality(PersonaMakers(s)) \in Nat
  BY <1>2, SeedersAreFinite
<1>4. demos \in Copies
  BY <1>1, <1>3 DEF Counts, Copies, Shapes
<1>5. \A n \in SetNames : docSets[n] \in Copies
  BY <1>1, <1>3 DEF Counts, Copies, Shapes
<1>6. \A s \in Skills : personas[s] \in Copies
  BY <1>1, <1>3 DEF Counts, Copies, Shapes
<1>7. \A s \in Skills, k \in Nat : k <= personas[s] => k \in Copies
  BY <1>1, <1>6 DEF Copies
<1>8. \A s \in Skills : linked[s] \in Copies
  <2>1. \A s \in Skills : linked[s] \in Nat /\ (linked[s] # 0 => linked[s] <= personas[s])
    BY <1>1 DEF SeedInv, LinkedSkillsCanGenerate, Shapes
  <2>2. 0 \in Copies
    BY <1>1 DEF Copies
  <2> QED BY <1>7, <2>1, <2>2
<1>9. ASSUME NEW p \in Seeders PROVE jobs[p] \in Job
  <2>1. PICK j : j = jobs[p]
    OBVIOUS
  <2>2. j \in JobRow /\ JobFits(j)
    BY <1>1, <2>1 DEF Counts, Shapes
  <2>3. j.ids \in [Skills -> Copies]
    BY <1>7, <2>2 DEF JobRow, JobFits
  <2>4. j.at \in 1..Len(Plan("seed")) + 1
    <3>1. /\ Len(Plan(j.cmd)) <= Len(Plan("seed"))
          /\ Len(Plan(j.cmd)) \in Nat /\ Len(Plan("seed")) \in Nat
      <4>1. Len(ConnectorSets) \in Nat /\ Len(SkillOrder) \in Nat
        BY OrdersAreSequences
      <4>2. Len(Plan("seed")) = Len(ConnectorSets) + 3 * Len(SkillOrder)
        BY PlanType
      <4>3. Len(Plan(j.cmd)) = Len(ConnectorSets) + (IF j.cmd = "seed" THEN 3 * Len(SkillOrder) ELSE 0)
        BY PlanType
      <4> QED BY <4>1, <4>2, <4>3
    <3>2. j.at \in Nat \ {0} /\ j.at <= Len(Plan(j.cmd)) + 1
      BY <2>2 DEF JobRow, JobFits
    <3> QED BY <3>1, <3>2
  <2> DEFINE places == 1..Len(Plan("seed")) + 1
  <2>5. j.at \in places
    BY <2>4
  <2> HIDE DEF places
  <2>6. j \in [cmd : Commands \cup {"none"},
               step : {"none", "skills", "insert", "coverage", "list", "ensure", "prompts", "demo",
                       "commit"},
               missing : SUBSET Skills, seen : SUBSET SetNames, ids : [Skills -> Copies],
               at : places, tries : 0..2, drafts : SUBSET Skills,
               sends : SUBSET Skills, newTopic : BOOLEAN, newDemo : BOOLEAN]
    BY <2>2, <2>3, <2>5 DEF JobRow
  <2> QED BY <2>1, <2>6 DEF places, Job
<1>10. /\ jobs \in [Seeders -> Job] /\ linked \in [Skills -> Copies]
       /\ docSets \in [SetNames -> Copies] /\ personas \in [Skills -> Copies]
  BY <1>1, <1>5, <1>6, <1>8, <1>9 DEF Shapes
<1>11. lost \in BOOLEAN /\ together \in BOOLEAN
  BY <1>1 DEF Shapes
<1>12. golds \in [Skills -> 0..Minimum] /\ faults \in 0..FaultsAlone
  BY DEF Counts
<1>13. rows \in SUBSET Skills /\ prompted \in SUBSET Skills /\ topic \in {"none", "demo", "user"}
  BY <1>1 DEF Shapes
<1> QED BY <1>4, <1>10, <1>11, <1>12, <1>13 DEF SeedTypeOK

-----------------------------------------------------------------------------
\* The inductive invariant holds in every reachable state.
THEOREM SeedInductive == SeedSpec => []SeedInv
BY InitSeedInv, StepSeedInv, PTL DEF SeedSpec

\* Wherever a command dies, whatever calls of Onyx fail, are lost and made again, and however
\* commands overlap, a skill linked to a persona can generate (onyx_seed.main).
THEOREM LinkedCanGenerate == SeedSpec => []LinkedSkillsCanGenerate
<1>1. SeedInv => LinkedSkillsCanGenerate
  BY DEF SeedInv
<1> QED BY <1>1, SeedInductive, PTL

\* Commands that run one at a time and lose no answer make nothing twice in Onyx, any number
\* of runs, refusals and deaths.
THEOREM OnePersona == SeedSpec => []OnePersonaPerSkill
<1>1. SeedInv => OnePersonaPerSkill
  BY DEF SeedInv
<1> QED BY <1>1, SeedInductive, PTL

\* The demo outputs are there once however many runs overlap, as long as the topic is theirs
\* (seed_demo_data).
THEOREM DemoOnce == SeedSpec => []DemoSeededOnce
<1>1. SeedInv => DemoSeededOnce
  BY DEF SeedInv, DemoState, DemoSeededOnce, Shapes
<1> QED BY <1>1, SeedInductive, PTL

\* Every variable has its type; what commands make twice in Onyx, overlapping and after lost
\* answers, is at most one copy per process and per fault (tenacity's three tries in the client).
THEOREM SeedTypeCorrect == SeedSpec => []SeedTypeOK
<1>1. SeedInv /\ Counts /\ [Seed]_seedVars => (SeedInv /\ Counts)'
  BY StepSeedInv, StepCounts
<1> QED BY <1>1, InitSeedInv, InitCounts, CountsType, PTL DEF SeedSpec
=============================================================================
