------------------------------ MODULE Publishing ------------------------------
(***************************************************************************)
(* From the generation of an output to POST /v1/skills/{skill_id}/publish: *)
(* the confidence score, the export readiness, the guard over both, the    *)
(* log of the attempts and the trigger of the database that checks the     *)
(* readiness again.  Scores are per mille, rounded as in the code.         *)
(*                                                                         *)
(* An output never changes once it is stored, so a publication, which      *)
(* reads it and writes the log and the audit event in one transaction, is  *)
(* one step.  The examples' results do change between a generation and a   *)
(* publication.                                                            *)
(***************************************************************************)
EXTENDS Integers, FiniteSets

CONSTANTS
    Outputs,
    Regressions,            \* regression examples of the skill
    EvalScores, Freshness,  \* scores of the criteria and of the evidence, per mille
    Citations,              \* numbers of citations
    ConfidenceThreshold,
    ReadinessThreshold,     \* of the guard; the one of the trigger is a literal
    LineageTarget,          \* citations that make the lineage of a workflow's claims whole
    None

VARIABLES
    guarded,        \* whether the database has the trigger
    lastResult,     \* of each regression example: None, "pass" or "fail"
    outputs,        \* stored outputs
    log,            \* decisions logged for each output, each with its audit event
    failed          \* history: outputs whose publication ended in an error

publishVars == <<lastResult, outputs, log, failed>>

InitPublish ==
    /\ lastResult = [g \in Regressions |-> None]
    /\ outputs = [o \in Outputs |-> None]
    /\ log = [o \in Outputs |-> {}]
    /\ failed = {}

-----------------------------------------------------------------------------
(* Scores.                                                                 *)

Lesser(a, b) == IF a < b THEN a ELSE b

Rounded(n, d) == (2 * n + d) \div (2 * d)

\* Bug: the mean of the two scores in the place of their product.
MeanConfidence(eval, fresh, cites, passed) ==
    Rounded((eval + fresh) * 500 * Lesser(cites, 5), IF passed THEN 5000 ELSE 10000)

Confidence(eval, fresh, cites, passed) ==
    Rounded(eval * fresh * Lesser(cites, 5), IF passed THEN 5000 ELSE 10000)

\* Each argument is per mille.
Readiness(passed, confidence, gold, lineage, fresh, hygiene) ==
    IF passed
    THEN Rounded(200 * 1000 + 150 * confidence + 250 * gold + 200 * lineage
                     + 100 * fresh + 100 * hygiene, 1000)
    ELSE 0

Scored == {g \in Regressions : lastResult[g] \in {"pass", "fail"}}
Passing == {g \in Scored : lastResult[g] = "pass"}

\* Bug: examples that were never run count as passed.
PassRateOfAll == IF Regressions = {} THEN None
                 ELSE (1000 * (Cardinality(Passing) + Cardinality(Regressions \ Scored)))
                          \div Cardinality(Regressions)

RegressionPassRate == IF Scored = {} THEN None
                      ELSE (1000 * Cardinality(Passing)) \div Cardinality(Scored)

SkillReadiness(passed, confidence, cites, fresh) ==
    IF passed /\ RegressionPassRate = None THEN None
    ELSE Readiness(passed, confidence, IF passed THEN RegressionPassRate ELSE 0,
                   IF cites > 0 THEN 1000 ELSE 0, fresh, 1000)

\* Scoped to a topic and a source, to one of them, or to none.
Hygienes == {1000, 850, 650}

WorkflowReadiness(passed, confidence, cites, fresh, hygiene) ==
    Readiness(passed, confidence, 1000, (1000 * Lesser(cites, LineageTarget)) \div LineageTarget,
              fresh, hygiene)

-----------------------------------------------------------------------------
Output(kind, passed, cites, fresh, confidence, readiness) ==
    [kind |-> kind, passed |-> passed, cites |-> cites, fresh |-> fresh,
     proven |-> Passing # {},       \* history: an example was known to pass
     confidence |-> confidence, readiness |-> readiness]

Store(o, output) ==
    /\ outputs[o] = None
    /\ outputs' = [outputs EXCEPT ![o] = output]
    /\ UNCHANGED <<lastResult, log, failed>>

\* An eval round records the result of an example.
RunExample(g, result) ==
    /\ lastResult' = [lastResult EXCEPT ![g] = result]
    /\ UNCHANGED <<outputs, log, failed>>

\* The locked runner decides what passes, the criteria what the score is.
GenerateOutput(o, passed, eval, fresh, cites) ==
    LET confidence == Confidence(eval, fresh, cites, passed)
    IN  Store(o, Output("skill", passed, cites, fresh, confidence,
                        SkillReadiness(passed, confidence, cites, fresh)))

\* The score is the share of the criteria that hold, and the gate asks for all of them, a
\* citation among them.
MeetsCriteria(eval) == eval = 1000

GenerateArtifact(o, eval, fresh, cites, hygiene) ==
    LET passed == MeetsCriteria(eval)
        confidence == Confidence(eval, fresh, cites, passed)
    IN  /\ passed => cites > 0
        /\ Store(o, Output("workflow", passed, cites, fresh, confidence,
                           WorkflowReadiness(passed, confidence, cites, fresh, hygiene)))

Allowed(x) == /\ x.passed
              /\ x.confidence # None /\ x.confidence >= ConfidenceThreshold
              /\ x.readiness # None /\ x.readiness >= ReadinessThreshold

Destinations == {"return-only", "confluence", "jira"}

DecisionOn(x, destination) ==
    IF Allowed(x) /\ destination = "return-only" THEN "published" ELSE "blocked"

\* Bug: the trigger checks what is blocked as well.
RefusesAnyRow(x, decision) == guarded /\ (x.readiness = None \/ x.readiness < 800)

\* The trigger of publish_log: it takes a row that does not publish.
Refuses(x, decision) == guarded /\ decision = "published"
                        /\ (x.readiness = None \/ x.readiness < 800)

\* A refused insert takes the audit event with it.
Publish(o, destination) ==
    LET decision == DecisionOn(outputs[o], destination)
    IN  /\ outputs[o] # None
        /\ IF Refuses(outputs[o], decision)
           THEN failed' = failed \cup {o} /\ UNCHANGED log
           ELSE log' = [log EXCEPT ![o] = @ \cup {decision}] /\ UNCHANGED failed
        /\ UNCHANGED <<lastResult, outputs>>

\* No step of the service changes the schema.
Serve ==
    /\ UNCHANGED guarded
    /\ \/ \E g \in Regressions, result \in {"pass", "fail"} : RunExample(g, result)
       \/ \E o \in Outputs, eval \in EvalScores, fresh \in Freshness, cites \in Citations :
            \/ \E passed \in BOOLEAN : GenerateOutput(o, passed, eval, fresh, cites)
            \/ \E hygiene \in Hygienes : GenerateArtifact(o, eval, fresh, cites, hygiene)
       \/ \E o \in Outputs, destination \in Destinations : Publish(o, destination)

PublishSpec == guarded \in BOOLEAN /\ InitPublish /\ [][Serve]_<<guarded, publishVars>>

-----------------------------------------------------------------------------
Score == 0..1000
StoredOutput == [kind : {"skill", "workflow"}, passed : BOOLEAN, cites : Citations,
                 fresh : Freshness, proven : BOOLEAN, confidence : Score,
                 readiness : Score \cup {None}]

\* What the theorems assume: scores are shares of one, and the readiness asked for is out of
\* reach without the examples and no less than the trigger asks for.
ScoresArePerMille ==
    /\ EvalScores \subseteq Score /\ Freshness \subseteq Score /\ Citations \subseteq Nat
    /\ ConfidenceThreshold \in 1..1000 /\ ReadinessThreshold \in 800..1000
    /\ LineageTarget \in Nat \ {0}
    /\ IsFiniteSet(Regressions)
    /\ None \notin StoredOutput

\* Every variable has its type; each score is a share of one.
PublishTypeOK ==
    /\ lastResult \in [Regressions -> {None, "pass", "fail"}]
    /\ outputs \in [Outputs -> StoredOutput \cup {None}]
    /\ log \in [Outputs -> SUBSET {"published", "blocked"}]
    /\ failed \in SUBSET Outputs

Published == {o \in Outputs : "published" \in log[o]}

\* README.md:93: stale evidence blocks, and so does missing evidence, although neither has a
\* threshold of its own: both reach the guard only as factors of the confidence.
PublishedHasFreshEvidence ==
    \A o \in Published : outputs[o].cites > 0 /\ outputs[o].fresh >= ConfidenceThreshold

\* The output of a skill is published only if some regression example of the skill was known
\* to pass when it was generated: full marks elsewhere do not make up for the examples.
PublishedIsProven ==
    \A o \in Published : outputs[o].kind = "skill" => outputs[o].proven

\* Every attempt on a stored output ends with its log and its audit event: the trigger never
\* refuses what the guard lets through, nor what it blocks.
EveryAttemptIsLogged == failed = {}
=============================================================================
