----------------------------- MODULE FeedbackGold -----------------------------
(***************************************************************************)
(* A reviewed artifact becomes a gold example: POST /feedback records the  *)
(* outcome of a review and may create the gold row in the same             *)
(* transaction, POST /feedback/{id}/gold creates it later.  Only the       *)
(* column gold_id of the feedback row tells that it was promoted.          *)
(***************************************************************************)
EXTENDS FiniteSets

CONSTANTS
    Feedback,   \* feedback ids
    Golds,      \* gold ids
    Produced,   \* values of the production outcomes recorded
    Promoters,  \* HTTP requests that may be in flight together
    NoRow

Roles    == {"exemplar", "regression", "counter_example", "canary"}
Outcomes == {"approved", "edited", "rejected"}

\* NULL is no key and no row (the assumption of the theorems).
NoRowIsNoKey ==
    NoRow \notin Golds \cup Roles \cup [outcome : Outcomes, gold : Golds \cup {NoRow}]
                \cup [feedback : Feedback, role : Roles]

VARIABLES
    feedback,   \* rows of artifact_feedback
    golds,      \* rows of gold_examples that came from feedback
    promotions, \* the requests in flight: feedback, role and the gold they return
    outcomes,   \* values of the rows of production_outcomes
    met         \* history: two requests have been in flight together

goldVars == <<feedback, golds, promotions, outcomes, met>>

Given == {f \in Feedback : feedback[f] # NoRow}
Kept  == {g \in Golds : golds[g] # NoRow}

NoPromotion == [feedback |-> NoRow, role |-> NoRow]

GoldInit ==
    /\ feedback = [f \in Feedback |-> NoRow]
    /\ golds = [g \in Golds |-> NoRow]
    /\ promotions = [q \in Promoters |-> NoPromotion]
    /\ outcomes = {} /\ met = FALSE

\* Bug: approved output may become a counter example.
AnyRole(outcome) == Roles

\* The roles an outcome allows.
RolesFor(outcome) == IF outcome = "rejected" THEN {"regression", "counter_example", "canary"}
                                             ELSE {"exemplar", "canary"}

\* create_gold_from_feedback inserts the gold and links the feedback row to it.
Keep(f, g, row, role) ==
    /\ golds' = [golds EXCEPT ![g] = [feedback |-> f, role |-> role]]
    /\ feedback' = [feedback EXCEPT ![f] = [row EXCEPT !.gold = g]]

-----------------------------------------------------------------------------
\* POST /feedback without a role, or with one: a role the outcome does not allow rolls the
\* feedback back with it (422).
Capture(f, outcome) ==
    /\ f \notin Given
    /\ feedback' = [feedback EXCEPT ![f] = [outcome |-> outcome, gold |-> NoRow]]
    /\ UNCHANGED <<golds, promotions, outcomes, met>>

CaptureGold(f, outcome, role) ==
    /\ f \notin Given /\ role \in RolesFor(outcome)
    /\ \E g \in Golds \ Kept : Keep(f, g, [outcome |-> outcome, gold |-> NoRow], role)
    /\ UNCHANGED <<promotions, outcomes, met>>

\* Bug: a promoted row is promoted again.
PromoteAgain(q, f, role) ==
    /\ promotions[q] = NoPromotion
    /\ role \in RolesFor(feedback[f].outcome)
    /\ promotions' = [promotions EXCEPT ![q] = [feedback |-> f, role |-> role]]
    /\ met' = (met \/ \E p \in Promoters \ {q} : promotions[p] # NoPromotion)
    /\ UNCHANGED <<feedback, golds, outcomes>>

\* POST /feedback/{id}/gold: a promoted row is returned as it is or refused (nothing is
\* written), another goes on if its outcome allows the role.
Promote(q, f, role) ==
    /\ promotions[q] = NoPromotion
    /\ feedback[f].gold = NoRow /\ role \in RolesFor(feedback[f].outcome)
    /\ promotions' = [promotions EXCEPT ![q] = [feedback |-> f, role |-> role]]
    /\ met' = (met \/ \E p \in Promoters \ {q} : promotions[p] # NoPromotion)
    /\ UNCHANGED <<feedback, golds, outcomes>>

CommitGold(q) ==
    LET r == promotions[q]
    IN  /\ r # NoPromotion
        /\ \E g \in Golds \ Kept : Keep(r.feedback, g, feedback[r.feedback], r.role)
        /\ promotions' = [promotions EXCEPT ![q] = NoPromotion]
        /\ UNCHANGED <<outcomes, met>>

\* An error or a crash before the commit.
GiveUpPromotion(q) ==
    /\ promotions[q] # NoPromotion
    /\ promotions' = [promotions EXCEPT ![q] = NoPromotion]
    /\ UNCHANGED <<feedback, golds, outcomes, met>>

\* POST /outcomes appends a row that only the summary reads.
RecordOutcome(v) == /\ v \notin outcomes /\ outcomes' = outcomes \cup {v}
                    /\ UNCHANGED <<feedback, golds, promotions, met>>

GoldNext ==
    \/ \E v \in Produced : RecordOutcome(v)
    \/ \E f \in Feedback, outcome \in Outcomes : Capture(f, outcome)
    \/ \E f \in Feedback, outcome \in Outcomes, role \in Roles : CaptureGold(f, outcome, role)
    \/ \E q \in Promoters, f \in Given, role \in Roles : Promote(q, f, role)
    \/ \E q \in Promoters : CommitGold(q) \/ GiveUpPromotion(q)

GoldSpec == GoldInit /\ [][GoldNext]_goldVars

-----------------------------------------------------------------------------
\* Every variable has its type.
GoldTypeOK ==
    /\ feedback \in [Feedback -> [outcome : Outcomes, gold : Golds \cup {NoRow}] \cup {NoRow}]
    /\ golds \in [Golds -> [feedback : Feedback, role : Roles] \cup {NoRow}]
    /\ promotions \in [Promoters -> [feedback : Feedback \cup {NoRow},
                                     role : Roles \cup {NoRow}]]
    /\ outcomes \subseteq Produced /\ met \in BOOLEAN

\* However promotions overlap, a promoted feedback row leads to a gold row that came from
\* it, every gold comes from feedback that was promoted, and no gold praises what a
\* reviewer rejected or condemns what one approved (create_gold_from_feedback).
GoldMatchesReview ==
    /\ \A f \in Given : feedback[f].gold # NoRow => feedback[f].gold \in Kept
                                                  /\ golds[feedback[f].gold].feedback = f
    /\ \A g \in Kept : LET f == golds[g].feedback
                       IN  /\ f \in Given /\ feedback[f].gold # NoRow
                           /\ golds[g].role = "exemplar" => feedback[f].outcome # "rejected"
                           /\ golds[g].role \in {"regression", "counter_example"}
                                => feedback[f].outcome = "rejected"

\* tests/unit/api/test_learning.py:361: promoting feedback to gold is idempotent, so a
\* feedback row has one gold.  It holds as long as promotions come one at a time, and fails
\* for two that overlap: nothing locks the feedback row.
OneGoldWhenSerial ==
    ~met => \A g, h \in Kept : golds[g].feedback = golds[h].feedback => g = h
=============================================================================
