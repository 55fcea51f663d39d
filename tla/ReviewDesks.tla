------------------------------ MODULE ReviewDesks ------------------------------
(***************************************************************************)
(* The three review desks of /api/learning in one system: proposals, skill *)
(* candidates and gold examples.  They share no row, so steps of different *)
(* desks commute, and a behaviour works at one desk: the states are the    *)
(* sum of the three and not their product.                                 *)
(***************************************************************************)
EXTENDS LearningProposals, SkillMining, FeedbackGold

VARIABLE desk      \* the desk this behaviour works at

deskVars == <<vars, miningVars, goldVars, desk>>

DeskInit == /\ Init /\ MiningInit /\ GoldInit
            /\ desk \in {"proposals", "mining", "gold"}

AtProposals == desk = "proposals" /\ UNCHANGED <<miningVars, goldVars, desk>>
AtMining    == desk = "mining" /\ UNCHANGED <<vars, goldVars, desk>>
AtGold      == desk = "gold" /\ UNCHANGED <<vars, miningVars, desk>>

\* LearningProposals!Next, every action at its desk.
ProposalStep ==
    \/ \E o \in Outputs : AtProposals /\ Score(o)
    \/ AtProposals /\ Age
    \/ \E k \in Skills, n \in 1..MaxVersion : AtProposals /\ Activate(k, n)
    \/ \E q \in Requests :
         \/ AtProposals /\ Generate(q)
         \/ \E c \in requests[q].todo : AtProposals /\ LookAtCluster(q, c[1], c[2])
         \/ AtProposals /\ CommitProposals(q)
         \/ \E i \in Rows, doing \in {"approve", "reject"} : AtProposals /\ Review(q, i, doing)
         \/ AtProposals /\ TakeNumber(q)
         \/ AtProposals /\ CommitApproval(q)
         \/ AtProposals /\ CommitRejection(q)
         \/ AtProposals /\ GiveUp(q)

MiningStep ==
    \/ \E t \in Traces : AtMining /\ Record(t)
    \/ \E t \in Traces : AtMining /\ AgeTrace(t)
    \/ \E q \in Reviewers :
         \/ AtMining /\ GenerateCandidates(q)
         \/ \E d \in reviews[q].todo : AtMining /\ LookAtDraft(q, d)
         \/ AtMining /\ CommitCandidates(q)
         \/ \E c \in Filed, status \in {"approved", "rejected"} :
              AtMining /\ ReviewCandidate(q, c, status)
         \/ AtMining /\ CommitReview(q)
         \/ AtMining /\ GiveUpReview(q)

GoldStep ==
    \/ \E v \in Produced : AtGold /\ RecordOutcome(v)
    \/ \E f \in Feedback, outcome \in Outcomes : AtGold /\ Capture(f, outcome)
    \/ \E f \in Feedback, outcome \in Outcomes, role \in Roles :
         AtGold /\ CaptureGold(f, outcome, role)
    \/ \E q \in Promoters, f \in Given, role \in Roles :
         AtGold /\ Promote(q, f, role)
    \/ \E q \in Promoters : AtGold /\ CommitGold(q)
    \/ \E q \in Promoters : AtGold /\ GiveUpPromotion(q)

DeskNext == ProposalStep \/ MiningStep \/ GoldStep

DeskSpec == DeskInit /\ [][DeskNext]_deskVars

\* Every variable of every desk has its type.
DesksTypeOK == TypeOK /\ MiningTypeOK /\ GoldTypeOK
=============================================================================
