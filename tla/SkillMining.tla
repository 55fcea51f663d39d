----------------------------- MODULE SkillMining -----------------------------
(***************************************************************************)
(* Workflow traces become reviewed skill candidates: traces are recorded,  *)
(* POST /skill-candidates/generate groups the recent ones by workspace and *)
(* workflow and drafts a candidate with its contracts, and a reviewer      *)
(* approves or rejects it.  Nothing but the check of generation keeps a    *)
(* workflow from having two candidates.                                    *)
(***************************************************************************)
EXTENDS Integers, FiniteSets

CONSTANTS
    Traces,         \* traces that may be recorded
    Does,           \* workflow (with its workspace), privacy, sources, identifiers
    MinTraces,      \* dreamfi_skill_mining_min_traces
    Candidates,     \* candidate ids
    Reviewers,      \* HTTP requests that may be in flight together
    NoCandidate

Workflows == {Does[t].workflow : t \in Traces}

Operational == {"netxd", "sardine", "socure"}

VARIABLES
    recorded,   \* rows of workflow_traces in the window
    candidates, \* rows of skill_candidates
    reviews,    \* the requests in flight
    crowded     \* history: two requests have been in flight together

miningVars == <<recorded, candidates, reviews, crowded>>

-----------------------------------------------------------------------------
\* build_skill_candidate_drafts and the contracts of a draft.

Group(w) == {t \in recorded : Does[t].workflow = w /\ ~Does[t].private}

\* Every identifier that a trace of S needed.
InputsOfAny(S) == UNION {Does[t].identifiers : t \in S}

\* _required_inputs: what at least half of the traces needed.
RequiredInputs(S) ==
    {x \in InputsOfAny(S) :
       2 * Cardinality({t \in S : x \in Does[t].identifiers}) >= Cardinality(S)}

Sources(S) == UNION {Does[t].sources : t \in S}

\* Bug: one indexed source is enough for the indexed contract.
LenientMode(sources) == IF sources \subseteq Operational THEN "operational" ELSE "indexed"

\* _freshness_contract.
FreshnessMode(sources) == IF sources \cap Operational # {} THEN "operational" ELSE "indexed"

DraftOf(w) == [workflow |-> w, status |-> "draft", traces |-> Group(w),
               required |-> RequiredInputs(Group(w)),
               freshness |-> FreshnessMode(Sources(Group(w)))]

Candidate == [workflow : Workflows, status : {"draft", "approved", "rejected"},
              traces : SUBSET Traces, required : SUBSET InputsOfAny(Traces),
              freshness : {"operational", "indexed"}]

\* What the theorems assume.
TracesAreFinite == IsFiniteSet(Traces) /\ MinTraces \in Nat /\ NoCandidate \notin Candidate

NoReview == [doing |-> "idle", todo |-> {}, drafts |-> {}, candidate |-> NoCandidate]

ReviewRow ==
    [doing : {"idle", "generate", "approved", "rejected"},
     todo : SUBSET Candidate, drafts : SUBSET Candidate,
     candidate : Candidates \cup {NoCandidate}]

Filed == {c \in Candidates : candidates[c] # NoCandidate}

MiningInit ==
    /\ recorded = {} /\ candidates = [c \in Candidates |-> NoCandidate]
    /\ reviews = [q \in Reviewers |-> NoReview]
    /\ crowded = FALSE

BeginReview(q, r) ==
    /\ reviews[q] = NoReview
    /\ reviews' = [reviews EXCEPT ![q] = r]
    /\ crowded' = (crowded \/ \E p \in Reviewers \ {q} : reviews[p] # NoReview)

\* A refusal (422), a crash or a lost connection.
GiveUpReview(q) ==
    /\ reviews[q] # NoReview
    /\ reviews' = [reviews EXCEPT ![q] = NoReview]
    /\ UNCHANGED <<recorded, candidates, crowded>>

-----------------------------------------------------------------------------
\* record_workflow_trace; a trace is the same workflow for all its later readers.
Record(t) == /\ t \notin recorded /\ recorded' = recorded \cup {t}
             /\ UNCHANGED <<candidates, reviews, crowded>>

\* A trace leaves the window.
AgeTrace(t) == /\ t \in recorded /\ recorded' = recorded \ {t}
          /\ UNCHANGED <<candidates, reviews, crowded>>

\* generate_skill_candidates: one query for the traces, then one per draft.
GenerateCandidates(q) ==
    /\ BeginReview(q, [NoReview EXCEPT !.doing = "generate",
                                       !.todo = {DraftOf(w) : w \in
                                           {v \in Workflows : Cardinality(Group(v)) >= MinTraces}}])
    /\ UNCHANGED <<recorded, candidates>>

\* Bug: an approved candidate does not count.
OpenDraft(w) == \E c \in Filed : candidates[c].workflow = w /\ candidates[c].status = "draft"

Pending(w) == \E c \in Filed : /\ candidates[c].workflow = w
                               /\ candidates[c].status \in {"draft", "approved"}

LookAtDraft(q, d) ==
    /\ reviews' = [reviews EXCEPT ![q].todo = @ \ {d},
                                  ![q].drafts = IF Pending(d.workflow) THEN @ ELSE @ \cup {d}]
    /\ UNCHANGED <<recorded, candidates, crowded>>

CommitCandidates(q) ==
    LET r == reviews[q]
    IN  /\ r.doing = "generate" /\ r.todo = {}
        /\ \E id \in [r.drafts -> Candidates \ Filed] :
             /\ \A d, e \in r.drafts : id[d] = id[e] => d = e
             /\ candidates' = [c \in Candidates |->
                    IF \E d \in r.drafts : id[d] = c THEN CHOOSE d \in r.drafts : id[d] = c
                                                     ELSE candidates[c]]
        /\ reviews' = [reviews EXCEPT ![q] = NoReview]
        /\ UNCHANGED <<recorded, crowded>>

\* review_skill_candidate checks the status it loaded ...
ReviewCandidate(q, c, status) ==
    /\ candidates[c].status \in {"draft", "approved"}
    /\ BeginReview(q, [NoReview EXCEPT !.doing = status, !.candidate = c])
    /\ UNCHANGED <<recorded, candidates>>

\* ... and the commit writes the new one.
CommitReview(q) ==
    LET r == reviews[q]
    IN  /\ r.doing \in {"approved", "rejected"}
        /\ candidates' = [candidates EXCEPT ![r.candidate].status = r.doing]
        /\ reviews' = [reviews EXCEPT ![q] = NoReview]
        /\ UNCHANGED <<recorded, crowded>>

MiningNext ==
    \/ \E t \in Traces : Record(t) \/ AgeTrace(t)
    \/ \E q \in Reviewers :
         \/ GenerateCandidates(q)
         \/ \E d \in reviews[q].todo : LookAtDraft(q, d)
         \/ CommitCandidates(q)
         \/ \E c \in Filed, status \in {"approved", "rejected"} : ReviewCandidate(q, c, status)
         \/ CommitReview(q) \/ GiveUpReview(q)

MiningSpec == MiningInit /\ [][MiningNext]_miningVars

-----------------------------------------------------------------------------
\* Every variable has its type.
MiningTypeOK ==
    /\ recorded \subseteq Traces
    /\ candidates \in [Candidates -> Candidate \cup {NoCandidate}]
    /\ reviews \in [Reviewers -> ReviewRow]
    /\ crowded \in BOOLEAN

\* However requests overlap, what a reviewer is shown of a candidate follows from its
\* evidence alone: enough non-private traces, an exact-source contract when any of them
\* used an operational source, and an identifier required only if the traces without it
\* do not outnumber those with it (build_skill_candidate_drafts).
ContractsFollowEvidence ==
    \A c \in Filed :
      LET x == candidates[c]
      IN  /\ Cardinality(x.traces) >= MinTraces
          /\ \A t \in x.traces : ~Does[t].private
          /\ (\E t \in x.traces : Does[t].sources \cap Operational # {})
               => x.freshness = "operational"
          /\ \A k \in x.required :
               Cardinality({t \in x.traces : k \notin Does[t].identifiers})
                 <= Cardinality({t \in x.traces : k \in Does[t].identifiers})

\* docs/architecture/workflow-skill-mining.md:140: generation is idempotent while a draft
\* or approved candidate exists, that is a workflow has at most one.  It fails when two
\* generations overlap.
OneCandidatePerWorkflow ==
    \A c, d \in Filed : c # d /\ candidates[c].workflow = candidates[d].workflow
                        => "rejected" \in {candidates[c].status, candidates[d].status}

\* The same as long as requests have come one at a time.
OneCandidateWhenSerial == ~crowded => OneCandidatePerWorkflow
=============================================================================
