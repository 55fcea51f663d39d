--------------------------- MODULE ReviewDesks_proofs ---------------------------
(***************************************************************************)
(* Theorems of SkillMining and FeedbackGold, and of the three desks at     *)
(* once, for any number of traces, reviews, rows and overlapping requests. *)
(***************************************************************************)
EXTENDS ReviewDesks, LearningProposals_proofs, FiniteSetTheorems, TLAPS

(* The mining desk.                                                        *)

\* The contracts of x follow from the traces it names.
FollowsEvidence(x) ==
    /\ Cardinality(x.traces) >= MinTraces
    /\ \A t \in x.traces : ~Does[t].private
    /\ (\E t \in x.traces : Does[t].sources \cap Operational # {}) => x.freshness = "operational"
    /\ \A k \in x.required :
         Cardinality({t \in x.traces : k \notin Does[t].identifiers})
           <= Cardinality({t \in x.traces : k \in Does[t].identifiers})

\* The drafts of a request, looked at or not, follow from their evidence like the rows, and
\* a review is of a row that exists.
ReviewOK(r) ==
    /\ r \in ReviewRow
    /\ \A d \in r.todo \cup r.drafts : FollowsEvidence(d)
    /\ r.doing \in {"approved", "rejected"} => r.candidate \in Filed

\* As long as requests come one at a time: no draft of a request has a live row or a twin
\* for its workflow, and a reviewed candidate is not rejected.
ReviewAloneOK(r) ==
    /\ \A d \in r.drafts : ~Pending(d.workflow)
    /\ \A d, e \in r.todo \cup r.drafts : d.workflow = e.workflow => d = e
    /\ r.todo \cap r.drafts = {}
    /\ r.doing \in {"approved", "rejected"} =>
         candidates[r.candidate].status \in {"draft", "approved"}

OneReviewAtATime == \A p, q \in Reviewers : reviews[p] # NoReview /\ reviews[q] # NoReview => p = q

ReviewsOK == \A q \in Reviewers : ReviewOK(reviews[q])

ReviewsSerialOK == ~crowded => OneReviewAtATime /\ \A q \in Reviewers : ReviewAloneOK(reviews[q])

MiningInv == /\ MiningTypeOK /\ ContractsFollowEvidence /\ OneCandidateWhenSerial
             /\ ReviewsOK /\ ReviewsSerialOK

-----------------------------------------------------------------------------
LEMMA NoReviewOK == /\ NoReview \in ReviewRow /\ NoReview.todo = {} /\ NoReview.drafts = {}
                    /\ NoReview.doing = "idle" /\ ReviewOK(NoReview) /\ ReviewAloneOK(NoReview)
BY DEF NoReview, ReviewRow, ReviewOK, ReviewAloneOK

LEMMA EvidenceOfRows == ContractsFollowEvidence <=> \A c \in Filed : FollowsEvidence(candidates[c])
BY DEF ContractsFollowEvidence, FollowsEvidence

\* Half of the traces or more needed a required identifier, so those that did not are no more.
LEMMA HalfIsNoMinority ==
    ASSUME NEW S, IsFiniteSet(S), NEW k \in RequiredInputs(S)
    PROVE  Cardinality({t \in S : k \notin Does[t].identifiers})
             <= Cardinality({t \in S : k \in Does[t].identifiers})
<1> DEFINE with    == {t \in S : k \in Does[t].identifiers}
           without == {t \in S : k \notin Does[t].identifiers}
<1>1. 2 * Cardinality(with) >= Cardinality(S)
  BY DEF RequiredInputs
<1>2. without = S \ with /\ S \cap with = with
  OBVIOUS
<1>3. IsFiniteSet(with)
  BY FS_Subset
<1> HIDE DEF with, without
<1>4. Cardinality(S) \in Nat /\ Cardinality(with) \in Nat
  BY <1>3, FS_CardinalityType
<1>5. Cardinality(without) = Cardinality(S) - Cardinality(with)
  BY <1>2, FS_Difference
<1>6. Cardinality(without) <= Cardinality(with)
  BY <1>1, <1>4, <1>5
<1> QED BY <1>6 DEF with, without

\* What build_skill_candidate_drafts returns for a workflow with enough traces.
LEMMA DraftFollowsEvidence ==
    ASSUME TracesAreFinite, MiningTypeOK, NEW w \in Workflows, Cardinality(Group(w)) >= MinTraces
    PROVE  DraftOf(w) \in Candidate /\ FollowsEvidence(DraftOf(w)) /\ DraftOf(w).workflow = w
<1> DEFINE S == Group(w)
<1>1. S \in SUBSET Traces /\ (\A t \in S : ~Does[t].private)
  BY DEF Group, MiningTypeOK
<1>2. IsFiniteSet(S)
  BY <1>1, FS_Subset DEF TracesAreFinite
<1>3. RequiredInputs(S) \subseteq InputsOfAny(Traces)
  BY <1>1 DEF RequiredInputs, InputsOfAny
<1>4. (\E t \in S : Does[t].sources \cap Operational # {}) => FreshnessMode(Sources(S)) = "operational"
  BY DEF FreshnessMode, Sources
<1>5. FreshnessMode(Sources(S)) \in {"operational", "indexed"}
  BY DEF FreshnessMode
<1>6. \A k \in RequiredInputs(S) : Cardinality({t \in S : k \notin Does[t].identifiers})
                                    <= Cardinality({t \in S : k \in Does[t].identifiers})
  BY <1>2, HalfIsNoMinority
<1>7. DraftOf(w) = [workflow |-> w, status |-> "draft", traces |-> S, required |-> RequiredInputs(S),
                    freshness |-> FreshnessMode(Sources(S))]
  BY DEF DraftOf
<1>8. Cardinality(S) >= MinTraces
  OBVIOUS
<1> HIDE DEF S
<1>9. DraftOf(w) \in Candidate /\ DraftOf(w).workflow = w
  BY <1>1, <1>3, <1>5, <1>7 DEF Candidate
<1>10. FollowsEvidence(DraftOf(w))
  BY <1>1, <1>4, <1>6, <1>7, <1>8 DEF FollowsEvidence
<1> QED BY <1>9, <1>10

-----------------------------------------------------------------------------
\* A step of request q that leaves it in the state r; rows stay.
LEMMA ReviewStep ==
    ASSUME MiningInv, NEW q \in Reviewers, NEW r, reviews' = [reviews EXCEPT ![q] = r],
           ReviewOK(r)', Filed \subseteq Filed'
    PROVE  reviews' \in [Reviewers -> ReviewRow] /\ ReviewsOK'
<1>1. reviews \in [Reviewers -> ReviewRow] /\ r \in ReviewRow
  BY DEF MiningInv, MiningTypeOK, ReviewOK
<1>2. ASSUME NEW p \in Reviewers PROVE ReviewOK(reviews[p])'
  <2>1. CASE p = q
    <3>1. reviews'[p] = r
      BY <1>1, <2>1
    <3> QED BY <3>1 DEF ReviewOK
  <2>2. CASE p # q
    <3>1. reviews'[p] = reviews[p] /\ ReviewOK(reviews[p])
      BY <1>1, <2>2 DEF MiningInv, ReviewsOK
    <3> QED BY <3>1 DEF ReviewOK, FollowsEvidence
  <2> QED BY <2>1, <2>2
<1> QED BY <1>1, <1>2 DEF ReviewsOK

\* One that is alone stays alone.
LEMMA ReviewSerialStep ==
    ASSUME MiningInv, NEW q \in Reviewers, NEW r, reviews' = [reviews EXCEPT ![q] = r],
           ~crowded' => ~crowded /\ \A p \in Reviewers \ {q} : reviews[p] = NoReview,
           ~crowded' => ReviewAloneOK(r)'
    PROVE  ReviewsSerialOK'
<1> SUFFICES ASSUME ~crowded'
             PROVE  OneReviewAtATime' /\ \A p \in Reviewers : ReviewAloneOK(reviews[p])'
  BY DEF ReviewsSerialOK
<1>1. reviews \in [Reviewers -> ReviewRow] /\ \A p \in Reviewers \ {q} : reviews'[p] = NoReview
  BY DEF MiningInv, MiningTypeOK
<1>2. OneReviewAtATime'
  BY <1>1 DEF OneReviewAtATime
<1>3. ASSUME NEW p \in Reviewers PROVE ReviewAloneOK(reviews[p])'
  <2>1. CASE p = q
    <3>1. reviews'[p] = r
      BY <1>1, <2>1
    <3> QED BY <3>1 DEF ReviewAloneOK
  <2>2. CASE p # q
    BY <1>1, <2>2, NoReviewOK DEF ReviewAloneOK
  <2> QED BY <2>1, <2>2
<1> QED BY <1>2, <1>3

LEMMA ReviewAlone ==
    ASSUME MiningInv, NEW q \in Reviewers, reviews[q] # NoReview, crowded' = crowded
    PROVE  ~crowded' => ~crowded /\ \A p \in Reviewers \ {q} : reviews[p] = NoReview
BY DEF MiningInv, ReviewsSerialOK, OneReviewAtATime

\* A step that leaves the candidates alone.
LEMMA MiningReadStep ==
    ASSUME MiningInv, UNCHANGED candidates, recorded' \subseteq Traces, crowded' \in BOOLEAN,
           crowded => crowded', reviews' \in [Reviewers -> ReviewRow], ReviewsOK', ReviewsSerialOK'
    PROVE  MiningInv'
<1>1. MiningTypeOK'
  BY DEF MiningInv, MiningTypeOK
<1>2. ContractsFollowEvidence'
  BY DEF MiningInv, ContractsFollowEvidence, Filed
<1>3. OneCandidateWhenSerial'
  BY DEF MiningInv, OneCandidateWhenSerial, OneCandidatePerWorkflow, Filed
<1> QED BY <1>1, <1>2, <1>3 DEF MiningInv

\* A step outside the requests.
LEMMA MiningOutsideStep ==
    ASSUME MiningInv, UNCHANGED <<candidates, reviews, crowded>>, recorded' \subseteq Traces
    PROVE  MiningInv'
<1>1. Filed' = Filed /\ \A w : Pending(w)' <=> Pending(w)
  BY DEF Filed, Pending
<1>2. ReviewsOK'
  BY <1>1 DEF MiningInv, ReviewsOK, ReviewOK, FollowsEvidence
<1>3. ReviewsSerialOK'
  BY <1>1 DEF MiningInv, ReviewsSerialOK, OneReviewAtATime, ReviewAloneOK
<1>4. crowded' \in BOOLEAN /\ reviews' \in [Reviewers -> ReviewRow]
  BY DEF MiningInv, MiningTypeOK
<1> QED BY <1>2, <1>3, <1>4, MiningReadStep

\* Nothing of a request that ends is left.
LEMMA EndReviewStep ==
    ASSUME MiningInv, NEW q \in Reviewers, reviews[q] # NoReview,
           reviews' = [reviews EXCEPT ![q] = NoReview], crowded' = crowded, Filed \subseteq Filed'
    PROVE  reviews' \in [Reviewers -> ReviewRow] /\ ReviewsOK' /\ ReviewsSerialOK'
<1>1. ReviewOK(NoReview)' /\ ReviewAloneOK(NoReview)'
  BY NoReviewOK DEF ReviewOK, ReviewAloneOK
<1> QED BY <1>1, ReviewAlone, ReviewStep, ReviewSerialStep

LEMMA BeginReviewStep ==
    ASSUME MiningInv, NEW q \in Reviewers, NEW r, BeginReview(q, r)
    PROVE  /\ reviews' = [reviews EXCEPT ![q] = r]
           /\ crowded' \in BOOLEAN /\ (crowded => crowded')
           /\ ~crowded' => ~crowded /\ \A p \in Reviewers \ {q} : reviews[p] = NoReview
BY DEF MiningInv, MiningTypeOK, BeginReview

-----------------------------------------------------------------------------
LEMMA InitMining == MiningInit => MiningInv
<1> SUFFICES ASSUME MiningInit PROVE MiningInv
  OBVIOUS
<1>1. Filed = {} /\ recorded = {}
  BY DEF MiningInit, Filed
<1>2. MiningTypeOK
  <2>1. recorded \subseteq Traces /\ candidates \in [Candidates -> Candidate \cup {NoCandidate}]
    BY <1>1 DEF MiningInit
  <2>2. reviews \in [Reviewers -> ReviewRow]
    BY NoReviewOK DEF MiningInit
  <2>3. crowded \in BOOLEAN
    BY DEF MiningInit
  <2> QED BY <2>1, <2>2, <2>3 DEF MiningTypeOK
<1>3. ContractsFollowEvidence /\ OneCandidateWhenSerial
  BY <1>1 DEF ContractsFollowEvidence, OneCandidateWhenSerial, OneCandidatePerWorkflow
<1>4. ReviewsOK
  BY NoReviewOK DEF MiningInit, ReviewsOK
<1>5. ReviewsSerialOK
  BY NoReviewOK DEF MiningInit, ReviewsSerialOK, OneReviewAtATime
<1> QED BY <1>2, <1>3, <1>4, <1>5 DEF MiningInv

LEMMA GenerateCandidatesKeeps ==
    ASSUME TracesAreFinite, MiningInv, NEW q \in Reviewers, GenerateCandidates(q) PROVE MiningInv'
<1> DEFINE enough == {v \in Workflows : Cardinality(Group(v)) >= MinTraces}
           todo == {DraftOf(w) : w \in enough}
<1>1. \A w \in enough : /\ DraftOf(w) \in Candidate /\ FollowsEvidence(DraftOf(w))
                        /\ DraftOf(w).workflow = w
  BY DraftFollowsEvidence DEF MiningInv
<1>2. /\ todo \subseteq Candidate /\ \A d \in todo : FollowsEvidence(d)
      /\ \A d, e \in todo : d.workflow = e.workflow => d = e
  BY <1>1
<1>3. PICK x : x = [NoReview EXCEPT !.doing = "generate", !.todo = todo]
  OBVIOUS
<1>4. BeginReview(q, x) /\ UNCHANGED <<recorded, candidates>>
  BY <1>3 DEF GenerateCandidates
<1> HIDE DEF todo
<1>5. x \in ReviewRow /\ x.doing = "generate" /\ x.todo = todo /\ x.drafts = {}
  BY <1>2, <1>3, NoReviewOK DEF ReviewRow
<1>6. ReviewOK(x)'
  BY <1>2, <1>5 DEF ReviewOK, FollowsEvidence
<1>7. ReviewAloneOK(x)'
  BY <1>2, <1>5 DEF ReviewAloneOK
<1>8. Filed' = Filed
  BY <1>4 DEF Filed
<1>9. reviews' \in [Reviewers -> ReviewRow] /\ ReviewsOK'
  BY <1>4, <1>6, <1>8, BeginReviewStep, ReviewStep
<1>10. ReviewsSerialOK' /\ crowded' \in BOOLEAN /\ (crowded => crowded')
  BY <1>4, <1>7, BeginReviewStep, ReviewSerialStep
<1>11. recorded' \subseteq Traces
  BY <1>4 DEF MiningInv, MiningTypeOK
<1> QED BY <1>4, <1>9, <1>10, <1>11, MiningReadStep

LEMMA LookAtDraftKeeps ==
    ASSUME MiningInv, NEW q \in Reviewers, NEW d \in reviews[q].todo, LookAtDraft(q, d)
    PROVE  MiningInv'
<1> DEFINE todo == reviews[q].todo \ {d}
           drafts == IF Pending(d.workflow) THEN reviews[q].drafts ELSE reviews[q].drafts \cup {d}
<1>1. /\ reviews \in [Reviewers -> ReviewRow] /\ reviews[q] \in ReviewRow
      /\ ReviewOK(reviews[q]) /\ reviews[q] # NoReview
  BY NoReviewOK DEF MiningInv, MiningTypeOK, ReviewsOK
<1>2. PICK x : x = [reviews[q] EXCEPT !.todo = todo, !.drafts = drafts]
  OBVIOUS
<1>3. reviews' = [reviews EXCEPT ![q] = x] /\ UNCHANGED <<recorded, candidates, crowded>>
  BY <1>1, <1>2 DEF LookAtDraft, ReviewRow
<1>4. todo \in SUBSET Candidate /\ drafts \in SUBSET Candidate
  BY <1>1 DEF ReviewRow
<1>5. todo \cup drafts \subseteq reviews[q].todo \cup reviews[q].drafts
  OBVIOUS
<1>6. ASSUME ~crowded
      PROVE  /\ \A e \in drafts : ~Pending(e.workflow)
             /\ todo \cap drafts = {}
             /\ \A e, f \in todo \cup drafts : e.workflow = f.workflow => e = f
  <2>1. ReviewAloneOK(reviews[q])
    BY <1>6 DEF MiningInv, ReviewsSerialOK
  <2>2. \A e \in drafts : ~Pending(e.workflow)
    BY <2>1 DEF ReviewAloneOK
  <2>3. todo \cap drafts = {}
    BY <2>1 DEF ReviewAloneOK
  <2> QED BY <1>5, <2>1, <2>2, <2>3 DEF ReviewAloneOK
<1> HIDE DEF todo, drafts
<1>7. /\ x \in ReviewRow /\ x.todo = todo /\ x.drafts = drafts
      /\ x.doing = reviews[q].doing /\ x.candidate = reviews[q].candidate
  BY <1>1, <1>2, <1>4 DEF ReviewRow
<1>8. Filed' = Filed /\ \A w : Pending(w)' <=> Pending(w)
  BY <1>3 DEF Filed, Pending
<1>9. ReviewOK(x)'
  BY <1>1, <1>5, <1>7, <1>8 DEF ReviewOK, FollowsEvidence
<1>10. ~crowded' => ReviewAloneOK(x)'
  <2> SUFFICES ASSUME ~crowded PROVE ReviewAloneOK(x)'
    BY <1>3
  <2>1. ReviewAloneOK(reviews[q])
    BY DEF MiningInv, ReviewsSerialOK
  <2> QED BY <1>3, <1>6, <1>7, <1>8, <2>1 DEF ReviewAloneOK
<1>11. reviews' \in [Reviewers -> ReviewRow] /\ ReviewsOK'
  BY <1>3, <1>8, <1>9, ReviewStep
<1>12. ReviewsSerialOK'
  BY <1>1, <1>3, <1>10, ReviewAlone, ReviewSerialStep
<1>13. recorded' \subseteq Traces /\ crowded' \in BOOLEAN
  BY <1>3 DEF MiningInv, MiningTypeOK
<1> QED BY <1>3, <1>11, <1>12, <1>13, MiningReadStep

LEMMA ReviewCandidateKeeps ==
    ASSUME MiningInv, NEW q \in Reviewers, NEW c \in Filed,
           NEW status \in {"approved", "rejected"},
           ReviewCandidate(q, c, status)
    PROVE  MiningInv'
<1>1. PICK x : x = [NoReview EXCEPT !.doing = status, !.candidate = c]
  OBVIOUS
<1>2. /\ BeginReview(q, x) /\ UNCHANGED <<recorded, candidates>>
      /\ candidates[c].status \in {"draft", "approved"}
  BY <1>1 DEF ReviewCandidate
<1>3. x \in ReviewRow /\ x.doing = status /\ x.candidate = c /\ x.todo = {} /\ x.drafts = {}
  BY <1>1, NoReviewOK DEF ReviewRow, Filed
<1>4. Filed' = Filed
  BY <1>2 DEF Filed
<1>5. ReviewOK(x)' /\ ReviewAloneOK(x)'
  BY <1>2, <1>3, <1>4 DEF ReviewOK, ReviewAloneOK
<1>6. reviews' \in [Reviewers -> ReviewRow] /\ ReviewsOK'
  BY <1>2, <1>4, <1>5, BeginReviewStep, ReviewStep
<1>7. ReviewsSerialOK' /\ crowded' \in BOOLEAN /\ (crowded => crowded')
  BY <1>2, <1>5, BeginReviewStep, ReviewSerialStep
<1>8. recorded' \subseteq Traces
  BY <1>2 DEF MiningInv, MiningTypeOK
<1> QED BY <1>2, <1>6, <1>7, <1>8, MiningReadStep

LEMMA CommitReviewKeeps ==
    ASSUME TracesAreFinite, MiningInv, NEW q \in Reviewers, CommitReview(q) PROVE MiningInv'
<1> DEFINE c == reviews[q].candidate
<1>1. PICK s : s = reviews[q].doing
  OBVIOUS
<1>2. /\ s \in {"approved", "rejected"} /\ reviews' = [reviews EXCEPT ![q] = NoReview]
      /\ candidates' = [candidates EXCEPT ![c].status = s] /\ UNCHANGED <<recorded, crowded>>
  BY <1>1 DEF CommitReview
<1>3. reviews[q] # NoReview /\ c \in Filed
  BY <1>1, <1>2, NoReviewOK DEF MiningInv, ReviewsOK, ReviewOK
<1>4. /\ candidates \in [Candidates -> Candidate \cup {NoCandidate}]
      /\ c \in Candidates /\ candidates[c] \in Candidate
  BY <1>3 DEF MiningInv, MiningTypeOK, Filed
<1>5. ASSUME ~crowded PROVE candidates[c].status \in {"draft", "approved"}
  BY <1>1, <1>2, <1>5 DEF MiningInv, ReviewsSerialOK, ReviewAloneOK
<1> HIDE DEF c
<1>6. PICK x : x = [candidates[c] EXCEPT !.status = s]
  OBVIOUS
<1>7. /\ x \in Candidate /\ x.status = s /\ x.workflow = candidates[c].workflow
      /\ x.traces = candidates[c].traces /\ x.required = candidates[c].required
      /\ x.freshness = candidates[c].freshness
  BY <1>2, <1>4, <1>6 DEF Candidate
<1>8. candidates' = [candidates EXCEPT ![c] = x]
  BY <1>2, <1>4, <1>6 DEF Candidate
<1>9. /\ candidates' \in [Candidates -> Candidate \cup {NoCandidate}] /\ candidates'[c] = x
      /\ Filed' = Filed /\ \A e \in Filed : e # c => candidates'[e] = candidates[e]
  BY <1>3, <1>4, <1>7, <1>8 DEF Filed, TracesAreFinite
<1>10. reviews' \in [Reviewers -> ReviewRow] /\ ReviewsOK' /\ ReviewsSerialOK'
  BY <1>2, <1>3, <1>9, EndReviewStep
<1>11. MiningTypeOK'
  BY <1>2, <1>9, <1>10 DEF MiningInv, MiningTypeOK
<1>12. ContractsFollowEvidence'
  <2>1. \A e \in Filed : FollowsEvidence(candidates[e])
    BY EvidenceOfRows DEF MiningInv
  <2>2. FollowsEvidence(x)
    BY <1>3, <1>7, <2>1 DEF FollowsEvidence
  <2>3. \A e \in Filed' : FollowsEvidence(candidates'[e])
    BY <1>9, <2>1, <2>2
  <2> QED BY <2>3 DEF ContractsFollowEvidence, FollowsEvidence
<1>13. OneCandidateWhenSerial'
  <2> SUFFICES ASSUME ~crowded, NEW d \in Filed, NEW e \in Filed, d # e,
                      candidates'[d].workflow = candidates'[e].workflow
               PROVE  "rejected" \in {candidates'[d].status, candidates'[e].status}
    BY <1>2, <1>9 DEF OneCandidateWhenSerial, OneCandidatePerWorkflow
  <2>1. candidates[d].workflow = candidates[e].workflow
    BY <1>7, <1>9
  <2>2. "rejected" \in {candidates[d].status, candidates[e].status}
    BY <2>1 DEF MiningInv, OneCandidateWhenSerial, OneCandidatePerWorkflow
  <2> QED BY <1>5, <1>9, <2>2
<1> QED BY <1>10, <1>11, <1>12, <1>13 DEF MiningInv

LEMMA CommitCandidatesKeeps ==
    ASSUME TracesAreFinite, MiningInv, NEW q \in Reviewers, CommitCandidates(q) PROVE MiningInv'
<1> DEFINE drafts == reviews[q].drafts
<1>1. PICK id \in [drafts -> Candidates \ Filed] :
         /\ \A d, e \in drafts : id[d] = id[e] => d = e
         /\ candidates' = [c \in Candidates |-> IF \E d \in drafts : id[d] = c
                             THEN CHOOSE d \in drafts : id[d] = c ELSE candidates[c]]
  BY DEF CommitCandidates
<1>2. /\ reviews[q].doing = "generate" /\ reviews' = [reviews EXCEPT ![q] = NoReview]
      /\ UNCHANGED <<recorded, crowded>>
  BY DEF CommitCandidates
<1>3. /\ drafts \in SUBSET Candidate /\ reviews[q] # NoReview
      /\ \A d \in drafts : FollowsEvidence(d)
  BY <1>2, NoReviewOK DEF MiningInv, MiningTypeOK, ReviewRow, ReviewsOK, ReviewOK
<1>4. \A d \in drafts : id[d] \in Candidates \ Filed /\ candidates'[id[d]] = d
  <2> SUFFICES ASSUME NEW d \in drafts
               PROVE  id[d] \in Candidates \ Filed /\ candidates'[id[d]] = d
    OBVIOUS
  <2>1. (CHOOSE e \in drafts : id[e] = id[d]) = d
    BY <1>1
  <2> QED BY <1>1, <2>1
<1>5. \A c \in Candidates : (\A d \in drafts : id[d] # c) => candidates'[c] = candidates[c]
  BY <1>1
<1>6. \A c \in Filed : c \in Filed' /\ candidates'[c] = candidates[c]
  BY <1>4, <1>5 DEF Filed
<1>7. \A c \in Filed' : c \in Filed \/ \E d \in drafts : id[d] = c
  BY <1>5 DEF Filed
<1>8. candidates' \in [Candidates -> Candidate \cup {NoCandidate}]
  <2>1. \A c \in Candidates : candidates'[c] \in Candidate \cup {NoCandidate}
    BY <1>3, <1>4, <1>5 DEF MiningInv, MiningTypeOK
  <2> QED BY <1>1, <2>1
<1>9. reviews' \in [Reviewers -> ReviewRow] /\ ReviewsOK' /\ ReviewsSerialOK'
  BY <1>2, <1>3, <1>6, EndReviewStep
<1>10. MiningTypeOK'
  BY <1>2, <1>8, <1>9 DEF MiningInv, MiningTypeOK
<1>11. ContractsFollowEvidence'
  <2>1. \A c \in Filed : FollowsEvidence(candidates[c])
    BY EvidenceOfRows DEF MiningInv
  <2>2. \A c \in Filed' : FollowsEvidence(candidates'[c])
    BY <1>3, <1>4, <1>6, <1>7, <2>1
  <2> QED BY <2>2 DEF ContractsFollowEvidence, FollowsEvidence
<1>12. OneCandidateWhenSerial'
  <2> SUFFICES ASSUME ~crowded, NEW i \in Filed', NEW j \in Filed', i # j,
                      candidates'[i].workflow = candidates'[j].workflow
               PROVE  "rejected" \in {candidates'[i].status, candidates'[j].status}
    BY <1>2 DEF OneCandidateWhenSerial, OneCandidatePerWorkflow
  <2>1. ReviewAloneOK(reviews[q])
    BY DEF MiningInv, ReviewsSerialOK
  <2>2. \A d \in drafts, c \in Filed :
           candidates[c].workflow = d.workflow => candidates[c].status = "rejected"
    <3> SUFFICES ASSUME NEW d \in drafts, NEW c \in Filed, candidates[c].workflow = d.workflow
                 PROVE  candidates[c].status = "rejected"
      OBVIOUS
    <3>1. ~Pending(d.workflow)
      BY <2>1 DEF ReviewAloneOK
    <3>2. candidates[c].status \in {"draft", "approved", "rejected"}
      BY DEF MiningInv, MiningTypeOK, Filed, Candidate
    <3> QED BY <3>1, <3>2 DEF Pending
  <2>3. CASE i \in Filed /\ j \in Filed
    BY <1>6, <2>3 DEF MiningInv, OneCandidateWhenSerial, OneCandidatePerWorkflow
  <2>4. CASE i \notin Filed /\ j \notin Filed
    <3>1. PICK d \in drafts, e \in drafts : id[d] = i /\ id[e] = j
      BY <1>7, <2>4
    <3>2. d = e
      BY <1>4, <2>1, <3>1 DEF ReviewAloneOK
    <3> QED BY <3>1, <3>2
  <2>5. CASE i \notin Filed /\ j \in Filed
    <3>1. PICK d \in drafts : id[d] = i
      BY <1>7, <2>5
    <3> QED BY <1>4, <1>6, <2>2, <2>5, <3>1
  <2>6. CASE i \in Filed /\ j \notin Filed
    <3>1. PICK d \in drafts : id[d] = j
      BY <1>7, <2>6
    <3> QED BY <1>4, <1>6, <2>2, <2>6, <3>1
  <2> QED BY <2>3, <2>4, <2>5, <2>6
<1> QED BY <1>9, <1>10, <1>11, <1>12 DEF MiningInv

LEMMA GiveUpReviewKeeps == ASSUME MiningInv, NEW q \in Reviewers, GiveUpReview(q) PROVE MiningInv'
<1>1. /\ reviews' = [reviews EXCEPT ![q] = NoReview] /\ reviews[q] # NoReview
      /\ UNCHANGED <<recorded, candidates, crowded>>
  BY DEF GiveUpReview
<1>2. Filed' = Filed /\ recorded' \subseteq Traces /\ crowded' \in BOOLEAN
  BY <1>1 DEF Filed, MiningInv, MiningTypeOK
<1>3. reviews' \in [Reviewers -> ReviewRow] /\ ReviewsOK' /\ ReviewsSerialOK'
  BY <1>1, <1>2, EndReviewStep
<1> QED BY <1>1, <1>2, <1>3, MiningReadStep

LEMMA StepMining == ASSUME TracesAreFinite PROVE MiningInv /\ [MiningNext]_miningVars => MiningInv'
<1> SUFFICES ASSUME MiningInv, [MiningNext]_miningVars PROVE MiningInv'
  OBVIOUS
<1>1. ASSUME NEW t \in Traces, Record(t) \/ AgeTrace(t) PROVE MiningInv'
  <2>1. recorded' \subseteq Traces /\ UNCHANGED <<candidates, reviews, crowded>>
    BY <1>1 DEF Record, AgeTrace, MiningInv, MiningTypeOK
  <2> QED BY <2>1, MiningOutsideStep
<1>2. CASE UNCHANGED miningVars
  <2>1. recorded' \subseteq Traces /\ UNCHANGED <<candidates, reviews, crowded>>
    BY <1>2 DEF miningVars, MiningInv, MiningTypeOK
  <2> QED BY <2>1, MiningOutsideStep
<1> QED BY <1>1, <1>2, GenerateCandidatesKeeps, LookAtDraftKeeps, ReviewCandidateKeeps,
           CommitReviewKeeps, CommitCandidatesKeeps, GiveUpReviewKeeps DEF MiningNext

-----------------------------------------------------------------------------
\* The inductive invariant holds in every reachable state.
THEOREM MiningInductive == ASSUME TracesAreFinite PROVE MiningSpec => []MiningInv
<1>1. MiningInit => MiningInv
  BY InitMining
<1>2. MiningInv /\ [MiningNext]_miningVars => MiningInv'
  BY StepMining
<1> QED BY <1>1, <1>2, PTL DEF MiningSpec

\* However requests overlap, the contracts a reviewer sees follow from the candidate's own
\* evidence (build_skill_candidate_drafts).
THEOREM EvidenceFollowed == ASSUME TracesAreFinite PROVE MiningSpec => []ContractsFollowEvidence
<1>1. MiningInv => ContractsFollowEvidence
  BY DEF MiningInv
<1> QED BY <1>1, MiningInductive, PTL

\* As long as requests come one at a time, a workflow has one live candidate.
THEOREM OneCandidate == ASSUME TracesAreFinite PROVE MiningSpec => []OneCandidateWhenSerial
<1>1. MiningInv => OneCandidateWhenSerial
  BY DEF MiningInv
<1> QED BY <1>1, MiningInductive, PTL
------------------------------------------------------------------------

-----------------------------------------------------------------------------
(* The gold desk.                                                          *)

\* A request in flight promotes a row that exists, to a role that its review allows; as
\* long as requests come one at a time that row is not promoted yet and no other is in
\* flight.
PromotionsAreAllowed ==
    \A q \in Promoters : promotions[q] # NoPromotion =>
        /\ promotions[q].feedback \in Given
        /\ promotions[q].role \in RolesFor(feedback[promotions[q].feedback].outcome)
        /\ ~met => /\ feedback[promotions[q].feedback].gold = NoRow
                   /\ \A p \in Promoters \ {q} : promotions[p] = NoPromotion

GoldInv == GoldTypeOK /\ GoldMatchesReview /\ PromotionsAreAllowed /\ OneGoldWhenSerial

-----------------------------------------------------------------------------
\* What the insertion of a gold row leaves of the invariant: g is a fresh gold of f, whose
\* row is replaced by row with gold_id g.
LEMMA KeepKeeps ==
    ASSUME NoRowIsNoKey, GoldTypeOK, GoldMatchesReview,
           NEW f \in Feedback, NEW g \in Golds \ Kept,
           NEW row \in [outcome : Outcomes, gold : Golds \cup {NoRow}],
           NEW role \in RolesFor(row.outcome),
           f \in Given => row = feedback[f],
           Keep(f, g, row, role)
    PROVE  /\ feedback' \in [Feedback -> [outcome : Outcomes, gold : Golds \cup {NoRow}] \cup {NoRow}]
           /\ golds' \in [Golds -> [feedback : Feedback, role : Roles] \cup {NoRow}]
           /\ GoldMatchesReview'
           /\ feedback'[f] = [outcome |-> row.outcome, gold |-> g]
           /\ golds'[g] = [feedback |-> f, role |-> role]
           /\ Kept' = Kept \cup {g} /\ Given' = Given \cup {f}
           /\ \A h \in Kept : golds'[h] = golds[h]
           /\ \A e \in Feedback \ {f} : feedback'[e] = feedback[e]
<1>1. role \in Roles /\ row.outcome \in Outcomes
  BY DEF RolesFor, Roles
<1>2. feedback' = [feedback EXCEPT ![f] = [row EXCEPT !.gold = g]]
      /\ golds' = [golds EXCEPT ![g] = [feedback |-> f, role |-> role]]
  BY DEF Keep
<1>3. [row EXCEPT !.gold = g] = [outcome |-> row.outcome, gold |-> g]
  OBVIOUS
<1>4. /\ feedback' \in [Feedback -> [outcome : Outcomes, gold : Golds \cup {NoRow}] \cup {NoRow}]
      /\ golds' \in [Golds -> [feedback : Feedback, role : Roles] \cup {NoRow}]
      /\ feedback'[f] = [outcome |-> row.outcome, gold |-> g]
      /\ golds'[g] = [feedback |-> f, role |-> role]
      /\ \A e \in Feedback \ {f} : feedback'[e] = feedback[e]
      /\ \A h \in Golds \ {g} : golds'[h] = golds[h]
  BY <1>1, <1>2, <1>3 DEF GoldTypeOK
<1>5. Kept' = Kept \cup {g} /\ Given' = Given \cup {f}
  BY <1>1, <1>4 DEF Kept, Given, NoRowIsNoKey
<1>6. GoldMatchesReview'
  <2>1. ASSUME NEW e \in Given', feedback'[e].gold # NoRow
        PROVE  feedback'[e].gold \in Kept' /\ golds'[feedback'[e].gold].feedback = e
    <3>1. CASE e = f
      BY <3>1, <1>4, <1>5
    <3>2. CASE e # f
      BY <3>2, <2>1, <1>4, <1>5 DEF GoldMatchesReview, Kept, Given
    <3> QED BY <3>1, <3>2
  <2>2. ASSUME NEW h \in Kept'
        PROVE  /\ golds'[h].feedback \in Given' /\ feedback'[golds'[h].feedback].gold # NoRow
               /\ golds'[h].role = "exemplar"
                    => feedback'[golds'[h].feedback].outcome # "rejected"
               /\ golds'[h].role \in {"regression", "counter_example"}
                    => feedback'[golds'[h].feedback].outcome = "rejected"
    <3>1. CASE h = g
      BY <3>1, <1>4, <1>5 DEF RolesFor, NoRowIsNoKey
    <3>2. CASE h # g
      <4>1. h \in Kept /\ golds'[h] = golds[h] /\ golds[h].feedback \in Given
        BY <3>2, <1>4, <1>5 DEF GoldMatchesReview, Kept
      <4>2. CASE golds[h].feedback = f
        BY <4>1, <4>2, <1>4, <1>5 DEF GoldMatchesReview, NoRowIsNoKey
      <4>3. CASE golds[h].feedback # f
        BY <4>1, <4>3, <1>4, <1>5 DEF GoldMatchesReview, Given
      <4> QED BY <4>2, <4>3
    <3> QED BY <3>1, <3>2
  <2> QED BY <2>1, <2>2 DEF GoldMatchesReview
<1> QED BY <1>4, <1>5, <1>6 DEF Kept

\* A request that ends leaves the others as they are.
LEMMA EndKeepsPromotions ==
    ASSUME GoldInv, NEW q \in Promoters, promotions[q] # NoPromotion,
           promotions' = [promotions EXCEPT ![q] = NoPromotion], met' = met,
           \A e \in Given : e \in Given' /\ feedback'[e].outcome = feedback[e].outcome
    PROVE  PromotionsAreAllowed'
<1>1. SUFFICES ASSUME NEW p \in Promoters, promotions'[p] # NoPromotion
               PROVE  /\ promotions'[p].feedback \in Given'
                      /\ promotions'[p].role \in
                             RolesFor(feedback'[promotions'[p].feedback].outcome)
                      /\ met'
  BY DEF PromotionsAreAllowed
<1>2. p # q /\ promotions'[p] = promotions[p]
  BY <1>1 DEF GoldInv, GoldTypeOK
<1>3. met
  BY <1>1, <1>2 DEF GoldInv, PromotionsAreAllowed
<1>4. promotions[p].feedback \in Given
      /\ promotions[p].role \in RolesFor(feedback[promotions[p].feedback].outcome)
  BY <1>1, <1>2 DEF GoldInv, PromotionsAreAllowed
<1> QED BY <1>2, <1>3, <1>4

\* A new review leaves the requests in flight as they are.
LEMMA CaptureKeepsPromotions ==
    ASSUME GoldInv, promotions' = promotions, met' = met,
           \A e \in Given : e \in Given' /\ feedback'[e] = feedback[e]
    PROVE  PromotionsAreAllowed'
BY DEF GoldInv, PromotionsAreAllowed

-----------------------------------------------------------------------------
LEMMA InitGold == ASSUME NoRowIsNoKey, GoldInit PROVE GoldInv
<1> USE DEF GoldInit
<1>1. GoldTypeOK
  BY DEF GoldTypeOK, NoPromotion
<1>2. Given = {} /\ Kept = {}
  BY DEF Given, Kept
<1>3. GoldMatchesReview /\ OneGoldWhenSerial
  BY <1>2 DEF GoldMatchesReview, OneGoldWhenSerial
<1>4. PromotionsAreAllowed
  BY DEF PromotionsAreAllowed
<1> QED BY <1>1, <1>3, <1>4 DEF GoldInv

LEMMA StepGold == ASSUME NoRowIsNoKey, GoldInv, [GoldNext]_goldVars PROVE GoldInv'
<1>1. GoldTypeOK /\ GoldMatchesReview /\ PromotionsAreAllowed /\ OneGoldWhenSerial
  BY DEF GoldInv
<1>2. ASSUME NEW v \in Produced, RecordOutcome(v) PROVE GoldInv'
  BY <1>1, <1>2 DEF RecordOutcome, GoldInv, GoldTypeOK, GoldMatchesReview, PromotionsAreAllowed,
                    OneGoldWhenSerial, Given, Kept
<1>3. ASSUME NEW f \in Feedback, NEW outcome \in Outcomes, Capture(f, outcome) PROVE GoldInv'
  <2>1. /\ GoldTypeOK'
        /\ \A e \in Given : feedback'[e] = feedback[e]
        /\ feedback'[f] = [outcome |-> outcome, gold |-> NoRow]
    BY <1>1, <1>3 DEF Capture, GoldTypeOK, Given
  <2>2. Given' = Given \cup {f} /\ Kept' = Kept /\ f \notin Given
    BY <1>1, <1>3, <2>1 DEF Capture, GoldTypeOK, Given, Kept, NoRowIsNoKey
  <2>3. GoldMatchesReview'
    BY <1>1, <1>3, <2>1, <2>2 DEF Capture, GoldMatchesReview
  <2>4. OneGoldWhenSerial'
    BY <1>1, <1>3, <2>2 DEF Capture, OneGoldWhenSerial
  <2>5. PromotionsAreAllowed'
    BY <1>3, <2>1, <2>2, CaptureKeepsPromotions DEF Capture
  <2> QED BY <2>1, <2>3, <2>4, <2>5 DEF GoldInv
<1>4. ASSUME NEW f \in Feedback, NEW outcome \in Outcomes, NEW role \in Roles,
             CaptureGold(f, outcome, role)
      PROVE  GoldInv'
  <2> DEFINE row == [outcome |-> outcome, gold |-> NoRow]
  <2>1. PICK g \in Golds \ Kept : Keep(f, g, row, role)
    BY <1>4 DEF CaptureGold
  <2>2. f \notin Given /\ role \in RolesFor(row.outcome)
        /\ UNCHANGED <<promotions, outcomes, met>>
    BY <1>4 DEF CaptureGold
  <2>3. row \in [outcome : Outcomes, gold : Golds \cup {NoRow}]
    OBVIOUS
  <2> HIDE DEF row
  <2>4. /\ feedback' \in [Feedback -> [outcome : Outcomes, gold : Golds \cup {NoRow}] \cup {NoRow}]
        /\ golds' \in [Golds -> [feedback : Feedback, role : Roles] \cup {NoRow}]
        /\ GoldMatchesReview'
        /\ golds'[g] = [feedback |-> f, role |-> role]
        /\ Kept' = Kept \cup {g} /\ Given' = Given \cup {f}
        /\ \A h \in Kept : golds'[h] = golds[h]
        /\ \A e \in Feedback \ {f} : feedback'[e] = feedback[e]
    BY <1>1, <2>1, <2>2, <2>3, KeepKeeps
  <2>5. GoldTypeOK'
    BY <1>1, <2>2, <2>4 DEF GoldTypeOK
  <2>6. OneGoldWhenSerial'
    BY <1>1, <2>2, <2>4 DEF OneGoldWhenSerial, GoldMatchesReview
  <2>7. PromotionsAreAllowed'
    <3>1. \A e \in Given : e \in Given' /\ feedback'[e] = feedback[e]
      BY <2>2, <2>4 DEF Given
    <3> QED BY <3>1, <2>2, CaptureKeepsPromotions
  <2> QED BY <2>4, <2>5, <2>6, <2>7 DEF GoldInv
<1>5. ASSUME NEW q \in Promoters, NEW f \in Given, NEW role \in Roles, Promote(q, f, role)
      PROVE  GoldInv'
  <2>1. /\ promotions[q] = NoPromotion /\ feedback[f].gold = NoRow
        /\ role \in RolesFor(feedback[f].outcome)
        /\ promotions' = [promotions EXCEPT ![q] = [feedback |-> f, role |-> role]]
        /\ met' = (met \/ \E p \in Promoters \ {q} : promotions[p] # NoPromotion)
        /\ feedback' = feedback /\ golds' = golds /\ outcomes' = outcomes
    BY <1>5 DEF Promote
  <2>2. f \in Feedback /\ Given' = Given /\ Kept' = Kept
    BY <2>1 DEF Given, Kept
  <2>3. GoldTypeOK'
    <3>1. met' \in BOOLEAN
      BY <1>1, <2>1 DEF GoldTypeOK
    <3>2. promotions' \in [Promoters -> [feedback : Feedback \cup {NoRow},
                                         role : Roles \cup {NoRow}]]
      BY <1>1, <2>1, <2>2 DEF GoldTypeOK
    <3> QED BY <3>1, <3>2, <1>1, <2>1 DEF GoldTypeOK
  <2>4. GoldMatchesReview'
    BY <1>1, <2>1, <2>2 DEF GoldMatchesReview
  <2>5. OneGoldWhenSerial'
    BY <1>1, <2>1, <2>2 DEF OneGoldWhenSerial
  <2>6. PromotionsAreAllowed'
    BY <1>1, <2>1, <2>2 DEF PromotionsAreAllowed, GoldTypeOK
  <2> QED BY <2>3, <2>4, <2>5, <2>6 DEF GoldInv
<1>6. ASSUME NEW q \in Promoters, CommitGold(q) PROVE GoldInv'
  <2> DEFINE f == promotions[q].feedback
             role == promotions[q].role
  <2>1. /\ promotions[q] # NoPromotion
        /\ promotions' = [promotions EXCEPT ![q] = NoPromotion]
        /\ outcomes' = outcomes /\ met' = met
    BY <1>6 DEF CommitGold
  <2>2. PICK g \in Golds \ Kept : Keep(f, g, feedback[f], role)
    BY <1>6 DEF CommitGold
  <2>3. /\ f \in Given /\ f \in Feedback /\ role \in RolesFor(feedback[f].outcome)
        /\ feedback[f] \in [outcome : Outcomes, gold : Golds \cup {NoRow}]
        /\ ~met => feedback[f].gold = NoRow
    BY <1>1, <2>1 DEF PromotionsAreAllowed, Given, GoldTypeOK
  <2> HIDE DEF f, role
  <2>4. /\ feedback' \in [Feedback -> [outcome : Outcomes, gold : Golds \cup {NoRow}] \cup {NoRow}]
        /\ golds' \in [Golds -> [feedback : Feedback, role : Roles] \cup {NoRow}]
        /\ GoldMatchesReview'
        /\ feedback'[f] = [outcome |-> feedback[f].outcome, gold |-> g]
        /\ golds'[g] = [feedback |-> f, role |-> role]
        /\ Kept' = Kept \cup {g} /\ Given' = Given \cup {f}
        /\ \A h \in Kept : golds'[h] = golds[h]
        /\ \A e \in Feedback \ {f} : feedback'[e] = feedback[e]
    BY <1>1, <2>2, <2>3, KeepKeeps
  <2>5. GoldTypeOK'
    BY <1>1, <2>1, <2>4 DEF GoldTypeOK, NoPromotion
  <2>6. OneGoldWhenSerial'
    <3>1. ~met => \A h \in Kept : golds[h].feedback # f
      BY <1>1, <2>3 DEF GoldMatchesReview
    <3> QED BY <1>1, <2>1, <2>4, <3>1 DEF OneGoldWhenSerial
  <2>7. PromotionsAreAllowed'
    <3>1. \A e \in Given : e \in Given' /\ feedback'[e].outcome = feedback[e].outcome
      BY <2>4 DEF Given
    <3> QED BY <3>1, <2>1, EndKeepsPromotions
  <2> QED BY <2>4, <2>5, <2>6, <2>7 DEF GoldInv
<1>7. ASSUME NEW q \in Promoters, GiveUpPromotion(q) PROVE GoldInv'
  <2>1. /\ promotions[q] # NoPromotion
        /\ promotions' = [promotions EXCEPT ![q] = NoPromotion]
        /\ feedback' = feedback /\ golds' = golds /\ outcomes' = outcomes /\ met' = met
        /\ Given' = Given /\ Kept' = Kept
    BY <1>7 DEF GiveUpPromotion, Given, Kept
  <2>2. GoldTypeOK'
    BY <1>1, <2>1 DEF GoldTypeOK, NoPromotion
  <2>3. GoldMatchesReview' /\ OneGoldWhenSerial'
    BY <1>1, <2>1 DEF GoldMatchesReview, OneGoldWhenSerial
  <2>4. PromotionsAreAllowed'
    BY <2>1, EndKeepsPromotions
  <2> QED BY <2>2, <2>3, <2>4 DEF GoldInv
<1>8. CASE UNCHANGED goldVars
  BY <1>1, <1>8 DEF goldVars, GoldInv, GoldTypeOK, GoldMatchesReview, PromotionsAreAllowed,
                    OneGoldWhenSerial, Given, Kept
<1> QED BY <1>2, <1>3, <1>4, <1>5, <1>6, <1>7, <1>8 DEF GoldNext

-----------------------------------------------------------------------------
\* The invariant holds in every reachable state.
THEOREM GoldInductive == ASSUME NoRowIsNoKey PROVE GoldSpec => []GoldInv
<1>1. GoldInit => GoldInv
  BY InitGold
<1>2. GoldInv /\ [GoldNext]_goldVars => GoldInv'
  BY StepGold
<1> QED BY <1>1, <1>2, PTL DEF GoldSpec

\* However promotions overlap, the feedback rows and the gold rows agree with each other and
\* with the reviews (create_gold_from_feedback).
THEOREM GoldAgrees == ASSUME NoRowIsNoKey PROVE GoldSpec => []GoldMatchesReview
<1>1. GoldInv => GoldMatchesReview
  BY DEF GoldInv
<1> QED BY <1>1, GoldInductive, PTL

\* As long as promotions come one at a time, a feedback row has one gold.
THEOREM OneGold == ASSUME NoRowIsNoKey PROVE GoldSpec => []OneGoldWhenSerial
<1>1. GoldInv => OneGoldWhenSerial
  BY DEF GoldInv
<1> QED BY <1>1, GoldInductive, PTL
------------------------------------------------------------------------

-----------------------------------------------------------------------------
(* The three desks together.                                               *)

\* A step at a desk is a step of its own specification and leaves the others alone.
LEMMA StepOfDesks ==
    [DeskNext]_deskVars => [Next]_vars /\ [MiningNext]_miningVars /\ [GoldNext]_goldVars
<1>1. ProposalStep => Next /\ UNCHANGED <<miningVars, goldVars>>
  BY DEF ProposalStep, Next, AtProposals
<1>2. MiningStep => MiningNext /\ UNCHANGED <<vars, goldVars>>
  BY DEF MiningStep, MiningNext, AtMining
<1>3. GoldStep => GoldNext /\ UNCHANGED <<vars, miningVars>>
  BY DEF GoldStep, GoldNext, AtGold
<1>4. UNCHANGED deskVars => UNCHANGED <<vars, miningVars, goldVars>>
  BY DEF deskVars
<1> QED BY <1>1, <1>2, <1>3, <1>4 DEF DeskNext

\* The composed system implements the specification of every desk, so what is proved of a
\* desk on its own holds of it beside the others: no handler writes a row of another desk.
THEOREM DesksImplementDesks == DeskSpec => Spec /\ MiningSpec /\ GoldSpec
<1>1. DeskInit => Init /\ MiningInit /\ GoldInit
  BY DEF DeskInit
<1> QED BY <1>1, StepOfDesks, PTL DEF DeskSpec, Spec, MiningSpec, GoldSpec

\* Every variable of every desk keeps its type.
THEOREM DesksTypeCorrect ==
    ASSUME NoRowIsNoKey, TracesAreFinite PROVE DeskSpec => []DesksTypeOK
<1>1. MiningInv /\ GoldInv /\ TypeOK => DesksTypeOK
  BY DEF MiningInv, GoldInv, DesksTypeOK
<1> QED BY <1>1, DesksImplementDesks, MiningInductive, GoldInductive, TypeCorrect, PTL
=============================================================================
