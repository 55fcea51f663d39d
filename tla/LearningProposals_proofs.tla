------------------------ MODULE LearningProposals_proofs ------------------------
(***************************************************************************)
(* Theorems of LearningProposals, for any outputs, skills, version numbers *)
(* and overlapping requests.                                               *)
(***************************************************************************)
EXTENDS LearningProposals, FiniteSetTheorems, WellFoundedInduction, TLAPS

\* The status of a proposal that a reviewer has not decided.
Open == {"draft", "approved"}

\* What request r may rely on: a draft extends a version of its skill, and so does the
\* version an approval is about to add, after all the numbers below its own.
RequestOK(r) ==
    /\ r \in Request
    /\ \A d \in r.drafts : d.base \in {0} \cup Numbers(d.skill)
    /\ r.doing \in {"approve", "number", "reject"} => r.proposal \in Rows
    /\ r.doing = "number" =>
         /\ r.number \in 2..MaxVersion /\ r.base \in 1..(r.number - 1)
         /\ 1..(r.number - 1) \subseteq Numbers(proposals[r.proposal].skill)

\* As long as requests come one at a time: what it has read of the proposals is still true.
AloneOK(r) ==
    /\ r.doing \in {"approve", "number", "reject"} => proposals[r.proposal].status \in Open
    /\ \A d \in r.drafts : /\ LiveOf(d.skill, d.cluster) = {}
                           /\ <<d.skill, d.cluster>> \notin r.todo
    /\ \A d, e \in r.drafts : d.skill = e.skill /\ d.cluster = e.cluster => d = e

BasesExist == /\ \A k \in Skills : active[k] \in {0} \cup Numbers(k)
              /\ \A i \in Rows : proposals[i].base \in {0} \cup Numbers(proposals[i].skill)

OneAtATime == \A p, q \in Requests : requests[p] # NoRequest /\ requests[q] # NoRequest => p = q

RequestsOK == \A q \in Requests : RequestOK(requests[q])

SerialOK == ~overlapped => OneAtATime /\ \A q \in Requests : AloneOK(requests[q])

IInv == /\ TypeOK /\ BasesExist /\ VersionsFormATree /\ AppliedHasItsVersion
        /\ RequestsOK /\ SerialOK /\ OneLiveProposal

-----------------------------------------------------------------------------
\* Least and greatest numbers.

LEMMA LeastExists == ASSUME NEW S \in SUBSET Nat, S # {}
                     PROVE  \E k \in S : \A j \in S : k <= j
<1>1. PICK k \in S : \A j \in S : <<j, k>> \notin OpToRel(<, Nat)
  BY NatLessThanWellFounded, WFMin
<1>2. \A j \in S : ~(j < k)
  BY <1>1 DEF OpToRel
<1> QED BY <1>2

LEMMA PrimaryIsOne == ASSUME NEW S \in SUBSET Nat, S # {} PROVE PrimarySkill(S) \in S
BY LeastExists DEF PrimarySkill

LEMMA HighestIsOne == ASSUME NEW S \in SUBSET (1..MaxVersion), S # {}
                      PROVE  Highest(S) \in S /\ \A m \in S : m <= Highest(S)
<1> DEFINE T == {MaxVersion - m : m \in S}
<1>1. MaxVersion \in Nat /\ \A m \in S : m \in Nat /\ m <= MaxVersion
  BY BoundsAreNumbers
<1>2. T \in SUBSET Nat /\ T # {}
  <2>1. \A m \in S : MaxVersion - m \in Nat
    BY <1>1
  <2>2. \A u \in T : u \in Nat
    BY <2>1
  <2> QED BY <2>2
<1>3. PICK t \in T : \A u \in T : t <= u
  BY <1>2, LeastExists
<1>4. PICK n \in S : t = MaxVersion - n
  OBVIOUS
<1>5. ASSUME NEW m \in S PROVE m <= n
  <2>1. MaxVersion - n <= MaxVersion - m
    BY <1>3, <1>4
  <2> QED BY <1>1, <2>1
<1> QED BY <1>5 DEF Highest

\* The numbers of a skill, and the highest, which ends them when they have no gap.
LEMMA NumbersType ==
    ASSUME TypeOK, NEW k
    PROVE  /\ Numbers(k) \in SUBSET (1..MaxVersion) /\ 1 \in Numbers(k)
           /\ HighestOf(k) \in Numbers(k) /\ \A m \in Numbers(k) : m <= HighestOf(k)
<1>1. Numbers(k) \in SUBSET (1..MaxVersion) /\ 1 \in Numbers(k)
  BY BoundsAreNumbers DEF Numbers, TypeOK, Version
<1> QED BY <1>1, HighestIsOne DEF HighestOf

LEMMA NoGap ==
    ASSUME TypeOK, VersionsFormATree, NEW k
    PROVE  1..HighestOf(k) \subseteq Numbers(k)
<1> DEFINE h == HighestOf(k)
<1>1. h \in Numbers(k) /\ 1 \in Numbers(k)
  BY NumbersType
<1>2. CASE h = 1
  BY <1>1, <1>2
<1>3. CASE h # 1
  <2>1. PICK v \in versions : v.skill = k /\ v.number = h
    BY <1>1, <1>3 DEF Numbers
  <2> QED BY <2>1 DEF VersionsFormATree
<1> QED BY <1>2, <1>3

\* A cluster has a skill.
LEMMA ClusterHasSkill == ASSUME TypeOK, NEW s \in Repeated PROVE PrimarySkill(SkillsOf(s)) \in Skills
<1>1. Cluster(s) # {} /\ Cluster(s) \subseteq Outputs
  <2>1. \A i \in DOMAIN recent : recent[i] \in Outputs
    BY DEF TypeOK
  <2>2. Considered \subseteq Outputs
    BY <2>1 DEF Considered
  <2>3. Cluster(s) \subseteq Considered
    BY DEF Cluster
  <2> QED BY <2>2, <2>3 DEF Repeated
<1>2. SkillsOf(s) # {} /\ SkillsOf(s) \subseteq Skills
  BY <1>1 DEF SkillsOf, Skills
<1> QED BY <1>2, SkillsAreNumbers, PrimaryIsOne

LEMMA NoRequestType == NoRequest \in Request /\ NoRequest.drafts = {} /\ NoRequest.doing = "idle"
                       /\ NoRequest.todo = {}
BY BoundsAreNumbers DEF NoRequest, Request

LEMMA NoRequestOK == RequestOK(NoRequest) /\ AloneOK(NoRequest)
BY NoRequestType DEF RequestOK, AloneOK

-----------------------------------------------------------------------------
\* A step of request q that leaves it in the state r; rows stay, with their skills.
LEMMA RequestStep ==
    ASSUME IInv, NEW q \in Requests, NEW r,
           requests' = [requests EXCEPT ![q] = r], RequestOK(r)',
           \A i \in Rows : i \in Rows' /\ proposals'[i].skill = proposals[i].skill,
           versions \subseteq versions'
    PROVE  requests' \in [Requests -> Request] /\ RequestsOK'
<1>1. requests \in [Requests -> Request] /\ r \in Request
  BY DEF IInv, TypeOK, RequestOK
<1>2. \A k : Numbers(k) \subseteq Numbers(k)'
  BY DEF Numbers
<1>3. ASSUME NEW p \in Requests PROVE RequestOK(requests[p])'
  <2>1. CASE p = q
    <3>1. requests'[p] = r
      BY <1>1, <2>1
    <3> QED BY <3>1 DEF RequestOK
  <2>2. CASE p # q
    <3>1. requests'[p] = requests[p] /\ RequestOK(requests[p])
      BY <1>1, <2>2 DEF IInv, RequestsOK
    <3> QED BY <1>2, <3>1 DEF RequestOK
  <2> QED BY <2>1, <2>2
<1> QED BY <1>1, <1>3 DEF RequestsOK

\* A request that comes alone stays alone.
LEMMA SerialStep ==
    ASSUME IInv, NEW q \in Requests, NEW r,
           requests' = [requests EXCEPT ![q] = r],
           overlapped' = overlapped, requests[q] # NoRequest,
           ~overlapped => AloneOK(r)'
    PROVE  SerialOK'
<1> SUFFICES ASSUME ~overlapped PROVE OneAtATime' /\ \A p \in Requests : AloneOK(requests[p])'
  BY DEF SerialOK
<1>1. requests \in [Requests -> Request] /\ OneAtATime
  BY DEF IInv, TypeOK, SerialOK
<1>2. \A p \in Requests \ {q} : requests'[p] = NoRequest
  BY <1>1 DEF OneAtATime
<1>3. OneAtATime'
  BY <1>2 DEF OneAtATime
<1>4. ASSUME NEW p \in Requests PROVE AloneOK(requests[p])'
  <2>1. CASE p = q
    <3>1. requests'[p] = r
      BY <1>1, <2>1
    <3> QED BY <3>1 DEF AloneOK
  <2>2. CASE p # q
    BY <1>2, <2>2, NoRequestType DEF AloneOK
  <2> QED BY <2>1, <2>2
<1> QED BY <1>3, <1>4

\* One that has just come, in the state r.
LEMMA SerialBegin ==
    ASSUME IInv, NEW q \in Requests, NEW r, Begin(q, r), ~overlapped => AloneOK(r)'
    PROVE  SerialOK'
<1> SUFFICES ASSUME ~overlapped' PROVE OneAtATime' /\ \A p \in Requests : AloneOK(requests[p])'
  BY DEF SerialOK
<1>1. /\ requests \in [Requests -> Request] /\ requests' = [requests EXCEPT ![q] = r]
      /\ ~overlapped /\ \A p \in Requests \ {q} : requests[p] = NoRequest
  BY DEF IInv, TypeOK, Begin
<1>2. \A p \in Requests \ {q} : requests'[p] = NoRequest
  BY <1>1
<1>3. OneAtATime'
  BY <1>2 DEF OneAtATime
<1>4. ASSUME NEW p \in Requests PROVE AloneOK(requests[p])'
  <2>1. CASE p = q
    <3>1. requests'[p] = r
      BY <1>1, <2>1
    <3> QED BY <1>1, <3>1 DEF AloneOK
  <2>2. CASE p # q
    BY <1>2, <2>2, NoRequestType DEF AloneOK
  <2> QED BY <2>1, <2>2
<1> QED BY <1>3, <1>4

\* A step that only reads the tables.
LEMMA ReadStep ==
    ASSUME IInv, UNCHANGED <<recent, active, versions, proposals>>, overlapped' \in BOOLEAN,
           requests' \in [Requests -> Request], RequestsOK', SerialOK',
           overlapped => overlapped'
    PROVE  IInv'
<1>1. TypeOK'
  BY DEF IInv, TypeOK
<1>2. BasesExist' /\ VersionsFormATree' /\ AppliedHasItsVersion'
  BY DEF IInv, BasesExist, VersionsFormATree, AppliedHasItsVersion, Rows, Numbers
<1>3. OneLiveProposal'
  BY DEF IInv, OneLiveProposal, Rows
<1> QED BY <1>1, <1>2, <1>3 DEF IInv

\* A step outside the requests.
LEMMA OutsideStep ==
    ASSUME IInv, UNCHANGED <<versions, proposals, requests, overlapped>>,
           recent' \in Seq(Outputs), active' \in [Skills -> 0..MaxVersion],
           \A k \in Skills : active'[k] \in {0} \cup Numbers(k)
    PROVE  IInv'
<1>1. TypeOK'
  BY DEF IInv, TypeOK
<1>2. Rows' = Rows /\ (\A k : Numbers(k)' = Numbers(k)) /\ (\A k, s : LiveOf(k, s)' = LiveOf(k, s))
  BY DEF Rows, Numbers, LiveOf
<1>3. BasesExist' /\ VersionsFormATree' /\ AppliedHasItsVersion' /\ OneLiveProposal'
  BY <1>2 DEF IInv, BasesExist, VersionsFormATree, AppliedHasItsVersion, OneLiveProposal
<1>4. RequestsOK'
  BY <1>2 DEF IInv, RequestsOK, RequestOK
<1>5. SerialOK'
  BY <1>2 DEF IInv, SerialOK, OneAtATime, AloneOK
<1> QED BY <1>1, <1>3, <1>4, <1>5 DEF IInv

-----------------------------------------------------------------------------
LEMMA InitIInv == Init => IInv
<1> SUFFICES ASSUME Init PROVE IInv
  OBVIOUS
<1>1. Rows = {} /\ versions = {} /\ \A k : Numbers(k) = {1}
  BY DEF Init, Rows, Numbers
<1>2. TypeOK
  <2>1. recent \in Seq(Outputs)
    BY DEF Init
  <2>4. versions \subseteq Version
    BY <1>1
  <2>5. overlapped \in BOOLEAN
    BY DEF Init
  <2>2. active \in [Skills -> 0..MaxVersion]
    BY BoundsAreNumbers DEF Init
  <2>3. requests \in [Requests -> Request] /\ proposals \in [Ids -> Proposal \cup {None}]
    BY NoRequestType DEF Init
  <2> QED BY <2>1, <2>2, <2>3, <2>4, <2>5 DEF TypeOK
<1>3. BasesExist /\ VersionsFormATree /\ AppliedHasItsVersion /\ OneLiveProposal
  BY <1>1 DEF Init, BasesExist, VersionsFormATree, AppliedHasItsVersion, OneLiveProposal
<1>4. RequestsOK
  BY NoRequestOK DEF Init, RequestsOK
<1>5. SerialOK
  BY NoRequestOK DEF Init, SerialOK, OneAtATime
<1> QED BY <1>2, <1>3, <1>4, <1>5 DEF IInv

\* Nothing of a request that ends is left.
LEMMA EndKeepsRequests ==
    ASSUME IInv, NEW q \in Requests, requests' = [requests EXCEPT ![q] = NoRequest],
           requests[q] # NoRequest, overlapped' = overlapped,
           \A i \in Rows : i \in Rows' /\ proposals'[i].skill = proposals[i].skill,
           versions \subseteq versions'
    PROVE  requests' \in [Requests -> Request] /\ RequestsOK' /\ SerialOK'
<1>1. RequestOK(NoRequest)' /\ AloneOK(NoRequest)'
  BY NoRequestType DEF RequestOK, AloneOK
<1> QED BY <1>1, RequestStep, SerialStep

LEMMA GenerateKeeps == ASSUME IInv, NEW q \in Requests, Generate(q) PROVE IInv'
<1> DEFINE todo == {<<PrimarySkill(SkillsOf(s)), s>> : s \in Repeated}
           r == [NoRequest EXCEPT !.doing = "generate", !.todo = todo]
<1>1. todo \subseteq Skills \X Signals
  BY ClusterHasSkill DEF IInv, Repeated
<1> HIDE DEF todo
<1>2. r \in Request /\ r.doing = "generate" /\ r.drafts = {}
  BY <1>1, NoRequestType DEF Request
<1>3. Begin(q, r) /\ UNCHANGED <<recent, active, versions, proposals>>
  BY DEF Generate, todo
<1>4. PICK x : x = r
  OBVIOUS
<1>5. Begin(q, x) /\ RequestOK(x)' /\ AloneOK(x)'
  BY <1>2, <1>3, <1>4 DEF RequestOK, AloneOK
<1>6. requests' = [requests EXCEPT ![q] = x] /\ overlapped' \in BOOLEAN
      /\ (overlapped => overlapped')
  BY <1>5 DEF IInv, TypeOK, Begin
<1>7. \A i \in Rows : i \in Rows' /\ proposals'[i].skill = proposals[i].skill
  BY <1>3 DEF Rows
<1>8. requests' \in [Requests -> Request] /\ RequestsOK'
  BY <1>3, <1>5, <1>6, <1>7, RequestStep
<1>9. SerialOK'
  BY <1>5, SerialBegin
<1> QED BY <1>3, <1>6, <1>8, <1>9, ReadStep

LEMMA LookKeeps ==
    ASSUME IInv, NEW q \in Requests, NEW c \in requests[q].todo, LookAtCluster(q, c[1], c[2])
    PROVE  IInv'
<1> DEFINE d == [skill |-> c[1], cluster |-> c[2], base |-> active[c[1]]]
           todo == requests[q].todo \ {<<c[1], c[2]>>}
           drafts == IF LiveOf(c[1], c[2]) = {} THEN requests[q].drafts \cup {d}
                                              ELSE requests[q].drafts
<1>1. /\ requests \in [Requests -> Request] /\ requests[q] \in Request
      /\ RequestOK(requests[q]) /\ requests[q] # NoRequest
  BY NoRequestType DEF IInv, TypeOK, RequestsOK
<1>2. c = <<c[1], c[2]>> /\ c[1] \in Skills /\ c[2] \in Signals
  BY <1>1 DEF Request
<1>3. active[c[1]] \in 0..MaxVersion /\ active[c[1]] \in {0} \cup Numbers(c[1])
  BY <1>2 DEF IInv, TypeOK, BasesExist
<1>4. d \in Draft
  BY <1>2, <1>3 DEF Draft
<1>5. todo \in SUBSET (Skills \X Signals) /\ drafts \in SUBSET Draft
  BY <1>1, <1>4 DEF Request
<1>6. PICK x : x = [requests[q] EXCEPT !.todo = todo, !.drafts = drafts]
  OBVIOUS
<1>7. /\ UNCHANGED <<recent, active, versions, proposals, overlapped>>
      /\ requests' = [requests EXCEPT ![q] = x]
  BY <1>1, <1>6 DEF LookAtCluster, Request
<1>8. /\ x \in Request /\ x.todo = todo /\ x.drafts = drafts
      /\ x.doing = requests[q].doing /\ x.proposal = requests[q].proposal
      /\ x.base = requests[q].base /\ x.number = requests[q].number
  BY <1>1, <1>5, <1>6 DEF Request
<1>9. \A e \in drafts : e.base \in {0} \cup Numbers(e.skill)
  BY <1>1, <1>3 DEF RequestOK
<1>10. RequestOK(x)
  <2> HIDE DEF todo, drafts
  <2> QED BY <1>1, <1>8, <1>9 DEF RequestOK
<1>11. Rows' = Rows /\ (\A k : Numbers(k)' = Numbers(k)) /\ (\A k, s : LiveOf(k, s)' = LiveOf(k, s))
  BY <1>7 DEF Rows, Numbers, LiveOf
<1>12. RequestOK(x)'
  BY <1>7, <1>10, <1>11 DEF RequestOK
<1>13. ASSUME ~overlapped PROVE AloneOK(x)
  <2>1. AloneOK(requests[q])
    BY <1>13 DEF IInv, SerialOK
  <2>2. \A e \in drafts : e = d \/ e \in requests[q].drafts
    OBVIOUS
  <2>3. d \in drafts => LiveOf(c[1], c[2]) = {} \/ d \in requests[q].drafts
    OBVIOUS
  <2>4. \A e \in requests[q].drafts : <<e.skill, e.cluster>> # c
    BY <1>2, <2>1 DEF AloneOK
  <2>5. \A e \in drafts : LiveOf(e.skill, e.cluster) = {} /\ <<e.skill, e.cluster>> \notin todo
    <3> SUFFICES ASSUME NEW e \in drafts
                 PROVE  LiveOf(e.skill, e.cluster) = {} /\ <<e.skill, e.cluster>> \notin todo
      OBVIOUS
    <3>1. CASE e \in requests[q].drafts
      BY <2>1, <3>1 DEF AloneOK
    <3>2. CASE e \notin requests[q].drafts
      <4>1. LiveOf(c[1], c[2]) = {} /\ e.skill = c[1] /\ e.cluster = c[2]
        BY <2>2, <2>3, <3>2
      <4> QED BY <4>1
    <3> QED BY <3>1, <3>2
  <2>6. \A e, f \in drafts : e.skill = f.skill /\ e.cluster = f.cluster => e = f
    BY <1>2, <2>1, <2>2, <2>4 DEF AloneOK
  <2> HIDE DEF todo, drafts
  <2> QED BY <1>8, <2>1, <2>5, <2>6 DEF AloneOK
<1>14. ~overlapped => AloneOK(x)'
  BY <1>7, <1>11, <1>13 DEF AloneOK
<1>15. \A i \in Rows : i \in Rows' /\ proposals'[i].skill = proposals[i].skill
  BY <1>7, <1>11
<1>16. requests' \in [Requests -> Request] /\ RequestsOK'
  BY <1>7, <1>12, <1>15, RequestStep
<1>17. SerialOK' /\ overlapped' \in BOOLEAN
  BY <1>1, <1>7, <1>14, SerialStep DEF IInv, TypeOK
<1> QED BY <1>7, <1>16, <1>17, ReadStep

LEMMA ReviewKeeps ==
    ASSUME IInv, NEW q \in Requests, NEW i \in Rows, NEW doing \in {"approve", "reject"},
           Review(q, i, doing)
    PROVE  IInv'
<1>1. PICK x : x = [NoRequest EXCEPT !.doing = doing, !.proposal = i]
  OBVIOUS
<1>2. /\ Begin(q, x) /\ UNCHANGED <<recent, active, versions, proposals>>
      /\ proposals[i].status \in Open
  BY <1>1 DEF Review, Open
<1>3. /\ x \in Request /\ x.doing = doing /\ x.proposal = i /\ x.drafts = {}
      /\ i \in Rows /\ doing # "number"
  BY <1>1, NoRequestType DEF Request, Rows
<1>4. Rows' = Rows
  BY <1>2 DEF Rows
<1>5. RequestOK(x)'
  BY <1>2, <1>3, <1>4 DEF RequestOK
<1>6. AloneOK(x)'
  BY <1>2, <1>3 DEF AloneOK
<1>7. requests' = [requests EXCEPT ![q] = x] /\ overlapped' \in BOOLEAN
      /\ (overlapped => overlapped')
  BY <1>2 DEF IInv, TypeOK, Begin
<1>8. \A j \in Rows : j \in Rows' /\ proposals'[j].skill = proposals[j].skill
  BY <1>2, <1>4
<1>9. requests' \in [Requests -> Request] /\ RequestsOK'
  BY <1>2, <1>5, <1>7, <1>8, RequestStep
<1>10. SerialOK'
  BY <1>2, <1>6, SerialBegin
<1> QED BY <1>2, <1>7, <1>9, <1>10, ReadStep

LEMMA TakeNumberKeeps == ASSUME IInv, NEW q \in Requests, TakeNumber(q) PROVE IInv'
<1> DEFINE p == proposals[requests[q].proposal]
           base == IF p.base = 0 THEN active[p.skill] ELSE p.base
           highest == HighestOf(p.skill)
<1>1. /\ requests[q].doing = "approve" /\ base # 0 /\ highest < MaxVersion
      /\ requests' = [requests EXCEPT ![q].doing = "number", ![q].base = base,
                                      ![q].number = highest + 1]
      /\ UNCHANGED <<recent, active, versions, proposals, overlapped>>
  BY DEF TakeNumber
<1>2. /\ requests \in [Requests -> Request] /\ requests[q] \in Request
      /\ RequestOK(requests[q]) /\ requests[q] # NoRequest
  BY <1>1, NoRequestType DEF IInv, TypeOK, RequestsOK
<1>3. requests[q].proposal \in Rows /\ p \in Proposal
  BY <1>1, <1>2 DEF RequestOK, Rows, IInv, TypeOK
<1>4. p.skill \in Skills /\ base \in Numbers(p.skill)
  BY <1>1, <1>3 DEF Proposal, IInv, BasesExist
<1>5. /\ highest \in 1..MaxVersion /\ base \in 1..MaxVersion /\ base <= highest
      /\ 1..highest \subseteq Numbers(p.skill)
  BY <1>4, NumbersType, NoGap DEF IInv
<1> HIDE DEF base, highest
<1>6. PICK x : x = [requests[q] EXCEPT !.doing = "number", !.base = base,
                                       !.number = highest + 1]
  OBVIOUS
<1>7. requests' = [requests EXCEPT ![q] = x]
  BY <1>1, <1>2, <1>6 DEF Request
<1> HIDE DEF p
<1>7a. highest + 1 \in 0..MaxVersion /\ base \in 0..MaxVersion
  BY <1>1, <1>5, BoundsAreNumbers
<1>8. /\ x \in Request /\ x.doing = "number" /\ x.base = base /\ x.number = highest + 1
      /\ x.todo = requests[q].todo /\ x.drafts = requests[q].drafts
      /\ x.proposal = requests[q].proposal
  BY <1>2, <1>6, <1>7a DEF Request
<1>9. /\ x.number \in 2..MaxVersion /\ x.base \in 1..(x.number - 1)
      /\ x.number - 1 = highest
  BY <1>1, <1>5, <1>8, BoundsAreNumbers
<1>10. RequestOK(x)
  BY <1>2, <1>3, <1>5, <1>8, <1>9 DEF RequestOK, p
<1>11. Rows' = Rows /\ (\A k : Numbers(k)' = Numbers(k)) /\ (\A k, s : LiveOf(k, s)' = LiveOf(k, s))
  BY <1>1 DEF Rows, Numbers, LiveOf
<1>12. RequestOK(x)'
  BY <1>1, <1>10, <1>11 DEF RequestOK
<1>13. ~overlapped => AloneOK(x)
  BY <1>1, <1>8 DEF IInv, SerialOK, AloneOK
<1>14. ~overlapped => AloneOK(x)'
  BY <1>1, <1>11, <1>13 DEF AloneOK
<1>15. \A i \in Rows : i \in Rows' /\ proposals'[i].skill = proposals[i].skill
  BY <1>1, <1>11
<1>16. requests' \in [Requests -> Request] /\ RequestsOK'
  BY <1>1, <1>7, <1>12, <1>15, RequestStep
<1>17. SerialOK' /\ overlapped' \in BOOLEAN
  BY <1>1, <1>2, <1>7, <1>14, SerialStep DEF IInv, TypeOK
<1> QED BY <1>1, <1>16, <1>17, ReadStep

LEMMA GiveUpKeeps == ASSUME IInv, NEW q \in Requests, GiveUp(q) PROVE IInv'
<1>1. UNCHANGED <<recent, active, versions, proposals, overlapped>>
      /\ requests' = [requests EXCEPT ![q] = NoRequest] /\ requests[q] # NoRequest
  BY DEF GiveUp
<1>2. \A i \in Rows : i \in Rows' /\ proposals'[i].skill = proposals[i].skill
  BY <1>1 DEF Rows
<1>3. requests' \in [Requests -> Request] /\ RequestsOK' /\ SerialOK' /\ overlapped' \in BOOLEAN
  BY <1>1, <1>2, EndKeepsRequests DEF IInv, TypeOK
<1> QED BY <1>1, <1>3, ReadStep

LEMMA CommitProposalsKeeps == ASSUME IInv, NEW q \in Requests, CommitProposals(q) PROVE IInv'
<1> DEFINE drafts == requests[q].drafts
<1>1. PICK id \in [drafts -> Ids \ Rows] :
         /\ \A d, e \in drafts : id[d] = id[e] => d = e
         /\ proposals' = [i \in Ids |-> IF \E d \in drafts : id[d] = i
                                        THEN NewProposal(CHOOSE d \in drafts : id[d] = i)
                                        ELSE proposals[i]]
  BY DEF CommitProposals
<1>2. /\ requests[q].doing = "generate" /\ requests' = [requests EXCEPT ![q] = NoRequest]
      /\ UNCHANGED <<recent, active, versions, overlapped>>
  BY DEF CommitProposals
<1>3. /\ drafts \in SUBSET Draft /\ requests[q] # NoRequest
      /\ \A d \in drafts : d.base \in {0} \cup Numbers(d.skill)
  BY <1>2, NoRequestType DEF IInv, TypeOK, Request, RequestsOK, RequestOK
<1>4. \A d \in drafts : id[d] \in Ids \ Rows /\ proposals'[id[d]] = NewProposal(d)
  <2> SUFFICES ASSUME NEW d \in drafts
               PROVE  id[d] \in Ids \ Rows /\ proposals'[id[d]] = NewProposal(d)
    OBVIOUS
  <2>1. (CHOOSE e \in drafts : id[e] = id[d]) = d
    BY <1>1
  <2> QED BY <1>1, <2>1
<1>5. \A i \in Ids : (\A d \in drafts : id[d] # i) => proposals'[i] = proposals[i]
  BY <1>1
<1>6. \A d \in drafts : NewProposal(d) \in Proposal /\ NewProposal(d).skill = d.skill
                        /\ NewProposal(d).cluster = d.cluster /\ NewProposal(d).base = d.base
                        /\ NewProposal(d).status = "draft"
  BY <1>3, BoundsAreNumbers DEF NewProposal, Proposal, Draft
<1>7. \A i \in Rows : i \in Rows' /\ proposals'[i] = proposals[i]
  BY <1>4, <1>5 DEF Rows
<1>8. \A i \in Rows' : i \in Rows \/ \E d \in drafts : id[d] = i
  BY <1>5 DEF Rows
<1>9. proposals' \in [Ids -> Proposal \cup {None}]
  <2>1. \A i \in Ids : proposals'[i] \in Proposal \cup {None}
    BY <1>4, <1>5, <1>6 DEF IInv, TypeOK
  <2> QED BY <1>1, <2>1
<1>10. requests' \in [Requests -> Request] /\ RequestsOK' /\ SerialOK'
  BY <1>2, <1>3, <1>7, EndKeepsRequests
<1>11. TypeOK'
  BY <1>2, <1>9, <1>10 DEF IInv, TypeOK
<1>12. \A k : Numbers(k)' = Numbers(k)
  BY <1>2 DEF Numbers
<1>13. BasesExist'
  <2>1. \A k \in Skills : active'[k] \in {0} \cup Numbers(k)'
    BY <1>2, <1>12 DEF IInv, BasesExist
  <2>2. ASSUME NEW i \in Rows'
        PROVE  proposals'[i].base \in {0} \cup Numbers(proposals'[i].skill)
    <3>1. CASE i \in Rows
      BY <1>7, <3>1 DEF IInv, BasesExist
    <3>2. CASE i \notin Rows
      BY <1>3, <1>4, <1>6, <1>8, <3>2
    <3> QED BY <3>1, <3>2
  <2> QED BY <1>12, <2>1, <2>2 DEF BasesExist
<1>14. VersionsFormATree'
  BY <1>2, <1>12 DEF IInv, VersionsFormATree
<1>15. AppliedHasItsVersion'
  <2>1. ASSUME NEW i \in Rows', proposals'[i].status = "applied"
        PROVE  \E v \in versions' : v.proposal = i /\ v.skill = proposals'[i].skill
                                   /\ v.number = proposals'[i].created
    <3>1. i \in Rows
      BY <1>4, <1>6, <1>8, <2>1
    <3> QED BY <1>2, <1>7, <2>1, <3>1 DEF IInv, AppliedHasItsVersion
  <2>2. \A v \in versions' : v.proposal \in Rows'
                             /\ proposals'[v.proposal].status \in {"applied", "rejected"}
    BY <1>2, <1>7 DEF IInv, AppliedHasItsVersion
  <2>3. \A v, w \in versions' : v.skill = w.skill /\ v.number = w.number => v = w
    BY <1>2 DEF IInv, AppliedHasItsVersion
  <2> QED BY <2>1, <2>2, <2>3 DEF AppliedHasItsVersion
<1>16. OneLiveProposal'
  <2> SUFFICES ASSUME ~overlapped, NEW i \in Rows', NEW j \in Rows', i # j,
                      proposals'[i].skill = proposals'[j].skill,
                      proposals'[i].cluster = proposals'[j].cluster
               PROVE  "rejected" \in {proposals'[i].status, proposals'[j].status}
    BY <1>2 DEF OneLiveProposal
  <2>1. AloneOK(requests[q])
    BY DEF IInv, SerialOK
  <2>2. \A d \in drafts, n \in Rows :
           proposals[n].skill = d.skill /\ proposals[n].cluster = d.cluster
           => proposals[n].status = "rejected"
    <3> SUFFICES ASSUME NEW d \in drafts, NEW n \in Rows,
                        proposals[n].skill = d.skill, proposals[n].cluster = d.cluster
                 PROVE  proposals[n].status = "rejected"
      OBVIOUS
    <3>1. LiveOf(d.skill, d.cluster) = {}
      BY <2>1 DEF AloneOK
    <3>2. proposals[n].status \in {"draft", "approved", "rejected", "applied"}
      BY DEF IInv, TypeOK, Rows, Proposal
    <3> QED BY <3>1, <3>2 DEF LiveOf
  <2>3. CASE i \in Rows /\ j \in Rows
    BY <1>7, <2>3 DEF IInv, OneLiveProposal
  <2>4. CASE i \notin Rows /\ j \notin Rows
    <3>1. PICK d \in drafts, e \in drafts : id[d] = i /\ id[e] = j
      BY <1>8, <2>4
    <3>2. d.skill = e.skill /\ d.cluster = e.cluster
      BY <1>4, <1>6, <3>1
    <3>3. d = e
      BY <2>1, <3>2 DEF AloneOK
    <3> QED BY <3>1, <3>3
  <2>5. CASE i \notin Rows /\ j \in Rows
    <3>1. PICK d \in drafts : id[d] = i
      BY <1>8, <2>5
    <3>2. proposals[j].skill = d.skill /\ proposals[j].cluster = d.cluster
      BY <1>4, <1>6, <1>7, <2>5, <3>1
    <3> QED BY <1>7, <2>2, <2>5, <3>2
  <2>6. CASE i \in Rows /\ j \notin Rows
    <3>1. PICK d \in drafts : id[d] = j
      BY <1>8, <2>6
    <3>2. proposals[i].skill = d.skill /\ proposals[i].cluster = d.cluster
      BY <1>4, <1>6, <1>7, <2>6, <3>1
    <3> QED BY <1>7, <2>2, <2>6, <3>2
  <2> QED BY <2>3, <2>4, <2>5, <2>6
<1> QED BY <1>10, <1>11, <1>13, <1>14, <1>15, <1>16 DEF IInv

LEMMA CommitApprovalKeeps == ASSUME IInv, NEW q \in Requests, CommitApproval(q) PROVE IInv'
<1> DEFINE r == requests[q]
           i == r.proposal
           n == r.number
<1>1. PICK v : v = [skill |-> proposals[i].skill, number |-> n, base |-> r.base, proposal |-> i]
  OBVIOUS
<1>2. /\ r.doing = "number" /\ n \notin Numbers(proposals[i].skill)
      /\ versions' = versions \cup {v}
      /\ requests' = [requests EXCEPT ![q] = NoRequest]
      /\ UNCHANGED <<recent, active, overlapped>>
  BY <1>1 DEF CommitApproval
<1>3. proposals' = [proposals EXCEPT ![i].status = "applied", ![i].created = n]
  BY DEF CommitApproval
<1>4. /\ RequestOK(r) /\ r # NoRequest /\ n \in 2..MaxVersion /\ r.base \in 1..(n - 1) /\ i \in Rows
      /\ 1..(n - 1) \subseteq Numbers(proposals[i].skill)
  BY <1>2, NoRequestType DEF IInv, RequestsOK, RequestOK
<1>5. proposals \in [Ids -> Proposal \cup {None}] /\ i \in Ids /\ proposals[i] \in Proposal
  BY <1>4 DEF IInv, TypeOK, Rows
<1>6. /\ v.skill = proposals[i].skill /\ v.number = n /\ v.base = r.base /\ v.proposal = i
      /\ v \in Version
  <2>1. r.base \in 1..MaxVersion /\ proposals[i].skill \in Skills
    BY <1>4, <1>5, BoundsAreNumbers DEF Proposal
  <2> QED BY <1>1, <1>4, <1>5, <2>1 DEF Version
<1> HIDE DEF r, i, n
<1>7. PICK p : p = [proposals[i] EXCEPT !.status = "applied", !.created = n]
  OBVIOUS
<1>8. /\ p \in Proposal /\ p.status = "applied" /\ p.created = n /\ p.skill = proposals[i].skill
      /\ p.cluster = proposals[i].cluster /\ p.base = proposals[i].base
  <2>1. n \in 0..MaxVersion
    BY <1>4, BoundsAreNumbers
  <2> QED BY <1>5, <1>7, <2>1 DEF Proposal
<1>9. proposals' = [proposals EXCEPT ![i] = p]
  BY <1>3, <1>5, <1>7 DEF Proposal
<1>10. /\ Rows' = Rows /\ proposals' \in [Ids -> Proposal \cup {None}]
       /\ proposals'[i] = p /\ \A j \in Rows : j # i => proposals'[j] = proposals[j]
  BY <1>4, <1>5, <1>8, <1>9, NoneIsNoProposal DEF Rows
<1>11. \A j \in Rows : /\ proposals'[j].skill = proposals[j].skill
                       /\ proposals'[j].cluster = proposals[j].cluster
                       /\ proposals'[j].base = proposals[j].base
  BY <1>8, <1>10
<1>12. requests' \in [Requests -> Request] /\ RequestsOK' /\ SerialOK'
  <2>1. requests[q] # NoRequest
    BY <1>4 DEF r
  <2> QED BY <1>2, <1>10, <1>11, <2>1, EndKeepsRequests
<1>13. TypeOK'
  BY <1>2, <1>6, <1>10, <1>12 DEF IInv, TypeOK
<1>14. \A k : Numbers(k) \subseteq Numbers(k)'
  BY <1>2 DEF Numbers
<1>15. BasesExist'
  BY <1>2, <1>10, <1>11, <1>14 DEF IInv, BasesExist
<1>16. VersionsFormATree'
  <2>1. n \in Numbers(v.skill)'
    BY <1>2, <1>6 DEF Numbers
  <2>2. 1..v.number \subseteq Numbers(v.skill)'
    <3>1. 1..v.number = 1..(n - 1) \cup {n}
      BY <1>4, <1>6
    <3> QED BY <1>4, <1>6, <1>14, <2>1, <3>1
  <2>3. v.base < v.number
    BY <1>4, <1>6
  <2>4. \A w \in versions : 1..w.number \subseteq Numbers(w.skill)' /\ w.base < w.number
    BY <1>14 DEF IInv, VersionsFormATree
  <2> QED BY <1>2, <2>2, <2>3, <2>4 DEF VersionsFormATree
<1>17. AppliedHasItsVersion'
  <2>1. ASSUME NEW j \in Rows', proposals'[j].status = "applied"
        PROVE  \E w \in versions' : w.proposal = j /\ w.skill = proposals'[j].skill
                                   /\ w.number = proposals'[j].created
    <3>1. CASE j = i
      BY <1>2, <1>6, <1>8, <1>10, <3>1
    <3>2. CASE j # i
      BY <1>2, <1>10, <2>1, <3>2 DEF IInv, AppliedHasItsVersion
    <3> QED BY <3>1, <3>2
  <2>2. \A w \in versions' : w.proposal \in Rows'
                             /\ proposals'[w.proposal].status \in {"applied", "rejected"}
    BY <1>2, <1>4, <1>6, <1>8, <1>10 DEF IInv, AppliedHasItsVersion
  <2>3. \A w \in versions : ~(w.skill = v.skill /\ w.number = v.number)
    BY <1>2, <1>6 DEF Numbers
  <2>4. \A w, x \in versions' : w.skill = x.skill /\ w.number = x.number => w = x
    BY <1>2, <2>3 DEF IInv, AppliedHasItsVersion
  <2> QED BY <2>1, <2>2, <2>4 DEF AppliedHasItsVersion
<1>18. OneLiveProposal'
  <2> SUFFICES ASSUME ~overlapped, NEW j \in Rows, NEW k \in Rows, j # k,
                      proposals[j].skill = proposals[k].skill,
                      proposals[j].cluster = proposals[k].cluster
               PROVE  "rejected" \in {proposals'[j].status, proposals'[k].status}
    BY <1>2, <1>10, <1>11 DEF OneLiveProposal
  <2>1. proposals[i].status \in Open
    BY <1>2 DEF IInv, SerialOK, AloneOK, r, i
  <2>2. "rejected" \in {proposals[j].status, proposals[k].status}
    BY DEF IInv, OneLiveProposal
  <2> QED BY <1>10, <2>1, <2>2 DEF Open
<1> QED BY <1>12, <1>13, <1>15, <1>16, <1>17, <1>18 DEF IInv

LEMMA CommitRejectionKeeps == ASSUME IInv, NEW q \in Requests, CommitRejection(q) PROVE IInv'
<1> DEFINE r == requests[q]
           i == r.proposal
<1>1. /\ r.doing = "reject" /\ requests' = [requests EXCEPT ![q] = NoRequest]
      /\ proposals' = [proposals EXCEPT ![i].status = "rejected"]
      /\ UNCHANGED <<recent, active, versions, overlapped>>
  BY DEF CommitRejection
<1>2. r # NoRequest /\ i \in Rows
  BY <1>1, NoRequestType DEF IInv, RequestsOK, RequestOK
<1>3. proposals \in [Ids -> Proposal \cup {None}] /\ i \in Ids /\ proposals[i] \in Proposal
  BY <1>2 DEF IInv, TypeOK, Rows
<1>4. PICK p : p = [proposals[i] EXCEPT !.status = "rejected"]
  OBVIOUS
<1>5. /\ p \in Proposal /\ p.status = "rejected" /\ p.skill = proposals[i].skill
      /\ p.cluster = proposals[i].cluster /\ p.base = proposals[i].base
  BY <1>3, <1>4 DEF Proposal
<1>6. proposals' = [proposals EXCEPT ![i] = p]
  BY <1>1, <1>3, <1>4 DEF Proposal
<1>7. /\ Rows' = Rows /\ proposals' \in [Ids -> Proposal \cup {None}]
      /\ proposals'[i] = p /\ \A j \in Rows : j # i => proposals'[j] = proposals[j]
  BY <1>2, <1>3, <1>5, <1>6, NoneIsNoProposal DEF Rows
<1>8. \A j \in Rows : /\ proposals'[j].skill = proposals[j].skill
                      /\ proposals'[j].cluster = proposals[j].cluster
                      /\ proposals'[j].base = proposals[j].base
  BY <1>5, <1>7
<1>9. requests' \in [Requests -> Request] /\ RequestsOK' /\ SerialOK'
  BY <1>1, <1>2, <1>7, <1>8, EndKeepsRequests
<1>10. TypeOK'
  BY <1>1, <1>7, <1>9 DEF IInv, TypeOK
<1>11. \A k : Numbers(k)' = Numbers(k)
  BY <1>1 DEF Numbers
<1>12. BasesExist' /\ VersionsFormATree'
  BY <1>1, <1>7, <1>8, <1>11 DEF IInv, BasesExist, VersionsFormATree
<1>13. AppliedHasItsVersion'
  <2>1. ASSUME NEW j \in Rows', proposals'[j].status = "applied"
        PROVE  \E w \in versions' : w.proposal = j /\ w.skill = proposals'[j].skill
                                   /\ w.number = proposals'[j].created
    <3>1. j # i
      BY <1>5, <1>7, <2>1
    <3> QED BY <1>1, <1>7, <2>1, <3>1 DEF IInv, AppliedHasItsVersion
  <2>2. \A w \in versions' : w.proposal \in Rows'
                             /\ proposals'[w.proposal].status \in {"applied", "rejected"}
    BY <1>1, <1>5, <1>7 DEF IInv, AppliedHasItsVersion
  <2>3. \A w, x \in versions' : w.skill = x.skill /\ w.number = x.number => w = x
    BY <1>1 DEF IInv, AppliedHasItsVersion
  <2> QED BY <2>1, <2>2, <2>3 DEF AppliedHasItsVersion
<1>14. OneLiveProposal'
  <2> SUFFICES ASSUME ~overlapped, NEW j \in Rows, NEW k \in Rows, j # k,
                      proposals[j].skill = proposals[k].skill,
                      proposals[j].cluster = proposals[k].cluster
               PROVE  "rejected" \in {proposals'[j].status, proposals'[k].status}
    BY <1>1, <1>7, <1>8 DEF OneLiveProposal
  <2>1. "rejected" \in {proposals[j].status, proposals[k].status}
    BY DEF IInv, OneLiveProposal
  <2> QED BY <1>5, <1>7, <2>1
<1> QED BY <1>9, <1>10, <1>12, <1>13, <1>14 DEF IInv

LEMMA StepIInv == IInv /\ [Next]_vars => IInv'
<1> SUFFICES ASSUME IInv, [Next]_vars PROVE IInv'
  OBVIOUS
<1>0. CASE UNCHANGED vars
  <2>1. UNCHANGED <<versions, proposals, requests, overlapped, recent, active>>
    BY <1>0 DEF vars
  <2>2. recent' \in Seq(Outputs) /\ active' \in [Skills -> 0..MaxVersion]
        /\ \A j \in Skills : active'[j] \in {0} \cup Numbers(j)
    BY <2>1 DEF IInv, TypeOK, BasesExist
  <2> QED BY <2>1, <2>2, OutsideStep
<1>1. ASSUME NEW o \in Outputs, Score(o) PROVE IInv'
  <2>1. recent' \in Seq(Outputs) /\ UNCHANGED <<active, versions, proposals, requests, overlapped>>
    BY <1>1 DEF Score, IInv, TypeOK
  <2>2. active' \in [Skills -> 0..MaxVersion] /\ \A j \in Skills : active'[j] \in {0} \cup Numbers(j)
    BY <2>1 DEF IInv, TypeOK, BasesExist
  <2> QED BY <2>1, <2>2, OutsideStep
<1>2. CASE Age
  <2>1. recent' \in Seq(Outputs) /\ UNCHANGED <<active, versions, proposals, requests, overlapped>>
    BY <1>2 DEF Age, IInv, TypeOK
  <2>2. active' \in [Skills -> 0..MaxVersion] /\ \A j \in Skills : active'[j] \in {0} \cup Numbers(j)
    BY <2>1 DEF IInv, TypeOK, BasesExist
  <2> QED BY <2>1, <2>2, OutsideStep
<1>3. ASSUME NEW k \in Skills, NEW n \in 1..MaxVersion, Activate(k, n) PROVE IInv'
  <2>1. n \in Numbers(k) /\ n \in 0..MaxVersion
    BY <1>3, BoundsAreNumbers DEF Activate
  <2>2. /\ active' = [active EXCEPT ![k] = n]
        /\ UNCHANGED <<recent, versions, proposals, requests, overlapped>>
    BY <1>3 DEF Activate
  <2>3. active' \in [Skills -> 0..MaxVersion] /\ \A j \in Skills : active'[j] \in {0} \cup Numbers(j)
    BY <2>1, <2>2 DEF IInv, TypeOK, BasesExist
  <2>4. recent' \in Seq(Outputs)
    BY <2>2 DEF IInv, TypeOK
  <2> QED BY <2>2, <2>3, <2>4, OutsideStep
<1> QED
  BY <1>0, <1>1, <1>2, <1>3, GenerateKeeps, LookKeeps, ReviewKeeps, TakeNumberKeeps, GiveUpKeeps,
     CommitProposalsKeeps, CommitApprovalKeeps, CommitRejectionKeeps DEF Next

-----------------------------------------------------------------------------
\* The inductive invariant holds in every reachable state.
THEOREM Inductive == Spec => []IInv
BY InitIInv, StepIInv, PTL DEF Spec

\* Every variable keeps its type.
THEOREM TypeCorrect == Spec => []TypeOK
<1>1. IInv => TypeOK
  BY DEF IInv
<1> QED BY <1>1, Inductive, PTL

\* However approvals, rejections and generations overlap, an applied proposal has the version
\* it names, a version comes from a decided proposal, and numbers are unique.
THEOREM AppliedHasVersion == Spec => []AppliedHasItsVersion
<1>1. IInv => AppliedHasItsVersion
  BY DEF IInv
<1> QED BY <1>1, Inductive, PTL

\* The numbers of a skill have no gap and every version extends an earlier one.
THEOREM VersionTree == Spec => []VersionsFormATree
<1>1. IInv => VersionsFormATree
  BY DEF IInv
<1> QED BY <1>1, Inductive, PTL

\* As long as requests come one at a time, a failure signal of a skill has one live proposal.
THEOREM OneLive == Spec => []OneLiveProposal
<1>1. IInv => OneLiveProposal
  BY DEF IInv
<1> QED BY <1>1, Inductive, PTL

\* A decision is final as long as requests come one at a time: an approval or a rejection
\* commits only over a proposal that is still open, and a generation only adds rows.
THEOREM DecisionsStand == Spec => DecisionsAreFinal
<1> DEFINE Kept == ~overlapped' => \A i \in Rows : proposals[i].status \in {"applied", "rejected"}
                                                   => proposals'[i] = proposals[i]
<1>1. ASSUME IInv, [Next]_vars PROVE Kept
  <2> SUFFICES ASSUME ~overlapped', NEW i \in Rows, proposals[i].status \in {"applied", "rejected"}
               PROVE  proposals'[i] = proposals[i]
    OBVIOUS
  <2> USE <1>1
  <2>0. i \in Ids /\ proposals[i] # None /\ proposals \in [Ids -> Proposal \cup {None}]
    BY DEF Rows, IInv, TypeOK
  <2>1. ASSUME NEW q \in Requests, CommitProposals(q) PROVE proposals'[i] = proposals[i]
    <3>1. PICK id \in [requests[q].drafts -> Ids \ Rows] :
             proposals' = [j \in Ids |-> IF \E d \in requests[q].drafts : id[d] = j
                             THEN NewProposal(CHOOSE d \in requests[q].drafts : id[d] = j)
                             ELSE proposals[j]]
      BY <2>1 DEF CommitProposals
    <3>2. \A d \in requests[q].drafts : id[d] # i
      BY <3>1
    <3> QED BY <2>0, <3>1, <3>2
  <2>2. ASSUME NEW q \in Requests, CommitApproval(q) \/ CommitRejection(q)
        PROVE  proposals'[i] = proposals[i]
    <3>1. ~overlapped /\ requests[q].doing \in {"number", "reject"}
      BY <2>2 DEF CommitApproval, CommitRejection
    <3>2. proposals[requests[q].proposal].status \in Open
      BY <3>1 DEF IInv, SerialOK, AloneOK
    <3>3. requests[q].proposal # i
      BY <3>2 DEF Open
    <3> QED BY <2>0, <2>2, <3>3 DEF CommitApproval, CommitRejection
  <2>3. CASE UNCHANGED proposals
    BY <2>3
  <2> QED BY <2>1, <2>2, <2>3 DEF Next, vars, Score, Age, Activate, Generate, LookAtCluster,
                                 Review, TakeNumber, GiveUp
<1>2. IInv /\ [Next]_vars => [Kept]_vars
  BY <1>1
<1> QED BY <1>2, Inductive, PTL DEF Spec, DecisionsAreFinal
=============================================================================
