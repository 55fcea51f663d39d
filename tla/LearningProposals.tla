-------------------------- MODULE LearningProposals --------------------------
(***************************************************************************)
(* From failing outputs to prompt versions: POST /proposals/generate       *)
(* groups the recent failures by what they show and drafts proposals, and  *)
(* POST /proposals/{id}/approve or /reject decides one.  Each request is   *)
(* one READ COMMITTED transaction; no row is locked before it is written   *)
(* and the only constraint is the unique (skill, version) of the versions. *)
(***************************************************************************)
EXTENDS Integers, FiniteSets, Sequences

CONSTANTS
    Outputs,        \* outputs the rounds may leave behind
    Traits,         \* what the score columns of an output say
    MinCitations,   \* dreamfi_workflow_min_citations
    MinCount,       \* dreamfi_learning_cluster_min_count
    Limit,          \* outputs one clustering reads
    Unactivated,    \* skills that start without an active version
    Ids,            \* proposal ids
    MaxVersion,     \* bound on the version numbers of a skill
    Requests,       \* HTTP requests that may be in flight together
    None

Skills == {Traits[o].skill : o \in Outputs}     \* numbered in the order of their ids

ASSUME OutputsHaveTraits == Outputs \subseteq DOMAIN Traits
ASSUME SkillsAreNumbers == Skills \subseteq Nat /\ Unactivated \subseteq Skills
ASSUME BoundsAreNumbers == MaxVersion \in Nat \ {0} /\ Limit \in Nat /\ MinCount \in Nat
ASSUME NoneIsNoId == None \notin Ids

VARIABLES
    recent,     \* outputs created in the window, the newest first
    active,     \* number of the active version of a skill, 0 for none
    versions,   \* rows of prompt_versions
    proposals,  \* rows of learning_proposals
    requests,   \* the requests in flight
    overlapped  \* history: two requests have been in flight together

vars == <<recent, active, versions, proposals, requests, overlapped>>

-----------------------------------------------------------------------------
\* failure_signals: output o shows signal s, a pair of category and label.
Shows(o, s) ==
    LET t == Traits[o]
    IN  \/ s = <<"hard_gate", "failed">> /\ ~t.passed
        \/ s = <<"workflow", t.workflow>> /\ t.workflow # None
        \/ s = <<"source", t.source>> /\ t.source # None
        \/ s[1] = "criteria" /\ s[2] \in t.unmet
        \/ s = <<"missing_section", "required_sections">> /\ "has_required_sections" \in t.unmet
        \/ s = <<"missing_section", "review_checklist">> /\ "has_review_checklist" \in t.unmet
        \/ s = <<"review", "unresolved_checklist">> /\ "review_checklist_resolved" \in t.unmet
        \/ s = <<"evidence", "low_citation">> /\ t.citations < MinCitations
        \/ s = <<"evidence", "stale">> /\ t.stale
        \/ s = <<"readiness", "low_export">> /\ ~t.ready

Signals ==
    {s \in {"hard_gate", "workflow", "source", "criteria", "missing_section", "review",
            "evidence", "readiness"}
           \X ({"failed", "required_sections", "review_checklist", "unresolved_checklist",
                "low_citation", "stale", "low_export"}
               \cup UNION {{Traits[o].workflow, Traits[o].source} \cup Traits[o].unmet :
                           o \in Outputs}) :
       \E o \in Outputs : Shows(o, s)}

\* build_failure_clusters: the newest failing outputs, as many as one clustering reads.
Considered ==
    LET failing == {i \in DOMAIN recent : ~Traits[recent[i]].passed \/ ~Traits[recent[i]].ready}
    IN  {recent[i] : i \in {j \in failing : Cardinality({h \in failing : h <= j}) <= Limit}}

Cluster(s) == {o \in Considered : Shows(o, s)}

Repeated == {s \in Signals : Cluster(s) # {} /\ Cardinality(Cluster(s)) >= MinCount}

\* _primary_skill_id: only the first skill of a cluster gets a proposal.
PrimarySkill(S) == CHOOSE k \in S : \A j \in S : k <= j

SkillsOf(s) == {Traits[o].skill : o \in Cluster(s)}

-----------------------------------------------------------------------------
Version  == [skill : Skills, number : 2..MaxVersion, base : 1..MaxVersion, proposal : Ids]
Draft    == [skill : Skills, cluster : Signals, base : 0..MaxVersion]
Proposal == [skill : Skills, cluster : Signals, base : 0..MaxVersion,
             status : {"draft", "approved", "rejected", "applied"},
             created : 0..MaxVersion]
Request  == [doing : {"idle", "generate", "approve", "number", "reject"},
             todo : SUBSET (Skills \X Signals),     \* clusters not yet looked at
             drafts : SUBSET Draft,                 \* rows of the open transaction
             proposal : Ids \cup {None},            \* under review
             base : 0..MaxVersion, number : 0..MaxVersion]

NoRequest == [doing |-> "idle", todo |-> {}, drafts |-> {}, proposal |-> None,
              base |-> 0, number |-> 0]

ASSUME NoneIsNoProposal == None \notin Proposal

Rows == {i \in Ids : proposals[i] # None}

\* The version numbers of a skill.  Seeding or the first workflow inserts the first one as
\* active, and no approval finds a base before.
Numbers(k) == {1} \cup {v.number : v \in {w \in versions : w.skill = k}}

Init == /\ recent = <<>>
        /\ active = [k \in Skills |-> IF k \in Unactivated THEN 0 ELSE 1]
        /\ versions = {} /\ proposals = [i \in Ids |-> None]
        /\ requests = [q \in Requests |-> NoRequest]
        /\ overlapped = FALSE

Begin(q, r) == /\ requests[q] = NoRequest
               /\ requests' = [requests EXCEPT ![q] = r]
               /\ overlapped' = (overlapped \/ \E p \in Requests \ {q} : requests[p] # NoRequest)

\* A refusal (422), a crash or a lost connection: nothing of the request is committed.
GiveUp(q) == /\ requests[q] # NoRequest
             /\ requests' = [requests EXCEPT ![q] = NoRequest]
             /\ UNCHANGED <<recent, active, versions, proposals, overlapped>>

-----------------------------------------------------------------------------
\* A round leaves output o, an output leaves the window, a version is activated: the first
\* when it is inserted, any of them by a promotion.
Score(o) == /\ \A i \in DOMAIN recent : recent[i] # o
            /\ recent' = <<o>> \o recent
            /\ UNCHANGED <<active, versions, proposals, requests, overlapped>>

Age == /\ recent # <<>>
       /\ recent' = SubSeq(recent, 1, Len(recent) - 1)
       /\ UNCHANGED <<active, versions, proposals, requests, overlapped>>

Activate(k, n) == /\ n \in Numbers(k) /\ active[k] # n
                  /\ active' = [active EXCEPT ![k] = n]
                  /\ UNCHANGED <<recent, versions, proposals, requests, overlapped>>

-----------------------------------------------------------------------------
\* generate_learning_proposals.
Generate(q) ==
    /\ Begin(q, [NoRequest EXCEPT !.doing = "generate",
                                  !.todo = {<<PrimarySkill(SkillsOf(s)), s>> : s \in Repeated}])
    /\ UNCHANGED <<recent, active, versions, proposals>>

\* Bug: an applied proposal is forgotten.
UndecidedOf(k, s) == {i \in Rows : /\ proposals[i].skill = k /\ proposals[i].cluster = s
                                   /\ proposals[i].status \in {"draft", "approved"}}

\* The proposals that keep a cluster of a skill from being proposed again.
LiveOf(k, s) == {i \in Rows : /\ proposals[i].skill = k /\ proposals[i].cluster = s
                              /\ proposals[i].status \in {"draft", "approved", "applied"}}

LookAtCluster(q, k, s) ==
    LET r == requests[q]
        d == [skill |-> k, cluster |-> s, base |-> active[k]]
    IN  /\ requests' = [requests EXCEPT
               ![q].todo = r.todo \ {<<k, s>>},
               ![q].drafts = IF LiveOf(k, s) = {} THEN r.drafts \cup {d} ELSE r.drafts]
        /\ UNCHANGED <<recent, active, versions, proposals, overlapped>>

\* Bug: a status that no handler knows.
PendingProposal(d) == [skill |-> d.skill, cluster |-> d.cluster, base |-> d.base,
                       status |-> "pending", created |-> 0]

NewProposal(d) == [skill |-> d.skill, cluster |-> d.cluster, base |-> d.base,
                   status |-> "draft", created |-> 0]

CommitProposals(q) ==
    LET r == requests[q]
    IN  /\ r.doing = "generate" /\ r.todo = {}
        /\ \E id \in [r.drafts -> Ids \ Rows] :
             /\ \A d, e \in r.drafts : id[d] = id[e] => d = e
             /\ proposals' = [i \in Ids |->
                    IF \E d \in r.drafts : id[d] = i
                    THEN NewProposal(CHOOSE d \in r.drafts : id[d] = i)
                    ELSE proposals[i]]
        /\ requests' = [requests EXCEPT ![q] = NoRequest]
        /\ UNCHANGED <<recent, active, versions, overlapped>>

-----------------------------------------------------------------------------
\* Bug: the status is not checked.
ReviewAnyStatus(q, i, doing) ==
    /\ Begin(q, [NoRequest EXCEPT !.doing = doing, !.proposal = i])
    /\ UNCHANGED <<recent, active, versions, proposals>>

\* Both handlers load the proposal and check the status they loaded.
Review(q, i, doing) ==
    /\ proposals[i].status \in {"draft", "approved"}
    /\ Begin(q, [NoRequest EXCEPT !.doing = doing, !.proposal = i])
    /\ UNCHANGED <<recent, active, versions, proposals>>

Highest(S) == CHOOSE n \in S : \A m \in S : m <= n

\* Bug: the number counts the decided proposals of the skill, rejected ones among them.
CountOfDecided(k) ==
    1 + Cardinality({i \in Rows : /\ proposals[i].skill = k
                                  /\ proposals[i].status \in {"applied", "rejected"}})

HighestOf(k) == Highest(Numbers(k))

\* approve_learning_proposal: the base is the version that was active when the proposal
\* was drafted, and the number is one more than the highest that is committed.
TakeNumber(q) ==
    LET r == requests[q]
        p == proposals[r.proposal]
        base == IF p.base = 0 THEN active[p.skill] ELSE p.base
        highest == HighestOf(p.skill)
    IN  /\ r.doing = "approve" /\ base # 0 /\ highest < MaxVersion
        /\ requests' = [requests EXCEPT ![q].doing = "number", ![q].base = base,
                                        ![q].number = highest + 1]
        /\ UNCHANGED <<recent, active, versions, proposals, overlapped>>

\* Bug: the proposal keeps its status.
CommitVersionOnly(q) ==
    LET r == requests[q]
        p == proposals[r.proposal]
    IN  /\ r.doing = "number" /\ r.number \notin Numbers(p.skill)
        /\ versions' = versions \cup {[skill |-> p.skill, number |-> r.number, base |-> r.base,
                                       proposal |-> r.proposal]}
        /\ proposals' = [proposals EXCEPT ![r.proposal].created = r.number]
        /\ requests' = [requests EXCEPT ![q] = NoRequest]
        /\ UNCHANGED <<recent, active, overlapped>>

\* The unique constraint lets one of two equal numbers in: the other request gives up.
CommitApproval(q) ==
    LET r == requests[q]
        p == proposals[r.proposal]
    IN  /\ r.doing = "number" /\ r.number \notin Numbers(p.skill)
        /\ versions' = versions \cup {[skill |-> p.skill, number |-> r.number, base |-> r.base,
                                       proposal |-> r.proposal]}
        /\ proposals' = [proposals EXCEPT ![r.proposal].status = "applied",
                                          ![r.proposal].created = r.number]
        /\ requests' = [requests EXCEPT ![q] = NoRequest]
        /\ UNCHANGED <<recent, active, overlapped>>

\* reject_learning_proposal.
CommitRejection(q) ==
    LET r == requests[q]
    IN  /\ r.doing = "reject"
        /\ proposals' = [proposals EXCEPT ![r.proposal].status = "rejected"]
        /\ requests' = [requests EXCEPT ![q] = NoRequest]
        /\ UNCHANGED <<recent, active, versions, overlapped>>

-----------------------------------------------------------------------------
Next == \/ \E o \in Outputs : Score(o)
        \/ Age
        \/ \E k \in Skills, n \in 1..MaxVersion : Activate(k, n)
        \/ \E q \in Requests :
             \/ Generate(q)
             \/ \E c \in requests[q].todo : LookAtCluster(q, c[1], c[2])
             \/ CommitProposals(q)
             \/ \E i \in Rows, doing \in {"approve", "reject"} : Review(q, i, doing)
             \/ TakeNumber(q) \/ CommitApproval(q) \/ CommitRejection(q)
             \/ GiveUp(q)

Spec == Init /\ [][Next]_vars

-----------------------------------------------------------------------------
\* Every variable has its type.
TypeOK == /\ recent \in Seq(Outputs)
          /\ active \in [Skills -> 0..MaxVersion]
          /\ versions \subseteq Version
          /\ proposals \in [Ids -> Proposal \cup {None}]
          /\ requests \in [Requests -> Request]
          /\ overlapped \in BOOLEAN

\* However requests overlap, an applied proposal names a version that was made from it for
\* its own skill, a version is made only from a proposal that has been decided, and no two
\* versions of a skill share a number (approve_learning_proposal with
\* uq_prompt_versions_skill_version).
AppliedHasItsVersion ==
    /\ \A i \in Rows : proposals[i].status = "applied" =>
         \E v \in versions : v.proposal = i /\ v.skill = proposals[i].skill
                             /\ v.number = proposals[i].created
    /\ \A v \in versions : v.proposal \in Rows
                           /\ proposals[v.proposal].status \in {"applied", "rejected"}
    /\ \A v, w \in versions : v.skill = w.skill /\ v.number = w.number => v = w

\* Whichever approvals fail, the numbers of a skill have no gap and every version extends
\* an earlier version of its skill.
VersionsFormATree ==
    \A v \in versions : 1..v.number \subseteq Numbers(v.skill) /\ v.base < v.number

\* As long as requests have come one at a time, a failure signal of a skill has at most
\* one proposal that is open or applied (the check of generate_learning_proposals).
OneLiveProposal ==
    ~overlapped => \A i, j \in Rows :
        /\ i # j
        /\ proposals[i].skill = proposals[j].skill
        /\ proposals[i].cluster = proposals[j].cluster
        => "rejected" \in {proposals[i].status, proposals[j].status}

\* As long as requests have come one at a time, a decision is final: an applied proposal
\* stays applied with its version, a rejected one stays rejected.
DecisionsAreFinal ==
    [][~overlapped' =>
         \A i \in Rows : proposals[i].status \in {"applied", "rejected"} =>
                           proposals'[i] = proposals[i]]_vars
=============================================================================
