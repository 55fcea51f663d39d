------------------------------ MODULE MCLearning ------------------------------
(***************************************************************************)
(* An instance of the three review desks.                                  *)
(***************************************************************************)
EXTENDS ReviewDesks, TLC

CONSTANTS o1, o2, o3, t1, t2, t3, t4, brief, triage

\* All fail the hard gate, the two of the second skill on stale evidence: a cluster of the
\* two newest has skills 1 and 2, or only 2.
TraitsOf ==
    LET fails == [skill |-> 2, passed |-> FALSE, workflow |-> None, source |-> None,
                  unmet |-> {}, citations |-> 1, stale |-> TRUE, ready |-> TRUE]
    IN  o1 :> [fails EXCEPT !.skill = 1, !.stale = FALSE] @@ o2 :> fails @@ o3 :> fails

\* Two workflows; one trace of the first is private and one used an operational source.
DoesOf ==
    LET does == [workflow |-> brief, private |-> FALSE, sources |-> {"jira"},
                 identifiers |-> {"member"}]
    IN  t1 :> does
     @@ t2 :> [does EXCEPT !.sources = {"jira", "sardine"}, !.identifiers = {}]
     @@ t3 :> [does EXCEPT !.private = TRUE, !.identifiers = {}]
     @@ t4 :> [does EXCEPT !.workflow = triage]

ASSUME TracesAreDescribed == Traces \subseteq DOMAIN DoesOf /\ MinTraces \in Nat \ {0}

\* What the theorems about two of the desks assume.
ASSUME NullIsNoKey == NoRowIsNoKey
ASSUME FewTraces == TracesAreFinite

\* The desks use the same row ids and requests, so few permutations suffice.
Interchangeable == Permutations(Ids) \cup Permutations(Requests)
=============================================================================
