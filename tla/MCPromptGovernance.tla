------------------------- MODULE MCPromptGovernance -------------------------
(***************************************************************************)
(* Instances of PromptGovernance for TLC, and the refinement of the        *)
(* compare-and-swap cell.                                                  *)
(***************************************************************************)
EXTENDS PromptGovernance, TLC

NoGolds == {}
OneGold == {1}
TwoGolds == {1, 2}

\* Prompt versions, rounds and requests are interchangeable.
Interchangeable ==
    Permutations(Versions) \cup Permutations(Rounds) \cup Permutations(Requests)
=============================================================================
