----------------------------- MODULE MCContextAsk -----------------------------
(***************************************************************************)
(* Instances of ContextAsk for TLC: two spellings of one question, a       *)
(* question about the same squad as the first, and an epic whose key reads *)
(* like that question.                                                     *)
(***************************************************************************)
EXTENDS ContextAsk, TLC

CONSTANTS spelling, respelling, squadQuestion, epicQuestion

AliasOf == spelling :> "a" @@ respelling :> "a" @@ squadQuestion :> "b" @@ epicQuestion :> "b"

NameOf == spelling :> "Squad" @@ respelling :> "Title" @@ squadQuestion :> "Squad"
              @@ epicQuestion :> "Key"

\* Entities, bundle ids and requests are interchangeable.
Interchangeable ==
    Permutations(Entities) \cup Permutations(Bundles) \cup Permutations(Requests)
=============================================================================
