--------------------------- MODULE MCConnectorSync ---------------------------
(***************************************************************************)
(* Instances of ConnectorSync for TLC.                                     *)
(***************************************************************************)
EXTENDS ConnectorSync, TLC

TwoContents == {1, 2}
OneEdit == {<<1, 2>>}

\* Documents and requests are interchangeable.
Interchangeable == Permutations(Docs) \cup Permutations(Requests)
=============================================================================
