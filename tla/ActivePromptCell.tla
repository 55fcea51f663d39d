-------------------------- MODULE ActivePromptCell --------------------------
(***************************************************************************)
(* What prompt promotion promises of the active version of a skill: it is  *)
(* a compare-and-swap cell.  A client reads the cell and later replaces    *)
(* exactly the content it read; it can never overwrite a version activated *)
(* in between, and the cell never holds two.  A client may also clear what *)
(* it read: promote() does when its target was switched off after loading. *)
(***************************************************************************)
CONSTANTS Versions, Clients

VARIABLES
    active,    \* content of the cell: {} or {v}
    expected   \* what each client read: {} or {v}

cellVars == <<active, expected>>

CellInit == /\ active = {}
            /\ expected = [c \in Clients |-> {}]

Read(c) == /\ expected' = [expected EXCEPT ![c] = active]
           /\ UNCHANGED active

Forget(c) == /\ expected' = [expected EXCEPT ![c] = {}]
             /\ UNCHANGED active

\* Nothing but the expected content is replaced.
Swap(c, v) == /\ active \ {v} \subseteq expected[c]
              /\ active' = {v}
              /\ UNCHANGED expected

Clear(c) == /\ active' = active \ expected[c]
            /\ UNCHANGED expected

\* An empty cell may be filled without having been read.
Fill(v) == /\ active = {}
           /\ active' = {v}
           /\ UNCHANGED expected

CellNext == \/ \E c \in Clients : \/ Read(c)
                                  \/ Forget(c)
                                  \/ Clear(c)
                                  \/ \E v \in Versions : Swap(c, v)
            \/ \E v \in Versions : Fill(v)

CellSpec == CellInit /\ [][CellNext]_cellVars
=============================================================================
