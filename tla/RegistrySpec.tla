---------------------------- MODULE RegistrySpec ----------------------------
(***************************************************************************)
(* What the active file promises to the tools that share it: a register in *)
(* which each mark adds exactly one entry for a process and each clear     *)
(* takes away exactly one, or finds that there is none.                    *)
(***************************************************************************)
EXTENDS Naturals

CONSTANT Entries        \* what can be registered

VARIABLE count          \* count[e]: how many entries there are for e

Init == count = [e \in Entries |-> 0]

Mark(e) == count' = [count EXCEPT ![e] = @ + 1]

Clear(e) == count[e] > 0 /\ count' = [count EXCEPT ![e] = @ - 1]

Next == \E e \in Entries : Mark(e) \/ Clear(e)

Spec == Init /\ [][Next]_count
=============================================================================
