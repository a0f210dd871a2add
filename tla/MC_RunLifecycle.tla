--------------------------- MODULE MC_RunLifecycle ---------------------------
(***************************************************************************)
(* Small instances of RunLifecycle for TLC.                                *)
(***************************************************************************)
EXTENDS RunLifecycle, TLC

CONSTANTS p1, p2, k1, k2

(* One case per project is enough when only the project matters.           *)
AllInFirst == [k \in Cases |-> p1]
OneEach == [k \in Cases |-> IF k = k1 THEN p1 ELSE p2]

Symmetry == Permutations(Runs) \cup Permutations(Threads)

=============================================================================
