---------------------------- MODULE MC_Environments ----------------------------
(* Two people and the environments of one project.                         *)
EXTENDS Environments, TLC

CONSTANTS c1, c2, dev, staging, k1, k2

TwoClients == {c1, c2}
TwoNames == {dev, staging}
TwoKeys == {k1, k2}
Alike == Permutations(TwoClients) \cup Permutations(TwoNames) \cup Permutations(TwoKeys)
===============================================================================
