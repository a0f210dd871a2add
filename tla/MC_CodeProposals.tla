-------------------------- MODULE MC_CodeProposals --------------------------
(* Small instances of CodeProposals.                                       *)
EXTENDS CodeProposals, TLC

CONSTANTS h1, h2, p1, p2, p3

OneHandler     == {h1}
TwoHandlers    == {h1, h2}
TwoProposals   == {p1, p2}
ThreeProposals == {p1, p2, p3}

(* Handlers are interchangeable, and so are the identities of proposals:    *)
(* only states and actions are asked about, no liveness.                   *)
Interchangeable == Permutations(TwoHandlers) \cup Permutations(TwoProposals)

=============================================================================
