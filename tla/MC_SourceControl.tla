-------------------------- MODULE MC_SourceControl --------------------------
(* Small instances of SourceControl for TLC. *)
EXTENDS SourceControl

CONSTANTS main, topic, spec

TwoBranches == {main, topic}
OneFile == {spec}
WatchedReads == {"status", "history"}
BranchReads == {"status", "branches"}
=============================================================================
