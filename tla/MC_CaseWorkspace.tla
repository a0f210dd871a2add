-------------------------- MODULE MC_CaseWorkspace --------------------------
(* Small instances of CaseWorkspace for TLC. *)
EXTENDS CaseWorkspace

CONSTANTS spec, page, open, check

SpecAndPage == {spec, page}

(* A spec alone, and one whose steps moved and that needs a page object.    *)
TwoProjections ==
  { [p \in {spec} |-> <<open, check>>],
    [p \in SpecAndPage |-> <<check, open>>] }

OneCorrection == {<<check, open, EmptyLine>>}

(* One model step for the one manual step. *)
OneDocument == {<<{1}>>}
=============================================================================
