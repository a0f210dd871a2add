---------------------------- MODULE MC_RunnerJobs ----------------------------
(* Small instances of RunnerJobs.                                          *)
EXTENDS RunnerJobs, TLC

CONSTANTS j1, j2, d1

TwoJobs == {j1, j2}
OneDir  == {d1}

(* Nothing attempted; a green test that needed a retry beside a skipped one; *)
(* a green one beside one that is red at the end.                          *)
SomeReports ==
  {<<<<>>>>, <<<<"failed", "passed">>, <<"skipped">>>>,
   <<<<"passed">>, <<"failed", "timedOut">>>>}

=============================================================================
