----------------------------- MODULE RunContract -----------------------------
(***************************************************************************)
(* What a run promises, whoever works on it: the state machine of           *)
(* RunStatus, and the one job it may cause.  RunLifecycle implements it.   *)
(***************************************************************************)

CONSTANT Runs

VARIABLES
  status,   \* RunStatus, or "none" while there is no such run
  started,  \* the run has been claimed for execution
  executed  \* its suite was handed to the engine

vars == <<status, started, executed>>

Unfinished == {"QUEUED", "RUNNING"}
Verdicts   == {"PASSED", "FAILED", "ERROR"}

Init ==
  /\ status = [r \in Runs |-> "none"]
  /\ started = [r \in Runs |-> FALSE]
  /\ executed = [r \in Runs |-> FALSE]

Move(r, to) == status' = [status EXCEPT ![r] = to]

Queue(r) ==
  /\ status[r] = "none" /\ ~started[r] /\ ~executed[r]
  /\ Move(r, "QUEUED")
  /\ UNCHANGED <<started, executed>>

Start(r) ==
  /\ status[r] = "QUEUED"
  /\ Move(r, "RUNNING")
  /\ started' = [started EXCEPT ![r] = TRUE]
  /\ UNCHANGED executed

(* A verdict about the application needs a run that started.               *)
Finish(r, verdict) ==
  /\ status[r] = "RUNNING" \/ (status[r] = "QUEUED" /\ verdict = "ERROR")
  /\ Move(r, verdict)
  /\ UNCHANGED <<started, executed>>

Cancel(r) ==
  /\ status[r] \in Unfinished
  /\ Move(r, "CANCELLED")
  /\ UNCHANGED <<started, executed>>

(* The suite of a run is executed once, and only after the run started;     *)
(* a cancellation in between does not stop it.                             *)
Execute(r) ==
  /\ ~executed[r]
  /\ started[r] \/ status[r] = "none"
  /\ executed' = [executed EXCEPT ![r] = TRUE]
  /\ UNCHANGED <<status, started>>

(* Runs go with their project.                                             *)
Delete(gone) ==
  /\ status' = [r \in Runs |-> IF r \in gone THEN "none" ELSE status[r]]
  /\ started' = [r \in Runs |-> IF r \in gone THEN FALSE ELSE started[r]]
  /\ UNCHANGED executed

Next ==
  \/ \E r \in Runs : Queue(r) \/ Start(r) \/ Cancel(r) \/ Execute(r)
  \/ \E r \in Runs, verdict \in Verdicts : Finish(r, verdict)
  \/ \E gone \in SUBSET Runs : Delete(gone)

Spec == Init /\ [][Next]_vars

=============================================================================
