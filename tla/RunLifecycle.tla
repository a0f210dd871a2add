---------------------------- MODULE RunLifecycle ----------------------------
(***************************************************************************)
(* A test run from the request to its verdict: RunService (request and     *)
(* cancel, on HTTP threads), RunExecutor (dispatch, on a fixed pool), the   *)
(* test_runs / test_run_items rows they share, and the runner service the  *)
(* pool calls over HTTP.                                                   *)
(*                                                                         *)
(* Every database transaction is two steps, the read and the commit, so    *)
(* that the transactions of different threads interleave as they do under  *)
(* PostgreSQL's READ COMMITTED.  A commit succeeds only if the row still   *)
(* has the @Version that was read and every item row it updates is still   *)
(* there; otherwise JPA raises an optimistic lock failure.                 *)
(***************************************************************************)
EXTENDS Naturals, Sequences, FiniteSets

CONSTANTS
  Runs,           \* identities of the runs that may be requested
  Projects,       \* projects of one workspace
  Cases,          \* automated test cases
  ProjectOf,      \* the project of each case
  Browsers,       \* browsers a request may name
  Threads,        \* the executor's pool
  Users,          \* concurrent handlers of the cancel endpoint
  MaxConcurrent,  \* runner.maxConcurrentPerWorkspace
  Deletable,      \* cases that users may delete (bound)
  Closable,       \* projects that users may delete (bound)
  MaxCrashes,     \* restarts of the API process (bound)
  RunnerFails,    \* whether the runner may crash or lose a connection
  NoRun, NoProject

ASSUME ConstantsAssumption ==
  /\ ProjectOf \in [Cases -> Projects]
  /\ Deletable \subseteq Cases
  /\ Closable \subseteq Projects
  /\ MaxConcurrent \in Nat \ {0}
  /\ MaxCrashes \in Nat
  /\ RunnerFails \in BOOLEAN
  /\ NoRun \notin Runs
  /\ NoProject \notin Projects

VARIABLES
  run,       \* the test_runs row of each run, with its items
  seq,       \* projects.test_run_sequence
  lock,      \* the request whose transaction holds the project's row lock
  projects,  \* projects that exist
  cases,     \* test cases that exist
  request,   \* progress of RunService.request for each run
  queue,     \* the pool's task queue
  thread,    \* progress of RunExecutor.dispatch on each pool thread
  cancel,    \* progress of RunService.cancel in each handler
  job,       \* the runner's execute job of each run
  answer,    \* history: what the runner reported of each cell
  crashes    \* history: restarts of the API so far

db   == <<run, seq, lock, projects, cases>>
vars == <<run, seq, lock, projects, cases, request, queue, thread, cancel,
          job, answer, crashes>>

-----------------------------------------------------------------------------
(* Statuses and rows.  "none" stands for a row that is not there.          *)

Cells == Cases \X Browsers

Terminal   == {"PASSED", "FAILED", "ERROR", "CANCELLED"}
InFlight   == {"QUEUED", "RUNNING"}
RunStatus  == InFlight \cup Terminal
ItemStatus == {"QUEUED", "RUNNING", "PASSED", "FAILED", "ERROR", "SKIPPED"}

(* What the runner can say of a cell: readReport maps the engine's words    *)
(* onto four statuses, and a cell may be missing from the report.          *)
Reported == {"PASSED", "FAILED", "SKIPPED", "ERROR", "missing"}

NoItems  == [c \in Cells |-> "none"]
NoReport == [c \in Cells |-> "missing"]

NoRow == [status |-> "none", version |-> 0, started |-> FALSE,
          project |-> NoProject, ref |-> 0, items |-> NoItems]

Row == [status : RunStatus \cup {"none"}, version : Nat, started : BOOLEAN,
        project : Projects \cup {NoProject}, ref : Nat,
        items : [Cells -> ItemStatus \cup {"none"}]]

Matrix(r) == {c \in Cells : run[r].items[c] # "none"}
(* Faulty: the cells that have not started yet.                            *)
RunningNotStarted(r) == {c \in Cells : run[r].items[c] = "QUEUED"}
Running(r) == {c \in Cells : run[r].items[c] = "RUNNING"}

InFlightRuns == {r \in Runs : run[r].status \in InFlight}

IdleThread  == [pc |-> "idle", run |-> NoRun, version |-> 0, seen |-> {}, inTry |-> FALSE]
IdleHandler == [run |-> NoRun, version |-> 0]

(* Where a handler of RunService.request, a pool thread and a cancel        *)
(* handler can be.                                                         *)
RequestState ==
  [pc : {"idle", "counted", "numbered", "committed", "done"},
   project : Projects \cup {NoProject}, seq : Nat]
ThreadState ==
  [pc : {"idle", "marking", "claimed", "waiting", "recording", "failing", "finishing"},
   run : Runs \cup {NoRun}, version : Nat, seen : SUBSET Cells, inTry : BOOLEAN]
HandlerState == [run : Runs \cup {NoRun}, version : Nat]

TypeOK ==
  /\ run \in [Runs -> Row]
  /\ seq \in [Projects -> Nat]
  /\ lock \in [Projects -> Runs \cup {NoRun}]
  /\ projects \subseteq Projects
  /\ cases \subseteq Cases
  /\ request \in [Runs -> RequestState]
  /\ queue \in Seq(Runs)
  /\ thread \in [Threads -> ThreadState]
  /\ cancel \in [Users -> HandlerState]
  /\ job \in [Runs -> {"none", "executing", "ended"}]
  /\ answer \in [Runs -> [Cells -> Reported]]
  /\ crashes \in Nat

Init ==
  /\ run = [r \in Runs |-> NoRow]
  /\ seq = [p \in Projects |-> 0]
  /\ lock = [p \in Projects |-> NoRun]
  /\ projects = Projects
  /\ cases = Cases
  /\ request = [r \in Runs |-> [pc |-> "idle", project |-> NoProject, seq |-> 0]]
  /\ queue = <<>>
  /\ thread = [t \in Threads |-> IdleThread]
  /\ cancel = [u \in Users |-> IdleHandler]
  /\ job = [r \in Runs |-> "none"]
  /\ answer = [r \in Runs |-> NoReport]
  /\ crashes = 0

-----------------------------------------------------------------------------
(* RunService.request: one transaction that loads the project (access        *)
(* check), counts, locks the project row to mint RUN-n and inserts, then a   *)
(* hand-over after its commit.                                             *)

(* The limit is checked on the rows committed so far.                      *)
RequestCount(r, p) ==
  /\ request[r].pc = "idle"
  /\ p \in projects
  /\ Cardinality(InFlightRuns) < MaxConcurrent
  /\ request' = [request EXCEPT ![r] = [pc |-> "counted", project |-> p, seq |-> seq[p]]]
  /\ UNCHANGED <<run, seq, lock, projects, cases, queue, thread, cancel, job, answer, crashes>>

(* Faulty: a project without @Version, whose stale sequence is minted.     *)
RequestNumberStale(r) ==
  LET p == request[r].project IN
  /\ request[r].pc = "counted"
  /\ p \in projects
  /\ lock[p] = NoRun
  /\ lock' = [lock EXCEPT ![p] = r]
  /\ request' = [request EXCEPT ![r].pc = "numbered"]
  /\ UNCHANGED <<run, seq, projects, cases, queue, thread, cancel, job, answer, crashes>>

(* nextTestRunReference: SELECT ... FOR UPDATE on the project's row.  The    *)
(* entity is already in the persistence context, so what the lock gives is   *)
(* the state read first; if the row was bumped meanwhile its @Version has    *)
(* changed, and the transaction fails instead of minting.                  *)
RequestNumber(r) ==
  LET p == request[r].project IN
  /\ request[r].pc = "counted"
  /\ p \in projects
  /\ lock[p] = NoRun
  /\ request[r].seq = seq[p]
  /\ lock' = [lock EXCEPT ![p] = r]
  /\ request' = [request EXCEPT ![r].pc = "numbered"]
  /\ UNCHANGED <<run, seq, projects, cases, queue, thread, cancel, job, answer, crashes>>

(* The row, its matrix and the bumped sequence commit together, which      *)
(* releases the lock.                                                      *)
RequestCommit(r, selected, browsers) ==
  LET p == request[r].project IN
  /\ request[r].pc = "numbered"
  /\ selected # {} /\ browsers # {}
  /\ \A k \in selected : k \in cases /\ ProjectOf[k] = p
  /\ run' = [run EXCEPT ![r] =
       [status |-> "QUEUED", version |-> 0, started |-> FALSE, project |-> p,
        ref |-> request[r].seq + 1,
        items |-> [c \in Cells |-> IF c \in selected \X browsers THEN "QUEUED" ELSE "none"]]]
  /\ seq' = [seq EXCEPT ![p] = request[r].seq + 1]
  /\ lock' = [lock EXCEPT ![p] = NoRun]
  /\ request' = [request EXCEPT ![r].pc = "committed"]
  /\ UNCHANGED <<projects, cases, queue, thread, cancel, job, answer, crashes>>

(* Any refusal or failure on the way (no environment, nothing to run, the   *)
(* working copy, a stale project, a case deleted meanwhile) rolls the        *)
(* transaction back.                                                       *)
RequestAbort(r) ==
  /\ request[r].pc \in {"counted", "numbered"}
  /\ lock' = [p \in Projects |-> IF lock[p] = r THEN NoRun ELSE lock[p]]
  /\ request' = [request EXCEPT ![r].pc = "done"]
  /\ UNCHANGED <<run, seq, projects, cases, queue, thread, cancel, job, answer, crashes>>

(* Faulty: submitted from inside the transaction and again after it.       *)
EnqueueTwice(r) ==
  /\ request[r].pc = "committed"
  /\ queue' = queue \o <<r, r>>
  /\ request' = [request EXCEPT ![r].pc = "done"]
  /\ UNCHANGED <<run, seq, lock, projects, cases, thread, cancel, job, answer, crashes>>

(* The afterCommit callback: executor.enqueue.                             *)
Enqueue(r) ==
  /\ request[r].pc = "committed"
  /\ queue' = Append(queue, r)
  /\ request' = [request EXCEPT ![r].pc = "done"]
  /\ UNCHANGED <<run, seq, lock, projects, cases, thread, cancel, job, answer, crashes>>

-----------------------------------------------------------------------------
(* RunService.cancel.                                                      *)

(* Faulty: without the isTerminal refusal.                                 *)
CancelReadAny(u, r) ==
  /\ cancel[u].run = NoRun
  /\ run[r].status # "none"
  /\ cancel' = [cancel EXCEPT ![u] = [run |-> r, version |-> run[r].version]]
  /\ UNCHANGED <<run, seq, lock, projects, cases, request, queue, thread, job, answer, crashes>>

CancelRead(u, r) ==
  /\ cancel[u].run = NoRun
  /\ run[r].status \in InFlight
  /\ cancel' = [cancel EXCEPT ![u] = [run |-> r, version |-> run[r].version]]
  /\ UNCHANGED <<run, seq, lock, projects, cases, request, queue, thread, job, answer, crashes>>

(* Faulty: a test_runs row without @Version.                               *)
CurrentUnversioned(r, version) == run[r].status # "none"

(* The row is current: it still has the version the transaction read.      *)
Current(r, version) == run[r].status # "none" /\ run[r].version = version

(* The UPDATE of a current row; started_at is set with RUNNING.            *)
Update(r, status, items) ==
  run' = [run EXCEPT ![r] =
    [status |-> status, version |-> run[r].version + 1,
     started |-> run[r].started \/ status = "RUNNING",
     project |-> run[r].project, ref |-> run[r].ref, items |-> items]]

CancelCommit(u) ==
  LET r == cancel[u].run IN
  /\ r # NoRun
  /\ IF Current(r, cancel[u].version)
     THEN Update(r, "CANCELLED", run[r].items)
     ELSE UNCHANGED run
  /\ cancel' = [cancel EXCEPT ![u] = IdleHandler]
  /\ UNCHANGED <<seq, lock, projects, cases, request, queue, thread, job, answer, crashes>>

-----------------------------------------------------------------------------
(* RunExecutor.dispatch, one task at a time on each pool thread.           *)

(* A transaction reads r, and will update the items in seen.               *)
Begin(t, pc, r, seen) ==
  thread' = [thread EXCEPT ![t] =
    [pc |-> pc, run |-> r, version |-> run[r].version, seen |-> seen,
     inTry |-> thread[t].inTry]]
Goto(t, pc, inTry) ==
  thread' = [thread EXCEPT ![t] =
    [pc |-> pc, run |-> thread[t].run, version |-> thread[t].version,
     seen |-> thread[t].seen, inTry |-> inTry]]
Release(t) == thread' = [thread EXCEPT ![t] = IdleThread]

(* Hibernate updates every dirty row by id and version.                    *)
CanFlush(t) ==
  /\ Current(thread[t].run, thread[t].version)
  /\ thread[t].seen \subseteq Matrix(thread[t].run)

(* A free thread takes the next task and markRunning reads the row.        *)
Take(t) ==
  /\ thread[t].pc = "idle"
  /\ queue # <<>>
  /\ queue' = Tail(queue)
  /\ IF run[Head(queue)].status = "QUEUED"
     THEN Begin(t, "marking", Head(queue), Matrix(Head(queue)))
     ELSE UNCHANGED thread
  /\ UNCHANGED <<run, seq, lock, projects, cases, request, cancel, job, answer, crashes>>

(* Faulty: a claim that lost its race goes on as if it had won.            *)
MarkRunningAnyway(t) ==
  LET r == thread[t].run IN
  /\ thread[t].pc = "marking"
  /\ Goto(t, "claimed", FALSE)
  /\ IF CanFlush(t)
     THEN Update(r, "RUNNING", [c \in Cells |-> IF c \in Matrix(r) THEN "RUNNING" ELSE "none"])
     ELSE UNCHANGED run
  /\ UNCHANGED <<seq, lock, projects, cases, request, queue, cancel, job, answer, crashes>>

MarkRunning(t) ==
  LET r == thread[t].run IN
  /\ thread[t].pc = "marking"
  /\ IF CanFlush(t)
     THEN /\ Update(r, "RUNNING", [c \in Cells |-> IF c \in Matrix(r) THEN "RUNNING" ELSE "none"])
          /\ Goto(t, "claimed", FALSE)
     ELSE /\ Goto(t, "failing", FALSE)
          /\ UNCHANGED run
  /\ UNCHANGED <<seq, lock, projects, cases, request, queue, cancel, job, answer, crashes>>

(* The payload is built from the claimed run and posted.                   *)
Send(t) ==
  LET r == thread[t].run IN
  /\ thread[t].pc = "claimed"
  /\ thread[t].seen # {}
  /\ job' = [job EXCEPT ![r] = "executing"]
  /\ Goto(t, "waiting", FALSE)
  /\ UNCHANGED <<db, request, queue, cancel, answer, crashes>>

(* The runner refuses the payload (a run whose every cell was deleted       *)
(* before the claim names no browser) or cannot make its output directory;  *)
(* finishWithError is then called inside the try block.                    *)
SendRefused(t) ==
  /\ thread[t].pc = "claimed"
  /\ Goto(t, "failing", TRUE)
  /\ UNCHANGED <<db, request, queue, cancel, job, answer, crashes>>

(* Faulty: the environment is read outside the try block.                  *)
PrepareFailsUncaught(t) ==
  /\ thread[t].pc = "claimed"
  /\ Release(t)
  /\ UNCHANGED <<db, request, queue, cancel, job, answer, crashes>>

(* Reading the environment or decrypting its variables throws, or the       *)
(* runner cannot be reached at all: no job is started.                     *)
PrepareFails(t) ==
  /\ thread[t].pc = "claimed"
  /\ Goto(t, "failing", FALSE)
  /\ UNCHANGED <<db, request, queue, cancel, job, answer, crashes>>

(* The job on the runner ends: with a report, or because the engine was    *)
(* killed at its own timeout, or with the runner process.                  *)
JobEnds(r) ==
  /\ job[r] = "executing"
  /\ job' = [job EXCEPT ![r] = "ended"]
  /\ UNCHANGED <<db, request, queue, thread, cancel, answer, crashes>>

(* RunnerUnavailableException: a lost connection, a 5xx, a body that is not *)
(* the envelope.                                                           *)
Unavailable(t) ==
  /\ RunnerFails
  /\ thread[t].pc = "waiting"
  /\ Goto(t, "failing", FALSE)
  /\ UNCHANGED <<db, request, queue, cancel, job, answer, crashes>>

(* The HTTP client gives up after its 30 seconds, which every job kind       *)
(* shares; nothing tells the runner to stop.                               *)
TimedOut(t) ==
  /\ thread[t].pc = "waiting"
  /\ job[thread[t].run] = "executing"
  /\ Goto(t, "failing", FALSE)
  /\ UNCHANGED <<db, request, queue, cancel, job, answer, crashes>>

(* The runner answered; record reads the row, and stops if it was deleted   *)
(* or cancelled.                                                           *)
Receive(t, report) ==
  LET r == thread[t].run IN
  /\ thread[t].pc = "waiting"
  /\ job[r] = "ended"
  /\ \A c \in Cells \ thread[t].seen : report[c] = "missing"
  /\ answer' = [answer EXCEPT ![r] = report]
  /\ IF run[r].status \in {"none", "CANCELLED"}
     THEN Release(t)
     ELSE Begin(t, "recording", r, Matrix(r))
  /\ UNCHANGED <<db, request, queue, cancel, job, crashes>>

(* Faulty: an unreported cell keeps whatever the map answered.             *)
ItemsAsReported(r, report) ==
  [c \in Cells |-> IF c \notin Matrix(r) THEN "none" ELSE report[c]]

(* The items as record writes them from the report.                        *)
ItemsFrom(r, report) ==
  [c \in Cells |-> IF c \notin Matrix(r) THEN "none"
                   ELSE IF report[c] = "missing" THEN "ERROR"
                   ELSE report[c]]

(* Faulty: FAILED wins over ERROR.                                         *)
RollUpFailedFirst(items) ==
  IF \E c \in Cells : items[c] = "FAILED" THEN "FAILED"
  ELSE IF \E c \in Cells : items[c] = "ERROR" THEN "ERROR"
  ELSE "PASSED"

RollUp(items) ==
  IF \E c \in Cells : items[c] = "ERROR" THEN "ERROR"
  ELSE IF \E c \in Cells : items[c] = "FAILED" THEN "FAILED"
  ELSE "PASSED"

Record(t) ==
  LET r == thread[t].run
      items == ItemsFrom(r, answer[r])
  IN
  /\ thread[t].pc = "recording"
  /\ IF CanFlush(t)
     THEN /\ Update(r, RollUp(items), items)
          /\ Release(t)
     ELSE /\ Goto(t, "failing", FALSE)
          /\ UNCHANGED run
  /\ UNCHANGED <<seq, lock, projects, cases, request, queue, cancel, job, answer, crashes>>

(* record's transaction fails for another reason: a value too long for its  *)
(* column, a storage key that is already taken.                            *)
RecordFails(t) ==
  /\ thread[t].pc = "recording"
  /\ Goto(t, "failing", FALSE)
  /\ UNCHANGED <<db, request, queue, cancel, job, answer, crashes>>

FinishRead(t) ==
  LET r == thread[t].run IN
  /\ thread[t].pc = "failing"
  /\ IF run[r].status \in InFlight
     THEN Begin(t, "finishing", r, Running(r))
     ELSE Release(t)
  /\ UNCHANGED <<db, request, queue, cancel, job, answer, crashes>>

(* Only the items still RUNNING are dirty.  A failed flush inside the try   *)
(* block is caught and tried once more; one in the catch block ends the     *)
(* task.                                                                   *)
FinishWithError(t) ==
  LET r == thread[t].run IN
  /\ thread[t].pc = "finishing"
  /\ IF CanFlush(t)
     THEN /\ Update(r, "ERROR",
                    [c \in Cells |-> IF c \in Running(r) THEN "ERROR" ELSE run[r].items[c]])
          /\ Release(t)
     ELSE /\ IF thread[t].inTry THEN Goto(t, "failing", FALSE) ELSE Release(t)
          /\ UNCHANGED run
  /\ UNCHANGED <<seq, lock, projects, cases, request, queue, cancel, job, answer, crashes>>

-----------------------------------------------------------------------------
(* What happens around a run.                                              *)

(* Deleting test cases cascades to the items of every run, without          *)
(* touching the run's version.                                             *)
Without(r, gone) ==
  [run[r] EXCEPT !.items = [c \in Cells |-> IF c[1] \in gone THEN "none" ELSE run[r].items[c]]]

DeleteCase(k) ==
  /\ k \in cases \cap Deletable
  /\ cases' = cases \ {k}
  /\ run' = [r \in Runs |-> Without(r, {k})]
  /\ UNCHANGED <<seq, lock, projects, request, queue, thread, cancel, job, answer, crashes>>

(* Deleting a project waits for its row lock, then cascades to its cases    *)
(* and runs.                                                               *)
DeleteProject(p) ==
  /\ p \in projects \cap Closable
  /\ lock[p] = NoRun
  /\ projects' = projects \ {p}
  /\ cases' = {k \in cases : ProjectOf[k] # p}
  /\ run' = [r \in Runs |-> IF run[r].project = p THEN NoRow ELSE run[r]]
  /\ UNCHANGED <<seq, lock, request, queue, thread, cancel, job, answer, crashes>>

(* The API process stops and starts again: transactions roll back, and the  *)
(* pool with its queue was only in memory.  Nothing re-reads the runs.     *)
Restart ==
  /\ crashes < MaxCrashes
  /\ crashes' = crashes + 1
  /\ lock' = [p \in Projects |-> NoRun]
  /\ request' = [r \in Runs |->
       IF request[r].pc = "idle" THEN request[r] ELSE [request[r] EXCEPT !.pc = "done"]]
  /\ queue' = <<>>
  /\ thread' = [t \in Threads |-> IdleThread]
  /\ cancel' = [u \in Users |-> IdleHandler]
  /\ UNCHANGED <<run, seq, projects, cases, job, answer>>

-----------------------------------------------------------------------------

Dispatch(t) ==
  \/ Take(t) \/ MarkRunning(t)
  \/ Send(t) \/ SendRefused(t) \/ PrepareFails(t)
  \/ Unavailable(t) \/ TimedOut(t)
  \/ \E report \in [Cells -> Reported] : Receive(t, report)
  \/ Record(t) \/ RecordFails(t)
  \/ FinishRead(t) \/ FinishWithError(t)

Request(r) ==
  \/ \E p \in Projects : RequestCount(r, p)
  \/ RequestNumber(r)
  \/ \E selected \in SUBSET Cases, browsers \in SUBSET Browsers :
       RequestCommit(r, selected, browsers)
  \/ RequestAbort(r)
  \/ Enqueue(r)

Next ==
  \/ \E r \in Runs : Request(r)
  \/ \E u \in Users, r \in Runs : CancelRead(u, r)
  \/ \E u \in Users : CancelCommit(u)
  \/ \E t \in Threads : Dispatch(t)
  \/ \E r \in Runs : JobEnds(r)
  \/ \E k \in Cases : DeleteCase(k)
  \/ \E p \in Projects : DeleteProject(p)
  \/ Restart

Spec == Init /\ [][Next]_vars

(* The JVM schedules the pool's threads and the afterCommit callback; every *)
(* wait of a thread is bounded by the HTTP client's timeout, every job by   *)
(* the engine's.  Users owe nothing.                                       *)
Fairness ==
  /\ \A t \in Threads : WF_vars(Dispatch(t))
  /\ \A r \in Runs : WF_vars(Enqueue(r)) /\ WF_vars(JobEnds(r))

FairSpec == Spec /\ Fairness

-----------------------------------------------------------------------------
(* Safety.                                                                 *)

(* A verdict is the runner's: a run is PASSED only if each of its cells was *)
(* reported as passed or skipped, FAILED only if each was reported and none *)
(* as an error.  RunExecutor.record: "we do not know" and "it worked" must  *)
(* not look the same; only a trustworthy FAILED is worth analysing.        *)
VerdictIsReported ==
  \A r \in Runs : \A c \in Matrix(r) :
    /\ run[r].status = "PASSED" => answer[r][c] \in {"PASSED", "SKIPPED"}
    /\ run[r].status = "FAILED" => answer[r][c] \in {"PASSED", "SKIPPED", "FAILED"}

(* The rows of a run agree with it: queued cells in a queued run, running   *)
(* cells in a running one, and none still open under a verdict.  (A         *)
(* cancelled run, or one that failed before it was claimed, keeps the cells *)
(* it had.)                                                                *)
ItemsFollowRun ==
  \A r \in Runs : \A c \in Matrix(r) :
    /\ run[r].status = "QUEUED"  => run[r].items[c] = "QUEUED"
    /\ run[r].status = "RUNNING" => run[r].items[c] = "RUNNING"
    /\ run[r].status \in {"PASSED", "FAILED"} => run[r].items[c] \notin InFlight
    /\ run[r].status = "ERROR" /\ run[r].started => run[r].items[c] \notin InFlight

(* A run cancelled while it was queued never starts: no job was sent for    *)
(* it, however the cancellation raced the claim (RunService.cancel, "a      *)
(* queued run stops before it starts").                                    *)
CancelledBeforeStart ==
  \A r \in Runs : run[r].status = "CANCELLED" /\ ~run[r].started => job[r] = "none"

(* One run is never worked on twice: not by two threads, and not queued     *)
(* while a thread has it.                                                  *)
OneWorkerPerRun ==
  /\ \A t, s \in Threads : t # s /\ thread[t].run # NoRun => thread[t].run # thread[s].run
  /\ \A i \in 1..Len(queue) :
       /\ \A t \in Threads : thread[t].run # queue[i]
       /\ \A j \in 1..Len(queue) : queue[i] = queue[j] => i = j

(* RUN-n names one run of the project, whatever requests overlap            *)
(* (nextTestRunReference's row lock).                                      *)
ReferencesUnique ==
  \A r, s \in Runs :
    /\ r # s /\ run[r].status # "none" /\ run[s].status # "none"
    /\ run[r].project = run[s].project
    => run[r].ref # run[s].ref

(* The per-workspace limit as SpecraProperties.Runner states it: how many   *)
(* runs one workspace may have queued or running.                          *)
WithinConcurrencyLimit == Cardinality(InFlightRuns) <= MaxConcurrent

(* A run whose suite is still executing is not yet in error: the 30-second  *)
(* ceiling of the short jobs is not for runs (SpecraProperties.Runner).    *)
NoErrorWhileExecuting ==
  \A r \in Runs : run[r].status = "ERROR" => job[r] # "executing"

(* Nothing ran is not everything passed (execute/run.ts, statusOf).        *)
PassedRanSomething ==
  \A r \in Runs : run[r].status = "PASSED" =>
    \E c \in Matrix(r) : run[r].items[c] \in {"PASSED", "SKIPPED"}

-----------------------------------------------------------------------------
(* Action properties.                                                      *)

(* A run that has ended keeps its verdict and its results for as long as    *)
(* the rows exist, whatever writers were still under way.                  *)
TerminalIsFinal ==
  [][\A r \in Runs : run[r].status \in Terminal =>
       /\ run'[r].status \in {run[r].status, "none"}
       /\ \A c \in Cells : run'[r].items[c] \in {run[r].items[c], "none"}]_vars

(* The run machine implements RunContract: started is started_at, and a     *)
(* suite counts as executed once its job was sent.                         *)
Contract == INSTANCE RunContract WITH
  status   <- [r \in Runs |-> run[r].status],
  started  <- [r \in Runs |-> run[r].started],
  executed <- [r \in Runs |-> job[r] # "none"]

(* Transitions follow RunStatus whatever interleaves: no run leaves a       *)
(* verdict, starts twice, is executed twice or executed before it started. *)
ImplementsContract == Contract!Spec

-----------------------------------------------------------------------------
(* Liveness.                                                               *)

(* Every run that was queued ends, or is deleted (RunExecutor.dispatch:     *)
(* never let a run sit in RUNNING for ever).                               *)
EveryRunEnds ==
  \A r \in Runs : run[r].status \in InFlight ~> run[r].status \notin InFlight

=============================================================================
