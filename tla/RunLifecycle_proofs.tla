------------------------- MODULE RunLifecycle_proofs -------------------------
(***************************************************************************)
(* Proofs about RunLifecycle, for every set of runs, threads and handlers. *)
(***************************************************************************)
EXTENDS RunLifecycle, SequenceTheorems, TLAPS

-----------------------------------------------------------------------------
(* The inductive invariant.                                                *)

(* The hand-over: a run reaches the queue, and from it a thread, only once   *)
(* its request is done with it, and from then on exactly one of them.      *)
Handover ==
  /\ \A t \in Threads : thread[t].pc = "idle" <=> thread[t].run = NoRun
  /\ \A t \in Threads : thread[t].run # NoRun => request[thread[t].run].pc = "done"
  /\ \A i \in 1..Len(queue) : request[queue[i]].pc = "done"
  /\ \A t, s \in Threads : t # s /\ thread[t].run # NoRun => thread[t].run # thread[s].run
  /\ \A i \in 1..Len(queue), t \in Threads : thread[t].run # queue[i]
  /\ \A i, j \in 1..Len(queue) : queue[i] = queue[j] => i = j

Entered(r) == request[r].pc \in {"committed", "done"}

(* No job exists for a run before its thread sends it, and no row before    *)
(* its request commits.                                                    *)
NotSentYet ==
  /\ \A r \in Runs : request[r].pc # "done" => job[r] = "none"
  /\ \A r \in Runs : ~Entered(r) => run[r].status = "none"
  /\ \A i \in 1..Len(queue) : job[queue[i]] = "none"
  /\ \A t \in Threads : thread[t].pc \in {"marking", "claimed"} => job[thread[t].run] = "none"
  /\ \A u \in Users : cancel[u].run # NoRun => Entered(cancel[u].run)

(* What a transaction read is never newer than the row, and if it is as     *)
(* new, the row is still in the status it was read in.                     *)
Snapshot(r, version, statuses) ==
  run[r].status # "none" =>
    /\ version <= run[r].version
    /\ version = run[r].version => run[r].status \in statuses

Snapshots ==
  /\ \A t \in Threads :
       /\ thread[t].pc = "marking" => Snapshot(thread[t].run, thread[t].version, {"QUEUED"})
       /\ thread[t].pc = "recording" => Snapshot(thread[t].run, thread[t].version, {"RUNNING"})
       /\ thread[t].pc = "finishing" => Snapshot(thread[t].run, thread[t].version, InFlight)
  /\ \A u \in Users :
       cancel[u].run # NoRun => Snapshot(cancel[u].run, cancel[u].version, InFlight)

(* The row of a run while it is worked on: once claimed it can only be       *)
(* cancelled or deleted under its thread; it is started exactly when it has  *)
(* been claimed.                                                           *)
Claims ==
  /\ \A t \in Threads : thread[t].pc \in {"claimed", "waiting"} =>
       /\ run[thread[t].run].status \in {"RUNNING", "CANCELLED", "none"}
       /\ run[thread[t].run].status # "none" => run[thread[t].run].started
  /\ \A r \in Runs :
       /\ run[r].status = "QUEUED" => ~run[r].started
       /\ run[r].status = "RUNNING" => run[r].started
       /\ run[r].status = "none" => ~run[r].started
       /\ run[r].status # "none" /\ ~run[r].started => job[r] = "none"

IInv == TypeOK /\ Handover /\ NotSentYet /\ Snapshots /\ Claims

-----------------------------------------------------------------------------
(* Types.                                                                  *)

LEMMA InitTypeOK == Init => TypeOK
  BY ConstantsAssumption
  DEF Init, TypeOK, Row, NoRow, NoItems, NoReport, RunStatus, IdleThread, IdleHandler, Reported,
      RequestState, ThreadState, HandlerState

LEMMA MatrixType == \A r \in Runs : Matrix(r) \subseteq Cells /\ Running(r) \subseteq Cells
  BY DEF Matrix, Running

LEMMA RollUpType == \A items : RollUp(items) \in {"ERROR", "FAILED", "PASSED"}
  BY DEF RollUp

LEMMA RequestPc ==
  ASSUME TypeOK, NEW r \in Runs, NEW pc \in {"idle", "counted", "numbered", "committed", "done"}
  PROVE  /\ [request[r] EXCEPT !.pc = pc] \in RequestState
         /\ [request EXCEPT ![r].pc = pc] \in [Runs -> RequestState]
<1>1. request[r] \in [pc : {"idle", "counted", "numbered", "committed", "done"},
                     project : Projects \cup {NoProject}, seq : Nat]
  BY DEF TypeOK, RequestState
<1>2. [request[r] EXCEPT !.pc = pc] \in RequestState
  BY <1>1 DEF RequestState
<1>3. [request EXCEPT ![r].pc = pc] = [request EXCEPT ![r] = [request[r] EXCEPT !.pc = pc]]
  BY DEF TypeOK
<1> QED
  BY <1>2, <1>3 DEF TypeOK

LEMMA RequestTypeOK ==
  ASSUME TypeOK, NEW r \in Runs, Request(r)
  PROVE  TypeOK'
<1>1. ASSUME NEW p \in Projects, RequestCount(r, p) PROVE TypeOK'
  <2>1. request' \in [Runs -> RequestState]
    BY <1>1 DEF TypeOK, RequestCount, RequestState
  <2> QED
    BY <1>1, <2>1 DEF TypeOK, RequestCount
<1>2. CASE RequestNumber(r)
  <2>1. request' \in [Runs -> RequestState]
    BY <1>2, RequestPc DEF RequestNumber
  <2>2. lock' \in [Projects -> Runs \cup {NoRun}]
    BY <1>2 DEF TypeOK, RequestNumber
  <2> QED
    BY <1>2, <2>1, <2>2 DEF TypeOK, RequestNumber
<1>3. ASSUME NEW selected \in SUBSET Cases, NEW browsers \in SUBSET Browsers,
             RequestCommit(r, selected, browsers)
      PROVE  TypeOK'
  <2>1. request[r].project \in Projects
    BY <1>3, ConstantsAssumption DEF TypeOK, RequestCommit
  <2>2. run' \in [Runs -> Row]
    BY <1>3, <2>1 DEF TypeOK, RequestCommit, Row, RunStatus, InFlight, ItemStatus, RequestState
  <2>3. request' \in [Runs -> RequestState]
    BY <1>3, RequestPc DEF RequestCommit
  <2>4. seq' \in [Projects -> Nat] /\ lock' \in [Projects -> Runs \cup {NoRun}]
    BY <1>3, <2>1 DEF TypeOK, RequestCommit, RequestState
  <2> QED
    BY <1>3, <2>2, <2>3, <2>4 DEF TypeOK, RequestCommit
<1>4. CASE RequestAbort(r)
  <2>1. request' \in [Runs -> RequestState]
    BY <1>4, RequestPc DEF RequestAbort
  <2>2. lock' \in [Projects -> Runs \cup {NoRun}]
    BY <1>4 DEF TypeOK, RequestAbort
  <2> QED
    BY <1>4, <2>1, <2>2 DEF TypeOK, RequestAbort
<1>5. CASE Enqueue(r)
  <2>1. request' \in [Runs -> RequestState]
    BY <1>5, RequestPc DEF Enqueue
  <2>2. queue' \in Seq(Runs)
    BY <1>5 DEF TypeOK, Enqueue
  <2> QED
    BY <1>5, <2>1, <2>2 DEF TypeOK, Enqueue
<1> QED
  BY <1>1, <1>2, <1>3, <1>4, <1>5 DEF Request

LEMMA UpdateType ==
  ASSUME TypeOK, NEW r \in Runs, NEW status \in {"RUNNING"} \cup Terminal,
         NEW items \in [Cells -> ItemStatus \cup {"none"}], Update(r, status, items)
  PROVE  run' \in [Runs -> Row]
<1>1. run[r].version + 1 \in Nat /\ run[r].started \in BOOLEAN
      /\ run[r].project \in Projects \cup {NoProject} /\ run[r].ref \in Nat
  BY DEF TypeOK, Row
<1>2. status \in RunStatus \cup {"none"}
  BY DEF RunStatus, InFlight
<1>3. (run[r].started \/ status = "RUNNING") \in BOOLEAN
  OBVIOUS
<1>4. [status |-> status, version |-> run[r].version + 1,
       started |-> run[r].started \/ status = "RUNNING",
       project |-> run[r].project, ref |-> run[r].ref, items |-> items] \in Row
  BY <1>1, <1>2, <1>3 DEF Row
<1> QED
  BY <1>4 DEF TypeOK, Update

LEMMA CancelTypeOK ==
  ASSUME TypeOK, NEW u \in Users,
         CancelCommit(u) \/ \E r \in Runs : CancelRead(u, r)
  PROVE  TypeOK'
<1>1. ASSUME NEW r \in Runs, CancelRead(u, r) PROVE TypeOK'
  <2>1. cancel' \in [Users -> HandlerState]
    BY <1>1 DEF TypeOK, CancelRead, Row, HandlerState
  <2> QED
    BY <1>1, <2>1 DEF TypeOK, CancelRead
<1>2. CASE CancelCommit(u)
  <2> DEFINE r == cancel[u].run
  <2>a. r \in Runs
    BY <1>2 DEF TypeOK, CancelCommit, HandlerState
  <2>1. run' \in [Runs -> Row]
    <3>1. run[r].items \in [Cells -> ItemStatus \cup {"none"}]
      BY <2>a DEF TypeOK, Row
    <3> QED
      BY <1>2, <2>a, <3>1, UpdateType DEF CancelCommit, TypeOK, Terminal
  <2>2. cancel' \in [Users -> HandlerState]
    BY <1>2 DEF TypeOK, CancelCommit, IdleHandler, HandlerState
  <2> QED
    BY <1>2, <2>1, <2>2 DEF TypeOK, CancelCommit
<1> QED
  BY <1>1, <1>2

LEMMA ThreadMoves ==
  ASSUME TypeOK, NEW t \in Threads
  PROVE  /\ \A pc \in {"failing", "claimed", "waiting"}, inTry \in BOOLEAN :
              Goto(t, pc, inTry) => thread' \in [Threads -> ThreadState]
         /\ Release(t) => thread' \in [Threads -> ThreadState]
         /\ \A pc \in {"marking", "recording", "finishing"}, r \in Runs, seen \in SUBSET Cells :
              Begin(t, pc, r, seen) => thread' \in [Threads -> ThreadState]
<1>1. ASSUME NEW pc \in {"failing", "claimed", "waiting"}, NEW inTry \in BOOLEAN,
             Goto(t, pc, inTry)
      PROVE  thread' \in [Threads -> ThreadState]
  BY <1>1 DEF TypeOK, Goto, ThreadState
<1>2. ASSUME Release(t) PROVE thread' \in [Threads -> ThreadState]
  BY <1>2 DEF TypeOK, Release, ThreadState, IdleThread
<1>3. ASSUME NEW pc \in {"marking", "recording", "finishing"}, NEW r \in Runs,
             NEW seen \in SUBSET Cells, Begin(t, pc, r, seen)
      PROVE  thread' \in [Threads -> ThreadState]
  <2>1. run[r].version \in Nat /\ thread[t].inTry \in BOOLEAN
    BY DEF TypeOK, Row, ThreadState
  <2> QED
    BY <1>3, <2>1 DEF TypeOK, Begin, ThreadState
<1> QED
  BY <1>1, <1>2, <1>3

LEMMA DispatchTypeOK ==
  ASSUME TypeOK, NEW t \in Threads, thread[t].pc = "idle" \/ thread[t].run \in Runs, Dispatch(t)
  PROVE  TypeOK'
<1> DEFINE r == thread[t].run
<1>1. CASE Take(t)
  <2>1. Head(queue) \in Runs /\ Tail(queue) \in Seq(Runs)
    BY <1>1 DEF TypeOK, Take
  <2>2. Matrix(Head(queue)) \in SUBSET Cells
    BY <2>1, MatrixType
  <2>3. thread' \in [Threads -> ThreadState]
    BY <1>1, <2>1, <2>2, ThreadMoves DEF TypeOK, Take
  <2> QED
    BY <1>1, <2>1, <2>3 DEF TypeOK, Take
<1>2. CASE MarkRunning(t)
  <2>1. r \in Runs /\ thread' \in [Threads -> ThreadState]
    BY <1>2, ThreadMoves DEF MarkRunning
  <2>2. [c \in Cells |-> IF c \in Matrix(r) THEN "RUNNING" ELSE "none"]
           \in [Cells -> ItemStatus \cup {"none"}]
    BY DEF ItemStatus
  <2>3. run' \in [Runs -> Row]
    BY <1>2, <2>1, <2>2, UpdateType DEF TypeOK, MarkRunning
  <2> QED
    BY <1>2, <2>1, <2>3 DEF TypeOK, MarkRunning
<1>3. CASE Send(t) \/ SendRefused(t) \/ PrepareFails(t) \/ Unavailable(t) \/ TimedOut(t)
        \/ RecordFails(t)
  <2>1. thread' \in [Threads -> ThreadState]
    BY <1>3, ThreadMoves DEF Send, SendRefused, PrepareFails, Unavailable, TimedOut, RecordFails
  <2>2. job' \in [Runs -> {"none", "executing", "ended"}]
    BY <1>3 DEF TypeOK, Send, SendRefused, PrepareFails, Unavailable, TimedOut, RecordFails
  <2> QED
    BY <1>3, <2>1, <2>2
    DEF TypeOK, Send, SendRefused, PrepareFails, Unavailable, TimedOut, RecordFails, db
<1>4. ASSUME NEW report \in [Cells -> Reported], Receive(t, report) PROVE TypeOK'
  <2>1. r \in Runs /\ Matrix(r) \in SUBSET Cells
    BY <1>4, MatrixType DEF Receive
  <2>2. thread' \in [Threads -> ThreadState]
    BY <1>4, <2>1, ThreadMoves DEF Receive
  <2>3. answer' \in [Runs -> [Cells -> Reported]]
    BY <1>4 DEF TypeOK, Receive
  <2> QED
    BY <1>4, <2>2, <2>3 DEF TypeOK, Receive, db
<1>5. CASE Record(t)
  <2> DEFINE items == ItemsFrom(r, answer[r])
  <2>1. r \in Runs /\ thread' \in [Threads -> ThreadState]
    BY <1>5, ThreadMoves DEF Record
  <2>2. items \in [Cells -> ItemStatus \cup {"none"}]
    BY <2>1 DEF TypeOK, ItemsFrom, ItemStatus, Reported
  <2>3. RollUp(items) \in Terminal
    BY RollUpType DEF Terminal
  <2>4. run' \in [Runs -> Row]
    BY <1>5, <2>1, <2>2, <2>3, UpdateType DEF TypeOK, Record
  <2> QED
    BY <1>5, <2>1, <2>4 DEF TypeOK, Record
<1>6. CASE FinishRead(t)
  <2>1. r \in Runs /\ Running(r) \in SUBSET Cells
    BY <1>6, MatrixType DEF FinishRead
  <2>2. thread' \in [Threads -> ThreadState]
    BY <1>6, <2>1, ThreadMoves DEF FinishRead
  <2> QED
    BY <1>6, <2>2 DEF TypeOK, FinishRead, db
<1>7. CASE FinishWithError(t)
  <2>1. r \in Runs /\ thread' \in [Threads -> ThreadState]
    BY <1>7, ThreadMoves DEF FinishWithError
  <2>2. [c \in Cells |-> IF c \in Running(r) THEN "ERROR" ELSE run[r].items[c]]
           \in [Cells -> ItemStatus \cup {"none"}]
    BY <2>1 DEF TypeOK, Row, ItemStatus
  <2>3. run' \in [Runs -> Row]
    BY <1>7, <2>1, <2>2, UpdateType DEF TypeOK, FinishWithError, Terminal
  <2> QED
    BY <1>7, <2>1, <2>3 DEF TypeOK, FinishWithError
<1> QED
  BY <1>1, <1>2, <1>3, <1>4, <1>5, <1>6, <1>7 DEF Dispatch

LEMMA AroundTypeOK ==
  ASSUME TypeOK,
         \/ \E r \in Runs : JobEnds(r)
         \/ \E k \in Cases : DeleteCase(k)
         \/ \E p \in Projects : DeleteProject(p)
         \/ Restart
  PROVE  TypeOK'
<1>1. ASSUME NEW r \in Runs, JobEnds(r) PROVE TypeOK'
  BY <1>1 DEF TypeOK, JobEnds, db
<1>2. ASSUME NEW k \in Cases, DeleteCase(k) PROVE TypeOK'
  <2>1. ASSUME NEW r \in Runs PROVE Without(r, {k}) \in Row
    <3>1. run[r] \in Row /\ run[r].items \in [Cells -> ItemStatus \cup {"none"}]
      BY DEF TypeOK, Row
    <3>2. [c \in Cells |-> IF c[1] \in {k} THEN "none" ELSE run[r].items[c]]
             \in [Cells -> ItemStatus \cup {"none"}]
      BY <3>1
    <3> QED
      BY <3>1, <3>2 DEF Without, Row
  <2>2. run' \in [Runs -> Row]
    BY <1>2, <2>1 DEF DeleteCase
  <2> QED
    BY <1>2, <2>2 DEF TypeOK, DeleteCase
<1>3. ASSUME NEW p \in Projects, DeleteProject(p) PROVE TypeOK'
  <2>1. NoRow \in Row
    BY DEF NoRow, NoItems, Row
  <2> QED
    BY <1>3, <2>1 DEF TypeOK, DeleteProject
<1>4. CASE Restart
  <2>1. request' \in [Runs -> RequestState]
    <3>1. \A r \in Runs : /\ request[r] \in RequestState
                         /\ [request[r] EXCEPT !.pc = "done"] \in RequestState
      BY RequestPc DEF TypeOK
    <3> QED
      BY <1>4, <3>1 DEF Restart
  <2>2. thread' \in [Threads -> ThreadState]
    BY <1>4 DEF TypeOK, Restart, ThreadState, IdleThread
  <2>3. cancel' \in [Users -> HandlerState]
    BY <1>4 DEF TypeOK, Restart, HandlerState, IdleHandler
  <2> QED
    BY <1>4, <2>1, <2>2, <2>3 DEF TypeOK, Restart
<1> QED
  BY <1>1, <1>2, <1>3, <1>4

LEMMA TypeStep ==
  ASSUME TypeOK, Handover, [Next]_vars
  PROVE  TypeOK'
<1>1. ASSUME NEW t \in Threads, Dispatch(t) PROVE TypeOK'
  <2>1. thread[t].pc = "idle" \/ thread[t].run \in Runs
    BY DEF TypeOK, ThreadState, Handover
  <2> QED
    BY <1>1, <2>1, DispatchTypeOK
<1>2. CASE UNCHANGED vars
  BY <1>2 DEF vars, TypeOK
<1> QED
  BY <1>1, <1>2, RequestTypeOK, CancelTypeOK, AroundTypeOK DEF Next

-----------------------------------------------------------------------------
(* The hand-over.                                                          *)

(* Whatever a thread does after taking a task, it keeps its run until it     *)
(* lets go of it, and touches neither the queue nor the other threads.     *)
Works(t) ==
  /\ \A s \in Threads \ {t} : thread'[s] = thread[s]
  /\ \/ thread'[t].run = thread[t].run /\ thread'[t].pc # "idle"
     \/ thread'[t] = IdleThread
  /\ UNCHANGED <<queue, request, cancel, seq, lock, projects, cases, crashes>>

LEMMA DispatchWorks ==
  ASSUME TypeOK, NEW t \in Threads, Dispatch(t), ~Take(t)
  PROVE  Works(t)
<1>1. ASSUME NEW report \in [Cells -> Reported], Receive(t, report) PROVE Works(t)
  BY <1>1 DEF TypeOK, Receive, Works, Release, Begin, db
<1>2. CASE MarkRunning(t) \/ Record(t) \/ FinishWithError(t)
  BY <1>2 DEF TypeOK, MarkRunning, Record, FinishWithError, Works, Goto, Release
<1>3. CASE \/ Send(t) \/ SendRefused(t) \/ PrepareFails(t) \/ Unavailable(t) \/ TimedOut(t)
           \/ RecordFails(t)
  BY <1>3 DEF TypeOK, Send, SendRefused, PrepareFails, Unavailable, TimedOut, RecordFails,
              Works, Goto, db
<1>4. CASE FinishRead(t)
  BY <1>4 DEF TypeOK, FinishRead, Works, Begin, Release, db
<1> QED
  BY <1>1, <1>2, <1>3, <1>4 DEF Dispatch

LEMMA HandoverStep ==
  ASSUME TypeOK, Handover, [Next]_vars
  PROVE  Handover'
<1>1. ASSUME NEW r \in Runs, Request(r), ~Enqueue(r) PROVE Handover'
  <2>1. /\ UNCHANGED <<thread, queue>>
        /\ request[r].pc # "done"
        /\ \A s \in Runs \ {r} : request'[s] = request[s]
    BY <1>1 DEF TypeOK, Request, RequestCount, RequestNumber, RequestCommit, RequestAbort
  <2>2. \A i \in 1..Len(queue) : queue[i] \in Runs
    BY DEF TypeOK
  <2>3. \A t \in Threads : thread[t].run \in Runs \cup {NoRun}
    BY DEF TypeOK, ThreadState
  <2> QED
    BY <2>1, <2>2, <2>3 DEF Handover
<1>2. ASSUME NEW r \in Runs, Enqueue(r) PROVE Handover'
  <2>1. /\ UNCHANGED thread
        /\ request[r].pc = "committed"
        /\ request'[r].pc = "done"
        /\ \A s \in Runs \ {r} : request'[s] = request[s]
    BY <1>2 DEF TypeOK, Enqueue
  <2>2. /\ Len(queue') = Len(queue) + 1
        /\ \A i \in 1..Len(queue) : queue'[i] = queue[i] /\ queue[i] \in Runs \ {r}
        /\ queue'[Len(queue) + 1] = r
        /\ Len(queue) \in Nat
    BY <1>2, <2>1 DEF TypeOK, Enqueue, Handover
  <2>3. \A t \in Threads : thread[t].run \in (Runs \cup {NoRun}) \ {r}
    BY <2>1, ConstantsAssumption DEF TypeOK, ThreadState, Handover
  <2> QED
    BY <2>1, <2>2, <2>3 DEF Handover
<1>3. ASSUME NEW t \in Threads, Take(t) PROVE Handover'
  <2>1. /\ Len(queue) \in Nat \ {0}
        /\ Len(queue') = Len(queue) - 1
        /\ \A i \in 1..Len(queue') : queue'[i] = queue[i + 1]
        /\ Head(queue) = queue[1] /\ queue[1] \in Runs
    BY <1>3 DEF TypeOK, Take
  <2>2. UNCHANGED request /\ thread[t].pc = "idle"
    BY <1>3 DEF Take
  <2>a. /\ 1 \in 1..Len(queue)
        /\ \A i \in 1..Len(queue') : i + 1 \in 1..Len(queue) /\ i + 1 # 1
        /\ \A i, j \in 1..Len(queue') : i + 1 = j + 1 => i = j
    BY <2>1
  <2>b. /\ \A i, j \in 1..Len(queue) : queue[i] = queue[j] => i = j
        /\ \A i \in 1..Len(queue) : request[queue[i]].pc = "done"
        /\ \A i \in 1..Len(queue), s \in Threads : thread[s].run # queue[i]
    BY DEF Handover
  <2>c. \A i \in 1..Len(queue') : queue'[i] = queue[i + 1]
    BY <2>1
  <2>3. /\ \A i, j \in 1..Len(queue') : queue'[i] = queue'[j] => i = j
        /\ \A i \in 1..Len(queue') : queue'[i] # queue[1]
        /\ \A i \in 1..Len(queue') : request[queue'[i]].pc = "done"
        /\ request[queue[1]].pc = "done"
    BY <2>a, <2>b, <2>c
  <2>4. /\ \A i \in 1..Len(queue'), s \in Threads : thread[s].run # queue'[i]
        /\ \A s \in Threads : thread[s].run # queue[1]
    BY <2>a, <2>b, <2>c
  <2>5. CASE thread' = thread
    <3>1. /\ \A s \in Threads : thread[s].pc = "idle" <=> thread[s].run = NoRun
          /\ \A s \in Threads : thread[s].run # NoRun => request[thread[s].run].pc = "done"
          /\ \A s, u \in Threads : s # u /\ thread[s].run # NoRun => thread[s].run # thread[u].run
      BY DEF Handover
    <3> QED
      BY <2>2, <2>3, <2>4, <2>5, <3>1 DEF Handover
  <2>6. CASE Begin(t, "marking", Head(queue), Matrix(Head(queue)))
    <3>1. /\ thread'[t].run = queue[1] /\ thread'[t].pc = "marking"
          /\ \A s \in Threads \ {t} : thread'[s] = thread[s]
      BY <2>1, <2>6 DEF TypeOK, Begin
    <3>2. queue[1] # NoRun
      BY <2>1, ConstantsAssumption
    <3>3. /\ \A s \in Threads : thread'[s].pc = "idle" <=> thread'[s].run = NoRun
          /\ \A s \in Threads : thread'[s].run # NoRun => request'[thread'[s].run].pc = "done"
      BY <2>2, <2>3, <3>1, <3>2 DEF Handover
    <3>4. \A s, u \in Threads : s # u /\ thread'[s].run # NoRun => thread'[s].run # thread'[u].run
      BY <2>4, <3>1 DEF Handover
    <3>5. \A i \in 1..Len(queue'), s \in Threads : thread'[s].run # queue'[i]
      BY <2>3, <2>4, <3>1
    <3> QED
      BY <2>2, <2>3, <3>3, <3>4, <3>5 DEF Handover
  <2> QED
    BY <1>3, <2>5, <2>6 DEF Take
<1>4. ASSUME NEW t \in Threads, Dispatch(t), ~Take(t) PROVE Handover'
  <2>1. Works(t)
    BY <1>4, DispatchWorks
  <2>2. thread[t].pc # "idle" /\ thread[t].run # NoRun
    BY <1>4
    DEF Handover, Dispatch, MarkRunning, Send, SendRefused, PrepareFails, Unavailable, TimedOut,
        Receive, Record, RecordFails, FinishRead, FinishWithError
  <2>3. /\ thread'[t].run \in {thread[t].run, NoRun}
        /\ thread'[t].pc = "idle" <=> thread'[t].run = NoRun
    BY <2>1, <2>2 DEF Works, IdleThread
  <2>4. \A s \in Threads : /\ thread'[s].run \in {thread[s].run, NoRun}
                           /\ thread'[s].pc = "idle" <=> thread'[s].run = NoRun
    BY <2>1, <2>3 DEF Handover, Works
  <2>5. UNCHANGED <<queue, request>> /\ \A i \in 1..Len(queue) : queue[i] # NoRun
    BY <2>1, ConstantsAssumption DEF TypeOK, Works
  <2> QED
    BY <2>4, <2>5 DEF Handover
<1>5. CASE Restart
  BY <1>5 DEF Restart, Handover, IdleThread
<1>6. CASE UNCHANGED <<request, thread, queue>>
  BY <1>6 DEF Handover
<1>7. CASE \/ \E u \in Users : CancelCommit(u) \/ \E r \in Runs : CancelRead(u, r)
           \/ \E r \in Runs : JobEnds(r)
           \/ \E k \in Cases : DeleteCase(k)
           \/ \E p \in Projects : DeleteProject(p)
           \/ UNCHANGED vars
  BY <1>6, <1>7 DEF CancelCommit, CancelRead, JobEnds, DeleteCase, DeleteProject, vars
<1> QED
  BY <1>1, <1>2, <1>3, <1>4, <1>5, <1>7 DEF Next

-----------------------------------------------------------------------------
(* How rows move.                                                          *)

SameRow(r) ==
  /\ run'[r].status = run[r].status
  /\ run'[r].version = run[r].version
  /\ run'[r].started = run[r].started
Vanishes(r) == run'[r].status = "none" /\ ~run'[r].started
Bumped(r, status) ==
  /\ run[r].status # "none"
  /\ run'[r].status = status
  /\ run'[r].version = run[r].version + 1
  /\ run'[r].started = (run[r].started \/ status = "RUNNING")
Inserted(r) ==
  /\ request[r].pc = "numbered" /\ request'[r].pc = "committed"
  /\ run'[r].status = "QUEUED" /\ ~run'[r].started

(* What every transaction may count on of a row it has read.               *)
Moved(r) ==
  \/ SameRow(r)
  \/ Vanishes(r)
  \/ \E status \in {"RUNNING"} \cup Terminal : Bumped(r, status)

LEMMA SnapshotKept ==
  ASSUME TypeOK, NEW r \in Runs, NEW version \in Nat, NEW statuses,
         Moved(r), Snapshot(r, version, statuses)
  PROVE  Snapshot(r, version, statuses)'
<1>1. run[r].version \in Nat
  BY DEF TypeOK, Row
<1> QED
  BY <1>1 DEF Moved, SameRow, Vanishes, Bumped, Snapshot

LEMMA UpdateMoves ==
  ASSUME TypeOK, NEW r \in Runs, NEW status, NEW items, run[r].status # "none",
         Update(r, status, items)
  PROVE  Bumped(r, status) /\ \A s \in Runs \ {r} : run'[s] = run[s]
BY DEF TypeOK, Update, Bumped

LEMMA CancelMoves ==
  ASSUME TypeOK, NEW u \in Users, CancelCommit(u)
  PROVE  /\ cancel[u].run \in Runs
         /\ \/ UNCHANGED run
            \/ /\ Current(cancel[u].run, cancel[u].version)
               /\ Bumped(cancel[u].run, "CANCELLED")
         /\ \A s \in Runs \ {cancel[u].run} : run'[s] = run[s]
<1>1. cancel[u].run \in Runs
  BY DEF TypeOK, CancelCommit, HandlerState
<1>2. CASE UNCHANGED run
  BY <1>1, <1>2
<1>3. CASE Current(cancel[u].run, cancel[u].version)
  BY <1>1, <1>3, UpdateMoves DEF CancelCommit, Current
<1> QED
  BY <1>1, <1>2, <1>3 DEF CancelCommit

(* The threads' three writes.                                              *)
LEMMA FlushMoves ==
  ASSUME TypeOK, NEW t \in Threads, thread[t].run \in Runs,
         MarkRunning(t) \/ Record(t) \/ FinishWithError(t)
  PROVE  /\ \/ UNCHANGED run
            \/ /\ CanFlush(t)
               /\ \/ MarkRunning(t) /\ Bumped(thread[t].run, "RUNNING")
                  \/ Record(t) /\ \E status \in {"ERROR", "FAILED", "PASSED"} :
                                     Bumped(thread[t].run, status)
                  \/ FinishWithError(t) /\ Bumped(thread[t].run, "ERROR")
         /\ \A s \in Runs \ {thread[t].run} : run'[s] = run[s]
<1>1. CASE ~CanFlush(t)
  BY <1>1 DEF MarkRunning, Record, FinishWithError
<1>2. CASE CanFlush(t) /\ MarkRunning(t)
  BY <1>2, UpdateMoves DEF MarkRunning, CanFlush, Current
<1>3. CASE CanFlush(t) /\ Record(t)
  BY <1>3, UpdateMoves, RollUpType DEF Record, CanFlush, Current
<1>4. CASE CanFlush(t) /\ FinishWithError(t)
  BY <1>4, UpdateMoves DEF FinishWithError, CanFlush, Current
<1> QED
  BY <1>1, <1>2, <1>3, <1>4

LEMMA DeleteMoves ==
  ASSUME TypeOK, (\E k \in Cases : DeleteCase(k)) \/ (\E p \in Projects : DeleteProject(p))
  PROVE  \A r \in Runs : SameRow(r) \/ Vanishes(r)
<1>1. ASSUME NEW k \in Cases, DeleteCase(k) PROVE \A r \in Runs : SameRow(r)
  BY <1>1 DEF TypeOK, Row, DeleteCase, Without, SameRow
<1>2. ASSUME NEW p \in Projects, DeleteProject(p)
      PROVE  \A r \in Runs : SameRow(r) \/ Vanishes(r)
  BY <1>2 DEF DeleteProject, SameRow, Vanishes, NoRow
<1> QED
  BY <1>1, <1>2

LEMMA RequestMoves ==
  ASSUME TypeOK, NEW r \in Runs, Request(r)
  PROVE  /\ \A s \in Runs \ {r} : run'[s] = run[s] /\ request'[s] = request[s]
         /\ run'[r] = run[r] \/ Inserted(r)
         /\ request[r].pc # "done" /\ (Entered(r) => Entered(r)')
         /\ ~Entered(r)' => ~Entered(r) /\ run'[r] = run[r]
         /\ UNCHANGED <<thread, cancel, job, answer>>
<1>1. ASSUME NEW p \in Projects, RequestCount(r, p) PROVE UNCHANGED run /\ request'[r].pc = "counted"
  BY <1>1 DEF TypeOK, RequestCount
<1>2. CASE RequestNumber(r) \/ RequestAbort(r) \/ Enqueue(r)
  BY <1>2 DEF TypeOK, RequestState, RequestNumber, RequestAbort, Enqueue, Entered
<1>3. ASSUME NEW selected \in SUBSET Cases, NEW browsers \in SUBSET Browsers,
             RequestCommit(r, selected, browsers)
      PROVE  Inserted(r) /\ \A s \in Runs \ {r} : run'[s] = run[s] /\ request'[s] = request[s]
  BY <1>3 DEF TypeOK, RequestState, RequestCommit, Inserted
<1> QED
  BY <1>1, <1>2, <1>3
  DEF TypeOK, Request, RequestCount, RequestNumber, RequestCommit, RequestAbort, Enqueue,
      Entered, Inserted

(* A step of a thread that is at work leaves the rows of the other runs      *)
(* alone, and its own run has been handed over.                            *)
LEMMA AtWork ==
  ASSUME TypeOK, Handover, NEW t \in Threads, Dispatch(t), ~Take(t)
  PROVE  /\ thread[t].run \in Runs
         /\ thread[t].pc # "idle"
         /\ request[thread[t].run].pc = "done"
         /\ \A s \in Threads \ {t} : thread[s].run # thread[t].run
         /\ \A i \in 1..Len(queue) : queue[i] # thread[t].run
         /\ \A s \in Runs \ {thread[t].run} : run'[s] = run[s] /\ job'[s] = job[s]
<1>1. thread[t].pc # "idle"
  BY DEF Dispatch, MarkRunning, Send, SendRefused, PrepareFails, Unavailable, TimedOut,
         Receive, Record, RecordFails, FinishRead, FinishWithError
<1>2. thread[t].run \in Runs
  BY <1>1 DEF TypeOK, ThreadState, Handover
<1>3. \A s \in Runs \ {thread[t].run} : run'[s] = run[s] /\ job'[s] = job[s]
  <2>1. CASE MarkRunning(t) \/ Record(t) \/ FinishWithError(t)
    BY <1>2, <2>1, FlushMoves DEF MarkRunning, Record, FinishWithError
  <2>2. CASE ~(MarkRunning(t) \/ Record(t) \/ FinishWithError(t))
    BY <2>2 DEF TypeOK, Dispatch, Send, SendRefused, PrepareFails, Unavailable, TimedOut,
                Receive, RecordFails, FinishRead, db
  <2> QED
    BY <2>1, <2>2
<1> QED
  BY <1>1, <1>2, <1>3, ConstantsAssumption DEF Handover

LEMMA NotSentYetStep ==
  ASSUME TypeOK, Handover, NotSentYet, [Next]_vars
  PROVE  NotSentYet'
<1> USE DEF NotSentYet
<1>a. /\ \A t \in Threads : thread[t].run \in Runs \cup {NoRun}
      /\ \A u \in Users : cancel[u].run \in Runs \cup {NoRun}
      /\ \A i \in 1..Len(queue) : queue[i] \in Runs
  BY DEF TypeOK, ThreadState, HandlerState
<1>1. ASSUME NEW r \in Runs, Request(r), ~Enqueue(r) PROVE NotSentYet'
  <2>1. UNCHANGED queue
    BY <1>1 DEF Request, RequestCount, RequestNumber, RequestCommit, RequestAbort
  <2>2. \A s \in Runs : Entered(s) => Entered(s)'
    BY <1>1, RequestMoves DEF Entered
  <2>3. \A s \in Runs : ~Entered(s)' => run'[s].status = "none"
    BY <1>1, RequestMoves DEF Entered
  <2> QED
    BY <1>a, <1>1, <2>1, <2>2, <2>3, RequestMoves
<1>2. ASSUME NEW r \in Runs, Enqueue(r) PROVE NotSentYet'
  <2>1. /\ request[r].pc = "committed"
        /\ \A s \in Runs : request'[s] = request[s] \/ (s = r /\ request'[s].pc = "done")
        /\ UNCHANGED <<run, job, thread, cancel>>
    BY <1>2 DEF TypeOK, Enqueue
  <2>2. /\ Len(queue') = Len(queue) + 1
        /\ \A i \in 1..Len(queue) : queue'[i] = queue[i]
        /\ queue'[Len(queue) + 1] = r
        /\ Len(queue) \in Nat
    BY <1>2 DEF TypeOK, Enqueue
  <2>3. \A i \in 1..Len(queue') : job[queue'[i]] = "none"
    BY <2>1, <2>2
  <2> QED
    BY <1>a, <2>1, <2>3 DEF Entered
<1>3. ASSUME NEW u \in Users, NEW r \in Runs, CancelRead(u, r) PROVE NotSentYet'
  <2>1. Entered(r)
    BY <1>3 DEF CancelRead, InFlight
  <2> QED
    BY <1>3, <2>1 DEF TypeOK, CancelRead, Entered
<1>4. ASSUME NEW u \in Users, CancelCommit(u) PROVE NotSentYet'
  <2>1. /\ UNCHANGED <<request, queue, thread, job>>
        /\ cancel[u].run \in Runs /\ cancel[u].run # NoRun
        /\ \A s \in Runs : run'[s] = run[s] \/ s = cancel[u].run
        /\ \A v \in Users : cancel'[v].run \in {cancel[v].run, NoRun}
    BY <1>4, CancelMoves DEF TypeOK, CancelCommit, IdleHandler
  <2> QED
    BY <1>a, <2>1 DEF Entered
<1>5. ASSUME NEW t \in Threads, Take(t) PROVE NotSentYet'
  <2>1. /\ Len(queue) \in Nat \ {0}
        /\ Len(queue') = Len(queue) - 1
        /\ \A i \in 1..Len(queue') : queue'[i] = queue[i + 1]
        /\ Head(queue) = queue[1]
    BY <1>5 DEF TypeOK, Take
  <2>2. /\ UNCHANGED <<run, request, cancel, job>>
        /\ \A s \in Threads : thread'[s] = thread[s] \/ thread'[s].run = queue[1]
    BY <1>5, <2>1 DEF TypeOK, Take, Begin
  <2>3. \A i \in 1..Len(queue') : job[queue'[i]] = "none"
    BY <2>1
  <2> QED
    BY <2>1, <2>2, <2>3 DEF Entered
<1>6. ASSUME NEW t \in Threads, Dispatch(t), ~Take(t) PROVE NotSentYet'
  <2> DEFINE r == thread[t].run
  <2>1. Works(t)
    BY <1>6, DispatchWorks
  <2>2. thread'[t].pc \in {"marking", "claimed"} => thread[t].pc = "marking" /\ job' = job
                                                 /\ thread'[t].run = thread[t].run
    BY <1>6 DEF TypeOK, Dispatch, MarkRunning, Send, SendRefused, PrepareFails, Unavailable,
                TimedOut, Receive, Record, RecordFails, FinishRead, FinishWithError,
                Goto, Begin, Release, IdleThread
  <2>3. \A s \in Threads : thread'[s].pc \in {"marking", "claimed"} => job'[thread'[s].run] = "none"
    BY <1>a, <1>6, <2>1, <2>2, AtWork DEF Works, Handover
  <2> QED
    BY <1>a, <1>6, <2>1, <2>3, AtWork DEF Works, Entered
<1>7. ASSUME NEW r \in Runs, JobEnds(r) PROVE NotSentYet'
  BY <1>a, <1>7 DEF TypeOK, JobEnds, Entered, db
<1>8. CASE (\E k \in Cases : DeleteCase(k)) \/ (\E p \in Projects : DeleteProject(p))
  <2>1. UNCHANGED <<request, queue, thread, cancel, job>>
    BY <1>8 DEF DeleteCase, DeleteProject
  <2>2. \A r \in Runs : SameRow(r) \/ Vanishes(r)
    BY <1>8, DeleteMoves
  <2> QED
    BY <2>1, <2>2 DEF Entered, SameRow, Vanishes
<1>9. CASE Restart
  <2>1. \A r \in Runs : IF request[r].pc = "idle" THEN request'[r] = request[r]
                                                  ELSE request'[r].pc = "done"
    BY <1>9 DEF TypeOK, RequestState, Restart
  <2> QED
    BY <1>9, <2>1 DEF Restart, Entered, IdleThread, IdleHandler
<1>10. CASE UNCHANGED vars
  BY <1>10 DEF vars, Entered
<1> QED
  BY <1>1, <1>2, <1>3, <1>4, <1>5, <1>6, <1>7, <1>8, <1>9, <1>10 DEF Next

LEMMA HeldMoves ==
  ASSUME TypeOK, Handover, [Next]_vars
  PROVE  \A r \in Runs : Entered(r) => Moved(r)
<1>1. CASE UNCHANGED run
  BY <1>1 DEF Moved, SameRow
<1>2. ASSUME NEW r \in Runs, Request(r) PROVE \A s \in Runs : Entered(s) => Moved(s)
  BY <1>2, RequestMoves DEF Moved, SameRow, Inserted, Entered
<1>3. ASSUME NEW u \in Users, CancelCommit(u) PROVE \A s \in Runs : Moved(s)
  BY <1>3, CancelMoves DEF Moved, SameRow, Terminal
<1>4. ASSUME NEW t \in Threads, MarkRunning(t) \/ Record(t) \/ FinishWithError(t)
      PROVE  \A s \in Runs : Moved(s)
  <2>1. thread[t].run \in Runs
    BY <1>4 DEF TypeOK, ThreadState, Handover, MarkRunning, Record, FinishWithError
  <2> QED
    BY <1>4, <2>1, FlushMoves DEF Moved, SameRow, Terminal
<1>5. ASSUME NEW t \in Threads, Dispatch(t), ~(MarkRunning(t) \/ Record(t) \/ FinishWithError(t))
      PROVE  UNCHANGED run
  BY <1>5 DEF Dispatch, Take, Send, SendRefused, PrepareFails, Unavailable, TimedOut, Receive,
              RecordFails, FinishRead, db
<1>6. CASE (\E k \in Cases : DeleteCase(k)) \/ (\E p \in Projects : DeleteProject(p))
  BY <1>6, DeleteMoves DEF Moved
<1>7. CASE \/ \E u \in Users, r \in Runs : CancelRead(u, r)
           \/ \E r \in Runs : JobEnds(r)
           \/ Restart
           \/ UNCHANGED vars
  BY <1>1, <1>7 DEF CancelRead, JobEnds, Restart, vars, db
<1> QED
  BY <1>1, <1>2, <1>3, <1>4, <1>5, <1>6, <1>7 DEF Next

(* A transaction that has just begun holds the row as it is.               *)
LEMMA FreshSnapshot ==
  ASSUME TypeOK, NEW r \in Runs, UNCHANGED run, NEW version, version = run[r].version,
         NEW statuses, run[r].status \in statuses
  PROVE  Snapshot(r, version, statuses)'
<1>1. run[r].version \in Nat
  BY DEF TypeOK, Row
<1> QED
  BY <1>1 DEF Snapshot

ThreadSnapshot(t) ==
  /\ thread[t].pc = "marking" => Snapshot(thread[t].run, thread[t].version, {"QUEUED"})
  /\ thread[t].pc = "recording" => Snapshot(thread[t].run, thread[t].version, {"RUNNING"})
  /\ thread[t].pc = "finishing" => Snapshot(thread[t].run, thread[t].version, InFlight)

CancelSnapshot(u) ==
  cancel[u].run # NoRun => Snapshot(cancel[u].run, cancel[u].version, InFlight)

LEMMA ThreadSnapshotKept ==
  ASSUME TypeOK, Handover, Snapshots, [Next]_vars, NEW t \in Threads, thread'[t] = thread[t]
  PROVE  ThreadSnapshot(t)'
<1>1. thread[t].version \in Nat
  BY DEF TypeOK, ThreadState
<1>2. CASE thread[t].run = NoRun
  BY <1>2 DEF Handover, ThreadSnapshot
<1>3. CASE thread[t].run # NoRun
  <2>1. thread[t].run \in Runs /\ Moved(thread[t].run)
    BY <1>3, HeldMoves DEF TypeOK, ThreadState, Handover, Entered
  <2> QED
    BY <1>1, <2>1, SnapshotKept DEF Snapshots, ThreadSnapshot
<1> QED
  BY <1>2, <1>3

LEMMA SnapshotsStep ==
  ASSUME TypeOK, Handover, NotSentYet, Snapshots, Claims, [Next]_vars
  PROVE  Snapshots'
<1>1. ASSUME NEW u \in Users PROVE CancelSnapshot(u)'
  <2>1. cancel[u].version \in Nat /\ cancel[u].run \in Runs \cup {NoRun}
    BY DEF TypeOK, HandlerState
  <2>2. CASE cancel'[u].run = NoRun
    BY <2>2 DEF CancelSnapshot
  <2>3. CASE cancel'[u] = cancel[u] /\ cancel[u].run # NoRun
    <3>1. Moved(cancel[u].run)
      BY <2>1, <2>3, HeldMoves DEF NotSentYet
    <3> QED
      BY <2>1, <2>3, <3>1, SnapshotKept DEF Snapshots, CancelSnapshot
  <2>4. ASSUME NEW r \in Runs, CancelRead(u, r) PROVE CancelSnapshot(u)'
    <3>1. /\ UNCHANGED run /\ run[r].status \in InFlight
          /\ cancel'[u].run = r /\ cancel'[u].version = run[r].version
      BY <2>4 DEF TypeOK, CancelRead
    <3> QED
      BY <3>1, FreshSnapshot DEF CancelSnapshot
  <2>5. \/ cancel'[u].run = NoRun
        \/ cancel'[u] = cancel[u]
        \/ \E r \in Runs : CancelRead(u, r)
    <3>1. ASSUME NEW v \in Users, NEW r \in Runs, CancelRead(v, r), v # u
          PROVE  cancel'[u] = cancel[u]
      BY <3>1 DEF TypeOK, CancelRead
    <3>2. ASSUME NEW v \in Users, CancelCommit(v)
          PROVE  cancel'[u] = cancel[u] \/ cancel'[u].run = NoRun
      BY <3>2 DEF TypeOK, CancelCommit, IdleHandler
    <3>3. CASE Restart
      BY <3>3 DEF Restart, IdleHandler
    <3>4. ASSUME NEW t \in Threads, Dispatch(t) PROVE UNCHANGED cancel
      BY <3>4, DispatchWorks DEF Works, Take
    <3>5. ASSUME NEW r \in Runs, Request(r) PROVE UNCHANGED cancel
      BY <3>5, RequestMoves
    <3> QED
      BY <3>1, <3>2, <3>3, <3>4, <3>5 DEF Next, JobEnds, DeleteCase, DeleteProject, vars
  <2> QED
    BY <2>2, <2>3, <2>4, <2>5
<1>2. ASSUME NEW t \in Threads PROVE ThreadSnapshot(t)'
  <2>1. CASE thread'[t] = thread[t]
    BY <2>1, ThreadSnapshotKept
  <2>2. CASE thread'[t].pc \notin {"marking", "recording", "finishing"}
    BY <2>2 DEF ThreadSnapshot
  <2>3. CASE Take(t)
    <3>1. Head(queue) \in Runs /\ UNCHANGED run
      BY <2>3 DEF TypeOK, Take
    <3>2. CASE run[Head(queue)].status = "QUEUED"
      <4>1. /\ thread'[t].run = Head(queue) /\ thread'[t].pc = "marking"
            /\ thread'[t].version = run[Head(queue)].version
        BY <2>3, <3>2 DEF TypeOK, Take, Begin
      <4> QED
        BY <3>1, <3>2, <4>1, FreshSnapshot DEF ThreadSnapshot
    <3> QED
      BY <2>1, <2>3, <3>2 DEF Take
  <2>4. ASSUME NEW report \in [Cells -> Reported], Receive(t, report) PROVE ThreadSnapshot(t)'
    <3> DEFINE r == thread[t].run
    <3>1. r \in Runs /\ UNCHANGED run
      BY <2>4 DEF TypeOK, ThreadState, Handover, Receive, db
    <3>2. CASE Begin(t, "recording", r, Matrix(r)) /\ run[r].status \notin {"none", "CANCELLED"}
      <4>1. /\ thread'[t].run = r /\ thread'[t].pc = "recording"
            /\ thread'[t].version = run[r].version
        BY <3>2 DEF TypeOK, Begin
      <4>2. run[r].status \in {"RUNNING"}
        BY <2>4, <3>2 DEF Claims, Receive
      <4> QED
        BY <3>1, <4>1, <4>2, FreshSnapshot DEF ThreadSnapshot
    <3>3. CASE Release(t)
      BY <3>3 DEF TypeOK, Release, IdleThread, ThreadSnapshot
    <3> QED
      BY <2>4, <3>2, <3>3 DEF Receive
  <2>5. CASE FinishRead(t)
    <3> DEFINE r == thread[t].run
    <3>1. r \in Runs /\ UNCHANGED run
      BY <2>5 DEF TypeOK, ThreadState, Handover, FinishRead, db
    <3>2. CASE Begin(t, "finishing", r, Running(r)) /\ run[r].status \in InFlight
      <4>1. /\ thread'[t].run = r /\ thread'[t].pc = "finishing"
            /\ thread'[t].version = run[r].version
        BY <3>2 DEF TypeOK, Begin
      <4> QED
        BY <3>1, <3>2, <4>1, FreshSnapshot DEF ThreadSnapshot
    <3>3. CASE Release(t)
      BY <3>3 DEF TypeOK, Release, IdleThread, ThreadSnapshot
    <3> QED
      BY <2>5, <3>2, <3>3 DEF FinishRead
  <2>6. CASE Restart
    BY <2>6 DEF Restart, IdleThread, ThreadSnapshot
  <2>7. CASE \/ MarkRunning(t) \/ Send(t) \/ SendRefused(t) \/ PrepareFails(t) \/ Unavailable(t)
             \/ TimedOut(t) \/ Record(t) \/ RecordFails(t) \/ FinishWithError(t)
    <3>1. thread'[t].pc \notin {"marking", "recording", "finishing"}
      BY <2>7 DEF TypeOK, MarkRunning, Send, SendRefused, PrepareFails, Unavailable, TimedOut,
                  Record, RecordFails, FinishWithError, Goto, Release, IdleThread
    <3> QED
      BY <2>2, <3>1
  <2>8. \/ thread'[t] = thread[t] \/ Dispatch(t) \/ Restart
    <3>1. ASSUME NEW s \in Threads, Dispatch(s), s # t PROVE thread'[t] = thread[t]
      BY <3>1, DispatchWorks DEF TypeOK, Works, Take, Begin
    <3>2. ASSUME NEW r \in Runs, Request(r) PROVE UNCHANGED thread
      BY <3>2, RequestMoves
    <3> QED
      BY <3>1, <3>2
      DEF Next, CancelRead, CancelCommit, JobEnds, DeleteCase, DeleteProject, vars, db
  <2> QED
    BY <2>1, <2>3, <2>4, <2>5, <2>6, <2>7, <2>8 DEF Dispatch
<1> QED
  BY <1>1, <1>2 DEF Snapshots, ThreadSnapshot, CancelSnapshot

-----------------------------------------------------------------------------
(* Claims.                                                                 *)

RowClaims(r) ==
  /\ run[r].status = "QUEUED" => ~run[r].started
  /\ run[r].status = "RUNNING" => run[r].started
  /\ run[r].status = "none" => ~run[r].started
  /\ run[r].status # "none" /\ ~run[r].started => job[r] = "none"

ThreadClaims(t) ==
  thread[t].pc \in {"claimed", "waiting"} =>
    /\ run[thread[t].run].status \in {"RUNNING", "CANCELLED", "none"}
    /\ run[thread[t].run].status # "none" => run[thread[t].run].started

LEMMA RowClaimsKept ==
  ASSUME NEW r \in Runs, RowClaims(r), Moved(r), job'[r] = job[r]
  PROVE  RowClaims(r)'
BY DEF RowClaims, Moved, SameRow, Vanishes, Bumped, Terminal

LEMMA RowClaimsStep ==
  ASSUME TypeOK, Handover, NotSentYet, Claims, [Next]_vars, NEW r \in Runs
  PROVE  RowClaims(r)'
<1>1. RowClaims(r)
  BY DEF Claims, RowClaims
<1>2. CASE ~Entered(r)
  <2>1. CASE UNCHANGED <<run, job>>
    BY <1>1, <2>1 DEF RowClaims
  <2>2. ASSUME NEW s \in Runs, Request(s) PROVE RowClaims(r)'
    <3>1. run'[r] = run[r] \/ Inserted(r)
      BY <2>2, RequestMoves
    <3>2. job[r] = "none" /\ UNCHANGED job
      BY <1>2, <2>2, RequestMoves DEF NotSentYet, Entered
    <3> QED
      BY <1>1, <3>1, <3>2 DEF RowClaims, Inserted
  <2>3. ASSUME NEW u \in Users, CancelCommit(u) PROVE RowClaims(r)'
    <3>1. cancel[u].run # r /\ UNCHANGED job
      BY <1>2, <2>3 DEF NotSentYet, CancelCommit
    <3> QED
      BY <1>1, <2>3, <3>1, CancelMoves DEF RowClaims
  <2>4. ASSUME NEW t \in Threads, Dispatch(t), ~Take(t) PROVE RowClaims(r)'
    <3>1. thread[t].run # r
      BY <1>2, <2>4, AtWork DEF Entered
    <3> QED
      BY <1>1, <2>4, <3>1, AtWork DEF RowClaims
  <2>5. ASSUME NEW s \in Runs, JobEnds(s) PROVE RowClaims(r)'
    BY <1>1, <2>5 DEF TypeOK, JobEnds, RowClaims, db
  <2>6. CASE (\E k \in Cases : DeleteCase(k)) \/ (\E p \in Projects : DeleteProject(p))
    BY <1>1, <2>6, DeleteMoves, RowClaimsKept DEF Moved, DeleteCase, DeleteProject
  <2> QED
    BY <2>1, <2>2, <2>3, <2>4, <2>5, <2>6 DEF Next, CancelRead, Take, Restart, vars, db
<1>3. CASE Entered(r)
  <2>1. Moved(r)
    BY <1>3, HeldMoves
  <2>2. CASE job'[r] = job[r]
    BY <1>1, <2>1, <2>2, RowClaimsKept
  <2>3. ASSUME NEW t \in Threads, Send(t), thread[t].run = r PROVE RowClaims(r)'
    BY <1>1, <2>3 DEF Send, Claims, RowClaims, db
  <2>4. CASE JobEnds(r)
    BY <1>1, <2>4 DEF TypeOK, JobEnds, RowClaims, db
  <2>5. \/ job'[r] = job[r] \/ JobEnds(r) \/ \E t \in Threads : Send(t) /\ thread[t].run = r
    <3>1. ASSUME NEW t \in Threads, Dispatch(t)
          PROVE  job'[r] = job[r] \/ (Send(t) /\ thread[t].run = r)
      <4>1. CASE Send(t)
        BY <4>1 DEF TypeOK, Send
      <4>2. CASE ~Send(t)
        BY <3>1, <4>2 DEF Dispatch, Take, MarkRunning, SendRefused, PrepareFails, Unavailable,
                          TimedOut, Receive, Record, RecordFails, FinishRead, FinishWithError
      <4> QED
        BY <4>1, <4>2
    <3>2. ASSUME NEW s \in Runs, Request(s) PROVE UNCHANGED job
      BY <3>2, RequestMoves
    <3>3. ASSUME NEW s \in Runs, JobEnds(s) PROVE job'[r] = job[r] \/ s = r
      BY <3>3 DEF TypeOK, JobEnds
    <3> QED
      BY <3>1, <3>2, <3>3
      DEF Next, CancelRead, CancelCommit, DeleteCase, DeleteProject, Restart, vars
  <2> QED
    BY <2>2, <2>3, <2>4, <2>5
<1> QED
  BY <1>2, <1>3

LEMMA ThreadClaimsStep ==
  ASSUME TypeOK, Handover, NotSentYet, Snapshots, Claims, [Next]_vars, NEW t \in Threads
  PROVE  ThreadClaims(t)'
<1> DEFINE r == thread[t].run
<1>1. CASE thread'[t].pc \notin {"claimed", "waiting"}
  BY <1>1 DEF ThreadClaims
<1>2. CASE thread'[t] = thread[t] /\ thread[t].pc \in {"claimed", "waiting"}
  <2>1. r \in Runs /\ ThreadClaims(t) /\ request[r].pc = "done"
    BY <1>2 DEF TypeOK, ThreadState, Handover, Claims, ThreadClaims
  <2>2. CASE SameRow(r) \/ Vanishes(r) \/ Bumped(r, "CANCELLED")
    BY <1>2, <2>1, <2>2 DEF ThreadClaims, SameRow, Vanishes, Bumped
  <2>3. SameRow(r) \/ Vanishes(r) \/ Bumped(r, "CANCELLED")
    <3>1. CASE run'[r] = run[r]
      BY <3>1 DEF SameRow
    <3>2. ASSUME NEW s \in Runs, Request(s) PROVE run'[r] = run[r]
      BY <2>1, <3>2, RequestMoves
    <3>3. ASSUME NEW u \in Users, CancelCommit(u)
          PROVE  run'[r] = run[r] \/ Bumped(r, "CANCELLED")
      BY <2>1, <3>3, CancelMoves
    <3>4. ASSUME NEW s \in Threads, Dispatch(s), ~Take(s) PROVE run'[r] = run[r]
      <4>1. CASE s # t
        BY <2>1, <3>4, <4>1, AtWork
      <4>2. CASE s = t
        <5>1. thread'[t] # thread[t]
          BY <3>4, <4>2
          DEF TypeOK, ThreadState, Dispatch, MarkRunning, Send, SendRefused, PrepareFails,
              Unavailable, TimedOut, Receive, Record, RecordFails, FinishRead, FinishWithError,
              Goto, Begin, Release, IdleThread
        <5> QED
          BY <1>2, <5>1
      <4> QED
        BY <4>1, <4>2
    <3>5. CASE (\E k \in Cases : DeleteCase(k)) \/ (\E p \in Projects : DeleteProject(p))
      BY <2>1, <3>5, DeleteMoves
    <3> QED
      BY <3>1, <3>2, <3>3, <3>4, <3>5 DEF Next, CancelRead, Take, JobEnds, Restart, vars, db
  <2> QED
    BY <2>2, <2>3
<1>3. CASE MarkRunning(t)
  <2>1. r \in Runs
    BY <1>3 DEF TypeOK, ThreadState, Handover, MarkRunning
  <2>2. CASE ~CanFlush(t)
    <3>1. thread'[t].pc = "failing"
      BY <1>3, <2>2 DEF TypeOK, MarkRunning, Goto
    <3> QED
      BY <1>1, <3>1
  <2>3. CASE CanFlush(t)
    <3>1. thread'[t].run = r
      BY <1>3, <2>3 DEF TypeOK, MarkRunning, Goto
    <3>2. Bumped(r, "RUNNING")
      BY <1>3, <2>1, <2>3, UpdateMoves DEF MarkRunning, CanFlush, Current
    <3> QED
      BY <3>1, <3>2 DEF ThreadClaims, Bumped
  <2> QED
    BY <2>2, <2>3
<1>4. CASE Send(t)
  <2>1. UNCHANGED run /\ thread'[t].run = r /\ thread[t].pc = "claimed"
    BY <1>4 DEF TypeOK, Send, Goto, db
  <2> QED
    BY <2>1 DEF Claims, ThreadClaims
<1>5. \/ thread'[t].pc \notin {"claimed", "waiting"} \/ thread'[t] = thread[t]
      \/ MarkRunning(t) \/ Send(t)
  <2>1. ASSUME NEW s \in Threads, Dispatch(s), s # t PROVE thread'[t] = thread[t]
    BY <2>1, DispatchWorks DEF TypeOK, Works, Take, Begin
  <2>2. ASSUME Dispatch(t), ~MarkRunning(t), ~Send(t)
        PROVE  thread'[t].pc \notin {"claimed", "waiting"} \/ thread'[t] = thread[t]
    BY <2>2
    DEF TypeOK, Dispatch, Take, SendRefused, PrepareFails, Unavailable, TimedOut, Receive,
        Record, RecordFails, FinishRead, FinishWithError, Goto, Begin, Release, IdleThread
  <2>3. ASSUME NEW s \in Runs, Request(s) PROVE UNCHANGED thread
    BY <2>3, RequestMoves
  <2>4. CASE Restart
    BY <2>4 DEF Restart, IdleThread
  <2> QED
    BY <2>1, <2>2, <2>3, <2>4
    DEF Next, CancelRead, CancelCommit, JobEnds, DeleteCase, DeleteProject, vars, db
<1> QED
  BY <1>1, <1>2, <1>3, <1>4, <1>5

-----------------------------------------------------------------------------

(* The parts of IInv hold together in every reachable state: types, the     *)
(* hand-over of a run from its request to one thread of RunExecutor, what   *)
(* the open transactions have read, and what a claimed row means.          *)
THEOREM Inductive == Spec => []IInv
<1>1. Init => IInv
  <2>1. ASSUME Init PROVE IInv
    <3>1. TypeOK
      BY <2>1, InitTypeOK
    <3>2. Handover
      BY <2>1 DEF Init, Handover, IdleThread
    <3>3. NotSentYet
      BY <2>1 DEF Init, NotSentYet, IdleThread, IdleHandler, NoRow
    <3>4. Snapshots
      BY <2>1 DEF Init, Snapshots, IdleThread, IdleHandler
    <3>5. Claims
      BY <2>1 DEF Init, Claims, IdleThread, NoRow
    <3> QED
      BY <3>1, <3>2, <3>3, <3>4, <3>5 DEF IInv
  <2> QED
    BY <2>1
<1>2. IInv /\ [Next]_vars => IInv'
  <2> SUFFICES ASSUME IInv, [Next]_vars PROVE IInv'
    OBVIOUS
  <2>1. TypeOK' /\ Handover'
    BY TypeStep, HandoverStep DEF IInv
  <2>2. NotSentYet' /\ Snapshots'
    BY NotSentYetStep, SnapshotsStep DEF IInv
  <2>3. \A r \in Runs : RowClaims(r)'
    BY RowClaimsStep DEF IInv
  <2>4. \A t \in Threads : ThreadClaims(t)'
    BY ThreadClaimsStep DEF IInv
  <2>5. Claims'
    BY <2>3, <2>4 DEF Claims, RowClaims, ThreadClaims
  <2> QED
    BY <2>1, <2>2, <2>5 DEF IInv
<1> QED
  BY <1>1, <1>2, PTL DEF Spec

(* Type correctness of every variable of the run machine.                  *)
THEOREM TypesHold == Spec => []TypeOK
<1>1. IInv => TypeOK
  BY DEF IInv
<1> QED
  BY <1>1, Inductive, PTL

(* However many pool threads and requests there are, RunExecutor.dispatch   *)
(* never works on one run in two places.                                   *)
THEOREM WorkedOnOnce == Spec => []OneWorkerPerRun
<1>1. IInv => OneWorkerPerRun
  BY DEF IInv, Handover, OneWorkerPerRun
<1> QED
  BY <1>1, Inductive, PTL

(* A run cancelled while it was queued causes no job, however cancel races   *)
(* markRunning.                                                            *)
THEOREM NeverStartsCancelled == Spec => []CancelledBeforeStart
<1>1. IInv => CancelledBeforeStart
  BY DEF IInv, Claims, CancelledBeforeStart
<1> QED
  BY <1>1, Inductive, PTL

-----------------------------------------------------------------------------
(* Verdicts.                                                               *)

(* Every writer of a row that has ended holds a stale version: what is left  *)
(* to happen to it is deletion.                                            *)
LEMMA EndedRows ==
  ASSUME IInv, [Next]_vars, NEW r \in Runs, run[r].status \in Terminal
  PROVE  \/ run'[r] = run[r]
         \/ run'[r] = NoRow
         \/ \E k \in Cases : run'[r] = Without(r, {k})
<1> USE DEF IInv
<1>1. CASE run'[r] = run[r]
  BY <1>1
<1>2. ASSUME NEW s \in Runs, Request(s) PROVE run'[r] = run[r]
  BY <1>2, RequestMoves DEF NotSentYet, Inserted, Entered, Terminal
<1>3. ASSUME NEW u \in Users, CancelCommit(u) PROVE run'[r] = run[r]
  <2>1. CASE cancel[u].run = r /\ Current(r, cancel[u].version)
    BY <1>3, <2>1 DEF Snapshots, Snapshot, Current, CancelCommit, InFlight, Terminal
  <2> QED
    BY <1>3, <2>1, CancelMoves
<1>4. ASSUME NEW t \in Threads, MarkRunning(t) \/ Record(t) \/ FinishWithError(t)
      PROVE  run'[r] = run[r]
  <2>1. thread[t].run \in Runs
    BY <1>4 DEF TypeOK, ThreadState, Handover, MarkRunning, Record, FinishWithError
  <2>2. CASE thread[t].run = r /\ CanFlush(t)
    BY <1>4, <2>2 DEF Snapshots, Snapshot, Current, CanFlush, MarkRunning, Record,
                      FinishWithError, InFlight, Terminal
  <2> QED
    BY <1>4, <2>1, <2>2, FlushMoves
<1>5. ASSUME NEW t \in Threads, Dispatch(t), ~(MarkRunning(t) \/ Record(t) \/ FinishWithError(t))
      PROVE  UNCHANGED run
  BY <1>5 DEF Dispatch, Take, Send, SendRefused, PrepareFails, Unavailable, TimedOut, Receive,
              RecordFails, FinishRead, db
<1>6. ASSUME NEW k \in Cases, DeleteCase(k) PROVE run'[r] = Without(r, {k})
  BY <1>6 DEF DeleteCase
<1>7. ASSUME NEW p \in Projects, DeleteProject(p) PROVE run'[r] = run[r] \/ run'[r] = NoRow
  BY <1>7 DEF DeleteProject
<1> QED
  BY <1>1, <1>2, <1>3, <1>4, <1>5, <1>6, <1>7 DEF Next, CancelRead, JobEnds, Restart, vars, db

LEMMA EndedItems ==
  ASSUME IInv, [Next]_vars, NEW r \in Runs, run[r].status \in Terminal
  PROVE  /\ run'[r].status \in {run[r].status, "none"}
         /\ \A c \in Cells : run'[r].items[c] \in {run[r].items[c], "none"}
<1>1. CASE run'[r] = run[r]
  BY <1>1
<1>2. CASE run'[r] = NoRow
  BY <1>2 DEF NoRow, NoItems
<1>3. ASSUME NEW k \in Cases, run'[r] = Without(r, {k})
      PROVE  /\ run'[r].status = run[r].status
             /\ \A c \in Cells : run'[r].items[c] \in {run[r].items[c], "none"}
  <2>1. run[r] \in Row
    BY DEF IInv, TypeOK
  <2> QED
    BY <1>3, <2>1 DEF Without, Row
<1> QED
  BY <1>1, <1>2, <1>3, EndedRows

(* A verdict, once written, is never overwritten: the @Version of the row    *)
(* refuses every writer that read it before (cancel, record and             *)
(* finishWithError in any order).                                          *)
THEOREM VerdictsAreFinal == Spec => TerminalIsFinal
<1>1. IInv /\ [Next]_vars =>
        [\A r \in Runs : run[r].status \in Terminal =>
           /\ run'[r].status \in {run[r].status, "none"}
           /\ \A c \in Cells : run'[r].items[c] \in {run[r].items[c], "none"}]_vars
  BY EndedItems
<1> QED
  BY <1>1, Inductive, PTL DEF Spec, TerminalIsFinal

VerdictOf(r) == \A c \in Matrix(r) :
  /\ run[r].status = "PASSED" => answer[r][c] \in {"PASSED", "SKIPPED"}
  /\ run[r].status = "FAILED" => answer[r][c] \in {"PASSED", "SKIPPED", "FAILED"}

(* Only record gives a run one of the runner's verdicts.                   *)
LEMMA VerdictFromRecord ==
  ASSUME IInv, [Next]_vars, NEW r \in Runs,
         run[r].status \notin Terminal, run'[r].status \in {"PASSED", "FAILED"}
  PROVE  \E t \in Threads : Record(t) /\ thread[t].run = r /\ CanFlush(t)
<1> USE DEF IInv
<1>1. ASSUME NEW s \in Runs, Request(s) PROVE FALSE
  BY <1>1, RequestMoves DEF Inserted, Terminal
<1>2. ASSUME NEW u \in Users, CancelCommit(u) PROVE FALSE
  BY <1>2, CancelMoves DEF Bumped, Terminal
<1>3. ASSUME NEW t \in Threads, MarkRunning(t) \/ Record(t) \/ FinishWithError(t)
      PROVE  Record(t) /\ thread[t].run = r /\ CanFlush(t)
  <2>1. thread[t].run \in Runs
    BY <1>3 DEF TypeOK, ThreadState, Handover, MarkRunning, Record, FinishWithError
  <2> QED
    BY <1>3, <2>1, FlushMoves DEF Bumped, Terminal
<1>4. ASSUME NEW t \in Threads, Dispatch(t), ~(MarkRunning(t) \/ Record(t) \/ FinishWithError(t))
      PROVE  UNCHANGED run
  BY <1>4 DEF Dispatch, Take, Send, SendRefused, PrepareFails, Unavailable, TimedOut, Receive,
              RecordFails, FinishRead, db
<1>5. CASE (\E k \in Cases : DeleteCase(k)) \/ (\E p \in Projects : DeleteProject(p))
  BY <1>5, DeleteMoves DEF SameRow, Vanishes, Terminal
<1>6. ~UNCHANGED run
  BY DEF Terminal
<1> QED
  BY <1>1, <1>2, <1>3, <1>4, <1>5, <1>6 DEF Next, CancelRead, JobEnds, Restart, vars, db

LEMMA VerdictStep ==
  ASSUME IInv, VerdictIsReported, [Next]_vars
  PROVE  VerdictIsReported'
<1> SUFFICES ASSUME NEW r \in Runs PROVE VerdictOf(r)'
  BY DEF VerdictIsReported, VerdictOf
<1>1. CASE run'[r].status \notin {"PASSED", "FAILED"}
  BY <1>1 DEF VerdictOf
<1>2. CASE run[r].status \in Terminal /\ run'[r].status \in {"PASSED", "FAILED"}
  <2>1. run'[r].status = run[r].status
    BY <1>2, EndedItems
  <2>2. Matrix(r)' \subseteq Matrix(r)
    BY <1>2, EndedItems DEF Matrix
  <2>3. answer'[r] = answer[r]
    <3>1. ASSUME NEW t \in Threads, NEW report \in [Cells -> Reported], Receive(t, report)
          PROVE  answer'[r] = answer[r]
      <4>1. thread[t].run # r
        BY <1>2, <2>1, <3>1 DEF IInv, Claims, Receive
      <4> QED
        BY <3>1, <4>1 DEF IInv, TypeOK, Receive
    <3>2. ASSUME NEW s \in Runs, Request(s) PROVE UNCHANGED answer
      BY <3>2, RequestMoves DEF IInv
    <3> QED
      BY <3>1, <3>2
      DEF Next, CancelRead, CancelCommit, Dispatch, Take, MarkRunning, Send, SendRefused,
          PrepareFails, Unavailable, TimedOut, Record, RecordFails, FinishRead,
          FinishWithError, JobEnds, DeleteCase, DeleteProject, Restart, vars
  <2> QED
    BY <2>1, <2>2, <2>3 DEF VerdictIsReported, VerdictOf
<1>3. CASE run[r].status \notin Terminal /\ run'[r].status \in {"PASSED", "FAILED"}
  <2>1. PICK t \in Threads : Record(t) /\ thread[t].run = r /\ CanFlush(t)
    BY <1>3, VerdictFromRecord
  <2> DEFINE items == ItemsFrom(r, answer[r])
  <2>2. run'[r].items = items /\ run'[r].status = RollUp(items) /\ UNCHANGED answer
    BY <2>1 DEF IInv, TypeOK, Record, Update
  <2>3. \A c \in Matrix(r)' : c \in Cells /\ items[c] # "none"
    BY <2>2 DEF Matrix
  <2>4. \A c \in Cells : items[c] # "none" =>
          items[c] = IF answer[r][c] = "missing" THEN "ERROR" ELSE answer[r][c]
    BY DEF ItemsFrom
  <2>5. \A c \in Cells : answer[r][c] \in Reported
    BY DEF IInv, TypeOK
  <2>6. RollUp(items) = "PASSED" => \A c \in Cells : items[c] \notin {"ERROR", "FAILED"}
    BY DEF RollUp
  <2>7. RollUp(items) = "FAILED" => \A c \in Cells : items[c] # "ERROR"
    BY DEF RollUp
  <2> QED
    BY <2>2, <2>3, <2>4, <2>5, <2>6, <2>7 DEF VerdictOf, Reported
<1> QED
  BY <1>1, <1>2, <1>3

(* A run is PASSED or FAILED only on what the runner reported of each of its *)
(* cells: "we do not know" is never recorded as "it worked".               *)
THEOREM VerdictsAreReported == Spec => []VerdictIsReported
<1>1. Init => VerdictIsReported
  BY DEF Init, VerdictIsReported, NoRow
<1>2. IInv /\ VerdictIsReported /\ [Next]_vars => VerdictIsReported'
  BY VerdictStep
<1> QED
  BY <1>1, <1>2, Inductive, PTL DEF Spec

-----------------------------------------------------------------------------
(* The cells of a run.                                                     *)

CellsOf(r) == \A c \in Matrix(r) :
  /\ run[r].status = "QUEUED"  => run[r].items[c] = "QUEUED"
  /\ run[r].status = "RUNNING" => run[r].items[c] = "RUNNING"
  /\ run[r].status \in {"PASSED", "FAILED"} => run[r].items[c] \notin InFlight
  /\ run[r].status = "ERROR" /\ run[r].started => run[r].items[c] \notin InFlight

LEMMA CellsFlushed ==
  ASSUME IInv, NEW r \in Runs, CellsOf(r), NEW t \in Threads, thread[t].run = r, CanFlush(t),
         MarkRunning(t) \/ Record(t) \/ FinishWithError(t)
  PROVE  CellsOf(r)'
<1> USE DEF IInv
<1>1. CASE MarkRunning(t)
  <2> DEFINE items == [c \in Cells |-> IF c \in Matrix(r) THEN "RUNNING" ELSE "none"]
  <2>1. run'[r].status = "RUNNING" /\ run'[r].items = items
    BY <1>1 DEF TypeOK, MarkRunning, Update
  <2> QED
    BY <2>1 DEF CellsOf, Matrix
<1>2. CASE Record(t)
  <2> DEFINE items == ItemsFrom(r, answer[r])
  <2>1. run'[r].status = RollUp(items) /\ run'[r].items = items
    BY <1>2 DEF TypeOK, Record, Update
  <2>2. RollUp(items) \in {"ERROR", "FAILED", "PASSED"}
    BY RollUpType
  <2>3. \A c \in Cells : items[c] \notin InFlight
    BY DEF TypeOK, ItemsFrom, Reported, InFlight
  <2> QED
    BY <2>1, <2>2, <2>3 DEF CellsOf, Matrix
<1>3. CASE FinishWithError(t)
  <2> DEFINE items == [c \in Cells |-> IF c \in Running(r) THEN "ERROR" ELSE run[r].items[c]]
  <2>1. /\ run'[r].status = "ERROR" /\ run'[r].items = items
        /\ run'[r].started = (run[r].started \/ "ERROR" = "RUNNING")
    BY <1>3 DEF TypeOK, FinishWithError, Update
  <2>2. run[r].status \in InFlight
    BY <1>3 DEF Snapshots, Snapshot, CanFlush, Current, FinishWithError
  <2>3. CASE run[r].status = "QUEUED"
    BY <2>1, <2>3 DEF Claims, CellsOf
  <2>4. CASE run[r].status = "RUNNING"
    <3>1. \A c \in Cells : run[r].items[c] \in {"none", "RUNNING"}
      BY <2>4 DEF CellsOf, Matrix
    <3>2. \A c \in Cells : items[c] \in {"none", "ERROR"}
      BY <3>1 DEF Running
    <3> QED
      BY <2>1, <3>2 DEF CellsOf, Matrix, InFlight
  <2> QED
    BY <2>2, <2>3, <2>4 DEF InFlight
<1> QED
  BY <1>1, <1>2, <1>3

LEMMA CellsStep ==
  ASSUME IInv, ItemsFollowRun, [Next]_vars
  PROVE  ItemsFollowRun'
<1> USE DEF IInv
<1> SUFFICES ASSUME NEW r \in Runs PROVE CellsOf(r)'
  BY DEF ItemsFollowRun, CellsOf
<1>0. CellsOf(r)
  BY DEF ItemsFollowRun, CellsOf
<1>1. CASE run'[r] = run[r]
  BY <1>0, <1>1 DEF CellsOf, Matrix
<1>2. ASSUME NEW s \in Runs, Request(s) PROVE CellsOf(r)'
  <2>1. ASSUME NEW selected \in SUBSET Cases, NEW browsers \in SUBSET Browsers,
               RequestCommit(r, selected, browsers)
        PROVE  CellsOf(r)'
    <3>1. /\ run'[r].status = "QUEUED"
          /\ \A c \in Cells : run'[r].items[c] \in {"QUEUED", "none"}
      BY <2>1 DEF TypeOK, RequestCommit
    <3> QED
      BY <3>1 DEF CellsOf, Matrix
  <2>2. ASSUME NEW selected \in SUBSET Cases, NEW browsers \in SUBSET Browsers,
               RequestCommit(s, selected, browsers), s # r
        PROVE  CellsOf(r)'
    BY <1>1, <2>2 DEF TypeOK, RequestCommit
  <2> QED
    BY <1>1, <1>2, <2>1, <2>2 DEF Request, RequestCount, RequestNumber, RequestAbort, Enqueue
<1>3. ASSUME NEW u \in Users, CancelCommit(u) PROVE CellsOf(r)'
  <2>1. CASE cancel[u].run = r /\ Bumped(r, "CANCELLED")
    BY <2>1 DEF CellsOf, Bumped
  <2> QED
    BY <1>1, <1>3, <2>1, CancelMoves
<1>4. ASSUME NEW t \in Threads, MarkRunning(t) \/ Record(t) \/ FinishWithError(t)
      PROVE  CellsOf(r)'
  <2>1. thread[t].run \in Runs
    BY <1>4 DEF TypeOK, ThreadState, Handover, MarkRunning, Record, FinishWithError
  <2> QED
    BY <1>0, <1>1, <1>4, <2>1, FlushMoves, CellsFlushed
<1>5. ASSUME NEW t \in Threads, Dispatch(t), ~(MarkRunning(t) \/ Record(t) \/ FinishWithError(t))
      PROVE  UNCHANGED run
  BY <1>5 DEF Dispatch, Take, Send, SendRefused, PrepareFails, Unavailable, TimedOut, Receive,
              RecordFails, FinishRead, db
<1>6. ASSUME NEW k \in Cases, DeleteCase(k) PROVE CellsOf(r)'
  <2>1. run'[r] = Without(r, {k}) /\ run[r] \in Row
    BY <1>6 DEF TypeOK, DeleteCase
  <2>2. /\ run'[r].status = run[r].status /\ run'[r].started = run[r].started
        /\ \A c \in Cells : run'[r].items[c] \in {run[r].items[c], "none"}
    BY <2>1 DEF Without, Row
  <2> QED
    BY <1>0, <2>2 DEF CellsOf, Matrix
<1>7. ASSUME NEW p \in Projects, DeleteProject(p) PROVE CellsOf(r)'
  <2>1. CASE run'[r] = NoRow
    BY <2>1 DEF CellsOf, NoRow
  <2> QED
    BY <1>1, <1>7, <2>1 DEF DeleteProject
<1> QED
  BY <1>1, <1>2, <1>3, <1>4, <1>5, <1>6, <1>7 DEF Next, CancelRead, JobEnds, Restart, vars, db

(* The cells of a run are in step with it: none is left open under a verdict *)
(* of a run that started, whatever deletions and failures came in between. *)
THEOREM CellsFollow == Spec => []ItemsFollowRun
<1>1. Init => ItemsFollowRun
  BY DEF Init, ItemsFollowRun, NoRow
<1>2. IInv /\ ItemsFollowRun /\ [Next]_vars => ItemsFollowRun'
  BY CellsStep
<1> QED
  BY <1>1, <1>2, Inductive, PTL DEF Spec

-----------------------------------------------------------------------------
(* References.                                                             *)

(* The request that has numbered its run holds the project's row lock and    *)
(* its current sequence, and no run of a project is ahead of the sequence. *)
Numbering ==
  /\ \A r \in Runs : run[r].status # "none" =>
       run[r].project \in Projects /\ run[r].ref <= seq[run[r].project]
  /\ \A r \in Runs : request[r].pc = "numbered" =>
       /\ request[r].project \in Projects
       /\ lock[request[r].project] = r
       /\ request[r].seq = seq[request[r].project]
  /\ ReferencesUnique

SameReference(r) ==
  run'[r].status # "none" =>
    /\ run[r].status # "none"
    /\ run'[r].project = run[r].project
    /\ run'[r].ref = run[r].ref

LEMMA UpdateKeepsReference ==
  ASSUME TypeOK, NEW s \in Runs, NEW status, NEW items, run[s].status # "none",
         Update(s, status, items), NEW r \in Runs
  PROVE  SameReference(r)
<1>1. CASE r = s
  BY <1>1 DEF TypeOK, Update, SameReference
<1>2. CASE r # s
  BY <1>2 DEF TypeOK, Update, SameReference
<1> QED
  BY <1>1, <1>2

(* A row keeps its reference; only a request gives one.                    *)
LEMMA ReferencesKept ==
  ASSUME IInv, [Next]_vars, NEW r \in Runs,
         ~\E selected \in SUBSET Cases, browsers \in SUBSET Browsers :
            RequestCommit(r, selected, browsers)
  PROVE  SameReference(r)
<1> USE DEF IInv
<1>1. CASE run'[r] = run[r]
  BY <1>1 DEF SameReference
<1>2. ASSUME NEW s \in Runs, Request(s) PROVE run'[r] = run[r]
  <2>1. CASE s = r
    BY <1>2, <2>1 DEF Request, RequestCount, RequestNumber, RequestAbort, Enqueue
  <2> QED
    BY <1>2, <2>1, RequestMoves
<1>3. ASSUME NEW u \in Users, CancelCommit(u) PROVE SameReference(r)
  <2>1. cancel[u].run \in Runs
    BY <1>3, CancelMoves
  <2> QED
    BY <1>1, <1>3, <2>1, UpdateKeepsReference DEF CancelCommit, Current
<1>4. ASSUME NEW t \in Threads, MarkRunning(t) \/ Record(t) \/ FinishWithError(t)
      PROVE  SameReference(r)
  <2>1. thread[t].run \in Runs
    BY <1>4 DEF TypeOK, ThreadState, Handover, MarkRunning, Record, FinishWithError
  <2>2. CASE UNCHANGED run
    BY <1>1, <2>2
  <2>3. CASE CanFlush(t)
    BY <1>4, <2>1, <2>3, UpdateKeepsReference
    DEF MarkRunning, Record, FinishWithError, CanFlush, Current
  <2> QED
    BY <1>4, <2>2, <2>3 DEF MarkRunning, Record, FinishWithError
<1>5. ASSUME NEW t \in Threads, Dispatch(t), ~(MarkRunning(t) \/ Record(t) \/ FinishWithError(t))
      PROVE  UNCHANGED run
  BY <1>5 DEF Dispatch, Take, Send, SendRefused, PrepareFails, Unavailable, TimedOut, Receive,
              RecordFails, FinishRead, db
<1>6. ASSUME NEW k \in Cases, DeleteCase(k) PROVE SameReference(r)
  <2>1. run'[r] = Without(r, {k}) /\ run[r] \in Row
    BY <1>6 DEF TypeOK, DeleteCase
  <2> QED
    BY <2>1 DEF Without, Row, SameReference
<1>7. ASSUME NEW p \in Projects, DeleteProject(p) PROVE SameReference(r)
  <2>1. CASE run'[r] = NoRow
    BY <2>1 DEF NoRow, SameReference
  <2> QED
    BY <1>1, <1>7, <2>1 DEF DeleteProject
<1> QED
  BY <1>1, <1>2, <1>3, <1>4, <1>5, <1>6, <1>7 DEF Next, CancelRead, JobEnds, Restart, vars, db

LEMMA NumberingStep ==
  ASSUME IInv, Numbering, [Next]_vars
  PROVE  Numbering'
<1> USE DEF IInv
<1>1. ASSUME NEW r \in Runs, NEW selected \in SUBSET Cases, NEW browsers \in SUBSET Browsers,
             RequestCommit(r, selected, browsers)
      PROVE  Numbering'
  <2> DEFINE p == request[r].project
  <2>1. /\ p \in Projects /\ lock[p] = r /\ request[r].seq = seq[p] /\ seq[p] \in Nat
        /\ request'[r].pc = "committed" /\ seq'[p] = seq[p] + 1
        /\ run'[r].project = p /\ run'[r].ref = seq[p] + 1
        /\ \A q \in Projects \ {p} : seq'[q] = seq[q] /\ lock'[q] = lock[q]
        /\ \A s \in Runs \ {r} : request'[s] = request[s] /\ run'[s] = run[s]
    BY <1>1 DEF TypeOK, RequestCommit, Numbering
  <2>2. \A s \in Runs \ {r} : run[s].status # "none" /\ run[s].project = p => run[s].ref <= seq[p]
    BY DEF Numbering
  <2>3. \A s \in Runs : run[s].ref \in Nat
    BY DEF TypeOK, Row
  <2>4. ReferencesUnique'
    BY <2>1, <2>2, <2>3 DEF Numbering, ReferencesUnique
  <2>5. \A s \in Runs : run'[s].status # "none" =>
          run'[s].project \in Projects /\ run'[s].ref <= seq'[run'[s].project]
    BY <2>1, <2>2, <2>3 DEF Numbering
  <2>6. \A s \in Runs : request'[s].pc = "numbered" =>
          /\ request'[s].project \in Projects
          /\ lock'[request'[s].project] = s
          /\ request'[s].seq = seq'[request'[s].project]
    BY <2>1 DEF Numbering
  <2> QED
    BY <2>4, <2>5, <2>6 DEF Numbering
<1>2. ASSUME ~\E r \in Runs, selected \in SUBSET Cases, browsers \in SUBSET Browsers :
                RequestCommit(r, selected, browsers)
      PROVE  Numbering'
  <2>1. \A r \in Runs : SameReference(r)
    BY <1>2, ReferencesKept
  <2>2. UNCHANGED seq
    <3>1. ASSUME NEW t \in Threads, Dispatch(t) PROVE UNCHANGED seq
      BY <3>1, DispatchWorks DEF Works, Take
    <3> QED
      BY <1>2, <3>1
      DEF Next, Request, RequestCount, RequestNumber, RequestAbort, Enqueue, CancelRead,
          CancelCommit, JobEnds, DeleteCase, DeleteProject, Restart, vars, db
  <2>3. \A r \in Runs : request'[r].pc = "numbered" =>
          /\ request'[r].project \in Projects
          /\ lock'[request'[r].project] = r
          /\ request'[r].seq = seq[request'[r].project]
    <3>1. CASE UNCHANGED <<request, lock>>
      BY <3>1 DEF Numbering
    <3>2. ASSUME NEW s \in Runs, NEW p \in Projects, RequestCount(s, p)
          PROVE  \A r \in Runs : request'[r].pc = "numbered" => request'[r] = request[r]
                                                             /\ UNCHANGED lock
      BY <3>2 DEF TypeOK, RequestCount
    <3>3. ASSUME NEW s \in Runs, RequestNumber(s)
          PROVE  \A r \in Runs : request'[r].pc = "numbered" =>
                   /\ request'[r].project \in Projects
                   /\ lock'[request'[r].project] = r
                   /\ request'[r].seq = seq[request'[r].project]
      <4>1. /\ request[s].project \in Projects /\ lock[request[s].project] = NoRun
            /\ lock' = [lock EXCEPT ![request[s].project] = s]
            /\ request'[s].project = request[s].project /\ request'[s].seq = request[s].seq
            /\ request[s].seq = seq[request[s].project]
            /\ \A r \in Runs \ {s} : request'[r] = request[r]
        BY <3>3 DEF TypeOK, RequestState, RequestNumber
      <4> QED
        BY <4>1, ConstantsAssumption DEF TypeOK, Numbering
    <3>4. ASSUME NEW s \in Runs, RequestAbort(s)
          PROVE  \A r \in Runs : request'[r].pc = "numbered" =>
                   /\ request'[r].project \in Projects
                   /\ lock'[request'[r].project] = r
                   /\ request'[r].seq = seq[request'[r].project]
      <4>1. request'[s].pc = "done" /\ \A r \in Runs \ {s} : request'[r] = request[r]
        BY <3>4 DEF TypeOK, RequestState, RequestAbort
      <4>2. \A p \in Projects : lock'[p] = lock[p] \/ lock[p] = s
        BY <3>4 DEF RequestAbort
      <4> QED
        BY <4>1, <4>2 DEF Numbering
    <3>5. ASSUME NEW s \in Runs, Enqueue(s)
          PROVE  \A r \in Runs : request'[r].pc = "numbered" => request'[r] = request[r]
                                                             /\ UNCHANGED lock
      BY <3>5 DEF TypeOK, RequestState, Enqueue
    <3>6. CASE Restart
      <4>1. \A r \in Runs : request'[r].pc \in {"idle", "done"}
        BY <3>6 DEF TypeOK, RequestState, Restart
      <4> QED
        BY <4>1
    <3>7. ASSUME NEW t \in Threads, Dispatch(t) PROVE UNCHANGED <<request, lock>>
      BY <3>7, DispatchWorks DEF Works, Take
    <3>8. ASSUME NEW s \in Runs, Request(s)
          PROVE  \/ \E p \in Projects : RequestCount(s, p)
                 \/ RequestNumber(s) \/ RequestAbort(s) \/ Enqueue(s)
      BY <1>2, <3>8 DEF Request
    <3>9. CASE \E s \in Runs : Request(s)
      BY <3>2, <3>3, <3>4, <3>5, <3>8, <3>9 DEF Numbering
    <3> QED
      BY <3>1, <3>6, <3>7, <3>9
      DEF Next, CancelRead, CancelCommit, JobEnds, DeleteCase, DeleteProject, vars, db
  <2>4. ReferencesUnique'
    BY <2>1 DEF SameReference, Numbering, ReferencesUnique
  <2> QED
    BY <2>1, <2>2, <2>3, <2>4 DEF Numbering, SameReference
<1> QED
  BY <1>1, <1>2

(* RUN-n identifies one run of its project for ever, however requests        *)
(* overlap (ProjectService.nextTestRunReference).                          *)
THEOREM ReferencesAreUnique == Spec => []ReferencesUnique
<1>1. Init => Numbering
  BY DEF Init, Numbering, ReferencesUnique, NoRow
<1>2. IInv /\ Numbering /\ [Next]_vars => Numbering'
  BY NumberingStep
<1>3. Numbering => ReferencesUnique
  BY DEF Numbering
<1> QED
  BY <1>1, <1>2, <1>3, Inductive, PTL DEF Spec

-----------------------------------------------------------------------------
(* Refinement.                                                             *)

(* A write of one row, seen through the mapping.                           *)
LEMMA MapBump ==
  ASSUME NEW r \in Runs, NEW status, Bumped(r, status), UNCHANGED job,
         \A s \in Runs \ {r} : run'[s] = run[s]
  PROVE  /\ Contract!Move(r, status)
         /\ [s \in Runs |-> job'[s] # "none"] = [s \in Runs |-> job[s] # "none"]
         /\ [s \in Runs |-> run'[s].started] =
              [[s \in Runs |-> run[s].started]
                 EXCEPT ![r] = (run[r].started \/ status = "RUNNING")]
BY DEF Bumped, Contract!Move

LEMMA MapUnchanged ==
  ASSUME UNCHANGED run, \A r \in Runs : (job'[r] # "none") <=> (job[r] # "none")
  PROVE  UNCHANGED Contract!vars
BY DEF Contract!vars

LEMMA ContractStep ==
  ASSUME IInv, [Next]_vars
  PROVE  [Contract!Next]_(Contract!vars)
<1> USE DEF IInv
<1>1. CASE UNCHANGED <<run, job>>
  BY <1>1, MapUnchanged
<1>2. ASSUME NEW r \in Runs, Request(r) PROVE [Contract!Next]_(Contract!vars)
  <2>1. CASE run'[r] = run[r]
    <3>1. \A s \in Runs : run'[s] = run[s] /\ job'[s] = job[s]
      BY <1>2, <2>1, RequestMoves
    <3> QED
      BY <3>1 DEF Contract!vars
  <2>2. CASE Inserted(r)
    <3>1. /\ run[r].status = "none" /\ ~run[r].started /\ job[r] = "none"
          /\ run'[r].status = "QUEUED" /\ ~run'[r].started
      BY <2>2 DEF Inserted, NotSentYet, Entered, Claims
    <3>2. run[r].started = FALSE /\ run'[r].started = FALSE
      <4>1. run[r].started \in BOOLEAN /\ run'[r].started \in BOOLEAN
        BY TypeStep DEF TypeOK, Row
      <4> QED
        BY <3>1, <4>1
    <3>3. UNCHANGED job /\ \A s \in Runs \ {r} : run'[s] = run[s]
      BY <1>2, RequestMoves
    <3>4. Contract!Queue(r)
      BY <3>1, <3>2, <3>3 DEF Contract!Queue, Contract!Move
    <3> QED
      BY <3>4 DEF Contract!Next
  <2> QED
    BY <1>2, <2>1, <2>2, RequestMoves
<1>3. ASSUME NEW u \in Users, CancelCommit(u) PROVE [Contract!Next]_(Contract!vars)
  <2>r. PICK r \in Runs : r = cancel[u].run
    BY <1>3, CancelMoves
  <2>0. UNCHANGED job /\ r # NoRun
    BY <1>3, <2>r DEF CancelCommit
  <2>1. CASE UNCHANGED run
    BY <1>1, <2>0, <2>1
  <2>2. CASE Current(r, cancel[u].version) /\ Bumped(r, "CANCELLED")
    <3>1. \A s \in Runs \ {r} : run'[s] = run[s]
      BY <1>3, <2>r, CancelMoves
    <3>2. run[r].status \in InFlight
      BY <2>r, <2>0, <2>2 DEF Snapshots, Snapshot, Current
    <3>3. UNCHANGED [s \in Runs |-> run[s].started]
      BY <2>2, <3>1 DEF TypeOK, Row, Bumped
    <3>4. Contract!Cancel(r)
      BY <2>0, <2>2, <3>1, <3>2, <3>3, MapBump DEF Contract!Cancel, Contract!Unfinished, InFlight
    <3> QED
      BY <3>4 DEF Contract!Next
  <2> QED
    BY <1>3, <2>r, <2>1, <2>2, CancelMoves
<1>4. ASSUME NEW t \in Threads, MarkRunning(t) \/ Record(t) \/ FinishWithError(t)
      PROVE  [Contract!Next]_(Contract!vars)
  <2>r. PICK r \in Runs : r = thread[t].run
    BY <1>4 DEF TypeOK, ThreadState, Handover, MarkRunning, Record, FinishWithError
  <2>0. UNCHANGED job
    BY <1>4 DEF MarkRunning, Record, FinishWithError
  <2>a. \A s \in Runs \ {r} : run'[s] = run[s]
    BY <1>4, <2>r, FlushMoves
  <2>1. CASE UNCHANGED run
    BY <1>1, <2>0, <2>1
  <2>2. CASE CanFlush(t) /\ MarkRunning(t) /\ Bumped(r, "RUNNING")
    <3>1. run[r].status = "QUEUED"
      BY <2>r, <2>2 DEF Snapshots, Snapshot, CanFlush, Current, MarkRunning
    <3>2. Contract!Start(r)
      BY <2>0, <2>a, <2>2, <3>1, MapBump DEF Contract!Start
    <3> QED
      BY <3>2 DEF Contract!Next
  <2>3. ASSUME NEW status \in {"ERROR", "FAILED", "PASSED"},
               CanFlush(t), Record(t), Bumped(r, status)
        PROVE  Contract!Next
    <3>1. run[r].status = "RUNNING"
      BY <2>r, <2>3 DEF Snapshots, Snapshot, CanFlush, Current, Record
    <3>2. UNCHANGED [s \in Runs |-> run[s].started]
      BY <2>0, <2>a, <2>3 DEF TypeOK, Row, Bumped
    <3>3. Contract!Finish(r, status)
      BY <2>0, <2>a, <2>3, <3>1, <3>2, MapBump DEF Contract!Finish
    <3> QED
      BY <3>3 DEF Contract!Next, Contract!Verdicts
  <2>4. CASE CanFlush(t) /\ FinishWithError(t) /\ Bumped(r, "ERROR")
    <3>1. run[r].status \in InFlight
      BY <2>r, <2>4 DEF Snapshots, Snapshot, CanFlush, Current, FinishWithError
    <3>2. UNCHANGED [s \in Runs |-> run[s].started]
      BY <2>0, <2>a, <2>4 DEF TypeOK, Row, Bumped
    <3>3. Contract!Finish(r, "ERROR")
      BY <2>0, <2>a, <2>4, <3>1, <3>2, MapBump DEF Contract!Finish, InFlight
    <3> QED
      BY <3>3 DEF Contract!Next, Contract!Verdicts
  <2> QED
    BY <1>4, <2>r, <2>1, <2>2, <2>3, <2>4, FlushMoves
<1>5. ASSUME NEW t \in Threads, Send(t) PROVE Contract!Next
  <2>r. PICK r \in Runs : r = thread[t].run
    BY <1>5 DEF TypeOK, ThreadState, Handover, Send
  <2>1. /\ UNCHANGED run /\ thread[t].pc = "claimed"
        /\ job' = [job EXCEPT ![r] = "executing"]
    BY <1>5, <2>r DEF Send, db
  <2>2. job[r] = "none" /\ (run[r].started \/ run[r].status = "none")
    BY <2>r, <2>1 DEF NotSentYet, Claims
  <2>3. [s \in Runs |-> job'[s] # "none"] = [[s \in Runs |-> job[s] # "none"] EXCEPT ![r] = TRUE]
    BY <2>1 DEF TypeOK
  <2>4. Contract!Execute(r)
    BY <2>1, <2>2, <2>3 DEF Contract!Execute
  <2> QED
    BY <2>4 DEF Contract!Next
<1>6. ASSUME NEW t \in Threads, Dispatch(t), ~Send(t),
             ~(MarkRunning(t) \/ Record(t) \/ FinishWithError(t))
      PROVE  UNCHANGED <<run, job>>
  BY <1>6 DEF Dispatch, Take, SendRefused, PrepareFails, Unavailable, TimedOut, Receive,
              RecordFails, FinishRead, db
<1>7. ASSUME NEW r \in Runs, JobEnds(r) PROVE UNCHANGED Contract!vars
  BY <1>7, MapUnchanged DEF TypeOK, JobEnds, db
<1>8. ASSUME NEW k \in Cases, DeleteCase(k) PROVE UNCHANGED Contract!vars
  <2>1. UNCHANGED job /\ \A r \in Runs : run'[r].status = run[r].status
                                        /\ run'[r].started = run[r].started
    BY <1>8 DEF TypeOK, Row, DeleteCase, Without
  <2> QED
    BY <2>1 DEF Contract!vars
<1>9. ASSUME NEW p \in Projects, DeleteProject(p) PROVE Contract!Next
  <2>g. PICK gone \in SUBSET Runs : gone = {r \in Runs : run[r].project = p}
    OBVIOUS
  <2>1. UNCHANGED job /\ \A r \in Runs : run'[r] = IF r \in gone THEN NoRow ELSE run[r]
    BY <1>9, <2>g DEF DeleteProject
  <2>2. \A r \in Runs :
          run'[r].status = IF r \in gone THEN "none" ELSE run[r].status
    BY <2>1 DEF NoRow
  <2>3. [r \in Runs |-> run'[r].started]
          = [r \in Runs |-> IF r \in gone THEN FALSE ELSE run[r].started]
    <3>1. ASSUME NEW r \in Runs, r \in gone PROVE run'[r].started = FALSE
      BY <2>1, <3>1 DEF NoRow
    <3>2. ASSUME NEW r \in Runs, r \notin gone PROVE run'[r].started = run[r].started
      BY <2>1, <3>2
    <3>3. \A r \in Runs : run'[r].started = IF r \in gone THEN FALSE ELSE run[r].started
      BY <3>1, <3>2, Zenon
    <3> QED
      BY <3>3, Zenon
  <2>4. [r \in Runs |-> IF r \in gone THEN FALSE ELSE run[r].started]
          = [r \in Runs |-> IF r \in gone THEN FALSE ELSE [s \in Runs |-> run[s].started][r]]
    BY Zenon
  <2>5. Contract!Delete(gone)
    BY <2>1, <2>2, <2>3, <2>4 DEF Contract!Delete
  <2> QED
    BY <2>5 DEF Contract!Next
<1> QED
  BY <1>1, <1>2, <1>3, <1>4, <1>5, <1>6, <1>7, <1>8, <1>9
  DEF Next, CancelRead, Restart, vars, db

(* The interleaved, crashing, optimistically locked run machine implements   *)
(* the run contract: status moves only along RunStatus, a run starts at most *)
(* once, and its suite is executed at most once.                           *)
THEOREM RunsKeepTheContract == Spec => ImplementsContract
<1>1. Init => Contract!Init
  <2>1. ASSUME Init
        PROVE  \A r \in Runs : /\ run[r].status = "none" /\ run[r].started = FALSE
                               /\ (job[r] # "none") = FALSE
    BY <2>1 DEF Init, NoRow
  <2>2. ASSUME Init PROVE Contract!Init
    BY <2>1, <2>2, Zenon DEF Contract!Init
  <2> QED
    BY <2>2
<1>2. IInv /\ [Next]_vars => [Contract!Next]_(Contract!vars)
  BY ContractStep
<1> QED
  BY <1>1, <1>2, Inductive, PTL DEF Spec, ImplementsContract, Contract!Spec

=============================================================================
