----------------------------- MODULE RunnerJobs -----------------------------
(***************************************************************************)
(* The runner service: jobs that arrive over HTTP (server/), what they do   *)
(* to the working copies they are given (execute/install.ts), where their   *)
(* suite runs (execute/sandbox.ts) and how its report becomes a verdict     *)
(* (execute/run.ts, adapters/playwright/report.ts).                        *)
(*                                                                         *)
(* Nothing serialises jobs: every request is a promise of its own, and two  *)
(* jobs may be given the same working copy.  What they share is the disk,   *)
(* the Docker daemon, and the one answer of `docker info` that is kept.     *)
(***************************************************************************)
EXTENDS Naturals, Sequences, FiniteSets

CONSTANTS
  Jobs,        \* requests, each answered by a promise of its own
  Dirs,        \* working copies the API may name
  Manifests,   \* what a working copy may hold, a subset of Manifest
  Reports,     \* reports an engine may write: sequences of tests
  MaxCheckouts \* commits with other dependencies that the API checks out (bound)

Manifest == {"gone", "bare", "unlocked", "locked", "outOfSync"}
Attempt  == {"passed", "failed", "timedOut", "skipped"}

ASSUME RunnerAssumption ==
  /\ Manifests \subseteq Manifest
  /\ Reports \subseteq Seq(Seq(Attempt))
  /\ MaxCheckouts \in Nat

VARIABLES
  server,    \* the process: listening, closing after a signal, exited
  docker,    \* the kept answer of `docker info`
  daemon,    \* whether a container can be started right now
  manifest,  \* what each working copy holds
  wants,     \* which dependencies its manifest names
  modules,   \* its node_modules, and what they were installed from
  job,       \* what each job is doing
  suite,     \* the processes and containers started for each job
  reports,   \* report.json in each output directory
  answer     \* what was answered

copyVars == <<manifest, wants, modules>>
hostVars == <<server, docker, daemon>>
vars == <<server, docker, daemon, manifest, wants, modules, job, suite, reports, answer>>

-----------------------------------------------------------------------------

Isolation == {"container", "process"}
Verdict   == {"PASSED", "FAILED", "ERROR"}

(* partial: what a killed or still running npm has written so far.          *)
Modules   == [is : {"absent", "partial", "complete"}, from : Nat]
NoModules == [is |-> "absent", from |-> 0]

(* torn: a file the engine was killed while writing.                       *)
NoReport == [is |-> "absent", by |-> {}, tests |-> <<>>]
Torn(j)  == [is |-> "torn", by |-> {j}, tests |-> <<>>]
Whole(j, tests) == [is |-> "whole", by |-> {j}, tests |-> tests]

NewJob ==
  [pc |-> "idle", kind |-> "none", dir |-> {}, forced |-> FALSE,
   isolation |-> "process", npm |-> "none", over |-> FALSE]

(* status 0: the process exited first.  verdict is that of an execute job.  *)
NoAnswer == [status |-> 0, verdict |-> "none", isolation |-> "process"]

JobState ==
  [pc : {"idle", "choosing", "checking", "npm", "starting", "running", "reading",
         "looking", "answered"},
   kind : {"none", "execute", "inspect"}, dir : SUBSET Dirs, forced : BOOLEAN,
   isolation : Isolation, npm : {"none", "ci", "install"}, over : BOOLEAN]
SuiteState  == {"none", "running", "abandoned", "over"}
ReportState ==
  [is : {"absent", "torn", "whole"}, by : SUBSET Jobs, tests : Reports \cup {<<>>}]
AnswerState ==
  [status : {0, 200, 400, 404, 413, 422}, verdict : Verdict \cup {"none"},
   isolation : Isolation]

TypeOK ==
  /\ server \in {"listening", "closing", "exited"}
  /\ docker \in {"unasked", "yes", "no"}
  /\ daemon \in BOOLEAN
  /\ manifest \in [Dirs -> Manifests]
  /\ wants \in [Dirs -> Nat]
  /\ modules \in [Dirs -> Modules]
  /\ job \in [Jobs -> JobState]
  /\ suite \in [Jobs -> SuiteState]
  /\ reports \in [Jobs -> ReportState]
  /\ answer \in [Jobs -> AnswerState]

Init ==
  /\ server = "listening"
  /\ docker = "unasked"
  /\ daemon \in BOOLEAN
  /\ manifest \in [Dirs -> Manifests]
  /\ wants = [d \in Dirs |-> 0]
  /\ modules = [d \in Dirs |-> NoModules]
  /\ job = [j \in Jobs |-> NewJob]
  /\ suite = [j \in Jobs |-> "none"]
  /\ reports = [j \in Jobs |-> NoReport]
  /\ answer = [j \in Jobs |-> NoAnswer]

At(j, pc)  == job[j].pc = pc
DirOf(j)   == CHOOSE d \in Dirs : d \in job[j].dir
Goto(j, pc) == job' = [job EXCEPT ![j].pc = pc]
InFlight   == {j \in Jobs : job[j].pc \notin {"idle", "answered"}}

-----------------------------------------------------------------------------
(* Answers.  A refusal is 4xx; whatever an execute job comes to is 200.     *)

Respond(j, status, verdict, isolation) ==
  /\ job' = [job EXCEPT ![j].pc = "answered"]
  /\ answer' = [answer EXCEPT ![j] =
       [status |-> status, verdict |-> verdict, isolation |-> isolation]]

Refuse(j, status) == Respond(j, status, "none", "process")

(* errored(): called without an isolation, it says "process".               *)
Errored(j, isolation) == Respond(j, 200, "ERROR", isolation)

(* installDependencies() answered with a message for the user.              *)
InstallFailed(j) ==
  IF job[j].kind = "execute" THEN Errored(j, job[j].isolation) ELSE Refuse(j, 422)

-----------------------------------------------------------------------------
(* The HTTP surface.                                                        *)

Turn(j, status) ==
  /\ At(j, "idle")
  /\ server = "listening"
  /\ Refuse(j, status)
  /\ UNCHANGED <<hostVars, copyVars, suite, reports>>

UnknownRoute(j)  == Turn(j, 404)
BodyTooLarge(j)  == Turn(j, 413)
BadEnvelope(j)   == Turn(j, 400)
BadPayload(j)    == Turn(j, 422)

AcceptInspect(j, d) ==
  /\ At(j, "idle")
  /\ server = "listening"
  /\ job' = [job EXCEPT ![j] = [NewJob EXCEPT !.pc = "checking", !.kind = "inspect",
                                              !.dir = {d}]]
  /\ UNCHANGED <<hostVars, copyVars, suite, reports, answer>>

(* execute() up to its first await: the output directory is made even for   *)
(* a working copy that is not there.                                       *)
AcceptExecute(j, d, forced) ==
  LET accepted == [NewJob EXCEPT !.kind = "execute", !.dir = {d}, !.forced = forced] IN
  /\ At(j, "idle")
  /\ server = "listening"
  /\ IF manifest[d] = "gone"
     THEN /\ job' = [job EXCEPT ![j] = [accepted EXCEPT !.pc = "answered"]]
          /\ answer' = [answer EXCEPT ![j] =
               [status |-> 200, verdict |-> "ERROR", isolation |-> "process"]]
     ELSE /\ job' = [job EXCEPT ![j] = [accepted EXCEPT !.pc = "choosing"]]
          /\ UNCHANGED answer
  /\ UNCHANGED <<hostVars, copyVars, suite, reports>>

-----------------------------------------------------------------------------
(* Where the suite will run.                                               *)

(* `docker info` has five seconds: a slow daemon counts as none, for ever.  *)
IsolationAvailable ==
  IF docker # "unasked" THEN UNCHANGED docker
  ELSE docker' \in {"no"} \cup (IF daemon THEN {"yes"} ELSE {})

ChooseIsolation(j) ==
  /\ At(j, "choosing")
  /\ IF job[j].forced
     THEN /\ UNCHANGED docker
          /\ job' = [job EXCEPT ![j].pc = "checking"]
     ELSE /\ IsolationAvailable
          /\ job' = [job EXCEPT ![j].pc = "checking",
               ![j].isolation = IF docker' = "yes" THEN "container" ELSE "process"]
  /\ UNCHANGED <<server, daemon, copyVars, suite, reports, answer>>

-----------------------------------------------------------------------------
(* installDependencies().                                                  *)

Installed(d) == modules[d].is # "absent"

(* The step an installed job goes on to.                                    *)
AfterInstall(j) == IF job[j].kind = "execute" THEN "starting" ELSE "looking"

SkipInstall(j) ==
  /\ At(j, "checking")
  /\ Installed(DirOf(j))
  /\ Goto(j, AfterInstall(j))
  /\ UNCHANGED <<hostVars, copyVars, suite, reports, answer>>

NoManifest(j) ==
  /\ At(j, "checking")
  /\ ~Installed(DirOf(j))
  /\ manifest[DirOf(j)] \in {"gone", "bare"}
  /\ InstallFailed(j)
  /\ UNCHANGED <<hostVars, copyVars, suite, reports>>

InstallArgs(d) == IF manifest[d] = "unlocked" THEN "install" ELSE "ci"

StartNpm(j) ==
  LET d == DirOf(j) IN
  /\ At(j, "checking")
  /\ ~Installed(d)
  /\ manifest[d] \notin {"gone", "bare"}
  /\ job' = [job EXCEPT ![j].pc = "npm", ![j].npm = InstallArgs(d)]
  /\ UNCHANGED <<hostVars, copyVars, suite, reports, answer>>

(* npm ci checks the lockfile before it touches anything.                   *)
Mismatch(j) == job[j].npm = "ci" /\ manifest[DirOf(j)] = "outOfSync"

NpmWrites(j) ==
  /\ At(j, "npm")
  /\ ~Mismatch(j)
  /\ modules[DirOf(j)].is = "absent"
  /\ modules' = [modules EXCEPT ![DirOf(j)] = [is |-> "partial", from |-> wants[DirOf(j)]]]
  /\ UNCHANGED <<hostVars, manifest, wants, job, suite, reports, answer>>

NpmSucceeds(j) ==
  LET d == DirOf(j) IN
  /\ At(j, "npm")
  /\ ~Mismatch(j)
  /\ modules[d].is # "absent"
  /\ modules' = [modules EXCEPT ![d] = [is |-> "complete", from |-> modules[d].from]]
  /\ Goto(j, AfterInstall(j))
  /\ UNCHANGED <<hostVars, manifest, wants, suite, reports, answer>>

(* The one failure that is tried again, with the other command.             *)
RetryMismatch(j) ==
  /\ At(j, "npm")
  /\ Mismatch(j)
  /\ job' = [job EXCEPT ![j].npm = "install"]
  /\ UNCHANGED <<hostVars, copyVars, suite, reports, answer>>

(* npm rolls back what it wrote, unless it cannot or somebody else's npm is *)
(* at work in the same directory.                                          *)
NpmFails(j) ==
  LET d == DirOf(j) IN
  /\ At(j, "npm")
  /\ ~Mismatch(j)
  /\ modules' \in {modules, [modules EXCEPT ![d] = NoModules]}
  /\ InstallFailed(j)
  /\ UNCHANGED <<hostVars, manifest, wants, suite, reports>>

(* SIGKILL after ten minutes: what was written stays.                       *)
NpmTimesOut(j) ==
  /\ At(j, "npm")
  /\ InstallFailed(j)
  /\ UNCHANGED <<hostVars, copyVars, suite, reports>>

-----------------------------------------------------------------------------
(* inspect(): the page is read by a browser that is always closed.          *)

ReadPage(j) ==
  /\ At(j, "looking")
  /\ \E status \in {200, 422} :
       /\ (modules[DirOf(j)].is = "absent" => status = 422)
       /\ Respond(j, status, "none", "process")
  /\ UNCHANGED <<hostVars, copyVars, suite, reports>>

-----------------------------------------------------------------------------
(* runSuite() and run().                                                   *)

(* Faulty: one directory for all runs.                                      *)
SharedOutputDir(j) == CHOOSE k \in Jobs : TRUE

(* mkdtemp: a directory nobody else has.                                    *)
OutputDir(j) == j

(* A half-written node_modules may or may not hold the engine.             *)
EngineThere(j) == modules[DirOf(j)].is # "absent"

(* Resolving the engine's CLI throws when it is not installed, and the      *)
(* catch of execute() knows no isolation; a container that cannot start, or *)
(* finds no engine, ends without a report.                                 *)
StartSuite(j) ==
  /\ At(j, "starting")
  /\ \/ /\ EngineThere(j)
        /\ job[j].isolation = "container" => daemon
        /\ suite' = [suite EXCEPT ![j] = "running"]
        /\ Goto(j, "running")
        /\ UNCHANGED answer
     \/ /\ job[j].isolation = "process"
        /\ modules[DirOf(j)].is # "complete"
        /\ Errored(j, "process")
        /\ UNCHANGED suite
     \/ /\ job[j].isolation = "container"
        /\ ~(daemon /\ EngineThere(j))
        /\ Goto(j, "reading")
        /\ UNCHANGED <<suite, answer>>
  /\ UNCHANGED <<hostVars, copyVars, reports>>

(* What a suite that is ending leaves in the output directory.              *)
Writes(j) ==
  \/ UNCHANGED reports
  \/ \E tests \in Reports : reports' = [reports EXCEPT ![OutputDir(j)] = Whole(j, tests)]

SuiteEnds(j) ==
  /\ At(j, "running")
  /\ Writes(j)
  /\ suite' = [suite EXCEPT ![j] = "over"]
  /\ Goto(j, "reading")
  /\ UNCHANGED <<hostVars, copyVars, answer>>

(* Faulty: the timer only logs.                                             *)
TimerOnlyLogs(j) ==
  /\ At(j, "running")
  /\ ~job[j].over
  /\ job' = [job EXCEPT ![j].over = TRUE]
  /\ UNCHANGED <<hostVars, copyVars, suite, reports, answer>>

(* The budget: SIGKILL to the child, which is the engine itself or only the *)
(* docker client, whose container goes on.                                 *)
SuiteTimesOut(j) ==
  /\ At(j, "running")
  /\ job' = [job EXCEPT ![j].pc = "reading", ![j].over = TRUE]
  /\ IF job[j].isolation = "container"
     THEN /\ suite' = [suite EXCEPT ![j] = "abandoned"]
          /\ UNCHANGED reports
     ELSE /\ suite' = [suite EXCEPT ![j] = "over"]
          /\ \/ Writes(j)
             \/ reports' = [reports EXCEPT ![OutputDir(j)] = Torn(j)]
  /\ UNCHANGED <<hostVars, copyVars, answer>>

(* A container whose client is gone: the engine inside may be killed for    *)
(* its memory while it writes, or finish as if nobody had left.            *)
ContainerEnds(j) ==
  /\ suite[j] = "abandoned"
  /\ suite' = [suite EXCEPT ![j] = "over"]
  /\ \/ Writes(j)
     \/ reports' = [reports EXCEPT ![OutputDir(j)] = Torn(j)]
  /\ UNCHANGED <<hostVars, copyVars, job, answer>>

-----------------------------------------------------------------------------
(* readReport() and statusOf().                                            *)

(* Faulty: at(0) for at(-1).                                                *)
FirstAttempt(attempts) == attempts[1]

LastAttempt(attempts)  == attempts[Len(attempts)]

ToStatus(attempt) ==
  CASE attempt = "passed"  -> "PASSED"
    [] attempt = "failed"  -> "FAILED"
    [] attempt = "skipped" -> "SKIPPED"
    [] OTHER               -> "ERROR"

(* A test that was never attempted yields no item.                          *)
ItemsOf(tests) ==
  {<<i, ToStatus(LastAttempt(tests[i]))>> :
     i \in {k \in 1..Len(tests) : tests[k] # <<>>}}

(* Faulty: a run whose tests were all skipped is itself skipped.            *)
SkippedStatusOf(items) ==
  IF \A item \in items : item[2] = "SKIPPED" THEN "SKIPPED" ELSE "PASSED"

(* Nothing that ran is an error, so is anything that could not run; skipped *)
(* tests alone pass.                                                       *)
StatusOf(items) ==
  IF items = {} \/ \E item \in items : item[2] = "ERROR" THEN "ERROR"
  ELSE IF \E item \in items : item[2] = "FAILED" THEN "FAILED" ELSE "PASSED"

ReadReport(j) ==
  LET report == reports[OutputDir(j)] IN
  /\ At(j, "reading")
  /\ CASE report.is = "absent" -> Errored(j, job[j].isolation)
       [] report.is = "torn"   -> Errored(j, "process")
       [] OTHER -> Respond(j, 200, StatusOf(ItemsOf(report.tests)), job[j].isolation)
  /\ UNCHANGED <<hostVars, copyVars, suite, reports>>

-----------------------------------------------------------------------------
(* The process and what surrounds it.                                      *)

Signal ==
  /\ server = "listening"
  /\ server' = "closing"
  /\ UNCHANGED <<docker, daemon, copyVars, job, suite, reports, answer>>

(* Faulty: process.exit() in the signal handler.                            *)
ExitAtOnce ==
  /\ server = "closing"
  /\ server' = "exited"
  /\ docker' = "unasked"
  /\ UNCHANGED <<daemon, copyVars, job, suite, reports, answer>>

(* server.close() calls back once every request has been answered.          *)
Exit ==
  /\ server = "closing"
  /\ InFlight = {}
  /\ server' = "exited"
  /\ docker' = "unasked"
  /\ UNCHANGED <<daemon, copyVars, job, suite, reports, answer>>

StartServer ==
  /\ server = "exited"
  /\ server' = "listening"
  /\ UNCHANGED <<docker, daemon, copyVars, job, suite, reports, answer>>

DaemonComesAndGoes ==
  /\ daemon' = ~daemon
  /\ UNCHANGED <<server, docker, copyVars, job, suite, reports, answer>>

(* The API moves a working copy to a commit with other dependencies; a run  *)
(* it has handed over does not hold the copy's lock.                       *)
Checkout(d) ==
  /\ manifest[d] \notin {"gone", "bare"}
  /\ wants[d] < MaxCheckouts
  /\ wants' = [wants EXCEPT ![d] = @ + 1]
  /\ UNCHANGED <<hostVars, manifest, modules, job, suite, reports, answer>>

-----------------------------------------------------------------------------

(* What the code does by itself once a job is in: its promise goes on.      *)
Progress(j) ==
  \/ ChooseIsolation(j)
  \/ SkipInstall(j) \/ NoManifest(j) \/ StartNpm(j)
  \/ RetryMismatch(j) \/ NpmTimesOut(j)
  \/ ReadPage(j)
  \/ StartSuite(j) \/ SuiteTimesOut(j) \/ ReadReport(j)

Request(j) ==
  \/ UnknownRoute(j) \/ BodyTooLarge(j) \/ BadEnvelope(j) \/ BadPayload(j)
  \/ \E d \in Dirs : AcceptInspect(j, d)
  \/ \E d \in Dirs, forced \in BOOLEAN : AcceptExecute(j, d, forced)

Next ==
  \/ \E j \in Jobs :
       \/ Request(j) \/ Progress(j)
       \/ NpmWrites(j) \/ NpmSucceeds(j) \/ NpmFails(j)
       \/ SuiteEnds(j) \/ ContainerEnds(j)
  \/ \E d \in Dirs : Checkout(d)
  \/ Signal \/ Exit \/ StartServer \/ DaemonComesAndGoes

(* npm and the engine may hang: only the runner's own steps, its timers      *)
(* among them, are fair.                                                   *)
Spec == Init /\ [][Next]_vars
FairSpec == Spec /\ \A j \in Jobs : WF_vars(Progress(j))

-----------------------------------------------------------------------------
(* Properties.                                                             *)

(* A verdict on the application (PASSED or FAILED) is read from a whole     *)
(* report that this job's own suite wrote into a directory nobody else      *)
(* writes, however many jobs run, die or are abandoned beside it: without a *)
(* report execute() answers ERROR (run.ts:80-89).                          *)
VerdictIsOwn ==
  \A j \in Jobs : answer[j].verdict \in {"PASSED", "FAILED"} =>
    /\ reports[OutputDir(j)].is = "whole"
    /\ reports[OutputDir(j)].by = {j}

(* PASSED says that something ran and that nothing in the report ended      *)
(* otherwise; FAILED that every test was at least carried out, so that the  *)
(* failure is the application's (run.ts:109-126, report.ts:61-66, 113-130). *)
VerdictIsEarned ==
  \A j \in Jobs :
    LET tests == reports[OutputDir(j)].tests
        ends  == {tests[i][Len(tests[i])] : i \in {k \in 1..Len(tests) : tests[k] # <<>>}} IN
    /\ answer[j].verdict = "PASSED" => ends # {} /\ ends \subseteq {"passed", "skipped"}
    /\ answer[j].verdict = "FAILED" => "failed" \in ends /\ "timedOut" \notin ends

(* Every job that is accepted is answered, though its npm and its engine    *)
(* may hang for ever: the two budgets kill them (run.ts:230, install.ts:118). *)
EveryJobIsAnswered ==
  \A j \in Jobs : job[j].pc # "idle" ~> job[j].pc = "answered"

(* A SIGTERM lets the service exit only when its jobs are answered, and it  *)
(* does exit (main.ts:25-29): no job is lost to a restart by signal.        *)
NoJobIsCutOff ==
  [][\A j \in Jobs : server' = "exited" /\ job[j].pc # "idle" => job[j].pc = "answered"]_vars

(* What command.ts:30 says of a run: the engine it uses is the one that the *)
(* project pinned, installed.                                              *)
EngineIsPinned ==
  [][\A j \in Jobs : suite[j] = "none" /\ suite'[j] = "running" =>
       modules[DirOf(j)] = [is |-> "complete", from |-> wants[DirOf(j)]]]_vars

(* What run.ts:232 tells the user of a run over its budget: it was stopped. *)
OverBudgetIsStopped ==
  \A j \in Jobs : job[j].over /\ job[j].pc = "answered" => suite[j] = "over"

(* What types.ts:86 says of the result: the isolation it names is the one   *)
(* the suite was actually run in.                                          *)
IsolationIsReported ==
  \A j \in Jobs : suite[j] # "none" /\ job[j].pc = "answered" =>
    answer[j].isolation = job[j].isolation

=============================================================================
