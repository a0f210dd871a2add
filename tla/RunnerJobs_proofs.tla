--------------------------- MODULE RunnerJobs_proofs ---------------------------
(***************************************************************************)
(* Proofs about RunnerJobs, for every set of jobs, working copies and       *)
(* reports.                                                                *)
(***************************************************************************)
EXTENDS RunnerJobs, TLAPS

-----------------------------------------------------------------------------
(* The inductive invariant.                                                *)

Before == {"idle", "choosing", "checking", "npm", "starting", "looking"}

(* A report is written only when a suite ends, and a suite ends once: as    *)
(* long as one may still write, there is no report to give a verdict.       *)
Fits(j) ==
  /\ job[j].pc \in Before => suite[j] = "none"
  /\ job[j].pc = "running" => suite[j] = "running"
  /\ suite[j] \in {"none", "running", "abandoned"} => reports[j] = NoReport
  /\ reports[j].is = "whole" => reports[j].by = {j} /\ reports[j].tests \in Reports
  /\ answer[j].verdict # "none" => job[j].pc = "answered"
  /\ answer[j].verdict \in {"PASSED", "FAILED"} =>
       /\ reports[j].is = "whole"
       /\ answer[j].verdict = StatusOf(ItemsOf(reports[j].tests))

(* The process exits only when nobody waits for it.                        *)
NobodyWaits ==
  server = "exited" => \A j \in Jobs : job[j].pc \in {"idle", "answered"}

IInv == TypeOK /\ NobodyWaits /\ \A j \in Jobs : Fits(j)

-----------------------------------------------------------------------------
(* What one job does is about that job alone.                              *)
Only(j) ==
  /\ job' = [job EXCEPT ![j] = job'[j]]
  /\ suite' = [suite EXCEPT ![j] = suite'[j]]
  /\ reports' = [reports EXCEPT ![j] = reports'[j]]
  /\ answer' = [answer EXCEPT ![j] = answer'[j]]

Typed(j) ==
  /\ job[j] \in JobState
  /\ suite[j] \in SuiteState
  /\ reports[j] \in ReportState
  /\ answer[j] \in AnswerState

HostTyped ==
  /\ docker \in {"unasked", "yes", "no"}
  /\ daemon \in BOOLEAN
  /\ manifest \in [Dirs -> Manifests]
  /\ wants \in [Dirs -> Nat]
  /\ modules \in [Dirs -> Modules]

LEMMA IInvTyped == IInv => HostTyped /\ \A j \in Jobs : Typed(j)
  BY DEF IInv, TypeOK, HostTyped, Typed

LEMMA JobStep ==
  ASSUME IInv, NEW j \in Jobs, Only(j), Typed(j)', HostTyped', Fits(j)', server' = server,
         server = "exited" => job'[j].pc \in {"idle", "answered"}
  PROVE  IInv'
<1>1. TypeOK'
  BY DEF IInv, TypeOK, Only, Typed, HostTyped
<1>2. ASSUME NEW k \in Jobs, k # j PROVE Fits(k)'
  <2>1. /\ job'[k] = job[k] /\ suite'[k] = suite[k]
        /\ reports'[k] = reports[k] /\ answer'[k] = answer[k]
    BY <1>2 DEF Only, IInv, TypeOK
  <2> QED
    BY <2>1 DEF IInv, Fits
<1>3. NobodyWaits'
  BY DEF IInv, TypeOK, NobodyWaits, Only
<1> QED
  BY <1>1, <1>2, <1>3 DEF IInv

(* Only the job's own state changes.                                       *)
LEMMA MoveStep ==
  ASSUME IInv, NEW j \in Jobs, NEW s \in JobState, job' = [job EXCEPT ![j] = s],
         UNCHANGED <<server, suite, reports, answer>>, HostTyped',
         job[j].pc \in Before, s.pc \in Before \cup {"reading"},
         job[j].pc # "idle" \/ server = "listening"
  PROVE  IInv'
<1>1. job'[j] = s
  BY DEF IInv, TypeOK
<1>2. Only(j)
  BY <1>1 DEF Only, IInv, TypeOK
<1>3. Typed(j)'
  BY <1>1, IInvTyped DEF Typed
<1>4. Fits(j)'
  BY <1>1 DEF IInv, Fits, Before
<1>5. server # "exited"
  BY DEF IInv, NobodyWaits, Before
<1> QED
  BY <1>2, <1>3, <1>4, <1>5, JobStep

(* An answer without a verdict on the application.                         *)
LEMMA RefuseStep ==
  ASSUME IInv, NEW j \in Jobs,
         NEW status \in {200, 400, 404, 413, 422}, NEW verdict \in {"none", "ERROR"},
         NEW isolation \in Isolation,
         Respond(j, status, verdict, isolation),
         job[j].pc # "running",
         UNCHANGED <<server, suite, reports>>, HostTyped'
  PROVE  IInv'
<1> DEFINE s == [job[j] EXCEPT !.pc = "answered"]
           a == [status |-> status, verdict |-> verdict, isolation |-> isolation]
<1>1. s \in JobState /\ s.pc = "answered"
  BY IInvTyped DEF Typed, JobState
<1>2. a \in AnswerState /\ a.verdict = verdict
  BY DEF AnswerState, Verdict
<1>3. job' = [job EXCEPT ![j] = s] /\ answer' = [answer EXCEPT ![j] = a]
  BY DEF Respond
<1> HIDE DEF s, a
<1>4. job'[j] = s /\ answer'[j] = a
  BY <1>3 DEF IInv, TypeOK
<1>5. Only(j)
  BY <1>3, <1>4 DEF Only, IInv, TypeOK
<1>6. Typed(j)'
  BY <1>1, <1>2, <1>4, IInvTyped DEF Typed
<1>7. Fits(j)'
  BY <1>1, <1>2, <1>4 DEF IInv, Fits, Before
<1> QED
  BY <1>1, <1>4, <1>5, <1>6, <1>7, JobStep

LEMMA InitIInv == Init => IInv
<1> SUFFICES ASSUME Init PROVE IInv
  OBVIOUS
<1>1. TypeOK
  BY DEF Init, TypeOK, Modules, NoModules, NewJob, NoReport, NoAnswer, Isolation, JobState,
         SuiteState, ReportState, AnswerState
<1>2. ASSUME NEW j \in Jobs PROVE Fits(j)
  BY DEF Init, Fits, Before, NewJob, NoReport, NoAnswer
<1> QED
  BY <1>1, <1>2 DEF IInv, NobodyWaits, Init

LEMMA RequestStep ==
  ASSUME IInv, NEW j \in Jobs, Request(j)
  PROVE  IInv'
<1>1. CASE UnknownRoute(j) \/ BodyTooLarge(j) \/ BadEnvelope(j) \/ BadPayload(j)
  <2>1. PICK status \in {400, 404, 413, 422} : Turn(j, status)
    BY <1>1 DEF UnknownRoute, BodyTooLarge, BadEnvelope, BadPayload
  <2>2. HostTyped'
    BY <2>1, IInvTyped DEF Turn, HostTyped, hostVars, copyVars
  <2> QED
    BY <2>1, <2>2, RefuseStep DEF Turn, Refuse, At, hostVars, Isolation
<1>2. ASSUME NEW d \in Dirs, AcceptInspect(j, d) PROVE IInv'
  <2> DEFINE s == [NewJob EXCEPT !.pc = "checking", !.kind = "inspect", !.dir = {d}]
  <2>1. s \in JobState /\ s.pc = "checking"
    BY DEF NewJob, JobState, Isolation
  <2>2. job' = [job EXCEPT ![j] = s]
    BY <1>2 DEF AcceptInspect
  <2>3. HostTyped'
    BY <1>2, IInvTyped DEF AcceptInspect, HostTyped, hostVars, copyVars
  <2> HIDE DEF s
  <2> QED
    BY <1>2, <2>1, <2>2, <2>3, MoveStep DEF AcceptInspect, At, Before, hostVars
<1>3. ASSUME NEW d \in Dirs, NEW forced \in BOOLEAN, AcceptExecute(j, d, forced) PROVE IInv'
  <2> DEFINE accepted == [NewJob EXCEPT !.kind = "execute", !.dir = {d}, !.forced = forced]
  <2>1. HostTyped'
    BY <1>3, IInvTyped DEF AcceptExecute, HostTyped, hostVars, copyVars
  <2>2. CASE manifest[d] # "gone"
    <3> DEFINE s == [accepted EXCEPT !.pc = "choosing"]
    <3>1. s \in JobState /\ s.pc = "choosing"
      BY DEF NewJob, JobState, Isolation
    <3>2. job' = [job EXCEPT ![j] = s] /\ answer' = answer
      BY <1>3, <2>2 DEF AcceptExecute
    <3> HIDE DEF s
    <3> QED
      BY <1>3, <2>1, <3>1, <3>2, MoveStep DEF AcceptExecute, At, Before, hostVars
  <2>3. CASE manifest[d] = "gone"
    <3> DEFINE s == [accepted EXCEPT !.pc = "answered"]
               a == [status |-> 200, verdict |-> "ERROR", isolation |-> "process"]
    <3>1. s \in JobState /\ s.pc = "answered"
      BY DEF NewJob, JobState, Isolation
    <3>2. a \in AnswerState /\ a.verdict = "ERROR"
      BY DEF AnswerState, Verdict, Isolation
    <3>3. job' = [job EXCEPT ![j] = s] /\ answer' = [answer EXCEPT ![j] = a]
      BY <1>3, <2>3 DEF AcceptExecute
    <3>4. job[j].pc = "idle" /\ UNCHANGED <<server, suite, reports>>
      BY <1>3 DEF AcceptExecute, At, hostVars
    <3> HIDE DEF s, a
    <3>5. job'[j] = s /\ answer'[j] = a
      BY <3>3 DEF IInv, TypeOK
    <3>6. Only(j)
      BY <3>3, <3>4, <3>5 DEF Only, IInv, TypeOK
    <3>7. Typed(j)'
      BY <3>1, <3>2, <3>4, <3>5, IInvTyped DEF Typed
    <3>8. Fits(j)'
      BY <3>1, <3>2, <3>4, <3>5 DEF IInv, Fits, Before
    <3> QED
      BY <2>1, <3>1, <3>4, <3>5, <3>6, <3>7, <3>8, JobStep
  <2> QED
    BY <2>2, <2>3
<1> QED
  BY <1>1, <1>2, <1>3 DEF Request

LEMMA ChooseIsolationStep ==
  ASSUME IInv, NEW j \in Jobs, ChooseIsolation(j)
  PROVE  IInv'
<1>1. PICK isolation \in Isolation :
        job' = [job EXCEPT ![j].pc = "checking", ![j].isolation = isolation]
  <2>1. CASE job[j].forced
    <3>1. [job EXCEPT ![j].pc = "checking"]
            = [job EXCEPT ![j].pc = "checking", ![j].isolation = job[j].isolation]
      BY DEF IInv, TypeOK, JobState
    <3>2. job[j].isolation \in Isolation
      BY DEF IInv, TypeOK, JobState
    <3> QED
      BY <2>1, <3>1, <3>2 DEF ChooseIsolation
  <2>2. CASE ~job[j].forced
    BY <2>2 DEF ChooseIsolation, Isolation
  <2> QED
    BY <2>1, <2>2
<1> DEFINE s == [job[j] EXCEPT !.pc = "checking", !.isolation = isolation]
<1>2. s \in JobState /\ s.pc = "checking"
  BY IInvTyped DEF Typed, JobState
<1>3. job' = [job EXCEPT ![j] = s]
  BY <1>1
<1>4. HostTyped'
  BY IInvTyped DEF ChooseIsolation, IsolationAvailable, HostTyped, copyVars
<1> HIDE DEF s
<1> QED
  BY <1>2, <1>3, <1>4, MoveStep DEF ChooseIsolation, At, Before

LEMMA InstallStep ==
  ASSUME IInv, NEW j \in Jobs,
         \/ SkipInstall(j) \/ NoManifest(j) \/ StartNpm(j) \/ RetryMismatch(j)
         \/ NpmWrites(j) \/ NpmSucceeds(j) \/ NpmFails(j) \/ NpmTimesOut(j)
  PROVE  IInv'
<1>1. HostTyped'
  <2>1. UNCHANGED <<docker, daemon, manifest, wants>>
    BY DEF SkipInstall, NoManifest, StartNpm, RetryMismatch, NpmWrites, NpmSucceeds, NpmFails,
           NpmTimesOut, hostVars, copyVars
  <2>2. modules' \in [Dirs -> Modules]
    BY DEF SkipInstall, NoManifest, StartNpm, RetryMismatch, NpmWrites, NpmSucceeds, NpmFails,
           NpmTimesOut, copyVars, IInv, TypeOK, Modules, NoModules
  <2> QED
    BY <2>1, <2>2, IInvTyped DEF HostTyped
<1>2. job[j].pc \in {"checking", "npm"} /\ UNCHANGED <<server, suite, reports>>
  BY DEF SkipInstall, NoManifest, StartNpm, RetryMismatch, NpmWrites, NpmSucceeds, NpmFails,
         NpmTimesOut, At, hostVars
<1>3. CASE NoManifest(j) \/ NpmFails(j) \/ NpmTimesOut(j)
  <2>1. PICK status \in {200, 422}, verdict \in {"none", "ERROR"}, isolation \in Isolation :
          Respond(j, status, verdict, isolation)
    BY <1>3, IInvTyped
    DEF NoManifest, NpmFails, NpmTimesOut, InstallFailed, Errored, Refuse, Isolation, Typed,
        JobState
  <2> QED
    BY <1>1, <1>2, <2>1, RefuseStep
<1>4. CASE SkipInstall(j) \/ StartNpm(j) \/ RetryMismatch(j) \/ NpmWrites(j) \/ NpmSucceeds(j)
  <2> DEFINE Moved(pc, npm) == [job[j] EXCEPT !.pc = pc, !.npm = npm]
  <2>1. /\ UNCHANGED answer
        /\ \E pc \in {"checking", "npm", "starting", "looking"}, npm \in {"none", "ci", "install"} :
             job' = [job EXCEPT ![j] = Moved(pc, npm)]
    <3>1. job[j] \in JobState
      BY IInvTyped DEF Typed
    <3>2. \A pc : [job[j] EXCEPT !.pc = pc] = Moved(pc, job[j].npm)
      BY <3>1 DEF JobState
    <3>3. \A npm : [job[j] EXCEPT !.npm = npm] = Moved(job[j].pc, npm)
      BY <3>1 DEF JobState
    <3>4. job = [job EXCEPT ![j] = Moved(job[j].pc, job[j].npm)]
      BY <3>1 DEF JobState, IInv, TypeOK
    <3>5. job[j].npm \in {"none", "ci", "install"}
      BY <3>1 DEF JobState
    <3>6. CASE SkipInstall(j) \/ NpmSucceeds(j)
      BY <3>2, <3>5, <3>6 DEF SkipInstall, NpmSucceeds, Goto, AfterInstall
    <3>7. CASE StartNpm(j)
      BY <3>7 DEF StartNpm, InstallArgs
    <3>8. CASE RetryMismatch(j)
      BY <1>2, <3>3, <3>8 DEF RetryMismatch
    <3>9. CASE NpmWrites(j)
      BY <1>2, <3>4, <3>5, <3>9 DEF NpmWrites
    <3> QED
      BY <1>4, <3>6, <3>7, <3>8, <3>9
  <2>2. PICK pc \in {"checking", "npm", "starting", "looking"}, npm \in {"none", "ci", "install"} :
          job' = [job EXCEPT ![j] = Moved(pc, npm)]
    BY <2>1
  <2>3. Moved(pc, npm) \in JobState /\ Moved(pc, npm).pc = pc
    BY IInvTyped DEF Typed, JobState
  <2> HIDE DEF Moved
  <2> QED
    BY <1>1, <1>2, <2>1, <2>2, <2>3, MoveStep DEF Before
<1> QED
  BY <1>3, <1>4

LEMMA ReadPageStep ==
  ASSUME IInv, NEW j \in Jobs, ReadPage(j)
  PROVE  IInv'
<1>1. HostTyped'
  BY IInvTyped DEF ReadPage, HostTyped, hostVars, copyVars
<1> QED
  BY <1>1, RefuseStep DEF ReadPage, At, hostVars, Isolation

(* A suite ends, in the process or in its container: its report appears.    *)
LEMMA SuiteStep ==
  ASSUME IInv, NEW j \in Jobs, NEW s \in JobState, NEW su \in {"running", "abandoned", "over"},
         NEW report,
         \/ report = reports[j]
         \/ su = "over" /\ report = Torn(j)
         \/ su = "over" /\ \E tests \in Reports : report = Whole(j, tests),
         job' = [job EXCEPT ![j] = s], suite' = [suite EXCEPT ![j] = su],
         reports' = [reports EXCEPT ![j] = report],
         UNCHANGED <<hostVars, copyVars, answer>>,
         suite[j] \in {"none", "running", "abandoned"},
         \/ job[j].pc = "starting" /\ s.pc = "running" /\ su = "running"
         \/ job[j].pc = "running" /\ s.pc = "reading"
         \/ suite[j] = "abandoned" /\ s = job[j]
  PROVE  IInv'
<1>1. job'[j] = s /\ suite'[j] = su /\ reports'[j] = report /\ answer'[j] = answer[j]
  BY DEF IInv, TypeOK
<1>2. reports[j] = NoReport /\ reports[j].is # "whole"
  BY DEF IInv, Fits, NoReport
<1>3. /\ report \in ReportState
      /\ report.is = "whole" => report.by = {j} /\ report.tests \in Reports
  <2>1. CASE report = reports[j]
    BY <1>2, <2>1, IInvTyped DEF Typed
  <2>2. CASE report = Torn(j)
    BY <2>2 DEF Torn, ReportState
  <2>3. ASSUME NEW tests \in Reports, report = Whole(j, tests)
        PROVE  report \in ReportState /\ report.by = {j} /\ report.tests \in Reports
    BY <2>3 DEF Whole, ReportState
  <2> QED
    BY <2>1, <2>2, <2>3
<1>4. Only(j)
  BY <1>1 DEF Only, IInv, TypeOK
<1>5. Typed(j)'
  BY <1>1, <1>3, IInvTyped DEF Typed, SuiteState
<1>6. HostTyped'
  BY IInvTyped DEF HostTyped, hostVars, copyVars
<1>7. answer[j].verdict \notin {"PASSED", "FAILED"}
  BY <1>2 DEF IInv, Fits
<1>8. Fits(j)'
  <2>1. su # "over" => report = NoReport
    BY <1>2
  <2>2. s.pc \in Before => su = "none"
    BY DEF IInv, Fits, Before
  <2>3. s.pc = "running" => su = "running"
    BY DEF IInv, Fits
  <2>4. answer[j].verdict # "none" => s.pc = "answered"
    BY DEF IInv, Fits
  <2> QED
    BY <1>1, <1>3, <1>7, <2>1, <2>2, <2>3, <2>4 DEF Fits
<1>9. server = "exited" => s.pc \in {"idle", "answered"}
  BY DEF IInv, NobodyWaits
<1> QED
  BY <1>1, <1>4, <1>5, <1>6, <1>8, <1>9, JobStep DEF hostVars

LEMMA WritesOwn ==
  ASSUME IInv, NEW j \in Jobs,
         Writes(j) \/ reports' = [reports EXCEPT ![OutputDir(j)] = Torn(j)]
  PROVE  \E report :
           /\ reports' = [reports EXCEPT ![j] = report]
           /\ \/ report \in {reports[j], Torn(j)}
              \/ \E tests \in Reports : report = Whole(j, tests)
<1>1. reports = [reports EXCEPT ![j] = reports[j]]
  BY DEF IInv, TypeOK
<1> QED
  BY <1>1 DEF Writes, OutputDir

LEMMA StartSuiteStep ==
  ASSUME IInv, NEW j \in Jobs, StartSuite(j)
  PROVE  IInv'
<1>1. job[j].pc = "starting" /\ UNCHANGED <<hostVars, copyVars, reports>>
  BY DEF StartSuite, At
<1>2. HostTyped'
  BY <1>1, IInvTyped DEF HostTyped, hostVars, copyVars
<1> DEFINE Moved(pc) == [job[j] EXCEPT !.pc = pc]
<1>3. \A pc \in {"running", "reading"} : Moved(pc) \in JobState /\ Moved(pc).pc = pc
  BY IInvTyped DEF Typed, JobState
<1>4. CASE /\ suite' = [suite EXCEPT ![j] = "running"]
           /\ job' = [job EXCEPT ![j].pc = "running"] /\ UNCHANGED answer
  <2>1. job' = [job EXCEPT ![j] = Moved("running")]
    BY <1>4
  <2>2. reports' = [reports EXCEPT ![j] = reports[j]]
    BY <1>1 DEF IInv, TypeOK
  <2>3. suite[j] = "none"
    BY <1>1 DEF IInv, Fits, Before
  <2>4. PICK s \in JobState : job' = [job EXCEPT ![j] = s] /\ s.pc = "running"
    BY <1>3, <2>1
  <2>5. UNCHANGED <<hostVars, copyVars, answer>>
    BY <1>1, <1>4
  <2>6. suite' = [suite EXCEPT ![j] = "running"] /\ job[j].pc = "starting"
    BY <1>1, <1>4
  <2> HIDE DEF Moved
  <2> QED
    BY <2>2, <2>3, <2>4, <2>5, <2>6, SuiteStep
<1>5. CASE Errored(j, "process") /\ UNCHANGED suite
  BY <1>1, <1>2, <1>5, RefuseStep DEF Errored, Isolation, hostVars
<1>6. CASE job' = [job EXCEPT ![j].pc = "reading"] /\ UNCHANGED <<suite, answer>>
  <2>1. job' = [job EXCEPT ![j] = Moved("reading")]
    BY <1>6
  <2> HIDE DEF Moved
  <2> QED
    BY <1>1, <1>2, <1>3, <1>6, <2>1, MoveStep DEF Before, hostVars
<1> QED
  BY <1>4, <1>5, <1>6 DEF StartSuite, Goto

LEMMA SuiteEndStep ==
  ASSUME IInv, NEW j \in Jobs, SuiteEnds(j) \/ SuiteTimesOut(j) \/ ContainerEnds(j)
  PROVE  IInv'
<1>1. UNCHANGED <<hostVars, copyVars, answer>>
  BY DEF SuiteEnds, SuiteTimesOut, ContainerEnds
<1>2. CASE SuiteEnds(j) \/ SuiteTimesOut(j)
  <2>1. job[j].pc = "running" /\ suite[j] = "running"
    BY <1>2 DEF SuiteEnds, SuiteTimesOut, At, IInv, Fits
  <2>2. PICK s \in JobState : job' = [job EXCEPT ![j] = s] /\ s.pc = "reading"
    <3> DEFINE ended == [job[j] EXCEPT !.pc = "reading"]
               killed == [job[j] EXCEPT !.pc = "reading", !.over = TRUE]
    <3>1. ended \in JobState /\ killed \in JobState /\ ended.pc = "reading" /\ killed.pc = "reading"
      BY IInvTyped DEF Typed, JobState
    <3>2. job' = [job EXCEPT ![j] = ended] \/ job' = [job EXCEPT ![j] = killed]
      BY <1>2 DEF SuiteEnds, SuiteTimesOut, Goto
    <3> HIDE DEF ended, killed
    <3> QED
      BY <3>1, <3>2
  <2>3. CASE suite' = [suite EXCEPT ![j] = "over"] /\
             (Writes(j) \/ reports' = [reports EXCEPT ![OutputDir(j)] = Torn(j)])
    <3>1. PICK report :
            /\ reports' = [reports EXCEPT ![j] = report]
            /\ \/ report \in {reports[j], Torn(j)}
               \/ \E tests \in Reports : report = Whole(j, tests)
      BY <2>3, WritesOwn
    <3> QED
      BY <1>1, <2>1, <2>2, <2>3, <3>1, SuiteStep
  <2>4. CASE suite' = [suite EXCEPT ![j] = "abandoned"] /\ UNCHANGED reports
    <3>1. reports' = [reports EXCEPT ![j] = reports[j]]
      BY <2>4 DEF IInv, TypeOK
    <3> QED
      BY <1>1, <2>1, <2>2, <2>4, <3>1, SuiteStep
  <2> QED
    BY <1>2, <2>3, <2>4 DEF SuiteEnds, SuiteTimesOut
<1>3. CASE ContainerEnds(j)
  <2>1. job' = [job EXCEPT ![j] = job[j]]
    BY <1>3 DEF ContainerEnds, IInv, TypeOK
  <2>2. PICK report :
          /\ reports' = [reports EXCEPT ![j] = report]
          /\ \/ report \in {reports[j], Torn(j)}
             \/ \E tests \in Reports : report = Whole(j, tests)
    BY <1>3, WritesOwn DEF ContainerEnds
  <2>3. suite[j] = "abandoned" /\ suite' = [suite EXCEPT ![j] = "over"]
    BY <1>3 DEF ContainerEnds
  <2>4. job[j] \in JobState
    BY IInvTyped DEF Typed
  <2> QED
    BY <1>1, <2>1, <2>2, <2>3, <2>4, SuiteStep
<1> QED
  BY <1>2, <1>3

LEMMA StatusIsVerdict == \A items : StatusOf(items) \in Verdict
  BY DEF StatusOf, Verdict

LEMMA ReadReportStep ==
  ASSUME IInv, NEW j \in Jobs, ReadReport(j)
  PROVE  IInv'
<1>1. job[j].pc = "reading" /\ UNCHANGED <<hostVars, copyVars, suite, reports>>
  BY DEF ReadReport, At
<1>2. HostTyped'
  BY <1>1, IInvTyped DEF HostTyped, hostVars, copyVars
<1>3. job[j].isolation \in Isolation
  BY IInvTyped DEF Typed, JobState
<1>4. CASE Errored(j, job[j].isolation) \/ Errored(j, "process")
  BY <1>1, <1>2, <1>3, <1>4, RefuseStep DEF Errored, Isolation, hostVars
<1>5. CASE /\ reports[j].is = "whole"
           /\ Respond(j, 200, StatusOf(ItemsOf(reports[j].tests)), job[j].isolation)
  <2> DEFINE s == [job[j] EXCEPT !.pc = "answered"]
             verdict == StatusOf(ItemsOf(reports[j].tests))
             a == [status |-> 200, verdict |-> verdict, isolation |-> job[j].isolation]
  <2>1. s \in JobState /\ s.pc = "answered"
    BY IInvTyped DEF Typed, JobState
  <2>2. verdict \in Verdict
    BY StatusIsVerdict
  <2>3. job' = [job EXCEPT ![j] = s] /\ answer' = [answer EXCEPT ![j] = a]
    BY <1>5 DEF Respond
  <2> HIDE DEF verdict
  <2>4. a \in AnswerState /\ a.verdict = verdict
    BY <1>3, <2>2 DEF AnswerState
  <2> HIDE DEF s, a
  <2>5. job'[j] = s /\ answer'[j] = a
    BY <2>3 DEF IInv, TypeOK
  <2>6. Only(j)
    BY <1>1, <2>3, <2>5 DEF Only, IInv, TypeOK
  <2>7. Typed(j)'
    BY <1>1, <2>1, <2>4, <2>5, IInvTyped DEF Typed
  <2>8. Fits(j)'
    BY <1>1, <1>5, <2>1, <2>4, <2>5 DEF IInv, Fits, Before, verdict
  <2> QED
    BY <1>1, <1>2, <2>1, <2>5, <2>6, <2>7, <2>8, JobStep DEF hostVars
<1>6. reports[j].is \in {"absent", "torn", "whole"}
  BY IInvTyped DEF Typed, ReportState
<1> QED
  BY <1>4, <1>5, <1>6 DEF ReadReport, OutputDir

(* Nothing about a job changes while the process, the daemon or the working  *)
(* copies do.                                                              *)
LEMMA HostStep ==
  ASSUME IInv,
         Signal \/ Exit \/ StartServer \/ DaemonComesAndGoes \/ \E d \in Dirs : Checkout(d)
  PROVE  IInv'
<1>1. UNCHANGED <<job, suite, reports, answer>>
  BY DEF Signal, Exit, StartServer, DaemonComesAndGoes, Checkout
<1>2. TypeOK'
  <2>1. CASE Signal \/ Exit \/ StartServer \/ DaemonComesAndGoes
    <3>1. /\ UNCHANGED <<manifest, wants, modules>> /\ daemon' \in BOOLEAN
          /\ docker' \in {"unasked", docker}
          /\ server' \in {"listening", "closing", "exited"}
      BY <2>1
      DEF IInv, TypeOK, Signal, Exit, StartServer, DaemonComesAndGoes, copyVars
    <3> QED
      BY <1>1, <3>1 DEF IInv, TypeOK
  <2>2. ASSUME NEW d \in Dirs, Checkout(d) PROVE TypeOK'
    <3>1. wants' \in [Dirs -> Nat]
      BY <2>2 DEF Checkout, IInv, TypeOK
    <3> QED
      BY <1>1, <2>2, <3>1 DEF Checkout, IInv, TypeOK, hostVars
  <2> QED
    BY <2>1, <2>2
<1>3. \A j \in Jobs : Fits(j)'
  BY <1>1 DEF IInv, Fits
<1>4. NobodyWaits'
  BY <1>1
  DEF IInv, NobodyWaits, Signal, Exit, StartServer, DaemonComesAndGoes, Checkout, hostVars,
      InFlight
<1> QED
  BY <1>2, <1>3, <1>4 DEF IInv

LEMMA NextIInv == IInv /\ [Next]_vars => IInv'
<1> SUFFICES ASSUME IInv, [Next]_vars PROVE IInv'
  OBVIOUS
<1>1. CASE UNCHANGED vars
  BY <1>1 DEF vars, IInv, TypeOK, NobodyWaits, Fits
<1>2. ASSUME NEW j \in Jobs, Request(j) PROVE IInv'
  BY <1>2, RequestStep
<1>3. ASSUME NEW j \in Jobs, Progress(j) PROVE IInv'
  BY <1>3, ChooseIsolationStep, InstallStep, ReadPageStep, StartSuiteStep, SuiteEndStep,
     ReadReportStep
  DEF Progress
<1>4. ASSUME NEW j \in Jobs,
             \/ NpmWrites(j) \/ NpmSucceeds(j) \/ NpmFails(j) \/ SuiteEnds(j) \/ ContainerEnds(j)
      PROVE  IInv'
  BY <1>4, InstallStep, SuiteEndStep
<1> QED
  BY <1>1, <1>2, <1>3, <1>4, HostStep DEF Next

LEMMA IInvHolds == Spec => []IInv
  BY InitIInv, NextIInv, PTL DEF Spec

-----------------------------------------------------------------------------
(* Every variable has its type.                                            *)
THEOREM TypesHold == Spec => []TypeOK
<1>1. IInv => TypeOK
  BY DEF IInv
<1> QED
  BY <1>1, IInvHolds, PTL

(* A verdict on the application is read from the job's own whole report     *)
(* (execute/run.ts).                                                       *)
THEOREM VerdictsAreOwn == Spec => []VerdictIsOwn
<1>1. IInv => VerdictIsOwn
  BY DEF IInv, Fits, VerdictIsOwn, OutputDir
<1> QED
  BY <1>1, IInvHolds, PTL

(* PASSED and FAILED are what the last attempts of the tests amount to      *)
(* (statusOf and toStatus).                                                *)
THEOREM VerdictsAreEarned == Spec => []VerdictIsEarned
<1>1. ASSUME IInv PROVE VerdictIsEarned
  <2> SUFFICES ASSUME NEW j \in Jobs, answer[j].verdict \in {"PASSED", "FAILED"}
               PROVE  LET tests == reports[j].tests
                          ends == {tests[i][Len(tests[i])] :
                                     i \in {k \in 1..Len(tests) : tests[k] # <<>>}}
                      IN  /\ answer[j].verdict = "PASSED" =>
                               ends # {} /\ ends \subseteq {"passed", "skipped"}
                          /\ answer[j].verdict = "FAILED" =>
                               "failed" \in ends /\ "timedOut" \notin ends
    BY DEF VerdictIsEarned, OutputDir
  <2> DEFINE tests == reports[j].tests
             ran == {k \in 1..Len(tests) : tests[k] # <<>>}
             end(i) == tests[i][Len(tests[i])]
             items == {<<i, ToStatus(end(i))>> : i \in ran}
  <2>1. answer[j].verdict = StatusOf(items)
    BY <1>1 DEF IInv, Fits, ItemsOf, LastAttempt
  <2>2. tests \in Seq(Seq(Attempt))
    BY <1>1, RunnerAssumption DEF IInv, Fits
  <2>3. \A i \in ran : end(i) \in Attempt
    <3> TAKE i \in ran
    <3>1. tests[i] \in Seq(Attempt) /\ tests[i] # <<>>
      BY <2>2
    <3>2. Len(tests[i]) \in 1..Len(tests[i])
      BY <3>1
    <3> QED
      BY <3>1, <3>2
  <2>4. /\ items = {} <=> ran = {}
        /\ \A status : (\E item \in items : item[2] = status)
                         <=> (\E i \in ran : ToStatus(end(i)) = status)
    <3>1. \A i : <<i, ToStatus(end(i))>>[2] = ToStatus(end(i))
      OBVIOUS
    <3>2. \A item : item \in items <=> \E i \in ran : item = <<i, ToStatus(end(i))>>
      OBVIOUS
    <3> HIDE DEF ran, items, end
    <3>3. \A item \in items : \E i \in ran : item[2] = ToStatus(end(i))
      BY <3>1, <3>2
    <3>4. \A i \in ran : \E item \in items : item[2] = ToStatus(end(i))
      BY <3>1, <3>2
    <3> QED
      BY <3>3, <3>4
  <2> HIDE DEF ran, items, end
  <2>5. CASE answer[j].verdict = "PASSED"
    <3>1. /\ ran # {}
          /\ \A i \in ran : ToStatus(end(i)) \notin {"ERROR", "FAILED"}
      BY <2>1, <2>4, <2>5 DEF StatusOf
    <3>2. \A i \in ran : end(i) \in {"passed", "skipped"}
      BY <2>3, <3>1 DEF ToStatus, Attempt
    <3> QED
      BY <2>5, <3>1, <3>2 DEF ran, end
  <2>6. CASE answer[j].verdict = "FAILED"
    <3>1. /\ \E i \in ran : ToStatus(end(i)) = "FAILED"
          /\ \A i \in ran : ToStatus(end(i)) # "ERROR"
      BY <2>1, <2>4, <2>6 DEF StatusOf
    <3>2. /\ \E i \in ran : end(i) = "failed"
          /\ \A i \in ran : end(i) # "timedOut"
      BY <2>3, <3>1 DEF ToStatus, Attempt
    <3> QED
      BY <2>6, <3>2 DEF ran, end
  <2> QED
    BY <2>5, <2>6
<1> QED
  BY <1>1, IInvHolds, PTL

(* A SIGTERM cuts no job off (main.ts:25-29).                               *)
THEOREM NoJobIsLostToASignal == Spec => NoJobIsCutOff
<1> DEFINE Answered == \A j \in Jobs : server' = "exited" /\ job[j].pc # "idle" =>
                         job[j].pc = "answered"
<1>1. ASSUME IInv, [Next]_vars PROVE [Answered]_vars
  <2>1. CASE server = "exited"
    BY <1>1, <2>1 DEF IInv, NobodyWaits
  <2>2. CASE server # "exited" /\ server' = "exited" /\ Next
    <3>1. Exit
      BY <2>2
      DEF Next, Request, Progress, UnknownRoute, BodyTooLarge, BadEnvelope, BadPayload, Turn,
          AcceptInspect, AcceptExecute, ChooseIsolation, SkipInstall, NoManifest, StartNpm,
          RetryMismatch, NpmTimesOut, ReadPage, StartSuite, SuiteTimesOut, ReadReport, NpmWrites,
          NpmSucceeds, NpmFails, SuiteEnds, ContainerEnds, Checkout, Signal, StartServer,
          DaemonComesAndGoes, hostVars
    <3> QED
      BY <3>1 DEF Exit, InFlight
  <2> QED
    BY <1>1, <2>1, <2>2
<1> QED
  BY <1>1, IInvHolds, PTL DEF Spec, NoJobIsCutOff
=============================================================================
