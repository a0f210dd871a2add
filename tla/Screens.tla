-------------------------------- MODULE Screens --------------------------------
(***************************************************************************)
(* The screens of the web application that list things and change them     *)
(* (apps/web/src/features): which queries a screen reads, which controls   *)
(* it offers and when, which requests they send, and what each request     *)
(* does to the API's rows and, once answered, to the query cache.          *)
(*                                                                         *)
(* One tab shows one screen at a time.  Requests, reads and the run        *)
(* executor are asynchronous: an answer may arrive when its screen is      *)
(* gone, after another request, or while an older read is under way.  Rows *)
(* are abstracted to the version of the resource they belong to, the       *)
(* number of the last write that changed it.                               *)
(***************************************************************************)
EXTENDS QueryCache, FiniteSets

CONSTANTS
  Starts,       \* <<p, w>>: the first screen, and what there already is
  Links,        \* <<p, q>>: the user goes from screen p to screen q
  MaxVisits,    \* how often the user goes to another screen
  MaxSent,      \* how many requests the user sends
  Failing,      \* the resources a read of which may fail
  MaxFails      \* how many reads fail

ASSUME ScreensAssumption ==
  MaxVisits \in Nat /\ MaxSent \in Nat /\ MaxFails \in Nat

VARIABLES
  page,      \* the screen shown
  dialog,    \* the write its open dialog is about, or Closed
  cache,     \* the query cache
  sent,      \* the requests under way
  server,    \* the version of every resource
  marks,     \* <<r, v>>: at version v resource r holds what its readers ask for
  clock,     \* the newest version
  acked,     \* the newest own write this tab was told of, by resource
  counts     \* how often the user moved and sent, and how often a read failed

vars == <<page, dialog, cache, sent, server, marks, clock, acked, counts>>

Closed == ""

(* What the screens read.  The lists are the ones a write invalidates.     *)
Lists == {"workspaces", "projects", "cases", "environments", "members",
          "credentials", "pages", "tests", "runs"}
Details == {"project", "case", "account", "binding", "run", "analysis"}
Resources == Lists \cup Details

-------------------------------------------------------------------------------
(* The requests: what each changes on the API, and what the hook does to   *)
(* the cache when it is answered.                                          *)

Nothing == [touches |-> {}, gives |-> {}, ends |-> {},
            sets |-> {}, invalidates |-> {}, removes |-> {}, then |-> Closed]

CreateWorkspace ==
  [Nothing EXCEPT !.touches = {"workspaces"}, !.gives = {"workspaces"},
                  !.invalidates = {"workspaces"}]

CreateProject ==
  [Nothing EXCEPT !.touches = {"projects", "project"}, !.sets = {"project"},
                  !.invalidates = {"projects"}]

UpdateProject ==
  [Nothing EXCEPT !.touches = {"projects", "project"}, !.sets = {"project"},
                  !.invalidates = {"projects"}]

DeleteProject ==
  [Nothing EXCEPT !.touches = {"projects", "project"}, !.removes = {"project"},
                  !.invalidates = {"projects"}]

CreateTestCase ==
  [Nothing EXCEPT !.touches = {"cases", "case"}, !.sets = {"case"},
                  !.invalidates = {"cases"}]

UpdateTestCase ==
  [Nothing EXCEPT !.touches = {"cases", "case"}, !.sets = {"case"},
                  !.invalidates = {"cases"}]

(* A case takes its cells of every run with it, and an environment whose   *)
(* prelude it was loses the prelude (V12:59, V15:17).                      *)
DeleteTestCase ==
  [Nothing EXCEPT !.touches = {"cases", "case", "environments", "runs", "run"},
                  !.removes = {"case"}, !.invalidates = {"cases"}]

CreateEnvironment ==
  [Nothing EXCEPT !.touches = {"environments"}, !.gives = {"environments"},
                  !.invalidates = {"environments"}]

(* Faulty: the detail is set, and the list is left as it was read. *)
UpdateEnvironmentAlone == [Nothing EXCEPT !.touches = {"environments"}]

UpdateEnvironment ==
  [Nothing EXCEPT !.touches = {"environments"}, !.invalidates = {"environments"}]

DeleteEnvironment ==
  [Nothing EXCEPT !.touches = {"environments"}, !.ends = {"environments"},
                  !.invalidates = {"environments"}]

AddMember == [Nothing EXCEPT !.touches = {"members"}, !.invalidates = {"members"}]

ChangeMemberRole == [Nothing EXCEPT !.touches = {"members"}, !.invalidates = {"members"}]

RemoveMember == [Nothing EXCEPT !.touches = {"members"}, !.invalidates = {"members"}]

CreateGitCredential ==
  [Nothing EXCEPT !.touches = {"credentials"}, !.invalidates = {"credentials"}]

DeleteGitCredential ==
  [Nothing EXCEPT !.touches = {"credentials"}, !.invalidates = {"credentials"}]

SaveAiAccount ==
  [Nothing EXCEPT !.touches = {"account"}, !.gives = {"account"}, !.sets = {"account"}]

DeleteAiAccount ==
  [Nothing EXCEPT !.touches = {"account"}, !.ends = {"account"}, !.sets = {"account"}]

InspectPage == [Nothing EXCEPT !.touches = {"pages"}, !.invalidates = {"pages"}]

UpdateElement == [Nothing EXCEPT !.touches = {"pages"}, !.invalidates = {"pages"}]

(* connect() awaits the connection and then sends the binding of it; no    *)
(* screen reads the list of connections.                                   *)
CreateConnection == [Nothing EXCEPT !.then = "bind"]

Bind ==
  [Nothing EXCEPT !.touches = {"binding", "tests"}, !.gives = {"binding"},
                  !.sets = {"binding"}, !.invalidates = {"tests"}]

Unbind ==
  [Nothing EXCEPT !.touches = {"binding", "tests"}, !.ends = {"binding"},
                  !.sets = {"binding"}, !.removes = {"tests"}]

RequestRun ==
  [Nothing EXCEPT !.touches = {"runs", "run"}, !.gives = {"runs", "run"},
                  !.sets = {"run"}, !.invalidates = {"runs"}]

CancelRun ==
  [Nothing EXCEPT !.touches = {"runs", "run"}, !.ends = {"runs", "run"},
                  !.sets = {"run"}, !.invalidates = {"runs"}]

AnalyseFailure == [Nothing EXCEPT !.touches = {"analysis"}, !.sets = {"analysis"}]

Writes ==
  [createWorkspace |-> CreateWorkspace,
   createProject |-> CreateProject, updateProject |-> UpdateProject,
   deleteProject |-> DeleteProject,
   createCase |-> CreateTestCase, updateCase |-> UpdateTestCase,
   deleteCase |-> DeleteTestCase,
   createEnvironment |-> CreateEnvironment, updateEnvironment |-> UpdateEnvironment,
   deleteEnvironment |-> DeleteEnvironment,
   addMember |-> AddMember, changeRole |-> ChangeMemberRole, removeMember |-> RemoveMember,
   createCredential |-> CreateGitCredential, deleteCredential |-> DeleteGitCredential,
   saveAccount |-> SaveAiAccount, deleteAccount |-> DeleteAiAccount,
   inspectPage |-> InspectPage, updateElement |-> UpdateElement,
   connect |-> CreateConnection, bind |-> Bind, unbind |-> Unbind,
   requestRun |-> RequestRun, cancelRun |-> CancelRun, analyse |-> AnalyseFailure]

-------------------------------------------------------------------------------
(* The screens: what each reads (and what its dialogs read), where a failed *)
(* read can be tried again, and its controls.  A control sends one kind of *)
(* write.  It is offered when what it "needs" was read, "holds" and does   *)
(* not "lack" what it is about; "unless" names lists that must not be      *)
(* known to be empty.  It is pressed on the page or in a dialog, which     *)
(* "closes" on the click, on success or on failure; "blocked" controls are *)
(* disabled while their request is pending; the hook of an "inside" one    *)
(* goes away with its dialog; success "goes" to another screen.            *)

Button(write, needs) ==
  [write |-> write, needs |-> needs, holds |-> {}, lacks |-> {}, unless |-> {},
   inDialog |-> FALSE, closes |-> {}, blocked |-> TRUE, inside |-> FALSE, goes |-> Closed]

(* A dialog with a form, which closes when what it sent succeeded.         *)
Form(write, needs) ==
  [Button(write, needs) EXCEPT !.inDialog = TRUE, !.closes = {"success"}]

(* A dialog that asks for confirmation, and closes on the click.           *)
Confirm(write, needs) ==
  [Button(write, needs) EXCEPT !.inDialog = TRUE,
                               !.closes = {"click", "success", "failure"}]

View(reads, controls) ==
  [reads |-> reads, inDialog |-> {}, retries |-> reads, controls |-> controls]

DashboardView == [View({"workspaces", "projects"}, {}) EXCEPT !.retries = {}]

CreateWorkspaceGate ==
  [Button("createWorkspace", {"workspaces"}) EXCEPT !.lacks = {"workspaces"}]

(* The header, and with it the button that creates, is there before the    *)
(* list is.                                                                *)
ProjectList ==
  {[Form("createProject", {"workspaces"}) EXCEPT !.holds = {"workspaces"}],
   Confirm("deleteProject", {"workspaces", "projects"})}

(* The mutation belongs to the dialog, so its answer is not for another.   *)
ProjectEditDialog ==
  [Form("updateProject", {"workspaces", "projects"}) EXCEPT !.inside = TRUE]

ProjectsView ==
  View({"workspaces", "projects"}, {CreateWorkspaceGate, ProjectEditDialog} \cup ProjectList)

(* A screen of one project: nothing of it is there until the project is.   *)
ProjectShell(view) ==
  [view EXCEPT !.reads = @ \cup {"project"}, !.retries = @ \cup {"project"},
               !.controls = {[c EXCEPT !.needs = @ \cup {"project"}] : c \in @}]

TestCasesView ==
  View({"cases"},
       {[Form("createCase", {}) EXCEPT !.goes = "case"],
        Confirm("deleteCase", {"cases"})})

TestCaseEditorView ==
  View({"case"},
       {Button("updateCase", {"case"}),
        [Confirm("deleteCase", {"case"}) EXCEPT !.goes = "cases"]})

(* The click on the deletion keeps its dialog, and the form of an          *)
(* environment reads the cases that may be its prelude.                    *)
EnvironmentsView ==
  [View({"environments"},
        {Form("createEnvironment", {"environments"}),
         [Form("updateEnvironment", {"environments"}) EXCEPT !.holds = {"environments"}],
         [Form("deleteEnvironment", {"environments"}) EXCEPT !.holds = {"environments"}]})
   EXCEPT !.inDialog = {"cases"}]

(* The deletion of a member is the one control that stays enabled while it *)
(* is pending; nothing offers to read the workspaces again.                *)
Members ==
  LET ofWorkspace == {"workspaces", "members"} IN
  [View(ofWorkspace,
        {[Button("addMember", {"workspaces"}) EXCEPT !.holds = {"workspaces"}],
         Button("changeRole", ofWorkspace),
         [Confirm("removeMember", ofWorkspace) EXCEPT !.closes = {"click"},
                                                      !.blocked = FALSE]})
   EXCEPT !.retries = {"members"}]

GitCredentialSettings ==
  View({"workspaces", "credentials"},
       {Form("createCredential", {"workspaces", "credentials"}),
        Confirm("deleteCredential", {"workspaces", "credentials"})})

AiAccountForm ==
  LET account == {"workspaces", "account"} IN
  {Button("saveAccount", account),
   [Confirm("deleteAccount", account) EXCEPT !.holds = {"account"}]}

AiAccountSettings == View({"workspaces", "account"}, AiAccountForm)

ElementRow == Form("updateElement", {"pages"})

PagesView == View({"pages"}, {Form("inspectPage", {"pages"}), ElementRow})

TestManagementView ==
  [View({"workspaces", "binding", "tests"},
        {[Button("connect", {"workspaces", "binding"}) EXCEPT !.lacks = {"binding"}],
         [Button("unbind", {"workspaces", "binding"}) EXCEPT !.holds = {"binding"}]})
   EXCEPT !.retries = {"binding", "tests"}]

RunsView ==
  [View({"runs", "environments"},
        {[Button("requestRun", {"runs"}) EXCEPT !.unless = {"environments"}]})
   EXCEPT !.retries = {"runs"}]

(* A cell that failed is run again by a run of its own, which is shown.    *)
RunItemRow == [Button("requestRun", {"run"}) EXCEPT !.lacks = {"run"}, !.goes = "run"]

(* The reading of a failed cell; a read of it that failed leaves a button  *)
(* that asks for an analysis.                                              *)
FailureAnalysisPanel == [Button("analyse", {"run"}) EXCEPT !.lacks = {"run"}]

RunDetailView ==
  [View({"run", "analysis"},
        {[Button("cancelRun", {"run"}) EXCEPT !.holds = {"run"}],
         RunItemRow, FailureAnalysisPanel})
   EXCEPT !.retries = {"run"}]

Views ==
  [dashboard |-> DashboardView, projects |-> ProjectsView,
   cases |-> ProjectShell(TestCasesView), case |-> TestCaseEditorView,
   environments |-> ProjectShell(EnvironmentsView), members |-> Members,
   credentials |-> GitCredentialSettings, account |-> AiAccountSettings,
   pages |-> ProjectShell(PagesView), xray |-> ProjectShell(TestManagementView),
   runs |-> ProjectShell(RunsView), run |-> RunDetailView]

ASSUME StartsAssumption == \A start \in Starts : start[1] \in DOMAIN Views

-------------------------------------------------------------------------------
(* A resource holds what its readers ask for, in a cache or on the API:    *)
(* there is a workspace, a bound repository, a run that is still going.    *)
Has(r, ch) == <<r, ch[r].data>> \in marks
HasNow(r) == <<r, server[r]>> \in marks

Known(r) == cache[r].data # NoData /\ ~cache[r].failed

(* Queries that wait for another one: a workspace's lists for the          *)
(* workspace, the bound tests for the binding, an analysis for a failure.  *)
Enabled(r, ch) ==
  CASE r \in {"projects", "members", "credentials", "account"} -> Has("workspaces", ch)
    [] r = "tests" -> Has("binding", ch)
    [] r = "analysis" -> ch["run"].data # NoData /\ ~Has("run", ch)
    [] OTHER -> TRUE

Shown(p, d, ch) ==
  {r \in Views[p].reads \cup (IF d = Closed THEN {} ELSE Views[p].inDialog) :
     Enabled(r, ch)}

(* The cache ch once screen p with dialog d is what is shown.  The readers *)
(* of the entries in renewed are gone, or are new ones.                    *)
Show(p, d, ch, renewed) ==
  LET before == Shown(page, dialog, cache)
      after == Shown(p, d, ch)
      left == [r \in Resources |->
                 IF r \in before \ (after \ renewed) THEN Unmounted(ch[r]) ELSE ch[r]]
  IN  [r \in Resources |->
         IF r \in after \ (before \ renewed) THEN Mounted(left[r]) ELSE left[r]]

Displays(p, d, ch, renewed) ==
  /\ page' = p
  /\ dialog' = d
  /\ cache' = Show(p, d, ch, renewed)

Offered(c) ==
  /\ \A r \in c.needs : Known(r)
  /\ \A r \in c.holds : Has(r, cache)
  /\ \A r \in c.lacks : Known(r) /\ ~Has(r, cache)
  /\ \A r \in c.unless : cache[r].data = NoData \/ Has(r, cache)

Pending(c) ==
  \E s \in sent : s.bound /\ s.write \in {c.write, Writes[c.write].then}

(* Thirty seconds after it was read an entry is no longer fresh, which     *)
(* matters when the next screen or dialog starts to read it.               *)
Aged(ch, old) == [r \in Resources |-> [ch[r] EXCEPT !.stale = @ \/ r \in old]]

Fresh(reads) == {r \in reads : cache[r].data # NoData /\ ~cache[r].stale}

-------------------------------------------------------------------------------
(* Going to another screen ends what belonged to the one that is left: its *)
(* reads are aborted, and nobody waits for its requests any more.          *)
Unbound(these) == {[s EXCEPT !.bound = FALSE] : s \in these}

Go(p) ==
  /\ counts.moved < MaxVisits
  /\ <<page, p>> \in Links
  /\ counts' = [counts EXCEPT !.moved = @ + 1]
  /\ \E old \in SUBSET Fresh(Views[p].reads) :
       Displays(p, Closed, Aged(cache, old), Resources)
  /\ sent' = Unbound(sent)
  /\ UNCHANGED <<server, marks, clock, acked>>

OpenDialog(c) ==
  /\ c.inDialog /\ Offered(c)
  /\ dialog = Closed
  /\ \E old \in SUBSET Fresh(Views[page].inDialog) :
       Displays(page, c.write, Aged(cache, old), {})
  /\ UNCHANGED <<sent, server, marks, clock, acked, counts>>

Dismiss ==
  /\ dialog # Closed
  /\ LET inside == {c.write : c \in {c \in Views[page].controls : c.inside}}
         gone == {s \in sent : s.write = dialog /\ s.write \in inside}
     IN  sent' = (sent \ gone) \cup Unbound(gone)
  /\ Displays(page, Closed, cache, {})
  /\ UNCHANGED <<server, marks, clock, acked, counts>>

(* mutate(): what its caller wants to hear of an earlier call of the same  *)
(* hook is not told any more.                                              *)
Press(c) ==
  /\ counts.sent < MaxSent
  /\ Offered(c)
  /\ c.inDialog => dialog = c.write
  /\ c.blocked => ~Pending(c)
  /\ LET earlier == {s \in sent : s.write = c.write}
         call == [write |-> c.write, id |-> counts.sent, bound |-> TRUE, stage |-> "out",
                  closes |-> c.closes, goes |-> c.goes, version |-> 0]
     IN  sent' = (sent \ earlier) \cup Unbound(earlier) \cup {call}
  /\ counts' = [counts EXCEPT !.sent = @ + 1]
  /\ Displays(page, IF "click" \in c.closes THEN Closed ELSE dialog, cache, {})
  /\ UNCHANGED <<server, marks, clock, acked>>

-------------------------------------------------------------------------------
(* The API serves a request; one it refuses changes nothing.               *)

Accepts(w) ==
  CASE w = "cancelRun" -> HasNow("run")
    [] w = "requestRun" -> HasNow("environments")
    [] w = "unbind" -> HasNow("binding")
    [] OTHER -> TRUE

(* What a write that touches, gives and ends these leaves on the API.      *)
Changes(w) ==
  LET new == clock + 1
      holding == {r \in Resources : HasNow(r)}
  IN  /\ clock' = new
      /\ server' = [r \in Resources |-> IF r \in w.touches THEN new ELSE server[r]]
      /\ marks' = marks \cup {<<r, new>> :
                    r \in w.touches \cap ((holding \cup w.gives) \ w.ends)}

Serve(s) ==
  /\ s.stage = "out" /\ Accepts(s.write)
  /\ Changes(Writes[s.write])
  /\ sent' = (sent \ {s}) \cup {[s EXCEPT !.stage = "done", !.version = clock + 1]}
  /\ UNCHANGED <<page, dialog, cache, acked, counts>>

(* The hook's onSuccess, in the order it makes its calls.                  *)
Cached(w, version, shown) ==
  [r \in Resources |->
     IF r \in w.sets THEN WithData(cache[r], version)
     ELSE IF r \in w.removes THEN Empty
     ELSE IF r \in w.invalidates THEN Invalidated(cache[r], r \in shown)
     ELSE cache[r]]

(* Lists a write changes and its hook knows nothing of: a case that is     *)
(* deleted leaves the other features' lists as they were read.             *)
Overlooked(w) == IF w = "deleteCase" THEN {"environments", "runs"} ELSE {}

(* Success.  The call that waits for this one is sent whether or not the   *)
(* screen is still there; the dialog and the next screen are the caller's. *)
Hear(s) ==
  LET w == Writes[s.write]
      told == {r \in (w.touches \cap Lists) \ Overlooked(s.write) : cache[r].data # NoData}
      next == IF s.bound /\ s.goes # Closed THEN s.goes ELSE page
      left == next # page \/ (s.bound /\ "success" \in s.closes /\ dialog = s.write)
      after == IF left THEN Closed ELSE dialog
      followed == IF w.then = Closed THEN {}
                  ELSE {[s EXCEPT !.write = w.then, !.stage = "out", !.version = 0]}
      others == (sent \ {s}) \cup followed
  IN
  /\ s.stage = "done"
  /\ acked' = [r \in Lists |->
                 IF r \in told /\ acked[r] < s.version THEN s.version ELSE acked[r]]
  /\ sent' = IF next # page THEN Unbound(others) ELSE others
  /\ Displays(next, after, Cached(w, s.version, Shown(page, dialog, cache)),
              IF next # page THEN Resources ELSE w.removes)
  /\ UNCHANGED <<server, marks, clock, counts>>

HearRefusal(s) ==
  /\ s.stage = "out"
  /\ sent' = sent \ {s}
  /\ Displays(page, IF s.bound /\ "failure" \in s.closes /\ dialog = s.write
                    THEN Closed ELSE dialog, cache, {})
  /\ UNCHANGED <<server, marks, clock, acked, counts>>

-------------------------------------------------------------------------------
(* Reads.                                                                  *)

ReadStep(ch) ==
  /\ Displays(page, dialog, ch, {})
  /\ UNCHANGED <<sent, server, marks, clock, acked, counts>>

AnswerRead(r) ==
  /\ cache[r].asked = Going
  /\ ReadStep([cache EXCEPT ![r].asked = server[r]])

HearRead(r) ==
  /\ cache[r].asked \notin {Idle, Going}
  /\ ReadStep([cache EXCEPT ![r] = Answered(@)])

FailRead(r) ==
  /\ r \in Failing
  /\ cache[r].asked = Going
  /\ counts.failed < MaxFails
  /\ counts' = [counts EXCEPT !.failed = @ + 1]
  /\ Displays(page, dialog, [cache EXCEPT ![r] = ReadFailed(@)], {})
  /\ UNCHANGED <<sent, server, marks, clock, acked>>

(* "Try again", where the screen puts it in place of what failed.          *)
Retry(r) ==
  /\ r \in Views[page].retries \cap Shown(page, dialog, cache)
  /\ cache[r].failed /\ cache[r].asked = Idle
  /\ ReadStep([cache EXCEPT ![r] = Fetching(@)])

(* Faulty: a poll that failed once is the last one. *)
PollUnlessFailed(r) ==
  /\ r \in {"runs", "run"} \cap Shown(page, dialog, cache)
  /\ cache[r].asked = Idle
  /\ Has(r, cache) /\ ~cache[r].failed
  /\ ReadStep([cache EXCEPT ![r] = Fetching(@)])

(* refetchInterval: every three seconds for as long as what was last read is *)
(* in flight, whether or not the read after it failed.                     *)
Poll(r) ==
  /\ r \in {"runs", "run"} \cap Shown(page, dialog, cache)
  /\ cache[r].asked = Idle
  /\ Has(r, cache)
  /\ ReadStep([cache EXCEPT ![r] = Fetching(@)])

(* The executor ends the run, and no one is told.                          *)
RunEnds ==
  /\ HasNow("run")
  /\ Changes([Nothing EXCEPT !.touches = {"runs", "run"}, !.ends = {"runs", "run"}])
  /\ UNCHANGED <<page, dialog, cache, sent, acked, counts>>

-------------------------------------------------------------------------------
(* Screens that are there without a project.                               *)
InWorkspace == {"dashboard", "projects", "members", "credentials", "account"}

Loaded == [Empty EXCEPT !.data = 1, !.stale = FALSE]

(* The first screen has been read; nothing else is cached.                 *)
Init ==
  /\ \E start \in Starts : page = start[1] /\ marks = start[2] \X {1}
  /\ dialog = Closed
  /\ server = [r \in Resources |-> 1]
  /\ cache = [r \in Resources |->
                IF r \in Views[page].reads /\ Enabled(r, [x \in Resources |-> Loaded])
                THEN Loaded ELSE Empty]
  /\ sent = {}
  /\ clock = 1
  /\ acked = [r \in Lists |-> 0]
  /\ counts = [moved |-> 0, sent |-> 0, failed |-> 0]

Uses ==
  \/ \E p \in DOMAIN Views : (p \in InWorkspace \/ HasNow("workspaces")) /\ Go(p)
  \/ \E c \in Views[page].controls : OpenDialog(c) \/ Press(c)
  \/ Dismiss
  \/ \E r \in Resources : Retry(r)

Answers ==
  \/ \E s \in sent : Serve(s) \/ Hear(s) \/ HearRefusal(s)
  \/ \E r \in Resources : AnswerRead(r) \/ FailRead(r) \/ HearRead(r)

Passes == RunEnds \/ \E r \in Resources : Poll(r)

Next == Uses \/ Answers \/ Passes

Spec == Init /\ [][Next]_vars

(* The timer of a poll fires, the API answers and the answer arrives.      *)
Polls(r) == Poll(r) \/ AnswerRead(r) \/ HearRead(r)

Fairness == WF_vars(Polls("runs")) /\ WF_vars(Polls("run"))

FairSpec == Spec /\ Fairness

-------------------------------------------------------------------------------
Versions == 0 .. (3 * MaxSent + 2)

(* Every variable keeps its shape; the cache never shows a version the API *)
(* did not have, and no read is under way for something no screen shows    *)
(* (hooks pass their signal on: runs.ts:33-52, projects.ts:23-49).         *)
TypeOK ==
  /\ page \in DOMAIN Views
  /\ dialog \in {Closed} \cup DOMAIN Writes
  /\ cache \in [Resources -> Entries(Versions)]
  /\ \A s \in sent : s.write \in DOMAIN Writes /\ s.stage \in {"out", "done"}
  /\ server \in [Resources -> Versions]
  /\ acked \in [Lists -> Versions]
  /\ \A r \in Resources : cache[r].data <= server[r]
  /\ {r \in Resources : cache[r].asked # Idle} \subseteq Shown(page, dialog, cache)

(* A list that is on screen and is not being read shows every change this  *)
(* tab made and was told has been made: each mutation hook invalidates the *)
(* lists its write changes, whatever reads were under way, on whichever    *)
(* screen its answer arrives (projects.ts:51-83, environments.ts:30-63,    *)
(* members.ts:46-71, runs.ts:55-76, test-management.ts:77-98).             *)
ListsShowOwnWrites ==
  \A r \in Lists \cap Shown(page, dialog, cache) :
    LET e == cache[r] IN
    e.data # NoData /\ e.asked = Idle /\ ~e.failed => e.data >= acked[r]

(* A run that has ended does not stay "running" on the screen that follows *)
(* it: the poll goes on as long as what was read last is in flight, also   *)
(* after a poll that failed (runs.ts:29-52).                               *)
Follows(r) == r \in Shown(page, dialog, cache) /\ Has(r, cache)

EndIsShown ==
  \A r \in {"runs", "run"} : (Follows(r) /\ ~HasNow(r)) ~> (~Follows(r) \/ HasNow(r))
===============================================================================
