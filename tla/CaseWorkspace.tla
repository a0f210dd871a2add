--------------------------- MODULE CaseWorkspace ---------------------------
(***************************************************************************)
(* The automation workspace of one external test: it is imported as a test *)
(* case, modelled, projected into files, and a person reviews, corrects    *)
(* and applies the proposal (apps/web, external-test-workspace.tsx and     *)
(* code-proposal-panel.tsx, with the query cache between them and the      *)
(* API).  The review panel lives on one tab: leaving it forgets what was   *)
(* typed and which of its calls were under way, but not the calls.         *)
(*                                                                         *)
(* The API's side of an operation reads first and stores at the end, and   *)
(* other people work on the same case in between.  A test case is the      *)
(* number of its manual steps, a Test Model the manual steps each of its   *)
(* steps came from.                                                        *)
(***************************************************************************)
EXTENDS FileDiff

CONSTANTS
  Paths,        \* files a proposal can hold
  Projections,  \* what the runner can project: functions from paths to files
  Corrections,  \* bodies a reviewer can type, and a repair can hold
  Documents,    \* Test Models: functions from step ids to sets of positions
  MaxSteps,     \* bound: manual steps of the case
  Absent,       \* a file that is not in the repository
  None,         \* the API's "there is none"
  Nothing,      \* a cache entry with no data
  MaxGens,      \* bound: proposals ever stored
  MaxCalls,     \* bound: calls this workspace makes
  MaxEvents     \* bound: things other people do, and answers that are lost

VARIABLES
  case,     \* the test case at the API, or None before it is imported
  models,   \* its Test Model versions, oldest first
  gens,     \* its code proposals, oldest first
  repo,     \* the files in the repository's working copy
  commits,  \* what applying a proposal has committed
  cache,    \* what the workspace last received, per read
  request,  \* its request in flight, per read
  errored,  \* reads whose last answer was a failure
  rail,     \* the tab that is open
  edits,    \* corrections typed, by path
  calls,    \* calls made, in order
  events    \* things other people have done, and answers lost

server == <<case, models, gens, repo, commits>>
reads  == <<cache, request, errored>>
vars   == <<server, reads, rail, edits, calls, events>>

Keys  == {"case", "model", "proposal"}
PanelKinds == {"generate", "apply", "reject"}
Kinds      == {"import", "model"} \cup PanelKinds

Bodies == Corrections \cup UNION {{f[p] : p \in DOMAIN f} : f \in Projections}
FileMaps == UNION {[S -> Bodies] : S \in SUBSET Paths}
CaseRecords == [steps : 0 .. MaxSteps, status : {"NOT_AUTOMATED", "MODELLED", "COMMITTED"}]

ASSUME WorkspaceAssumption ==
  /\ MaxSteps \in Nat
  /\ Projections \subseteq FileMaps
  /\ \A body \in Bodies : IsFile(body)
  /\ None \notin CaseRecords /\ Nothing \notin Kinds

-----------------------------------------------------------------------------
(* What the API holds and answers. *)

Stored(version, files) == [model |-> version, files |-> files, status |-> "PROPOSED"]

Imported == case # None

(* Every manual step with the model steps that name it. *)
Coverage(document, steps) ==
  [at \in 1 .. steps |-> {id \in DOMAIN document : at \in document[id]}]

ModelView(n) == [version |-> n, document |-> models[n],
                 coverage |-> Coverage(models[n], case.steps)]

Live == {g \in DOMAIN gens : gens[g].status = "PROPOSED"}

FileStatus(previous, contents) ==
  CASE previous = Absent   -> "NEW"
    [] previous = contents -> "UNCHANGED"
    [] OTHER               -> "MODIFIED"

Described(path, contents) ==
  [status |-> FileStatus(repo[path], contents), contents |-> contents,
   previous |-> repo[path]]

ProposalView(g, version) ==
  [id |-> g, modelVersion |-> version,
   files |-> [p \in DOMAIN gens[g].files |-> Described(p, gens[g].files[p])]]

NewestLive == CHOOSE g \in Live : \A h \in Live : h <= g

Answer(k) ==
  CASE k = "case"     -> case
    [] k = "model"    -> IF models = <<>> THEN None ELSE ModelView(Len(models))
    [] k = "proposal" -> IF Live = {} \/ models = <<>> THEN None
                         ELSE ProposalView(NewestLive, Len(models))

-----------------------------------------------------------------------------
(* What the workspace shows. *)

Has(k) == cache[k] \notin {Nothing, None}

HasCase  == Has("case")
HasModel == HasCase /\ Has("model")

(* A case that cannot be read takes the whole workspace's place. *)
Shown == cache["case"] # Nothing /\ "case" \notin errored

(* Which reads the mounted components watch. *)
Watches(k, tab, hasCase) ==
  CASE k = "case"     -> TRUE
    [] k = "model"    -> hasCase
    [] k = "proposal" -> hasCase /\ tab = "script"

Watching == {k \in Keys : Watches(k, rail, HasCase)}

PanelOpen == Shown /\ rail = "script"

(* A proposal is on screen: the case is modelled and its read did not fail. *)
Reviewing == PanelOpen /\ HasModel /\ Has("proposal") /\ "proposal" \notin errored

(* Faulty: the corrections are kept but the stored bodies are listed. *)
NotOverlaid == cache["proposal"].files

(* The files as they would be committed: the corrections laid over them. *)
Files == [p \in DOMAIN cache["proposal"].files |->
            IF p \in DOMAIN edits
            THEN [cache["proposal"].files[p] EXCEPT !.contents = edits[p].contents,
                                                    !.status = "MODIFIED"]
            ELSE cache["proposal"].files[p]]

PreviousOf(file) == IF file.previous = Absent THEN <<>> ELSE file.previous

ManualSteps == 1 .. (IF HasCase THEN cache["case"].steps ELSE MaxSteps)

ModelSteps == IF HasModel THEN DOMAIN cache["model"].document ELSE {}

(* The dot beside a manual step is filled from the API's coverage. *)
Dotted(at) == /\ at \in DOMAIN cache["model"].coverage
              /\ cache["model"].coverage[at] # {}

(* Faulty: a model step is listed under the step after the one it names. *)
DerivedFromNext(at) ==
  {id \in ModelSteps : at + 1 \in cache["model"].document[id]}

(* The stage lists the model steps whose own sources name the manual step. *)
Derived(at) == {id \in ModelSteps : at \in cache["model"].document[id]}

Busy(kind) == \E n \in DOMAIN calls : calls[n].kind = kind /\ calls[n].heard

-----------------------------------------------------------------------------
(* The query cache. *)

Idle == [phase |-> "none", data |-> Nothing]
Asked == [phase |-> "asked", data |-> Nothing]

(* A read that begins to be watched is made when there is nothing to show   *)
(* or it failed, and may be when the data has grown old (30 s).             *)
Mount(keys, old) ==
  request' = [k \in Keys |->
    IF /\ k \in keys /\ request[k] = Idle
       /\ cache[k] = Nothing \/ k \in errored \cup old
    THEN Asked ELSE request[k]]

(* The spec is in whatever the case is projected into. *)
SpecPaths == {p \in Paths : \A f \in Projections : p \in DOMAIN f}

(* The workspace is opened on a test nobody imported, on a case that is     *)
(* modelled already, or on one whose first proposal, a spec alone, was      *)
(* applied.                                                                 *)
Init ==
  /\ \/ case = None /\ models = <<>> /\ gens = <<>>
     \/ /\ case = [steps |-> MaxSteps, status |-> "MODELLED"]
        /\ models \in {<<d>> : d \in Documents}
        /\ gens = <<>>
     \/ /\ case = [steps |-> MaxSteps, status |-> "COMMITTED"]
        /\ models \in {<<d>> : d \in Documents}
        /\ gens \in {<<[Stored(1, f) EXCEPT !.status = "APPLIED"]>>  :
                     f \in {g \in Projections : DOMAIN g = SpecPaths}}
  /\ repo = [p \in Paths |-> IF gens # <<>> /\ p \in DOMAIN gens[1].files
                             THEN gens[1].files[p] ELSE Absent]
  /\ commits = <<>>
  /\ cache = [k \in Keys |-> Nothing]
  /\ request = [k \in Keys |-> IF k = "case" THEN Asked ELSE Idle]
  /\ errored = {}
  /\ rail = "case"
  /\ edits = <<>>
  /\ calls = <<>>
  /\ events = 0

ReadRuns(k) ==
  /\ request[k] = Asked
  /\ request' = [request EXCEPT ![k] = [phase |-> "answered", data |-> Answer(k)]]
  /\ UNCHANGED <<server, cache, errored, rail, edits, calls,
                 events>>

(* When the case appears, the reads that hang on it are made. *)
Newly(data, k) ==
  {j \in Keys \ Watching : k = "case" /\ Watches(j, rail, data # None)}

ReadArrives(k) ==
  /\ request[k].phase = "answered"
  /\ cache' = [cache EXCEPT ![k] = request[k].data]
  /\ request' = [j \in Keys |->
       IF j = k THEN Idle
       ELSE IF j \in Newly(request[k].data, k) /\ request[j] = Idle THEN Asked
       ELSE request[j]]
  /\ errored' = errored \ {k}
  /\ UNCHANGED <<server, rail, edits, calls, events>>

(* Three attempts failed. *)
ReadFails(k) ==
  /\ request[k] # Idle
  /\ events < MaxEvents
  /\ events' = events + 1
  /\ request' = [request EXCEPT ![k] = Idle]
  /\ errored' = errored \cup {k}
  /\ UNCHANGED <<server, cache, rail, edits, calls>>

(* Only the case and the proposal have a button that asks again. *)
Retry(k) ==
  /\ k \in {"case", "proposal"} \cap errored \cap Watching
  /\ k = "proposal" => PanelOpen /\ HasModel
  /\ request[k] = Idle
  /\ request' = [request EXCEPT ![k] = Asked]
  /\ UNCHANGED <<server, cache, errored, rail, edits, calls,
                 events>>

-----------------------------------------------------------------------------
(* Moving around. *)

(* Leaving the review tab unmounts the panel. *)
Forget(tab) ==
  IF rail = "script" /\ tab # "script"
  THEN /\ edits' = <<>>
       /\ calls' = [n \in DOMAIN calls |->
                      IF calls[n].kind \in PanelKinds
                      THEN [calls[n] EXCEPT !.heard = FALSE] ELSE calls[n]]
  ELSE UNCHANGED <<edits, calls>>

(* By its own trigger, or by a link from a manual step to a model step it   *)
(* led to, or back.                                                         *)
OpenTab(tab) ==
  /\ Shown /\ tab # rail
  /\ rail' = tab
  /\ \E old \in SUBSET {"proposal"} :
       Mount({k \in Keys : Watches(k, tab, HasCase)} \ Watching, old)
  /\ Forget(tab)
  /\ UNCHANGED <<server, cache, errored, events>>

-----------------------------------------------------------------------------
(* The controls. *)

Call(kind, input, phase) ==
  [kind |-> kind, input |-> input, phase |-> phase, read |-> Nothing,
   ok |-> FALSE, says |-> Nothing, heard |-> TRUE]

Finished == Call(Nothing, Nothing, "done")

Send(kind, input) ==
  /\ Len(calls) < MaxCalls
  /\ calls' = Append(calls, Call(kind, input, "sent"))
  /\ UNCHANGED <<server, reads, rail, edits, events>>

PrepareAutomation == /\ Shown /\ ~HasCase /\ ~Busy("import")
                     /\ Send("import", Nothing)

RunModelling == /\ Shown /\ HasCase /\ ~Busy("model")
                /\ Send("model", Nothing)

RunGeneration ==
  /\ PanelOpen /\ HasModel
  /\ cache["proposal"] # Nothing /\ "proposal" \notin errored
  /\ ~Busy("generate")
  /\ Send("generate", Nothing)

(* Every correction travels, with the push switch as it stands; what was on *)
(* screen is noted.                                                         *)
ApplyProposal(push) ==
  /\ Reviewing /\ ~Busy("apply")
  /\ Send("apply", [id |-> cache["proposal"].id, push |-> push,
                    edits |-> [p \in DOMAIN edits |-> edits[p].contents],
                    shown |-> [p \in DOMAIN Files |-> Files[p].contents]])

RejectProposal ==
  /\ Reviewing /\ ~Busy("reject")
  /\ Send("reject", [id |-> cache["proposal"].id])

(* Any listed file can be picked and edited; which proposal was on screen   *)
(* when it was is noted.                                                    *)
EditFile(p, contents) ==
  /\ Reviewing /\ p \in DOMAIN Files
  /\ edits' = [q \in DOMAIN edits \cup {p} |->
                 IF q = p THEN [contents |-> contents, typedOn |-> cache["proposal"].id]
                 ELSE edits[q]]
  /\ UNCHANGED <<server, reads, rail, calls, events>>

(* Faulty: the correction is emptied, not taken away. *)
RevertsToNothing(p) ==
  /\ Reviewing /\ p \in DOMAIN Files \cap DOMAIN edits
  /\ edits' = [edits EXCEPT ![p].contents = Absent]
  /\ UNCHANGED <<server, reads, rail, calls, events>>

RevertEdit(p) ==
  /\ Reviewing /\ p \in DOMAIN Files \cap DOMAIN edits
  /\ edits' = [q \in DOMAIN edits \ {p} |-> edits[q]]
  /\ UNCHANGED <<server, reads, rail, calls, events>>

-----------------------------------------------------------------------------
(* The API handles the calls. *)

At(n, kind, phase) ==
  n \in DOMAIN calls /\ calls[n].kind = kind /\ calls[n].phase = phase

Ends(n, ok, says) ==
  calls' = [calls EXCEPT ![n].phase = "answered", ![n].ok = ok, ![n].says = says]

Reads(n, read) == calls' = [calls EXCEPT ![n].phase = "begun", ![n].read = read]

Refused(n) == Ends(n, FALSE, Nothing) /\ UNCHANGED server

workspace == <<reads, rail, edits, events>>

(* A test that was imported already is answered as it is. *)
ImportRuns(n) ==
  /\ At(n, "import", "sent")
  /\ case' = IF Imported THEN case ELSE [steps |-> MaxSteps, status |-> "NOT_AUTOMATED"]
  /\ Ends(n, TRUE, case')
  /\ UNCHANGED <<models, gens, repo, commits, workspace>>

(* A case with no steps is refused before the model is asked. *)
ModelBegins(n) ==
  /\ At(n, "model", "sent")
  /\ IF case.steps = 0 THEN Refused(n) ELSE Reads(n, case.steps) /\ UNCHANGED server
  /\ UNCHANGED workspace

Modelled(d) ==
  /\ models' = Append(models, d)
  /\ case' = [case EXCEPT !.status = IF @ = "NOT_AUTOMATED" THEN "MODELLED" ELSE @]
  /\ UNCHANGED <<gens, repo, commits>>

(* The AI answers with a model, with questions, or with nothing usable. *)
ModelEnds(n) ==
  /\ At(n, "model", "begun")
  /\ \/ \E d \in Documents :
          /\ Modelled(d)
          /\ Ends(n, TRUE, [version |-> Len(models'), document |-> d,
                            coverage |-> Coverage(d, case.steps)])
     \/ Refused(n)
  /\ UNCHANGED workspace

(* The model is read before the runner is asked. *)
GenerateBegins(n) ==
  /\ At(n, "generate", "sent")
  /\ Reads(n, Len(models))
  /\ UNCHANGED <<server, workspace>>

(* store also marks what was live as superseded, but called from its own    *)
(* class it runs in no transaction and the marks are not written: the newer *)
(* proposal only stands before the others.                                  *)
Proposes(version, files) == gens' = Append(gens, Stored(version, files))

GenerateEnds(n) ==
  /\ At(n, "generate", "begun")
  /\ \/ /\ Len(gens) < MaxGens
        /\ \E f \in Projections :
             /\ Proposes(calls[n].read, f)
             /\ Ends(n, TRUE, [id |-> Len(gens'), modelVersion |-> calls[n].read,
                               files |-> [p \in DOMAIN f |-> Described(p, f[p])]])
        /\ UNCHANGED <<case, models, repo, commits>>
     \/ Refused(n)
  /\ UNCHANGED workspace

(* The bodies to write; the paths were checked. *)
WithEdits(files, corrections) ==
  [p \in DOMAIN files |-> IF p \in DOMAIN corrections THEN corrections[p] ELSE files[p]]

(* A decided proposal is refused, and a path that is not among its files. *)
ApplyBegins(n) ==
  /\ At(n, "apply", "sent")
  /\ LET c == calls[n].input IN
     IF /\ gens[c.id].status = "PROPOSED"
        /\ DOMAIN c.edits \subseteq DOMAIN gens[c.id].files
     THEN Reads(n, WithEdits(gens[c.id].files, c.edits)) /\ UNCHANGED server
     ELSE Refused(n)
  /\ UNCHANGED workspace

(* The files are written and committed.  A commit that changes nothing is   *)
(* refused, and a push that is refused leaves the commit but no decision.   *)
ApplyEnds(n) ==
  /\ At(n, "apply", "begun")
  /\ LET c == calls[n].input
         body == calls[n].read
     IN  IF \A p \in DOMAIN body : repo[p] = body[p] THEN Refused(n)
         ELSE /\ repo' = [p \in Paths |-> IF p \in DOMAIN body THEN body[p] ELSE repo[p]]
              /\ \E pushed \in {c.push, FALSE} :
                   /\ commits' = Append(commits, [body |-> body, shown |-> c.shown,
                                              pushed |-> pushed, asked |-> c.push])
                   /\ IF pushed = c.push
                      THEN /\ gens' = [gens EXCEPT ![c.id].status = "APPLIED"]
                           /\ case' = [case EXCEPT !.status = "COMMITTED"]
                           /\ Ends(n, TRUE, Nothing)
                      ELSE /\ Ends(n, FALSE, Nothing)
                           /\ UNCHANGED <<gens, case>>
              /\ UNCHANGED models
  /\ UNCHANGED workspace

RejectRuns(n) ==
  /\ At(n, "reject", "sent")
  /\ IF gens[calls[n].input.id].status = "PROPOSED"
     THEN /\ gens' = [gens EXCEPT ![calls[n].input.id].status = "REJECTED"]
          /\ Ends(n, TRUE, Nothing)
          /\ UNCHANGED <<case, models, repo, commits>>
     ELSE Refused(n)
  /\ UNCHANGED workspace

-----------------------------------------------------------------------------
(* The answers arrive. *)

Done(n) == [calls EXCEPT ![n] = Finished]

(* setQueryData: shown at once; a fetch on its way still lands later. *)
Put(k, data) ==
  /\ cache' = [cache EXCEPT ![k] = data]
  /\ errored' = errored \ {k}

CallFails(n) ==
  /\ n \in DOMAIN calls /\ calls[n].phase = "answered" /\ ~calls[n].ok
  /\ calls' = Done(n)
  /\ UNCHANGED <<server, reads, rail, edits, events>>

(* Whatever the API did, the workspace is told that the call failed. *)
CallLost(n) ==
  /\ n \in DOMAIN calls /\ calls[n].phase = "answered"
  /\ events < MaxEvents
  /\ events' = events + 1
  /\ calls' = Done(n)
  /\ UNCHANGED <<server, reads, rail, edits>>

Succeeds(n, kind) == At(n, kind, "answered") /\ calls[n].ok

ImportAnswered(n) ==
  /\ Succeeds(n, "import")
  /\ Put("case", calls[n].says)
  /\ request' = [k \in Keys |->
       IF k \in Newly(calls[n].says, "case") /\ request[k] = Idle THEN Asked ELSE request[k]]
  /\ calls' = Done(n)
  /\ UNCHANGED <<server, rail, edits, events>>

(* The model tab opens.  The imported case, which moved to MODELLED, is not *)
(* read again.                                                              *)
ModelAnswered(n) ==
  /\ Succeeds(n, "model")
  /\ Put("model", calls[n].says)
  /\ rail' = "model"
  /\ IF rail = "script"
     THEN /\ edits' = <<>>
          /\ calls' = [m \in DOMAIN calls |->
                [Done(n)[m] EXCEPT !.heard = @ /\ Done(n)[m].kind \notin PanelKinds]]
     ELSE calls' = Done(n) /\ UNCHANGED edits
  /\ UNCHANGED <<server, request, events>>

(* The corrections belonged to the proposal this one stands before: the     *)
(* panel that asked forgets them.                                           *)
GenerateAnswered(n) ==
  /\ Succeeds(n, "generate")
  /\ Put("proposal", calls[n].says)
  /\ edits' = IF calls[n].heard THEN <<>> ELSE edits
  /\ calls' = Done(n)
  /\ UNCHANGED <<server, request, rail, events>>

DecisionAnswered(n) ==
  /\ Succeeds(n, "apply") \/ Succeeds(n, "reject")
  /\ Put("proposal", None)
  /\ calls' = Done(n)
  /\ UNCHANGED <<server, request, rail, edits, events>>

-----------------------------------------------------------------------------
(* Other people. *)

SomebodyActs == /\ events < MaxEvents
                /\ events' = events + 1
                /\ UNCHANGED <<reads, rail, edits, calls>>

EditCase(steps) ==
  /\ Imported /\ steps # case.steps
  /\ case' = [case EXCEPT !.steps = steps]
  /\ UNCHANGED <<models, gens, repo, commits>>
  /\ SomebodyActs

Remodel(d) == Imported /\ Modelled(d) /\ SomebodyActs

(* Another reviewer's generation. *)
Regenerate(f) ==
  /\ models # <<>> /\ Len(gens) < MaxGens
  /\ Proposes(Len(models), f)
  /\ UNCHANGED <<case, models, repo, commits>>
  /\ SomebodyActs

(* A patch of the committed spec, of no version of the model.  storeRepair  *)
(* is called through the proxy: its marks are written.                      *)
Repair(p, c) ==
  /\ Imported /\ case.status = "COMMITTED" /\ Len(gens) < MaxGens
  /\ repo[p] \notin {Absent, c}
  /\ gens' = Append([g \in DOMAIN gens |->
                       IF g \in Live THEN [gens[g] EXCEPT !.status = "SUPERSEDED"]
                       ELSE gens[g]],
                    Stored(0, [q \in {p} |-> c]))
  /\ UNCHANGED <<case, models, repo, commits>>
  /\ SomebodyActs

Next ==
  \/ \E k \in Keys : ReadRuns(k) \/ ReadArrives(k) \/ ReadFails(k) \/ Retry(k)
  \/ \E tab \in {"case", "model", "script"} : OpenTab(tab)
  \/ PrepareAutomation \/ RunModelling \/ RunGeneration
  \/ (\E push \in BOOLEAN : ApplyProposal(push)) \/ RejectProposal
  \/ \E p \in Paths : (\E c \in Corrections : EditFile(p, c)) \/ RevertEdit(p)
  \/ \E n \in 1 .. MaxCalls :
       \/ ImportRuns(n) \/ ModelBegins(n) \/ ModelEnds(n)
       \/ GenerateBegins(n) \/ GenerateEnds(n)
       \/ ApplyBegins(n) \/ ApplyEnds(n) \/ RejectRuns(n)
       \/ CallFails(n) \/ CallLost(n)
       \/ ImportAnswered(n) \/ ModelAnswered(n) \/ GenerateAnswered(n)
       \/ DecisionAnswered(n)
  \/ \E s \in 0 .. MaxSteps : EditCase(s)
  \/ \E d \in Documents : Remodel(d)
  \/ \E f \in Projections : Regenerate(f)
  \/ \E p \in SpecPaths, c \in Corrections : Repair(p, c)

Spec == Init /\ [][Next]_vars

-----------------------------------------------------------------------------
(* Properties. *)

(* Every variable has its type, and a call its input. *)
TypeOK ==
  /\ case \in {None} \cup CaseRecords
  /\ \A n \in DOMAIN models : models[n] \in Documents
  /\ \A g \in DOMAIN gens : /\ gens[g].model \in 0 .. Len(models)
                            /\ DOMAIN gens[g].files \subseteq Paths
  /\ repo \in [Paths -> Bodies \cup {Absent}]
  /\ DOMAIN cache = Keys /\ DOMAIN request = Keys
  /\ errored \subseteq Keys /\ DOMAIN edits \subseteq Paths
  /\ \A p \in DOMAIN edits : edits[p].contents \in Corrections
  /\ \A n \in DOMAIN calls : calls[n].kind \in Kinds \cup {Nothing}

(* "The reviewer never sees one version and commits another"                *)
(* (code-proposal-panel.tsx:90-94).  What a click on Apply commits is, file *)
(* by file, what was on screen when it was clicked, and it is pushed only   *)
(* if the switch said so; whoever else generated, repaired or wrote, and    *)
(* whichever proposal the panel still believed to be the live one.          *)
CommitsWhatWasShown ==
  \A m \in DOMAIN commits :
    /\ commits[m].body = commits[m].shown
    /\ commits[m].pushed => commits[m].asked

(* The diff is the only thing most reviewers read (file-diff.tsx:70-121):   *)
(* of every file on screen, corrected or not, both sides can be read off    *)
(* it, and it marks no more lines as changed than it has to.                *)
DiffTellsTheTruth ==
  Reviewing => \A p \in DOMAIN Files :
                 /\ ReadsBothWays(PreviousOf(Files[p]), Files[p].contents)
                 /\ NoneIsLonger(PreviousOf(Files[p]), Files[p].contents)

(* The dot beside a manual step comes from the API's coverage, computed     *)
(* when the model was read, and the list on the canvas from the document:   *)
(* where both speak of a step they agree, whoever has edited the case since *)
(* (external-test-workspace.tsx:108-112, 379-389).                          *)
DotsMatchTheStage ==
  (HasModel /\ Shown) =>
    \A at \in ManualSteps \cap DOMAIN cache["model"].coverage :
      Dotted(at) <=> Derived(at) # {}

(* "Edits belonged to the proposal that was just superseded.  Carrying them *)
(* over would silently paste old corrections into lines that may no longer  *)
(* exist" (code-proposal-panel.tsx:108-109): a correction on screen was     *)
(* typed on the proposal it is laid over.                                   *)
EditsBelongToProposal ==
  Reviewing => \A p \in DOMAIN edits \cap DOMAIN Files :
                 edits[p].typedOn = cache["proposal"].id

(* The version a proposal is shown to come from is "which version of the    *)
(* case's IR this was projected from" (CodeGenerationResponse.java:15).     *)
ShownVersionIsItsSource ==
  Reviewing => cache["proposal"].modelVersion = gens[cache["proposal"].id].model
=============================================================================
