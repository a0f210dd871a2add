-------------------------- MODULE GeneratedProject --------------------------
(***************************************************************************)
(* From an application's pages to a committed test project: pages are       *)
(* inspected, sometimes behind a replayed test case (PageObjectService,     *)
(* inspect/run.ts), a case's model is projected into files (handler.ts,     *)
(* generate.ts, verify.ts) and an accepted proposal is written and          *)
(* committed (CodeGenerationService).                                       *)
(*                                                                         *)
(* Inspections overlap, and so do two cases being applied: each file is     *)
(* written under the project's lock and the commit takes it once more.      *)
(***************************************************************************)
EXTENDS Projection, Inspection

CONSTANTS
  Cases,       \* test cases of one project
  Models,      \* the IRs a case may have
  Pages,       \* the application's pages
  SignIn,      \* the one an anonymous visitor is sent to
  Guarded,     \* those that send one there
  Layout,      \* the document each page ends up with
  Inspectors,  \* inspections under way at once
  Variables,   \* what the environment defines for a prelude
  Corrected,   \* pages whose locators a person overrules (bound)
  MaxProposals \* generations of each case (bound)

ASSUME ProjectAssumption ==
  /\ SignIn \in Pages
  /\ Corrected \subseteq Pages
  /\ MaxProposals \in Nat
  /\ Guarded \subseteq Pages \ {SignIn}
  /\ Layout \in [Pages -> Seq([called : Seq(STRING \cup Nat), named : STRING, visible : BOOLEAN,
                               at : [Strategies -> [is : STRING, traits : SUBSET Traits]]])]

VARIABLES
  engineTypes,  \* whether the runner can type-check what it generates
  model,        \* each case's current IR
  pageObjects,  \* stored page objects: none, or one
  inspector,    \* inspections under way
  proposal,     \* the live or applied proposal of each case
  writer,       \* the paths an apply has still to write
  worktree,     \* the working copy
  head          \* what is committed

vars == <<engineTypes, model, pageObjects, inspector, proposal, writer, worktree, head>>
pageVars == <<pageObjects, inspector>>
repoVars == <<proposal, writer, worktree, head>>

-----------------------------------------------------------------------------

NoFiles == [path \in {} |-> Inert]
NoPages == [p \in {} |-> {}]

Over(new, old) ==
  [path \in DOMAIN new \cup DOMAIN old |->
     IF path \in DOMAIN new THEN new[path] ELSE old[path]]

(* The API sends no flows: payload.put("flows", List.of()).                 *)
NoFlows == [f \in {} |-> 0]

Idle == [pc |-> "idle", page |-> SignIn, prelude |-> "none", reached |-> SignIn, elements |-> <<>>]
NoProposal == [number |-> 0, status |-> "none", files |-> NoFiles, unresolved |-> {}, verified |-> FALSE]

Init ==
  /\ engineTypes \in BOOLEAN
  /\ model \in [Cases -> Models]
  /\ pageObjects = [p \in Pages |-> {}]
  /\ inspector = [i \in Inspectors |-> Idle]
  /\ proposal = [c \in Cases |-> NoProposal]
  /\ writer = [c \in Cases |-> {}]
  /\ worktree = NoFiles
  /\ head = NoFiles

Elements(p) == UNION {{o[i] : i \in DOMAIN o} : o \in pageObjects[p]}
Names(p)    == {e.name : e \in Elements(p)}

(* forGeneration(): the inspected ones among those a model refers to.       *)
ForGeneration(m) ==
  [p \in {q \in TargetPages(m) \cap Pages : pageObjects[q] # {}} |-> Names(p)]

-----------------------------------------------------------------------------
(* Inspection.                                                              *)

(* The request; a prelude is sent with the page objects of that moment,      *)
(* which settle whether its steps can be carried out.                      *)
Replays(m) == RunPrelude(m, ForGeneration(m), Variables, NoFlows)

Inspect(i, p, preludes) ==
  /\ inspector[i].pc = "idle"
  /\ inspector' = [inspector EXCEPT ![i] =
       [Idle EXCEPT !.pc = "sent", !.page = p,
                    !.prelude = IF preludes = {} THEN "none"
                                ELSE IF \A m \in preludes : Replays(m) THEN "replays"
                                ELSE "fails"]]
  /\ UNCHANGED <<engineTypes, model, pageObjects, repoVars>>

GivesUp(i) ==
  /\ inspector' = [inspector EXCEPT ![i] = Idle]
  /\ UNCHANGED <<engineTypes, model, pageObjects, repoVars>>

(* A step that cannot be carried out, a page that will not open, an engine  *)
(* that will not start.                                                    *)
InspectionFails(i) ==
  /\ inspector[i].pc = "sent"
  /\ GivesUp(i)

(* Where the application leaves a visitor.                                  *)
Lands(p, signedIn) ==
  IF p \in Guarded /\ ~signedIn THEN {SignIn}
  ELSE IF p = SignIn /\ signedIn THEN Guarded \cup {SignIn} ELSE {p}

(* The reading: a page that has put up some of its nodes counts as settled, *)
(* and so does one that has put up none when the budget is spent.           *)
ReadPage(i, signedIn, reached, shown) ==
  /\ inspector[i].pc = "sent"
  /\ inspector[i].prelude # "fails"
  /\ signedIn => inspector[i].prelude = "replays"
  /\ reached \in Lands(inspector[i].page, signedIn)
  /\ inspector' = [inspector EXCEPT
       ![i].pc = "read",
       ![i].reached = reached,
       ![i].elements = PlanElements(SubSeq(Layout[reached], 1, shown)).elements]
  /\ UNCHANGED <<engineTypes, model, pageObjects, repoVars>>

(* Faulty: only being sent away from the sign-in page counts.               *)
RedirectedFromSignIn(requested, reached) == requested = SignIn /\ reached # SignIn

Redirected(requested, reached) == requested # reached

(* requireTheRequestedPage() and store(): elements are replaced whole.      *)
RefuseRedirect(i) ==
  /\ inspector[i].pc = "read"
  /\ Redirected(inspector[i].page, inspector[i].reached)
  /\ GivesUp(i)

StorePage(i) ==
  /\ inspector[i].pc = "read"
  /\ ~Redirected(inspector[i].page, inspector[i].reached)
  /\ pageObjects' = [pageObjects EXCEPT ![inspector[i].page] = {inspector[i].elements}]
  /\ inspector' = [inspector EXCEPT ![i] = Idle]
  /\ UNCHANGED <<engineTypes, model, repoVars>>

(* updateElement(): a person overrules a locator.                           *)
ByHand == [strategy |-> "css", value |-> [is |-> "by hand", traits |-> {}], score |-> 1000]

CorrectElement(p, k) ==
  /\ p \in Corrected
  /\ \E o \in pageObjects[p] :
       /\ k \in DOMAIN o
       /\ pageObjects' = [pageObjects EXCEPT ![p] = {[o EXCEPT ![k].locator = ByHand]}]
  /\ UNCHANGED <<engineTypes, model, inspector, repoVars>>

-----------------------------------------------------------------------------
(* Modelling and generating.                                                *)

ReviseModel(c, m) ==
  /\ model' = [model EXCEPT ![c] = m]
  /\ UNCHANGED <<engineTypes, pageVars, repoVars>>

NeedsScaffold == ~({<<"package.json">>, <<"playwright.config.ts">>} \subseteq DOMAIN worktree)

(* runCodegen(): unresolved targets skip the verification, which would only *)
(* repeat them; an objection refuses the generation.                        *)
GenerateProposal(c) ==
  LET pages      == ForGeneration(model[c])
      files      == Generate(c, model[c], pages, NoFlows, NeedsScaffold)
      unresolved == UnresolvedIn(model[c], pages, NoFlows)
      verdict    == VerifyProject(files, engineTypes)
      skipped    == unresolved # {} \/ verdict.skipped
  IN /\ ~Refused(model[c], pages, NoFlows)
     /\ unresolved = {} => verdict.ok
     /\ proposal[c].status # "applying"
     /\ proposal[c].number < MaxProposals
     /\ proposal' = [proposal EXCEPT ![c] =
          [number |-> proposal[c].number + 1, status |-> "proposed", files |-> files, unresolved |-> unresolved,
           verified |-> ~skipped]]
     /\ UNCHANGED <<engineTypes, model, pageVars, writer, worktree, head>>

-----------------------------------------------------------------------------
(* Applying.                                                                *)

Apply(c) ==
  /\ proposal[c].status = "proposed"
  /\ proposal' = [proposal EXCEPT ![c].status = "applying"]
  /\ writer' = [writer EXCEPT ![c] = DOMAIN proposal[c].files]
  /\ UNCHANGED <<engineTypes, model, pageVars, worktree, head>>

(* Each file whole, in a fixed order, under a lock of its own.              *)
WriteFile(c) ==
  /\ writer[c] # {}
  /\ LET path == CHOOSE p \in writer[c] : TRUE IN
     /\ worktree' = Over([p \in {path} |-> proposal[c].files[p]], worktree)
     /\ writer' = [writer EXCEPT ![c] = @ \ {path}]
  /\ UNCHANGED <<engineTypes, model, pageVars, proposal, head>>

(* git add and commit of exactly those paths, as they are by now.           *)
Commit(c) ==
  /\ proposal[c].status = "applying"
  /\ writer[c] = {}
  /\ head' = Over([path \in DOMAIN proposal[c].files |-> worktree[path]], head)
  /\ proposal' = [proposal EXCEPT ![c].status = "applied"]
  /\ UNCHANGED <<engineTypes, model, pageVars, writer, worktree>>

-----------------------------------------------------------------------------

InspectionNext ==
  \/ \E i \in Inspectors :
       \/ \E p \in Pages, c \in Cases : Inspect(i, p, {}) \/ Inspect(i, p, {model[c]})
       \/ InspectionFails(i)
       \/ \E signedIn \in BOOLEAN, reached \in Pages :
            \E shown \in 0..Len(Layout[reached]) : ReadPage(i, signedIn, reached, shown)
       \/ RefuseRedirect(i)
       \/ StorePage(i)
  \/ \E p \in Pages : \E k \in 1..Len(Layout[p]) : CorrectElement(p, k)

ProjectNext ==
  \E c \in Cases :
    \/ \E m \in Models : ReviseModel(c, m)
    \/ GenerateProposal(c)
    \/ Apply(c)
    \/ WriteFile(c)
    \/ Commit(c)

Next == InspectionNext \/ ProjectNext

Spec == Init /\ [][Next]_vars

-----------------------------------------------------------------------------
(* Properties.                                                              *)

IsFiles(files) ==
  \A path \in DOMAIN files : DOMAIN files[path] = {"uses", "declares", "faults"}

(* The types of the state: what each variable holds as the services write   *)
(* it.                                                                     *)
TypeOK ==
  /\ engineTypes \in BOOLEAN
  /\ model \in [Cases -> Models]
  /\ \A p \in Pages : Cardinality(pageObjects[p]) <= 1
  /\ \A p \in Pages : \A e \in Elements(p) :
       /\ DOMAIN e = {"name", "locator", "fallback"}
       /\ e.locator.strategy \in Strategies /\ e.locator.score \in 1..1000
       /\ Cardinality(e.fallback) <= 1
       /\ \A f \in e.fallback : e.locator = ByHand \/ f.score <= e.locator.score
  /\ \A i \in Inspectors :
       inspector[i].pc \in {"idle", "sent", "read"} /\ inspector[i].reached \in Pages
  /\ \A c \in Cases :
       /\ proposal[c].status \in {"none", "proposed", "applying", "applied"}
       /\ IsFiles(proposal[c].files)
       /\ writer[c] \subseteq DOMAIN proposal[c].files
  /\ IsFiles(worktree) /\ IsFiles(head)

(* A page object holds what was read on its own page, wherever the          *)
(* application sent the visitor and whether or not a sign-in was replayed:  *)
(* PageObjectService.java:127-130 and inspect/run.ts:55.                    *)
StoredPageIsItsOwn ==
  \A p \in Pages : \A e \in Elements(p) :
    e.locator = ByHand \/
      \E n \in DOMAIN Layout[p] : Layout[p][n].at[e.locator.strategy] = e.locator.value

(* Elements that look alike are still told apart: no two of a page have one *)
(* name, which a class could not declare twice (plan.ts:141), or one        *)
(* locator (score.ts:65), where every label is its field's accessible name. *)
ElementsAreToldApart ==
  \A p \in Pages : \A o \in pageObjects[p] : \A i, k \in DOMAIN o :
    i # k =>
      /\ o[i].name # o[k].name
      /\ \/ ByHand \in {o[i].locator, o[k].locator}
         \/ <<o[i].locator.strategy, o[i].locator.value>>
              # <<o[k].locator.strategy, o[k].locator.value>>

UsesFlow(files) == \E path \in DOMAIN files : \E u \in files[path].uses : u[1] = "flow"

(* What is proposed without an unresolved target declares, in its own       *)
(* files, every class, member and parameter it refers to, and constructs    *)
(* every page it touches; whether or not the runner could type-check it     *)
(* (verify.ts:51, generate.ts:10-13).  Flows apart: the API sends none.     *)
ProposalIsClosed ==
  \A c \in Cases :
    proposal[c].unresolved = {} /\ ~UsesFlow(proposal[c].files) =>
      /\ Dangling(proposal[c].files) = {}
      /\ \A path \in DOMAIN proposal[c].files :
           "unbound page" \notin proposal[c].files[path].faults

(* A proposal said to be verified was: it compiles and lints as a whole     *)
(* (handler.ts:103-141).                                                   *)
VerifiedMeansChecked ==
  \A c \in Cases : proposal[c].verified =>
    engineTypes /\ ~TypeErrorsIn(proposal[c].files) /\ ~LintErrorsIn(proposal[c].files)

(* generate.ts:90 has the caller merge fixtures/environment.ts with what    *)
(* the repository has, so that no committed spec loses an accessor.         *)
CommittedSpecsResolve ==
  (\A c \in Cases : writer[c] = {} /\ proposal[c].unresolved = {}
                     /\ ~UsesFlow(proposal[c].files))
    => \A u \in Dangling(head) : u[1] # "param"

(* prelude.ts:13-16: the two readers of the IR must not drift.  A case the  *)
(* generator projects, on an application that obliges and an environment    *)
(* that defines its parameters, can be replayed.                           *)
ReadersAgree ==
  \A c \in Cases :
    LET pages == ForGeneration(model[c]) IN
    ~Refused(model[c], pages, NoFlows) /\ UnresolvedIn(model[c], pages, NoFlows) = {}
      => RunPrelude(model[c], pages, model[c].params, NoFlows)

=============================================================================
