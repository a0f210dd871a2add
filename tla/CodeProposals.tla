---------------------------- MODULE CodeProposals ----------------------------
(***************************************************************************)
(* One test case on its way from text to committed code: its row           *)
(* (TestCaseService), the numbered versions of its IR (TestModelStore), the *)
(* proposals made from them or from a failure (CodeGenerationService), the  *)
(* spec file in the working copy with its history, and the row that tells   *)
(* runs where the code is (AutomationTestService).                         *)
(*                                                                         *)
(* Each request is handled by a handler, transaction by transaction: what   *)
(* a transaction reads and what it commits are two steps wherever the two   *)
(* can differ.  Calls to the chat model, the runner and Git happen between  *)
(* transactions.  A handler may fail after any step.                       *)
(***************************************************************************)
EXTENDS Naturals, Sequences, FiniteSets

CONSTANTS
  Handlers,    \* concurrent handlers of the API's endpoints
  Proposals,   \* identities of code_generations rows
  NoProposal,
  MaxEdits,    \* edits of the test case's text (bound)
  MaxModels,   \* versions of its IR (bound)
  MaxCommits   \* commits of its spec (bound)

ASSUME BoundsAssumption ==
  /\ MaxEdits \in Nat /\ MaxModels \in Nat /\ MaxCommits \in Nat
  /\ NoProposal \notin Proposals

VARIABLES
  text,      \* revision of the case's title and steps
  row,       \* automation_status, out_of_date and version of its row
  models,    \* its test_models rows, each with the text it was derived from
  proposal,  \* the code_generations rows
  work,      \* the spec in the project's working copy
  history,   \* the commits of the spec, oldest first
  test,      \* its automation_tests row
  handler    \* what each handler is doing

caseVars == <<text, row, models>>
gitVars  == <<work, history>>
vars     == <<text, row, models, proposal, work, history, test, handler>>

-----------------------------------------------------------------------------

(* AutomationStatus; nothing in the code ever sets GENERATED.              *)
AutomationStatus == {"NOT_AUTOMATED", "MODELLED", "COMMITTED"}
CaseRow == [status : AutomationStatus, outOfDate : BOOLEAN, version : Nat]

(* A case nobody has modelled is as it was created.                        *)
NewCase == [status |-> "NOT_AUTOMATED", outOfDate |-> FALSE, version |-> 0]

Decision  == {"APPLIED", "REJECTED"}
Generated == {"PROPOSED", "SUPERSEDED"} \cup Decision
CodeGeneration ==
  [status : Generated \cup {"none"}, kind : {"CODE", "FIX"}, model : Nat,
   commit : Nat, version : Nat]
NoGeneration ==
  [status |-> "none", kind |-> "CODE", model |-> 0, commit |-> 0, version |-> 0]

(* What a spec file holds: the projection of an IR version, which is        *)
(* deterministic, or the patch of a repair.                                *)
NoFile  == <<"none", 0>>
Body(p) ==
  IF proposal[p].kind = "FIX" THEN <<"patch", p>> ELSE <<"projection", proposal[p].model>>
Contents ==
  {NoFile} \cup ({"projection"} \X Nat) \cup ({"patch"} \X Proposals)
HeadBody == IF history = <<>> THEN NoFile ELSE history[Len(history)].body

NoTest == [commit |-> 0, model |-> 0]

(* A handler holds what it has read: the case's text and row, a model       *)
(* version, a proposal and its row's version, the rows it will supersede,   *)
(* and the commit it made.                                                 *)
Idle ==
  [pc |-> "idle", text |-> 0, row |-> NewCase, model |-> 0,
   proposal |-> NoProposal, decision |-> "none", version |-> 0, seen |-> {}, commit |-> 0]
HandlerState ==
  [pc : {"idle", "editing", "asking", "storing", "projecting", "patching", "superseding",
         "writing", "committing", "recording", "deciding", "marking", "saving"},
   text : Nat, row : CaseRow, model : Nat, proposal : Proposals \cup {NoProposal},
   decision : Decision \cup {"none"}, version : Nat, seen : SUBSET Proposals, commit : Nat]

TypeOK ==
  /\ text \in Nat
  /\ row \in CaseRow
  /\ models \subseteq [number : Nat, text : Nat]
  /\ proposal \in [Proposals -> CodeGeneration]
  /\ work \in Contents
  /\ history \in Seq([by : Proposals, body : Contents])
  /\ test \in [commit : Nat, model : Nat]
  /\ handler \in [Handlers -> HandlerState]

Init ==
  /\ text = 0
  /\ row = NewCase
  /\ models = {}
  /\ proposal = [p \in Proposals |-> NoGeneration]
  /\ work = NoFile
  /\ history = <<>>
  /\ test = NoTest
  /\ handler = [h \in Handlers |-> Idle]

Live == {p \in Proposals : proposal[p].status = "PROPOSED"}
(* findFirstByTestCaseIdOrderByVersionDesc                                 *)
Newest == IF models = {} THEN 0
          ELSE CHOOSE n \in {m.number : m \in models} : \A m \in models : m.number <= n

At(h, pc)    == handler[h].pc = pc
Goto(h, new) == handler' = [handler EXCEPT ![h] = new]
Finish(h)    == Goto(h, Idle)

-----------------------------------------------------------------------------
(* The case's row.  Hibernate writes the whole row, and only if something   *)
(* changed: an unchanged entity is neither written nor checked.            *)

(* Faulty: test_cases without @Version.                                    *)
RowIsStillUnversioned(read) == TRUE

RowIsStill(read) == row.version = read.version

SaveRow(read, status, outOfDate) ==
  IF status = read.status /\ outOfDate = read.outOfDate
  THEN UNCHANGED row
  ELSE /\ RowIsStill(read)
       /\ row' = [status |-> status, outOfDate |-> outOfDate, version |-> row.version + 1]

(* TestCaseService.update                                                  *)
EditRead(h) ==
  /\ At(h, "idle")
  /\ Goto(h, [Idle EXCEPT !.pc = "editing", !.row = row])
  /\ UNCHANGED <<caseVars, proposal, gitVars, test>>

EditCommit(h) ==
  LET read == handler[h].row IN
  /\ At(h, "editing")
  /\ text < MaxEdits
  /\ RowIsStill(read)
  /\ text' = text + 1
  /\ row' = [status |-> read.status,
             outOfDate |-> read.outOfDate \/ read.status # "NOT_AUTOMATED",
             version |-> row.version + 1]
  /\ Finish(h)
  /\ UNCHANGED <<models, proposal, gitVars, test>>

-----------------------------------------------------------------------------
(* TestModellingService.model and TestModelStore.                          *)

(* The prompt is made of the text as it is now; the chat model answers      *)
(* later.                                                                  *)
ModelRead(h) ==
  /\ At(h, "idle")
  /\ Goto(h, [Idle EXCEPT !.pc = "asking", !.text = text])
  /\ UNCHANGED <<caseVars, proposal, gitVars, test>>

(* store: the row and the newest version as its transaction reads them.    *)
Storing(h, from) ==
  /\ Newest < MaxModels
  /\ Goto(h, [Idle EXCEPT !.pc = "storing", !.text = from, !.row = row, !.model = Newest + 1])
  /\ UNCHANGED <<caseVars, proposal, gitVars, test>>

StoreRead(h) == At(h, "asking") /\ Storing(h, handler[h].text)

(* replace: a version edited by hand, in one transaction.                  *)
ReplaceRead(h) == At(h, "idle") /\ models # {} /\ Storing(h, text)

NumberIsFree(n) == \A m \in models : m.number # n

(* Faulty: a status of the pipeline that no operation leaves.              *)
MarkModelledAsGenerated(read) == SaveRow(read, "GENERATED", FALSE)

(* Faulty: the flag is not reset.                                          *)
MarkModelledKeepsFlag(read) ==
  SaveRow(read, IF read.status = "NOT_AUTOMATED" THEN "MODELLED" ELSE read.status,
          read.outOfDate)

MarkModelled(read) ==
  SaveRow(read, IF read.status = "NOT_AUTOMATED" THEN "MODELLED" ELSE read.status, FALSE)

StoreCommit(h) ==
  LET n == handler[h].model IN
  /\ At(h, "storing")
  /\ NumberIsFree(n)
  /\ models' = models \cup {[number |-> n, text |-> handler[h].text]}
  /\ MarkModelled(handler[h].row)
  /\ Finish(h)
  /\ UNCHANGED <<text, proposal, gitVars, test>>

-----------------------------------------------------------------------------
(* New proposals.                                                          *)

(* generate: the newest IR goes to the runner, outside any transaction.    *)
GenerateRead(h) ==
  /\ At(h, "idle")
  /\ models # {}
  /\ Goto(h, [Idle EXCEPT !.pc = "projecting", !.model = Newest])
  /\ UNCHANGED <<caseVars, proposal, gitVars, test>>

(* store is called on this, without a transaction: the previous proposals  *)
(* it sets to SUPERSEDED are detached, and only the new row is saved.      *)
GenerateStore(h, p) ==
  /\ At(h, "projecting")
  /\ proposal[p].status = "none"
  /\ proposal' = [proposal EXCEPT ![p] =
       [NoGeneration EXCEPT !.status = "PROPOSED", !.model = handler[h].model]]
  /\ Finish(h)
  /\ UNCHANGED <<caseVars, gitVars, test>>

(* RepairService.propose: there was a run to analyse, and its spec is there.*)
RepairRead(h) ==
  /\ At(h, "idle")
  /\ test # NoTest
  /\ work # NoFile
  /\ Goto(h, [Idle EXCEPT !.pc = "patching"])
  /\ UNCHANGED <<caseVars, proposal, gitVars, test>>

(* storeRepair is called through the proxy: one transaction that reads the  *)
(* live proposals, supersedes them and inserts its own.                    *)
RepairSupersede(h) ==
  /\ At(h, "patching")
  /\ Goto(h, [Idle EXCEPT !.pc = "superseding", !.seen = Live])
  /\ UNCHANGED <<caseVars, proposal, gitVars, test>>

(* Faulty: code_generations without @Version.                              *)
StillLiveUnversioned(seen) == TRUE

(* A PROPOSED row has never been updated, so that its version is unchanged  *)
(* means that it still is PROPOSED.                                        *)
StillLive(seen) == seen \subseteq Live

RepairCommit(h, p) ==
  LET seen == handler[h].seen IN
  /\ At(h, "superseding")
  /\ proposal[p].status = "none"
  /\ StillLive(seen)
  /\ proposal' = [q \in Proposals |->
       IF q = p THEN [NoGeneration EXCEPT !.status = "PROPOSED", !.kind = "FIX"]
       ELSE IF q \in seen
       THEN [proposal[q] EXCEPT !.status = "SUPERSEDED", !.version = proposal[q].version + 1]
       ELSE proposal[q]]
  /\ Finish(h)
  /\ UNCHANGED <<caseVars, gitVars, test>>

-----------------------------------------------------------------------------
(* Decisions.                                                              *)

(* apply: the proposal as it is read first, its bodies as the reviewer left *)
(* them.                                                                   *)
ApplyRead(h, p) ==
  /\ At(h, "idle")
  /\ proposal[p].status = "PROPOSED"
  /\ Goto(h, [Idle EXCEPT !.pc = "writing", !.proposal = p, !.decision = "APPLIED"])
  /\ UNCHANGED <<caseVars, proposal, gitVars, test>>

ApplyWrite(h) ==
  /\ At(h, "writing")
  /\ work' = Body(handler[h].proposal)
  /\ Goto(h, [handler[h] EXCEPT !.pc = "committing"])
  /\ UNCHANGED <<caseVars, proposal, history, test>>

(* Faulty: a commit that changes nothing is taken for the previous one.    *)
ApplyCommitOrHead(h) ==
  LET p == handler[h].proposal IN
  /\ At(h, "committing")
  /\ Len(history) < MaxCommits
  /\ history' = IF work = HeadBody THEN history ELSE Append(history, [by |-> p, body |-> work])
  /\ Goto(h, [handler[h] EXCEPT !.pc = "recording", !.commit = Len(history')])
  /\ UNCHANGED <<caseVars, proposal, work, test>>

(* Committing what HEAD already holds is refused as nothing to commit.  The *)
(* push that may follow changes nothing here, and fails as any step may.   *)
ApplyCommit(h) ==
  LET p == handler[h].proposal IN
  /\ At(h, "committing")
  /\ Len(history) < MaxCommits
  /\ work # HeadBody
  /\ history' = Append(history, [by |-> p, body |-> work])
  /\ Goto(h, [handler[h] EXCEPT !.pc = "recording", !.commit = Len(history) + 1])
  /\ UNCHANGED <<caseVars, proposal, work, test>>

(* Faulty: recorded only where there was something to repair.              *)
RecordTestOfRepair(h) ==
  /\ At(h, "recording")
  /\ test' = IF proposal[handler[h].proposal].kind = "CODE" THEN test
             ELSE [commit |-> handler[h].commit, model |-> 0]
  /\ Goto(h, [handler[h] EXCEPT !.pc = "deciding"])
  /\ UNCHANGED <<caseVars, proposal, gitVars>>

(* AutomationTestService.record, a transaction of its own.                 *)
RecordTest(h) ==
  /\ At(h, "recording")
  /\ test' = [commit |-> handler[h].commit, model |-> proposal[handler[h].proposal].model]
  /\ Goto(h, [handler[h] EXCEPT !.pc = "deciding"])
  /\ UNCHANGED <<caseVars, proposal, gitVars>>

RejectRead(h, p) ==
  /\ At(h, "idle")
  /\ proposal[p].status = "PROPOSED"
  /\ Goto(h, [Idle EXCEPT !.pc = "deciding", !.proposal = p, !.decision = "REJECTED"])
  /\ UNCHANGED <<caseVars, proposal, gitVars, test>>

(* complete reads the row again, whatever its status is by now.            *)
CompleteRead(h) ==
  /\ At(h, "deciding")
  /\ Goto(h, [handler[h] EXCEPT
       !.pc = IF handler[h].decision = "APPLIED" THEN "marking" ELSE "saving",
       !.version = proposal[handler[h].proposal].version])
  /\ UNCHANGED <<caseVars, proposal, gitVars, test>>

(* markCommitted, a transaction of its own.                                *)
MarkCommitted(h) ==
  /\ At(h, "marking")
  /\ SaveRow(row, "COMMITTED", FALSE)
  /\ Goto(h, [handler[h] EXCEPT !.pc = "saving"])
  /\ UNCHANGED <<text, models, proposal, gitVars, test>>

(* complete is called on this, without a transaction: save merges the       *)
(* detached row, if it still has the version that was read.                *)
CompleteSave(h) ==
  LET p == handler[h].proposal IN
  /\ At(h, "saving")
  /\ proposal[p].version = handler[h].version
  /\ proposal' = [proposal EXCEPT
       ![p].status = handler[h].decision,
       ![p].commit = handler[h].commit,
       ![p].version = proposal[p].version + 1]
  /\ Finish(h)
  /\ UNCHANGED <<caseVars, gitVars, test>>

-----------------------------------------------------------------------------

(* An optimistic lock failure, a violated constraint, a refusal of the chat *)
(* model, the runner or Git, a rejected push, or the end of the process.   *)
Fail(h) ==
  /\ ~At(h, "idle")
  /\ Finish(h)
  /\ UNCHANGED <<caseVars, proposal, gitVars, test>>

Handle(h) ==
  \/ EditRead(h) \/ EditCommit(h)
  \/ ModelRead(h) \/ StoreRead(h) \/ ReplaceRead(h) \/ StoreCommit(h)
  \/ GenerateRead(h)
  \/ RepairRead(h) \/ RepairSupersede(h)
  \/ ApplyWrite(h) \/ ApplyCommit(h) \/ RecordTest(h)
  \/ CompleteRead(h) \/ MarkCommitted(h) \/ CompleteSave(h)
  \/ Fail(h)
  \/ \E p \in Proposals :
       \/ GenerateStore(h, p) \/ RepairCommit(h, p)
       \/ ApplyRead(h, p) \/ RejectRead(h, p)

Next == \E h \in Handlers : Handle(h)

Spec == Init /\ [][Next]_vars

-----------------------------------------------------------------------------
(* Properties.                                                             *)

(* APPLIED, "a person accepted it; a commit exists" (CodeGenerationStatus): *)
(* the commit an applied proposal names was made for it, whatever else was  *)
(* decided, committed or pushed in between.                                *)
AppliedHasCommit ==
  \A p \in Proposals : proposal[p].status = "APPLIED" =>
    /\ proposal[p].commit \in 1..Len(history)
    /\ history[proposal[p].commit].by = p

(* A case is COMMITTED once one of its proposals is applied and for ever    *)
(* after, and then a run finds its code: the row that says where it is      *)
(* names a commit that exists, and the model it was projected from is there *)
(* (TestCaseService.markCommitted, AutomationTestService).                 *)
CommittedCaseCanRun ==
  /\ (\E p \in Proposals : proposal[p].status = "APPLIED") => row.status = "COMMITTED"
  /\ row.status = "COMMITTED" =>
       /\ test.commit \in 1..Len(history)
       /\ test.model # 0 => \E m \in models : m.number = test.model

(* A case counts as not automated exactly as long as it has no IR, and its  *)
(* versions are numbered without a gap or a repetition, however edits and   *)
(* models overlap (TestModelStore.store).                                  *)
StatusFollowsModels ==
  /\ row.status = "NOT_AUTOMATED" <=> models = {}
  /\ {m.number : m \in models} = 1..Cardinality(models)

(* No false alarm: while a case is flagged out of date, no version of its   *)
(* IR was derived from its current text (TestCaseService.update and         *)
(* markModelled).                                                          *)
NoFalseAlarm == row.outOfDate => \A m \in models : m.text < text

(* A repair supersedes live proposals only: one that was applied or         *)
(* rejected while the repair was being stored keeps its decision.          *)
DecisionsAreNotSuperseded ==
  [][\A p \in Proposals : proposal[p].status \in Decision =>
       proposal'[p].status # "SUPERSEDED"]_vars

(* One proposal is live per case (CodeGenerationService.store).            *)
OneLiveProposal == Cardinality(Live) <= 1

(* A proposal is decided once: it leaves PROPOSED and never changes again   *)
(* (CodeGenerationStatus).                                                 *)
DecidedOnce ==
  [][\A p \in Proposals : proposal[p].status \in Generated \ {"PROPOSED"} =>
       proposal'[p].status = proposal[p].status]_vars

(* The flag is set whenever the text has changed since the newest IR was    *)
(* derived from it (TestCase.outOfDate).                                   *)
FlagTellsTruth ==
  \A m \in models : m.number = Newest /\ m.text < text => row.outOfDate

=============================================================================
