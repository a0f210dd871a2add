------------------------ MODULE CodeProposals_proofs ------------------------
(***************************************************************************)
(* Proofs about CodeProposals, for every set of handlers and proposals and  *)
(* whatever its bounds.                                                    *)
(***************************************************************************)
EXTENDS CodeProposals, FiniteSetTheorems, TLAPS

-----------------------------------------------------------------------------
(* The inductive invariant.                                                *)

(* The versions of the IR are a finite set, numbered 1..Count.             *)
Count == Cardinality(models)
Numbered ==
  /\ IsFiniteSet(models)
  /\ {m.number : m \in models} = 1..Count

(* What the rows say of each other.                                        *)
Rows ==
  /\ row.status = "NOT_AUTOMATED" <=> models = {}
  /\ \A m \in models : m.text <= text
  /\ NoFalseAlarm
  /\ models = {} => test = NoTest /\ \A p \in Proposals : proposal[p].status = "none"
  /\ \A p \in Proposals : proposal[p].model <= Count
  /\ test.model <= Count
  /\ test.commit <= Len(history)
  /\ row.status = "COMMITTED" => test.commit # 0
  /\ AppliedHasCommit
  /\ (\E p \in Proposals : proposal[p].status = "APPLIED") => row.status = "COMMITTED"

(* What a handler in state s has read is never newer than the row, and if   *)
(* it is as new it is the row.                                             *)
ReadsRow(s) ==
  s.pc \in {"editing", "storing"} =>
    /\ s.row.version <= row.version
    /\ s.row.version = row.version => s.row = row
    /\ s.row.status # "NOT_AUTOMATED" => row.status # "NOT_AUTOMATED"

(* Everything but editing and modelling starts from a version of the IR.    *)
HasModel(s) == s.pc \notin {"idle", "editing", "asking", "storing"} => models # {}

(* A version about to be stored was derived from a text that is not newer   *)
(* than the case's, and older if an edit has set the flag meanwhile.       *)
ReadsModels(s) ==
  /\ s.text <= text
  /\ s.pc = "storing" =>
       /\ s.model \in 1..Count + 1
       /\ row.outOfDate /\ ~s.row.outOfDate => s.text < text
  /\ s.pc = "projecting" => s.model <= Count

(* How far an application has got: its own commit, then the automation      *)
(* test, then the case, and only then the proposal's row.                  *)
Applies(s) ==
  /\ s.pc \in {"writing", "committing", "recording", "deciding", "marking", "saving"} =>
       s.proposal \in Proposals /\ s.decision \in Decision
  /\ s.pc \in {"writing", "committing", "recording", "marking"} => s.decision = "APPLIED"
  /\ s.pc \in {"recording", "deciding", "marking", "saving"} /\ s.decision = "APPLIED" =>
       s.commit \in 1..Len(history) /\ history[s.commit].by = s.proposal
  /\ s.pc \in {"deciding", "marking", "saving"} /\ s.decision = "APPLIED" => test.commit # 0
  /\ s.pc = "saving" /\ s.decision = "APPLIED" => row.status = "COMMITTED"

HandlerOK(s) == ReadsRow(s) /\ HasModel(s) /\ ReadsModels(s) /\ Applies(s)

IInv == TypeOK /\ Numbered /\ Rows /\ \A h \in Handlers : HandlerOK(handler[h])

-----------------------------------------------------------------------------
(* Types and numbers.                                                      *)

LEMMA IdleType == Idle \in HandlerState /\ Idle.pc = "idle"
  BY DEF Idle, HandlerState, NewCase, CaseRow, AutomationStatus

LEMMA IdleOK == TypeOK => HandlerOK(Idle)
  BY DEF TypeOK, HandlerOK, ReadsRow, HasModel, ReadsModels, Applies, Idle

LEMMA InitIInv == Init => IInv
<1> SUFFICES ASSUME Init PROVE IInv
  OBVIOUS
<1>1. TypeOK
  BY BoundsAssumption, IdleType
  DEF Init, TypeOK, NewCase, CaseRow, AutomationStatus, NoGeneration, CodeGeneration, Generated,
      Decision, NoFile, Contents, NoTest
<1>2. IsFiniteSet(models) /\ Count = 0
  BY FS_EmptySet DEF Init, Count
<1>3. Numbered
  BY <1>2 DEF Init, Numbered
<1>4. Rows
  BY <1>1, <1>2
  DEF Init, Rows, NewCase, NoFalseAlarm, AppliedHasCommit, NoGeneration, NoTest
<1> QED
  BY <1>1, <1>3, <1>4, IdleOK DEF Init, IInv

LEMMA CountType == Numbered => Count \in Nat
  BY FS_CardinalityType DEF Numbered, Count

(* The newest version is the number of versions.                           *)
LEMMA NewestIsCount ==
  ASSUME TypeOK, Numbered
  PROVE  Newest = Count
<1>1. CASE models = {}
  BY <1>1, FS_EmptySet DEF Newest, Count
<1>2. CASE models # {}
  <2>1. Count \in Nat /\ Count # 0
    BY <1>2, FS_EmptySet, CountType DEF Numbered, Count
  <2>2. Count \in {m.number : m \in models}
    BY <2>1 DEF Numbered
  <2>3. \A m \in models : m.number \in 1..Count
    BY DEF Numbered
  <2>4. \A m \in models : m.number <= Count
    BY <2>1, <2>3
  <2>5. \A n \in {m.number : m \in models} : (\A m \in models : m.number <= n) => n = Count
    BY <2>1, <2>2, <2>3
  <2>6. /\ Newest \in {m.number : m \in models}
        /\ \A m \in models : m.number <= Newest
    BY <1>2, <2>2, <2>4 DEF Newest
  <2> QED
    BY <2>5, <2>6
<1> QED
  BY <1>1, <1>2

-----------------------------------------------------------------------------
(* Steps: what others have read and done stays good while the case, its      *)
(* models and its history only grow.                                       *)

Grows ==
  /\ text <= text'
  /\ row.version <= row'.version
  /\ row.version = row'.version => row' = row
  /\ row.status # "NOT_AUTOMATED" => row'.status # "NOT_AUTOMATED"
  /\ row.status = "COMMITTED" => row'.status = "COMMITTED"
  /\ row'.outOfDate => row.outOfDate \/ text < text'
  /\ models \subseteq models'
  /\ Count <= Count'
  /\ Len(history) <= Len(history')
  /\ \A i \in 1..Len(history) : history'[i].by = history[i].by
  /\ test.commit # 0 => test'.commit # 0

LEMMA GrowsKeepsHandlers ==
  ASSUME TypeOK, TypeOK', Count \in Nat, Count' \in Nat, Grows,
         NEW s \in HandlerState, HandlerOK(s)
  PROVE  HandlerOK(s)'
<1>0. /\ text \in Nat /\ text' \in Nat /\ s.text \in Nat /\ s.model \in Nat
      /\ row \in CaseRow /\ row' \in CaseRow /\ s.row \in CaseRow
      /\ Len(history) \in Nat /\ Len(history') \in Nat
  BY DEF TypeOK, HandlerState
<1>1. ReadsRow(s)'
  BY <1>0 DEF HandlerOK, ReadsRow, Grows, CaseRow
<1>2. ReadsModels(s)'
  BY <1>0 DEF HandlerOK, ReadsModels, Grows, CaseRow
<1>3. Applies(s)'
  BY <1>0 DEF HandlerOK, Applies, Grows
<1>4. HasModel(s)'
  BY <1>0 DEF HandlerOK, HasModel, Grows
<1> QED
  BY <1>1, <1>2, <1>3, <1>4 DEF HandlerOK

(* A handler's step that changes what is shared.                           *)
LEMMA SharedStep ==
  ASSUME IInv, NEW h \in Handlers, NEW s \in HandlerState,
         handler' = [handler EXCEPT ![h] = s],
         TypeOK', Numbered', Rows', Grows, HandlerOK(s)'
  PROVE  IInv'
<1>1. Count \in Nat /\ Count' \in Nat
  BY FS_CardinalityType DEF IInv, Numbered, Count
<1>2. ASSUME NEW k \in Handlers PROVE HandlerOK(handler[k])'
  <2>1. CASE k = h
    <3>1. handler'[k] = s
      BY <2>1 DEF IInv, TypeOK
    <3> QED
      BY <3>1 DEF HandlerOK, ReadsRow, HasModel, ReadsModels, Applies
  <2>2. CASE k # h
    <3>1. handler'[k] = handler[k] /\ handler[k] \in HandlerState
      BY <2>2 DEF IInv, TypeOK
    <3>2. HandlerOK(handler[k])
      BY DEF IInv
    <3>3. \A r \in HandlerState : HandlerOK(r) => HandlerOK(r)'
      BY <1>1, GrowsKeepsHandlers DEF IInv
    <3> QED
      BY <3>1, <3>2, <3>3 DEF HandlerOK, ReadsRow, HasModel, ReadsModels, Applies
  <2> QED
    BY <2>1, <2>2
<1> QED
  BY <1>2 DEF IInv

(* A handler's step that only reads.                                       *)
LEMMA ReadingStep ==
  ASSUME IInv, NEW h \in Handlers, NEW s \in HandlerState, HandlerOK(s),
         Goto(h, s), UNCHANGED <<caseVars, proposal, gitVars, test>>
  PROVE  IInv'
<1>1. handler' = [handler EXCEPT ![h] = s]
  BY DEF Goto
<1>2. TypeOK'
  BY <1>1 DEF IInv, TypeOK, caseVars, gitVars
<1>3. Numbered' /\ Count' = Count
  BY DEF IInv, Numbered, Count, caseVars
<1>4. Rows'
  BY <1>3 DEF IInv, Rows, NoFalseAlarm, AppliedHasCommit, caseVars, gitVars
<1>5. Grows
  BY <1>3, CountType DEF IInv, TypeOK, Grows, CaseRow, caseVars, gitVars
<1>6. HandlerOK(s)'
  BY <1>3 DEF HandlerOK, ReadsRow, HasModel, ReadsModels, Applies, caseVars, gitVars
<1> QED
  BY <1>1, <1>2, <1>3, <1>4, <1>5, <1>6, SharedStep

-----------------------------------------------------------------------------
(* Handlers that only read.                                                *)

LEMMA ReadsPreserve ==
  ASSUME IInv, NEW h \in Handlers,
         \/ EditRead(h) \/ ModelRead(h) \/ StoreRead(h) \/ ReplaceRead(h) \/ GenerateRead(h)
         \/ RepairRead(h) \/ RepairSupersede(h) \/ CompleteRead(h) \/ Fail(h)
  PROVE  IInv'
<1> USE DEF IInv
<1>1. /\ handler[h] \in HandlerState /\ HandlerOK(handler[h])
      /\ text \in Nat /\ row \in CaseRow /\ Live \subseteq Proposals
      /\ Count \in Nat /\ Newest = Count
  BY CountType, NewestIsCount DEF TypeOK, Live
<1>2. CASE EditRead(h)
  <2> DEFINE s == [Idle EXCEPT !.pc = "editing", !.row = row]
  <2>1. s \in HandlerState
    BY <1>1, IdleType DEF HandlerState
  <2>2. HandlerOK(s)
    BY <1>1 DEF HandlerOK, ReadsRow, HasModel, ReadsModels, Applies, Idle, CaseRow
  <2> QED
    BY <1>2, <2>1, <2>2, ReadingStep DEF EditRead
<1>3. CASE ModelRead(h)
  <2> DEFINE s == [Idle EXCEPT !.pc = "asking", !.text = text]
  <2>1. s \in HandlerState
    BY <1>1, IdleType DEF HandlerState
  <2>2. HandlerOK(s)
    BY <1>1 DEF HandlerOK, ReadsRow, HasModel, ReadsModels, Applies, Idle
  <2> QED
    BY <1>3, <2>1, <2>2, ReadingStep DEF ModelRead
<1>4. ASSUME NEW from \in Nat, from <= text, Storing(h, from) PROVE IInv'
  <2> DEFINE s == [Idle EXCEPT !.pc = "storing", !.text = from, !.row = row,
                               !.model = Newest + 1]
  <2>0. Newest + 1 \in Nat
    BY <1>1
  <2>1. s \in HandlerState
    BY <1>1, <1>4, <2>0, IdleType DEF HandlerState
  <2>2. HandlerOK(s)
    BY <1>1, <1>4 DEF HandlerOK, ReadsRow, HasModel, ReadsModels, Applies, Idle, CaseRow
  <2> QED
    BY <1>4, <2>1, <2>2, ReadingStep DEF Storing
<1>5. CASE StoreRead(h)
  <2>1. handler[h].text \in Nat /\ handler[h].text <= text
    BY <1>1 DEF HandlerState, HandlerOK, ReadsModels
  <2> QED
    BY <1>4, <1>5, <2>1 DEF StoreRead
<1>6. CASE ReplaceRead(h)
  BY <1>1, <1>4, <1>6 DEF ReplaceRead
<1>7. CASE GenerateRead(h)
  <2> DEFINE s == [Idle EXCEPT !.pc = "projecting", !.model = Newest]
  <2>1. s \in HandlerState
    BY <1>1, IdleType DEF HandlerState
  <2>2. HandlerOK(s)
    BY <1>1, <1>7
    DEF GenerateRead, At, Rows, HandlerOK, ReadsRow, HasModel, ReadsModels, Applies, Idle
  <2> QED
    BY <1>7, <2>1, <2>2, ReadingStep DEF GenerateRead
<1>8. CASE RepairRead(h)
  <2> DEFINE s == [Idle EXCEPT !.pc = "patching"]
  <2>1. s \in HandlerState
    BY IdleType DEF HandlerState
  <2>2. HandlerOK(s)
    BY <1>1, <1>8
    DEF RepairRead, At, Rows, HandlerOK, ReadsRow, HasModel, ReadsModels, Applies, Idle
  <2> QED
    BY <1>8, <2>1, <2>2, ReadingStep DEF RepairRead
<1>9. CASE RepairSupersede(h)
  <2> DEFINE s == [Idle EXCEPT !.pc = "superseding", !.seen = Live]
  <2>1. s \in HandlerState
    BY <1>1, IdleType DEF HandlerState
  <2>2. HandlerOK(s)
    BY <1>1, <1>9
    DEF RepairSupersede, At, Rows, HandlerOK, ReadsRow, HasModel, ReadsModels, Applies, Idle
  <2> QED
    BY <1>9, <2>1, <2>2, ReadingStep DEF RepairSupersede
<1>10. CASE CompleteRead(h)
  <2> DEFINE s == [handler[h] EXCEPT
                     !.pc = IF handler[h].decision = "APPLIED" THEN "marking" ELSE "saving",
                     !.version = proposal[handler[h].proposal].version]
  <2>1. At(h, "deciding") /\ handler[h].pc = "deciding"
    BY <1>10 DEF CompleteRead, At
  <2>2. handler[h].proposal \in Proposals /\ handler[h].decision \in Decision
    BY <1>1, <2>1 DEF HandlerOK, Applies
  <2>3. proposal[handler[h].proposal].version \in Nat
    BY <2>2 DEF TypeOK, CodeGeneration
  <2>4. s \in HandlerState
    BY <1>1, <2>3 DEF HandlerState
  <2>5. HandlerOK(s)
    BY <1>1, <2>1, <2>2
    DEF HandlerState, HandlerOK, ReadsRow, HasModel, ReadsModels, Applies, Decision
  <2> QED
    BY <1>10, <2>4, <2>5, ReadingStep DEF CompleteRead
<1>11. CASE Fail(h)
  BY <1>11, IdleType, IdleOK, ReadingStep DEF Fail, Finish
<1> QED
  BY <1>2, <1>3, <1>5, <1>6, <1>7, <1>8, <1>9, <1>10, <1>11

LEMMA DecisionReadsPreserve ==
  ASSUME IInv, NEW h \in Handlers, NEW p \in Proposals, ApplyRead(h, p) \/ RejectRead(h, p)
  PROVE  IInv'
<1> USE DEF IInv
<1>0. models # {}
  BY DEF ApplyRead, RejectRead, Rows
<1>1. ASSUME NEW pc \in {"writing", "deciding"}, NEW d \in Decision,
             d = "APPLIED" <=> pc = "writing",
             Goto(h, [Idle EXCEPT !.pc = pc, !.proposal = p, !.decision = d]),
             UNCHANGED <<caseVars, proposal, gitVars, test>>
      PROVE  IInv'
  <2> DEFINE s == [Idle EXCEPT !.pc = pc, !.proposal = p, !.decision = d]
  <2>1. s \in HandlerState
    BY IdleType DEF HandlerState
  <2>2. HandlerOK(s)
    BY <1>0, <1>1 DEF TypeOK, HandlerOK, ReadsRow, HasModel, ReadsModels, Applies, Idle
  <2> QED
    BY <1>1, <2>1, <2>2, ReadingStep
<1> QED
  BY <1>1 DEF ApplyRead, RejectRead, Decision

-----------------------------------------------------------------------------
(* Handlers that commit.                                                   *)

LEMMA IdleOKAfter == TypeOK' => HandlerOK(Idle)'
  BY DEF TypeOK, HandlerOK, ReadsRow, HasModel, ReadsModels, Applies, Idle

LEMMA EditPreserves ==
  ASSUME IInv, NEW h \in Handlers, EditCommit(h)
  PROVE  IInv'
<1> USE DEF IInv
<1> DEFINE read == handler[h].row
<1>1. /\ text \in Nat /\ text' = text + 1
      /\ row \in CaseRow /\ read \in CaseRow
      /\ handler' = [handler EXCEPT ![h] = Idle]
  BY DEF TypeOK, HandlerState, EditCommit, Finish, Goto
<1>2. read = row /\ row.version \in Nat
  BY <1>1 DEF EditCommit, At, RowIsStill, HandlerOK, ReadsRow, CaseRow
<1>3. /\ row'.version = row.version + 1
      /\ row'.status = row.status
      /\ row' \in CaseRow
  BY <1>1, <1>2 DEF EditCommit, CaseRow
<1>4. TypeOK'
  BY <1>1, <1>3, IdleType DEF TypeOK, EditCommit, gitVars
<1>5. Numbered' /\ Count' = Count /\ Count \in Nat
  BY CountType DEF Numbered, Count, EditCommit
<1>6. \A m \in models : m.text \in Nat
  BY DEF TypeOK
<1>7. Rows'
  BY <1>1, <1>3, <1>5, <1>6 DEF Rows, NoFalseAlarm, AppliedHasCommit, EditCommit, gitVars
<1>8. Grows
  BY <1>1, <1>2, <1>3, <1>5 DEF Grows, TypeOK, EditCommit, gitVars
<1> QED
  BY <1>1, <1>4, <1>5, <1>7, <1>8, IdleType, IdleOKAfter, SharedStep

LEMMA StorePreserves ==
  ASSUME IInv, NEW h \in Handlers, StoreCommit(h)
  PROVE  IInv'
<1> USE DEF IInv
<1> DEFINE read == handler[h].row
           n == handler[h].model
           from == handler[h].text
           new == [number |-> n, text |-> from]
<1>1. /\ text \in Nat /\ text' = text /\ from \in Nat /\ from <= text
      /\ row \in CaseRow /\ read \in CaseRow /\ n \in Nat
      /\ handler' = [handler EXCEPT ![h] = Idle]
      /\ models' = models \cup {new}
  BY DEF TypeOK, HandlerState, HandlerOK, ReadsModels, StoreCommit, Finish, Goto
<1>2. /\ read.version <= row.version
      /\ read.version = row.version => read = row
      /\ read.status # "NOT_AUTOMATED" => row.status # "NOT_AUTOMATED"
      /\ n \in 1..Count + 1
      /\ row.outOfDate /\ ~read.outOfDate => from < text
  BY DEF StoreCommit, At, HandlerOK, ReadsRow, ReadsModels
<1>3. Count \in Nat
  BY CountType
<1>4. n = Count + 1 /\ new \notin models
  <2>1. n \notin {m.number : m \in models}
    BY DEF StoreCommit, NumberIsFree
  <2>2. n \notin 1..Count
    BY <2>1 DEF Numbered
  <2>3. n = Count + 1
    BY <1>1, <1>2, <1>3, <2>2
  <2>4. new \in models => new.number \in {m.number : m \in models}
    OBVIOUS
  <2> QED
    BY <2>1, <2>3, <2>4
<1>5. Numbered' /\ Count' = Count + 1
  <2>1. IsFiniteSet(models') /\ Count' = Count + 1
    BY <1>1, <1>4, FS_AddElement DEF Numbered, Count
  <2>2. {m.number : m \in models'} = {m.number : m \in models} \cup {n}
    <3>1. new.number = n
      OBVIOUS
    <3> HIDE DEF new
    <3> QED
      BY <1>1, <3>1
  <2>3. 1..Count + 1 = (1..Count) \cup {Count + 1}
    BY <1>3
  <2>4. {m.number : m \in models'} = 1..Count'
    BY <1>4, <2>1, <2>2, <2>3 DEF Numbered
  <2> QED
    BY <2>1, <2>4 DEF Numbered
<1>6. \/ row' = row /\ row.status # "NOT_AUTOMATED" /\ ~read.outOfDate
      \/ /\ read = row /\ row' \in CaseRow
         /\ row'.version = row.version + 1 /\ ~row'.outOfDate
         /\ row'.status # "NOT_AUTOMATED"
         /\ row.status = "COMMITTED" => row'.status = "COMMITTED"
  <2> DEFINE status == IF read.status = "NOT_AUTOMATED" THEN "MODELLED" ELSE read.status
  <2>1. SaveRow(read, status, FALSE)
    BY DEF StoreCommit, MarkModelled
  <2>2. /\ status \in AutomationStatus /\ status # "NOT_AUTOMATED"
        /\ read.status = "COMMITTED" => status = "COMMITTED"
    BY <1>1 DEF CaseRow, AutomationStatus
  <2> HIDE DEF status
  <2>3. CASE status = read.status /\ FALSE = read.outOfDate
    BY <1>2, <2>1, <2>2, <2>3 DEF SaveRow
  <2>4. CASE ~(status = read.status /\ FALSE = read.outOfDate)
    <3>1. /\ row.version = read.version
          /\ row' = [status |-> status, outOfDate |-> FALSE, version |-> row.version + 1]
      BY <2>1, <2>4 DEF SaveRow, RowIsStill
    <3> QED
      BY <1>1, <1>2, <2>2, <3>1 DEF CaseRow
  <2> QED
    BY <2>3, <2>4
<1>7. row' \in CaseRow /\ row'.status # "NOT_AUTOMATED"
  BY <1>1, <1>6
<1>8. TypeOK'
  BY <1>1, <1>7, IdleType DEF TypeOK, StoreCommit, gitVars
<1>9. row'.outOfDate => row' = row /\ from < text
  BY <1>2, <1>6
<1>10. Rows'
  <2>1. \A m \in models' : m.text <= text'
    BY <1>1 DEF Rows
  <2>2. NoFalseAlarm'
    BY <1>1, <1>9 DEF Rows, NoFalseAlarm
  <2>3. models' # {}
    BY <1>1
  <2>4. \A p \in Proposals : proposal[p].model \in Nat
    BY DEF TypeOK, CodeGeneration
  <2>5. test.model \in Nat
    BY DEF TypeOK
  <2>6. row'.status = "COMMITTED" <=> row.status = "COMMITTED"
    BY <1>1, <1>2, <1>6
    DEF StoreCommit, MarkModelled, SaveRow, RowIsStill, CaseRow, AutomationStatus
  <2>7. UNCHANGED <<proposal, gitVars, test>>
    BY DEF StoreCommit
  <2> QED
    BY <1>3, <1>5, <1>7, <2>1, <2>2, <2>3, <2>4, <2>5, <2>6, <2>7
    DEF Rows, AppliedHasCommit, gitVars
<1>11. Grows
  BY <1>1, <1>3, <1>5, <1>6, <1>7 DEF Grows, TypeOK, CaseRow, StoreCommit, gitVars
<1> QED
  BY <1>1, <1>5, <1>8, <1>10, <1>11, IdleType, IdleOKAfter, SharedStep

(* A step that changes the proposals only.                                 *)
LEMMA ProposalStep ==
  ASSUME IInv, NEW h \in Handlers, Finish(h), UNCHANGED <<caseVars, gitVars, test>>,
         models # {},
         proposal' \in [Proposals -> CodeGeneration],
         \A p \in Proposals :
           /\ proposal'[p].model <= Count
           /\ proposal'[p].status = "APPLIED" =>
                /\ proposal'[p].commit \in 1..Len(history)
                /\ history[proposal'[p].commit].by = p
                /\ row.status = "COMMITTED"
  PROVE  IInv'
<1> USE DEF IInv
<1>1. handler' = [handler EXCEPT ![h] = Idle]
  BY DEF Finish, Goto
<1>2. TypeOK'
  BY <1>1, IdleType DEF TypeOK, caseVars, gitVars
<1>3. Numbered' /\ Count' = Count /\ Count \in Nat
  BY CountType DEF Numbered, Count, caseVars
<1>4. Rows'
  BY <1>3 DEF Rows, NoFalseAlarm, AppliedHasCommit, caseVars, gitVars
<1>5. Grows
  BY <1>3 DEF TypeOK, Grows, CaseRow, caseVars, gitVars
<1> QED
  BY <1>1, <1>2, <1>3, <1>4, <1>5, IdleType, IdleOKAfter, SharedStep

LEMMA GenerationUpdates ==
  ASSUME NEW g \in CodeGeneration, NEW status \in Generated, NEW commit \in Nat
  PROVE  /\ [g EXCEPT !.status = status, !.version = g.version + 1] \in CodeGeneration
         /\ [g EXCEPT !.status = status, !.commit = commit, !.version = g.version + 1]
              \in CodeGeneration
<1>1. g.version + 1 \in Nat
  BY DEF CodeGeneration
<1> DEFINE next == g.version + 1
<1> HIDE DEF next
<1>2. next \in Nat
  BY <1>1 DEF next
<1>3. /\ [g EXCEPT !.status = status, !.version = next] \in CodeGeneration
      /\ [g EXCEPT !.status = status, !.commit = commit, !.version = next] \in CodeGeneration
  BY <1>2 DEF CodeGeneration
<1> QED
  BY <1>3 DEF next

LEMMA ProposalsPreserve ==
  ASSUME IInv, NEW h \in Handlers, NEW p \in Proposals,
         GenerateStore(h, p) \/ RepairCommit(h, p)
  PROVE  IInv'
<1> USE DEF IInv
<1>1. /\ handler[h] \in HandlerState /\ HandlerOK(handler[h]) /\ Count \in Nat
      /\ \A q \in Proposals : proposal[q] \in CodeGeneration
  BY CountType DEF TypeOK
<1>2. \A q \in Proposals :
        /\ proposal[q].model <= Count
        /\ proposal[q].status = "APPLIED" =>
             /\ proposal[q].commit \in 1..Len(history)
             /\ history[proposal[q].commit].by = q
             /\ row.status = "COMMITTED"
  BY DEF Rows, AppliedHasCommit
<1>3. models # {}
  BY <1>1 DEF GenerateStore, RepairCommit, At, HandlerOK, HasModel
<1>4. CASE GenerateStore(h, p)
  <2> DEFINE new == [NoGeneration EXCEPT !.status = "PROPOSED", !.model = handler[h].model]
  <2>1. handler[h].model \in Nat /\ handler[h].model <= Count
    BY <1>1, <1>4 DEF GenerateStore, At, HandlerOK, ReadsModels, HandlerState
  <2>2. new \in CodeGeneration /\ new.status # "APPLIED" /\ new.model <= Count
    BY <2>1 DEF NoGeneration, CodeGeneration, Generated
  <2>3. proposal' = [proposal EXCEPT ![p] = new]
    BY <1>4 DEF GenerateStore
  <2> HIDE DEF new
  <2>4. \A q \in Proposals : proposal'[q] = IF q = p THEN new ELSE proposal[q]
    BY <2>3 DEF TypeOK
  <2>5. proposal' \in [Proposals -> CodeGeneration]
    BY <2>2, <2>3 DEF TypeOK
  <2> QED
    BY <1>2, <1>3, <1>4, <2>2, <2>4, <2>5, ProposalStep DEF GenerateStore
<1>5. CASE RepairCommit(h, p)
  <2> DEFINE new == [NoGeneration EXCEPT !.status = "PROPOSED", !.kind = "FIX"]
             old(q) == [proposal[q] EXCEPT !.status = "SUPERSEDED",
                                           !.version = proposal[q].version + 1]
             seen == handler[h].seen
  <2>1. new \in CodeGeneration /\ new.status # "APPLIED" /\ new.model <= Count
    <3>1. new \in CodeGeneration /\ new.status # "APPLIED" /\ new.model = 0
      BY DEF NoGeneration, CodeGeneration, Generated
    <3> QED
      BY <1>1, <3>1
  <2>2. ASSUME NEW q \in Proposals
        PROVE  old(q) \in CodeGeneration /\ old(q).status # "APPLIED" /\ old(q).model <= Count
    <3>1. old(q) \in CodeGeneration
      BY <1>1, GenerationUpdates DEF Generated
    <3>2. old(q).status = "SUPERSEDED" /\ old(q).model = proposal[q].model
      BY <1>1 DEF CodeGeneration
    <3> QED
      BY <1>2, <3>1, <3>2
  <2>3. proposal' = [q \in Proposals |-> IF q = p THEN new
                                         ELSE IF q \in seen THEN old(q) ELSE proposal[q]]
    BY <1>5 DEF RepairCommit
  <2> HIDE DEF new, old
  <2>4. proposal' \in [Proposals -> CodeGeneration]
    BY <1>1, <2>1, <2>2, <2>3
  <2>5. \A q \in Proposals : proposal'[q] \in {new, old(q), proposal[q]}
    BY <2>3
  <2>6. ASSUME NEW q \in Proposals
        PROVE  /\ proposal'[q].model <= Count
               /\ proposal'[q].status = "APPLIED" =>
                    /\ proposal'[q].commit \in 1..Len(history)
                    /\ history[proposal'[q].commit].by = q
                    /\ row.status = "COMMITTED"
    BY <1>2, <2>1, <2>2, <2>5
  <2> QED
    BY <1>3, <1>5, <2>4, <2>6, ProposalStep DEF RepairCommit
<1> QED
  BY <1>4, <1>5

LEMMA CompletePreserves ==
  ASSUME IInv, NEW h \in Handlers, CompleteSave(h)
  PROVE  IInv'
<1> USE DEF IInv
<1> DEFINE p == handler[h].proposal
           s == handler[h]
<1>1. /\ s \in HandlerState /\ HandlerOK(s) /\ s.pc = "saving"
      /\ \A q \in Proposals : proposal[q] \in CodeGeneration
  BY DEF TypeOK, CompleteSave, At
<1>2. /\ p \in Proposals /\ s.decision \in Decision /\ models # {} /\ s.commit \in Nat
      /\ s.decision = "APPLIED" =>
           /\ s.commit \in 1..Len(history) /\ history[s.commit].by = p
           /\ row.status = "COMMITTED"
  BY <1>1 DEF HandlerOK, HasModel, Applies, HandlerState
<1>3. \A q \in Proposals :
        /\ proposal[q].model <= Count
        /\ proposal[q].status = "APPLIED" =>
             /\ proposal[q].commit \in 1..Len(history)
             /\ history[proposal[q].commit].by = q
             /\ row.status = "COMMITTED"
  BY DEF Rows, AppliedHasCommit
<1> DEFINE new == [proposal[p] EXCEPT !.status = s.decision, !.commit = s.commit,
                                      !.version = proposal[p].version + 1]
<1>4. /\ new \in CodeGeneration /\ new.status = s.decision /\ new.commit = s.commit
      /\ new.model = proposal[p].model
  <2>1. new \in CodeGeneration
    BY <1>1, <1>2, GenerationUpdates DEF Generated
  <2>2. /\ new.status = s.decision /\ new.commit = s.commit
        /\ new.model = proposal[p].model
    BY <1>1, <1>2 DEF CodeGeneration
  <2> QED
    BY <2>1, <2>2
<1>5. proposal' = [proposal EXCEPT ![p] = new]
  BY <1>2 DEF CompleteSave, TypeOK
<1> HIDE DEF new
<1>6. \A q \in Proposals : proposal'[q] = IF q = p THEN new ELSE proposal[q]
  BY <1>2, <1>5 DEF TypeOK
<1>7. proposal' \in [Proposals -> CodeGeneration]
  BY <1>2, <1>4, <1>5 DEF TypeOK
<1> QED
  BY <1>2, <1>3, <1>4, <1>6, <1>7, ProposalStep DEF CompleteSave

LEMMA WritePreserves ==
  ASSUME IInv, NEW h \in Handlers, ApplyWrite(h)
  PROVE  IInv'
<1> USE DEF IInv
<1>1. /\ handler[h] \in HandlerState /\ HandlerOK(handler[h]) /\ handler[h].pc = "writing"
      /\ Count \in Nat
  BY CountType DEF TypeOK, ApplyWrite, At
<1>2. PICK s \in HandlerState : s = [handler[h] EXCEPT !.pc = "committing"]
  BY <1>1 DEF HandlerState
<1>3. handler' = [handler EXCEPT ![h] = s]
  BY <1>2 DEF ApplyWrite, Goto
<1>4. handler[h].proposal \in Proposals
  BY <1>1 DEF HandlerOK, Applies
<1>5. work' \in Contents
  <2>1. proposal[handler[h].proposal].model \in Nat
    BY <1>4 DEF TypeOK, CodeGeneration
  <2> QED
    BY <1>4, <2>1 DEF ApplyWrite, Body, Contents
<1>6. TypeOK'
  BY <1>3, <1>5 DEF TypeOK, ApplyWrite, caseVars
<1>7. Numbered' /\ Count' = Count
  BY DEF Numbered, Count, ApplyWrite, caseVars
<1>8. Rows'
  BY <1>7 DEF Rows, NoFalseAlarm, AppliedHasCommit, ApplyWrite, caseVars
<1>9. Grows
  BY <1>1, <1>7 DEF TypeOK, Grows, CaseRow, ApplyWrite, caseVars
<1>10. HandlerOK(s)'
  BY <1>1, <1>2, <1>7
  DEF HandlerState, HandlerOK, ReadsRow, HasModel, ReadsModels, Applies, ApplyWrite, caseVars
<1> QED
  BY <1>3, <1>6, <1>7, <1>8, <1>9, <1>10, SharedStep

LEMMA CommitPreserves ==
  ASSUME IInv, NEW h \in Handlers, ApplyCommit(h)
  PROVE  IInv'
<1> USE DEF IInv
<1> DEFINE n == Len(history) + 1
           p == handler[h].proposal
           new == [by |-> p, body |-> work]
<1>1. /\ handler[h] \in HandlerState /\ HandlerOK(handler[h]) /\ handler[h].pc = "committing"
      /\ Count \in Nat /\ Len(history) \in Nat /\ n \in Nat
  BY CountType DEF TypeOK, ApplyCommit, At
<1>2. p \in Proposals /\ handler[h].decision \in Decision /\ models # {}
  BY <1>1 DEF HandlerOK, Applies, HasModel
<1>3. PICK s \in HandlerState : s = [handler[h] EXCEPT !.pc = "recording", !.commit = n]
  <2> HIDE DEF n
  <2> QED
    BY <1>1 DEF HandlerState
<1>4. handler' = [handler EXCEPT ![h] = s]
  BY <1>3 DEF ApplyCommit, Goto
<1>5. new \in [by : Proposals, body : Contents]
  BY <1>2 DEF TypeOK
<1>6. /\ history' \in Seq([by : Proposals, body : Contents])
      /\ Len(history') = n /\ history'[n].by = p
      /\ \A i \in 1..Len(history) : history'[i] = history[i]
  <2>1. history' = Append(history, new)
    BY DEF ApplyCommit
  <2>2. history'[n] = new
    BY <1>5, <2>1 DEF TypeOK
  <2> QED
    BY <1>5, <2>1, <2>2 DEF TypeOK
<1>7. TypeOK'
  BY <1>4, <1>6 DEF TypeOK, ApplyCommit, caseVars
<1>8. Numbered' /\ Count' = Count
  BY DEF Numbered, Count, ApplyCommit, caseVars
<1>9. Rows'
  <2>1. AppliedHasCommit'
    BY <1>1, <1>6 DEF Rows, AppliedHasCommit, ApplyCommit
  <2>2. test'.commit <= Len(history')
    BY <1>1, <1>6 DEF Rows, TypeOK, ApplyCommit
  <2> QED
    BY <1>8, <2>1, <2>2 DEF Rows, NoFalseAlarm, ApplyCommit, caseVars
<1>10. Grows
  BY <1>1, <1>6, <1>8 DEF TypeOK, Grows, CaseRow, ApplyCommit, caseVars
<1>11. s.pc = "recording" /\ s.commit = n /\ s.proposal = p
       /\ s.decision = handler[h].decision /\ s.text = handler[h].text
  BY <1>1, <1>3 DEF HandlerState
<1>12. handler[h].decision = "APPLIED"
  BY <1>1 DEF HandlerOK, Applies
<1>13. HandlerOK(s)'
  BY <1>1, <1>2, <1>6, <1>8, <1>11, <1>12
  DEF HandlerOK, ReadsRow, HasModel, ReadsModels, Applies, ApplyCommit, caseVars
<1> QED
  BY <1>4, <1>7, <1>8, <1>9, <1>10, <1>13, SharedStep

LEMMA RecordPreserves ==
  ASSUME IInv, NEW h \in Handlers, RecordTest(h)
  PROVE  IInv'
<1> USE DEF IInv
<1> DEFINE p == handler[h].proposal
<1>1. /\ handler[h] \in HandlerState /\ HandlerOK(handler[h]) /\ handler[h].pc = "recording"
      /\ Count \in Nat /\ Len(history) \in Nat
  BY CountType DEF TypeOK, RecordTest, At
<1>2. /\ p \in Proposals /\ handler[h].decision = "APPLIED" /\ models # {}
      /\ handler[h].commit \in 1..Len(history) /\ history[handler[h].commit].by = p
  BY <1>1 DEF HandlerOK, Applies, HasModel
<1>3. PICK s \in HandlerState : s = [handler[h] EXCEPT !.pc = "deciding"]
  BY <1>1 DEF HandlerState
<1>4. handler' = [handler EXCEPT ![h] = s]
  BY <1>3 DEF RecordTest, Goto
<1>5. /\ proposal[p].model \in Nat /\ proposal[p].model <= Count
      /\ handler[h].commit \in Nat /\ handler[h].commit # 0
      /\ handler[h].commit <= Len(history)
  <2>1. proposal[p].model \in Nat /\ proposal[p].model <= Count
    BY <1>2 DEF TypeOK, CodeGeneration, Rows
  <2>2. handler[h].commit \in Nat
    BY <1>1 DEF HandlerState
  <2> QED
    BY <1>1, <1>2, <2>1, <2>2
<1>6. test' \in [commit : Nat, model : Nat] /\ test'.commit = handler[h].commit
      /\ test'.model = proposal[p].model
  BY <1>5 DEF RecordTest
<1>7. TypeOK'
  BY <1>4, <1>6 DEF TypeOK, RecordTest, caseVars, gitVars
<1>8. Numbered' /\ Count' = Count
  BY DEF Numbered, Count, RecordTest, caseVars
<1>9. Rows'
  BY <1>2, <1>5, <1>6, <1>8
  DEF Rows, NoFalseAlarm, AppliedHasCommit, RecordTest, caseVars, gitVars
<1>10. Grows
  BY <1>1, <1>5, <1>6, <1>8 DEF TypeOK, Grows, CaseRow, RecordTest, caseVars, gitVars
<1>11. /\ s.pc = "deciding" /\ s.commit = handler[h].commit /\ s.proposal = p
       /\ s.decision = handler[h].decision /\ s.text = handler[h].text
  BY <1>1, <1>3 DEF HandlerState
<1>12. HandlerOK(s)'
  BY <1>1, <1>2, <1>5, <1>6, <1>8, <1>11
  DEF HandlerOK, ReadsRow, HasModel, ReadsModels, Applies, Decision, RecordTest, caseVars, gitVars
<1> QED
  BY <1>4, <1>7, <1>8, <1>9, <1>10, <1>12, SharedStep

LEMMA MarkPreserves ==
  ASSUME IInv, NEW h \in Handlers, MarkCommitted(h)
  PROVE  IInv'
<1> USE DEF IInv
<1>1. /\ handler[h] \in HandlerState /\ HandlerOK(handler[h]) /\ handler[h].pc = "marking"
      /\ Count \in Nat /\ row \in CaseRow
  BY CountType DEF TypeOK, MarkCommitted, At
<1>2. /\ handler[h].proposal \in Proposals /\ handler[h].decision = "APPLIED" /\ models # {}
      /\ handler[h].commit \in 1..Len(history)
      /\ history[handler[h].commit].by = handler[h].proposal
      /\ test.commit # 0
  BY <1>1 DEF HandlerOK, Applies, HasModel
<1>3. PICK s \in HandlerState : s = [handler[h] EXCEPT !.pc = "saving"]
  BY <1>1 DEF HandlerState
<1>4. handler' = [handler EXCEPT ![h] = s]
  BY <1>3 DEF MarkCommitted, Goto
<1>5. /\ row' \in CaseRow /\ row'.status = "COMMITTED"
      /\ row'.outOfDate => row.outOfDate
      /\ row' = row \/ row'.version = row.version + 1
  <2>1. CASE UNCHANGED row
    BY <1>1, <2>1 DEF MarkCommitted, SaveRow, CaseRow
  <2>2. CASE row' = [status |-> "COMMITTED", outOfDate |-> FALSE, version |-> row.version + 1]
    BY <1>1, <2>2 DEF CaseRow, AutomationStatus
  <2>3. UNCHANGED row => row.status = "COMMITTED"
    BY <1>1 DEF MarkCommitted, SaveRow, CaseRow
  <2> QED
    BY <2>1, <2>2, <2>3 DEF MarkCommitted, SaveRow
<1>6. TypeOK'
  BY <1>4, <1>5 DEF TypeOK, MarkCommitted, gitVars
<1>7. Numbered' /\ Count' = Count
  BY DEF Numbered, Count, MarkCommitted
<1>8. Rows'
  BY <1>2, <1>5, <1>7 DEF Rows, NoFalseAlarm, AppliedHasCommit, MarkCommitted, gitVars
<1>9. Grows
  BY <1>1, <1>5, <1>7 DEF TypeOK, Grows, CaseRow, MarkCommitted, gitVars
<1>10. /\ s.pc = "saving" /\ s.commit = handler[h].commit
       /\ s.proposal = handler[h].proposal
       /\ s.decision = handler[h].decision /\ s.text = handler[h].text
  BY <1>1, <1>3 DEF HandlerState
<1>11. HandlerOK(s)'
  BY <1>1, <1>2, <1>5, <1>7, <1>10
  DEF HandlerOK, ReadsRow, HasModel, ReadsModels, Applies, Decision, MarkCommitted, gitVars
<1> QED
  BY <1>4, <1>6, <1>7, <1>8, <1>9, <1>11, SharedStep

-----------------------------------------------------------------------------
(* The theorems.                                                           *)

LEMMA StutterPreserves == ASSUME IInv, UNCHANGED vars PROVE IInv'
<1>1. Count' = Count
  BY DEF Count, vars, caseVars
<1> QED
  BY <1>1
  DEF IInv, TypeOK, Numbered, Rows, NoFalseAlarm, AppliedHasCommit, HandlerOK, ReadsRow, HasModel,
      ReadsModels, Applies, vars, caseVars, gitVars

LEMMA NextPreserves == IInv /\ [Next]_vars => IInv'
<1> SUFFICES ASSUME IInv, [Next]_vars PROVE IInv'
  OBVIOUS
<1>1. ASSUME NEW h \in Handlers, Handle(h) PROVE IInv'
  BY <1>1, EditPreserves, StorePreserves, ReadsPreserve, DecisionReadsPreserve,
     ProposalsPreserve, CompletePreserves, WritePreserves, CommitPreserves, RecordPreserves,
     MarkPreserves
  DEF Handle
<1> QED
  BY <1>1, StutterPreserves DEF Next

LEMMA IInvHolds == Spec => []IInv
  BY InitIInv, NextPreserves, PTL DEF Spec

(* Every row, file and handler stays of its type.                          *)
THEOREM TypesHold == Spec => []TypeOK
<1>1. IInv => TypeOK
  BY DEF IInv
<1> QED
  BY <1>1, IInvHolds, PTL

(* However applications overlap, the commit an applied proposal names was   *)
(* made for it (CodeGenerationService.apply and complete).                 *)
THEOREM ApplicationsHaveCommits == Spec => []AppliedHasCommit
<1>1. IInv => AppliedHasCommit
  BY DEF IInv, Rows
<1> QED
  BY <1>1, IInvHolds, PTL

(* A case with an applied proposal is COMMITTED, and a COMMITTED one has a  *)
(* commit and a model that a run can find (AutomationTestService.record,    *)
(* TestCaseService.markCommitted).                                         *)
THEOREM CommittedCasesRun == Spec => []CommittedCaseCanRun
<1>1. ASSUME IInv PROVE CommittedCaseCanRun
  <2>1. Count \in Nat /\ test.commit \in Nat /\ test.model \in Nat /\ Len(history) \in Nat
    BY <1>1, CountType DEF IInv, TypeOK
  <2>2. ASSUME row.status = "COMMITTED" PROVE test.commit \in 1..Len(history)
    BY <1>1, <2>1, <2>2 DEF IInv, Rows
  <2>3. ASSUME test.model # 0 PROVE \E m \in models : m.number = test.model
    <3>1. test.model \in 1..Count
      BY <1>1, <2>1, <2>3 DEF IInv, Rows
    <3> QED
      BY <1>1, <3>1 DEF IInv, Numbered
  <2> QED
    BY <1>1, <2>2, <2>3 DEF IInv, Rows, CommittedCaseCanRun
<1> QED
  BY <1>1, IInvHolds, PTL

(* A case is NOT_AUTOMATED exactly as long as it has no IR, and versions    *)
(* are numbered without a gap (TestModelStore.store, the unique constraint).*)
THEOREM StatusIsOfModels == Spec => []StatusFollowsModels
<1>1. IInv => StatusFollowsModels
  BY DEF IInv, Rows, Numbered, Count, StatusFollowsModels
<1> QED
  BY <1>1, IInvHolds, PTL

(* A case is flagged out of date only while no version of its IR is of its  *)
(* current text (TestCaseService.update, markModelled and the row's        *)
(* @Version).                                                              *)
THEOREM NoCaseIsFlaggedInVain == Spec => []NoFalseAlarm
<1>1. IInv => NoFalseAlarm
  BY DEF IInv, Rows
<1> QED
  BY <1>1, IInvHolds, PTL

(* A repair never supersedes a decided proposal                            *)
(* (CodeGenerationService.storeRepair).                                    *)
THEOREM RepairsRespectDecisions == Spec => DecisionsAreNotSuperseded
<1> DEFINE Respected == \A p \in Proposals : proposal[p].status \in Decision =>
                          proposal'[p].status # "SUPERSEDED"
<1>1. ASSUME IInv, [Next]_vars PROVE [Respected]_vars
  <2>1. ASSUME NEW h \in Handlers, Handle(h), NEW p \in Proposals,
               proposal[p].status \in Decision
        PROVE  proposal'[p].status # "SUPERSEDED"
    <3>1. CASE UNCHANGED proposal
      BY <2>1, <3>1 DEF Decision
    <3>2. ASSUME NEW q \in Proposals, GenerateStore(h, q) PROVE proposal'[p] = proposal[p]
      BY <1>1, <2>1, <3>2 DEF GenerateStore, IInv, TypeOK, Decision
    <3>3. ASSUME NEW q \in Proposals, RepairCommit(h, q) PROVE proposal'[p] = proposal[p]
      <4>1. p # q /\ p \notin handler[h].seen
        BY <2>1, <3>3 DEF RepairCommit, StillLive, Live, Decision
      <4> QED
        BY <3>3, <4>1 DEF RepairCommit
    <3>4. ASSUME CompleteSave(h) PROVE proposal'[p].status \in Decision
      <4>1. handler[h].decision \in Decision /\ handler[h].proposal \in Proposals
        BY <1>1, <3>4 DEF IInv, HandlerOK, Applies, CompleteSave, At
      <4>2. CASE p = handler[h].proposal
        BY <1>1, <3>4, <4>1, <4>2 DEF CompleteSave, IInv, TypeOK, CodeGeneration
      <4>3. CASE p # handler[h].proposal
        BY <1>1, <2>1, <3>4, <4>1, <4>3 DEF CompleteSave, IInv, TypeOK
      <4> QED
        BY <4>2, <4>3
    <3>5. \/ UNCHANGED proposal
          \/ \E q \in Proposals : GenerateStore(h, q) \/ RepairCommit(h, q)
          \/ CompleteSave(h)
      BY <2>1
      DEF Handle, EditRead, EditCommit, ModelRead, StoreRead, ReplaceRead, Storing, StoreCommit,
          GenerateRead, RepairRead, RepairSupersede, ApplyRead, ApplyWrite, ApplyCommit,
          RecordTest, RejectRead, CompleteRead, MarkCommitted, Fail
    <3> QED
      BY <2>1, <3>1, <3>2, <3>3, <3>4, <3>5 DEF Decision
  <2> QED
    BY <1>1, <2>1 DEF Next
<1> QED
  BY <1>1, IInvHolds, PTL DEF Spec, DecisionsAreNotSuperseded

=============================================================================
