------------------------ MODULE CaseWorkspace_proofs ------------------------
(* Of the automation workspace, for any proposals, corrections, models and  *)
(* number of calls: its types, that what is committed is what was shown,    *)
(* that the diff of every file on screen is right, and that the dots and    *)
(* the stage agree.                                                        *)
EXTENDS CaseWorkspace, FiniteSetTheorems, WellFoundedInduction, TLAPS

-----------------------------------------------------------------------------
(* The inductive invariant.  Its parts are stated of the proposals gs, the  *)
(* number n of Test Models and whether the case is imported.                *)

GenRecords == [model : Nat, files : FileMaps,
               status : {"PROPOSED", "APPLIED", "REJECTED", "SUPERSEDED"}]
CommitRecords == [body : FileMaps, shown : FileMaps, pushed : BOOLEAN, asked : BOOLEAN]

ModelViews == [version : Nat, document : Documents,
               coverage : {Coverage(d, m) : d \in Documents, m \in 0 .. MaxSteps}]
FileViews == [status : {"NEW", "UNCHANGED", "MODIFIED"}, contents : Bodies,
              previous : Bodies \cup {Absent}]
ProposalViews == [id : Nat, modelVersion : Nat,
                  files : UNION {[S -> FileViews] : S \in SUBSET Paths}]
Data == {Nothing, None} \cup CaseRecords \cup ModelViews \cup ProposalViews

ApplyInputs  == [id : Nat, push : BOOLEAN, edits : FileMaps, shown : FileMaps]
RejectInputs == [id : Nat]
CallRecords == [kind : Kinds \cup {Nothing},
                input : {Nothing} \cup ApplyInputs \cup RejectInputs,
                phase : {"sent", "begun", "answered", "done"},
                read : {Nothing} \cup Nat \cup FileMaps,
                ok : BOOLEAN, says : Data, heard : BOOLEAN]
EditMaps == UNION {[S -> [contents : Corrections, typedOn : Nat]] : S \in SUBSET Paths}

(* The coverage a model comes with was computed from its document.          *)
ModelOK(v) == v \in ModelViews /\ \E m \in 0 .. MaxSteps : v.coverage = Coverage(v.document, m)

(* A proposal on its way to the workspace, or there, is one the API holds,  *)
(* with the bodies it was stored with.                                     *)
ProposalOK(v, gs) ==
  /\ v \in ProposalViews /\ v.id \in DOMAIN gs
  /\ DOMAIN v.files = DOMAIN gs[v.id].files
  /\ \A p \in DOMAIN v.files : v.files[p].contents = gs[v.id].files[p]

DataOK(k, d, gs, imported) ==
  d \notin {Nothing, None} =>
    /\ k = "case" => d \in CaseRecords /\ imported
    /\ k = "model" => ModelOK(d)
    /\ k = "proposal" => ProposalOK(d, gs)

SaysOK(kind, says, gs, imported) ==
  /\ kind = "import"   => says \in CaseRecords /\ imported
  /\ kind = "model"    => ModelOK(says)
  /\ kind = "generate" => ProposalOK(says, gs)

(* What an Apply sends is what was on screen, and is what it will write.    *)
ApplyOK(c, gs) ==
  /\ c.input \in ApplyInputs /\ c.input.id \in DOMAIN gs
  /\ c.input.shown = WithEdits(gs[c.input.id].files, c.input.edits)
  /\ c.phase = "begun" => c.read = c.input.shown

CallOK(c, gs, n, imported) ==
  /\ c \in CallRecords
  /\ c.kind \in {"model", "generate"} => imported
  /\ c.kind = "generate" /\ c.phase = "begun" => c.read \in 0 .. n
  /\ c.kind = "apply" => ApplyOK(c, gs)
  /\ c.kind = "reject" => c.input \in RejectInputs /\ c.input.id \in DOMAIN gs
  /\ c.phase = "answered" /\ c.ok => SaysOK(c.kind, c.says, gs, imported)

ServerOK ==
  /\ case \in {None} \cup CaseRecords
  /\ models \in Seq(Documents)
  /\ gens \in Seq(GenRecords)
  /\ \A g \in DOMAIN gens : gens[g].model <= Len(models)
  /\ models # <<>> \/ gens # <<>> => Imported
  /\ repo \in [Paths -> Bodies \cup {Absent}]

CommitsOK ==
  /\ commits \in Seq(CommitRecords)
  /\ CommitsWhatWasShown

ReadsOK ==
  /\ cache \in [Keys -> Data] /\ errored \subseteq Keys
  /\ request \in [Keys -> [phase : {"none", "asked", "answered"}, data : Data]]
  /\ \A k \in Keys : /\ DataOK(k, cache[k], gens, Imported)
                     /\ DataOK(k, request[k].data, gens, Imported)

EditsOK == edits \in EditMaps

CallsOK ==
  /\ calls \in Seq(CallRecords)
  /\ \A n \in DOMAIN calls : CallOK(calls[n], gens, Len(models), Imported)

IInv == ServerOK /\ CommitsOK /\ ReadsOK /\ EditsOK /\ CallsOK

-----------------------------------------------------------------------------
(* The newest of some numbers.                                             *)

Less == {p \in Nat \X Nat : p[1] < p[2]}

LEMMA LessIsWellFounded == IsWellFoundedOn(Less, Nat)
<1>1. OpToRel(<, Nat) = Less
  BY Zenon DEF OpToRel, Less
<1> QED
  BY <1>1, NatLessThanWellFounded, Zenon

LEMMA Greatest ==
  ASSUME NEW n \in Nat, NEW T \in SUBSET (1 .. n), T # {}
  PROVE  \E x \in T : \A y \in T : y <= x
<1> DEFINE D == {k \in 0 .. n : n - k \in T}
<1>1. D \subseteq Nat /\ D # {}
  <2>1. PICK x \in T : TRUE
    OBVIOUS
  <2>2. x \in 1 .. n
    OBVIOUS
  <2>3. PICK j \in 0 .. n : n - j = x
    BY <2>2, n - x \in 0 .. n, n - (n - x) = x
  <2>4. j \in D
    BY <2>3
  <2> QED
    BY <2>4
<1>2. PICK k \in D : \A j \in D : ~(<<j, k>> \in Less)
  BY <1>1, LessIsWellFounded, WFMin
<1>3. ASSUME NEW y \in T
      PROVE  y <= n - k
  <2>1. n - y \in D
    <3>1. y \in 1 .. n
      OBVIOUS
    <3>2. n - y \in 0 .. n /\ n - (n - y) = y
      BY <3>1
    <3> QED
      BY <3>2
  <2>2. ~(n - y < k)
    BY <1>2, <2>1, <1>1 DEF Less
  <2> QED
    BY <2>2
<1> QED
  BY <1>2, <1>3

LEMMA NewestIsLive ==
  ASSUME ServerOK, Live # {}
  PROVE  NewestLive \in Live
<1>1. Len(gens) \in Nat /\ Live \subseteq 1 .. Len(gens)
  BY DEF ServerOK, Live
<1>2. \E g \in Live : \A h \in Live : h <= g
  BY <1>1, Greatest
<1> QED
  BY <1>2 DEF NewestLive

-----------------------------------------------------------------------------
(* Files.                                                                  *)

LEMMA FilesAre ==
  ASSUME NEW f \in FileMaps
  PROVE  /\ DOMAIN f \subseteq Paths /\ f = [p \in DOMAIN f |-> f[p]]
         /\ \A p \in DOMAIN f : f[p] \in Bodies
  BY DEF FileMaps

LEMMA AreFiles ==
  ASSUME NEW S \in SUBSET Paths, NEW f \in [S -> Bodies]
  PROVE  f \in FileMaps
  BY DEF FileMaps

LEMMA EditsAre ==
  ASSUME NEW f \in EditMaps
  PROVE  /\ DOMAIN f \subseteq Paths
         /\ \A p \in DOMAIN f : f[p].contents \in Corrections /\ f[p].typedOn \in Nat
         /\ f \in [DOMAIN f -> [contents : Corrections, typedOn : Nat]]
  BY DEF EditMaps

LEMMA WithEditsIsFiles ==
  ASSUME NEW f \in FileMaps, NEW e \in FileMaps
  PROVE  WithEdits(f, e) \in FileMaps /\ DOMAIN WithEdits(f, e) = DOMAIN f
<1>1. WithEdits(f, e) \in [DOMAIN f -> Bodies]
  BY FilesAre DEF WithEdits
<1> QED
  BY <1>1, FilesAre, AreFiles

LEMMA DescribedIsView ==
  ASSUME ServerOK, NEW p \in Paths, NEW c \in Bodies
  PROVE  Described(p, c) \in FileViews /\ Described(p, c).contents = c
<1>1. repo[p] \in Bodies \cup {Absent}
  BY DEF ServerOK
<1> QED
  BY <1>1 DEF Described, FileStatus, FileViews

(* What the API answers of a proposal it holds, or stores.                  *)
LEMMA ViewIsProposal ==
  ASSUME ServerOK, NEW gs, NEW g \in Nat, g \in DOMAIN gs, NEW f \in FileMaps,
         gs[g].files = f, NEW n \in Nat
  PROVE  ProposalOK([id |-> g, modelVersion |-> n,
                     files |-> [p \in DOMAIN f |-> Described(p, f[p])]], gs)
<1> DEFINE described == [p \in DOMAIN f |-> Described(p, f[p])]
           v == [id |-> g, modelVersion |-> n, files |-> described]
<1>1. described \in [DOMAIN f -> FileViews] /\ DOMAIN f \in SUBSET Paths
  BY FilesAre, DescribedIsView
<1>2. described \in UNION {[S -> FileViews] : S \in SUBSET Paths}
  BY <1>1
<1>3. \A p \in DOMAIN f : described[p].contents = f[p]
  BY FilesAre, DescribedIsView
<1>4. DOMAIN described = DOMAIN f
  OBVIOUS
<1> HIDE DEF described
<1>5. v \in ProposalViews /\ v.id = g /\ v.files = described
  BY <1>2 DEF ProposalViews
<1> QED
  BY <1>3, <1>4, <1>5 DEF ProposalOK, described

LEMMA CoverageIsModel ==
  ASSUME NEW n \in Nat, NEW d \in Documents, NEW m \in 0 .. MaxSteps
  PROVE  ModelOK([version |-> n, document |-> d, coverage |-> Coverage(d, m)])
  BY DEF ModelOK, ModelViews

-----------------------------------------------------------------------------
(* Proposals are only added, and their files stay.                         *)

Extends(gs, hs) == \A g \in DOMAIN gs : g \in DOMAIN hs /\ hs[g].files = gs[g].files

LEMMA ProposalLater ==
  ASSUME NEW gs, NEW hs, Extends(gs, hs), NEW v, ProposalOK(v, gs)
  PROVE  ProposalOK(v, hs)
  BY DEF Extends, ProposalOK

LEMMA DataLater ==
  ASSUME NEW gs, NEW hs, Extends(gs, hs), NEW a \in BOOLEAN, NEW b \in BOOLEAN, a => b,
         NEW k, NEW d, DataOK(k, d, gs, a)
  PROVE  DataOK(k, d, hs, b)
  BY ProposalLater DEF DataOK

LEMMA CallLater ==
  ASSUME NEW gs, NEW hs, Extends(gs, hs), NEW n \in Nat, NEW m \in Nat, n <= m,
         NEW a \in BOOLEAN, NEW b \in BOOLEAN, a => b, NEW c, CallOK(c, gs, n, a)
  PROVE  CallOK(c, hs, m, b)
<1>1. c.kind = "generate" /\ c.phase = "begun" => c.read \in 0 .. m
  BY DEF CallOK
<1>2. c.kind = "apply" => ApplyOK(c, hs)
  BY DEF CallOK, ApplyOK, Extends
<1>3. c.kind = "reject" => c.input \in RejectInputs /\ c.input.id \in DOMAIN hs
  BY DEF CallOK, Extends
<1>4. c.phase = "answered" /\ c.ok => SaysOK(c.kind, c.says, hs, b)
  BY ProposalLater DEF CallOK, SaysOK
<1> QED
  BY <1>1, <1>2, <1>3, <1>4 DEF CallOK

Grows == /\ Extends(gens, gens') /\ Len(models) <= Len(models') /\ Imported \in BOOLEAN
         /\ Len(models) \in Nat /\ Len(models') \in Nat /\ (Imported => Imported')

LEMMA ReadsLater ==
  ASSUME ReadsOK, Grows, UNCHANGED reads
  PROVE  ReadsOK'
<1>1. \A k \in Keys : /\ DataOK(k, cache[k], gens', Imported')
                      /\ DataOK(k, request[k].data, gens', Imported')
  BY DataLater DEF ReadsOK, Grows, Imported
<1> QED
  BY <1>1 DEF ReadsOK, reads

LEMMA CallsLater ==
  ASSUME CallsOK, Grows
  PROVE  \A n \in DOMAIN calls : CallOK(calls[n], gens', Len(models'), Imported')
<1>1. Imported' \in BOOLEAN
  BY DEF Imported
<1> QED
  BY <1>1, CallLater DEF CallsOK, Grows

-----------------------------------------------------------------------------
(* What a step does to the calls and to the reads.                         *)

LEMMA OneCall ==
  ASSUME CallsOK, Grows, NEW n \in DOMAIN calls, NEW d,
         CallOK(d, gens', Len(models'), Imported'), calls' = [calls EXCEPT ![n] = d]
  PROVE  CallsOK'
<1>1. d \in CallRecords
  BY DEF CallOK
<1>2. calls' \in Seq(CallRecords) /\ DOMAIN calls' = DOMAIN calls
  BY <1>1 DEF CallsOK
<1>3. \A m \in DOMAIN calls : calls'[m] = IF m = n THEN d ELSE calls[m]
  BY DEF CallsOK
<1> QED
  BY <1>2, <1>3, CallsLater DEF CallsOK

LEMMA AnsweredIsCall ==
  ASSUME NEW c, NEW gs, NEW n, NEW a, CallOK(c, gs, n, a), NEW d \in CallRecords,
         d.kind = c.kind, d.input = c.input, d.phase = "answered",
         d.ok => SaysOK(c.kind, d.says, gs, a)
  PROVE  CallOK(d, gs, n, a)
  BY DEF CallOK, ApplyOK

LEMMA EndsStep ==
  ASSUME CallsOK, Grows, NEW n \in DOMAIN calls, NEW ok \in BOOLEAN, NEW says \in Data,
         Ends(n, ok, says), ok => SaysOK(calls[n].kind, says, gens', Imported')
  PROVE  CallsOK'
<1> DEFINE c == calls[n]
           c1 == [c EXCEPT !.phase = "answered"]
           c2 == [c1 EXCEPT !.ok = ok]
           c3 == [c2 EXCEPT !.says = says]
<1>1. c \in CallRecords /\ CallOK(c, gens', Len(models'), Imported')
  BY CallsLater DEF CallsOK
<1>2. calls' = [calls EXCEPT ![n] = c3]
  <2>1. calls' = [[[calls EXCEPT ![n].phase = "answered"] EXCEPT ![n].ok = ok]
                    EXCEPT ![n].says = says]
    BY DEF Ends
  <2> QED
    BY <2>1 DEF CallsOK
<1> HIDE DEF c
<1>3. c1 \in CallRecords /\ c1.kind = c.kind /\ c1.input = c.input /\ c1.phase = "answered"
  BY <1>1 DEF CallRecords
<1> HIDE DEF c1
<1>4. /\ c2 \in CallRecords /\ c2.kind = c.kind /\ c2.input = c.input
      /\ c2.phase = "answered" /\ c2.ok = ok
  BY <1>3 DEF CallRecords
<1> HIDE DEF c2
<1>5. /\ c3 \in CallRecords /\ c3.kind = c.kind /\ c3.input = c.input
      /\ c3.phase = "answered" /\ c3.ok = ok /\ c3.says = says
  BY <1>4 DEF CallRecords
<1> HIDE DEF c3
<1>6. CallOK(c3, gens', Len(models'), Imported')
  BY <1>1, <1>5, AnsweredIsCall DEF c
<1> QED
  BY <1>2, <1>6, OneCall

LEMMA ReadsStep ==
  ASSUME CallsOK, Grows, NEW n \in DOMAIN calls, NEW read \in Nat \cup FileMaps,
         Reads(n, read), calls[n].kind = "generate" => read \in 0 .. Len(models'),
         calls[n].kind = "apply" => read = calls[n].input.shown
  PROVE  CallsOK'
<1> DEFINE c == calls[n]
           c1 == [c EXCEPT !.phase = "begun"]
           c2 == [c1 EXCEPT !.read = read]
<1>1. c \in CallRecords /\ CallOK(c, gens', Len(models'), Imported')
  BY CallsLater DEF CallsOK
<1>2. calls' = [calls EXCEPT ![n] = c2]
  <2>1. calls' = [[calls EXCEPT ![n].phase = "begun"] EXCEPT ![n].read = read]
    BY DEF Reads
  <2> QED
    BY <2>1 DEF CallsOK
<1>3. c.kind = "generate" => read \in 0 .. Len(models')
  OBVIOUS
<1>4. c.kind = "apply" => read = c.input.shown
  OBVIOUS
<1> HIDE DEF c
<1>5. c1 \in CallRecords /\ c1.kind = c.kind /\ c1.input = c.input /\ c1.phase = "begun"
  BY <1>1 DEF CallRecords
<1> HIDE DEF c1
<1>6. /\ c2 \in CallRecords /\ c2.kind = c.kind /\ c2.input = c.input
      /\ c2.phase = "begun" /\ c2.read = read
  BY <1>5 DEF CallRecords
<1> HIDE DEF c2
<1>7. CallOK(c2, gens', Len(models'), Imported')
  BY <1>1, <1>3, <1>4, <1>6 DEF CallOK, ApplyOK
<1> QED
  BY <1>2, <1>7, OneCall

LEMMA FinishedIsCall ==
  ASSUME NEW gs, NEW n, NEW a
  PROVE  CallOK(Finished, gs, n, a)
<1>1. Finished \in CallRecords
  BY DEF Finished, Call, CallRecords, Data
<1> QED
  BY <1>1, WorkspaceAssumption DEF CallOK, Finished, Call, Kinds, PanelKinds

LEMMA DoneStep ==
  ASSUME CallsOK, Grows, NEW n \in DOMAIN calls, calls' = Done(n)
  PROVE  CallsOK'
  BY FinishedIsCall, OneCall DEF Done

LEMMA SendStep ==
  ASSUME CallsOK, Grows, NEW d, CallOK(d, gens', Len(models'), Imported'),
         calls' = Append(calls, d)
  PROVE  CallsOK'
<1>1. d \in CallRecords
  BY DEF CallOK
<1>2. /\ calls' \in Seq(CallRecords) /\ DOMAIN calls' = 1 .. Len(calls) + 1
      /\ calls'[Len(calls) + 1] = d
      /\ \A m \in DOMAIN calls : calls'[m] = calls[m]
  BY <1>1 DEF CallsOK
<1>3. \A m \in DOMAIN calls' : m \in DOMAIN calls \/ m = Len(calls) + 1
  BY <1>2 DEF CallsOK
<1> QED
  BY <1>2, <1>3, CallsLater DEF CallsOK

(* Whether a call is still heard says nothing of what it does.              *)
LEMMA HeardIsCall ==
  ASSUME NEW c, NEW gs, NEW n, NEW a, CallOK(c, gs, n, a), NEW heard \in BOOLEAN
  PROVE  CallOK([c EXCEPT !.heard = heard], gs, n, a)
<1> DEFINE d == [c EXCEPT !.heard = heard]
<1>1. c \in CallRecords
  BY DEF CallOK
<1>2. /\ d \in CallRecords /\ d.kind = c.kind /\ d.input = c.input /\ d.phase = c.phase
      /\ d.read = c.read /\ d.ok = c.ok /\ d.says = c.says
  BY <1>1 DEF CallRecords
<1> HIDE DEF d
<1>3. CallOK(d, gs, n, a)
  BY <1>2 DEF CallOK, ApplyOK
<1> QED
  BY <1>3 DEF d

(* Reads keep what they have, lose it, take what was answered, or are given *)
(* what an answer brings.                                                  *)
LEMMA ReadsSet ==
  ASSUME ReadsOK, Grows, cache' \in [Keys -> Data], errored' \subseteq Keys,
         request' \in [Keys -> [phase : {"none", "asked", "answered"}, data : Data]],
         \A k \in Keys : \/ cache'[k] \in {Nothing, None, cache[k], request[k].data}
                        \/ DataOK(k, cache'[k], gens', Imported'),
         \A k \in Keys : \/ request'[k].data \in {Nothing, request[k].data}
                        \/ DataOK(k, request'[k].data, gens', Imported')
  PROVE  ReadsOK'
<1>1. \A k \in Keys : /\ DataOK(k, cache[k], gens', Imported')
                      /\ DataOK(k, request[k].data, gens', Imported')
  BY DataLater DEF ReadsOK, Grows, Imported
<1>2. \A k \in Keys : /\ DataOK(k, Nothing, gens', Imported')
                      /\ DataOK(k, None, gens', Imported')
  BY DEF DataOK
<1>3. \A k \in Keys : /\ DataOK(k, cache'[k], gens', Imported')
                      /\ DataOK(k, request'[k].data, gens', Imported')
  BY <1>1, <1>2
<1> QED
  BY <1>3 DEF ReadsOK

-----------------------------------------------------------------------------
(* Steps that leave the API alone.                                         *)

LEMMA ServerKept ==
  ASSUME IInv, UNCHANGED server
  PROVE  ServerOK' /\ CommitsOK' /\ Grows
<1>1. UNCHANGED <<case, models, gens, repo, commits>>
  BY DEF server
<1>2. ServerOK' /\ CommitsOK'
  BY <1>1 DEF IInv, ServerOK, CommitsOK, CommitsWhatWasShown, Imported
<1>3. Grows
  BY <1>1 DEF Grows, Extends, Imported, IInv, ServerOK
<1> QED
  BY <1>2, <1>3

LEMMA RequestFacts ==
  ASSUME ReadsOK
  PROVE  /\ Idle \in [phase : {"none", "asked", "answered"}, data : Data]
         /\ Asked \in [phase : {"none", "asked", "answered"}, data : Data]
         /\ Idle.data = Nothing /\ Asked.data = Nothing
         /\ \A k \in Keys : request[k].data \in Data
         /\ Nothing \in Data /\ None \in Data
  BY DEF Idle, Asked, ReadsOK, Data

LEMMA ReadRunsStep ==
  ASSUME IInv, NEW k \in Keys, ReadRuns(k)
  PROVE  IInv'
<1>1. /\ request' = [request EXCEPT ![k] = [phase |-> "answered", data |-> Answer(k)]]
      /\ UNCHANGED <<server, cache, errored, edits, calls>>
  BY DEF ReadRuns
<1>2. ServerOK' /\ CommitsOK' /\ Grows
  BY <1>1, ServerKept
<1>3. gens' = gens /\ (Imported' <=> Imported)
  BY <1>1 DEF server, Imported
<1>4. DataOK(k, Answer(k), gens, Imported) /\ Answer(k) \in Data
  <2>1. CASE k = "case"
    BY <2>1, <1>2 DEF Answer, DataOK, IInv, ServerOK, Imported, Data
  <2>2. CASE k = "model"
    <3>1. CASE models = <<>>
      BY <2>2, <3>1 DEF Answer, DataOK, Data
    <3>2. CASE models # <<>>
      <4>1. Len(models) \in Nat /\ models[Len(models)] \in Documents /\ case.steps \in 0 .. MaxSteps
        BY <3>2 DEF IInv, ServerOK, Imported, CaseRecords
      <4>2. ModelOK(Answer(k))
        BY <2>2, <3>2, <4>1, CoverageIsModel DEF Answer, ModelView
      <4> QED
        BY <4>2, <2>2 DEF DataOK, ModelOK, Data
    <3> QED
      BY <3>1, <3>2
  <2>3. CASE k = "proposal"
    <3>1. CASE Live = {} \/ models = <<>>
      BY <2>3, <3>1 DEF Answer, DataOK, Data
    <3>2. CASE ~(Live = {} \/ models = <<>>)
      <4> DEFINE g == NewestLive
      <4>1. g \in DOMAIN gens /\ g \in Nat /\ gens[g].files \in FileMaps
        <5>1. g \in Live
          BY <3>2, NewestIsLive DEF IInv
        <5> HIDE DEF g
        <5>2. g \in DOMAIN gens /\ gens \in Seq(GenRecords)
          BY <5>1 DEF Live, IInv, ServerOK
        <5>3. g \in Nat /\ gens[g] \in GenRecords
          BY <5>2
        <5> QED
          BY <5>2, <5>3 DEF GenRecords
      <4>2. Len(models) \in Nat
        BY DEF IInv, ServerOK
      <4>3. Answer(k) = ProposalView(g, Len(models))
        BY <2>3, <3>2 DEF Answer
      <4> HIDE DEF g
      <4>4. ProposalOK(Answer(k), gens)
        BY <4>1, <4>2, <4>3, ViewIsProposal DEF ProposalView, IInv
      <4> QED
        BY <4>4, <2>3 DEF DataOK, ProposalOK, Data
    <3> QED
      BY <3>1, <3>2
  <2> QED
    BY <2>1, <2>2, <2>3 DEF Keys
<1> HIDE DEF Answer
<1>5. ReadsOK'
  <2> DEFINE r == [phase |-> "answered", data |-> Answer(k)]
  <2>1. r \in [phase : {"none", "asked", "answered"}, data : Data] /\ r.data = Answer(k)
    BY <1>4
  <2>2. request' = [request EXCEPT ![k] = r]
    BY <1>1
  <2> HIDE DEF r
  <2>3. /\ request' \in [Keys -> [phase : {"none", "asked", "answered"}, data : Data]]
        /\ \A j \in Keys : request'[j] = IF j = k THEN r ELSE request[j]
    BY <2>1, <2>2 DEF IInv, ReadsOK
  <2>4. DataOK(k, r.data, gens', Imported')
    BY <2>1, <1>3, <1>4
  <2> QED
    BY <2>3, <2>4, <1>1, <1>2, ReadsSet DEF IInv, ReadsOK
<1>6. EditsOK' /\ CallsOK'
  BY <1>1, <1>2, CallsLater DEF IInv, EditsOK, CallsOK
<1> QED
  BY <1>2, <1>5, <1>6 DEF IInv

LEMMA LocalReads ==
  ASSUME IInv, UNCHANGED <<server, edits, calls>>, ReadsOK'
  PROVE  IInv'
<1>1. ServerOK' /\ CommitsOK' /\ Grows
  BY ServerKept
<1> QED
  BY <1>1, CallsLater DEF IInv, EditsOK, CallsOK

LEMMA ReadArrivesStep ==
  ASSUME IInv, NEW k \in Keys, ReadArrives(k)
  PROVE  IInv'
<1>1. /\ cache' = [cache EXCEPT ![k] = request[k].data]
      /\ request' = [j \in Keys |->
           IF j = k THEN Idle
           ELSE IF j \in Newly(request[k].data, k) /\ request[j] = Idle THEN Asked
           ELSE request[j]]
      /\ errored' = errored \ {k}
      /\ UNCHANGED <<server, edits, calls>>
  BY DEF ReadArrives
<1>2. Grows
  BY <1>1, ServerKept
<1>3. /\ cache' \in [Keys -> Data]
      /\ \A j \in Keys : cache'[j] \in {cache[j], request[j].data}
  BY <1>1, RequestFacts DEF IInv, ReadsOK
<1>4. /\ request' \in [Keys -> [phase : {"none", "asked", "answered"}, data : Data]]
      /\ \A j \in Keys : request'[j].data \in {Nothing, request[j].data}
  BY <1>1, RequestFacts DEF IInv, ReadsOK
<1>5. ReadsOK'
  BY <1>1, <1>2, <1>3, <1>4, ReadsSet DEF IInv, ReadsOK
<1> QED
  BY <1>1, <1>5, LocalReads

LEMMA ReadFailsStep ==
  ASSUME IInv, NEW k \in Keys, ReadFails(k)
  PROVE  IInv'
<1>1. /\ request' = [request EXCEPT ![k] = Idle] /\ errored' = errored \cup {k}
      /\ UNCHANGED <<server, cache, edits, calls>>
  BY DEF ReadFails
<1>2. Grows
  BY <1>1, ServerKept
<1>3. /\ request' \in [Keys -> [phase : {"none", "asked", "answered"}, data : Data]]
      /\ \A j \in Keys : request'[j].data \in {Nothing, request[j].data}
  BY <1>1, RequestFacts DEF IInv, ReadsOK
<1>4. ReadsOK'
  BY <1>1, <1>2, <1>3, ReadsSet DEF IInv, ReadsOK
<1> QED
  BY <1>1, <1>4, LocalReads

LEMMA RetryStep ==
  ASSUME IInv, NEW k \in Keys, Retry(k)
  PROVE  IInv'
<1>1. /\ request' = [request EXCEPT ![k] = Asked]
      /\ UNCHANGED <<server, cache, errored, edits, calls>>
  BY DEF Retry
<1>2. Grows
  BY <1>1, ServerKept
<1>3. /\ request' \in [Keys -> [phase : {"none", "asked", "answered"}, data : Data]]
      /\ \A j \in Keys : request'[j].data \in {Nothing, request[j].data}
  BY <1>1, RequestFacts DEF IInv, ReadsOK
<1>4. ReadsOK'
  BY <1>1, <1>2, <1>3, ReadsSet DEF IInv, ReadsOK
<1> QED
  BY <1>1, <1>4, LocalReads

LEMMA NoEdits == <<>> \in EditMaps
<1>1. <<>> \in [{} -> [contents : Corrections, typedOn : Nat]]
  OBVIOUS
<1> QED
  BY <1>1 DEF EditMaps

(* The calls, some of them unheard from now on.                             *)
LEMMA UnheardStep ==
  ASSUME CallsOK, Grows, NEW cs \in Seq(CallRecords), DOMAIN cs = DOMAIN calls,
         \A m \in DOMAIN cs : CallOK(cs[m], gens', Len(models'), Imported'),
         calls' = [m \in DOMAIN cs |-> calls'[m]],
         \A m \in DOMAIN cs : \E heard \in BOOLEAN :
           calls'[m] \in {cs[m], [cs[m] EXCEPT !.heard = heard]}
  PROVE  CallsOK'
<1>1. \A m \in DOMAIN cs : CallOK(calls'[m], gens', Len(models'), Imported')
  BY HeardIsCall
<1>2. \A m \in DOMAIN cs : calls'[m] \in CallRecords
  BY <1>1 DEF CallOK
<1>3. DOMAIN cs = 1 .. Len(calls) /\ Len(calls) \in Nat
  BY DEF CallsOK
<1>4. calls' \in Seq(CallRecords) /\ DOMAIN calls' = DOMAIN cs
  BY <1>2, <1>3
<1> QED
  BY <1>1, <1>4 DEF CallsOK

LEMMA MountAsks ==
  ASSUME ReadsOK, NEW keys, NEW old, Mount(keys, old)
  PROVE  /\ request' \in [Keys -> [phase : {"none", "asked", "answered"}, data : Data]]
         /\ \A j \in Keys : request'[j].data \in {Nothing, request[j].data}
  BY RequestFacts DEF Mount, ReadsOK

LEMMA OpenTabStep ==
  ASSUME IInv, NEW tab \in {"case", "model", "script"}, OpenTab(tab)
  PROVE  IInv'
<1>1. UNCHANGED <<server, cache, errored>>
  BY DEF OpenTab
<1>2. ServerOK' /\ CommitsOK' /\ Grows
  BY <1>1, ServerKept
<1>3. PICK old \in SUBSET {"proposal"} :
        Mount({k \in Keys : Watches(k, tab, HasCase)} \ Watching, old)
  BY DEF OpenTab
<1>4. /\ request' \in [Keys -> [phase : {"none", "asked", "answered"}, data : Data]]
      /\ \A j \in Keys : request'[j].data \in {Nothing, request[j].data}
  BY <1>3, MountAsks DEF IInv
<1>5. ReadsOK'
  BY <1>1, <1>2, <1>4, ReadsSet DEF IInv, ReadsOK
<1>6. CASE UNCHANGED <<edits, calls>>
  BY <1>1, <1>5, <1>6, LocalReads
<1>7. CASE /\ edits' = <<>>
           /\ calls' = [n \in DOMAIN calls |->
                          IF calls[n].kind \in PanelKinds
                          THEN [calls[n] EXCEPT !.heard = FALSE] ELSE calls[n]]
  <2>1. CallsOK'
    <3>1. \A m \in DOMAIN calls : calls'[m] \in {calls[m], [calls[m] EXCEPT !.heard = FALSE]}
      BY <1>7
    <3>2. calls' = [m \in DOMAIN calls |-> calls'[m]]
      BY <1>7
    <3>3. \A m \in DOMAIN calls : CallOK(calls[m], gens', Len(models'), Imported')
      BY <1>2, CallsLater DEF IInv
    <3> QED
      BY <3>1, <3>2, <3>3, <1>2, UnheardStep DEF IInv, CallsOK
  <2>2. EditsOK'
    BY <1>7, NoEdits DEF EditsOK
  <2> QED
    BY <1>2, <1>5, <2>1, <2>2 DEF IInv
<1> QED
  BY <1>6, <1>7 DEF OpenTab, Forget

-----------------------------------------------------------------------------
(* The controls.                                                           *)

LEMMA LocalCalls ==
  ASSUME IInv, UNCHANGED <<server, reads, edits>>, CallsOK'
  PROVE  IInv'
<1>1. ServerOK' /\ CommitsOK' /\ Grows
  BY ServerKept
<1>2. ReadsOK'
  BY <1>1, ReadsLater DEF IInv
<1> QED
  BY <1>1, <1>2 DEF IInv, EditsOK

(* What a click sends.                                                     *)
LEMMA SentIsCall ==
  ASSUME NEW kind \in Kinds, NEW input \in {Nothing} \cup ApplyInputs \cup RejectInputs
  PROVE  /\ Call(kind, input, "sent") \in CallRecords
         /\ Call(kind, input, "sent").kind = kind /\ Call(kind, input, "sent").input = input
         /\ Call(kind, input, "sent").phase = "sent"
  BY DEF Call, CallRecords, Data

LEMMA SendsStep ==
  ASSUME IInv, NEW kind \in Kinds, NEW input \in {Nothing} \cup ApplyInputs \cup RejectInputs,
         Send(kind, input),
         kind \in {"model", "generate"} => Imported,
         kind = "apply" => /\ input \in ApplyInputs /\ input.id \in DOMAIN gens
                           /\ input.shown = WithEdits(gens[input.id].files, input.edits),
         kind = "reject" => input \in RejectInputs /\ input.id \in DOMAIN gens
  PROVE  IInv'
<1> DEFINE c == Call(kind, input, "sent")
<1>1. calls' = Append(calls, c) /\ UNCHANGED <<server, reads, edits>>
  BY DEF Send
<1>2. Grows /\ gens' = gens /\ (Imported' <=> Imported)
  BY <1>1, ServerKept DEF server, Imported
<1>3. c \in CallRecords /\ c.kind = kind /\ c.input = input /\ c.phase = "sent"
  BY SentIsCall
<1> HIDE DEF c
<1>4. CallOK(c, gens', Len(models'), Imported')
  BY <1>2, <1>3 DEF CallOK, ApplyOK
<1>5. CallsOK'
  BY <1>1, <1>2, <1>4, SendStep DEF IInv
<1> QED
  BY <1>1, <1>5, LocalCalls

LEMMA HasCaseIsImported ==
  ASSUME IInv, HasCase
  PROVE  Imported
<1>1. DataOK("case", cache["case"], gens, Imported)
  BY DEF IInv, ReadsOK, Keys
<1> QED
  BY <1>1 DEF HasCase, Has, DataOK

(* The proposal under review is one the API holds; what would be committed  *)
(* is what it stores with the corrections laid over.                        *)
LEMMA ReviewedIsHeld ==
  ASSUME IInv, Has("proposal")
  PROVE  LET v == cache["proposal"]
             typed == [p \in DOMAIN edits |-> edits[p].contents]
             shown == [p \in DOMAIN Files |-> Files[p].contents]
         IN  /\ v.id \in DOMAIN gens /\ v.id \in Nat
             /\ typed \in FileMaps /\ shown \in FileMaps
             /\ shown = WithEdits(gens[v.id].files, typed)
<1> DEFINE v == cache["proposal"]
           typed == [p \in DOMAIN edits |-> edits[p].contents]
           shown == [p \in DOMAIN Files |-> Files[p].contents]
           stored == gens[v.id].files
<1>1. ProposalOK(v, gens)
  <2>1. DataOK("proposal", v, gens, Imported)
    BY DEF IInv, ReadsOK, Keys
  <2> QED
    BY <2>1 DEF Has, DataOK
<1>2. v.id \in DOMAIN gens /\ v.id \in Nat /\ stored \in FileMaps
  <2>1. v.id \in DOMAIN gens /\ v.id \in Nat
    BY <1>1 DEF ProposalOK, ProposalViews
  <2>2. gens[v.id] \in GenRecords
    BY <2>1 DEF IInv, ServerOK
  <2> QED
    BY <2>1, <2>2 DEF GenRecords
<1>3. typed \in FileMaps
  <2>1. /\ DOMAIN edits \in SUBSET Paths
        /\ \A p \in DOMAIN edits : edits[p].contents \in Bodies
    BY EditsAre DEF IInv, EditsOK, Bodies
  <2>2. typed \in [DOMAIN edits -> Bodies]
    BY <2>1
  <2> QED
    BY <2>1, <2>2, AreFiles
<1>4. /\ DOMAIN v.files = DOMAIN stored
      /\ \A p \in DOMAIN v.files : v.files[p] \in FileViews /\ v.files[p].contents = stored[p]
  BY <1>1 DEF ProposalOK, ProposalViews
<1>5. DOMAIN Files = DOMAIN stored
  BY <1>4 DEF Files
<1>6. ASSUME NEW p \in DOMAIN stored
      PROVE  Files[p].contents = IF p \in DOMAIN edits THEN edits[p].contents ELSE stored[p]
  <2>1. CASE p \in DOMAIN edits
    <3> DEFINE f == v.files[p]
               f1 == [f EXCEPT !.contents = edits[p].contents]
               f2 == [f1 EXCEPT !.status = "MODIFIED"]
    <3>1. Files[p] = f2
      BY <2>1, <1>4 DEF Files
    <3>2. f \in FileViews
      BY <1>4
    <3> HIDE DEF f
    <3>3. f1.contents = edits[p].contents /\ f1 = [status |-> f.status,
             contents |-> edits[p].contents, previous |-> f.previous]
      BY <3>2 DEF FileViews
    <3> HIDE DEF f1
    <3>4. f2.contents = edits[p].contents
      BY <3>3
    <3> QED
      BY <2>1, <3>1, <3>4
  <2>2. CASE p \notin DOMAIN edits
    BY <2>2, <1>4 DEF Files
  <2> QED
    BY <2>1, <2>2
<1>7. shown = WithEdits(stored, typed)
  BY <1>5, <1>6 DEF WithEdits
<1>8. shown \in FileMaps
  BY <1>2, <1>3, <1>7, WithEditsIsFiles
<1> QED
  BY <1>2, <1>3, <1>7, <1>8

LEMMA ControlsStep ==
  ASSUME IInv,
         \/ PrepareAutomation \/ RunModelling \/ RunGeneration
         \/ (\E push \in BOOLEAN : ApplyProposal(push)) \/ RejectProposal
  PROVE  IInv'
<1>1. CASE PrepareAutomation
  BY <1>1, SendsStep DEF PrepareAutomation, Kinds, PanelKinds
<1>2. CASE RunModelling
  BY <1>2, SendsStep, HasCaseIsImported DEF RunModelling, Kinds, PanelKinds
<1>3. CASE RunGeneration
  BY <1>3, SendsStep, HasCaseIsImported DEF RunGeneration, HasModel, Kinds, PanelKinds
<1>4. ASSUME NEW push \in BOOLEAN, ApplyProposal(push)
      PROVE  IInv'
  <2> DEFINE g == cache["proposal"].id
             typed == [p \in DOMAIN edits |-> edits[p].contents]
             shown == [p \in DOMAIN Files |-> Files[p].contents]
             input == [id |-> g, push |-> push, edits |-> typed, shown |-> shown]
  <2>1. Send("apply", input) /\ Has("proposal")
    BY <1>4 DEF ApplyProposal, Reviewing
  <2>2. /\ g \in DOMAIN gens /\ g \in Nat /\ typed \in FileMaps /\ shown \in FileMaps
        /\ shown = WithEdits(gens[g].files, typed)
    BY <2>1, ReviewedIsHeld
  <2> HIDE DEF g, typed, shown
  <2>3. /\ input \in ApplyInputs /\ input.id = g /\ input.edits = typed /\ input.shown = shown
    BY <2>2 DEF ApplyInputs
  <2> HIDE DEF input
  <2> QED
    BY <2>1, <2>2, <2>3, SendsStep DEF Kinds, PanelKinds
<1>5. CASE RejectProposal
  <2> DEFINE g == cache["proposal"].id
             input == [id |-> g]
  <2>1. Send("reject", input) /\ Has("proposal")
    BY <1>5 DEF RejectProposal, Reviewing
  <2>2. g \in DOMAIN gens /\ g \in Nat
    BY <2>1, ReviewedIsHeld
  <2> HIDE DEF g
  <2>3. input \in RejectInputs /\ input.id = g
    BY <2>2 DEF RejectInputs
  <2> HIDE DEF input
  <2> QED
    BY <2>1, <2>2, <2>3, SendsStep DEF Kinds, PanelKinds
<1> QED
  BY <1>1, <1>2, <1>3, <1>4, <1>5

LEMMA LocalEdits ==
  ASSUME IInv, UNCHANGED <<server, reads, calls>>, EditsOK'
  PROVE  IInv'
<1>1. ServerOK' /\ CommitsOK' /\ Grows
  BY ServerKept
<1>2. ReadsOK'
  BY <1>1, ReadsLater DEF IInv
<1> QED
  BY <1>1, <1>2, CallsLater DEF IInv, CallsOK

LEMMA EditFileStep ==
  ASSUME IInv, NEW p \in Paths, NEW c \in Corrections, EditFile(p, c)
  PROVE  IInv'
<1> DEFINE S == DOMAIN edits \cup {p}
           e == [contents |-> c, typedOn |-> cache["proposal"].id]
<1>1. /\ edits' = [q \in S |-> IF q = p THEN e ELSE edits[q]]
      /\ UNCHANGED <<server, reads, calls>> /\ Has("proposal")
  BY DEF EditFile, Reviewing
<1>2. e \in [contents : Corrections, typedOn : Nat]
  BY <1>1, ReviewedIsHeld
<1>3. S \in SUBSET Paths
  BY EditsAre DEF IInv, EditsOK
<1> HIDE DEF e
<1>4. edits' \in [S -> [contents : Corrections, typedOn : Nat]]
  BY <1>1, <1>2, EditsAre DEF IInv, EditsOK
<1> HIDE DEF S
<1>5. EditsOK'
  BY <1>3, <1>4 DEF EditsOK, EditMaps
<1> QED
  BY <1>1, <1>5, LocalEdits

LEMMA RevertEditStep ==
  ASSUME IInv, NEW p \in Paths, RevertEdit(p)
  PROVE  IInv'
<1> DEFINE S == DOMAIN edits \ {p}
<1>1. edits' = [q \in S |-> edits[q]] /\ UNCHANGED <<server, reads, calls>>
  BY DEF RevertEdit
<1>2. S \in SUBSET Paths /\ edits' \in [S -> [contents : Corrections, typedOn : Nat]]
  BY <1>1, EditsAre DEF IInv, EditsOK
<1> HIDE DEF S
<1>3. EditsOK'
  BY <1>2 DEF EditsOK, EditMaps
<1> QED
  BY <1>1, <1>3, LocalEdits

-----------------------------------------------------------------------------
(* The answers.                                                            *)

LEMMA Answered ==
  ASSUME IInv, NEW n \in DOMAIN calls, calls[n].phase = "answered", calls[n].ok
  PROVE  SaysOK(calls[n].kind, calls[n].says, gens, Imported) /\ calls[n].says \in Data
  BY DEF IInv, CallsOK, CallOK, CallRecords

LEMMA GoneStep ==
  ASSUME IInv, NEW n \in DOMAIN calls, UNCHANGED <<server, reads, edits>>, calls' = Done(n)
  PROVE  IInv'
<1>1. Grows
  BY ServerKept
<1> QED
  BY <1>1, DoneStep, LocalCalls DEF IInv

(* What is put into the cache is what the API answered, or nothing.         *)
LEMMA PutReads ==
  ASSUME IInv, UNCHANGED server, NEW k \in Keys, NEW d \in Data, Put(k, d),
         DataOK(k, d, gens, Imported),
         request' \in [Keys -> [phase : {"none", "asked", "answered"}, data : Data]],
         \A j \in Keys : request'[j].data \in {Nothing, request[j].data}
  PROVE  ReadsOK' /\ ServerOK' /\ CommitsOK' /\ Grows
<1>1. ServerOK' /\ CommitsOK' /\ Grows /\ gens' = gens /\ case' = case
  BY ServerKept DEF server
<1>2. /\ cache' \in [Keys -> Data]
      /\ \A j \in Keys : cache'[j] = IF j = k THEN d ELSE cache[j]
      /\ errored' \subseteq Keys
  <2>1. cache' = [cache EXCEPT ![k] = d] /\ errored' = errored \ {k}
    BY DEF Put
  <2>2. cache \in [Keys -> Data] /\ errored \subseteq Keys
    BY DEF IInv, ReadsOK
  <2> QED
    BY <2>1, <2>2
<1>3. DataOK(k, d, gens', Imported')
  BY <1>1 DEF DataOK, Imported
<1>4. \A j \in Keys : \/ cache'[j] \in {Nothing, None, cache[j], request[j].data}
                      \/ DataOK(j, cache'[j], gens', Imported')
  BY <1>2, <1>3
<1> QED
  BY <1>1, <1>2, <1>4, ReadsSet DEF IInv

LEMMA ImportAnsweredStep ==
  ASSUME IInv, NEW n \in DOMAIN calls, ImportAnswered(n)
  PROVE  IInv'
<1> DEFINE d == calls[n].says
<1>1. /\ Put("case", d) /\ calls' = Done(n) /\ UNCHANGED <<server, edits>>
      /\ calls[n].kind = "import" /\ calls[n].phase = "answered" /\ calls[n].ok
      /\ request' = [k \in Keys |->
           IF k \in Newly(d, "case") /\ request[k] = Idle THEN Asked ELSE request[k]]
  BY DEF ImportAnswered, Succeeds, At
<1>2. d \in Data /\ DataOK("case", d, gens, Imported)
  BY <1>1, Answered DEF SaysOK, DataOK
<1>3. /\ request' \in [Keys -> [phase : {"none", "asked", "answered"}, data : Data]]
      /\ \A j \in Keys : request'[j].data \in {Nothing, request[j].data}
  BY <1>1, RequestFacts DEF IInv, ReadsOK
<1> HIDE DEF d
<1>4. ReadsOK' /\ ServerOK' /\ CommitsOK' /\ Grows
  BY <1>1, <1>2, <1>3, PutReads DEF Keys
<1> QED
  BY <1>1, <1>4, DoneStep DEF IInv, EditsOK

LEMMA SameRequests ==
  ASSUME IInv, UNCHANGED request
  PROVE  /\ request' \in [Keys -> [phase : {"none", "asked", "answered"}, data : Data]]
         /\ \A j \in Keys : request'[j].data \in {Nothing, request[j].data}
  BY DEF IInv, ReadsOK

LEMMA ModelAnsweredStep ==
  ASSUME IInv, NEW n \in DOMAIN calls, ModelAnswered(n)
  PROVE  IInv'
<1> DEFINE d == calls[n].says
<1>1. /\ Put("model", d) /\ UNCHANGED <<server, request>>
      /\ calls[n].kind = "model" /\ calls[n].phase = "answered" /\ calls[n].ok
  BY DEF ModelAnswered, Succeeds, At
<1>2. d \in Data /\ DataOK("model", d, gens, Imported)
  BY <1>1, Answered DEF SaysOK, DataOK
<1> HIDE DEF d
<1>3. ReadsOK' /\ ServerOK' /\ CommitsOK' /\ Grows
  BY <1>1, <1>2, SameRequests, PutReads DEF Keys
<1>4. CASE calls' = Done(n) /\ UNCHANGED edits
  BY <1>3, <1>4, DoneStep DEF IInv, EditsOK
<1>5. CASE /\ edits' = <<>>
           /\ calls' = [m \in DOMAIN calls |->
                 [Done(n)[m] EXCEPT !.heard = @ /\ Done(n)[m].kind \notin PanelKinds]]
  <2> DEFINE cs == Done(n)
  <2>1. cs \in Seq(CallRecords) /\ DOMAIN cs = DOMAIN calls
    <3>1. Finished \in CallRecords
      BY FinishedIsCall DEF CallOK
    <3> QED
      BY <3>1 DEF Done, IInv, CallsOK
  <2>2. \A m \in DOMAIN cs : CallOK(cs[m], gens', Len(models'), Imported')
    <3>1. \A m \in DOMAIN calls : cs[m] = IF m = n THEN Finished ELSE calls[m]
      BY DEF Done, IInv, CallsOK
    <3> HIDE DEF cs
    <3> QED
      BY <2>1, <3>1, <1>3, FinishedIsCall, CallsLater DEF IInv
  <2> HIDE DEF cs
  <2>3. ASSUME NEW m \in DOMAIN cs
        PROVE  \E heard \in BOOLEAN : calls'[m] \in {cs[m], [cs[m] EXCEPT !.heard = heard]}
    <3> DEFINE heard == cs[m].heard /\ cs[m].kind \notin PanelKinds
    <3>1. calls'[m] = [cs[m] EXCEPT !.heard = heard]
      BY <1>5, <2>1 DEF cs
    <3>2. heard \in BOOLEAN
      OBVIOUS
    <3> HIDE DEF heard
    <3> QED
      BY <3>1, <3>2
  <2>4. calls' = [m \in DOMAIN cs |-> calls'[m]]
    BY <1>5, <2>1
  <2>5. CallsOK'
    BY <2>1, <2>2, <2>3, <2>4, <1>3, UnheardStep DEF IInv
  <2>6. EditsOK'
    BY <1>5, NoEdits DEF EditsOK
  <2> QED
    BY <1>3, <2>5, <2>6 DEF IInv
<1> QED
  BY <1>4, <1>5 DEF ModelAnswered

LEMMA GenerateAnsweredStep ==
  ASSUME IInv, NEW n \in DOMAIN calls, GenerateAnswered(n)
  PROVE  IInv'
<1> DEFINE d == calls[n].says
<1>1. /\ Put("proposal", d) /\ UNCHANGED <<server, request>> /\ calls' = Done(n)
      /\ edits' = IF calls[n].heard THEN <<>> ELSE edits
      /\ calls[n].kind = "generate" /\ calls[n].phase = "answered" /\ calls[n].ok
  BY DEF GenerateAnswered, Succeeds, At
<1>2. d \in Data /\ DataOK("proposal", d, gens, Imported)
  BY <1>1, Answered DEF SaysOK, DataOK
<1> HIDE DEF d
<1>3. ReadsOK' /\ ServerOK' /\ CommitsOK' /\ Grows
  BY <1>1, <1>2, SameRequests, PutReads DEF Keys
<1>4. EditsOK'
  BY <1>1, NoEdits DEF IInv, EditsOK
<1> QED
  BY <1>1, <1>3, <1>4, DoneStep DEF IInv

LEMMA DecisionAnsweredStep ==
  ASSUME IInv, NEW n \in DOMAIN calls, DecisionAnswered(n)
  PROVE  IInv'
<1>1. Put("proposal", None) /\ UNCHANGED <<server, request, edits>> /\ calls' = Done(n)
  BY DEF DecisionAnswered
<1>2. None \in Data /\ DataOK("proposal", None, gens, Imported)
  BY DEF Data, DataOK
<1>3. ReadsOK' /\ ServerOK' /\ CommitsOK' /\ Grows
  BY <1>1, <1>2, SameRequests, PutReads DEF Keys
<1> QED
  BY <1>1, <1>3, DoneStep DEF IInv, EditsOK

-----------------------------------------------------------------------------
(* The API handles the calls, and other people act.                        *)

(* A step of the API grows what it holds and says nothing to the reads.     *)
LEMMA ApiStep ==
  ASSUME IInv, Grows, UNCHANGED <<reads, edits>>, ServerOK', CommitsOK', CallsOK'
  PROVE  IInv'
<1>1. ReadsOK'
  BY ReadsLater DEF IInv
<1> QED
  BY <1>1 DEF IInv, EditsOK

LEMMA RefusedStep ==
  ASSUME IInv, NEW n \in DOMAIN calls, Refused(n), UNCHANGED <<reads, edits>>
  PROVE  IInv'
<1>1. Ends(n, FALSE, Nothing) /\ UNCHANGED server
  BY DEF Refused
<1>2. ServerOK' /\ CommitsOK' /\ Grows
  BY <1>1, ServerKept
<1>3. CallsOK'
  BY <1>1, <1>2, EndsStep DEF IInv, Data
<1> QED
  BY <1>2, <1>3, ApiStep

LEMMA AtFacts ==
  ASSUME IInv, NEW n, NEW kind \in Kinds, NEW phase, At(n, kind, phase)
  PROVE  /\ n \in DOMAIN calls /\ calls[n].kind = kind /\ calls[n].phase = phase
         /\ CallOK(calls[n], gens, Len(models), Imported)
  BY DEF At, IInv, CallsOK

LEMMA CommitsKept ==
  ASSUME IInv, UNCHANGED commits
  PROVE  CommitsOK'
  BY DEF IInv, CommitsOK, CommitsWhatWasShown

LEMMA ImportRunsStep ==
  ASSUME IInv, NEW n, ImportRuns(n)
  PROVE  IInv'
<1>1. /\ n \in DOMAIN calls /\ calls[n].kind = "import"
      /\ case' = IF Imported THEN case ELSE [steps |-> MaxSteps, status |-> "NOT_AUTOMATED"]
      /\ Ends(n, TRUE, case')
      /\ UNCHANGED <<models, gens, repo, commits, reads, edits>>
  BY DEF ImportRuns, At, workspace
<1>2. case' \in CaseRecords
  <2>1. [steps |-> MaxSteps, status |-> "NOT_AUTOMATED"] \in CaseRecords
    BY WorkspaceAssumption DEF CaseRecords
  <2> QED
    BY <1>1, <2>1 DEF IInv, ServerOK, Imported
<1>3. Imported'
  BY <1>2, WorkspaceAssumption DEF Imported
<1>4. Grows
  BY <1>1, <1>3 DEF Grows, Extends, IInv, ServerOK, Imported
<1>5. ServerOK' /\ CommitsOK'
  BY <1>1, <1>2, <1>3, CommitsKept DEF IInv, ServerOK
<1>6. CallsOK'
  BY <1>1, <1>2, <1>3, <1>4, EndsStep DEF IInv, SaysOK, Data
<1> QED
  BY <1>1, <1>4, <1>5, <1>6, ApiStep

LEMMA ModelBeginsStep ==
  ASSUME IInv, NEW n, ModelBegins(n)
  PROVE  IInv'
<1>1. /\ n \in DOMAIN calls /\ calls[n].kind = "model" /\ calls[n].phase = "sent"
      /\ CallOK(calls[n], gens, Len(models), Imported)
  BY AtFacts DEF ModelBegins, Kinds, PanelKinds
<1>2. UNCHANGED <<reads, edits>>
  BY DEF ModelBegins, workspace
<1>3. CASE Refused(n)
  BY <1>1, <1>2, <1>3, RefusedStep
<1>4. CASE Reads(n, case.steps) /\ UNCHANGED server
  <2>1. ServerOK' /\ CommitsOK' /\ Grows
    BY <1>4, ServerKept
  <2>2. case.steps \in Nat
    BY <1>1, WorkspaceAssumption DEF CallOK, IInv, ServerOK, Imported, CaseRecords
  <2>3. CallsOK'
    BY <1>1, <1>4, <2>1, <2>2, ReadsStep DEF IInv
  <2> QED
    BY <1>2, <2>1, <2>3, ApiStep
<1> QED
  BY <1>3, <1>4 DEF ModelBegins

LEMMA ModelledStep ==
  ASSUME IInv, Imported, NEW d \in Documents, Modelled(d)
  PROVE  /\ ServerOK' /\ CommitsOK' /\ Grows /\ Len(models') \in Nat
         /\ case'.steps \in 0 .. MaxSteps /\ case.steps \in 0 .. MaxSteps
<1>1. /\ models' = Append(models, d)
      /\ case' = [case EXCEPT !.status = IF @ = "NOT_AUTOMATED" THEN "MODELLED" ELSE @]
      /\ UNCHANGED <<gens, repo, commits>>
  BY DEF Modelled
<1>2. case \in CaseRecords
  BY DEF IInv, ServerOK, Imported
<1>3. case' \in CaseRecords
  BY <1>1, <1>2 DEF CaseRecords
<1>4. Imported'
  BY <1>3, WorkspaceAssumption DEF Imported
<1>5. /\ models' \in Seq(Documents) /\ Len(models') = Len(models) + 1 /\ Len(models) \in Nat
  BY <1>1 DEF IInv, ServerOK
<1>6. \A g \in DOMAIN gens : gens[g].model <= Len(models')
  <2>1. \A g \in DOMAIN gens : gens[g] \in GenRecords /\ gens[g].model <= Len(models)
    BY DEF IInv, ServerOK
  <2> QED
    BY <2>1, <1>1, <1>5 DEF GenRecords
<1>7. ServerOK' /\ CommitsOK'
  BY <1>1, <1>3, <1>4, <1>5, <1>6, CommitsKept DEF IInv, ServerOK
<1>8. Grows
  BY <1>1, <1>4, <1>5 DEF Grows, Extends, Imported
<1> QED
  BY <1>2, <1>3, <1>5, <1>7, <1>8 DEF CaseRecords

LEMMA ModelEndsStep ==
  ASSUME IInv, NEW n, ModelEnds(n)
  PROVE  IInv'
<1>1. /\ n \in DOMAIN calls /\ calls[n].kind = "model"
      /\ CallOK(calls[n], gens, Len(models), Imported)
  BY AtFacts DEF ModelEnds, Kinds, PanelKinds
<1>2. UNCHANGED <<reads, edits>>
  BY DEF ModelEnds, workspace
<1>3. CASE Refused(n)
  BY <1>1, <1>2, <1>3, RefusedStep
<1>4. ASSUME NEW d \in Documents, Modelled(d),
             Ends(n, TRUE, [version |-> Len(models'), document |-> d,
                            coverage |-> Coverage(d, case.steps)])
      PROVE  IInv'
  <2> DEFINE v == [version |-> Len(models'), document |-> d,
                   coverage |-> Coverage(d, case.steps)]
  <2>1. /\ ServerOK' /\ CommitsOK' /\ Grows /\ Len(models') \in Nat
        /\ case.steps \in 0 .. MaxSteps
    BY <1>1, <1>4, ModelledStep DEF CallOK
  <2>2. ModelOK(v)
    BY <2>1, CoverageIsModel
  <2>3. Ends(n, TRUE, v)
    BY <1>4
  <2> HIDE DEF v
  <2>4. CallsOK'
    BY <1>1, <2>1, <2>2, <2>3, EndsStep DEF IInv, SaysOK, ModelOK, Data
  <2> QED
    BY <1>2, <2>1, <2>4, ApiStep
<1> QED
  BY <1>3, <1>4 DEF ModelEnds

LEMMA GenerateBeginsStep ==
  ASSUME IInv, NEW n, GenerateBegins(n)
  PROVE  IInv'
<1>1. n \in DOMAIN calls /\ calls[n].kind = "generate"
  BY AtFacts DEF GenerateBegins, Kinds, PanelKinds
<1>2. Reads(n, Len(models)) /\ UNCHANGED <<server, reads, edits>>
  BY DEF GenerateBegins, workspace
<1>3. ServerOK' /\ CommitsOK' /\ Grows
  BY <1>2, ServerKept
<1>4. Len(models) \in Nat /\ Len(models) \in 0 .. Len(models')
  BY <1>3 DEF Grows
<1>5. CallsOK'
  BY <1>1, <1>2, <1>3, <1>4, ReadsStep DEF IInv
<1> QED
  BY <1>2, <1>3, <1>5, ApiStep

(* A proposal is added to those there are, whose status may change.         *)
LEMMA AddsProposal ==
  ASSUME IInv, Imported, NEW gs \in Seq(GenRecords), DOMAIN gs = DOMAIN gens,
         \A g \in DOMAIN gens : gs[g].files = gens[g].files /\ gs[g].model = gens[g].model,
         NEW version \in 0 .. Len(models), NEW files \in FileMaps,
         gens' = Append(gs, Stored(version, files)),
         UNCHANGED <<case, models, repo, commits>>
  PROVE  /\ ServerOK' /\ CommitsOK' /\ Grows /\ Len(gens') \in Nat /\ Len(gens') \in DOMAIN gens'
         /\ gens'[Len(gens')].files = files
<1> DEFINE new == Stored(version, files)
<1>1. Len(models) \in Nat
  BY DEF IInv, ServerOK
<1>2. new \in GenRecords /\ new.files = files /\ new.model = version
  BY <1>1 DEF Stored, GenRecords
<1>3. gens' = Append(gs, new)
  OBVIOUS
<1> HIDE DEF new
<1>4. /\ gens' \in Seq(GenRecords) /\ DOMAIN gens' = 1 .. Len(gs) + 1
      /\ Len(gens') = Len(gs) + 1 /\ Len(gs) \in Nat
      /\ gens'[Len(gs) + 1] = new
      /\ \A g \in DOMAIN gs : gens'[g] = gs[g] /\ g \in DOMAIN gens'
  BY <1>2, <1>3
<1>5. \A g \in DOMAIN gens' : gens'[g].model <= Len(models)
  <2>1. DOMAIN gs = 1 .. Len(gs)
    OBVIOUS
  <2>2. \A g \in DOMAIN gens' : g \in DOMAIN gs \/ g = Len(gs) + 1
    BY <2>1, <1>4
  <2>3. \A g \in DOMAIN gs : gens'[g].model <= Len(models)
    BY <1>4 DEF IInv, ServerOK
  <2>4. gens'[Len(gs) + 1].model <= Len(models)
    BY <1>1, <1>2, <1>4
  <2> QED
    BY <2>2, <2>3, <2>4
<1>6. Imported'
  BY DEF Imported
<1>7. ServerOK' /\ CommitsOK'
  BY <1>4, <1>5, <1>6, CommitsKept DEF IInv, ServerOK
<1>8. Grows
  BY <1>1, <1>4, <1>6 DEF Grows, Extends, Imported
<1> QED
  BY <1>2, <1>4, <1>7, <1>8


LEMMA GenerateEndsStep ==
  ASSUME IInv, NEW n, GenerateEnds(n)
  PROVE  IInv'
<1>1. /\ n \in DOMAIN calls /\ calls[n].kind = "generate" /\ calls[n].phase = "begun"
      /\ CallOK(calls[n], gens, Len(models), Imported)
  BY AtFacts DEF GenerateEnds, Kinds, PanelKinds
<1>2. UNCHANGED <<reads, edits>>
  BY DEF GenerateEnds, workspace
<1>3. CASE Refused(n)
  BY <1>1, <1>2, <1>3, RefusedStep
<1>4. ASSUME NEW f \in Projections, Proposes(calls[n].read, f),
             Ends(n, TRUE, [id |-> Len(gens'), modelVersion |-> calls[n].read,
                            files |-> [p \in DOMAIN f |-> Described(p, f[p])]]),
             UNCHANGED <<case, models, repo, commits>>
      PROVE  IInv'
  <2> DEFINE v == [id |-> Len(gens'), modelVersion |-> calls[n].read,
                   files |-> [p \in DOMAIN f |-> Described(p, f[p])]]
  <2>1. /\ calls[n].read \in 0 .. Len(models) /\ Imported /\ f \in FileMaps
        /\ calls[n].read \in Nat /\ gens \in Seq(GenRecords) /\ ServerOK
    BY <1>1, WorkspaceAssumption DEF CallOK, IInv, ServerOK
  <2>2. /\ ServerOK' /\ CommitsOK' /\ Grows /\ Len(gens') \in Nat /\ Len(gens') \in DOMAIN gens'
        /\ gens'[Len(gens')].files = f
    BY <1>4, <2>1, AddsProposal DEF Proposes
  <2>3. ProposalOK(v, gens')
    BY <2>1, <2>2, ViewIsProposal
  <2>4. Ends(n, TRUE, v)
    BY <1>4
  <2> HIDE DEF v
  <2>5. CallsOK'
    BY <1>1, <2>2, <2>3, <2>4, EndsStep DEF IInv, SaysOK, ProposalOK, Data
  <2> QED
    BY <1>2, <2>2, <2>5, ApiStep
<1> QED
  BY <1>3, <1>4 DEF GenerateEnds

LEMMA ApplyBeginsStep ==
  ASSUME IInv, NEW n, ApplyBegins(n)
  PROVE  IInv'
<1> DEFINE c == calls[n].input
           body == WithEdits(gens[c.id].files, c.edits)
<1>1. /\ n \in DOMAIN calls /\ calls[n].kind = "apply" /\ ApplyOK(calls[n], gens)
  BY AtFacts DEF ApplyBegins, Kinds, PanelKinds, CallOK
<1>2. UNCHANGED <<reads, edits>>
  BY DEF ApplyBegins, workspace
<1>3. CASE Refused(n)
  BY <1>1, <1>2, <1>3, RefusedStep
<1>4. CASE Reads(n, body) /\ UNCHANGED server
  <2>1. ServerOK' /\ CommitsOK' /\ Grows
    BY <1>4, ServerKept
  <2>2. body = calls[n].input.shown /\ body \in FileMaps
    BY <1>1 DEF ApplyOK, ApplyInputs
  <2> HIDE DEF body
  <2>3. CallsOK'
    BY <1>1, <1>4, <2>1, <2>2, ReadsStep DEF IInv
  <2> QED
    BY <1>2, <2>1, <2>3, ApiStep
<1> QED
  BY <1>3, <1>4 DEF ApplyBegins

(* A decision marks one proposal.                                           *)
LEMMA Decides ==
  ASSUME IInv, NEW g \in DOMAIN gens, NEW status \in {"APPLIED", "REJECTED"},
         gens' = [gens EXCEPT ![g].status = status],
         UNCHANGED models, case' \in CaseRecords, repo' \in [Paths -> Bodies \cup {Absent}]
  PROVE  ServerOK' /\ Grows
<1> DEFINE new == [gens[g] EXCEPT !.status = status]
<1>1. gens \in Seq(GenRecords) /\ gens[g] \in GenRecords
  BY DEF IInv, ServerOK
<1>2. new \in GenRecords /\ new.files = gens[g].files /\ new.model = gens[g].model
  BY <1>1 DEF GenRecords
<1>3. gens' = [gens EXCEPT ![g] = new]
  OBVIOUS
<1> HIDE DEF new
<1>4. /\ gens' \in Seq(GenRecords) /\ DOMAIN gens' = DOMAIN gens
      /\ \A h \in DOMAIN gens : gens'[h] = IF h = g THEN new ELSE gens[h]
  BY <1>1, <1>2, <1>3
<1>5. Imported' /\ Imported
  <2>1. g \in 1 .. Len(gens)
    BY <1>1
  <2> QED
    BY <2>1, <1>1, WorkspaceAssumption DEF Imported, IInv, ServerOK
<1>6. \A h \in DOMAIN gens' : gens'[h].model <= Len(models')
  BY <1>2, <1>4 DEF IInv, ServerOK
<1>7. ServerOK'
  BY <1>4, <1>5, <1>6 DEF IInv, ServerOK
<1>8. Grows
  <2>1. Extends(gens, gens')
    BY <1>2, <1>4 DEF Extends
  <2> QED
    BY <2>1, <1>5 DEF Grows, Imported, IInv, ServerOK
<1> QED
  BY <1>7, <1>8

LEMMA Writes ==
  ASSUME IInv, NEW body \in FileMaps,
         repo' = [p \in Paths |-> IF p \in DOMAIN body THEN body[p] ELSE repo[p]]
  PROVE  repo' \in [Paths -> Bodies \cup {Absent}]
  BY FilesAre DEF IInv, ServerOK

LEMMA Commits ==
  ASSUME IInv, NEW body \in FileMaps, NEW shown, body = shown, NEW push \in BOOLEAN,
         NEW pushed \in {push, FALSE},
         commits' = Append(commits, [body |-> body, shown |-> shown,
                                     pushed |-> pushed, asked |-> push])
  PROVE  CommitsOK'
<1> DEFINE new == [body |-> body, shown |-> shown, pushed |-> pushed, asked |-> push]
<1>1. new \in CommitRecords /\ new.body = new.shown /\ (new.pushed => new.asked)
  <2>1. pushed \in BOOLEAN /\ (pushed => push)
    <3>1. CASE pushed = push
      BY <3>1
    <3>2. CASE pushed = FALSE
      BY <3>2
    <3> QED
      BY <3>1, <3>2
  <2>2. /\ new.body = body /\ new.shown = shown /\ new.pushed = pushed /\ new.asked = push
    OBVIOUS
  <2> QED
    BY <2>1, <2>2 DEF CommitRecords
<1>2. commits' = Append(commits, new)
  OBVIOUS
<1> HIDE DEF new
<1>3. commits \in Seq(CommitRecords)
  BY DEF IInv, CommitsOK
<1>4. /\ commits' \in Seq(CommitRecords) /\ DOMAIN commits' = 1 .. Len(commits) + 1
      /\ commits'[Len(commits) + 1] = new
      /\ \A m \in DOMAIN commits : commits'[m] = commits[m]
      /\ DOMAIN commits = 1 .. Len(commits)
  BY <1>1, <1>2, <1>3
<1>5. \A m \in DOMAIN commits' : m \in DOMAIN commits \/ m = Len(commits) + 1
  BY <1>3, <1>4
<1>6. \A m \in DOMAIN commits' : /\ commits'[m].body = commits'[m].shown
                                 /\ commits'[m].pushed => commits'[m].asked
  BY <1>1, <1>4, <1>5 DEF IInv, CommitsOK, CommitsWhatWasShown
<1> QED
  BY <1>4, <1>6 DEF CommitsOK, CommitsWhatWasShown

LEMMA ApplyEndsStep ==
  ASSUME IInv, NEW n, ApplyEnds(n)
  PROVE  IInv'
<1> DEFINE c == calls[n].input
           body == calls[n].read
<1>1. /\ n \in DOMAIN calls /\ calls[n].kind = "apply" /\ calls[n].phase = "begun"
      /\ ApplyOK(calls[n], gens)
  BY AtFacts DEF ApplyEnds, Kinds, PanelKinds, CallOK
<1>2. UNCHANGED <<reads, edits>>
  BY DEF ApplyEnds, workspace
<1>3. /\ c.id \in DOMAIN gens /\ c.push \in BOOLEAN /\ body \in FileMaps /\ body = c.shown
  BY <1>1 DEF ApplyOK, ApplyInputs
<1>4. case \in CaseRecords
  <2>1. gens # <<>>
    BY <1>3
  <2> QED
    BY <2>1 DEF IInv, ServerOK, Imported
<1>5. CASE Refused(n)
  BY <1>1, <1>2, <1>5, RefusedStep
<1>6. ASSUME NEW pushed \in {c.push, FALSE},
             repo' = [p \in Paths |-> IF p \in DOMAIN body THEN body[p] ELSE repo[p]],
             commits' = Append(commits, [body |-> body, shown |-> c.shown,
                                         pushed |-> pushed, asked |-> c.push]),
             UNCHANGED models
      PROVE  /\ CommitsOK' /\ repo' \in [Paths -> Bodies \cup {Absent}]
  <2>1. CommitsOK'
    BY <1>3, <1>6, Commits
  <2> QED
    BY <1>3, <1>6, <2>1, Writes
<1>7. ASSUME CommitsOK', repo' \in [Paths -> Bodies \cup {Absent}], UNCHANGED models,
             gens' = [gens EXCEPT ![c.id].status = "APPLIED"],
             case' = [case EXCEPT !.status = "COMMITTED"],
             Ends(n, TRUE, Nothing)
      PROVE  IInv'
  <2>1. case' \in CaseRecords
    BY <1>4, <1>7 DEF CaseRecords
  <2>2. ServerOK' /\ Grows
    BY <1>3, <1>7, <2>1, Decides
  <2>3. CallsOK'
    BY <1>1, <1>7, <2>2, EndsStep DEF IInv, SaysOK, Data
  <2> QED
    BY <1>2, <1>7, <2>2, <2>3, ApiStep
<1>8. ASSUME CommitsOK', repo' \in [Paths -> Bodies \cup {Absent}],
             UNCHANGED <<models, gens, case>>, Ends(n, FALSE, Nothing)
      PROVE  IInv'
  <2>1. ServerOK' /\ Grows
    BY <1>8 DEF IInv, ServerOK, Grows, Extends, Imported
  <2>2. CallsOK'
    BY <1>1, <1>8, <2>1, EndsStep DEF IInv, Data
  <2> QED
    BY <1>2, <1>8, <2>1, <2>2, ApiStep
<1> QED
  BY <1>5, <1>6, <1>7, <1>8 DEF ApplyEnds

LEMMA RejectRunsStep ==
  ASSUME IInv, NEW n, RejectRuns(n)
  PROVE  IInv'
<1> DEFINE g == calls[n].input.id
<1>1. /\ n \in DOMAIN calls /\ calls[n].kind = "reject" /\ g \in DOMAIN gens
  BY AtFacts DEF RejectRuns, Kinds, PanelKinds, CallOK
<1>2. UNCHANGED <<reads, edits>>
  BY DEF RejectRuns, workspace
<1>3. CASE Refused(n)
  BY <1>1, <1>2, <1>3, RefusedStep
<1>4. CASE /\ gens' = [gens EXCEPT ![g].status = "REJECTED"]
           /\ Ends(n, TRUE, Nothing)
           /\ UNCHANGED <<case, models, repo, commits>>
  <2>1. gens # <<>>
    BY <1>1
  <2>2. case' \in CaseRecords /\ repo' \in [Paths -> Bodies \cup {Absent}]
    BY <1>4, <2>1 DEF IInv, ServerOK, Imported
  <2>3. ServerOK' /\ Grows
    BY <1>1, <1>4, <2>2, Decides
  <2>4. CommitsOK'
    BY <1>4, CommitsKept
  <2>5. CallsOK'
    BY <1>1, <1>4, <2>3, EndsStep DEF IInv, SaysOK, Data
  <2> QED
    BY <1>2, <2>3, <2>4, <2>5, ApiStep
<1> QED
  BY <1>3, <1>4 DEF RejectRuns

LEMMA CallGoesStep ==
  ASSUME IInv, NEW n, CallFails(n) \/ CallLost(n)
  PROVE  IInv'
  BY GoneStep DEF CallFails, CallLost

LEMMA EditCaseStep ==
  ASSUME IInv, NEW s \in 0 .. MaxSteps, EditCase(s)
  PROVE  IInv'
<1>1. /\ Imported /\ case' = [case EXCEPT !.steps = s]
      /\ UNCHANGED <<models, gens, repo, commits, reads, edits, calls>>
  BY DEF EditCase, SomebodyActs
<1>2. case' \in CaseRecords
  BY <1>1 DEF IInv, ServerOK, Imported, CaseRecords
<1>3. Imported'
  BY <1>2, WorkspaceAssumption DEF Imported
<1>4. ServerOK' /\ CommitsOK'
  BY <1>1, <1>2, <1>3, CommitsKept DEF IInv, ServerOK
<1>5. Grows
  BY <1>1, <1>3 DEF Grows, Extends, Imported, IInv, ServerOK
<1> QED
  BY <1>1, <1>4, <1>5, CallsLater, ApiStep DEF IInv, CallsOK

LEMMA RemodelStep ==
  ASSUME IInv, NEW d \in Documents, Remodel(d)
  PROVE  IInv'
<1>1. Imported /\ Modelled(d) /\ UNCHANGED <<reads, edits, calls>>
  BY DEF Remodel, SomebodyActs
<1>2. ServerOK' /\ CommitsOK' /\ Grows
  BY <1>1, ModelledStep
<1> QED
  BY <1>1, <1>2, CallsLater, ApiStep DEF IInv, CallsOK

LEMMA RegenerateStep ==
  ASSUME IInv, NEW f \in Projections, Regenerate(f)
  PROVE  IInv'
<1>1. /\ models # <<>> /\ gens' = Append(gens, Stored(Len(models), f))
      /\ UNCHANGED <<case, models, repo, commits, reads, edits, calls>>
  BY DEF Regenerate, Proposes, SomebodyActs
<1>2. /\ Imported /\ Len(models) \in 0 .. Len(models) /\ f \in FileMaps
      /\ gens \in Seq(GenRecords)
  BY <1>1, WorkspaceAssumption DEF IInv, ServerOK
<1>3. ServerOK' /\ CommitsOK' /\ Grows
  BY <1>1, <1>2, AddsProposal
<1> QED
  BY <1>1, <1>3, CallsLater, ApiStep DEF IInv, CallsOK

LEMMA RepairStep ==
  ASSUME IInv, NEW p \in SpecPaths, NEW c \in Corrections, Repair(p, c)
  PROVE  IInv'
<1> DEFINE gs == [g \in DOMAIN gens |->
                    IF g \in Live THEN [gens[g] EXCEPT !.status = "SUPERSEDED"]
                    ELSE gens[g]]
           files == [q \in {p} |-> c]
<1>1. /\ Imported /\ gens' = Append(gs, Stored(0, files))
      /\ UNCHANGED <<case, models, repo, commits, reads, edits, calls>>
  BY DEF Repair, SomebodyActs
<1>2. gens \in Seq(GenRecords) /\ 0 \in 0 .. Len(models)
  BY DEF IInv, ServerOK
<1>3. ASSUME NEW g \in DOMAIN gens
      PROVE  /\ gs[g] \in GenRecords /\ gs[g].files = gens[g].files
             /\ gs[g].model = gens[g].model
  <2>1. gens[g] \in GenRecords
    BY <1>2
  <2> QED
    BY <2>1 DEF GenRecords
<1>4. DOMAIN gs = DOMAIN gens
  OBVIOUS
<1>5. gs \in Seq(GenRecords)
  <2>1. DOMAIN gens = 1 .. Len(gens) /\ Len(gens) \in Nat
    BY <1>2
  <2> QED
    BY <2>1, <1>3
<1>6. files \in FileMaps
  <2>1. {p} \in SUBSET Paths /\ files \in [{p} -> Bodies]
    BY DEF SpecPaths, Bodies
  <2> QED
    BY <2>1, AreFiles
<1> HIDE DEF gs, files
<1>7. ServerOK' /\ CommitsOK' /\ Grows
  BY <1>1, <1>2, <1>3, <1>4, <1>5, <1>6, AddsProposal
<1> QED
  BY <1>1, <1>7, CallsLater, ApiStep DEF IInv, CallsOK


-----------------------------------------------------------------------------
(* The diff (FileDiff), of any two files of a set L of lines: the table and *)
(* the walk are functions because every step of theirs looks at places that *)
(* are nearer to the end of both files; what is read off the walk is shown   *)
(* from the end, place by place, and so is what the table counts.           *)

LEMMA Least ==
  ASSUME NEW T \in SUBSET Nat, T # {}
  PROVE  \E x \in T : \A y \in T : x <= y
<1>1. PICK x \in T : \A y \in T : ~(<<y, x>> \in Less)
  BY LessIsWellFounded, WFMin
<1>2. ASSUME NEW y \in T
      PROVE  x <= y
  <2>1. ~(y < x)
    BY <1>1 DEF Less
  <2> QED
    BY <2>1
<1> QED
  BY <1>2

(* Induction on a rank, and functions defined by recursion on one.         *)

LEMMA InductionByRank ==
  ASSUME NEW D, NEW rank \in [D -> Nat], NEW T \in SUBSET D,
         \A x \in D : (\A y \in D : rank[y] < rank[x] => y \in T) => x \in T
  PROVE  T = D
<1>1. SUFFICES ASSUME D \ T # {}
               PROVE  FALSE
  OBVIOUS
<1> DEFINE R == {rank[x] : x \in D \ T}
<1>2. R \in SUBSET Nat /\ R # {}
  BY <1>1
<1>3. PICK r \in R : \A s \in R : r <= s
  BY <1>2, Least
<1>4. PICK x \in D \ T : rank[x] = r
  BY <1>3
<1>5. ASSUME NEW y \in D, rank[y] < rank[x]
      PROVE  y \in T
  <2>1. rank[y] \in Nat /\ rank[x] \in Nat /\ ~(r <= rank[y])
    BY <1>4, <1>5
  <2>2. rank[y] \notin R
    BY <1>3, <2>1
  <2> QED
    BY <2>2
<1> QED
  BY <1>4, <1>5

LooksAhead(D, V, n, rank, step) ==
  /\ n \in Nat /\ rank \in [D -> 0 .. n]
  /\ step \in [[D -> V] -> [D -> V]]
  /\ \A f, g \in [D -> V] : \A x \in D :
       (\A y \in D : rank[y] < rank[x] => f[y] = g[y]) => step[f][x] = step[g][x]

LEMMA RecursionByRank ==
  ASSUME NEW D, NEW V, NEW n, NEW rank, NEW step,
         LooksAhead(D, V, n, rank, step), [D -> V] # {}
  PROVE  \E f \in [D -> V] : f = step[f]
<1> USE DEF LooksAhead
<1> DEFINE UpTo(f, k) == \A x \in D : rank[x] < k => f[x] = step[f][x]
           K == 0 .. n + 1
           S == {k \in K : \E f \in [D -> V] : UpTo(f, k)}
           ranked == [k \in K |-> k]
<1>1. ASSUME NEW k \in K, \A j \in K : ranked[j] < ranked[k] => j \in S
      PROVE  k \in S
  <2>1. CASE k = 0
    <3>1. PICK f \in [D -> V] : TRUE
      OBVIOUS
    <3>2. UpTo(f, k)
      BY <2>1
    <3> QED
      BY <3>2
  <2>2. CASE k # 0
    <3>1. k - 1 \in S
      BY <1>1, <2>2
    <3>2. PICK f \in [D -> V] : UpTo(f, k - 1)
      BY <3>1
    <3> DEFINE g == [x \in D |-> IF rank[x] < k - 1 THEN f[x] ELSE step[f][x]]
    <3>3. g \in [D -> V]
      OBVIOUS
    <3>4. ASSUME NEW x \in D, rank[x] < k
          PROVE  g[x] = step[g][x]
      <4>1. \A y \in D : rank[y] < rank[x] => f[y] = g[y]
        BY <3>4
      <4>2. step[f][x] = step[g][x]
        BY <3>3, <4>1
      <4>3. g[x] = step[f][x]
        BY <3>2
      <4> QED
        BY <4>2, <4>3
    <3>5. UpTo(g, k)
      BY <3>4
    <3> QED
      BY <3>3, <3>5
  <2> QED
    BY <2>1, <2>2
<1>2. S = K
  <2>1. ranked \in [K -> Nat] /\ S \in SUBSET K
    OBVIOUS
  <2> HIDE DEF ranked, S, K
  <2>2. \A k \in K : (\A j \in K : ranked[j] < ranked[k] => j \in S) => k \in S
    BY <1>1
  <2> QED
    BY <2>1, <2>2, InductionByRank
<1>3. PICK f \in [D -> V] : UpTo(f, n + 1)
  <2>1. n + 1 \in S
    <3> HIDE DEF S
    <3> QED
      BY <1>2
  <2> QED
    BY <2>1
<1>4. step[f] \in [D -> V]
  OBVIOUS
<1>5. \A x \in D : f[x] = step[f][x]
  BY <1>3
<1> QED
  BY <1>4, <1>5

(* The table: how far a place is from the end of both files falls with     *)
(* every step.                                                             *)

Ahead(a, b, p) == (Len(a) + 1 - p[1]) + (Len(b) + 1 - p[2])

LEMMA PlacesAhead ==
  ASSUME NEW L, NEW a \in Seq(L), NEW b \in Seq(L), NEW p \in Places(a, b)
  PROVE  /\ p = <<p[1], p[2]>> /\ p[1] \in 1 .. Len(a) + 1 /\ p[2] \in 1 .. Len(b) + 1
         /\ Len(a) \in Nat /\ Len(b) \in Nat
         /\ Ahead(a, b, p) \in 0 .. Len(a) + Len(b)
         /\ InOld(a, p) => /\ PastOld(p) \in Places(a, b) /\ p[1] \in 1 .. Len(a)
                           /\ Ahead(a, b, PastOld(p)) < Ahead(a, b, p)
         /\ InNew(b, p) => /\ PastNew(p) \in Places(a, b) /\ p[2] \in 1 .. Len(b)
                           /\ Ahead(a, b, PastNew(p)) < Ahead(a, b, p)
         /\ InOld(a, p) /\ InNew(b, p) => /\ PastBoth(p) \in Places(a, b)
                                          /\ Ahead(a, b, PastBoth(p)) < Ahead(a, b, p)
<1>1. /\ p = <<p[1], p[2]>> /\ p[1] \in 1 .. Len(a) + 1 /\ p[2] \in 1 .. Len(b) + 1
      /\ Len(a) \in Nat /\ Len(b) \in Nat
  BY DEF Places
<1>2. Ahead(a, b, p) \in 0 .. Len(a) + Len(b)
  BY <1>1 DEF Ahead
<1>3. ASSUME InOld(a, p)
      PROVE  /\ PastOld(p) \in Places(a, b) /\ p[1] \in 1 .. Len(a)
             /\ Ahead(a, b, PastOld(p)) < Ahead(a, b, p)
  BY <1>1, <1>3 DEF Ahead, PastOld, InOld, Places
<1>4. ASSUME InNew(b, p)
      PROVE  /\ PastNew(p) \in Places(a, b) /\ p[2] \in 1 .. Len(b)
             /\ Ahead(a, b, PastNew(p)) < Ahead(a, b, p)
  BY <1>1, <1>4 DEF Ahead, PastNew, InNew, Places
<1>5. ASSUME InOld(a, p), InNew(b, p)
      PROVE  /\ PastBoth(p) \in Places(a, b)
             /\ Ahead(a, b, PastBoth(p)) < Ahead(a, b, p)
  <2>1. p[1] + 1 \in 1 .. Len(a) + 1 /\ p[2] + 1 \in 1 .. Len(b) + 1
    BY <1>1, <1>5 DEF InOld, InNew
  <2>2. PastBoth(p) \in Places(a, b)
    BY <2>1 DEF PastBoth, Places
  <2>3. PastBoth(p)[1] = p[1] + 1 /\ PastBoth(p)[2] = p[2] + 1
    BY DEF PastBoth
  <2>4. Ahead(a, b, PastBoth(p)) < Ahead(a, b, p)
    BY <1>1, <2>3 DEF Ahead
  <2> QED
    BY <2>2, <2>4
<1> QED
  BY <1>1, <1>2, <1>3, <1>4, <1>5

LEMMA AheadFalls ==
  ASSUME NEW L, NEW a \in Seq(L), NEW b \in Seq(L),
         NEW T \in SUBSET Places(a, b),
         \A p \in Places(a, b) :
           (\A q \in Places(a, b) : Ahead(a, b, q) < Ahead(a, b, p) => q \in T) => p \in T
  PROVE  T = Places(a, b)
<1> DEFINE P == Places(a, b)
           ahead == [p \in P |-> Ahead(a, b, p)]
<1>1. ahead \in [P -> Nat]
  BY PlacesAhead
<1>2. \A p \in P : (\A q \in P : ahead[q] < ahead[p] => q \in T) => p \in T
  OBVIOUS
<1>3. T \in SUBSET P
  OBVIOUS
<1>4. SUFFICES T = P
  OBVIOUS
<1> HIDE DEF ahead, P
<1> QED
  BY <1>1, <1>2, <1>3, InductionByRank

Entry(a, b, t, p) ==
  IF ~InOld(a, p) \/ ~InNew(b, p) THEN 0
  ELSE IF a[p[1]] = b[p[2]] THEN t[PastBoth(p)] + 1
  ELSE Larger(t[PastOld(p)], t[PastNew(p)])

LEMMA EntryIsNumber ==
  ASSUME NEW L, NEW a \in Seq(L), NEW b \in Seq(L), NEW p \in Places(a, b), NEW t,
         \A q \in Places(a, b) : Ahead(a, b, q) < Ahead(a, b, p) => t[q] \in Nat
  PROVE  Entry(a, b, t, p) \in Nat
<1>1. InOld(a, p) /\ InNew(b, p) =>
        t[PastBoth(p)] \in Nat /\ t[PastOld(p)] \in Nat /\ t[PastNew(p)] \in Nat
  BY PlacesAhead
<1> QED
  BY <1>1 DEF Entry, Larger

LEMMA EntryLooksAhead ==
  ASSUME NEW L, NEW a \in Seq(L), NEW b \in Seq(L), NEW p \in Places(a, b), NEW t, NEW u,
         \A q \in Places(a, b) : Ahead(a, b, q) < Ahead(a, b, p) => t[q] = u[q]
  PROVE  Entry(a, b, t, p) = Entry(a, b, u, p)
  BY PlacesAhead DEF Entry

LEMMA TableIs ==
  ASSUME NEW L, NEW a \in Seq(L), NEW b \in Seq(L)
  PROVE  /\ Table(a, b) \in [Places(a, b) -> Nat]
         /\ \A p \in Places(a, b) : Table(a, b)[p] = Entry(a, b, Table(a, b), p)
<1> DEFINE P == Places(a, b)
           n == Len(a) + Len(b)
           ahead == [p \in P |-> Ahead(a, b, p)]
           V == Nat
           step == [t \in [P -> V] |-> [p \in P |-> Entry(a, b, t, p)]]
           T == Table(a, b)
<1>1. n \in Nat /\ ahead \in [P -> 0 .. n]
  BY PlacesAhead
<1>2. step \in [[P -> V] -> [P -> V]]
  BY EntryIsNumber
<1>3. [P -> V] # {}
  <2>1. [p \in P |-> 0] \in [P -> V]
    OBVIOUS
  <2> QED
    BY <2>1
<1>4. \A t, u \in [P -> V] : \A p \in P :
        (\A q \in P : ahead[q] < ahead[p] => t[q] = u[q]) => step[t][p] = step[u][p]
  BY EntryLooksAhead
<1>5. \E t \in [P -> V] : t = step[t]
  <2> HIDE DEF P, V, n, ahead, step
  <2>1. LooksAhead(P, V, n, ahead, step)
    BY <1>1, <1>2, <1>4 DEF LooksAhead
  <2> QED
    BY <1>3, <2>1, RecursionByRank
<1>6. \E t : t = [p \in P |-> Entry(a, b, t, p)]
  BY <1>5
<1>7. T = CHOOSE t : t = [p \in P |-> Entry(a, b, t, p)]
  BY DEF Table, Entry
<1>8. T = [p \in P |-> Entry(a, b, T, p)]
  <2> HIDE DEF T
  <2> QED
    BY <1>6, <1>7
<1>9. T \in [P -> Nat]
  <2> DEFINE N == {p \in P : T[p] \in Nat}
  <2> HIDE DEF T
  <2>1. ASSUME NEW p \in P, \A q \in P : Ahead(a, b, q) < Ahead(a, b, p) => q \in N
        PROVE  p \in N
    <3>1. Entry(a, b, T, p) \in Nat
      BY <2>1, EntryIsNumber
    <3> QED
      BY <1>8, <3>1
  <2>2. N \in SUBSET P
    OBVIOUS
  <2>3. N = P
    <3> HIDE DEF N
    <3> QED
      BY <2>1, <2>2, AheadFalls
  <2> QED
    BY <1>8, <2>3
<1> QED
  BY <1>8, <1>9

(* The walk.                                                               *)

RowRecords(L) == [kind : {"context", "removed", "added"}, text : L, before : Nat, after : Nat]

Above(x, rows) == <<x>> \o rows

RowsAt(a, b, t, w, p) ==
  IF Same(a, b, p) THEN Above(ContextRow(a, p), w[PastBoth(p)])
  ELSE IF Gone(a, b, t, p) THEN Above(RemovedRow(a, p), w[PastOld(p)])
  ELSE IF InNew(b, p) THEN Above(AddedRow(b, p), w[PastNew(p)])
  ELSE <<>>

LEMMA RowIsRecord ==
  ASSUME NEW L, NEW a \in Seq(L), NEW b \in Seq(L), NEW p \in Places(a, b)
  PROVE  /\ InOld(a, p) => RemovedRow(a, p) \in RowRecords(L)
         /\ InOld(a, p) /\ InNew(b, p) => ContextRow(a, p) \in RowRecords(L)
         /\ InNew(b, p) => AddedRow(b, p) \in RowRecords(L)
<1>1. p[1] \in Nat /\ p[2] \in Nat
  BY PlacesAhead
<1>2. ASSUME InOld(a, p)
      PROVE  RemovedRow(a, p) \in RowRecords(L) /\ ContextRow(a, p) \in RowRecords(L)
  <2>1. a[p[1]] \in L
    BY <1>2, PlacesAhead
  <2> QED
    BY <1>1, <2>1 DEF RemovedRow, ContextRow, RowRecords, Blank
<1>3. ASSUME InNew(b, p)
      PROVE  AddedRow(b, p) \in RowRecords(L)
  <2>1. b[p[2]] \in L
    BY <1>3, PlacesAhead
  <2> QED
    BY <1>1, <2>1 DEF AddedRow, RowRecords, Blank
<1> QED
  BY <1>2, <1>3

LEMMA OneMore ==
  ASSUME NEW R, NEW x \in R, NEW s \in Seq(R)
  PROVE  /\ Above(x, s) \in Seq(R)
         /\ Len(Above(x, s)) = Len(s) + 1
         /\ Above(x, s)[1] = x
         /\ \A n \in 1 .. Len(s) : Above(x, s)[n + 1] = s[n]
  BY DEF Above

LEMMA RowsAtAreRows ==
  ASSUME NEW L, NEW a \in Seq(L), NEW b \in Seq(L), NEW p \in Places(a, b), NEW t, NEW w,
         \A q \in Places(a, b) :
           Ahead(a, b, q) < Ahead(a, b, p) => w[q] \in Seq(RowRecords(L))
  PROVE  RowsAt(a, b, t, w, p) \in Seq(RowRecords(L))
<1>1. CASE Same(a, b, p)
  <2>1. w[PastBoth(p)] \in Seq(RowRecords(L)) /\ ContextRow(a, p) \in RowRecords(L)
    BY <1>1, PlacesAhead, RowIsRecord DEF Same
  <2> QED
    BY <1>1, <2>1, OneMore DEF RowsAt
<1>2. CASE ~Same(a, b, p) /\ Gone(a, b, t, p)
  <2>1. w[PastOld(p)] \in Seq(RowRecords(L)) /\ RemovedRow(a, p) \in RowRecords(L)
    BY <1>2, PlacesAhead, RowIsRecord DEF Gone
  <2> QED
    BY <1>2, <2>1, OneMore DEF RowsAt
<1>3. CASE ~Same(a, b, p) /\ ~Gone(a, b, t, p) /\ InNew(b, p)
  <2>1. w[PastNew(p)] \in Seq(RowRecords(L)) /\ AddedRow(b, p) \in RowRecords(L)
    BY <1>3, PlacesAhead, RowIsRecord
  <2> QED
    BY <1>3, <2>1, OneMore DEF RowsAt
<1>4. CASE ~Same(a, b, p) /\ ~Gone(a, b, t, p) /\ ~InNew(b, p)
  BY <1>4 DEF RowsAt
<1> QED
  BY <1>1, <1>2, <1>3, <1>4

LEMMA RowsAtLookAhead ==
  ASSUME NEW L, NEW a \in Seq(L), NEW b \in Seq(L), NEW p \in Places(a, b), NEW t,
         NEW v, NEW w,
         \A q \in Places(a, b) : Ahead(a, b, q) < Ahead(a, b, p) => v[q] = w[q]
  PROVE  RowsAt(a, b, t, v, p) = RowsAt(a, b, t, w, p)
<1>1. InOld(a, p) => v[PastOld(p)] = w[PastOld(p)]
  BY PlacesAhead
<1>2. InNew(b, p) => v[PastNew(p)] = w[PastNew(p)]
  BY PlacesAhead
<1>3. InOld(a, p) /\ InNew(b, p) => v[PastBoth(p)] = w[PastBoth(p)]
  BY PlacesAhead
<1>4. Same(a, b, p) => InOld(a, p) /\ InNew(b, p)
  BY DEF Same
<1>5. Gone(a, b, t, p) => InOld(a, p)
  BY DEF Gone
<1> QED
  BY <1>1, <1>2, <1>3, <1>4, <1>5 DEF RowsAt

LEMMA WalkIs ==
  ASSUME NEW L, NEW a \in Seq(L), NEW b \in Seq(L)
  PROVE  \E w \in [Places(a, b) -> Seq(RowRecords(L))] :
           /\ Walk(a, b) = w[<<1, 1>>]
           /\ \A p \in Places(a, b) : w[p] = RowsAt(a, b, Table(a, b), w, p)
<1> DEFINE P == Places(a, b)
           n == Len(a) + Len(b)
           ahead == [p \in P |-> Ahead(a, b, p)]
           V == Seq(RowRecords(L))
           t == Table(a, b)
           step == [w \in [P -> V] |-> [p \in P |-> RowsAt(a, b, t, w, p)]]
           W == CHOOSE w : w = [p \in P |-> RowsAt(a, b, t, w, p)]
<1>1. n \in Nat /\ ahead \in [P -> 0 .. n]
  BY PlacesAhead
<1>2. step \in [[P -> V] -> [P -> V]]
  <2>1. ASSUME NEW w \in [P -> V], NEW p \in P
        PROVE  RowsAt(a, b, t, w, p) \in V
    BY RowsAtAreRows
  <2> HIDE DEF P, V, t
  <2> QED
    BY <2>1
<1>3. [P -> V] # {}
  <2>1. <<>> \in V
    OBVIOUS
  <2>2. [p \in P |-> <<>>] \in [P -> V]
    BY <2>1
  <2> QED
    BY <2>2
<1>4. \A v, w \in [P -> V] : \A p \in P :
        (\A q \in P : ahead[q] < ahead[p] => v[q] = w[q]) => step[v][p] = step[w][p]
  <2> SUFFICES ASSUME NEW v \in [P -> V], NEW w \in [P -> V], NEW p \in P,
                      \A q \in P : ahead[q] < ahead[p] => v[q] = w[q]
               PROVE  step[v][p] = step[w][p]
    OBVIOUS
  <2>1. RowsAt(a, b, t, v, p) = RowsAt(a, b, t, w, p)
    BY RowsAtLookAhead
  <2> HIDE DEF V, P, t
  <2> QED
    BY <2>1
<1>5. \E w \in [P -> V] : w = step[w]
  <2> HIDE DEF P, V, n, ahead, step
  <2>1. LooksAhead(P, V, n, ahead, step)
    BY <1>1, <1>2, <1>4 DEF LooksAhead
  <2> QED
    BY <1>3, <2>1, RecursionByRank
<1>6. \E w : w = [p \in P |-> RowsAt(a, b, t, w, p)]
  <2> HIDE DEF P, V, t
  <2> QED
    BY <1>5
<1>7. Walk(a, b) = W[<<1, 1>>]
  BY DEF Walk, RowsAt, Above
<1>8. W = [p \in P |-> RowsAt(a, b, t, W, p)]
  BY <1>6
<1>9. W \in [P -> V]
  <2> DEFINE N == {p \in P : W[p] \in V}
  <2> HIDE DEF W
  <2>1. ASSUME NEW p \in P, \A q \in P : Ahead(a, b, q) < Ahead(a, b, p) => q \in N
        PROVE  p \in N
    <3>1. RowsAt(a, b, t, W, p) \in V
      BY <2>1, RowsAtAreRows
    <3> HIDE DEF V, P, t
    <3> QED
      BY <1>8, <3>1
  <2>2. N \in SUBSET P
    OBVIOUS
  <2>3. N = P
    <3> HIDE DEF N
    <3> QED
      BY <2>1, <2>2, AheadFalls
  <2> HIDE DEF V, P, t
  <2> QED
    BY <1>8, <2>3
<1> HIDE DEF W
<1> QED
  BY <1>7, <1>8, <1>9

(* The rows of some kinds.                                                 *)

KeptAt(d, kinds, r, n) ==
  IF n > Len(d) THEN <<>>
  ELSE IF d[n].kind \in kinds THEN Above(d[n], r[n + 1])
  ELSE r[n + 1]

AreRows(R, d, kinds, r) ==
  /\ r \in [1 .. Len(d) + 1 -> Seq(R)]
  /\ Rows(d, kinds) = r[1]
  /\ \A n \in 1 .. Len(d) + 1 : r[n] = KeptAt(d, kinds, r, n)

LEMMA KeptAtIsRows ==
  ASSUME NEW R, NEW d \in Seq(R), NEW kinds, NEW n \in 1 .. Len(d) + 1, NEW r,
         n <= Len(d) => r[n + 1] \in Seq(R)
  PROVE  KeptAt(d, kinds, r, n) \in Seq(R)
<1>1. CASE n <= Len(d)
  <2>1. d[n] \in R /\ r[n + 1] \in Seq(R) /\ ~(n > Len(d))
    BY <1>1
  <2>2. Above(d[n], r[n + 1]) \in Seq(R)
    BY <2>1, OneMore
  <2> QED
    BY <2>1, <2>2 DEF KeptAt
<1>2. CASE n > Len(d)
  BY <1>2 DEF KeptAt
<1> QED
  BY <1>1, <1>2

LEMMA RowsAre ==
  ASSUME NEW R, NEW d \in Seq(R), NEW kinds
  PROVE  \E r : AreRows(R, d, kinds, r)
<1> DEFINE P == 1 .. Len(d) + 1
           m == Len(d)
           ahead == [n \in P |-> m + 1 - n]
           V == Seq(R)
           step == [r \in [P -> V] |-> [n \in P |-> KeptAt(d, kinds, r, n)]]
           W == CHOOSE r : r = [n \in P |-> KeptAt(d, kinds, r, n)]
<1>1. m \in Nat /\ ahead \in [P -> 0 .. m] /\ ahead \in [P -> Nat]
  OBVIOUS
<1>2. \A n \in P : n <= Len(d) => n + 1 \in P /\ ahead[n + 1] < ahead[n]
  OBVIOUS
<1>3. step \in [[P -> V] -> [P -> V]]
  <2>1. ASSUME NEW r \in [P -> V], NEW n \in P
        PROVE  KeptAt(d, kinds, r, n) \in V
    BY <1>2, KeptAtIsRows
  <2> HIDE DEF P, V
  <2> QED
    BY <2>1
<1>4. [P -> V] # {}
  <2>1. <<>> \in V
    OBVIOUS
  <2>2. [n \in P |-> <<>>] \in [P -> V]
    BY <2>1
  <2> QED
    BY <2>2
<1>5. \A v, w \in [P -> V] : \A n \in P :
        (\A k \in P : ahead[k] < ahead[n] => v[k] = w[k]) => step[v][n] = step[w][n]
  <2> SUFFICES ASSUME NEW v \in [P -> V], NEW w \in [P -> V], NEW n \in P,
                      \A k \in P : ahead[k] < ahead[n] => v[k] = w[k]
               PROVE  step[v][n] = step[w][n]
    OBVIOUS
  <2>1. n <= Len(d) \/ n > Len(d)
    OBVIOUS
  <2>2. n <= Len(d) => v[n + 1] = w[n + 1]
    <3> HIDE DEF P, ahead
    <3> QED
      BY <1>2
  <2>3. KeptAt(d, kinds, v, n) = KeptAt(d, kinds, w, n)
    BY <2>1, <2>2 DEF KeptAt
  <2> HIDE DEF V, P
  <2> QED
    BY <2>3
<1>6. \E r \in [P -> V] : r = step[r]
  <2> HIDE DEF P, V, m, ahead, step
  <2>1. LooksAhead(P, V, m, ahead, step)
    BY <1>1, <1>3, <1>5 DEF LooksAhead
  <2> QED
    BY <1>4, <2>1, RecursionByRank
<1>7. \E r : r = [n \in P |-> KeptAt(d, kinds, r, n)]
  <2> HIDE DEF P, V
  <2> QED
    BY <1>6
<1>8. Rows(d, kinds) = W[1]
  BY DEF Rows, KeptAt, Above
<1>9. W = [n \in P |-> KeptAt(d, kinds, W, n)]
  BY <1>7
<1>10. W \in [P -> V]
  <2> DEFINE N == {n \in P : W[n] \in V}
  <2> HIDE DEF W
  <2>1. ASSUME NEW n \in P, \A k \in P : ahead[k] < ahead[n] => k \in N
        PROVE  n \in N
    <3>1. n <= Len(d) => W[n + 1] \in V
      <4> HIDE DEF P, ahead
      <4> QED
        BY <1>2, <2>1
    <3>2. KeptAt(d, kinds, W, n) \in V
      BY <3>1, KeptAtIsRows
    <3> HIDE DEF V, P
    <3> QED
      BY <1>9, <3>2
  <2>2. N \in SUBSET P
    OBVIOUS
  <2>3. N = P
    <3> HIDE DEF N, ahead, P
    <3> QED
      BY <1>1, <2>1, <2>2, InductionByRank
  <2> HIDE DEF V, P
  <2> QED
    BY <1>9, <2>3
<1> HIDE DEF W
<1> QED
  BY <1>8, <1>9, <1>10 DEF AreRows

LEMMA RowsAreRows ==
  ASSUME NEW R, NEW d \in Seq(R), NEW kinds
  PROVE  Rows(d, kinds) \in Seq(R)
<1>1. PICK r : AreRows(R, d, kinds, r)
  BY RowsAre
<1>2. 1 \in 1 .. Len(d) + 1
  OBVIOUS
<1> QED
  BY <1>1, <1>2 DEF AreRows

LEMMA RowsOfMore ==
  ASSUME NEW R, NEW x \in R, NEW d \in Seq(R), NEW kinds
  PROVE  /\ Rows(d, kinds) \in Seq(R)
         /\ Rows(Above(x, d), kinds) =
              IF x.kind \in kinds THEN Above(x, Rows(d, kinds)) ELSE Rows(d, kinds)
<1>1. PICK e : /\ e = Above(x, d)
               /\ e \in Seq(R) /\ Len(e) = Len(d) + 1 /\ e[1] = x
               /\ \A n \in 1 .. Len(d) : e[n + 1] = d[n]
  BY OneMore
<1> DEFINE P == 1 .. Len(d) + 1
           ahead == [n \in P |-> Len(d) + 1 - n]
<1>2. PICK r : AreRows(R, d, kinds, r)
  BY RowsAre
<1>3. PICK q : AreRows(R, e, kinds, q)
  BY <1>1, RowsAre
<1> USE DEF AreRows
<1> DEFINE T == {n \in P : q[n + 1] = r[n]}
<1>4. ASSUME NEW n \in P, \A k \in P : ahead[k] < ahead[n] => k \in T
      PROVE  n \in T
  <2>1. n + 1 \in 1 .. Len(e) + 1 /\ n \in Nat /\ Len(d) \in Nat
    BY <1>1
  <2>2. r[n] = KeptAt(d, kinds, r, n) /\ q[n + 1] = KeptAt(e, kinds, q, n + 1)
    BY <1>2, <1>3, <2>1
  <2>3. CASE n > Len(d)
    BY <1>1, <2>1, <2>2, <2>3 DEF KeptAt
  <2>4. CASE ~(n > Len(d))
    <3>1. n + 1 \in P /\ ahead[n + 1] < ahead[n]
      BY <2>1, <2>4
    <3>2. q[n + 1 + 1] = r[n + 1]
      BY <1>4, <3>1
    <3>3. e[n + 1] = d[n] /\ ~(n + 1 > Len(e))
      BY <1>1, <2>1, <2>4
    <3>4. KeptAt(d, kinds, r, n) = KeptAt(e, kinds, q, n + 1)
      BY <2>4, <3>2, <3>3 DEF KeptAt
    <3> QED
      BY <2>2, <3>4
  <2> QED
    BY <2>3, <2>4
<1>5. T = P
  <2>1. ahead \in [P -> Nat] /\ T \in SUBSET P
    OBVIOUS
  <2> HIDE DEF T, P, ahead
  <2>2. \A n \in P : (\A k \in P : ahead[k] < ahead[n] => k \in T) => n \in T
    BY <1>4
  <2> QED
    BY <2>1, <2>2, InductionByRank
<1>6. 1 \in P /\ 1 \in 1 .. Len(e) + 1 /\ ~(1 > Len(e))
  BY <1>1
<1>7. q[1 + 1] = r[1]
  BY <1>5, <1>6
<1>8. Rows(e, kinds) = IF x.kind \in kinds THEN Above(x, r[1]) ELSE r[1]
  <2>1. q[1] = KeptAt(e, kinds, q, 1)
    BY <1>3, <1>6
  <2> QED
    BY <1>1, <1>3, <1>6, <1>7, <2>1 DEF KeptAt
<1>9. r[1] \in Seq(R)
  BY <1>2, <1>6
<1> QED
  BY <1>1, <1>2, <1>8, <1>9

LEMMA RowsOfNone ==
  ASSUME NEW kinds
  PROVE  Rows(<<>>, kinds) = <<>>
<1>1. <<>> \in Seq({}) /\ Len(<<>>) = 0
  OBVIOUS
<1>2. PICK r : AreRows({}, <<>>, kinds, r)
  BY <1>1, RowsAre
<1>3. r[1] = KeptAt(<<>>, kinds, r, 1)
  BY <1>1, <1>2 DEF AreRows
<1> QED
  BY <1>1, <1>2, <1>3 DEF KeptAt, AreRows

(* What the walk from a place reads of either file, and how much of it is  *)
(* context.                                                                *)

OldFrom(a, i, rows) ==
  /\ Len(rows) = Len(a) + 1 - i
  /\ \A n \in 1 .. Len(rows) : rows[n].text = a[i + n - 1] /\ rows[n].before = i + n - 1

NewFrom(b, j, rows) ==
  /\ Len(rows) = Len(b) + 1 - j
  /\ \A n \in 1 .. Len(rows) : rows[n].text = b[j + n - 1] /\ rows[n].after = j + n - 1

LEMMA OldWithOneMore ==
  ASSUME NEW L, NEW a \in Seq(L), NEW i \in 1 .. Len(a), NEW R, NEW rows \in Seq(R),
         OldFrom(a, i + 1, rows), NEW x \in R, x.text = a[i], x.before = i
  PROVE  OldFrom(a, i, Above(x, rows))
<1> DEFINE e == Above(x, rows)
<1>1. /\ Len(e) = Len(rows) + 1 /\ e[1] = x
      /\ \A n \in 1 .. Len(rows) : e[n + 1] = rows[n]
  BY OneMore
<1> HIDE DEF e
<1>2. Len(rows) \in Nat /\ Len(a) \in Nat /\ Len(e) = Len(a) + 1 - i
  BY <1>1 DEF OldFrom
<1>3. ASSUME NEW n \in 1 .. Len(e)
      PROVE  e[n].text = a[i + n - 1] /\ e[n].before = i + n - 1
  <2>1. CASE n = 1
    BY <1>1, <2>1
  <2>2. CASE n # 1
    <3>1. n - 1 \in 1 .. Len(rows) /\ (n - 1) + 1 = n /\ i + n - 1 = (i + 1) + (n - 1) - 1
      BY <1>1, <1>2, <2>2
    <3>2. e[n] = rows[n - 1]
      BY <1>1, <3>1
    <3> QED
      BY <3>1, <3>2 DEF OldFrom
  <2> QED
    BY <2>1, <2>2
<1>4. OldFrom(a, i, e)
  BY <1>2, <1>3 DEF OldFrom
<1> QED
  BY <1>4 DEF e

LEMMA NewWithOneMore ==
  ASSUME NEW L, NEW b \in Seq(L), NEW j \in 1 .. Len(b), NEW R, NEW rows \in Seq(R),
         NewFrom(b, j + 1, rows), NEW x \in R, x.text = b[j], x.after = j
  PROVE  NewFrom(b, j, Above(x, rows))
<1> DEFINE e == Above(x, rows)
<1>1. /\ Len(e) = Len(rows) + 1 /\ e[1] = x
      /\ \A n \in 1 .. Len(rows) : e[n + 1] = rows[n]
  BY OneMore
<1> HIDE DEF e
<1>2. Len(rows) \in Nat /\ Len(b) \in Nat /\ Len(e) = Len(b) + 1 - j
  BY <1>1 DEF NewFrom
<1>3. ASSUME NEW n \in 1 .. Len(e)
      PROVE  e[n].text = b[j + n - 1] /\ e[n].after = j + n - 1
  <2>1. CASE n = 1
    BY <1>1, <2>1
  <2>2. CASE n # 1
    <3>1. n - 1 \in 1 .. Len(rows) /\ (n - 1) + 1 = n /\ j + n - 1 = (j + 1) + (n - 1) - 1
      BY <1>1, <1>2, <2>2
    <3>2. e[n] = rows[n - 1]
      BY <1>1, <3>1
    <3> QED
      BY <3>1, <3>2 DEF NewFrom
  <2> QED
    BY <2>1, <2>2
<1>4. NewFrom(b, j, e)
  BY <1>2, <1>3 DEF NewFrom
<1> QED
  BY <1>4 DEF e

LEMMA SidesOfMore ==
  ASSUME NEW R, NEW x \in R, NEW d \in Seq(R), NEW e, e = Above(x, d)
  PROVE  /\ OldRows(d) \in Seq(R) /\ NewRows(d) \in Seq(R) /\ ContextRows(d) \in Seq(R)
         /\ x.kind = "context" => /\ OldRows(e) = Above(x, OldRows(d))
                                  /\ NewRows(e) = Above(x, NewRows(d))
                                  /\ ContextRows(e) = Above(x, ContextRows(d))
         /\ x.kind = "removed" => /\ OldRows(e) = Above(x, OldRows(d))
                                  /\ NewRows(e) = NewRows(d)
                                  /\ ContextRows(e) = ContextRows(d)
         /\ x.kind = "added" => /\ OldRows(e) = OldRows(d)
                                /\ NewRows(e) = Above(x, NewRows(d))
                                /\ ContextRows(e) = ContextRows(d)
<1> DEFINE old == {"context", "removed"}
           new == {"context", "added"}
           both == {"context"}
<1>1. /\ "context" \in old /\ "removed" \in old /\ "added" \notin old
      /\ "context" \in new /\ "added" \in new /\ "removed" \notin new
      /\ "context" \in both /\ "removed" \notin both /\ "added" \notin both
  OBVIOUS
<1>2. /\ \A y : OldRows(y) = Rows(y, old) /\ NewRows(y) = Rows(y, new)
      /\ \A y : ContextRows(y) = Rows(y, both)
  BY DEF OldRows, NewRows, ContextRows
<1> HIDE DEF old, new, both
<1>3. Rows(d, old) \in Seq(R) /\ Rows(e, old) =
        IF x.kind \in old THEN Above(x, Rows(d, old)) ELSE Rows(d, old)
  BY RowsOfMore
<1>4. Rows(d, new) \in Seq(R) /\ Rows(e, new) =
        IF x.kind \in new THEN Above(x, Rows(d, new)) ELSE Rows(d, new)
  BY RowsOfMore
<1>5. Rows(d, both) \in Seq(R) /\ Rows(e, both) =
        IF x.kind \in both THEN Above(x, Rows(d, both)) ELSE Rows(d, both)
  BY RowsOfMore
<1> QED
  BY <1>1, <1>2, <1>3, <1>4, <1>5

ReadsFrom(a, b, t, p, d) ==
  /\ OldFrom(a, p[1], OldRows(d))
  /\ NewFrom(b, p[2], NewRows(d))
  /\ Len(ContextRows(d)) = t[p]

LEMMA WalkReads ==
  ASSUME NEW L, NEW a \in Seq(L), NEW b \in Seq(L), NEW p \in Places(a, b), NEW t, NEW w,
         t \in [Places(a, b) -> Nat], w \in [Places(a, b) -> Seq(RowRecords(L))],
         \A q \in Places(a, b) : t[q] = Entry(a, b, t, q),
         w[p] = RowsAt(a, b, t, w, p),
         \A q \in Places(a, b) :
           Ahead(a, b, q) < Ahead(a, b, p) => ReadsFrom(a, b, t, q, w[q])
  PROVE  ReadsFrom(a, b, t, p, w[p])
<1> DEFINE R == RowRecords(L)
<1>1. t[p] = Entry(a, b, t, p)
  OBVIOUS
<1>2. CASE Same(a, b, p)
  <2> DEFINE q == PastBoth(p)
             x == ContextRow(a, p)
  <2>1. q \in Places(a, b) /\ Ahead(a, b, q) < Ahead(a, b, p) /\ InOld(a, p) /\ InNew(b, p)
    BY <1>2, PlacesAhead DEF Same
  <2>2. p[1] \in 1 .. Len(a) /\ p[2] \in 1 .. Len(b) /\ a[p[1]] = b[p[2]]
    BY <1>2, <2>1, PlacesAhead DEF Same
  <2>3. q[1] = p[1] + 1 /\ q[2] = p[2] + 1
    BY DEF PastBoth
  <2>4. x \in R /\ x.kind = "context" /\ x.text = a[p[1]] /\ x.before = p[1] /\ x.after = p[2]
    BY <2>1, RowIsRecord DEF ContextRow
  <2>5. w[p] = Above(x, w[q]) /\ w[q] \in Seq(R)
    BY <1>2, <2>1 DEF RowsAt
  <2>6. t[p] = t[q] + 1
    BY <1>1, <2>1, <2>2 DEF Entry
  <2>7. ReadsFrom(a, b, t, q, w[q])
    BY <2>1
  <2> HIDE DEF q, x, R
  <2>8. /\ OldRows(w[q]) \in Seq(R) /\ OldRows(w[p]) = Above(x, OldRows(w[q]))
        /\ NewRows(w[q]) \in Seq(R) /\ NewRows(w[p]) = Above(x, NewRows(w[q]))
    BY <2>4, <2>5, SidesOfMore
  <2>9. /\ ContextRows(w[q]) \in Seq(R)
        /\ ContextRows(w[p]) = Above(x, ContextRows(w[q]))
    BY <2>4, <2>5, SidesOfMore
  <2>10. OldFrom(a, p[1], OldRows(w[p]))
    BY <2>2, <2>3, <2>4, <2>7, <2>8, OldWithOneMore DEF ReadsFrom
  <2>11. NewFrom(b, p[2], NewRows(w[p]))
    BY <2>2, <2>3, <2>4, <2>7, <2>8, NewWithOneMore DEF ReadsFrom
  <2>12. Len(ContextRows(w[p])) = t[p]
    <3>1. Len(Above(x, ContextRows(w[q]))) = Len(ContextRows(w[q])) + 1
      BY <2>4, <2>9, OneMore
    <3> QED
      BY <2>6, <2>7, <2>9, <3>1 DEF ReadsFrom
  <2> QED
    BY <2>10, <2>11, <2>12 DEF ReadsFrom
<1>3. CASE ~Same(a, b, p) /\ Gone(a, b, t, p)
  <2> DEFINE q == PastOld(p)
             x == RemovedRow(a, p)
  <2>1. q \in Places(a, b) /\ Ahead(a, b, q) < Ahead(a, b, p) /\ InOld(a, p)
        /\ p[1] \in 1 .. Len(a)
    BY <1>3, PlacesAhead DEF Gone
  <2>2. q[1] = p[1] + 1 /\ q[2] = p[2]
    BY DEF PastOld
  <2>3. x \in R /\ x.kind = "removed" /\ x.text = a[p[1]] /\ x.before = p[1]
    BY <2>1, RowIsRecord DEF RemovedRow
  <2>4. w[p] = Above(x, w[q]) /\ w[q] \in Seq(R)
    BY <1>3, <2>1 DEF RowsAt
  <2>5. t[p] = t[q]
    <3>1. CASE InNew(b, p)
      <4>1. a[p[1]] # b[p[2]] /\ t[q] >= t[PastNew(p)]
        BY <1>3, <2>1, <3>1 DEF Same, Gone
      <4> QED
        BY <1>1, <2>1, <3>1, <4>1 DEF Entry, Larger
    <3>2. CASE ~InNew(b, p)
      <4>1. ~InNew(b, q)
        BY <2>2, <3>2 DEF InNew
      <4>2. t[q] = 0
        BY <2>1, <4>1 DEF Entry
      <4> QED
        BY <1>1, <3>2, <4>2 DEF Entry
    <3> QED
      BY <3>1, <3>2
  <2>6. ReadsFrom(a, b, t, q, w[q])
    BY <2>1
  <2> HIDE DEF q, x, R
  <2>7. /\ OldRows(w[q]) \in Seq(R) /\ OldRows(w[p]) = Above(x, OldRows(w[q]))
        /\ NewRows(w[p]) = NewRows(w[q])
        /\ ContextRows(w[p]) = ContextRows(w[q])
    BY <2>3, <2>4, SidesOfMore
  <2>8. OldFrom(a, p[1], OldRows(w[p]))
    BY <2>1, <2>2, <2>3, <2>6, <2>7, OldWithOneMore DEF ReadsFrom
  <2> QED
    BY <2>2, <2>5, <2>6, <2>7, <2>8 DEF ReadsFrom
<1>4. CASE ~Same(a, b, p) /\ ~Gone(a, b, t, p) /\ InNew(b, p)
  <2> DEFINE q == PastNew(p)
             x == AddedRow(b, p)
  <2>1. q \in Places(a, b) /\ Ahead(a, b, q) < Ahead(a, b, p) /\ p[2] \in 1 .. Len(b)
    BY <1>4, PlacesAhead
  <2>2. q[1] = p[1] /\ q[2] = p[2] + 1
    BY DEF PastNew
  <2>3. x \in R /\ x.kind = "added" /\ x.text = b[p[2]] /\ x.after = p[2]
    BY <1>4, RowIsRecord DEF AddedRow
  <2>4. w[p] = Above(x, w[q]) /\ w[q] \in Seq(R)
    BY <1>4, <2>1 DEF RowsAt
  <2>5. t[p] = t[q]
    <3>1. CASE InOld(a, p)
      <4>1. a[p[1]] # b[p[2]] /\ ~(t[PastOld(p)] >= t[q])
        BY <1>4, <3>1 DEF Same, Gone
      <4> QED
        BY <1>1, <1>4, <3>1, <4>1 DEF Entry, Larger
    <3>2. CASE ~InOld(a, p)
      <4>1. ~InOld(a, q)
        BY <2>2, <3>2 DEF InOld
      <4>2. t[q] = 0
        BY <2>1, <4>1 DEF Entry
      <4> QED
        BY <1>1, <3>2, <4>2 DEF Entry
    <3> QED
      BY <3>1, <3>2
  <2>6. ReadsFrom(a, b, t, q, w[q])
    BY <2>1
  <2> HIDE DEF q, x, R
  <2>7. /\ NewRows(w[q]) \in Seq(R) /\ NewRows(w[p]) = Above(x, NewRows(w[q]))
        /\ OldRows(w[p]) = OldRows(w[q])
        /\ ContextRows(w[p]) = ContextRows(w[q])
    BY <2>3, <2>4, SidesOfMore
  <2>8. NewFrom(b, p[2], NewRows(w[p]))
    BY <2>1, <2>2, <2>3, <2>6, <2>7, NewWithOneMore DEF ReadsFrom
  <2> QED
    BY <2>2, <2>5, <2>6, <2>7, <2>8 DEF ReadsFrom
<1>5. CASE ~Same(a, b, p) /\ ~Gone(a, b, t, p) /\ ~InNew(b, p)
  <2>1. w[p] = <<>> /\ ~InOld(a, p)
    BY <1>5 DEF RowsAt, Gone
  <2>2. Len(a) + 1 - p[1] = 0 /\ Len(b) + 1 - p[2] = 0
    BY <1>5, <2>1, PlacesAhead DEF InOld, InNew
  <2>3. t[p] = 0
    BY <1>1, <1>5 DEF Entry
  <2>4. OldRows(w[p]) = <<>> /\ NewRows(w[p]) = <<>> /\ ContextRows(w[p]) = <<>>
    BY <2>1, RowsOfNone DEF OldRows, NewRows, ContextRows
  <2> QED
    BY <2>2, <2>3, <2>4 DEF ReadsFrom, OldFrom, NewFrom
<1> QED
  BY <1>2, <1>3, <1>4, <1>5

(* No common subsequence is longer than the table says.                    *)

Beyond(c, p) == \A q \in c : p[1] <= q[1] /\ p[2] <= q[2]

NoLonger(a, b, t, p) == \A c \in Common(a, b) : Beyond(c, p) => Cardinality(c) <= t[p]

LEMMA CommonIs ==
  ASSUME NEW L, NEW a \in Seq(L), NEW b \in Seq(L), NEW c \in Common(a, b)
  PROVE  /\ \A q \in c : /\ q = <<q[1], q[2]>> /\ q[1] \in 1 .. Len(a)
                         /\ q[2] \in 1 .. Len(b) /\ a[q[1]] = b[q[2]]
         /\ \A q, r \in c : q # r => \/ q[1] < r[1] /\ q[2] < r[2]
                                     \/ r[1] < q[1] /\ r[2] < q[2]
         /\ IsFiniteSet(c) /\ Cardinality(c) \in Nat
         /\ \A d \in SUBSET c : d \in Common(a, b)
<1>1. \A q \in c : /\ q = <<q[1], q[2]>> /\ q[1] \in 1 .. Len(a)
                   /\ q[2] \in 1 .. Len(b) /\ a[q[1]] = b[q[2]]
  BY DEF Common
<1>2. \A q, r \in c : q # r => \/ q[1] < r[1] /\ q[2] < r[2]
                               \/ r[1] < q[1] /\ r[2] < q[2]
  BY DEF Common
<1>3. IsFiniteSet(c)
  <2> DEFINE f == [q \in c |-> q[1]]
  <2>1. f \in [c -> 1 .. Len(a)]
    BY <1>1
  <2>2. \A q, r \in c : f[q] = f[r] => q = r
    BY <1>1, <1>2
  <2>3. f \in Injection(c, 1 .. Len(a))
    BY <2>1, <2>2 DEF Injection, IsInjective
  <2>4. IsFiniteSet(1 .. Len(a))
    BY FS_Interval
  <2> HIDE DEF f
  <2> QED
    BY <2>3, <2>4, FS_Injection
<1>4. \A d \in SUBSET c : d \in Common(a, b)
  BY DEF Common
<1> QED
  BY <1>1, <1>2, <1>3, <1>4, FS_CardinalityType

LEMMA NoLongerStep ==
  ASSUME NEW L, NEW a \in Seq(L), NEW b \in Seq(L), NEW p \in Places(a, b), NEW t,
         t \in [Places(a, b) -> Nat], t[p] = Entry(a, b, t, p),
         \A q \in Places(a, b) :
           Ahead(a, b, q) < Ahead(a, b, p) => NoLonger(a, b, t, q)
  PROVE  NoLonger(a, b, t, p)
<1> SUFFICES ASSUME NEW c \in Common(a, b), Beyond(c, p)
             PROVE  Cardinality(c) <= t[p]
  BY DEF NoLonger
<1> USE DEF Beyond
<1>1. p[1] \in 1 .. Len(a) + 1 /\ p[2] \in 1 .. Len(b) + 1 /\ Len(a) \in Nat /\ Len(b) \in Nat
  BY PlacesAhead
<1>2. CASE ~InOld(a, p) \/ ~InNew(b, p)
  <2>1. c = {}
    BY <1>1, <1>2, CommonIs DEF InOld, InNew
  <2>2. Cardinality(c) = 0
    BY <2>1, FS_EmptySet
  <2>3. t[p] = 0
    BY <1>2 DEF Entry
  <2> QED
    BY <2>2, <2>3
<1>3. CASE InOld(a, p) /\ InNew(b, p) /\ a[p[1]] = b[p[2]]
  <2> DEFINE q == PastBoth(p)
             d == {r \in c : q[1] <= r[1] /\ q[2] <= r[2]}
  <2>1. q \in Places(a, b) /\ t[q] \in Nat /\ NoLonger(a, b, t, q)
    BY <1>3, PlacesAhead
  <2>2. q[1] = p[1] + 1 /\ q[2] = p[2] + 1
    BY DEF PastBoth
  <2>3. t[p] = t[q] + 1
    BY <1>3 DEF Entry
  <2> HIDE DEF q
  <2>4. Cardinality(d) <= t[q] /\ IsFiniteSet(d) /\ Cardinality(d) \in Nat
    <3>1. d \in Common(a, b) /\ Beyond(d, q)
      BY CommonIs
    <3> HIDE DEF d
    <3> QED
      BY <2>1, <3>1, CommonIs DEF NoLonger
  <2>5. \A r, s \in c \ d : r = s
    <3> SUFFICES ASSUME NEW r \in c \ d, NEW s \in c \ d, r # s
                 PROVE  FALSE
      OBVIOUS
    <3>1. /\ r[1] \in Nat /\ r[2] \in Nat /\ s[1] \in Nat /\ s[2] \in Nat
          /\ p[1] <= r[1] /\ p[2] <= r[2] /\ p[1] <= s[1] /\ p[2] <= s[2]
      BY CommonIs
    <3>2. /\ ~(p[1] + 1 <= r[1] /\ p[2] + 1 <= r[2])
          /\ ~(p[1] + 1 <= s[1] /\ p[2] + 1 <= s[2])
      BY <2>2
    <3>3. (r[1] < s[1] /\ r[2] < s[2]) \/ (s[1] < r[1] /\ s[2] < r[2])
      BY CommonIs
    <3>4. p[1] \in Nat /\ p[2] \in Nat
      BY <1>1
    <3>5. CASE r[1] < s[1] /\ r[2] < s[2]
      <4>1. p[1] + 1 <= s[1] /\ p[2] + 1 <= s[2]
        BY <3>1, <3>4, <3>5
      <4> QED
        BY <3>2, <4>1
    <3>6. CASE s[1] < r[1] /\ s[2] < r[2]
      <4>1. p[1] + 1 <= r[1] /\ p[2] + 1 <= r[2]
        BY <3>1, <3>4, <3>6
      <4> QED
        BY <3>2, <4>1
    <3> QED
      BY <3>3, <3>5, <3>6
  <2>6. Cardinality(c) <= Cardinality(d) + 1
    <3>1. CASE c \ d = {}
      <4>1. c = d
        BY <3>1
      <4> HIDE DEF d
      <4> QED
        BY <2>4, <4>1
    <3>2. CASE c \ d # {}
      <4>1. PICK r \in c : r \notin d
        BY <3>2
      <4>2. c = d \cup {r}
        BY <2>5, <4>1
      <4> HIDE DEF d
      <4>3. Cardinality(d \cup {r}) = Cardinality(d) + 1
        BY <2>4, <4>1, FS_AddElement
      <4> QED
        BY <2>4, <4>2, <4>3
    <3> QED
      BY <3>1, <3>2
  <2>7. Cardinality(c) \in Nat
    BY CommonIs
  <2> HIDE DEF d
  <2> QED
    BY <2>1, <2>3, <2>4, <2>6, <2>7
<1>4. CASE InOld(a, p) /\ InNew(b, p) /\ a[p[1]] # b[p[2]]
  <2>1. /\ PastOld(p) \in Places(a, b) /\ NoLonger(a, b, t, PastOld(p))
        /\ PastNew(p) \in Places(a, b) /\ NoLonger(a, b, t, PastNew(p))
    BY <1>4, PlacesAhead
  <2>2. /\ PastOld(p)[1] = p[1] + 1 /\ PastOld(p)[2] = p[2]
        /\ PastNew(p)[1] = p[1] /\ PastNew(p)[2] = p[2] + 1
    BY DEF PastOld, PastNew
  <2>3. /\ t[p] = Larger(t[PastOld(p)], t[PastNew(p)])
        /\ t[PastOld(p)] \in Nat /\ t[PastNew(p)] \in Nat /\ Cardinality(c) \in Nat
    BY <1>4, <2>1, CommonIs DEF Entry
  <2>4. CASE \E r \in c : r[1] = p[1]
    <3>1. PICK r \in c : r[1] = p[1]
      BY <2>4
    <3>2. r[2] \in Nat /\ p[2] <= r[2] /\ r[2] # p[2]
      BY <1>4, <3>1, CommonIs
    <3>3. ASSUME NEW s \in c
          PROVE  p[1] <= s[1] /\ p[2] + 1 <= s[2]
      <4>1. s[1] \in Nat /\ s[2] \in Nat /\ p[1] <= s[1]
        BY CommonIs
      <4>2. CASE s = r
        BY <1>1, <3>2, <4>1, <4>2
      <4>3. CASE s # r
        <5>1. (s[1] < r[1] /\ s[2] < r[2]) \/ (r[1] < s[1] /\ r[2] < s[2])
          BY <4>3, CommonIs
        <5> QED
          BY <1>1, <3>1, <3>2, <4>1, <5>1
      <4> QED
        BY <4>2, <4>3
    <3>4. Cardinality(c) <= t[PastNew(p)]
      BY <2>1, <2>2, <3>3 DEF NoLonger
    <3> QED
      BY <2>3, <3>4 DEF Larger
  <2>5. CASE ~\E r \in c : r[1] = p[1]
    <3>1. ASSUME NEW s \in c
          PROVE  p[1] + 1 <= s[1] /\ p[2] <= s[2]
      <4>1. s[1] \in Nat /\ p[1] <= s[1] /\ s[1] # p[1] /\ p[2] <= s[2]
        BY <2>5, CommonIs
      <4> QED
        BY <1>1, <4>1
    <3>2. Cardinality(c) <= t[PastOld(p)]
      BY <2>1, <2>2, <3>1 DEF NoLonger
    <3> QED
      BY <2>3, <3>2 DEF Larger
  <2> QED
    BY <2>4, <2>5
<1> QED
  BY <1>2, <1>3, <1>4

(* Of any two files, the walk reads both, and keeps as many lines of       *)
(* context as there can be.                                                *)
LEMMA WalkIsRight ==
  ASSUME NEW L, NEW a \in Seq(L), NEW b \in Seq(L)
  PROVE  /\ OldRows(Walk(a, b)) \in Seq(RowRecords(L)) /\ OldFrom(a, 1, OldRows(Walk(a, b)))
         /\ NewRows(Walk(a, b)) \in Seq(RowRecords(L)) /\ NewFrom(b, 1, NewRows(Walk(a, b)))
         /\ \A c \in Common(a, b) : Cardinality(c) <= Len(ContextRows(Walk(a, b)))
<1> DEFINE P == Places(a, b)
           t == Table(a, b)
           start == <<1, 1>>
<1>1. /\ t \in [P -> Nat]
      /\ \A p \in P : t[p] = Entry(a, b, t, p)
  BY TableIs
<1>2. PICK w \in [P -> Seq(RowRecords(L))] :
             /\ Walk(a, b) = w[start]
             /\ \A p \in P : w[p] = RowsAt(a, b, t, w, p)
  BY WalkIs
<1> DEFINE T == {p \in P : ReadsFrom(a, b, t, p, w[p]) /\ NoLonger(a, b, t, p)}
<1> HIDE DEF t
<1>3. ASSUME NEW p \in P, \A q \in P : Ahead(a, b, q) < Ahead(a, b, p) => q \in T
      PROVE  p \in T
  <2>1. ReadsFrom(a, b, t, p, w[p])
    BY <1>1, <1>2, <1>3, WalkReads
  <2>2. NoLonger(a, b, t, p)
    BY <1>1, <1>3, NoLongerStep
  <2> QED
    BY <2>1, <2>2
<1>4. T = P
  <2>1. T \in SUBSET P
    OBVIOUS
  <2>2. \A p \in P : (\A q \in P : Ahead(a, b, q) < Ahead(a, b, p) => q \in T) => p \in T
    BY <1>3
  <2> HIDE DEF T
  <2> QED
    BY <2>1, <2>2, AheadFalls
<1>5. start \in P /\ start[1] = 1 /\ start[2] = 1
  BY DEF Places
<1>6. ReadsFrom(a, b, t, start, w[start]) /\ NoLonger(a, b, t, start)
  BY <1>4, <1>5
<1>7. ASSUME NEW c \in Common(a, b)
      PROVE  Cardinality(c) <= t[start]
  <2>1. Beyond(c, start)
    BY <1>5, CommonIs DEF Beyond
  <2> QED
    BY <1>6, <2>1 DEF NoLonger
<1>8. w[start] \in Seq(RowRecords(L))
  BY <1>5
<1>9. OldRows(w[start]) \in Seq(RowRecords(L)) /\ NewRows(w[start]) \in Seq(RowRecords(L))
  BY <1>8, RowsAreRows DEF OldRows, NewRows
<1> HIDE DEF start
<1> QED
  BY <1>2, <1>5, <1>6, <1>7, <1>9 DEF ReadsFrom

(* Of any two files of lines: both can be read off their diff, line by line *)
(* and number by number, and no common subsequence of theirs is longer than *)
(* what the diff keeps (file-diff.tsx:71-121).                              *)
THEOREM DiffIsRight ==
  ASSUME NEW L, NEW previous \in Seq(L), NEW contents \in Seq(L)
  PROVE  ReadsBothWays(previous, contents) /\ NoneIsLonger(previous, contents)
<1> DEFINE a == Before(previous)
           old == OldRows(Walk(a, contents))
           new == NewRows(Walk(a, contents))
<1>1. a \in Seq(L)
  BY DEF Before
<1> HIDE DEF a
<1>2. /\ old \in Seq(RowRecords(L)) /\ OldFrom(a, 1, old)
      /\ new \in Seq(RowRecords(L)) /\ NewFrom(contents, 1, new)
      /\ \A c \in Common(a, contents) : Cardinality(c) <= Len(ContextRows(Walk(a, contents)))
  BY <1>1, WalkIsRight
<1>3. NoneIsLonger(previous, contents)
  BY <1>2 DEF NoneIsLonger, Diff, a
<1> HIDE DEF old, new
<1>4. /\ Len(old) = Len(a) /\ Len(new) = Len(contents)
      /\ \A n \in DOMAIN old : old[n].text = a[n] /\ old[n].before = n
      /\ \A n \in DOMAIN new : new[n].text = contents[n] /\ new[n].after = n
  <2>1. DOMAIN old = 1 .. Len(old) /\ DOMAIN new = 1 .. Len(new)
    BY <1>2
  <2>2. Len(old) = Len(a) /\ Len(new) = Len(contents)
    BY <1>1, <1>2 DEF OldFrom, NewFrom
  <2>3. ASSUME NEW n \in 1 .. Len(old)
        PROVE  old[n].text = a[n] /\ old[n].before = n
    <3>1. 1 + n - 1 = n
      OBVIOUS
    <3> QED
      BY <1>2, <3>1 DEF OldFrom
  <2>4. ASSUME NEW n \in 1 .. Len(new)
        PROVE  new[n].text = contents[n] /\ new[n].after = n
    <3>1. 1 + n - 1 = n
      OBVIOUS
    <3> QED
      BY <1>2, <3>1 DEF NewFrom
  <2> QED
    BY <2>1, <2>2, <2>3, <2>4
<1>5. ReadsBothWays(previous, contents)
  BY <1>4 DEF ReadsBothWays, Diff, a, old, new
<1> QED
  BY <1>3, <1>5

(* Of the files on screen. *)
LEMMA FilesHaveLines ==
  ASSUME IInv, Has("proposal"), NEW p \in DOMAIN Files
  PROVE  \E L : PreviousOf(Files[p]) \in Seq(L) /\ Files[p].contents \in Seq(L)
<1> DEFINE v == cache["proposal"]
           f == v.files[p]
           L == UNION {{body[n] : n \in DOMAIN body} : body \in Bodies}
<1>1. ASSUME NEW body \in Bodies
      PROVE  body \in Seq(L)
  <2> DEFINE own == {body[n] : n \in DOMAIN body}
  <2>1. body \in Seq(own)
    BY WorkspaceAssumption DEF IsFile
  <2>2. own \subseteq L
    OBVIOUS
  <2> HIDE DEF own, L
  <2> QED
    BY <2>1, <2>2
<1>2. f \in FileViews /\ p \in DOMAIN v.files
  <2>1. DataOK("proposal", v, gens, Imported)
    BY DEF IInv, ReadsOK, Keys
  <2>2. v \in ProposalViews /\ p \in DOMAIN v.files
    BY <2>1 DEF Has, DataOK, ProposalOK, Files
  <2> QED
    BY <2>2 DEF ProposalViews
<1>3. p \in DOMAIN edits => edits[p].contents \in Bodies
  BY EditsAre DEF IInv, EditsOK, Bodies
<1>4. Files[p].contents \in Bodies /\ Files[p].previous \in Bodies \cup {Absent}
  <2>1. CASE p \in DOMAIN edits
    <3> DEFINE f1 == [f EXCEPT !.contents = edits[p].contents]
               f2 == [f1 EXCEPT !.status = "MODIFIED"]
    <3>1. Files[p] = f2
      BY <2>1, <1>2 DEF Files
    <3> HIDE DEF f
    <3>2. f1 = [status |-> f.status, contents |-> edits[p].contents, previous |-> f.previous]
      BY <1>2 DEF FileViews
    <3> HIDE DEF f1
    <3>3. f2.contents = edits[p].contents /\ f2.previous = f.previous
      BY <3>2
    <3> QED
      BY <2>1, <3>1, <3>3, <1>2, <1>3 DEF FileViews
  <2>2. CASE p \notin DOMAIN edits
    <3>1. Files[p] = f
      BY <2>2, <1>2 DEF Files
    <3> QED
      BY <3>1, <1>2 DEF FileViews
  <2> QED
    BY <2>1, <2>2
<1>5. <<>> \in Seq(L)
  OBVIOUS
<1> HIDE DEF L
<1>6. PreviousOf(Files[p]) \in Seq(L) /\ Files[p].contents \in Seq(L)
  BY <1>1, <1>4, <1>5 DEF PreviousOf
<1> QED
  BY <1>6

-----------------------------------------------------------------------------
(* Every step.                                                             *)

LEMMA InitIInv ==
  ASSUME Init
  PROVE  IInv
<1>1. /\ case \in {None} \cup CaseRecords
      /\ models \in Seq(Documents)
      /\ gens \in Seq(GenRecords)
      /\ \A g \in DOMAIN gens : gens[g].model <= Len(models)
      /\ models # <<>> \/ gens # <<>> => Imported
  <2>1. CASE case = None /\ models = <<>> /\ gens = <<>>
    BY <2>1
  <2>2. ASSUME NEW d \in Documents, models = <<d>>, NEW status \in {"MODELLED", "COMMITTED"},
               case = [steps |-> MaxSteps, status |-> status]
        PROVE  /\ case \in CaseRecords /\ Imported
               /\ models \in Seq(Documents) /\ Len(models) = 1
    BY <2>2, WorkspaceAssumption DEF CaseRecords, Imported
  <2>3. CASE /\ case = [steps |-> MaxSteps, status |-> "MODELLED"]
             /\ models \in {<<d>> : d \in Documents}
             /\ gens = <<>>
    BY <2>2, <2>3
  <2>4. ASSUME NEW f \in Projections, case = [steps |-> MaxSteps, status |-> "COMMITTED"],
               models \in {<<d>> : d \in Documents},
               gens = <<[Stored(1, f) EXCEPT !.status = "APPLIED"]>>
        PROVE  /\ case \in CaseRecords /\ Imported /\ models \in Seq(Documents)
               /\ gens \in Seq(GenRecords)
               /\ \A g \in DOMAIN gens : gens[g].model <= Len(models)
    <3> DEFINE new == [Stored(1, f) EXCEPT !.status = "APPLIED"]
    <3>1. new \in GenRecords /\ new.model = 1
      BY WorkspaceAssumption DEF Stored, GenRecords
    <3>2. gens = <<new>>
      BY <2>4
    <3> HIDE DEF new
    <3>3. /\ case \in CaseRecords /\ Imported
          /\ models \in Seq(Documents) /\ Len(models) = 1
      BY <2>2, <2>4
    <3>4. gens \in Seq(GenRecords) /\ DOMAIN gens = {1} /\ gens[1] = new
      BY <3>1, <3>2
    <3> QED
      BY <3>1, <3>3, <3>4
  <2> QED
    BY <2>1, <2>3, <2>4 DEF Init
<1>2. repo \in [Paths -> Bodies \cup {Absent}]
  <2>1. \A p \in Paths : gens # <<>> /\ p \in DOMAIN gens[1].files => gens[1].files[p] \in Bodies
    <3>1. gens # <<>> => gens[1] \in GenRecords
      BY <1>1
    <3> QED
      BY <3>1, FilesAre DEF GenRecords
  <2> QED
    BY <2>1 DEF Init
<1>3. CommitsOK
  BY DEF Init, CommitsOK, CommitsWhatWasShown
<1>4. ReadsOK
  <2>1. /\ cache = [k \in Keys |-> Nothing] /\ errored = {}
        /\ request = [k \in Keys |-> IF k = "case" THEN Asked ELSE Idle]
    BY DEF Init
  <2>2. \A k \in Keys : cache[k] = Nothing /\ request[k].data = Nothing
    BY <2>1 DEF Asked, Idle
  <2>3. \A k \in Keys : DataOK(k, Nothing, gens, Imported)
    BY DEF DataOK
  <2>4. /\ cache \in [Keys -> Data]
        /\ request \in [Keys -> [phase : {"none", "asked", "answered"}, data : Data]]
    BY <2>1 DEF Asked, Idle, Data
  <2> QED
    BY <2>1, <2>2, <2>3, <2>4 DEF ReadsOK
<1>5. EditsOK /\ CallsOK
  BY NoEdits DEF Init, EditsOK, CallsOK
<1> QED
  BY <1>1, <1>2, <1>3, <1>4, <1>5 DEF IInv, ServerOK

LEMMA NextIInv ==
  ASSUME IInv, [Next]_vars
  PROVE  IInv'
<1>1. CASE UNCHANGED vars
  BY <1>1, LocalReads, ReadsLater, ServerKept DEF vars, IInv
<1>2. ASSUME NEW k \in Keys, ReadRuns(k) \/ ReadArrives(k) \/ ReadFails(k) \/ Retry(k)
      PROVE  IInv'
  BY <1>2, ReadRunsStep, ReadArrivesStep, ReadFailsStep, RetryStep
<1>3. ASSUME NEW tab \in {"case", "model", "script"}, OpenTab(tab)
      PROVE  IInv'
  BY <1>3, OpenTabStep
<1>4. CASE \/ PrepareAutomation \/ RunModelling \/ RunGeneration
           \/ (\E push \in BOOLEAN : ApplyProposal(push)) \/ RejectProposal
  BY <1>4, ControlsStep
<1>5. ASSUME NEW p \in Paths, (\E c \in Corrections : EditFile(p, c)) \/ RevertEdit(p)
      PROVE  IInv'
  BY <1>5, EditFileStep, RevertEditStep
<1>6. ASSUME NEW n \in 1 .. MaxCalls,
             \/ ImportRuns(n) \/ ModelBegins(n) \/ ModelEnds(n)
             \/ GenerateBegins(n) \/ GenerateEnds(n)
             \/ ApplyBegins(n) \/ ApplyEnds(n) \/ RejectRuns(n)
      PROVE  IInv'
  BY <1>6, ImportRunsStep, ModelBeginsStep, ModelEndsStep, GenerateBeginsStep,
     GenerateEndsStep, ApplyBeginsStep, ApplyEndsStep, RejectRunsStep
<1>7. ASSUME NEW n \in 1 .. MaxCalls,
             \/ CallFails(n) \/ CallLost(n)
             \/ ImportAnswered(n) \/ ModelAnswered(n) \/ GenerateAnswered(n)
             \/ DecisionAnswered(n)
      PROVE  IInv'
  <2>1. CASE CallFails(n) \/ CallLost(n)
    BY <2>1, CallGoesStep
  <2>2. CASE ImportAnswered(n)
    BY <2>2, ImportAnsweredStep DEF ImportAnswered, Succeeds, At
  <2>3. CASE ModelAnswered(n)
    BY <2>3, ModelAnsweredStep DEF ModelAnswered, Succeeds, At
  <2>4. CASE GenerateAnswered(n)
    BY <2>4, GenerateAnsweredStep DEF GenerateAnswered, Succeeds, At
  <2>5. CASE DecisionAnswered(n)
    BY <2>5, DecisionAnsweredStep DEF DecisionAnswered, Succeeds, At
  <2> QED
    BY <1>7, <2>1, <2>2, <2>3, <2>4, <2>5
<1>8. CASE \/ \E s \in 0 .. MaxSteps : EditCase(s)
           \/ \E d \in Documents : Remodel(d)
           \/ \E f \in Projections : Regenerate(f)
           \/ \E p \in SpecPaths, c \in Corrections : Repair(p, c)
  BY <1>8, EditCaseStep, RemodelStep, RegenerateStep, RepairStep
<1> QED
  BY <1>1, <1>2, <1>3, <1>4, <1>5, <1>6, <1>7, <1>8 DEF Next

(* IInv is an invariant: every proposal on its way to the workspace, or     *)
(* there, is one the API holds with those bodies, and every Apply under way *)
(* will write what it was clicked on.                                       *)
THEOREM WorkspaceIsKept == Spec => []IInv
<1>1. Init => IInv
  BY InitIInv
<1>2. IInv /\ [Next]_vars => IInv'
  BY NextIInv
<1> QED
  BY <1>1, <1>2, PTL DEF Spec

(* Every variable has its type (external-test-workspace.tsx:150-260).       *)
THEOREM TypesHold == Spec => []TypeOK
<1>1. IInv => TypeOK
  <2> SUFFICES ASSUME IInv
               PROVE  TypeOK
    OBVIOUS
  <2>1. case \in {None} \cup CaseRecords /\ repo \in [Paths -> Bodies \cup {Absent}]
    BY DEF IInv, ServerOK
  <2>2. \A n \in DOMAIN models : models[n] \in Documents
    BY DEF IInv, ServerOK
  <2>3. ASSUME NEW g \in DOMAIN gens
        PROVE  gens[g].model \in 0 .. Len(models) /\ DOMAIN gens[g].files \subseteq Paths
    <3>1. gens[g] \in GenRecords /\ gens[g].model <= Len(models) /\ Len(models) \in Nat
      BY DEF IInv, ServerOK
    <3> QED
      BY <3>1, FilesAre DEF GenRecords
  <2>4. DOMAIN cache = Keys /\ DOMAIN request = Keys /\ errored \subseteq Keys
    BY DEF IInv, ReadsOK
  <2>5. /\ DOMAIN edits \subseteq Paths
        /\ \A p \in DOMAIN edits : edits[p].contents \in Corrections
    BY EditsAre DEF IInv, EditsOK
  <2>6. \A n \in DOMAIN calls : calls[n].kind \in Kinds \cup {Nothing}
    BY DEF IInv, CallsOK, CallOK, CallRecords
  <2> QED
    BY <2>1, <2>2, <2>3, <2>4, <2>5, <2>6 DEF TypeOK
<1> QED
  BY <1>1, WorkspaceIsKept, PTL

(* What a click on Apply commits is, file by file, what was on screen when  *)
(* it was clicked, and it is pushed only if the switch said so              *)
(* (code-proposal-panel.tsx:90-94).  The files of a proposal never change   *)
(* once stored, so the bodies read when the call was handled are those      *)
(* read when the panel was filled.                                         *)
THEOREM WhatWasShownIsCommitted == Spec => []CommitsWhatWasShown
<1>1. IInv => CommitsWhatWasShown
  BY DEF IInv, CommitsOK
<1> QED
  BY <1>1, WorkspaceIsKept, PTL

(* Of every file a reviewer has on screen, corrected or not, both sides can *)
(* be read off the diff, line by line and number by number, and no diff of  *)
(* the two marks fewer lines as changed (file-diff.tsx:70-121): whatever    *)
(* the lines of the files are.                                             *)
THEOREM TheDiffIsRight == Spec => []DiffTellsTheTruth
<1>1. IInv => DiffTellsTheTruth
  <2> SUFFICES ASSUME IInv, Reviewing, NEW p \in DOMAIN Files
               PROVE  /\ ReadsBothWays(PreviousOf(Files[p]), Files[p].contents)
                      /\ NoneIsLonger(PreviousOf(Files[p]), Files[p].contents)
    BY DEF DiffTellsTheTruth
  <2>1. Has("proposal")
    BY DEF Reviewing
  <2>2. PICK L : PreviousOf(Files[p]) \in Seq(L) /\ Files[p].contents \in Seq(L)
    BY <2>1, FilesHaveLines
  <2> QED
    BY <2>2, DiffIsRight
<1> QED
  BY <1>1, WorkspaceIsKept, PTL

(* A dot is filled exactly when the stage lists a model step under it, as   *)
(* long as the coverage that was read speaks of the manual step             *)
(* (external-test-workspace.tsx:108-112, 379-389).                          *)
THEOREM DotsAgreeWithTheStage == Spec => []DotsMatchTheStage
<1>1. IInv => DotsMatchTheStage
  <2> SUFFICES ASSUME IInv, HasModel, NEW at \in ManualSteps \cap DOMAIN cache["model"].coverage
               PROVE  Dotted(at) <=> Derived(at) # {}
    BY DEF DotsMatchTheStage
  <2>1. ModelOK(cache["model"])
    <3>1. DataOK("model", cache["model"], gens, Imported)
      BY DEF IInv, ReadsOK, Keys
    <3> QED
      BY <3>1 DEF DataOK, HasModel, Has
  <2>2. PICK m \in 0 .. MaxSteps :
          cache["model"].coverage = Coverage(cache["model"].document, m)
    BY <2>1 DEF ModelOK
  <2>3. cache["model"].coverage[at] =
          {id \in DOMAIN cache["model"].document : at \in cache["model"].document[id]}
    BY <2>2 DEF Coverage
  <2>4. Derived(at) = cache["model"].coverage[at]
    BY <2>3 DEF Derived, ModelSteps
  <2> QED
    BY <2>4 DEF Dotted
<1> QED
  BY <1>1, WorkspaceIsKept, PTL

=============================================================================
