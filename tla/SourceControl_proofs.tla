------------------------- MODULE SourceControl_proofs -------------------------
(***************************************************************************)
(* That the remote is never rewritten, and that the panel at rest shows what *)
(* the API would answer, for every set of branches and files and however    *)
(* many calls, commits and people there are.                                *)
(***************************************************************************)
EXTENDS SourceControl, TLAPS

-----------------------------------------------------------------------------
(* The inductive invariant.                                                *)

Made == 1 .. MaxCommits

DiskType ==
  [copy : [here : BOOLEAN, branch : Branches, dirty : SUBSET Paths],
   local : Heads, origin : Heads, known : Heads, follows : SUBSET Branches, made : Made]

(* A copy that is there stands on a branch it has, and has the branch that   *)
(* new ones start from: pushing never presents the remote with nothing.     *)
DiskOK(d) ==
  /\ d \in DiskType
  /\ d.origin[Main] # NoRef
  /\ d.copy.here => d.local[d.copy.branch] # NoRef /\ d.local[Main] # NoRef

ArgOK(op, arg) ==
  /\ op = "connect" => arg \in Providers
  /\ op \in Moves => arg \in Branches
  /\ op = "write" => arg \in Paths

Working(kind, phase, row) ==
  /\ phase \in {"begun", "ran"} => row \in Row /\ kind \notin {"connect", "disconnect"}
  /\ phase = "ran" => kind \in Moves

CallOK(kind, c) ==
  /\ c = [phase |-> c.phase, arg |-> c.arg, row |-> c.row, ok |-> c.ok, says |-> c.says]
  /\ Working(kind, c.phase, c.row)
  /\ ArgOK(kind, c.arg)

Calls ==
  /\ call = [m \in Kinds |-> call[m]]
  /\ \A m \in Kinds : call[m] = NoCall \/ CallOK(m, call[m])

OtherOK(o) ==
  /\ o = [op |-> o.op, arg |-> o.arg, row |-> o.row, phase |-> o.phase]
  /\ o.row \in Row
  /\ o.op \in {"write", "commit", "checkout", "push"}
  /\ o.phase = "ran" => o.op \in Moves
  /\ ArgOK(o.op, o.arg)

IInv ==
  /\ conn \in Row
  /\ DiskOK(Disk)
  /\ Calls
  /\ other = Nothing \/ OtherOK(other)

(* What never happens to a remote. *)
Grows(before, after) ==
  \A b \in Branches : before[b] # NoRef => after[b] # NoRef /\ before[b] \subseteq after[b]

-----------------------------------------------------------------------------
(* What the operations on a working copy do to it and to the remote.        *)

LEMMA SetIsRef == \A s \in SUBSET Made : s # NoRef
  BY PanelAssumption DEF Made

LEMMA SameGrows == \A o : Grows(o, o)
  BY DEF Grows

LEMMA EnsuredOK ==
  ASSUME DiskOK(Disk)
  PROVE  DiskOK(Ensured) /\ Ensured.copy.here /\ Ensured.origin = origin
<1>1. CASE copy.here
  BY <1>1 DEF Ensured, Disk
<1>2. CASE ~copy.here
  <2> DEFINE fresh == [here |-> TRUE, branch |-> Main, dirty |-> {}]
             heads == [b \in Branches |-> IF b = Main THEN origin[Main] ELSE NoRef]
  <2>1. origin \in Heads /\ origin[Main] # NoRef /\ made \in Made
    BY DEF DiskOK, DiskType, Disk
  <2>2. origin[Main] \in (SUBSET Made) \cup {NoRef}
    BY <2>1, PanelAssumption DEF Heads, Made
  <2>4. heads \in Heads /\ heads[Main] = origin[Main]
    BY <2>2, PanelAssumption DEF Heads, Made
  <2>3. Ensured = [copy |-> fresh, local |-> heads, origin |-> origin, known |-> origin,
                   follows |-> {Main}, made |-> made]
    BY <1>2 DEF Ensured, Disk
  <2> HIDE DEF heads
  <2> QED
    BY <2>1, <2>3, <2>4, PanelAssumption DEF DiskOK, DiskType
<1> QED
  BY <1>1, <1>2

LEMMA CheckedOutOK ==
  ASSUME NEW d, DiskOK(d), d.copy.here, NEW b \in Branches, CanCheckOut(d, b)
  PROVE  /\ DiskOK(CheckedOut(d, b)) /\ CheckedOut(d, b).copy.here
         /\ CheckedOut(d, b).origin = d.origin
         /\ CheckedOut(d, b).copy.branch = b
<1> DEFINE e == CheckedOut(d, b)
           heads == [d.local EXCEPT ![b] = IF d.local[b] = NoRef THEN d.known[b] ELSE d.local[b]]
<1> DEFINE copied == [d.copy EXCEPT !.branch = b]
           followed == IF d.local[b] = NoRef THEN d.follows \cup {b} ELSE d.follows
<1>0. e = [d EXCEPT !.copy = copied, !.local = heads, !.follows = followed]
  BY DEF CheckedOut
<1>1. /\ e.copy = copied /\ e.local = heads /\ e.origin = d.origin /\ e.known = d.known
      /\ e.made = d.made /\ e.follows = followed
      /\ e = [copy |-> e.copy, local |-> e.local, origin |-> e.origin, known |-> e.known,
              follows |-> e.follows, made |-> e.made]
  <2> HIDE DEF e, copied, heads, followed
  <2> QED
    BY <1>0 DEF DiskOK, DiskType
<1>2. heads \in Heads /\ heads[b] # NoRef /\ heads[Main] # NoRef
  BY PanelAssumption DEF DiskOK, DiskType, Heads, Made, CanCheckOut
<1>3. e.copy \in [here : BOOLEAN, branch : Branches, dirty : SUBSET Paths]
      /\ e.copy.here /\ e.copy.branch = b
  BY <1>1 DEF DiskOK, DiskType
<1>4. e.follows \in SUBSET Branches
  BY <1>1 DEF DiskOK, DiskType
<1> HIDE DEF e, heads
<1>5. e \in DiskType
  BY <1>1, <1>2, <1>3, <1>4 DEF DiskOK, DiskType
<1> QED
  BY <1>1, <1>2, <1>3, <1>5 DEF DiskOK, e

LEMMA CopyForOK ==
  ASSUME DiskOK(Disk), NEW row \in Row, CopyReady(row)
  PROVE  /\ DiskOK(CopyFor(row)) /\ CopyFor(row).copy.here
         /\ CopyFor(row).origin = origin
         /\ CopyFor(row).copy.branch = row.active
<1>1. row.active \in Branches
  BY DEF Row
<1> QED
  BY <1>1, EnsuredOK, CheckedOutOK DEF CopyReady, CopyFor

(* What an operation may leave of the copy d. *)
Leaves(d, e) == DiskOK(e) /\ Grows(d.origin, e.origin)

LEMMA NewCommitLeaves ==
  ASSUME NEW d, DiskOK(d), d.copy.here, NEW heads \in SUBSET Made, NEW e \in NewCommit(d, heads)
  PROVE  Leaves(d, e) /\ e.copy = d.copy
<1> DEFINE new == heads \cup {d.made + 1}
<1>1. d.made + 1 \in Made /\ new \in SUBSET Made
  <2>1. d.made \in Made /\ d.made \in 0 .. MaxCommits - 1
    BY DEF DiskOK, DiskType, NewCommit
  <2>2. d.made + 1 \in Made
    BY <2>1, PanelAssumption DEF Made
  <2> QED
    BY <2>2
<1>2. /\ e.local = [d.local EXCEPT ![d.copy.branch] = new]
      /\ e.made = d.made + 1
      /\ e.copy = d.copy /\ e.origin = d.origin /\ e.known = d.known /\ e.follows = d.follows
      /\ e = [copy |-> e.copy, local |-> e.local, origin |-> e.origin, known |-> e.known,
              follows |-> e.follows, made |-> e.made]
  BY DEF NewCommit, DiskOK, DiskType
<1> HIDE DEF new
<1>3. new # NoRef
  BY <1>1, SetIsRef
<1>4. e.local \in Heads
  BY <1>1, <1>2 DEF DiskOK, DiskType, Heads, Made
<1>5. e \in DiskType
  BY <1>1, <1>2, <1>4 DEF DiskOK, DiskType
<1>6. DiskOK(e)
  BY <1>2, <1>3, <1>5, PanelAssumption DEF DiskOK, DiskType, Heads, Made
<1> QED
  BY <1>2, <1>6, SameGrows DEF Leaves

LEMMA CommitsLeave ==
  ASSUME NEW d, DiskOK(d), d.copy.here, NEW paths, NEW o \in Commits(d, paths)
  PROVE  Leaves(d, o.disk)
<1>1. d.local[d.copy.branch] \in SUBSET Made
  <2>1. d.copy.branch \in Branches /\ d.local \in Heads
    BY DEF DiskOK, DiskType
  <2> QED
    BY <2>1 DEF DiskOK, Heads, Made
<1>2. CASE o = Refused(d)
  BY <1>2, SameGrows DEF Refused, Leaves
<1>3. ASSUME NEW c \in NewCommit(d, d.local[d.copy.branch]),
             o = Succeeds([c EXCEPT !.copy.dirty = @ \ paths])
      PROVE  Leaves(d, o.disk)
  <2>1. Leaves(d, c)
    BY <1>1, NewCommitLeaves
  <2> DEFINE e == [c EXCEPT !.copy.dirty = @ \ paths]
  <2>2. o.disk = e
    BY <1>3 DEF Succeeds
  <2>3. e \in DiskType /\ e.origin = c.origin /\ e.local = c.local
        /\ e.copy.here = c.copy.here /\ e.copy.branch = c.copy.branch
    BY <2>1 DEF Leaves, DiskOK, DiskType
  <2> HIDE DEF e
  <2> QED
    BY <2>1, <2>2, <2>3 DEF Leaves, DiskOK
<1> QED
  BY <1>2, <1>3 DEF Commits

(* A push that is not a fast-forward is refused.                           *)
LEMMA PushesLeave ==
  ASSUME NEW d, DiskOK(d), d.copy.here, NEW o \in Pushes(d, d.copy.branch)
  PROVE  Leaves(d, o.disk)
<1> DEFINE b == d.copy.branch
           e == Publish(d, b)
<1>1. CASE o = Refused(d)
  BY <1>1, SameGrows DEF Refused, Leaves
<1>2. CASE o = Succeeds(e) /\ (d.origin[b] = NoRef \/ d.origin[b] \subseteq d.local[b])
  <2> DEFINE theirs == [d.origin EXCEPT ![b] = d.local[b]]
             seen == [d.known EXCEPT ![b] = d.local[b]]
             followed == d.follows \cup {b}
  <2>0. e = [d EXCEPT !.origin = theirs, !.known = seen, !.follows = followed]
    BY DEF Publish
  <2>1. /\ e.origin = theirs /\ e.known = seen /\ e.follows = followed
        /\ e.copy = d.copy /\ e.local = d.local /\ e.made = d.made
        /\ e = [copy |-> e.copy, local |-> e.local, origin |-> e.origin, known |-> e.known,
                follows |-> e.follows, made |-> e.made]
    <3> HIDE DEF e, theirs, seen, followed
    <3> QED
      BY <2>0 DEF DiskOK, DiskType
  <2>2. b \in Branches /\ d.local[b] # NoRef
    BY DEF DiskOK, DiskType
  <2> HIDE DEF e
  <2>3. e \in DiskType
    BY <2>1, <2>2 DEF DiskOK, DiskType, Heads, Made
  <2>4. DiskOK(e)
    BY <2>1, <2>2, <2>3 DEF DiskOK, DiskType, Heads, Made
  <2>5. Grows(d.origin, e.origin)
    BY <1>2, <2>1, <2>2 DEF Grows, DiskOK, DiskType, Heads, Made
  <2> QED
    BY <1>2, <2>4, <2>5 DEF Leaves, Succeeds
<1> QED
  BY <1>1, <1>2 DEF Pushes

(* A branch of the copy is moved, or files are changed in it.              *)
LEMMA HeadMoves ==
  ASSUME NEW d, DiskOK(d), NEW b \in Branches, NEW heads \in SUBSET Made
  PROVE  LET e == [d EXCEPT !.local[b] = heads]
         IN  Leaves(d, e) /\ e.copy = d.copy /\ e.local[b] = heads
<1> DEFINE moved == [d.local EXCEPT ![b] = heads]
           e == [d EXCEPT !.local = moved]
<1>1. moved \in Heads /\ moved[b] = heads /\ \A c \in Branches : c # b => moved[c] = d.local[c]
  BY DEF DiskOK, DiskType, Heads, Made
<1>2. e \in DiskType /\ e.local = moved /\ e.origin = d.origin /\ e.copy = d.copy
  <2> HIDE DEF moved
  <2> QED
    BY <1>1 DEF DiskOK, DiskType
<1>3. heads # NoRef
  BY SetIsRef
<1>4. DiskOK(e)
  <2> HIDE DEF e, moved
  <2> QED
    BY <1>1, <1>2, <1>3, PanelAssumption DEF DiskOK, DiskType
<1>5. [d EXCEPT !.local[b] = heads] = e
  OBVIOUS
<1> HIDE DEF e, moved
<1> QED
  BY <1>1, <1>2, <1>4, <1>5, SameGrows DEF Leaves

LEMMA FilesChange ==
  ASSUME NEW d, DiskOK(d), NEW files \in SUBSET Paths
  PROVE  Leaves(d, [d EXCEPT !.copy.dirty = files])
<1> DEFINE changed == [d.copy EXCEPT !.dirty = files]
           e == [d EXCEPT !.copy = changed]
<1>1. /\ changed \in [here : BOOLEAN, branch : Branches, dirty : SUBSET Paths]
      /\ changed.here = d.copy.here /\ changed.branch = d.copy.branch
  BY DEF DiskOK, DiskType
<1>2. e \in DiskType /\ e.local = d.local /\ e.origin = d.origin /\ e.copy = changed
  <2> HIDE DEF changed
  <2> QED
    BY <1>1 DEF DiskOK, DiskType
<1>3. DiskOK(e)
  <2> HIDE DEF e, changed
  <2> QED
    BY <1>1, <1>2 DEF DiskOK
<1>4. [d EXCEPT !.copy.dirty = files] = e
  OBVIOUS
<1> HIDE DEF e, changed
<1> QED
  BY <1>2, <1>3, <1>4, SameGrows DEF Leaves

LEMMA PullsLeave ==
  ASSUME NEW d, DiskOK(d), d.copy.here, NEW o \in Pulls(d)
  PROVE  Leaves(d, o.disk)
<1> DEFINE b == d.copy.branch
           theirs == d.origin[b]
           mine == d.local[b]
           fetched == [d EXCEPT !.known = d.origin, !.follows = @ \cup {b}]
<1>1. b \in Branches /\ mine \in SUBSET Made
  <2>1. b \in Branches /\ d.local \in Heads
    BY DEF DiskOK, DiskType
  <2> QED
    BY <2>1 DEF DiskOK, Heads, Made
<1>2. theirs # NoRef => theirs \in SUBSET Made
  BY <1>1 DEF DiskOK, DiskType, Heads, Made
<1>3. fetched \in DiskType /\ fetched.local = d.local /\ fetched.origin = d.origin
      /\ fetched.copy = d.copy
  BY <1>1 DEF DiskOK, DiskType
<1> HIDE DEF fetched
<1>4. DiskOK(fetched) /\ fetched.copy.here /\ Leaves(d, fetched)
  BY <1>3, SameGrows DEF DiskOK, Leaves
<1>5. \A e : Leaves(fetched, e) => Leaves(d, e)
  BY <1>3 DEF Leaves
<1>6. CASE o.disk = fetched
  BY <1>4, <1>6
<1>7. CASE theirs # NoRef /\ o.disk = [fetched EXCEPT !.local[b] = theirs]
  <2>1. b \in Branches /\ theirs \in SUBSET Made
    BY <1>1, <1>2, <1>7
  <2> HIDE DEF b, theirs
  <2>2. Leaves(fetched, [fetched EXCEPT !.local[b] = theirs])
    BY <1>4, <2>1, HeadMoves
  <2> QED
    BY <1>5, <1>7, <2>2
<1>8. CASE theirs # NoRef /\ o.disk \in NewCommit(fetched, mine \cup theirs)
  <2>1. mine \cup theirs \in SUBSET Made
    BY <1>1, <1>2, <1>8
  <2> QED
    BY <1>4, <1>5, <1>8, <2>1, NewCommitLeaves
<1>9. ASSUME NEW p \in Paths, o.disk = [fetched EXCEPT !.copy.dirty = @ \cup {p}]
      PROVE  Leaves(d, o.disk)
  <2>1. fetched.copy.dirty \cup {p} \in SUBSET Paths
    BY <1>3 DEF DiskOK, DiskType
  <2> QED
    BY <1>4, <1>5, <1>9, <2>1, FilesChange
<1>10. \/ o \in {Refused(fetched), Succeeds(fetched)}
       \/ theirs # NoRef /\ o = Succeeds([fetched EXCEPT !.local[b] = theirs])
       \/ theirs # NoRef /\ \E c \in NewCommit(fetched, mine \cup theirs) : o = Succeeds(c)
       \/ \E p \in Paths : o = Refused([fetched EXCEPT !.copy.dirty = @ \cup {p}])
  BY DEF Pulls, fetched
<1>11. \A e : Succeeds(e).disk = e /\ Refused(e).disk = e
  BY DEF Succeeds, Refused
<1> QED
  BY <1>6, <1>7, <1>8, <1>9, <1>10, <1>11

LEMMA MovesLeave ==
  ASSUME NEW d, DiskOK(d), d.copy.here, NEW b \in Branches,
         NEW o \in MakesBranch(d, b) \cup Switches(d, b)
  PROVE  Leaves(d, o.disk)
<1>1. CASE o = Refused(d)
  BY <1>1, SameGrows DEF Refused, Leaves
<1>2. CASE o = Succeeds(CheckedOut(d, b)) /\ CanCheckOut(d, b)
  BY <1>2, CheckedOutOK, SameGrows DEF Succeeds, Leaves
<1>3. CASE o = Succeeds([d EXCEPT !.local[b] = d.local[Main], !.copy.branch = b])
  <2> DEFINE head == d.local[Main]
             begun == [d EXCEPT !.local[b] = head]
             e == [begun EXCEPT !.copy = [d.copy EXCEPT !.branch = b]]
  <2>1. head \in SUBSET Made
    <3>1. d.local \in Heads /\ d.local[Main] # NoRef
      BY DEF DiskOK, DiskType
    <3> QED
      BY <3>1, PanelAssumption DEF Heads, Made
  <2>2. Leaves(d, begun) /\ begun.copy = d.copy /\ begun.local[b] # NoRef
    <3> HIDE DEF head
    <3> QED
      BY <2>1, HeadMoves, SetIsRef
  <2>3. o.disk = e
    BY <1>3 DEF Succeeds
  <2> HIDE DEF begun
  <2>4. /\ e \in DiskType /\ e.origin = begun.origin /\ e.local = begun.local
        /\ e.copy.here /\ e.copy.branch = b
    BY <2>2 DEF Leaves, DiskOK, DiskType
  <2> HIDE DEF e
  <2> QED
    BY <2>2, <2>3, <2>4 DEF Leaves, DiskOK
<1> QED
  BY <1>1, <1>2, <1>3 DEF MakesBranch, Switches

LEMMA OutcomesLeave ==
  ASSUME DiskOK(Disk), NEW op, NEW arg, ArgOK(op, arg), NEW row \in Row,
         op \in {"commit", "push", "pull", "checkout", "createBranch", "write"},
         NEW o \in Outcomes(op, arg, row)
  PROVE  Leaves(Disk, o.disk)
<1>1. CASE o = Refused(Disk)
  BY <1>1, SameGrows DEF Refused, Leaves
<1>2. CASE o = Refused(Ensured)
  BY <1>2, EnsuredOK, SameGrows DEF Refused, Leaves, Disk
<1>3. CASE CopyReady(row) /\ Implemented(row)
  <2> DEFINE d == CopyFor(row)
  <2>1. /\ DiskOK(d) /\ d.copy.here /\ d.origin = origin /\ d.copy.branch = row.active
    BY <1>3, CopyForOK
  <2>2. Disk.origin = origin
    BY DEF Disk
  <2> HIDE DEF d
  <2>3. Leaves(d, o.disk)
    <3>1. CASE op = "commit"
      BY <1>3, <2>1, <3>1, CommitsLeave DEF Outcomes, d
    <3>2. CASE op = "push"
      BY <1>3, <2>1, <3>2, PushesLeave DEF Outcomes, d
    <3>3. CASE op = "pull"
      BY <1>3, <2>1, <3>3, PullsLeave DEF Outcomes, d
    <3>4. CASE op \in Moves
      <4>1. arg \in Branches /\ o \in MakesBranch(d, arg) \cup Switches(d, arg)
        BY <1>3, <3>4 DEF Outcomes, Moves, ArgOK, d
      <4> QED
        BY <2>1, <4>1, MovesLeave
    <3>5. CASE op = "write"
      <4>1. o = Succeeds([d EXCEPT !.copy.dirty = @ \cup {arg}]) /\ arg \in Paths
        BY <1>3, <3>5 DEF Outcomes, Writes, ArgOK, d
      <4>2. d.copy.dirty \cup {arg} \in SUBSET Paths
        BY <2>1, <4>1 DEF DiskOK, DiskType
      <4> QED
        BY <2>1, <4>1, <4>2, FilesChange DEF Succeeds
    <3> QED
      BY <3>1, <3>2, <3>3, <3>4, <3>5 DEF Moves
  <2> QED
    BY <2>1, <2>2, <2>3 DEF Leaves
<1> QED
  BY <1>1, <1>2, <1>3 DEF Outcomes

-----------------------------------------------------------------------------
(* Steps.                                                                  *)

LEMMA DiskSet ==
  ASSUME NEW d, DiskOK(d), SetDisk(d)
  PROVE  DiskOK(Disk)' /\ origin' = d.origin
<1>1. Disk' = d
  BY DEF Disk, SetDisk, DiskOK, DiskType
<1> QED
  BY <1>1 DEF DiskOK, Disk, DiskType, Heads, Made

(* The panel's own state plays no part.                                    *)
LEMMA PanelStep ==
  ASSUME IInv, UNCHANGED <<server, call, other>>
  PROVE  IInv' /\ Grows(origin, origin')
<1>1. Disk' = Disk /\ origin' = origin
  BY DEF server, Disk
<1>2. DiskOK(Disk')
  BY <1>1 DEF IInv
<1>3. Calls'
  BY DEF IInv, Calls, CallOK, Working, ArgOK, Row
<1>4. conn' \in Row /\ (other' = Nothing \/ OtherOK(other'))
  BY DEF IInv, server
<1> QED
  BY <1>1, <1>2, <1>3, <1>4, SameGrows DEF IInv, DiskOK, OtherOK, ArgOK, Row, DiskType, Heads, Made

(* A call that becomes c.                                                  *)
LEMMA CallSet ==
  ASSUME IInv, NEW kind \in Kinds, NEW c, c = NoCall \/ CallOK(kind, c),
         call' = [call EXCEPT ![kind] = c]
  PROVE  Calls'
<1>1. call' = [m \in Kinds |-> call'[m]]
  BY DEF IInv, Calls
<1>2. ASSUME NEW m \in Kinds PROVE call'[m] = NoCall \/ CallOK(m, call'[m])
  BY DEF IInv, Calls
<1> QED
  BY <1>1, <1>2 DEF Calls, CallOK, Working, ArgOK, Row

LEMMA NoCallIn ==
  ASSUME IInv, NEW kind \in Kinds, call[kind] # NoCall
  PROVE  CallOK(kind, call[kind])
  BY DEF IInv, Calls

(* How a call's record changes.                                            *)
LEMMA CallChanges ==
  ASSUME NEW kind, NEW c, CallOK(kind, c), NEW phase, NEW row, NEW ok, NEW says,
         Working(kind, phase, row)
  PROVE  CallOK(kind, [c EXCEPT !.phase = phase, !.row = row, !.ok = ok, !.says = says])
<1> DEFINE Fields(e, p, a, r, o, s) ==
             e = [phase |-> p, arg |-> a, row |-> r, ok |-> o, says |-> s]
           c1 == [c EXCEPT !.phase = phase]
           c2 == [c1 EXCEPT !.row = row]
           c3 == [c2 EXCEPT !.ok = ok]
           c4 == [c3 EXCEPT !.says = says]
<1>1. Fields(c, c.phase, c.arg, c.row, c.ok, c.says)
  BY DEF CallOK
<1>2. Fields(c1, phase, c.arg, c.row, c.ok, c.says)
  BY <1>1
<1> HIDE DEF c1
<1>3. Fields(c2, phase, c.arg, row, c.ok, c.says)
  BY <1>2
<1> HIDE DEF c2
<1>4. Fields(c3, phase, c.arg, row, ok, c.says)
  BY <1>3
<1> HIDE DEF c3
<1>5. Fields(c4, phase, c.arg, row, ok, says)
  BY <1>4
<1>6. [c EXCEPT !.phase = phase, !.row = row, !.ok = ok, !.says = says] = c4
  BY DEF c1, c2, c3
<1> HIDE DEF c4
<1> QED
  BY <1>5, <1>6 DEF CallOK

(* A field that is set to what it was. *)
LEMMA SameFields ==
  ASSUME NEW kind, NEW c, CallOK(kind, c), NEW phase
  PROVE  /\ \A row : [c EXCEPT !.phase = phase, !.row = row]
                       = [c EXCEPT !.phase = phase, !.row = row, !.ok = c.ok, !.says = c.says]
         /\ \A ok : [c EXCEPT !.phase = phase, !.ok = ok]
                       = [c EXCEPT !.phase = phase, !.row = c.row, !.ok = ok, !.says = c.says]
         /\ \A ok, says : [c EXCEPT !.phase = phase, !.ok = ok, !.says = says]
                       = [c EXCEPT !.phase = phase, !.row = c.row, !.ok = ok, !.says = says]
<1>1. PICK p, a, r, o, s : c = [phase |-> p, arg |-> a, row |-> r, ok |-> o, says |-> s]
  BY DEF CallOK
<1> QED
  BY <1>1

(* A call is sent, or its answer has arrived.                              *)
LEMMA SendStep ==
  ASSUME IInv, NEW kind \in Kinds, NEW arg, ArgOK(kind, arg), Send(kind, arg)
  PROVE  IInv' /\ Grows(origin, origin')
<1> DEFINE c == CallIn("sent", arg)
<1>1. CallOK(kind, c)
  BY DEF CallIn, CallOK, Working
<1>2. Calls'
  <2> HIDE DEF c
  <2> QED
    BY <1>1, CallSet DEF Send, c
<1>3. UNCHANGED <<server, other>>
  BY DEF Send
<1>4. Disk' = Disk /\ origin' = origin /\ conn' = conn
  BY <1>3 DEF server, Disk
<1> QED
  BY <1>2, <1>3, <1>4, SameGrows
  DEF IInv, DiskOK, OtherOK, ArgOK, Row, DiskType, Heads, Made

LEMMA ClickStep ==
  ASSUME IInv,
         \/ \E p \in Providers : SubmitConnection(p)
         \/ ConfirmDisconnect \/ SubmitCommit \/ ClickPush \/ ClickPull
         \/ \E b \in Branches : PickBranch(b) \/ SubmitBranch(b)
  PROVE  IInv' /\ Grows(origin, origin')
<1>1. PICK kind, arg : kind \in Kinds /\ Send(kind, arg) /\ ArgOK(kind, arg)
  <2>1. ASSUME NEW p \in Providers, SubmitConnection(p)
        PROVE  Send("connect", p) /\ ArgOK("connect", p)
    BY <2>1 DEF SubmitConnection, ArgOK, Moves
  <2>2. CASE ConfirmDisconnect
    BY <2>2 DEF ConfirmDisconnect, ArgOK, Moves, Kinds
  <2>3. CASE SubmitCommit
    BY <2>3 DEF SubmitCommit, ArgOK, Moves, Kinds
  <2>4. CASE ClickPush
    BY <2>4 DEF ClickPush, ArgOK, Moves, Kinds
  <2>5. CASE ClickPull
    BY <2>5 DEF ClickPull, ArgOK, Moves, Kinds
  <2>6. ASSUME NEW b \in Branches, PickBranch(b)
        PROVE  Send("checkout", b) /\ ArgOK("checkout", b)
    BY <2>6 DEF PickBranch, ArgOK, Moves
  <2>7. ASSUME NEW b \in Branches, SubmitBranch(b)
        PROVE  Send("createBranch", b) /\ ArgOK("createBranch", b)
    BY <2>7 DEF SubmitBranch, ArgOK, Moves
  <2> QED
    BY <2>1, <2>2, <2>3, <2>4, <2>5, <2>6, <2>7 DEF Kinds
<1> QED
  BY <1>1, SendStep

(* The API answers a read: it may clone the copy and move it.              *)
LEMMA ReadStep ==
  ASSUME IInv, NEW k \in Keys, ReadRuns(k)
  PROVE  IInv' /\ Grows(origin, origin')
<1>1. UNCHANGED <<conn, call, other>>
  BY DEF ReadRuns, server
<1>2. \/ UNCHANGED server
      \/ conn.connected /\ CopyReady(conn) /\ SetDisk(CopyFor(conn))
      \/ SetDisk(Ensured)
  BY DEF ReadRuns
<1>3. DiskOK(Disk)' /\ origin' = origin
  <2>1. CASE UNCHANGED server
    BY <2>1 DEF server, Disk, IInv, DiskOK, DiskType, Heads, Made
  <2>2. CASE CopyReady(conn) /\ SetDisk(CopyFor(conn))
    BY <2>2, CopyForOK, DiskSet DEF IInv
  <2>3. CASE SetDisk(Ensured)
    BY <2>3, EnsuredOK, DiskSet DEF IInv
  <2> QED
    BY <1>2, <2>1, <2>2, <2>3
<1>4. Calls' /\ conn' \in Row /\ (other' = Nothing \/ OtherOK(other'))
  BY <1>1 DEF IInv, Calls, CallOK, Working, ArgOK, OtherOK, Row
<1> QED
  BY <1>1, <1>3, <1>4, SameGrows DEF IInv, OtherOK, ArgOK, Row

(* The API handles a call.                                                 *)
LEMMA BeginStep ==
  ASSUME IInv, NEW kind \in Kinds, Begin(kind)
  PROVE  IInv' /\ Grows(origin, origin')
<1> DEFINE c == call[kind]
<1>1. CallOK(kind, c)
  BY NoCallIn DEF Begin, NoCall, CallIn
<1>2. PICK d : call' = [call EXCEPT ![kind] = d] /\ CallOK(kind, d)
  <2>1. CASE conn.connected
    <3> DEFINE d == [c EXCEPT !.phase = "begun", !.row = conn, !.ok = c.ok, !.says = c.says]
    <3>1. call' = [call EXCEPT ![kind] = d]
      <4>1. [c EXCEPT !.phase = "begun", !.row = conn] = d
        <5> HIDE DEF c
        <5> QED
          BY <1>1 DEF CallOK
      <4> QED
        BY <2>1, <4>1 DEF Begin
    <3>2. CallOK(kind, d)
      BY <1>1, CallChanges DEF IInv, Working, Begin
    <3> QED
      BY <3>1, <3>2
  <2>2. CASE ~conn.connected
    <3> DEFINE d == [c EXCEPT !.phase = "answered", !.row = c.row, !.ok = FALSE, !.says = c.says]
    <3>1. call' = [call EXCEPT ![kind] = d]
      <4>1. [c EXCEPT !.phase = "answered", !.ok = FALSE] = d
        <5> HIDE DEF c
        <5> QED
          BY <1>1 DEF CallOK
      <4> QED
        BY <2>2, <4>1 DEF Begin, Answered
    <3>2. CallOK(kind, d)
      BY <1>1, CallChanges DEF Working
    <3> QED
      BY <3>1, <3>2
  <2> QED
    BY <2>1, <2>2
<1>3. Calls'
  BY <1>2, CallSet
<1>4. UNCHANGED <<server, other>>
  BY DEF Begin
<1>5. Disk' = Disk /\ origin' = origin /\ conn' = conn
  BY <1>4 DEF server, Disk
<1> QED
  BY <1>3, <1>4, <1>5, SameGrows
  DEF IInv, DiskOK, OtherOK, ArgOK, Row, DiskType, Heads, Made

LEMMA DiskStays ==
  ASSUME IInv, UNCHANGED <<copy, local, origin, known, follows, made>>
  PROVE  DiskOK(Disk)' /\ Grows(origin, origin')
<1>1. Disk' = Disk
  BY DEF Disk
<1> QED
  BY <1>1, SameGrows DEF IInv, DiskOK, DiskType, Heads, Made

LEMMA RunCallStep ==
  ASSUME IInv, NEW kind \in Kinds, RunCall(kind)
  PROVE  IInv' /\ Grows(origin, origin')
<1> DEFINE c == call[kind]
<1>1. CallOK(kind, c) /\ c.phase = "begun"
  BY NoCallIn DEF RunCall, NoCall, CallIn
<1>2. PICK o \in Outcomes(kind, c.arg, c.row) :
        /\ SetDisk(o.disk)
        /\ call' = [call EXCEPT
             ![kind].phase = IF o.ok /\ kind \in Moves THEN "ran" ELSE "answered",
             ![kind].ok = o.ok,
             ![kind].says = IF o.ok /\ kind = "push" THEN StatusOf(o.disk) ELSE Nothing]
  BY DEF RunCall
<1>3. Leaves(Disk, o.disk)
  <2>1. /\ c.row \in Row /\ ArgOK(kind, c.arg)
        /\ kind \in {"commit", "push", "pull", "checkout", "createBranch", "write"}
    BY <1>1 DEF CallOK, Working, Kinds
  <2> HIDE DEF c
  <2> QED
    BY <2>1, OutcomesLeave DEF IInv
<1>4. DiskOK(Disk)' /\ Grows(origin, origin')
  <2>1. Disk.origin = origin
    BY DEF Disk
  <2> QED
    BY <1>2, <1>3, <2>1, DiskSet DEF Leaves
<1>5. Calls'
  <2> DEFINE phase == IF o.ok /\ kind \in Moves THEN "ran" ELSE "answered"
             says == IF o.ok /\ kind = "push" THEN StatusOf(o.disk) ELSE Nothing
             d == [c EXCEPT !.phase = phase, !.ok = o.ok, !.says = says]
  <2>1. call' = [call EXCEPT ![kind] = d]
    BY <1>2
  <2>2. Working(kind, phase, c.row)
    BY <1>1 DEF CallOK, Working
  <2>3. CallOK(kind, d)
    <3> HIDE DEF c, phase, says
    <3>1. d = [c EXCEPT !.phase = phase, !.row = c.row, !.ok = o.ok, !.says = says]
      BY <1>1, SameFields
    <3> HIDE DEF d
    <3> QED
      BY <1>1, <2>2, <3>1, CallChanges
  <2> HIDE DEF d
  <2> QED
    BY <2>1, <2>3, CallSet
<1>6. conn' \in Row /\ (other' = Nothing \/ OtherOK(other)')
  BY DEF RunCall, IInv, OtherOK, ArgOK, Row
<1> QED
  BY <1>4, <1>5, <1>6 DEF IInv

LEMMA RowMovesOK ==
  ASSUME conn \in Row, NEW row, NEW b \in Branches, RowMoves(row, b)
  PROVE  conn' \in Row
<1>1. conn.version + 1 \in Nat
  BY DEF Row
<1> DEFINE v == conn.version + 1
<1>2. conn' = [conn EXCEPT !.active = b, !.version = v] \/ conn' = conn
  BY DEF RowMoves
<1> HIDE DEF v
<1> QED
  BY <1>1, <1>2 DEF Row, v

LEMMA CommitRowStep ==
  ASSUME IInv, NEW kind \in Kinds, CommitRow(kind)
  PROVE  IInv' /\ Grows(origin, origin')
<1> DEFINE c == call[kind]
           ok == conn = c.row
           d == [c EXCEPT !.phase = "answered", !.ok = ok]
<1>1. CallOK(kind, c) /\ c.phase = "ran"
  BY NoCallIn DEF CommitRow, NoCall, CallIn
<1>2. c.arg \in Branches
  BY <1>1 DEF CallOK, Working, ArgOK
<1>3. conn' \in Row
  <2>1. RowMoves(c.row, c.arg)
    BY DEF CommitRow
  <2> QED
    BY <1>2, <2>1, RowMovesOK DEF IInv
<1>4. Calls'
  <2>1. call' = [call EXCEPT ![kind] = d]
    BY DEF CommitRow, Answered
  <2>2. CallOK(kind, d)
    <3> HIDE DEF c, ok
    <3>1. d = [c EXCEPT !.phase = "answered", !.row = c.row, !.ok = ok, !.says = c.says]
      BY <1>1, SameFields
    <3>2. Working(kind, "answered", c.row)
      BY DEF Working
    <3> HIDE DEF d
    <3> QED
      BY <1>1, <3>1, <3>2, CallChanges
  <2> HIDE DEF d
  <2> QED
    BY <2>1, <2>2, CallSet
<1>5. DiskOK(Disk)' /\ Grows(origin, origin')
  BY DiskStays DEF CommitRow
<1>6. other' = Nothing \/ OtherOK(other)'
  BY DEF CommitRow, IInv, OtherOK, ArgOK, Row
<1> QED
  BY <1>3, <1>4, <1>5, <1>6 DEF IInv

(* The copy is deleted. *)
LEMMA Evicted ==
  ASSUME IInv, copy' = [here |-> FALSE, branch |-> Main, dirty |-> {}],
         UNCHANGED <<local, origin, known, follows, made>>
  PROVE  DiskOK(Disk)' /\ Grows(origin, origin')
<1>1. Disk' = [copy |-> copy', local |-> local, origin |-> origin, known |-> known,
               follows |-> follows, made |-> made]
  BY DEF Disk
<1>2. DiskOK(Disk')
  BY <1>1, PanelAssumption DEF IInv, Disk, DiskOK, DiskType
<1> QED
  BY <1>2, SameGrows DEF DiskOK, DiskType, Disk, Heads, Made

LEMMA ConnectionStep ==
  ASSUME IInv, Connect \/ Disconnect
  PROVE  IInv' /\ Grows(origin, origin')
<1>1. DiskOK(Disk)' /\ Grows(origin, origin')
  BY Evicted DEF Connect, Disconnect
<1>2. other' = Nothing \/ OtherOK(other)'
  BY DEF Connect, Disconnect, IInv, OtherOK, ArgOK, Row
<1>3. conn.version + 1 \in Nat /\ "connect" \in Kinds /\ "disconnect" \in Kinds
  BY DEF IInv, Row, Kinds
<1>4. CASE Connect
  <2>1. CallOK("connect", call["connect"])
    BY <1>3, <1>4, NoCallIn DEF Connect, NoCall, CallIn
  <2>2. call["connect"].arg \in Providers
    BY <2>1 DEF CallOK, ArgOK
  <2>3. conn' \in Row
    BY <1>3, <1>4, <2>2, PanelAssumption DEF Connect, Row
  <2> DEFINE c == call["connect"]
             d == [c EXCEPT !.phase = "answered", !.ok = TRUE]
  <2>4. call' = [call EXCEPT !["connect"] = d]
    BY <1>4 DEF Connect, Answered
  <2>5. CallOK("connect", d)
    <3> HIDE DEF c
    <3>1. d = [c EXCEPT !.phase = "answered", !.row = c.row, !.ok = TRUE, !.says = c.says]
      BY <2>1, SameFields DEF c
    <3>2. Working("connect", "answered", c.row)
      BY DEF Working
    <3> HIDE DEF d
    <3> QED
      BY <2>1, <3>1, <3>2, CallChanges DEF c
  <2>6. Calls'
    <3> HIDE DEF d
    <3> QED
      BY <1>3, <2>4, <2>5, CallSet
  <2> QED
    BY <1>1, <1>2, <2>3, <2>6 DEF IInv
<1>5. CASE Disconnect
  <2>1. CallOK("disconnect", call["disconnect"])
    BY <1>3, <1>5, NoCallIn DEF Disconnect, NoCall, CallIn
  <2>3. conn' \in Row
    <3> DEFINE v == conn.version + 1
    <3>1. conn' = [conn EXCEPT !.connected = FALSE, !.active = Main, !.version = v]
      BY <1>5 DEF Disconnect
    <3> HIDE DEF v
    <3> QED
      BY <1>3, <3>1, PanelAssumption DEF IInv, Row, v
  <2> DEFINE c == call["disconnect"]
             ok == conn.connected
             d == [c EXCEPT !.phase = "answered", !.ok = ok]
  <2>4. call' = [call EXCEPT !["disconnect"] = d]
    BY <1>5 DEF Disconnect, Answered
  <2>5. CallOK("disconnect", d)
    <3> HIDE DEF c, ok
    <3>1. d = [c EXCEPT !.phase = "answered", !.row = c.row, !.ok = ok, !.says = c.says]
      BY <2>1, SameFields DEF c
    <3>2. Working("disconnect", "answered", c.row)
      BY DEF Working
    <3> HIDE DEF d
    <3> QED
      BY <2>1, <3>1, <3>2, CallChanges DEF c
  <2>6. Calls'
    <3> HIDE DEF d
    <3> QED
      BY <1>3, <2>4, <2>5, CallSet
  <2> QED
    BY <1>1, <1>2, <2>3, <2>6 DEF IInv
<1> QED
  BY <1>4, <1>5

LEMMA CallAnsweredStep ==
  ASSUME IInv, NEW kind \in Kinds, CallAnswered(kind)
  PROVE  IInv' /\ Grows(origin, origin')
<1>1. call' = [call EXCEPT ![kind] = NoCall]
  BY DEF CallAnswered
<1>2. Calls'
  BY <1>1, CallSet
<1>3. DiskOK(Disk)' /\ Grows(origin, origin')
  BY DiskStays DEF CallAnswered, server
<1>4. conn' \in Row /\ (other' = Nothing \/ OtherOK(other)')
  BY DEF CallAnswered, server, IInv, OtherOK, ArgOK, Row
<1> QED
  BY <1>2, <1>3, <1>4 DEF IInv

-----------------------------------------------------------------------------
(* The second person, the colleague and the disk.                          *)

(* A step of theirs leaves the panel's calls alone.                        *)
LEMMA CallsStay ==
  ASSUME IInv, call' = call PROVE Calls'
  BY DEF IInv, Calls, CallOK, Working, ArgOK, Row

LEMMA OtherBeginsStep ==
  ASSUME IInv, NEW op \in {"write", "commit", "checkout", "push"}, NEW arg, ArgOK(op, arg),
         OtherBegins(op, arg)
  PROVE  IInv' /\ Grows(origin, origin')
<1> DEFINE o == [op |-> op, arg |-> arg, row |-> conn, phase |-> "begun"]
<1>1. OtherOK(o)
  BY DEF OtherOK, IInv
<1>2. other' = o /\ UNCHANGED <<server, call>>
  BY DEF OtherBegins, panel
<1>3. OtherOK(other')
  BY <1>1, <1>2
<1>4. OtherOK(other)'
  BY <1>3 DEF OtherOK, ArgOK, Row
<1>5. DiskOK(Disk)' /\ Grows(origin, origin')
  BY <1>2, DiskStays DEF server
<1>6. Calls' /\ conn' \in Row
  BY <1>2, CallsStay DEF server, IInv, Row
<1> QED
  BY <1>4, <1>5, <1>6 DEF IInv

LEMMA OtherRunsStep ==
  ASSUME IInv, OtherRuns
  PROVE  IInv' /\ Grows(origin, origin')
<1>1. OtherOK(other)
  BY DEF IInv, OtherRuns
<1>2. PICK o \in Outcomes(other.op, other.arg, other.row) :
        /\ SetDisk(o.disk)
        /\ other' = IF o.ok /\ other.op \in Moves
                    THEN [other EXCEPT !.phase = "ran"] ELSE Nothing
  BY DEF OtherRuns
<1>3. Leaves(Disk, o.disk)
  <2>1. /\ other.row \in Row /\ ArgOK(other.op, other.arg)
        /\ other.op \in {"commit", "push", "pull", "checkout", "createBranch", "write"}
    BY <1>1 DEF OtherOK
  <2> QED
    BY <2>1, OutcomesLeave DEF IInv
<1>4. DiskOK(Disk)' /\ Grows(origin, origin')
  <2>1. Disk.origin = origin
    BY DEF Disk
  <2> QED
    BY <1>2, <1>3, <2>1, DiskSet DEF Leaves
<1>5. other' = Nothing \/ OtherOK(other')
  <2>1. ASSUME other.op \in Moves
        PROVE  OtherOK([other EXCEPT !.phase = "ran"])
    BY <1>1, <2>1 DEF OtherOK
  <2> QED
    BY <1>2, <2>1
<1>6. Calls' /\ conn' \in Row
  BY CallsStay DEF OtherRuns, panel, IInv, Row
<1> QED
  BY <1>4, <1>5, <1>6 DEF IInv, OtherOK, ArgOK, Row

LEMMA OtherCommitsStep ==
  ASSUME IInv, OtherCommitsRow
  PROVE  IInv' /\ Grows(origin, origin')
<1>1. other.arg \in Branches
  BY DEF IInv, OtherCommitsRow, OtherOK, ArgOK
<1>2. conn' \in Row
  BY <1>1, RowMovesOK DEF OtherCommitsRow, IInv
<1>3. DiskOK(Disk)' /\ Grows(origin, origin')
  BY DiskStays DEF OtherCommitsRow
<1>4. Calls' /\ other' = Nothing
  BY CallsStay DEF OtherCommitsRow, panel
<1> QED
  BY <1>2, <1>3, <1>4 DEF IInv

LEMMA ColleagueStep ==
  ASSUME IInv, NEW b \in Branches, ColleaguePushes(b)
  PROVE  IInv' /\ Grows(origin, origin')
<1>1. origin \in Heads /\ origin[Main] # NoRef /\ made \in Made /\ made < MaxCommits
  BY DEF IInv, DiskOK, DiskType, Disk, ColleaguePushes
<1>2. made + 1 \in Made
  BY <1>1, PanelAssumption DEF Made
<1> DEFINE base == IF origin[b] = NoRef THEN origin[Main] ELSE origin[b]
           head == base \cup {made + 1}
<1>3. base \in SUBSET Made
  BY <1>1, PanelAssumption DEF Heads, Made
<1>4. head \in SUBSET Made /\ head # NoRef /\ base \subseteq head
  BY <1>2, <1>3, SetIsRef
<1>5. origin' = [origin EXCEPT ![b] = head] /\ made' = made + 1
  BY DEF ColleaguePushes
<1>6. origin[b] # NoRef => base = origin[b]
  OBVIOUS
<1> HIDE DEF base, head
<1>7. Grows(origin, origin')
  BY <1>1, <1>4, <1>5, <1>6 DEF Grows, Heads
<1>8. origin' \in Heads /\ origin'[Main] # NoRef
  BY <1>1, <1>4, <1>5, PanelAssumption DEF Heads, Made
<1>9. DiskOK(Disk)'
  <2>1. Disk' = [copy |-> copy, local |-> local, origin |-> origin', known |-> known,
                 follows |-> follows, made |-> made + 1]
    BY <1>5 DEF Disk, ColleaguePushes
  <2>2. DiskOK(Disk')
    BY <1>2, <1>8, <2>1 DEF IInv, Disk, DiskOK, DiskType
  <2> QED
    BY <2>2 DEF DiskOK, DiskType, Disk, Heads, Made
<1>10. /\ Calls' /\ conn' \in Row
       /\ other' = Nothing \/ OtherOK(other)'
  BY CallsStay DEF ColleaguePushes, panel, IInv, Row, OtherOK, ArgOK
<1> QED
  BY <1>7, <1>9, <1>10 DEF IInv

LEMMA CopyLostStep ==
  ASSUME IInv, CopyLost
  PROVE  IInv' /\ Grows(origin, origin')
<1>1. DiskOK(Disk)' /\ Grows(origin, origin')
  BY Evicted DEF CopyLost
<1>2. /\ Calls' /\ conn' \in Row
      /\ other' = Nothing \/ OtherOK(other)'
  BY CallsStay DEF CopyLost, panel, IInv, Row, OtherOK, ArgOK
<1> QED
  BY <1>1, <1>2 DEF IInv

LEMMA NextGrows ==
  ASSUME IInv, [Next]_vars
  PROVE  IInv' /\ Grows(origin, origin')
<1>1. CASE UNCHANGED vars
  BY <1>1, PanelStep DEF vars, panel
<1>2. ASSUME NEW k \in Keys, ReadRuns(k) PROVE IInv' /\ Grows(origin, origin')
  BY <1>2, ReadStep
<1>3. ASSUME \/ \E k \in Keys : ReadArrives(k)
             \/ Retry \/ TypeMessage \/ \E p \in Paths : Tick(p)
      PROVE  IInv' /\ Grows(origin, origin')
  BY <1>3, PanelStep DEF ReadArrives, Retry, TypeMessage, Tick
<1>4. ASSUME NEW kind \in Kinds,
             Begin(kind) \/ RunCall(kind) \/ CommitRow(kind) \/ CallAnswered(kind)
      PROVE  IInv' /\ Grows(origin, origin')
  BY <1>4, BeginStep, RunCallStep, CommitRowStep, CallAnsweredStep
<1>5. ASSUME \/ \E p \in Paths : OtherBegins("write", p) \/ OtherBegins("commit", {p})
             \/ \E b \in Branches : OtherBegins("checkout", b)
             \/ OtherBegins("push", Nothing)
      PROVE  IInv' /\ Grows(origin, origin')
  <2>1. /\ \A p \in Paths : ArgOK("write", p) /\ ArgOK("commit", {p})
        /\ \A b \in Branches : ArgOK("checkout", b)
        /\ ArgOK("push", Nothing)
    BY DEF ArgOK, Moves
  <2> QED
    BY <1>5, <2>1, OtherBeginsStep
<1> QED
  BY <1>1, <1>2, <1>3, <1>4, <1>5, ClickStep, ConnectionStep, OtherRunsStep, OtherCommitsStep,
     ColleagueStep, CopyLostStep
  DEF Next

LEMMA InitIInv == Init => IInv
<1> SUFFICES ASSUME Init PROVE IInv
  OBVIOUS
<1>1. conn \in Row
  BY PanelAssumption DEF Init, Row, Providers
<1>2. DiskOK(Disk)
  <2>1. 1 \in Made /\ {1} \in SUBSET Made /\ {1} # NoRef
    BY PanelAssumption, SetIsRef DEF Made
  <2>2. origin \in Heads /\ origin[Main] # NoRef
    BY <2>1, PanelAssumption DEF Init, Heads, Made
  <2>3. local \in Heads /\ known \in Heads /\ (copy.here => local[Main] # NoRef)
    BY <2>1, <2>2, PanelAssumption DEF Init, Heads, Made
  <2>4. copy \in [here : BOOLEAN, branch : Branches, dirty : SUBSET Paths] /\ copy.branch = Main
    BY PanelAssumption DEF Init
  <2>5. follows \in SUBSET Branches /\ made \in Made
    BY <2>1, PanelAssumption DEF Init
  <2> QED
    BY <2>2, <2>3, <2>4, <2>5 DEF DiskOK, DiskType, Disk
<1>3. Calls
  BY DEF Init, Calls
<1> QED
  BY <1>1, <1>2, <1>3 DEF Init, IInv

-----------------------------------------------------------------------------
LEMMA CopyIsKept == Spec => []IInv
<1>1. Init => IInv
  BY InitIInv
<1>2. IInv /\ [Next]_vars => IInv'
  BY NextGrows
<1> QED
  BY <1>1, <1>2, PTL DEF Spec

(* No step of anybody takes a commit away from a branch of the remote       *)
(* (GithubGitProvider.push, which never forces).                            *)
THEOREM RemoteIsNeverRewritten == Spec => RemoteOnlyGrows
<1>1. IInv /\ [Next]_vars =>
        [\A b \in Branches : origin[b] # NoRef => /\ origin'[b] # NoRef
                                                  /\ origin[b] \subseteq origin'[b]]_vars
  BY NextGrows DEF Grows
<1> QED
  BY <1>1, CopyIsKept, PTL DEF Spec, RemoteOnlyGrows

-----------------------------------------------------------------------------
(* What a read is told: it depends on the row, on the changed files and on  *)
(* where each branch of the copy stands, and on nothing else.               *)

(* The head a branch has, or gets when it is checked out. *)
HeadAt(d, b) == IF d.local[b] # NoRef THEN d.local[b] ELSE d.known[b]

LooksLike(d, e) == /\ d.copy.dirty = e.copy.dirty
                   /\ \A b \in Branches : HeadAt(d, b) = HeadAt(e, b)

Ready == conn.connected /\ CopyReady(conn)

(* data is what the API would answer to read k now.                         *)
Right(k, data) ==
  Ready => /\ k = "status"  => /\ data.branch = conn.active
                               /\ data.changes = Ensured.copy.dirty
           /\ k = "diff"    => data = Ensured.copy.dirty
           /\ k = "history" => data = HeadAt(Ensured, conn.active)

LEMMA ReadyIsAHead ==
  ASSUME DiskOK(Disk), NEW row \in Row
  PROVE  CopyReady(row) <=> Implemented(row) /\ HeadAt(Ensured, row.active) # NoRef
<1>1. DiskOK(Ensured) /\ Ensured.copy.here
  BY EnsuredOK
<1> QED
  BY <1>1 DEF CopyReady, CanCheckOut, HeadAt, DiskOK

(* Moving the copy changes nothing of that.                                 *)
LEMMA MovedLooksLike ==
  ASSUME NEW d, DiskOK(d), NEW b \in Branches
  PROVE  LooksLike(CheckedOut(d, b), d)
<1> DEFINE e == CheckedOut(d, b)
           heads == [d.local EXCEPT ![b] = IF d.local[b] = NoRef THEN d.known[b] ELSE d.local[b]]
           copied == [d.copy EXCEPT !.branch = b]
           followed == IF d.local[b] = NoRef THEN d.follows \cup {b} ELSE d.follows
<1>1. e = [d EXCEPT !.copy = copied, !.local = heads, !.follows = followed]
  BY DEF CheckedOut
<1>2. e.copy = copied /\ e.local = heads /\ e.known = d.known
  <2> HIDE DEF e, copied, heads, followed
  <2> QED
    BY <1>1 DEF DiskOK, DiskType
<1>3. copied.dirty = d.copy.dirty
  BY DEF DiskOK, DiskType
<1>4. ASSUME NEW c \in Branches PROVE HeadAt(e, c) = HeadAt(d, c)
  <2> HIDE DEF e
  <2> QED
    BY <1>2 DEF HeadAt, DiskOK, DiskType, Heads
<1> HIDE DEF e, copied, heads
<1> QED
  BY <1>2, <1>3, <1>4 DEF LooksLike, e

LEMMA CopyLooksLike ==
  ASSUME DiskOK(Disk), NEW row \in Row, CopyReady(row)
  PROVE  LooksLike(CopyFor(row), Ensured)
<1>1. row.active \in Branches /\ DiskOK(Ensured)
  BY EnsuredOK DEF Row
<1> QED
  BY <1>1, MovedLooksLike DEF CopyFor, LooksLike

(* Nor does a push: what it publishes is what the branch already had.       *)
LEMMA PushedLooksLike ==
  ASSUME NEW d, DiskOK(d), d.copy.here, NEW o \in Pushes(d, d.copy.branch)
  PROVE  LooksLike(o.disk, d) /\ o.disk.copy = d.copy
<1> DEFINE b == d.copy.branch
           e == Publish(d, b)
<1>1. CASE o.disk = d
  BY <1>1 DEF LooksLike
<1>2. CASE o.disk = e
  <2>1. e.copy = d.copy /\ e.local = d.local /\ e.known = [d.known EXCEPT ![b] = d.local[b]]
    BY DEF Publish, DiskOK, DiskType
  <2>2. d.local[b] # NoRef
    BY DEF DiskOK
  <2> HIDE DEF e
  <2>3. ASSUME NEW c \in Branches PROVE HeadAt(e, c) = HeadAt(d, c)
    BY <2>1, <2>2 DEF HeadAt, DiskOK, DiskType, Heads
  <2> QED
    BY <1>2, <2>1, <2>3 DEF LooksLike
<1> QED
  BY <1>1, <1>2 DEF Pushes, Succeeds, Refused

(* An answer given now is right.                                            *)
LEMMA AnswerIsRight ==
  ASSUME DiskOK(Disk), conn \in Row, CopyReady(conn), NEW k \in {"status", "diff", "history"}
  PROVE  /\ Right(k, Answer(CopyFor(conn), k))
         /\ \A data : Ready /\ k # "status" /\ Right(k, data) => data = Answer(CopyFor(conn), k)
         /\ \A data : Ready /\ k = "status" /\ Right(k, data) =>
              /\ data.branch = Answer(CopyFor(conn), k).branch
              /\ data.changes = Answer(CopyFor(conn), k).changes
<1> DEFINE d == CopyFor(conn)
<1>1. DiskOK(d) /\ d.copy.here /\ d.copy.branch = conn.active /\ LooksLike(d, Ensured)
  BY CopyForOK, CopyLooksLike
<1>2. conn.active \in Branches
  BY DEF Row
<1> HIDE DEF d
<1>3. d.copy.dirty = Ensured.copy.dirty /\ d.local[conn.active] = HeadAt(Ensured, conn.active)
  BY <1>1, <1>2 DEF LooksLike, HeadAt, DiskOK
<1>4. CASE k = "status"
  <2>1. Answer(d, k) = StatusOf(d)
    BY <1>4 DEF Answer
  <2>2. StatusOf(d).branch = conn.active /\ StatusOf(d).changes = Ensured.copy.dirty
    BY <1>1, <1>3 DEF StatusOf
  <2> QED
    BY <1>4, <2>1, <2>2 DEF Right, d
<1>5. CASE k = "diff"
  <2>1. Answer(d, k) = d.copy.dirty
    BY <1>5 DEF Answer
  <2> QED
    BY <1>3, <1>5, <2>1 DEF Right, d
<1>6. CASE k = "history"
  <2>1. Answer(d, k) = d.local[conn.active]
    BY <1>1, <1>6 DEF Answer
  <2> QED
    BY <1>3, <1>6, <2>1 DEF Right, d
<1> QED
  BY <1>4, <1>5, <1>6

RowHasAHead == CopyReady(conn) <=> Implemented(conn) /\ HeadAt(Ensured, conn.active) # NoRef

LEMMA RowHead == IInv => RowHasAHead
  BY ReadyIsAHead DEF IInv, RowHasAHead

LEMMA RowHeadAfter == IInv' => RowHasAHead'
  BY RowHead, PTL

(* Where the row stays and the copy looks the same, so do the answers.      *)
LEMMA RightStays ==
  ASSUME IInv, IInv', conn' = conn, LooksLike(Ensured', Ensured), NEW k, NEW data, Right(k, data)
  PROVE  Right(k, data)'
<1>1. conn.active \in Branches
  BY DEF IInv, Row
<1>2. Ensured'.copy.dirty = Ensured.copy.dirty
      /\ HeadAt(Ensured', conn.active) = HeadAt(Ensured, conn.active)
  BY <1>1 DEF LooksLike
<1>3. RowHasAHead /\ RowHasAHead'
  BY RowHead, RowHeadAfter
<1>5. (HeadAt(Ensured, conn.active))' = HeadAt(Ensured', conn.active)
  BY DEF HeadAt
<1>6. Ready' => Ready
  BY <1>2, <1>3, <1>5 DEF Ready, Implemented, RowHasAHead
<1> QED
  BY <1>2, <1>5, <1>6 DEF Right

-----------------------------------------------------------------------------
(* The panel: for every read there is an answer that is right, or a reason   *)
(* why another one is on its way, or nobody could know.                      *)

(* A call that will have the whole panel read again when its answer arrives. *)
Refreshing(m) == /\ m # "push"
                 /\ \/ call[m].phase = "ran"
                    \/ call[m].phase = "answered" /\ call[m].ok

Covered(k) ==
  \/ k \in unseen
  \/ \E m \in Kinds : Refreshing(m)
  \/ request[k] = Asked
  \/ request[k].phase = "answered" /\ Right(k, request[k].data)
  \/ request[k] = Idle /\ ~Showing /\ k \in Unread
  \/ request[k] = Idle /\ Right(k, cache[k])

Maps == /\ request = [k \in Keys |-> request[k]]
        /\ cache = [k \in Keys |-> cache[k]]

(* A panel that is down waits for nothing. *)
Hidden == Showing \/ \A k \in Reads : request[k] = Idle

(* An answer that there is no repository is true, or about to be corrected. *)
Gone == request["repository"].phase = "answered" =>
          /\ \E c \in BOOLEAN : request["repository"].data = [connected |-> c]
          /\ (conn.connected /\ ~request["repository"].data.connected)
               => Refreshing("connect")

PanelInv == Maps /\ Hidden /\ Gone /\ \A k \in Reads : Covered(k)

BranchesAside == Reads \subseteq {"status", "diff", "history"}

LEMMA Phases ==
  /\ Idle.phase = "none" /\ Asked.phase = "asked" /\ Idle # Asked
  /\ \A data : Replies(data).phase = "answered" /\ Replies(data).data = data
  BY DEF Idle, Asked, Replies

LEMMA ReadsAreKeys ==
  "repository" \in Keys /\ "repository" \notin Reads /\ Reads \subseteq Keys
  BY PanelAssumption DEF Keys, AllReads

LEMMA EnsuredIsSet ==
  ASSUME NEW d, DiskOK(d), d.copy.here, SetDisk(d)
  PROVE  Ensured' = d
<1>1. Disk' = d /\ copy' = d.copy
  BY DEF Disk, SetDisk, DiskOK, DiskType
<1> QED
  BY <1>1 DEF Ensured

LEMMA SameServer ==
  ASSUME UNCHANGED server
  PROVE  conn' = conn /\ Ensured' = Ensured /\ LooksLike(Ensured', Ensured)
  BY DEF server, Ensured, Disk, LooksLike

(* A call that is not one of those may go on as it likes.                  *)
LEMMA RefreshingStays ==
  ASSUME NEW kind, ~Refreshing(kind), \A m \in Kinds : m # kind => call'[m] = call[m],
         NEW m \in Kinds, Refreshing(m)
  PROVE  Refreshing(m)'
  BY DEF Refreshing

LEMMA CoverStays ==
  ASSUME IInv, IInv', NEW k \in Reads, Covered(k),
         k \in unseen => k \in unseen',
         \A m \in Kinds : Refreshing(m) => Refreshing(m)',
         request'[k] = request[k], cache'[k] = cache[k], k \in stale => k \in stale',
         Showing' <=> Showing, conn' = conn, LooksLike(Ensured', Ensured)
  PROVE  Covered(k)'
<1>1. ASSUME NEW data, Right(k, data) PROVE Right(k, data)'
  BY <1>1, RightStays
<1>2. Right(k, request[k].data) => Right(k, request[k].data)'
  BY <1>1 DEF Right
<1>3. Right(k, cache[k]) => Right(k, cache[k])'
  BY <1>1 DEF Right
<1>4. k \in Unread => k \in Unread'
  BY DEF Unread
<1> QED
  BY <1>2, <1>3, <1>4 DEF Covered

(* Steps that leave what the panel has received and asked for alone.        *)
LEMMA PanelWaits ==
  ASSUME IInv, IInv', PanelInv, UNCHANGED <<cache, request, stale>>,
         \A m \in Kinds : Refreshing(m) => Refreshing(m)',
         \/ conn' = conn /\ LooksLike(Ensured', Ensured) /\ unseen \subseteq unseen'
         \/ (conn'.connected => conn.connected) /\ Reads \subseteq unseen'
  PROVE  PanelInv'
<1>1. Showing' = Showing
  BY DEF Showing
<1>2. ASSUME NEW k \in Reads PROVE Covered(k)'
  <2>1. CASE Reads \subseteq unseen'
    BY <2>1 DEF Covered
  <2>2. CASE conn' = conn /\ LooksLike(Ensured', Ensured) /\ unseen \subseteq unseen'
    BY <1>1, <2>2, CoverStays DEF PanelInv
  <2> QED
    BY <2>1, <2>2
<1>3. conn'.connected => conn.connected
  OBVIOUS
<1>4. "connect" \in Kinds
  BY DEF Kinds
<1> QED
  BY <1>1, <1>2, <1>3, <1>4 DEF PanelInv, Maps, Hidden, Gone

LEMMA IdleSteps ==
  ASSUME IInv, IInv', PanelInv, UNCHANGED <<server, cache, request, stale, call, unseen>>
  PROVE  PanelInv'
<1>1. \A m \in Kinds : Refreshing(m) => Refreshing(m)'
  BY DEF Refreshing
<1> QED
  BY <1>1, PanelWaits, SameServer

LEMMA SendWaits ==
  ASSUME IInv, IInv', PanelInv, NEW kind \in Kinds, NEW arg, call[kind] = NoCall, Send(kind, arg)
  PROVE  PanelInv'
<1>1. ~Refreshing(kind)
  BY DEF Refreshing, NoCall, CallIn
<1>2. \A m \in Kinds : m # kind => call'[m] = call[m]
  BY DEF Send, IInv, Calls
<1> QED
  BY <1>1, <1>2, PanelWaits, RefreshingStays, SameServer DEF Send

LEMMA ClickWaits ==
  ASSUME IInv, IInv', PanelInv,
         \/ \E p \in Providers : SubmitConnection(p)
         \/ ConfirmDisconnect \/ SubmitCommit \/ ClickPush \/ ClickPull
         \/ \E b \in Branches : PickBranch(b) \/ SubmitBranch(b)
  PROVE  PanelInv'
<1>1. PICK kind, arg : kind \in Kinds /\ call[kind] = NoCall /\ Send(kind, arg)
  BY DEF SubmitConnection, ConfirmDisconnect, SubmitCommit, ClickPush, CanPush, ClickPull,
         PickBranch, SubmitBranch, Kinds
<1> QED
  BY <1>1, SendWaits

LEMMA BeginWaits ==
  ASSUME IInv, IInv', PanelInv, NEW kind \in Kinds, Begin(kind)
  PROVE  PanelInv'
<1>1. ~Refreshing(kind)
  BY DEF Begin, Refreshing
<1>2. \A m \in Kinds : m # kind => call'[m] = call[m]
  BY DEF Begin, Answered, IInv, Calls
<1>3. UNCHANGED <<server, cache, request, stale, unseen>>
  BY DEF Begin
<1> QED
  BY <1>1, <1>2, <1>3, PanelWaits, RefreshingStays, SameServer

(* Of the calls that succeed only a push has nothing read again, and what a  *)
(* push changes no read tells.                                              *)
LEMMA RunCallCovers ==
  ASSUME IInv, IInv', PanelInv, NEW kind \in Kinds, RunCall(kind)
  PROVE  PanelInv'
<1> DEFINE c == call[kind]
<1>1. CallOK(kind, c) /\ c.phase = "begun" /\ c.row \in Row
      /\ kind \notin {"connect", "disconnect"}
  BY NoCallIn DEF RunCall, NoCall, CallIn, CallOK, Working
<1>2. PICK o \in Outcomes(kind, c.arg, c.row) :
        /\ SetDisk(o.disk)
        /\ call' = [call EXCEPT
             ![kind].phase = IF o.ok /\ kind \in Moves THEN "ran" ELSE "answered",
             ![kind].ok = o.ok,
             ![kind].says = IF o.ok /\ kind = "push" THEN StatusOf(o.disk) ELSE Nothing]
        /\ unseen' = IF o.ok THEN unseen ELSE Reads
  BY DEF RunCall
<1>3. ~Refreshing(kind)
  BY <1>1 DEF Refreshing
<1>4. \A m \in Kinds : m # kind => call'[m] = call[m]
  BY <1>2 DEF IInv, Calls
<1>5. UNCHANGED <<conn, cache, request, stale>>
  BY DEF RunCall
<1>6. \A m \in Kinds : Refreshing(m) => Refreshing(m)'
  BY <1>3, <1>4, RefreshingStays
<1>7. CASE ~o.ok
  BY <1>2, <1>5, <1>6, <1>7, PanelWaits
<1>8. CASE o.ok /\ kind = "push"
  <2> DEFINE d == CopyFor(c.row)
  <2>1. CopyReady(c.row) /\ o \in Pushes(d, c.row.active)
    BY <1>8 DEF Outcomes, Refused
  <2>2. DiskOK(d) /\ d.copy.here /\ d.copy.branch = c.row.active /\ LooksLike(d, Ensured)
    BY <1>1, <2>1, CopyForOK, CopyLooksLike DEF IInv
  <2> HIDE DEF d
  <2>3. LooksLike(o.disk, d) /\ o.disk.copy = d.copy /\ DiskOK(o.disk)
    BY <2>1, <2>2, PushedLooksLike, PushesLeave DEF Leaves
  <2>4. Ensured' = o.disk
    BY <1>2, <2>2, <2>3, EnsuredIsSet
  <2>5. LooksLike(Ensured', Ensured)
    BY <2>2, <2>3, <2>4 DEF LooksLike
  <2> QED
    BY <1>2, <1>5, <1>6, <1>8, <2>5, PanelWaits
<1>9. CASE o.ok /\ kind # "push"
  <2> DEFINE phase == IF o.ok /\ kind \in Moves THEN "ran" ELSE "answered"
             says == IF o.ok /\ kind = "push" THEN StatusOf(o.disk) ELSE Nothing
             e == [c EXCEPT !.phase = phase, !.ok = o.ok, !.says = says]
  <2>1. call'[kind] = e
    <3>1. call' = [call EXCEPT ![kind] = e]
      BY <1>2
    <3> HIDE DEF e
    <3> QED
      BY <3>1 DEF IInv, Calls
  <2>2. e.phase = phase /\ e.ok = o.ok
    <3> HIDE DEF c, phase, says
    <3>1. PICK p, a, r, k, t : c = [phase |-> p, arg |-> a, row |-> r, ok |-> k, says |-> t]
      BY <1>1 DEF CallOK
    <3> QED
      BY <3>1
  <2>3. phase \in {"ran", "answered"}
    OBVIOUS
  <2> HIDE DEF e, phase
  <2>4. Refreshing(kind)'
    BY <1>9, <2>1, <2>2, <2>3 DEF Refreshing
  <2>5. \A k \in Reads : Covered(k)'
    BY <2>4 DEF Covered
  <2>6. "connect" \in Kinds
    BY DEF Kinds
  <2> QED
    BY <1>5, <1>6, <2>5, <2>6 DEF PanelInv, Maps, Hidden, Gone, Showing
<1> QED
  BY <1>7, <1>8, <1>9

(* A record of which two fields are set.                                   *)
LEMMA TwoFields ==
  ASSUME NEW kind \in Kinds, IInv, CallOK(kind, call[kind]), NEW ok, Answered(kind, ok)
  PROVE  /\ call'[kind].phase = "answered" /\ call'[kind].ok = ok
         /\ \A m \in Kinds : m # kind => call'[m] = call[m]
<1> DEFINE c == call[kind]
           e == [c EXCEPT !.phase = "answered", !.ok = ok]
<1>1. call' = [call EXCEPT ![kind] = e]
  BY DEF Answered
<1>2. e.phase = "answered" /\ e.ok = ok
  <2> HIDE DEF c
  <2>1. PICK p, a, r, k, t : c = [phase |-> p, arg |-> a, row |-> r, ok |-> k, says |-> t]
    BY DEF CallOK, c
  <2> QED
    BY <2>1
<1> HIDE DEF e
<1> QED
  BY <1>1, <1>2 DEF IInv, Calls

LEMMA CommitRowCovers ==
  ASSUME IInv, IInv', PanelInv, NEW kind \in Kinds, CommitRow(kind)
  PROVE  PanelInv'
<1> DEFINE ok == conn = call[kind].row
<1>1. CallOK(kind, call[kind]) /\ kind \in Moves
  BY NoCallIn DEF CommitRow, NoCall, CallIn, CallOK, Working
<1>2. Answered(kind, ok) /\ RowMoves(call[kind].row, call[kind].arg)
  BY DEF CommitRow
<1> HIDE DEF ok
<1>3. /\ call'[kind].phase = "answered" /\ call'[kind].ok = ok
      /\ \A m \in Kinds : m # kind => call'[m] = call[m]
  BY <1>1, <1>2, TwoFields
<1>4. "connect" \in Kinds /\ kind \notin {"push", "connect"}
  BY <1>1 DEF Kinds, Moves
<1>5. conn'.connected = conn.connected
  BY <1>2 DEF RowMoves, IInv, Row
<1>6. UNCHANGED <<cache, request, stale>>
  BY DEF CommitRow
<1>7. \A k \in Reads : Covered(k)'
  <2>1. CASE ok
    <3>1. Refreshing(kind)'
      BY <1>3, <1>4, <2>1 DEF Refreshing
    <3> QED
      BY <3>1 DEF Covered
  <2>2. CASE ~ok
    BY <2>2 DEF CommitRow, Covered, ok
  <2> QED
    BY <2>1, <2>2
<1>8. Refreshing("connect") => Refreshing("connect")'
  BY <1>3, <1>4 DEF Refreshing
<1> QED
  BY <1>5, <1>6, <1>7, <1>8 DEF PanelInv, Maps, Hidden, Gone, Showing

(* A new repository is on its way to the panel; without one nothing has to  *)
(* be right.                                                                *)
LEMMA ConnectionCovers ==
  ASSUME IInv, IInv', PanelInv, Connect \/ Disconnect
  PROVE  PanelInv'
<1>1. "connect" \in Kinds /\ "disconnect" \in Kinds
  BY DEF Kinds
<1>2. UNCHANGED <<cache, request, stale, unseen>>
  BY DEF Connect, Disconnect
<1>3. CASE Connect
  <2>0. Answered("connect", TRUE)
    BY <1>3 DEF Connect
  <2>1. CallOK("connect", call["connect"])
    BY <1>1, <1>3, NoCallIn DEF Connect, NoCall, CallIn
  <2>2. Refreshing("connect")'
    BY <1>1, <2>0, <2>1, TwoFields DEF Refreshing
  <2> QED
    BY <1>1, <1>2, <2>2 DEF PanelInv, Maps, Hidden, Gone, Showing, Covered
<1>4. CASE Disconnect
  <2> DEFINE ok == conn.connected
  <2>1. CallOK("disconnect", call["disconnect"]) /\ call["disconnect"].phase = "sent"
        /\ Answered("disconnect", ok)
    BY <1>1, <1>4, NoCallIn DEF Disconnect, NoCall, CallIn
  <2> HIDE DEF ok
  <2>2. \A m \in Kinds : Refreshing(m) => Refreshing(m)'
    BY <1>1, <2>1, TwoFields, RefreshingStays DEF Refreshing
  <2>3. ~conn'.connected
    BY <1>4 DEF Disconnect, IInv, Row
  <2>4. \A k, data : Right(k, data)'
    BY <2>3 DEF Right, Ready
  <2>5. ASSUME NEW k \in Reads PROVE Covered(k)'
    BY <1>2, <2>2, <2>4 DEF PanelInv, Covered, Showing, Unread
  <2> QED
    BY <1>2, <2>3, <2>5 DEF PanelInv, Maps, Hidden, Gone, Showing
<1> QED
  BY <1>3, <1>4

-----------------------------------------------------------------------------
(* Answers reach the panel.                                                *)

LEMMA ShowingAfter ==
  /\ \A c \in BOOLEAN : cache'["repository"] = [connected |-> c] => (Showing' <=> c)
  /\ cache'["repository"] = cache["repository"] => (Showing' <=> Showing)
<1>1. ASSUME NEW c \in BOOLEAN, cache'["repository"] = [connected |-> c]
      PROVE  Showing' <=> c
  <2>1. [connected |-> c] # Nothing /\ [connected |-> c].connected = c
    BY PanelAssumption
  <2> QED
    BY <1>1, <2>1 DEF Showing
<1> QED
  BY <1>1 DEF Showing

LEMMA WhatIsAsked ==
  ASSUME NEW req, NEW keys, NEW up \in BOOLEAN, NEW k \in Keys
  PROVE  /\ k \in Reads /\ ~up => Requests(req, keys, up)[k] = Idle
         /\ up /\ k \in keys => Requests(req, keys, up)[k] = Asked
         /\ up /\ ~Showing /\ k \in Unread => Requests(req, keys, up)[k] = Asked
         /\ k \notin Reads /\ k \in keys => Requests(req, keys, up)[k] = Asked
         /\ k \notin Reads /\ k \notin keys => Requests(req, keys, up)[k] = req[k]
         /\ up /\ k \notin keys /\ (Showing \/ k \notin Unread)
              => Requests(req, keys, up)[k] = req[k]
         /\ Requests(req, keys, up) = [m \in Keys |-> Requests(req, keys, up)[m]]
BY ReadsAreKeys DEF Requests, Unread

LEMMA NothingIsAsked ==
  ASSUME NEW req, NEW up \in BOOLEAN, NEW k \in Keys
  PROVE  /\ k \in Reads /\ ~up => Requests(req, {}, up)[k] = Idle
         /\ k \notin Reads => Requests(req, {}, up)[k] = req[k]
         /\ up /\ Showing => Requests(req, {}, up)[k] = req[k]
         /\ up /\ k \notin Unread => Requests(req, {}, up)[k] = req[k]
         /\ up /\ ~Showing /\ k \in Unread => Requests(req, {}, up)[k] = Asked
BY ReadsAreKeys DEF Requests, Unread

(* A call that had the panel read again is followed by those reads; the      *)
(* other answers change nothing that a read shows, but for the status of a   *)
(* push.                                                                    *)
LEMMA CallAnsweredCovers ==
  ASSUME IInv, IInv', PanelInv, NEW kind \in Kinds, CallAnswered(kind)
  PROVE  PanelInv'
<1>1. \A m \in Kinds : m # kind => call'[m] = call[m]
  BY DEF CallAnswered, IInv, Calls
<1>2. conn' = conn /\ LooksLike(Ensured', Ensured)
  BY SameServer DEF CallAnswered
<1>3. CASE ~call[kind].ok
  <2>1. ~Refreshing(kind)
    BY <1>3 DEF CallAnswered, Refreshing
  <2>2. UNCHANGED <<cache, request, stale>> /\ unseen \subseteq unseen'
    BY <1>3 DEF CallAnswered
  <2> QED
    BY <1>1, <1>2, <2>1, <2>2, RefreshingStays, PanelWaits
<1>4. CASE call[kind].ok /\ kind = "push"
  <2>1. ~Refreshing(kind)
    BY <1>4 DEF Refreshing
  <2>2. \A m \in Kinds : Refreshing(m) => Refreshing(m)'
    BY <1>1, <2>1, RefreshingStays
  <2>3. /\ cache' = Says("push") /\ request' = Requests(request, {}, Showing)
        /\ stale' = stale \ {"status"} /\ unseen' = unseen \cup {"status"}
    <3>1. ((Showing \/ kind = "connect") /\ kind # "disconnect") <=> Showing
      BY <1>4
    <3>2. Refreshes("push") = {}
      BY DEF Refreshes
    <3> QED
      BY <1>4, <3>1, <3>2 DEF CallAnswered, Requests
  <2>4. /\ cache' = [k \in Keys |-> cache'[k]]
        /\ \A k \in Keys : k # "status" => cache'[k] = cache[k]
    <3>1. cache' = cache \/ cache' = [cache EXCEPT !["status"] = call["push"].says]
      BY <2>3 DEF Says
    <3> QED
      BY <3>1 DEF PanelInv, Maps
  <2>5. Showing' <=> Showing
    BY <2>4, ReadsAreKeys, ShowingAfter
  <2>6. request' = request
    <3>0. Showing \in BOOLEAN
      BY DEF Showing
    <3>1. ASSUME NEW k \in Keys PROVE request'[k] = request[k]
      <4>1. CASE Showing \/ k \notin Reads
        BY <2>3, <3>0, <4>1, WhatIsAsked
      <4>2. CASE ~Showing /\ k \in Reads
        BY <2>3, <3>0, <4>2, WhatIsAsked DEF PanelInv, Hidden
      <4> QED
        BY <4>1, <4>2
    <3>2. request' = [k \in Keys |-> request'[k]]
      BY <2>3 DEF Requests
    <3> QED
      BY <3>1, <3>2 DEF PanelInv, Maps
  <2>7. ASSUME NEW k \in Reads PROVE Covered(k)'
    <3>1. CASE k = "status"
      BY <2>3, <3>1 DEF Covered
    <3>2. CASE k # "status"
      <4>1. k \in Keys
        BY ReadsAreKeys
      <4>2. /\ request'[k] = request[k] /\ cache'[k] = cache[k]
            /\ k \in stale => k \in stale'
            /\ k \in unseen => k \in unseen'
        BY <2>3, <2>4, <2>6, <3>2, <4>1
      <4>3. Covered(k)
        BY DEF PanelInv
      <4> QED
        BY <1>2, <2>2, <2>5, <4>2, <4>3, CoverStays
    <3> QED
      BY <3>1, <3>2
  <2>8. Gone'
    BY <1>2, <2>2, <2>6 DEF PanelInv, Gone, Kinds
  <2> QED
    BY <2>4, <2>5, <2>6, <2>7, <2>8 DEF PanelInv, Maps, Hidden
<1>5. CASE call[kind].ok /\ kind # "push"
  <2> DEFINE up == (Showing \/ kind = "connect") /\ kind # "disconnect"
  <2>1. Refreshes(kind) = Keys
    BY <1>5 DEF Refreshes, WorkingCopyKeys, Kinds
  <2>2. up \in BOOLEAN
    BY DEF Showing
  <2>3. cache' = Says(kind) /\ request' = Requests(request, Keys, up) /\ stale' = stale \cup Keys
    BY <1>5, <2>1 DEF CallAnswered
  <2>4. cache' = [k \in Keys |-> cache'[k]] /\ (Showing' <=> up)
    <3>1. CASE kind \in {"connect", "disconnect"}
      <4> DEFINE there == kind = "connect"
      <4>1. cache' = [cache EXCEPT !["repository"] = [connected |-> there]]
        BY <2>3, <3>1 DEF Says
      <4>2. cache'["repository"] = [connected |-> there] /\ cache' = [k \in Keys |-> cache'[k]]
        BY <4>1, ReadsAreKeys DEF PanelInv, Maps
      <4>3. Showing' <=> there
        BY <4>2, ShowingAfter
      <4> QED
        BY <3>1, <4>2, <4>3
    <3>2. CASE kind \notin {"connect", "disconnect"}
      <4>1. cache' = cache
        BY <1>5, <2>3, <3>2 DEF Says
      <4> QED
        BY <3>2, <4>1, ShowingAfter DEF PanelInv, Maps
    <3> QED
      BY <3>1, <3>2
  <2> HIDE DEF up
  <2>5. request' = [k \in Keys |-> request'[k]] /\ request'["repository"] = Asked
    BY <2>2, <2>3, ReadsAreKeys, WhatIsAsked
  <2>6. ASSUME NEW k \in Reads PROVE Covered(k)' /\ (up \/ request'[k] = Idle)
    <3>1. k \in Keys
      BY ReadsAreKeys
    <3>2. CASE up
      <4>1. request'[k] = Asked
        BY <2>2, <2>3, <3>1, <3>2, WhatIsAsked
      <4> QED
        BY <3>2, <4>1 DEF Covered, Asked
    <3>3. CASE ~up
      <4>1. request'[k] = Idle
        BY <2>2, <2>3, <3>1, <3>3, WhatIsAsked
      <4>2. (k \in Unread)'
        BY <2>3, <3>1 DEF Unread
      <4> QED
        BY <2>4, <3>3, <4>1, <4>2 DEF Covered, Idle
    <3> QED
      BY <3>2, <3>3
  <2> QED
    BY <2>4, <2>5, <2>6, Phases DEF PanelInv, Maps, Hidden, Gone, Idle
<1> QED
  BY <1>3, <1>4, <1>5

(* Answering a read moves the copy, which changes no answer.                *)
LEMMA ReadRunsCovers ==
  ASSUME IInv, IInv', PanelInv, BranchesAside, NEW r \in Keys, ReadRuns(r)
  PROVE  PanelInv'
<1>1. UNCHANGED <<conn, call, cache, stale>>
  BY DEF ReadRuns, server
<1>2. Showing' = Showing /\ \A m \in Kinds : Refreshing(m) => Refreshing(m)'
  BY <1>1 DEF Showing, Refreshing
<1>3. LooksLike(Ensured', Ensured)
  <2>1. CASE UNCHANGED server
    BY <2>1, SameServer
  <2>2. CASE CopyReady(conn) /\ SetDisk(CopyFor(conn))
    <3>1. Ensured' = CopyFor(conn)
      BY <2>2, CopyForOK, EnsuredIsSet DEF IInv
    <3> QED
      BY <2>2, <3>1, CopyLooksLike DEF IInv
  <2>3. CASE SetDisk(Ensured)
    <3>1. Ensured' = Ensured
      BY <2>3, EnsuredOK, EnsuredIsSet DEF IInv
    <3> QED
      BY <3>1 DEF LooksLike
  <2> QED
    BY <2>1, <2>2, <2>3 DEF ReadRuns
<1>4. request[r] = Asked
  BY DEF ReadRuns
<1>5. PICK reply : request' = [request EXCEPT ![r] = reply]
  BY DEF ReadRuns
<1>6. request'[r] = reply /\ \A k \in Keys : k # r => request'[k] = request[k]
  BY <1>5 DEF PanelInv, Maps
<1>7. ASSUME NEW k \in Reads, k # r PROVE Covered(k)'
  <2>1. Covered(k) /\ (k \in unseen => k \in unseen')
    BY <1>7 DEF PanelInv, ReadRuns
  <2> QED
    BY <1>1, <1>2, <1>3, <1>6, <1>7, <2>1, ReadsAreKeys, CoverStays
<1>8. ASSUME r \in Reads PROVE Covered(r)'
  <2>1. r \in {"status", "diff", "history"}
    BY <1>8 DEF BranchesAside
  <2>2. \/ conn.connected /\ CopyReady(conn)
           /\ request' = [request EXCEPT ![r] = Replies(Answer(CopyFor(conn), r))]
        \/ request' = [request EXCEPT ![r] = [phase |-> "refused", data |-> Nothing]]
    BY <2>1 DEF ReadRuns
  <2>3. CASE request' = [request EXCEPT ![r] = [phase |-> "refused", data |-> Nothing]]
    <3>1. request'[r].phase = "refused"
      BY <2>3 DEF PanelInv, Maps
    <3>2. r \in unseen'
      BY <3>1 DEF ReadRuns
    <3> QED
      BY <3>2 DEF Covered
  <2>4. CASE CopyReady(conn)
             /\ request' = [request EXCEPT ![r] = Replies(Answer(CopyFor(conn), r))]
    <3> DEFINE data == Answer(CopyFor(conn), r)
    <3>1. Right(r, data)
      BY <2>1, <2>4, AnswerIsRight DEF IInv
    <3>2. request'[r] = Replies(data)
      BY <2>4 DEF PanelInv, Maps
    <3> HIDE DEF data
    <3>3. request'[r].phase = "answered" /\ request'[r].data = data
      BY <3>2, Phases
    <3>4. PICK d : d = request'[r].data /\ Right(r, d)
      BY <3>1, <3>3
    <3>5. Right(r, d)'
      BY <1>1, <1>3, <3>4, RightStays
    <3> QED
      BY <3>3, <3>4, <3>5 DEF Covered, Right
  <2> QED
    BY <2>2, <2>3, <2>4
<1>9. Gone'
  <2>1. CASE r = "repository"
    <3>1. request'[r] = Replies([connected |-> conn.connected])
      BY <2>1 DEF ReadRuns, Answer, PanelInv, Maps
    <3>2. conn.connected \in BOOLEAN
      BY DEF IInv, Row
    <3>3. request'["repository"].data = [connected |-> conn.connected]
      BY <2>1, <3>1, Phases
    <3>4. [connected |-> conn.connected].connected = conn.connected
      OBVIOUS
    <3> QED
      BY <1>1, <3>2, <3>3, <3>4 DEF Gone
  <2>2. CASE r # "repository"
    BY <1>1, <1>6, <2>2, ReadsAreKeys DEF PanelInv, Gone, Refreshing
  <2> QED
    BY <2>1, <2>2
<1>10. Hidden'
  BY <1>2, <1>4, <1>6, Phases, ReadsAreKeys DEF PanelInv, Hidden
<1>11. Maps'
  BY <1>1, <1>5 DEF PanelInv, Maps
<1> QED
  BY <1>7, <1>8, <1>9, <1>10, <1>11 DEF PanelInv

(* What arrives was right when it was given and still is, or something will  *)
(* come after it; a panel put up asks for what it missed.                   *)
LEMMA ReadArrivesCovers ==
  ASSUME IInv, IInv', PanelInv, NEW r \in Keys, ReadArrives(r)
  PROVE  PanelInv'
<1>1. conn' = conn /\ LooksLike(Ensured', Ensured) /\ call' = call /\ unseen' = unseen
  BY SameServer DEF ReadArrives
<1>2. \A m \in Kinds : Refreshing(m) => Refreshing(m)'
  BY <1>1 DEF Refreshing
<1>3. ASSUME NEW k, NEW data, Right(k, data) PROVE Right(k, data)'
  BY <1>1, <1>3, RightStays
<1> DEFINE landed == [request EXCEPT ![r] = Idle]
<1>4. landed[r] = Idle /\ (\A k \in Keys : k # r => landed[k] = request[k])
      /\ landed = [k \in Keys |-> landed[k]]
  BY DEF PanelInv, Maps
<1>5. request[r].phase \in {"answered", "refused"}
  BY DEF ReadArrives
<1> HIDE DEF landed
<1>6. CASE request[r].phase = "refused"
  <2>1. request' = landed /\ cache' = cache /\ stale' = stale
    BY <1>6 DEF ReadArrives, landed
  <2>2. Showing' = Showing
    BY <2>1 DEF Showing
  <2>3. ASSUME NEW k \in Reads PROVE Covered(k)'
    <3>1. CASE k = r
      <4>1. Covered(k)
        BY DEF PanelInv
      <4>2. k \in unseen \/ \E m \in Kinds : Refreshing(m)
        BY <1>6, <3>1, <4>1, Phases DEF Covered
      <4> QED
        BY <1>1, <1>2, <4>2 DEF Covered
    <3>2. CASE k # r
      <4>1. Covered(k) /\ k \in Keys
        BY ReadsAreKeys DEF PanelInv
      <4> QED
        BY <1>1, <1>2, <1>4, <2>1, <2>2, <3>2, <4>1, CoverStays
    <3> QED
      BY <3>1, <3>2
  <2>4. Maps' /\ Hidden'
    BY <1>4, <2>1, <2>2, ReadsAreKeys DEF PanelInv, Maps, Hidden
  <2>5. Gone'
    BY <1>1, <1>4, <2>1, ReadsAreKeys, Phases DEF PanelInv, Gone, Refreshing
  <2> QED
    BY <2>3, <2>4, <2>5 DEF PanelInv
<1>7. CASE request[r].phase = "answered" /\ r = "repository"
  <2>1. PICK up \in BOOLEAN : request[r].data = [connected |-> up]
    BY <1>7 DEF PanelInv, Gone
  <2>2. [connected |-> up].connected = up
    OBVIOUS
  <2>3. /\ cache' = [cache EXCEPT ![r] = [connected |-> up]]
        /\ request' = Requests(landed, {}, up) /\ stale' = stale \ {r}
    BY <1>7, <2>1, <2>2 DEF ReadArrives, landed
  <2>4. /\ cache' = [k \in Keys |-> cache'[k]] /\ cache'["repository"] = [connected |-> up]
        /\ \A k \in Keys : k # r => cache'[k] = cache[k]
    BY <1>7, <2>3 DEF PanelInv, Maps
  <2>5. Showing' <=> up
    BY <2>4, ShowingAfter
  <2>6. request' = [k \in Keys |-> request'[k]] /\ request'["repository"] = Idle
    <3>1. request' = [k \in Keys |-> request'[k]]
      BY <2>3 DEF Requests
    <3> QED
      BY <1>4, <1>7, <2>3, <3>1, ReadsAreKeys, NothingIsAsked
  <2>7. ASSUME NEW k \in Reads PROVE Covered(k)' /\ (up \/ request'[k] = Idle)
    <3>1. k \in Keys /\ k # r /\ Covered(k) /\ landed[k] = request[k] /\ cache'[k] = cache[k]
      BY <1>4, <1>7, <2>4, ReadsAreKeys DEF PanelInv
    <3>2. k \in Unread <=> (k \in Unread)'
      BY <2>3, <3>1 DEF Unread
    <3>3. CASE up /\ Showing
      <4>1. request'[k] = request[k]
        BY <2>3, <3>1, <3>3, NothingIsAsked
      <4>2. k \in stale => k \in stale'
        BY <2>3, <3>1
      <4> QED
        BY <1>1, <1>2, <2>5, <3>1, <3>3, <4>1, <4>2, CoverStays
    <3>4. CASE up /\ ~Showing /\ k \in Unread
      <4>1. request'[k] = Asked
        BY <2>3, <3>1, <3>4, NothingIsAsked
      <4> QED
        BY <3>4, <4>1 DEF Covered, Asked
    <3>5. CASE up /\ ~Showing /\ k \notin Unread
      <4>1. request'[k] = request[k] /\ request[k] = Idle
        BY <2>3, <3>1, <3>5, NothingIsAsked DEF PanelInv, Hidden
      <4>2. k \in unseen \/ (\E m \in Kinds : Refreshing(m)) \/ Right(k, cache[k])
        BY <3>1, <3>5, <4>1, Phases DEF Covered
      <4>3. Right(k, cache[k]) => Right(k, cache[k])'
        BY <1>3, <3>1 DEF Right
      <4> QED
        BY <1>1, <1>2, <3>5, <4>1, <4>2, <4>3 DEF Covered, Idle
    <3>6. CASE ~up
      <4>1. request'[k] = Idle
        BY <2>3, <3>1, <3>6, NothingIsAsked
      <4>2. CASE conn.connected
        <5>1. Refreshing("connect")
          BY <1>7, <2>1, <2>2, <3>6, <4>2 DEF PanelInv, Gone
        <5>2. Covered(k)'
          BY <1>2, <5>1 DEF Covered, Kinds
        <5> QED
          BY <4>1, <5>2
      <4>3. CASE ~conn.connected
        <5>1. Right(k, cache[k])'
          BY <1>1, <4>3 DEF Right, Ready
        <5> QED
          BY <4>1, <5>1 DEF Covered, Idle
      <4> QED
        BY <4>2, <4>3
    <3> QED
      BY <3>3, <3>4, <3>5, <3>6
  <2> QED
    BY <2>4, <2>5, <2>6, <2>7, Phases DEF PanelInv, Maps, Hidden, Gone, Idle
<1>8. CASE request[r].phase = "answered" /\ r # "repository"
  <2>1. r \in Reads /\ Showing
    <3>1. r \in Reads
      BY <1>8 DEF Keys
    <3> QED
      BY <1>8, <3>1, Phases DEF PanelInv, Hidden
  <2>2. /\ cache' = [cache EXCEPT ![r] = request[r].data]
        /\ request' = Requests(landed, {}, TRUE) /\ stale' = stale \ {r}
    <3>1. Showing <=> TRUE
      BY <2>1
    <3> QED
      BY <1>8, <3>1 DEF ReadArrives, landed, Requests
  <2>3. request' = landed
    <3>1. ASSUME NEW k \in Keys PROVE request'[k] = landed[k]
      BY <2>1, <2>2, NothingIsAsked
    <3>2. request' = [k \in Keys |-> request'[k]]
      BY <2>2 DEF Requests
    <3> QED
      BY <1>4, <3>1, <3>2
  <2>4. /\ cache' = [k \in Keys |-> cache'[k]] /\ cache'[r] = request[r].data
        /\ \A k \in Keys : k # r => cache'[k] = cache[k]
    BY <2>2 DEF PanelInv, Maps
  <2>5. Showing' <=> Showing
    BY <1>8, <2>4, ReadsAreKeys, ShowingAfter
  <2>6. ASSUME NEW k \in Reads PROVE Covered(k)'
    <3>1. k \in Keys /\ Covered(k)
      BY ReadsAreKeys DEF PanelInv
    <3>2. CASE k = r
      <4>1. \/ k \in unseen \/ \E m \in Kinds : Refreshing(m)
            \/ Right(k, request[k].data)
        BY <1>8, <3>1, <3>2, Phases DEF Covered
      <4>2. request'[k] = Idle /\ cache'[k] = request[k].data
        BY <1>4, <2>3, <2>4, <3>2
      <4>3. ASSUME Right(k, request[k].data) PROVE Right(k, cache[k])'
        <5>1. PICK d : d = cache'[k] /\ Right(k, d)
          BY <4>2, <4>3
        <5>2. Right(k, d)'
          BY <1>3, <5>1
        <5> QED
          BY <5>1, <5>2 DEF Right
      <4> QED
        BY <1>1, <1>2, <4>1, <4>2, <4>3 DEF Covered, Idle
    <3>3. CASE k # r
      <4>1. /\ request'[k] = request[k] /\ cache'[k] = cache[k]
            /\ k \in stale => k \in stale'
        BY <1>4, <2>2, <2>3, <2>4, <3>1, <3>3
      <4> QED
        BY <1>1, <1>2, <2>5, <3>1, <4>1, CoverStays
    <3> QED
      BY <3>2, <3>3
  <2>7. Gone'
    BY <1>1, <1>4, <1>8, <2>3, ReadsAreKeys DEF PanelInv, Gone, Refreshing
  <2> QED
    BY <1>4, <2>1, <2>3, <2>4, <2>5, <2>6, <2>7 DEF PanelInv, Maps, Hidden
<1> QED
  BY <1>5, <1>6, <1>7, <1>8

LEMMA RetryCovers ==
  ASSUME IInv, IInv', PanelInv, Retry
  PROVE  PanelInv'
<1>1. UNCHANGED <<server, cache, stale, call, unseen>> /\ Showing /\ "status" \in Reads
      /\ request' = [request EXCEPT !["status"] = Asked]
  BY DEF Retry
<1>2. /\ request' = [k \in Keys |-> request'[k]] /\ request'["status"] = Asked
      /\ \A k \in Keys : k # "status" => request'[k] = request[k]
  BY <1>1, ReadsAreKeys DEF PanelInv, Maps
<1>3. (Showing' <=> Showing) /\ \A m \in Kinds : Refreshing(m) => Refreshing(m)'
  BY <1>1 DEF Showing, Refreshing
<1>4. ASSUME NEW k \in Reads PROVE Covered(k)'
  <2>1. CASE k = "status"
    BY <1>2, <2>1 DEF Covered, Asked
  <2>2. CASE k # "status"
    <3>1. Covered(k) /\ k \in Keys
      BY ReadsAreKeys DEF PanelInv
    <3> QED
      BY <1>1, <1>2, <1>3, <2>2, <3>1, SameServer, CoverStays
  <2> QED
    BY <2>1, <2>2
<1>5. Gone'
  BY <1>1, <1>2, SameServer, ReadsAreKeys DEF PanelInv, Gone, Refreshing
<1> QED
  BY <1>1, <1>2, <1>3, <1>4, <1>5 DEF PanelInv, Maps, Hidden

(* What others do the panel cannot know of.                                *)
LEMMA OthersCover ==
  ASSUME IInv, IInv', PanelInv,
         \/ OtherRuns \/ OtherCommitsRow \/ CopyLost \/ \E b \in Branches : ColleaguePushes(b)
  PROVE  PanelInv'
<1>1. UNCHANGED <<cache, request, stale, call>> /\ unseen' = Reads
  BY DEF OtherRuns, OtherCommitsRow, CopyLost, ColleaguePushes, panel
<1>2. conn'.connected => conn.connected
  <2>1. conn' = conn \/ \E b, v : conn' = [conn EXCEPT !.active = b, !.version = v]
    BY DEF OtherRuns, OtherCommitsRow, RowMoves, CopyLost, ColleaguePushes
  <2> QED
    BY <2>1 DEF IInv, Row
<1>3. \A m \in Kinds : Refreshing(m) => Refreshing(m)'
  BY <1>1 DEF Refreshing
<1> QED
  BY <1>1, <1>2, <1>3, PanelWaits

LEMMA NextCovers ==
  ASSUME IInv, IInv', PanelInv, BranchesAside, [Next]_vars
  PROVE  PanelInv'
<1>1. CASE UNCHANGED vars
  BY <1>1, IdleSteps DEF vars, panel
<1>2. ASSUME NEW k \in Keys, ReadRuns(k) \/ ReadArrives(k) PROVE PanelInv'
  BY <1>2, ReadRunsCovers, ReadArrivesCovers
<1>3. CASE TypeMessage \/ \E p \in Paths : Tick(p)
  BY <1>3, IdleSteps DEF TypeMessage, Tick
<1>4. ASSUME NEW kind \in Kinds,
             Begin(kind) \/ RunCall(kind) \/ CommitRow(kind) \/ CallAnswered(kind)
      PROVE  PanelInv'
  BY <1>4, BeginWaits, RunCallCovers, CommitRowCovers, CallAnsweredCovers
<1>5. ASSUME NEW op, NEW arg, OtherBegins(op, arg) PROVE PanelInv'
  BY <1>5, IdleSteps DEF OtherBegins, panel
<1> QED
  BY <1>1, <1>2, <1>3, <1>4, <1>5, RetryCovers, ClickWaits, ConnectionCovers, OthersCover
  DEF Next

LEMMA InitCovers == Init => PanelInv
<1> SUFFICES ASSUME Init PROVE PanelInv
  OBVIOUS
<1>1. Maps
  BY DEF Init, Maps
<1>2. request["repository"] = Asked /\ \A k \in Reads : request[k] = Idle /\ cache[k] = Nothing
  BY ReadsAreKeys DEF Init
<1>3. ~Showing
  BY ReadsAreKeys DEF Init, Showing
<1> QED
  BY <1>1, <1>2, <1>3, Phases DEF PanelInv, Hidden, Gone, Covered, Unread

LEMMA CoveredAgrees ==
  ASSUME IInv, PanelInv, BranchesAside
  PROVE  PanelAgrees
<1> SUFFICES ASSUME NEW k \in Reads, Showing, Ready, Quiet(k), k \notin unseen
             PROVE  Agrees(k)
  BY DEF PanelAgrees, Ready
<1>1. request[k] = Idle /\ \A m \in Kinds : ~Refreshing(m)
  BY DEF Quiet, Refreshing, NoCall, CallIn
<1>2. Right(k, cache[k])
  BY <1>1, Phases DEF PanelInv, Covered
<1>3. k \in {"status", "diff", "history"}
  BY DEF BranchesAside
<1> QED
  BY <1>2, <1>3, AnswerIsRight DEF Agrees, IInv, Ready

-----------------------------------------------------------------------------
(* Once everything in flight has arrived, what the panel shows of the        *)
(* working copy is what the API would answer now, unless somebody else, or a *)
(* refused call, changed it since the panel last asked.  Of the four reads   *)
(* the list of branches is left out: a push that publishes one does not have *)
(* it read again (usePush, git.ts:168-176).                                  *)
THEOREM PanelShowsTheCopy ==
  ASSUME "branches" \notin Reads
  PROVE  Spec => []PanelAgrees
<1>1. BranchesAside
  BY PanelAssumption DEF BranchesAside, AllReads
<1>2. IInv /\ PanelInv /\ [Next]_vars => (IInv /\ PanelInv)'
  BY <1>1, NextGrows, NextCovers
<1>3. Init => IInv /\ PanelInv
  BY InitIInv, InitCovers
<1>4. IInv /\ PanelInv => PanelAgrees
  BY <1>1, CoveredAgrees
<1> QED
  BY <1>2, <1>3, <1>4, PTL DEF Spec
=============================================================================
