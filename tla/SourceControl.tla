--------------------------- MODULE SourceControl ---------------------------
(***************************************************************************)
(* The Source Control panel of one project and the working copy behind it. *)
(*                                                                         *)
(* The panel (apps/web, features/git) keeps what it read in a query cache, *)
(* one entry per read, and changes the repository with calls that several  *)
(* buttons can have in flight at once.  The API (GitService) reads the     *)
(* connection row first, then waits for the project's lock, clones the     *)
(* copy if it is gone, moves it to the branch that row named, and works.   *)
(* A second person works on the same project: a proposal being applied, a  *)
(* branch switched in another browser, a colleague pushing to the remote.  *)
(*                                                                         *)
(* A branch head is the set of commits it reaches.  A file's contents are  *)
(* only "as committed" or "changed".                                       *)
(***************************************************************************)
EXTENDS Naturals, FiniteSets

CONSTANTS
  Branches,    \* names a branch can have
  Main,        \* the connection's default branch
  Paths,       \* files of the repository
  Reads,       \* the reads of the copy that the panel has open
  NoRef,       \* the head of a branch that is not there
  Nothing,     \* a cache entry with no data, a call or a request not made
  MaxCommits,  \* bound: commits ever made
  MaxCalls,    \* bound: calls the panel makes
  MaxActs      \* bound: things the second person does, or the disk loses

AllReads == {"status", "diff", "branches", "history"}

ASSUME PanelAssumption ==
  /\ Main \in Branches /\ Reads \subseteq AllReads
  /\ MaxCommits \in Nat \ {0}
  /\ \A commits \in SUBSET (1 .. MaxCommits) : commits # NoRef
  /\ \A c \in BOOLEAN : [connected |-> c] # Nothing

VARIABLES
  conn,    \* the git_repositories row: connected, provider, active branch, version
  copy,    \* the directory: here, branch, dirty files
  local,   \* heads in the copy
  origin,  \* heads at the remote
  known,   \* the copy's remote-tracking heads, as last fetched
  follows, \* branches whose upstream the copy's config names
  made,    \* commits made so far
  cache,   \* what the panel last received, per read
  request, \* the panel's request in flight, per read
  stale,   \* reads marked invalid and not answered since
  ticked,  \* files whose box is ticked
  message, \* whether a commit message is typed
  call,    \* the panel's mutation in flight, by kind
  sent,    \* calls the panel has made
  other,   \* the second person's call at the API
  unseen,  \* reads the panel has no right answer to: changed since it last asked
           \* by somebody else or by a call that was refused, or set by a push
  acts     \* things that have been done to the project from outside

server == <<conn, copy, local, origin, known, follows, made>>
panel  == <<cache, request, stale, ticked, message, call, sent>>
vars   == <<server, panel, other, unseen, acts>>

Keys == Reads \cup {"repository"}

Kinds == {"connect", "disconnect", "commit", "push", "pull", "checkout",
          "createBranch"}

CallIn(phase, arg) == [phase |-> phase, arg |-> arg, row |-> Nothing, ok |-> FALSE,
                       says |-> Nothing]

NoCall == CallIn("none", Nothing)

Providers == {"GITHUB", "GITLAB", "BITBUCKET"}

Row == [connected : BOOLEAN, provider : Providers, active : Branches, version : Nat]

-----------------------------------------------------------------------------
(* The working copy: every operation's state afterwards, as a record.       *)

Disk == [copy |-> copy, local |-> local, origin |-> origin, known |-> known,
         follows |-> follows, made |-> made]

SetDisk(d) == /\ copy' = d.copy
              /\ local' = d.local
              /\ origin' = d.origin
              /\ known' = d.known
              /\ follows' = d.follows
              /\ made' = d.made

(* A directory with no .git in it is cloned again at the default branch. *)
Ensured == IF copy.here THEN Disk
           ELSE [Disk EXCEPT
                   !.copy = [here |-> TRUE, branch |-> Main, dirty |-> {}],
                   !.local = [b \in Branches |->
                                IF b = Main THEN origin[Main] ELSE NoRef],
                   !.known = origin,
                   !.follows = {Main}]

CanCheckOut(d, b) == d.local[b] # NoRef \/ d.known[b] # NoRef

(* An existing local branch, or a new one that tracks the remote's.  Changed *)
(* files come along.                                                         *)
CheckedOut(d, b) ==
  [d EXCEPT !.copy.branch = b,
            !.local[b] = IF @ = NoRef THEN d.known[b] ELSE @,
            !.follows = IF d.local[b] = NoRef THEN @ \cup {b} ELSE @]

(* inCopy: cloned if it must be, then moved onto the branch the row named;  *)
(* nothing is touched for a provider nobody has written.                    *)
Implemented(row) == row.provider = "GITHUB"
CopyReady(row)  ==
  /\ Implemented(row)
  /\ row.active = Ensured.copy.branch \/ CanCheckOut(Ensured, row.active)
CopyFor(row) == IF row.active = Ensured.copy.branch THEN Ensured
                ELSE CheckedOut(Ensured, row.active)

Clean(d) == d.copy.dirty = {}

(* What the API answers to a read of the copy d. *)
Ahead(d, b) == IF b \in d.follows /\ d.known[b] # NoRef /\ d.local[b] # NoRef
               THEN Cardinality(d.local[b] \ d.known[b]) ELSE 0

Published == {b \in Branches : origin[b] # NoRef}

StatusOf(d) == [branch |-> d.copy.branch, ahead |-> Ahead(d, d.copy.branch),
                changes |-> d.copy.dirty]

Answer(d, k) ==
  CASE k = "repository" -> [connected |-> conn.connected]
    [] k = "status"     -> StatusOf(d)
    [] k = "diff"       -> d.copy.dirty
    [] k = "branches"   -> Published
    [] k = "history"    -> d.local[d.copy.branch]

(* What an operation on the copy d can come to: the disk it leaves and      *)
(* whether the call succeeds.                                               *)
Succeeds(d) == [disk |-> d, ok |-> TRUE]
Refused(d)  == [disk |-> d, ok |-> FALSE]

NewCommit(d, heads) ==
  {[d EXCEPT !.local[d.copy.branch] = heads \cup {d.made + 1}, !.made = @ + 1] :
     n \in {d.made} \cap (0 .. MaxCommits - 1)}

(* The files named are staged and the index is committed. *)
Commits(d, paths) ==
  IF paths \cap d.copy.dirty = {} THEN {Refused(d)}
  ELSE {Succeeds([c EXCEPT !.copy.dirty = @ \ paths]) :
          c \in NewCommit(d, d.local[d.copy.branch])}

Publish(d, b) == [d EXCEPT !.origin[b] = d.local[b], !.known[b] = d.local[b],
                           !.follows = @ \cup {b}]

(* Faulty: the push is forced. *)
ForcedPush(d, b) == {Succeeds(Publish(d, b))}

(* A push that is not a fast-forward is rejected by the remote. *)
Pushes(d, b) ==
  IF d.origin[b] = NoRef \/ d.origin[b] \subseteq d.local[b]
  THEN {Succeeds(Publish(d, b))} ELSE {Refused(d)}

(* Everything is fetched, then merged: up to date, fast-forward, a merge    *)
(* commit, or a refusal that leaves conflict markers or that a changed file *)
(* is in the way of.  What was fetched stays fetched.                       *)
Pulls(d) ==
  LET b == d.copy.branch
      theirs == d.origin[b]
      mine == d.local[b]
      fetched == [d EXCEPT !.known = d.origin, !.follows = @ \cup {b}]
      blocked == IF Clean(d) THEN {} ELSE {Refused(fetched)}
  IN  IF theirs = NoRef THEN {Refused(fetched)}
      ELSE IF theirs \subseteq mine THEN {Succeeds(fetched)}
      ELSE IF mine \subseteq theirs
           THEN {Succeeds([fetched EXCEPT !.local[b] = theirs])} \cup blocked
           ELSE {Succeeds(c) : c \in NewCommit(fetched, mine \cup theirs)}
                \cup {Refused([fetched EXCEPT !.copy.dirty = @ \cup {p}]) : p \in Paths}
                \cup blocked

(* A new branch starts at the default branch and follows nothing. *)
MakesBranch(d, b) ==
  IF Clean(d) /\ d.local[b] = NoRef
  THEN {Succeeds([d EXCEPT !.local[b] = d.local[Main], !.copy.branch = b])}
  ELSE {Refused(d)}

Switches(d, b) == IF Clean(d) /\ CanCheckOut(d, b)
                  THEN {Succeeds(CheckedOut(d, b))} ELSE {Refused(d)}

Writes(d, p) == {Succeeds([d EXCEPT !.copy.dirty = @ \cup {p}])}

(* One call's work, under the lock, on the row read before the lock. *)
Outcomes(op, arg, row) ==
  IF ~Implemented(row) THEN {Refused(Disk)}
  ELSE IF ~CopyReady(row) THEN {Refused(Ensured)}
  ELSE LET d == CopyFor(row) IN
       CASE op = "commit"       -> Commits(d, arg)
         [] op = "push"         -> Pushes(d, row.active)
         [] op = "pull"         -> Pulls(d)
         [] op = "checkout"     -> Switches(d, arg)
         [] op = "createBranch" -> MakesBranch(d, arg)
         [] op = "write"        -> Writes(d, arg)

Moves == {"checkout", "createBranch"}

-----------------------------------------------------------------------------
(* The query cache. *)

Showing == cache["repository"] # Nothing /\ cache["repository"].connected

Idle  == [phase |-> "none", data |-> Nothing]
Asked == [phase |-> "asked", data |-> Nothing]
Replies(data) == [phase |-> "answered", data |-> data]

(* The requests in flight once keys have been invalidated and the panel is  *)
(* up or not.  invalidateQueries asks again for what is shown, and an       *)
(* answer on its way is dropped.  A panel put up asks for what it has no    *)
(* data of or what is marked; one taken down aborts what it waited for.     *)
Unread == {k \in Reads : cache[k] = Nothing \/ k \in stale}

Requests(req, keys, up) ==
  LET asked == IF up /\ ~Showing THEN keys \cup Unread ELSE keys
  IN  [k \in Keys |-> IF k \in Reads /\ ~up THEN Idle
                      ELSE IF k \in asked THEN Asked ELSE req[k]]

(* The commit form is the panel's own and goes with it. *)
FormOf(up) == IF up THEN UNCHANGED <<ticked, message>>
              ELSE ticked' = {} /\ message' = FALSE

(* Faulty: the status is refreshed and the history forgotten. *)
StatusOnly == Keys \ {"history"}

(* invalidateWorkingCopy: one key above all the reads of the copy. *)
WorkingCopyKeys == Keys

(* The panel is opened on a project with no repository, or on one that is   *)
(* connected and was cloned earlier, with whatever files had been written.  *)
Init ==
  /\ conn \in [connected : BOOLEAN, provider : {"GITHUB"}, active : {Main},
               version : {0}]
  /\ copy \in [here : {conn.connected}, branch : {Main},
               dirty : IF conn.connected THEN SUBSET Paths ELSE {{}}]
  /\ origin = [b \in Branches |-> IF b = Main THEN {1} ELSE NoRef]
  /\ local = [b \in Branches |-> IF copy.here THEN origin[b] ELSE NoRef]
  /\ known = local
  /\ follows = IF copy.here THEN {Main} ELSE {}
  /\ made = 1
  /\ cache = [k \in Keys |-> Nothing]
  /\ request = [k \in Keys |-> IF k = "repository" THEN Asked ELSE Idle]
  /\ stale = {}
  /\ ticked = {}
  /\ message = FALSE
  /\ call = [m \in Kinds |-> NoCall]
  /\ sent = 0
  /\ other = Nothing
  /\ unseen = {}
  /\ acts = 0

(* The API runs a read under the project's lock.  It too clones the copy    *)
(* and moves it; without a connection it answers that there is none.        *)
ReadRuns(k) ==
  /\ request[k] = Asked
  /\ IF k = "repository"
     THEN /\ request' = [request EXCEPT ![k] = Replies(Answer(Disk, k))]
          /\ UNCHANGED server
     ELSE IF k = "branches" /\ conn.connected /\ Implemented(conn)
     THEN /\ request' = [request EXCEPT ![k] = Replies(Answer(Disk, k))]
          /\ UNCHANGED server
     ELSE IF conn.connected /\ CopyReady(conn)
     THEN /\ SetDisk(CopyFor(conn))
          /\ request' = [request EXCEPT ![k] = Replies(Answer(CopyFor(conn), k))]
          /\ UNCHANGED conn
     ELSE /\ request' = [request EXCEPT ![k] = [phase |-> "refused", data |-> Nothing]]
          /\ IF conn.connected /\ Implemented(conn)
             THEN SetDisk(Ensured) /\ UNCHANGED conn
             ELSE UNCHANGED server
  /\ unseen' = IF request'[k].phase = "answered" THEN unseen \ {k} ELSE unseen \cup {k}
  /\ UNCHANGED <<cache, stale, ticked, message, call, sent, other, acts>>

(* The answer reaches the cache.  The repository's puts the panel up or      *)
(* takes it down.                                                           *)
ReadArrives(k) ==
  /\ request[k].phase \in {"answered", "refused"}
  /\ IF request[k].phase = "refused"
     THEN /\ request' = [request EXCEPT ![k] = Idle]
          /\ UNCHANGED <<cache, stale, ticked, message>>
     ELSE LET up == IF k = "repository" THEN request[k].data.connected ELSE Showing
          IN  /\ cache' = [cache EXCEPT ![k] = request[k].data]
              /\ request' = Requests([request EXCEPT ![k] = Idle], {}, up)
              /\ stale' = stale \ {k}
              /\ FormOf(up)
  /\ UNCHANGED <<server, call, sent, other, unseen, acts>>

(* The Retry button beside the branch: disabled while the status is being   *)
(* fetched.                                                                 *)
Retry ==
  /\ Showing /\ "status" \in Reads
  /\ request["status"] = Idle
  /\ sent < MaxCalls
  /\ request' = [request EXCEPT !["status"] = Asked]
  /\ UNCHANGED <<server, cache, stale, ticked, message, call, sent, other,
                 unseen, acts>>

-----------------------------------------------------------------------------
(* The panel's controls. *)

Changes == IF "status" \in Reads /\ cache["status"] # Nothing
           THEN cache["status"].changes ELSE {}

ShownBranch == IF "status" \in Reads /\ cache["status"] # Nothing
               THEN cache["status"].branch ELSE Main

CanPush == /\ Showing /\ call["push"] = NoCall
           /\ "status" \in Reads /\ cache["status"] # Nothing
           /\ cache["status"].ahead > 0

Tick(p) ==
  /\ Showing /\ p \in Changes
  /\ ticked' = IF p \in ticked THEN ticked \ {p} ELSE ticked \cup {p}
  /\ UNCHANGED <<server, cache, request, stale, message, call, sent, other,
                 unseen, acts>>

TypeMessage ==
  /\ Showing /\ ~message
  /\ message' = TRUE
  /\ UNCHANGED <<server, cache, request, stale, ticked, call, sent, other,
                 unseen, acts>>

Send(kind, arg) ==
  /\ sent < MaxCalls
  /\ sent' = sent + 1
  /\ call' = [call EXCEPT ![kind] = CallIn("sent", arg)]
  /\ UNCHANGED <<server, cache, request, stale, ticked, message, other,
                 unseen, acts>>

(* The form offers the three providers, of which one is implemented. *)
SubmitConnection(provider) ==
  /\ cache["repository"] # Nothing /\ ~Showing
  /\ call["connect"] = NoCall
  /\ Send("connect", provider)

ConfirmDisconnect == /\ Showing /\ call["disconnect"] = NoCall
                     /\ Send("disconnect", Nothing)

SubmitCommit == /\ Showing /\ message /\ ticked # {}
                /\ call["commit"] = NoCall
                /\ Send("commit", ticked)

ClickPush == CanPush /\ Send("push", Nothing)

ClickPull == Showing /\ call["pull"] = NoCall /\ Send("pull", Nothing)

(* The branch select is never disabled; its choices are the remote's. *)
PickBranch(b) ==
  /\ Showing /\ b # ShownBranch /\ call["checkout"] = NoCall
  /\ b \in IF "branches" \in Reads
           THEN (IF cache["branches"] = Nothing THEN {} ELSE cache["branches"])
           ELSE Published
  /\ Send("checkout", b)

SubmitBranch(b) == /\ Showing /\ call["createBranch"] = NoCall
                   /\ Send("createBranch", b)

-----------------------------------------------------------------------------
(* The API handles the panel's calls. *)

Answered(kind, ok) ==
  call' = [call EXCEPT ![kind].phase = "answered", ![kind].ok = ok]

(* require: the row is read before the lock is waited for. *)
Begin(kind) ==
  /\ call[kind].phase = "sent"
  /\ kind \notin {"connect", "disconnect"}
  /\ IF conn.connected
     THEN call' = [call EXCEPT ![kind].phase = "begun", ![kind].row = conn]
     ELSE Answered(kind, FALSE)
  /\ UNCHANGED <<server, cache, request, stale, ticked, message, sent, other,
                 unseen, acts>>

(* checkout and createBranch also move the row, but their transaction       *)
(* commits only after the lock is released.                                 *)
RunCall(kind) ==
  /\ call[kind].phase = "begun"
  /\ \E o \in Outcomes(kind, call[kind].arg, call[kind].row) :
       /\ SetDisk(o.disk)
       /\ call' = [call EXCEPT
                     ![kind].phase = IF o.ok /\ kind \in Moves THEN "ran" ELSE "answered",
                     ![kind].ok = o.ok,
                     ![kind].says = IF o.ok /\ kind = "push" THEN StatusOf(o.disk) ELSE Nothing]
       /\ unseen' = IF o.ok THEN unseen ELSE Reads
  /\ UNCHANGED <<conn, cache, request, stale, ticked, message, sent, other, acts>>

(* The row's version decides between two moves that overlapped. *)
RowMoves(row, b) ==
  IF conn = row THEN conn' = [conn EXCEPT !.active = b, !.version = @ + 1]
  ELSE UNCHANGED conn

CommitRow(kind) ==
  /\ call[kind].phase = "ran"
  /\ RowMoves(call[kind].row, call[kind].arg)
  /\ Answered(kind, conn = call[kind].row)
  /\ unseen' = IF conn = call[kind].row THEN unseen ELSE Reads
  /\ UNCHANGED <<copy, local, origin, known, follows, made, cache, request,
                 stale, ticked, message, sent, other, acts>>

(* connect and disconnect take no lock: the row, and the copy evicted. *)
Connect ==
  /\ call["connect"].phase = "sent"
  /\ conn' = [connected |-> TRUE, provider |-> call["connect"].arg, active |-> Main,
             version |-> conn.version + 1]
  /\ copy' = [here |-> FALSE, branch |-> Main, dirty |-> {}]
  /\ Answered("connect", TRUE)
  /\ UNCHANGED <<local, origin, known, follows, made, cache, request, stale,
                 ticked, message, sent, other, unseen, acts>>

Disconnect ==
  /\ call["disconnect"].phase = "sent"
  /\ conn' = [conn EXCEPT !.connected = FALSE, !.active = Main, !.version = @ + 1]
  /\ copy' = [here |-> FALSE, branch |-> Main, dirty |-> {}]
  /\ Answered("disconnect", conn.connected)
  /\ UNCHANGED <<local, origin, known, follows, made, cache, request, stale,
                 ticked, message, sent, other, unseen, acts>>

-----------------------------------------------------------------------------
(* The answer of a call reaches the panel.  push puts the status it carries *)
(* into the cache, whatever has been read since it was taken.               *)

Refreshes(kind) ==
  IF kind \in {"commit", "pull", "checkout", "createBranch", "connect",
               "disconnect"}
  THEN WorkingCopyKeys ELSE {}

Says(kind) ==
  CASE kind = "connect" -> [cache EXCEPT !["repository"] = [connected |-> TRUE]]
    [] kind = "disconnect" -> [cache EXCEPT !["repository"] = [connected |-> FALSE]]
    [] kind = "push" /\ "status" \in Reads ->
         [cache EXCEPT !["status"] = call["push"].says]
    [] OTHER -> cache

CallAnswered(kind) ==
  /\ call[kind].phase = "answered"
  /\ call' = [call EXCEPT ![kind] = NoCall]
  /\ IF ~call[kind].ok THEN UNCHANGED <<cache, request, stale, ticked, message>>
     ELSE LET up == (Showing \/ kind = "connect") /\ kind # "disconnect"
          IN  /\ cache' = Says(kind)
              /\ request' = Requests(request, Refreshes(kind), up)
              /\ stale' = IF kind = "push" THEN stale \ {"status"}
                          ELSE stale \cup Refreshes(kind)
              /\ FormOf(up /\ kind # "commit")
  /\ unseen' = IF kind = "push" THEN unseen \cup {"status"} ELSE unseen
  /\ UNCHANGED <<server, sent, other, acts>>

-----------------------------------------------------------------------------
(* Everybody else. *)

(* A proposal applied (files written, then committed, then perhaps pushed)  *)
(* or a branch switched from another browser.                               *)
OtherBegins(op, arg) ==
  /\ other = Nothing /\ conn.connected
  /\ acts < MaxActs
  /\ acts' = acts + 1
  /\ other' = [op |-> op, arg |-> arg, row |-> conn, phase |-> "begun"]
  /\ UNCHANGED <<server, panel, unseen>>

OtherRuns ==
  /\ other # Nothing /\ other.phase = "begun"
  /\ \E o \in Outcomes(other.op, other.arg, other.row) :
       /\ SetDisk(o.disk)
       /\ other' = IF o.ok /\ other.op \in Moves
                   THEN [other EXCEPT !.phase = "ran"] ELSE Nothing
  /\ unseen' = Reads
  /\ UNCHANGED <<conn, panel, acts>>

OtherCommitsRow ==
  /\ other # Nothing /\ other.phase = "ran"
  /\ RowMoves(other.row, other.arg)
  /\ other' = Nothing
  /\ unseen' = Reads
  /\ UNCHANGED <<copy, local, origin, known, follows, made, panel, acts>>

(* A colleague pushes from a clone of their own, a new branch perhaps. *)
ColleaguePushes(b) ==
  /\ acts < MaxActs /\ made < MaxCommits
  /\ acts' = acts + 1
  /\ made' = made + 1
  /\ origin' = [origin EXCEPT ![b] = (IF @ = NoRef THEN origin[Main] ELSE @) \cup {made + 1}]
  /\ unseen' = Reads
  /\ UNCHANGED <<conn, copy, local, known, follows, panel, other>>

(* The copy is a cache: the disk it is on can be emptied. *)
CopyLost ==
  /\ copy.here
  /\ acts < MaxActs
  /\ acts' = acts + 1
  /\ copy' = [here |-> FALSE, branch |-> Main, dirty |-> {}]
  /\ unseen' = Reads
  /\ UNCHANGED <<conn, local, origin, known, follows, made, panel, other>>

Next ==
  \/ \E k \in Keys : ReadRuns(k) \/ ReadArrives(k)
  \/ Retry
  \/ \E p \in Paths : Tick(p)
  \/ TypeMessage
  \/ \E p \in Providers : SubmitConnection(p)
  \/ ConfirmDisconnect
  \/ SubmitCommit \/ ClickPush \/ ClickPull
  \/ \E b \in Branches : PickBranch(b) \/ SubmitBranch(b)
  \/ \E kind \in Kinds : Begin(kind) \/ RunCall(kind) \/ CommitRow(kind)
                         \/ CallAnswered(kind)
  \/ Connect \/ Disconnect
  \/ \E p \in Paths : OtherBegins("write", p) \/ OtherBegins("commit", {p})
  \/ \E b \in Branches : OtherBegins("checkout", b)
  \/ OtherBegins("push", Nothing)
  \/ OtherRuns \/ OtherCommitsRow
  \/ \E b \in Branches : ColleaguePushes(b)
  \/ CopyLost

Spec == Init /\ [][Next]_vars

-----------------------------------------------------------------------------
(* Properties. *)

Heads == [Branches -> (SUBSET (1 .. MaxCommits)) \cup {NoRef}]

(* Every variable has its type: the row is one the entity can hold, a call  *)
(* is in one of its phases, and the branch the copy is on exists.           *)
TypeOK ==
  /\ conn \in Row
  /\ copy \in [here : BOOLEAN, branch : Branches, dirty : SUBSET Paths]
  /\ local \in Heads /\ origin \in Heads /\ known \in Heads
  /\ copy.here => local[copy.branch] # NoRef
  /\ follows \subseteq Branches
  /\ made \in 1 .. MaxCommits
  /\ DOMAIN cache = Keys /\ DOMAIN request = Keys
  /\ stale \subseteq Keys /\ ticked \subseteq Paths /\ message \in BOOLEAN
  /\ \A m \in Kinds : call[m].phase \in {"none", "sent", "begun", "ran", "answered"}
  /\ unseen \subseteq Keys

Quiet(k) == /\ request[k] = Idle
            /\ \A m \in Kinds : call[m] = NoCall
            /\ other = Nothing

(* What the API would answer now: the copy is moved before it is read. *)
Agrees(k) ==
  LET now == Answer(CopyFor(conn), k)
  IN  IF k = "status" THEN /\ cache[k].branch = now.branch
                           /\ cache[k].changes = now.changes
      ELSE cache[k] = now

(* invalidateWorkingCopy (git.ts:204-212) says why it refreshes everything  *)
(* at once: a read left behind makes the panel contradict itself.  Once     *)
(* everything in flight has arrived, what the panel shows of the copy is    *)
(* what the API would answer now, unless somebody else, or a refused call,  *)
(* changed it since the panel last asked.                                   *)
PanelAgrees ==
  \A k \in Reads :
    (Showing /\ conn.connected /\ CopyReady(conn) /\ Quiet(k) /\ k \notin unseen /\ cache[k] # Nothing)
      => Agrees(k)

(* GithubGitProvider.push (245-320) never forces: no step takes a commit    *)
(* away from a branch of the remote, whoever pushed it and whatever the     *)
(* copy has gone through.                                                   *)
RemoteOnlyGrows ==
  [][\A b \in Branches : origin[b] # NoRef => /\ origin'[b] # NoRef
                                              /\ origin[b] \subseteq origin'[b]]_vars

Unshared(d) ==
  d.local[d.copy.branch] \ UNION {d.origin[b] : b \in Published} # {}

(* The product's path ends "the user commits and pushes to Git"             *)
(* (docs/architecture/00-product.md:50).  When the panel is at rest and     *)
(* shows the truth, commits the remote does not have can be pushed.         *)
CommitsCanBePushed ==
  LET d == CopyFor(conn) IN
  (/\ Showing /\ conn.connected /\ CopyReady(conn)
   /\ \A k \in Keys : Quiet(k)
   /\ "status" \in Reads \ unseen /\ cache["status"] = StatusOf(d)
   /\ Unshared(d))
    => CanPush

(* The working copy is a cache: it "can be deleted at any time and          *)
(* re-cloned" (docs/architecture/07-git.md:47).                             *)
CopyCanBeRebuilt == (conn.connected /\ Implemented(conn)) => CopyReady(conn)

(* A checkout "that carried someone's uncommitted edits onto another branch *)
(* is a surprise, not a feature" (GitService.java:290-292): the copy never  *)
(* changes branch under changed files.                                      *)
EditsStayOnTheirBranch ==
  [][(copy.here /\ copy'.here /\ copy'.branch # copy.branch)
       => copy.dirty = {}]_vars
=============================================================================
