----------------------------- MODULE WebSession -----------------------------
(***************************************************************************)
(* The signed-in session of the web application, and the part of the API   *)
(* that keeps refresh tokens: lib/api/client.ts and lib/api/session.ts     *)
(* (the transport and the copy of the session each tab holds),             *)
(* features/auth (signing in and out, the route guard, the watchdog),      *)
(* RefreshTokenService and AuthService.                                    *)
(*                                                                         *)
(* A pair is an access token and the refresh token issued with it; it is   *)
(* named by the number of its issue.  A tab holds a copy of the session in *)
(* memory (mem), its browser one in local storage (stored); an event tells *)
(* the other tabs of a browser that storage changed, some time later.      *)
(*                                                                         *)
(* What microtasks run back to back is one step: a promise that settles,   *)
(* the calls that waited for it, the re-render and the guard's effect.     *)
(* An API operation is one transaction, so one step; sending, answering    *)
(* and hearing the answer are three.                                       *)
(***************************************************************************)
EXTENDS Naturals, FiniteSets

CONSTANTS
  Tabs, Browsers, Accounts, Calls,
  NoTab, NoAccount,
  BrowserOf,    \* the browser each tab runs in
  Kinds,        \* the calls the tabs make, of AllKinds
  MaxPairs,     \* bound: pairs the API issues
  MaxCalls,     \* bound: calls the pages make
  MaxEvents     \* bound: tokens that run out, answers lost, pages loaded

AllKinds == {"login", "read", "stream", "rename", "logout", "change", "revoke"}

ASSUME SessionAssumption ==
  /\ BrowserOf \in [Tabs -> Browsers]
  /\ Kinds \subseteq AllKinds
  /\ NoTab \notin Tabs /\ NoAccount \notin Accounts
  /\ MaxPairs \in Nat \ {0} /\ MaxCalls \in Nat /\ MaxEvents \in Nat
  /\ Calls \subseteq Nat

VARIABLES
  issued,       \* how many pairs the API has issued
  owner,        \* per pair, the account it was issued to
  origin,       \* per pair, the operation that issued it
  retired,      \* per pair, what revoked its refresh token ("no": still live)
  due,          \* pairs whose access token the browser takes for spent
  dead,         \* pairs whose access token the API refuses
  over,         \* pairs whose refresh token is past its expiry
  stored,       \* per browser, the session in local storage
  mem,          \* per tab, the session in memory
  told,         \* tabs with a storage event to handle
  screen,       \* per tab, "shell" or "sign-in"
  cache,        \* per tab, the accounts whose data the query cache holds
  exchanges,    \* refreshes in flight
  calls,        \* the calls in flight
  started, events,   \* what the bounds count
  presented,    \* history: what each refresh presented, and to what end
  unheard,      \* history: refresh tokens exchanged for an answer nobody heard
  putBack       \* history: retired tokens a tab wrote back to storage

server == <<issued, owner, origin, retired>>
clocks == <<due, dead, over>>
tabs   == <<stored, mem, told, screen, cache>>
ghosts == <<presented, unheard, putBack>>
vars   == <<server, clocks, tabs, exchanges, calls, started, events, ghosts>>

Pairs     == 1..MaxPairs
SignedOut == [pair |-> 0, user |-> NoAccount]
Sessions  == {SignedOut} \cup [pair : Pairs, user : Accounts]
IdleCall  == [at |-> "idle", kind |-> "read", tab |-> NoTab, pair |-> 0,
              refresh |-> 0, retried |-> FALSE, subject |-> NoAccount]

Happens == events < MaxEvents /\ events' = events + 1

Init ==
  /\ issued = 0
  /\ owner = [k \in Pairs |-> NoAccount] /\ origin = [k \in Pairs |-> "none"]
  /\ retired = [k \in Pairs |-> "no"]
  /\ due = {} /\ dead = {} /\ over = {}
  /\ stored = [b \in Browsers |-> SignedOut] /\ mem = [t \in Tabs |-> SignedOut]
  /\ told = {}
  /\ screen = [t \in Tabs |-> "sign-in"]
  /\ cache = [t \in Tabs |-> {}]
  /\ exchanges = {} /\ calls = [c \in Calls |-> IdleCall]
  /\ started = 0 /\ events = 0
  /\ presented = {} /\ unheard = {} /\ putBack = {}

---------------------------------------------------------------------------
(* The tab: session.ts, and the guard that watches it.                     *)

SignedIn(t) == mem[t] # SignedOut
AccessExpired(t)  == mem[t].pair \in due \cup over
RefreshExpired(t) == mem[t].pair \in over

Others(t) == {u \in Tabs \ {t} : BrowserOf[u] = BrowserOf[t]}

\* What dropping the query cache does to the calls in flight: a query is
\* aborted, a mutation or the chat stream is not.
(* Faulty: the queries in flight are left to finish. *)
CancelsNothing(cs, t) == cs
Cancelled(cs, t) ==
  [c \in Calls |-> IF cs[c].tab = t /\ cs[c].kind = "read" THEN IdleCall ELSE cs[c]]

\* setSession, or endSession: memory, storage, the event the other tabs get.
\* A tab of the shell left without a session is sent to the sign-in page by
\* the guard, which drops the cache.
SessionSet(t, s, cs) ==
  LET leaves == s = SignedOut /\ screen[t] = "shell" IN
  /\ mem' = [mem EXCEPT ![t] = s]
  /\ stored' = [stored EXCEPT ![BrowserOf[t]] = s]
  /\ told' = told \cup (IF stored[BrowserOf[t]] # s THEN Others(t) ELSE {})
  /\ screen' = [screen EXCEPT ![t] = IF leaves THEN "sign-in" ELSE @]
  /\ cache' = [cache EXCEPT ![t] = IF leaves THEN {} ELSE @]
  /\ calls' = IF leaves THEN Cancelled(cs, t) ELSE cs

SessionKept(cs) == UNCHANGED tabs /\ calls' = cs

\* The storage event, handled when the tab gets to it: it reads what storage
\* holds by then, and compares access tokens.
HearStorage(t) ==
  LET s == stored[BrowserOf[t]]
      leaves == s = SignedOut /\ screen[t] = "shell"
  IN
  /\ t \in told
  /\ told' = told \ {t}
  /\ IF s.pair = mem[t].pair
     THEN UNCHANGED <<mem, screen, cache, calls>>
     ELSE /\ mem' = [mem EXCEPT ![t] = s]
          /\ screen' = [screen EXCEPT ![t] = IF leaves THEN "sign-in" ELSE @]
          /\ cache' = [cache EXCEPT ![t] = IF leaves THEN {} ELSE @]
          /\ calls' = IF leaves THEN Cancelled(calls, t) ELSE calls
  /\ UNCHANGED <<server, clocks, stored, exchanges, started, events, ghosts>>

\* The watchdog of the shell: its timer, or the tab being looked at again.
Watchdog(t) ==
  /\ screen[t] = "shell" /\ SignedIn(t) /\ RefreshExpired(t)
  /\ SessionSet(t, SignedOut, calls)
  /\ UNCHANGED <<server, clocks, exchanges, started, events, ghosts>>

\* A page of the shell is loaded: what was in flight is not heard any more,
\* and the session is read from storage.
Reload(t) ==
  LET s == stored[BrowserOf[t]] IN
  /\ Happens
  /\ mem' = [mem EXCEPT ![t] = s] /\ told' = told \ {t}
  /\ screen' = [screen EXCEPT ![t] = IF s = SignedOut THEN "sign-in" ELSE "shell"]
  /\ cache' = [cache EXCEPT ![t] = {}]
  /\ calls' = [c \in Calls |-> IF calls[c].tab = t THEN IdleCall ELSE calls[c]]
  /\ exchanges' = {e \in exchanges : e.tab # t}
  /\ unheard' = unheard \cup {e.refresh : e \in {x \in exchanges : x.tab = t}}
  /\ UNCHANGED <<server, clocks, stored, started, presented, putBack>>

---------------------------------------------------------------------------
(* The transport: client.ts.                                               *)

\* The refresh of a tab is single-flight: a caller joins the one in flight.
(* Faulty: every caller starts its own. *)
JoinsNothing(t) == {}
InFlight(t) == {e \in exchanges : e.tab = t}

Exchanging(t) ==
  IF InFlight(t) # {} THEN exchanges
  ELSE exchanges \cup {[tab |-> t, refresh |-> mem[t].pair, at |-> "sent", pair |-> 0]}

\* A call leaves with the access token the tab holds, or with none.
Sent(call, s) == [call EXCEPT !.at = "sent", !.pair = s.pair]

\* ensureFreshSession, then the call.  The stream is not sent without a token
\* it had when it started.
Leaves(c, call) ==
  LET t == call.tab IN
  IF SignedIn(t) /\ AccessExpired(t)
  THEN IF RefreshExpired(t)
       THEN /\ SessionSet(t, SignedOut,
                 [calls EXCEPT ![c] = IF call.kind = "stream" THEN IdleCall
                                      ELSE Sent(call, SignedOut)])
            /\ UNCHANGED exchanges
       ELSE /\ exchanges' = Exchanging(t)
            /\ SessionKept([calls EXCEPT ![c] = [call EXCEPT !.at = "waiting"]])
  ELSE SessionKept([calls EXCEPT ![c] = Sent(call, mem[t])]) /\ UNCHANGED exchanges

\* A control of the page makes a call: the sign-in form, a query, the chat,
\* the profile, the account menu, the security settings.  A button is disabled
\* while its own call is pending.
Start(c, call) ==
  LET t == call.tab IN
  /\ call.kind \in Kinds
  /\ calls[c] = IdleCall /\ \A d \in Calls : d < c => calls[d] # IdleCall
  /\ started < MaxCalls /\ started' = started + 1
  /\ IF call.kind = "login" THEN screen[t] = "sign-in"
     ELSE screen[t] = "shell" /\ SignedIn(t)
  /\ call.kind # "read" => \A d \in Calls : calls[d].tab = t => calls[d].kind # call.kind
  /\ Leaves(c, call)
  /\ UNCHANGED <<server, clocks, events, ghosts>>

NewCall(t, kind) == [IdleCall EXCEPT !.kind = kind, !.tab = t]

SignIn(t, c, a) == Start(c, [NewCall(t, "login") EXCEPT !.subject = a])
Load(t, c)      == Start(c, NewCall(t, "read"))
Chat(t, c)      == Start(c, NewCall(t, "stream"))
Rename(t, c)    == Start(c, NewCall(t, "rename"))
ChangePassword(t, c) == Start(c, NewCall(t, "change"))
\* The refresh token to revoke is read before the call is prepared.
SignOut(t, c)   == Start(c, [NewCall(t, "logout") EXCEPT !.refresh = mem[t].pair])
\* Sign out on the row of another device; a row is a live refresh token.
RevokeDevice(t, c, k) ==
  /\ SignedIn(t) /\ k # mem[t].pair
  /\ owner[k] = owner[mem[t].pair] /\ retired[k] = "no" /\ k \notin over
  /\ Start(c, [NewCall(t, "revoke") EXCEPT !.refresh = k])

\* The calls that waited for the tab's refresh, told whether it succeeded and
\* what session there is now.
(* Faulty: a refresh that fails resolves nobody. *)
ResumedIfRenewed(cs, t, ok, s) ==
  [c \in Calls |-> IF cs[c].tab = t /\ cs[c].at \in {"waiting", "renewing"} /\ ok
                   THEN Sent([cs[c] EXCEPT !.retried = cs[c].at = "renewing"], s)
                   ELSE cs[c]]
Resumed(cs, t, ok, s) ==
  [c \in Calls |->
     CASE cs[c].tab = t /\ cs[c].at = "renewing" ->
            IF ok THEN Sent([cs[c] EXCEPT !.retried = TRUE], s) ELSE IdleCall
       [] cs[c].tab = t /\ cs[c].at = "waiting" ->
            IF ~ok /\ cs[c].kind = "stream" THEN IdleCall ELSE Sent(cs[c], s)
       [] OTHER -> cs[c]]

\* exchangeRefreshToken hears its answer; any failure ends the session.
Settle(e) ==
  LET t == e.tab
      s == IF e.at = "granted" THEN [pair |-> e.pair, user |-> owner[e.pair]]
           ELSE SignedOut
  IN
  /\ e \in exchanges /\ e.at # "sent"
  /\ exchanges' = exchanges \ {e}
  /\ SessionSet(t, s, Resumed(calls, t, e.at = "granted", s))
  /\ unheard' = unheard \cup (IF e.at = "lost" THEN {e.refresh} ELSE {})
  /\ UNCHANGED <<server, clocks, started, events, presented, putBack>>

\* The response interceptor, and the stream's copy of it: a token the API
\* refused is exchanged, once, and the call repeated.
Retriable(call) == call.pair # 0 /\ ~call.retried /\ SignedIn(call.tab)

\* A page does nothing with a call that failed, except that signing out
\* forgets the session however its call ends.
Fails(call, rest) ==
  IF call.kind = "logout" THEN SessionSet(call.tab, SignedOut, rest) ELSE SessionKept(rest)

HearRefusal(c) ==
  LET call == calls[c] IN
  /\ call.at = "refused"
  /\ IF ~Retriable(call)
     THEN Fails(call, [calls EXCEPT ![c] = IdleCall]) /\ UNCHANGED exchanges
     ELSE IF call.kind = "stream" /\ RefreshExpired(call.tab)
     THEN /\ SessionSet(call.tab, SignedOut, [calls EXCEPT ![c] = IdleCall])
          /\ UNCHANGED exchanges
     ELSE /\ exchanges' = Exchanging(call.tab)
          /\ SessionKept([calls EXCEPT ![c].at = "renewing"])
  /\ UNCHANGED <<server, clocks, started, events, ghosts>>

---------------------------------------------------------------------------
(* The API: AuthService, RefreshTokenService.                              *)

Owned(a) == {k \in 1..issued : owner[k] = a}

\* revokeAllForUser: the pairs of the account that are still live.
AllRevoked(a, why) ==
  [k \in Pairs |-> IF k \in Owned(a) /\ retired[k] = "no" THEN why ELSE retired[k]]

Issue(a, how, revoked) ==
  /\ issued < MaxPairs
  /\ issued' = issued + 1
  /\ owner' = [owner EXCEPT ![issued + 1] = a]
  /\ origin' = [origin EXCEPT ![issued + 1] = how]
  /\ retired' = revoked

\* rotate: a live token is exchanged; a retired one is a replay and signs the
\* account out everywhere; an expired one is refused.
Rotate(e) ==
  LET k == e.refresh
      replay == retired[k] # "no"
      granted == ~replay /\ k \notin over
      end == IF replay THEN "replay" ELSE IF granted THEN "exchanged" ELSE "expired"
      answer == [e EXCEPT !.at = IF granted THEN "granted" ELSE "refused",
                          !.pair = IF granted THEN issued + 1 ELSE 0]
  IN
  /\ e \in exchanges /\ e.at = "sent"
  /\ IF granted THEN Issue(owner[k], "refresh", [retired EXCEPT ![k] = "rotated"])
     ELSE /\ retired' = IF replay THEN AllRevoked(owner[k], "replay") ELSE retired
          /\ UNCHANGED <<issued, owner, origin>>
  /\ exchanges' = (exchanges \ {e}) \cup {answer}
  /\ presented' = presented \cup {[tab |-> e.tab, refresh |-> k, end |-> end]}
  /\ UNCHANGED <<clocks, tabs, calls, started, events, unheard, putBack>>

\* A refresh the API never sees, or whose answer the network loses.  When no
\* pair is left to issue every refresh ends this way.
LoseExchange(e) ==
  /\ e \in exchanges /\ e.at \in {"sent", "granted"}
  /\ \/ Happens
     \/ issued = MaxPairs /\ e.at = "sent" /\ UNCHANGED events
  /\ exchanges' = (exchanges \ {e}) \cup {[e EXCEPT !.at = "lost", !.pair = 0]}
  /\ UNCHANGED <<server, clocks, tabs, calls, started, ghosts>>

\* Signing in is public; the rest, signing out too, needs an access token that
\* verifies.  A failure of the business rule ends the call like an answer.
(* Faulty: everything under /auth is open. *)
AllOfAuth(kind) == kind \in {"login", "logout", "change", "rename", "revoke"}
Public(kind) == kind = "login"
Verified(call) == call.pair # 0 /\ call.pair \notin dead \cup over

Serve(c) ==
  LET call == calls[c]
      ok == Public(call.kind) \/ Verified(call)
      answered == [call EXCEPT !.at = IF ok THEN "answered" ELSE "refused",
                               !.refresh = IF ok /\ call.kind \in {"login", "change"}
                                           THEN issued + 1 ELSE @]
      acct == IF call.kind = "login" \/ call.pair = 0 THEN call.subject
              ELSE owner[call.pair]
      revokes == call.kind \in {"logout", "revoke"} /\ call.refresh # 0
  IN
  /\ call.at = "sent"
  /\ calls' = [calls EXCEPT ![c] = answered]
  /\ IF ok /\ call.kind \in {"login", "change"}
     THEN Issue(acct, call.kind, IF call.kind = "change" THEN AllRevoked(acct, "change")
                                 ELSE retired)
     ELSE /\ retired' = IF ok /\ revokes /\ retired[call.refresh] = "no"
                        THEN [retired EXCEPT ![call.refresh] = call.kind] ELSE retired
          /\ UNCHANGED <<issued, owner, origin>>
  /\ UNCHANGED <<clocks, tabs, exchanges, started, events, ghosts>>

\* The call fails for another reason: the network, a validation, no pair left.
Fail(c) ==
  LET call == calls[c] IN
  /\ call.at \in {"sent", "answered"}
  /\ \/ Happens
     \/ issued = MaxPairs /\ call.at = "sent" /\ UNCHANGED events
  /\ Fails(call, [calls EXCEPT ![c] = IdleCall])
  /\ UNCHANGED <<server, clocks, exchanges, started, ghosts>>

\* What the page does with an answer (features/auth/api/auth.ts).
Hear(c) ==
  LET call == calls[c]
      t == call.tab
      rest == [calls EXCEPT ![c] = IdleCall]
      new == [pair |-> call.refresh, user |-> owner[call.refresh]]
      renamed == [pair |-> mem[t].pair, user |-> owner[call.pair]]
  IN
  /\ call.at = "answered"
  /\ CASE call.kind = "login" ->
            /\ mem' = [mem EXCEPT ![t] = new]
            /\ stored' = [stored EXCEPT ![BrowserOf[t]] = new]
            /\ told' = told \cup Others(t)
            /\ screen' = [screen EXCEPT ![t] = "shell"]
            /\ cache' = [cache EXCEPT ![t] = {}]
            /\ calls' = Cancelled(rest, t)
       [] call.kind = "change" -> SessionSet(t, new, rest)
       [] call.kind = "logout" -> SessionSet(t, SignedOut, rest)
       [] call.kind = "rename" /\ SignedIn(t) -> SessionSet(t, renamed, rest)
       [] call.kind = "read" ->
            /\ cache' = [cache EXCEPT ![t] = @ \cup {owner[call.pair]}]
            /\ calls' = rest
            /\ UNCHANGED <<stored, mem, told, screen>>
       [] OTHER -> SessionKept(rest)
  /\ putBack' = putBack \cup
       (IF call.kind = "rename" /\ SignedIn(t) /\ retired[mem[t].pair] # "no"
        THEN {mem[t].pair} ELSE {})
  /\ UNCHANGED <<server, clocks, exchanges, started, events, presented, unheard>>

---------------------------------------------------------------------------
(* Time passes.  The browser gives an access token up half a minute before *)
(* its expiry; the clocks of the two sides need not agree.                 *)

AccessFallsDue == \E k \in 1..issued : k \notin due /\ due' = due \cup {k} /\ UNCHANGED <<dead, over>>
AccessDies     == \E k \in 1..issued : k \notin dead /\ dead' = dead \cup {k} /\ UNCHANGED <<due, over>>
RefreshPasses  == \E k \in 1..issued : k \notin over /\ over' = over \cup {k} /\ UNCHANGED <<due, dead>>

TimePasses ==
  /\ Happens
  /\ AccessFallsDue \/ AccessDies \/ RefreshPasses
  /\ UNCHANGED <<server, tabs, exchanges, calls, started, ghosts>>

Next ==
  \/ \E t \in Tabs, c \in Calls :
       \/ \E a \in Accounts : SignIn(t, c, a)
       \/ Load(t, c) \/ Chat(t, c) \/ Rename(t, c) \/ ChangePassword(t, c)
       \/ SignOut(t, c)
       \/ \E k \in 1..issued : RevokeDevice(t, c, k)
  \/ \E c \in Calls : Serve(c) \/ Fail(c) \/ Hear(c) \/ HearRefusal(c)
  \/ \E e \in exchanges : Rotate(e) \/ LoseExchange(e) \/ Settle(e)
  \/ \E t \in Tabs : HearStorage(t) \/ Watchdog(t) \/ Reload(t)
  \/ TimePasses

\* The API answers what reaches it, the browser runs the handlers of answers
\* and events and the watchdog's timer.  Nobody has to act, no time has to
\* pass.
Progress(c) == Serve(c) \/ Fail(c) \/ Hear(c) \/ HearRefusal(c)
Exchange(t) == \E e \in {x \in exchanges : x.tab = t} : Rotate(e) \/ LoseExchange(e) \/ Settle(e)

Fairness ==
  /\ \A c \in Calls : WF_vars(Progress(c))
  /\ \A t \in Tabs : WF_vars(Exchange(t)) /\ WF_vars(Watchdog(t))

Spec == Init /\ [][Next]_vars
FairSpec == Spec /\ Fairness

---------------------------------------------------------------------------
(* Properties.                                                             *)

CallRecords == [at : {"idle", "waiting", "sent", "answered", "refused", "renewing"},
                kind : AllKinds, tab : Tabs \cup {NoTab}, pair : 0..MaxPairs,
                refresh : 0..MaxPairs, retried : BOOLEAN,
                subject : Accounts \cup {NoAccount}]

\* The types, and that what is stored by a browser or held by a tab is a pair
\* that was issued.
TypeOK ==
  /\ issued \in 0..MaxPairs
  /\ owner \in [Pairs -> Accounts \cup {NoAccount}]
  /\ origin \in [Pairs -> {"none", "login", "refresh", "change"}]
  /\ retired \in [Pairs -> {"no", "rotated", "logout", "revoke", "change", "replay"}]
  /\ due \subseteq 1..issued /\ dead \subseteq 1..issued /\ over \subseteq 1..issued
  /\ stored \in [Browsers -> Sessions] /\ mem \in [Tabs -> Sessions]
  /\ \A t \in Tabs : mem[t].pair <= issued
  /\ told \subseteq Tabs /\ screen \in [Tabs -> {"shell", "sign-in"}]
  /\ cache \in [Tabs -> SUBSET Accounts]
  /\ exchanges \subseteq [tab : Tabs, refresh : Pairs, pair : 0..MaxPairs,
                          at : {"sent", "granted", "refused", "lost"}]
  /\ calls \in [Calls -> CallRecords]
  /\ started \in 0..MaxCalls /\ events \in 0..MaxEvents
  /\ presented \subseteq [tab : Tabs, refresh : Pairs,
                          end : {"exchanged", "expired", "replay"}]
  /\ unheard \subseteq Pairs /\ putBack \subseteq Pairs

\* What single-flight is for (client.ts:172-179): the API never sees a tab
\* present a refresh token that the same tab has exchanged before, unless the
\* answer was lost (a reload, the network) or another tab put the token back
\* into storage with a rename.
NeverReplaysItself ==
  \A p, q \in presented :
    p.tab = q.tab /\ p.refresh = q.refresh /\ p.end = "exchanged" /\ q.end = "replay"
      => p.refresh \in unheard \cup putBack

\* The sign-in page holds nothing an account has loaded (require-session.tsx:
\* 44-46, auth.ts:29-33): not when the session ended, and not because an
\* answer came afterwards.
SignInPageIsBlank == \A t \in Tabs : screen[t] = "sign-in" => cache[t] = {}

\* Every call of a page comes to an end: it is not left waiting for a refresh
\* that has settled, and it is not refused and repeated for ever.
EveryCallEnds == \A c \in Calls : calls[c].at # "idle" ~> calls[c].at = "idle"

\* What the security screen promises of a password change (en.json:572, "This
\* one stays signed in"; security-settings.tsx:68-69): the pair it handed to a
\* device is not revoked as a replay while that device replayed nothing.
ThisDeviceStaysSignedIn ==
  \A t \in Tabs :
    LET k == mem[t].pair IN
    (k # 0 /\ \A p \in presented : p.end = "replay" => p.tab # t)
      => ~(origin[k] = "change" /\ retired[k] = "replay")

\* What signing out is for (auth.ts:61, "Tells the API to revoke this device's
\* refresh token"): once the API has answered, the refresh token the tab is
\* about to forget is not live any more.
SignOutRevokes ==
  \A c \in Calls :
    LET k == mem[calls[c].tab].pair IN
    (calls[c].kind = "logout" /\ calls[c].at = "answered" /\ k # 0) => retired[k] # "no"
=============================================================================
