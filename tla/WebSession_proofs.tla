-------------------------- MODULE WebSession_proofs --------------------------
(* Of the session, for any number of tabs, browsers, accounts, calls and    *)
(* pairs: its types, that the sign-in page is blank, and that no tab         *)
(* presents a refresh token it has exchanged.                              *)
EXTENDS WebSession, TLAPS

-----------------------------------------------------------------------------
(* The inductive invariant.                                                *)

(* What a call in flight holds when n pairs have been issued.               *)
CallOK(d, n) ==
  /\ d \in CallRecords
  /\ d.pair <= n /\ d.refresh <= n
  /\ d.at = "idle" \/ d.tab = NoTab => d = IdleCall
  /\ d.kind = "login" => d.subject \in Accounts
  /\ d.at = "answered" =>
       /\ d.kind = "login" \/ d.pair # 0
       /\ d.kind \in {"login", "change"} => d.refresh # 0

CallsOK(cs, n) == cs \in [Calls -> CallRecords] /\ \A c \in Calls : CallOK(cs[c], n)

ServerOK ==
  /\ issued \in 0..MaxPairs
  /\ owner \in [Pairs -> Accounts \cup {NoAccount}]
  /\ \A k \in 1..issued : owner[k] \in Accounts
  /\ origin \in [Pairs -> {"none", "login", "refresh", "change"}]
  /\ retired \in [Pairs -> {"no", "rotated", "logout", "revoke", "change", "replay"}]
  /\ due \subseteq 1..issued /\ dead \subseteq 1..issued /\ over \subseteq 1..issued

TabsOK ==
  /\ stored \in [Browsers -> Sessions] /\ mem \in [Tabs -> Sessions]
  /\ \A t \in Tabs : mem[t].pair <= issued
  /\ \A b \in Browsers : stored[b].pair <= issued
  /\ told \subseteq Tabs /\ screen \in [Tabs -> {"shell", "sign-in"}]
  /\ cache \in [Tabs -> SUBSET Accounts]

Exchange1 == [tab : Tabs, refresh : Pairs, pair : 0..MaxPairs,
              at : {"sent", "granted", "refused", "lost"}]
Presented1 == [tab : Tabs, refresh : Pairs, end : {"exchanged", "expired", "replay"}]

RefreshesOK ==
  /\ exchanges \subseteq Exchange1
  /\ \A e \in exchanges : /\ e.refresh <= issued
                          /\ e.pair <= issued
                          /\ e.at = "granted" => e.pair # 0

HistoryOK ==
  /\ started \in 0..MaxCalls /\ events \in 0..MaxEvents
  /\ presented \subseteq Presented1
  /\ \A p \in presented : p.refresh <= issued
  /\ unheard \subseteq Pairs /\ putBack \subseteq Pairs

Typed == ServerOK /\ TabsOK /\ CallsOK(calls, issued) /\ RefreshesOK /\ HistoryOK

(* No query is in flight in a tab that shows the sign-in page.              *)
Queries(cs, t) == {c \in Calls : cs[c].tab = t /\ cs[c].kind = "read"}
Quiet(cs) == \A t \in Tabs : screen[t] = "sign-in" => Queries(cs, t) = {}
Blank == SignInPageIsBlank /\ Quiet(calls)

(* A pair on its way to a tab is nobody else's and was never seen.          *)
Bears(c) == calls[c].at = "answered" /\ calls[c].kind \in {"login", "change"}
Unseen(k) ==
  /\ \A t \in Tabs : mem[t].pair # k
  /\ \A b \in Browsers : stored[b].pair # k
  /\ \A p \in presented : p.refresh # k
  /\ \A e \in exchanges : e.refresh # k
Fresh ==
  /\ \A e \in exchanges : e.at = "granted" =>
       /\ Unseen(e.pair)
       /\ \A f \in exchanges : f.at = "granted" /\ f.pair = e.pair => f = e
       /\ \A c \in Calls : Bears(c) => calls[c].refresh # e.pair
  /\ \A c \in Calls : Bears(c) =>
       /\ Unseen(calls[c].refresh)
       /\ \A d \in Calls : Bears(d) /\ calls[d].refresh = calls[c].refresh => d = c

SingleFlight == \A e, f \in exchanges : e.tab = f.tab => e = f

Excused == unheard \cup putBack

(* A token a tab has exchanged: the answer is on its way, or the tab and    *)
(* its browser's storage hold another one by now; and it is not sent again. *)
Used(t, k) ==
  /\ ~\E e \in exchanges : e.tab = t /\ e.refresh = k /\ e.at = "sent"
  /\ \/ \E e \in exchanges : e.tab = t /\ e.refresh = k
     \/ mem[t].pair # k /\ stored[BrowserOf[t]].pair # k
Presentations ==
  \A p \in presented :
    /\ p.end \in {"exchanged", "replay"} => retired[p.refresh] # "no"
    /\ p.end = "exchanged" /\ p.refresh \notin Excused => Used(p.tab, p.refresh)

Tokens == Fresh /\ SingleFlight /\ Presentations /\ NeverReplaysItself

IInv == Typed /\ Blank /\ Tokens

-----------------------------------------------------------------------------
(* Calls.                                                                  *)

LEMMA IdleIsCall == IdleCall \in CallRecords /\ \A n \in Nat : CallOK(IdleCall, n)
  BY SessionAssumption DEF IdleCall, CallRecords, CallOK, AllKinds

LEMMA SessionFacts ==
  ASSUME NEW s \in Sessions
  PROVE  /\ s.pair \in 0..MaxPairs
         /\ s.pair = 0 <=> s = SignedOut
         /\ s # SignedOut => s.user \in Accounts /\ s.pair \in Pairs
  BY SessionAssumption DEF Sessions, SignedOut, Pairs

LEMMA SentIsCall ==
  ASSUME NEW n \in Nat, NEW d, CallOK(d, n), d.tab \in Tabs,
         NEW s \in Sessions, s.pair <= n
  PROVE  /\ CallOK(Sent(d, s), n)
         /\ Sent(d, s).at = "sent" /\ Sent(d, s).tab = d.tab /\ Sent(d, s).kind = d.kind
  BY SessionFacts, SessionAssumption DEF CallOK, CallRecords, Sent, IdleCall, Pairs

(* What becomes of calls when nobody answers one: they stay, they are over,  *)
(* or they go on in their own tab, unanswered.                              *)
GoesOn(d, e) == /\ CallOK(e, issued)
                /\ e.at # "answered" /\ e.tab = d.tab /\ e.kind = d.kind
Moves(cs, ds) ==
  /\ ds \in [Calls -> CallRecords]
  /\ \A c \in Calls : ds[c] = cs[c] \/ ds[c] = IdleCall \/ GoesOn(cs[c], ds[c])

LEMMA MovesKeep ==
  ASSUME issued \in Nat, NEW cs, NEW ds, CallsOK(cs, issued), Moves(cs, ds)
  PROVE  /\ CallsOK(ds, issued)
         /\ \A c \in Calls : ds[c].at = "answered" => ds[c] = cs[c]
         /\ Quiet(cs) => Quiet(ds)
<1>1. CallsOK(ds, issued)
  BY IdleIsCall DEF Moves, CallsOK, GoesOn
<1>2. \A c \in Calls : ds[c].at = "answered" => ds[c] = cs[c]
  BY DEF Moves, GoesOn, IdleCall
<1>3. ASSUME Quiet(cs), NEW t \in Tabs, screen[t] = "sign-in", NEW c \in Queries(ds, t)
      PROVE  FALSE
  BY <1>3, SessionAssumption DEF Quiet, Queries, Moves, GoesOn, IdleCall
<1> QED
  BY <1>1, <1>2, <1>3 DEF Quiet

LEMMA MovesTwice ==
  ASSUME NEW as, NEW bs, NEW cs, Moves(as, bs), Moves(bs, cs), CallsOK(as, issued)
  PROVE  Moves(as, cs)
<1>1. ASSUME NEW c \in Calls, bs[c] = IdleCall, GoesOn(bs[c], cs[c])
      PROVE  cs[c] = IdleCall
  <2>1. cs[c].tab = NoTab
    BY <1>1 DEF GoesOn, IdleCall
  <2> QED
    BY <1>1, <2>1 DEF GoesOn, CallOK
<1>2. ASSUME NEW c \in Calls, GoesOn(as[c], bs[c]), GoesOn(bs[c], cs[c])
      PROVE  GoesOn(as[c], cs[c])
  BY <1>2 DEF GoesOn
<1> QED
  BY <1>1, <1>2 DEF Moves

LEMMA CancelledMoves ==
  ASSUME NEW cs \in [Calls -> CallRecords], NEW t \in Tabs
  PROVE  Moves(cs, Cancelled(cs, t)) /\ Queries(Cancelled(cs, t), t) = {}
<1>1. Cancelled(cs, t) \in [Calls -> CallRecords]
  BY IdleIsCall DEF Cancelled
<1>2. \A c \in Calls : Cancelled(cs, t)[c] \in {cs[c], IdleCall}
  BY DEF Cancelled
<1>3. Queries(Cancelled(cs, t), t) = {}
  BY SessionAssumption DEF Cancelled, Queries, IdleCall
<1> QED
  BY <1>1, <1>2, <1>3 DEF Moves

LEMMA OneMoves ==
  ASSUME NEW cs \in [Calls -> CallRecords], NEW c \in Calls, NEW d \in CallRecords,
         d = IdleCall \/ GoesOn(cs[c], d)
  PROVE  Moves(cs, [cs EXCEPT ![c] = d])
  BY DEF Moves

LEMMA ResumedMoves ==
  ASSUME issued \in Nat, CallsOK(calls, issued), NEW t \in Tabs, NEW ok \in BOOLEAN,
         NEW s \in Sessions, s.pair <= issued
  PROVE  Moves(calls, Resumed(calls, t, ok, s))
<1> DEFINE R == Resumed(calls, t, ok, s)
<1>1. ASSUME NEW c \in Calls
      PROVE  /\ R[c] \in CallRecords
             /\ R[c] = calls[c] \/ R[c] = IdleCall \/ GoesOn(calls[c], R[c])
  <2> DEFINE d == [calls[c] EXCEPT !.retried = TRUE]
  <2>1. CASE calls[c].tab = t /\ calls[c].at = "renewing"
    <3>1. CallOK(d, issued) /\ d.tab = t /\ d.kind = calls[c].kind
      BY <2>1, SessionAssumption DEF CallsOK, CallOK, CallRecords, IdleCall
    <3>2. GoesOn(calls[c], Sent(d, s)) /\ Sent(d, s) \in CallRecords
      <4> HIDE DEF d
      <4> QED
        BY <3>1, <2>1, SentIsCall DEF GoesOn, CallOK
    <3>3. R[c] = IF ok THEN Sent(d, s) ELSE IdleCall
      BY <2>1 DEF Resumed
    <3> QED
      BY <3>2, <3>3, IdleIsCall
  <2>2. CASE calls[c].tab = t /\ calls[c].at = "waiting"
    <3>1. GoesOn(calls[c], Sent(calls[c], s)) /\ Sent(calls[c], s) \in CallRecords
      BY <2>2, SentIsCall DEF GoesOn, CallsOK, CallOK
    <3>2. R[c] = IF ~ok /\ calls[c].kind = "stream" THEN IdleCall ELSE Sent(calls[c], s)
      BY <2>2 DEF Resumed
    <3> QED
      BY <3>1, <3>2, IdleIsCall
  <2>3. CASE ~(calls[c].tab = t /\ calls[c].at \in {"renewing", "waiting"})
    <3>1. R[c] = calls[c]
      BY <2>3 DEF Resumed
    <3> QED
      BY <3>1 DEF CallsOK
  <2> QED
    BY <2>1, <2>2, <2>3
<1>2. R = [c \in Calls |-> R[c]]
  BY DEF Resumed
<1> QED
  BY <1>1, <1>2 DEF Moves

-----------------------------------------------------------------------------
(* What a step does to the session of a tab.                               *)

(* A tab is left on its page or sent to the sign-in page with its cache and *)
(* its queries dropped.                                                    *)
LEMMA Leaving ==
  ASSUME Typed, Blank, NEW t \in Tabs, NEW leaves \in BOOLEAN,
         NEW cs, CallsOK(cs, issued), Quiet(cs),
         screen' = [screen EXCEPT ![t] = IF leaves THEN "sign-in" ELSE @],
         cache' = [cache EXCEPT ![t] = IF leaves THEN {} ELSE @],
         calls' = IF leaves THEN Cancelled(cs, t) ELSE cs
  PROVE  /\ screen' \in [Tabs -> {"shell", "sign-in"}] /\ cache' \in [Tabs -> SUBSET Accounts]
         /\ CallsOK(calls', issued) /\ Moves(cs, calls') /\ Blank'
<1>1. screen' \in [Tabs -> {"shell", "sign-in"}] /\ cache' \in [Tabs -> SUBSET Accounts]
  BY DEF Typed, TabsOK
<1>2. Moves(cs, calls') /\ (leaves => Queries(calls', t) = {})
  <2>1. Moves(cs, cs)
    BY DEF Moves, CallsOK
  <2> QED
    BY <2>1, CancelledMoves DEF CallsOK
<1>3. CallsOK(calls', issued) /\ Quiet(calls')
  BY <1>2, MovesKeep, SessionAssumption DEF Typed, ServerOK
<1>4. ASSUME NEW u \in Tabs, screen'[u] = "sign-in"
      PROVE  cache'[u] = {} /\ Queries(calls', u) = {}
  <2>1. CASE u = t /\ leaves
    BY <2>1, <1>2 DEF Typed, TabsOK
  <2>2. CASE ~(u = t /\ leaves)
    <3>1. screen[u] = "sign-in" /\ cache'[u] = cache[u]
      BY <2>2, <1>4 DEF Typed, TabsOK
    <3> QED
      BY <3>1, <1>3 DEF Blank, SignInPageIsBlank, Quiet
  <2> QED
    BY <2>1, <2>2
<1>5. Blank'
  BY <1>4 DEF Blank, SignInPageIsBlank, Quiet, Queries
<1> QED
  BY <1>1, <1>2, <1>3, <1>5

LEMMA SessionSetStep ==
  ASSUME Typed, Blank, NEW t \in Tabs, NEW s \in Sessions, s.pair <= issued,
         NEW cs, CallsOK(cs, issued), Quiet(cs), SessionSet(t, s, cs), issued' = issued
  PROVE  /\ TabsOK' /\ CallsOK(calls', issued) /\ Blank'
         /\ mem' = [mem EXCEPT ![t] = s]
         /\ stored' = [stored EXCEPT ![BrowserOf[t]] = s]
         /\ Moves(cs, calls')
<1> DEFINE leaves == s = SignedOut /\ screen[t] = "shell"
<1>1. /\ mem' = [mem EXCEPT ![t] = s]
      /\ stored' = [stored EXCEPT ![BrowserOf[t]] = s]
      /\ told' = told \cup (IF stored[BrowserOf[t]] # s THEN Others(t) ELSE {})
      /\ screen' = [screen EXCEPT ![t] = IF leaves THEN "sign-in" ELSE @]
      /\ cache' = [cache EXCEPT ![t] = IF leaves THEN {} ELSE @]
      /\ calls' = IF leaves THEN Cancelled(cs, t) ELSE cs
  BY DEF SessionSet
<1>2. leaves \in BOOLEAN
  OBVIOUS
<1> HIDE DEF leaves
<1>3. /\ screen' \in [Tabs -> {"shell", "sign-in"}] /\ cache' \in [Tabs -> SUBSET Accounts]
      /\ CallsOK(calls', issued) /\ Moves(cs, calls') /\ Blank'
  BY <1>1, <1>2, Leaving
<1>4. TabsOK'
  BY <1>1, <1>3, SessionAssumption DEF Typed, TabsOK, Others
<1> QED
  BY <1>1, <1>3, <1>4

LEMMA SessionKeptStep ==
  ASSUME Typed, Blank, NEW cs, CallsOK(cs, issued), Quiet(cs), SessionKept(cs),
         issued' = issued
  PROVE  /\ TabsOK' /\ CallsOK(calls', issued) /\ Blank'
         /\ mem' = mem /\ stored' = stored /\ calls' = cs
<1>1. calls' = cs /\ UNCHANGED tabs
  BY DEF SessionKept
<1> QED
  BY <1>1 DEF tabs, Typed, TabsOK, Blank, SignInPageIsBlank, Quiet, Queries

-----------------------------------------------------------------------------
(* What a step does to the tokens.                                         *)

Unanswered == \A c \in Calls : Bears(c)' => calls'[c] = calls[c]
Remembered == presented' = presented /\ unheard \subseteq unheard' /\ putBack \subseteq putBack'

LEMMA UnansweredMoves ==
  ASSUME CallsOK(calls, issued), issued \in Nat, NEW cs, Moves(calls, cs), Moves(cs, calls')
  PROVE  Unanswered
  BY MovesTwice, MovesKeep DEF Unanswered, Bears

(* A tab and its storage get a session that no other tab will be given.     *)
LEMMA HandOver ==
  ASSUME Typed, Tokens, Unanswered, Remembered, retired' = retired,
         NEW t \in Tabs, NEW s \in Sessions,
         mem' = [mem EXCEPT ![t] = s],
         stored' = [stored EXCEPT ![BrowserOf[t]] = s],
         exchanges' \subseteq exchanges,
         \A e \in exchanges' : e.at = "granted" => e.pair # s.pair,
         \A c \in Calls : Bears(c)' => calls'[c].refresh # s.pair,
         \A p \in presented :
           p.end = "exchanged" /\ p.refresh = s.pair => p.refresh \in Excused',
         \A e \in exchanges \ exchanges' :
           e.tab = t /\ (e.refresh \in unheard' \/ e.refresh # s.pair)
  PROVE  Tokens'
<1>1. /\ \A u \in Tabs : mem'[u] = IF u = t THEN s ELSE mem[u]
      /\ \A b \in Browsers : stored'[b] = IF b = BrowserOf[t] THEN s ELSE stored[b]
  BY DEF Typed, TabsOK
<1>2. Excused \subseteq Excused' /\ presented' = presented
  BY DEF Remembered, Excused
<1>3. ASSUME NEW k, k # s.pair, Unseen(k) PROVE Unseen(k)'
  BY <1>1, <1>2, <1>3 DEF Unseen
<1>4. \A c \in Calls : Bears(c)' => Bears(c) /\ calls'[c] = calls[c]
  BY DEF Unanswered, Bears
<1>5. Fresh'
  <2>1. ASSUME NEW e \in exchanges', e.at = "granted"
        PROVE  /\ Unseen(e.pair)'
               /\ \A f \in exchanges' : f.at = "granted" /\ f.pair = e.pair => f = e
               /\ \A c \in Calls : Bears(c)' => calls'[c].refresh # e.pair
    BY <2>1, <1>3, <1>4 DEF Tokens, Fresh
  <2>2. ASSUME NEW c \in Calls, Bears(c)'
        PROVE  /\ Unseen(calls[c].refresh)' /\ calls'[c] = calls[c]
               /\ \A d \in Calls : Bears(d)' /\ calls'[d].refresh = calls'[c].refresh => d = c
    <3>1. Unseen(calls[c].refresh) /\ calls[c].refresh # s.pair
      BY <2>2, <1>4 DEF Tokens, Fresh
    <3>2. Unseen(calls[c].refresh)'
      <4> DEFINE k == calls[c].refresh
      <4>1. Unseen(k) /\ k # s.pair
        BY <3>1
      <4> HIDE DEF k
      <4>2. /\ \A u \in Tabs : mem'[u].pair # k
            /\ \A b \in Browsers : stored'[b].pair # k
            /\ \A p \in presented' : p.refresh # k
            /\ \A e \in exchanges' : e.refresh # k
        BY <4>1, <1>1, <1>2 DEF Unseen
      <4> QED
        BY <4>2, <2>2, <1>4 DEF Unseen, k
    <3> QED
      BY <3>2, <2>2, <1>4 DEF Tokens, Fresh
  <2> QED
    BY <2>1, <2>2 DEF Fresh
<1>6. SingleFlight'
  BY DEF Tokens, SingleFlight
<1>7. Presentations'
  <2>1. ASSUME NEW p \in presented, p.end = "exchanged", p.refresh \notin Excused'
        PROVE  Used(p.tab, p.refresh)'
    <3>1. Used(p.tab, p.refresh) /\ p.refresh # s.pair
      BY <2>1, <1>2 DEF Tokens, Presentations
    <3>2. p.tab \in Tabs /\ BrowserOf[p.tab] \in Browsers
      BY SessionAssumption DEF Typed, HistoryOK, Presented1
    <3>3. ASSUME NEW e \in exchanges \ exchanges', e.tab = p.tab, e.refresh = p.refresh
          PROVE  /\ mem'[p.tab].pair # p.refresh
                 /\ stored'[BrowserOf[p.tab]].pair # p.refresh
      BY <3>1, <3>2, <3>3, <1>1
    <3>4. \/ \E e \in exchanges' : e.tab = p.tab /\ e.refresh = p.refresh
          \/ /\ mem'[p.tab].pair # p.refresh
             /\ stored'[BrowserOf[p.tab]].pair # p.refresh
      BY <3>1, <3>2, <3>3, <1>1 DEF Used
    <3> QED
      BY <3>1, <3>4 DEF Used
  <2> QED
    BY <2>1, <1>2 DEF Tokens, Presentations
<1>8. NeverReplaysItself'
  BY <1>2 DEF Tokens, NeverReplaysItself, Excused
<1> QED
  BY <1>5, <1>6, <1>7, <1>8 DEF Tokens

(* A tab keeps its session or takes what its storage holds, and refreshes   *)
(* that nobody will hear of are noted.                                     *)
LEMMA FromStorage ==
  ASSUME Typed, Tokens, Unanswered, Remembered, retired' = retired,
         NEW t \in Tabs,
         mem' \in {mem, [mem EXCEPT ![t] = stored[BrowserOf[t]]]},
         stored' = stored,
         exchanges' \subseteq exchanges,
         \A e \in exchanges \ exchanges' : e.refresh \in unheard'
  PROVE  Tokens'
<1>1. \A u \in Tabs : mem'[u] = mem[u] \/ (u = t /\ mem'[u] = stored[BrowserOf[u]])
  BY DEF Typed, TabsOK
<1>2. Excused \subseteq Excused' /\ presented' = presented
  BY DEF Remembered, Excused
<1>3. BrowserOf \in [Tabs -> Browsers]
  BY SessionAssumption
<1>4. ASSUME NEW k, Unseen(k)
      PROVE  /\ \A u \in Tabs : mem'[u].pair # k
             /\ \A b \in Browsers : stored'[b].pair # k
             /\ \A p \in presented' : p.refresh # k
             /\ \A e \in exchanges' : e.refresh # k
  BY <1>1, <1>2, <1>3, <1>4 DEF Unseen
<1>5. \A c \in Calls : Bears(c)' => Bears(c) /\ calls'[c] = calls[c]
  BY DEF Unanswered, Bears
<1>6. Fresh'
  <2>1. ASSUME NEW e \in exchanges', e.at = "granted"
        PROVE  /\ Unseen(e.pair)'
               /\ \A f \in exchanges' : f.at = "granted" /\ f.pair = e.pair => f = e
               /\ \A c \in Calls : Bears(c)' => calls'[c].refresh # e.pair
    BY <2>1, <1>4, <1>5 DEF Tokens, Fresh, Unseen
  <2>2. ASSUME NEW c \in Calls, Bears(c)'
        PROVE  /\ Unseen(calls[c].refresh)' /\ calls'[c] = calls[c]
               /\ \A d \in Calls : Bears(d)' /\ calls'[d].refresh = calls'[c].refresh => d = c
    <3> DEFINE k == calls[c].refresh
    <3>1. /\ Unseen(k) /\ Bears(c) /\ calls'[c] = calls[c]
          /\ \A d \in Calls : Bears(d) /\ calls[d].refresh = calls[c].refresh => d = c
      BY <2>2, <1>5 DEF Tokens, Fresh
    <3>2. Unseen(calls[c].refresh)'
      <4> HIDE DEF k
      <4>1. /\ \A u \in Tabs : mem'[u].pair # k
            /\ \A b \in Browsers : stored'[b].pair # k
            /\ \A p \in presented' : p.refresh # k
            /\ \A e \in exchanges' : e.refresh # k
        BY <3>1, <1>4
      <4> QED
        BY <4>1, <3>1 DEF Unseen, k
    <3> QED
      BY <3>1, <3>2, <1>5
  <2> QED
    BY <2>1, <2>2 DEF Fresh
<1>7. SingleFlight'
  BY DEF Tokens, SingleFlight
<1>8. Presentations'
  <2>1. ASSUME NEW p \in presented, p.end = "exchanged", p.refresh \notin Excused'
        PROVE  Used(p.tab, p.refresh)'
    <3>1. Used(p.tab, p.refresh)
      BY <2>1, <1>2 DEF Tokens, Presentations
    <3>2. p.tab \in Tabs
      BY DEF Typed, HistoryOK, Presented1
    <3>3. \A e \in exchanges : e.refresh = p.refresh => e \in exchanges'
      BY <2>1 DEF Excused
    <3> QED
      BY <3>1, <3>2, <3>3, <1>1 DEF Used
  <2> QED
    BY <2>1, <1>2 DEF Tokens, Presentations
<1>9. NeverReplaysItself'
  BY <1>2 DEF Tokens, NeverReplaysItself, Excused
<1> QED
  BY <1>6, <1>7, <1>8, <1>9 DEF Tokens

(* A tab asks for its session to be refreshed.                              *)
LEMMA AddExchange ==
  ASSUME Typed, Tokens, Unanswered, Remembered, retired' = retired, issued' = issued,
         NEW t \in Tabs, SignedIn(t), mem' = mem, stored' = stored,
         exchanges' = Exchanging(t)
  PROVE  Tokens' /\ RefreshesOK'
<1> DEFINE k == mem[t].pair
           e == [tab |-> t, refresh |-> k, at |-> "sent", pair |-> 0]
<1>1. k \in Pairs /\ k <= issued
  BY SessionFacts DEF Typed, TabsOK, SignedIn
<1>2. exchanges' = exchanges \/ (exchanges' = exchanges \cup {e} /\ InFlight(t) = {})
  BY DEF Exchanging
<1>3. e.tab = t /\ e.refresh = k /\ e.at = "sent" /\ e.pair = 0 /\ e \in Exchange1
  BY <1>1, SessionAssumption DEF Exchange1
<1> HIDE DEF k, e
<1>4. RefreshesOK'
  BY <1>1, <1>2, <1>3, SessionAssumption DEF Typed, RefreshesOK, ServerOK
<1>5. Excused \subseteq Excused' /\ presented' = presented
  BY DEF Remembered, Excused
<1>6. ASSUME NEW j, Unseen(j)
      PROVE  /\ \A u \in Tabs : mem'[u].pair # j
             /\ \A b \in Browsers : stored'[b].pair # j
             /\ \A p \in presented' : p.refresh # j
             /\ \A f \in exchanges' : f.refresh # j
  BY <1>2, <1>3, <1>5, <1>6 DEF Unseen, k
<1>7. \A c \in Calls : Bears(c)' => Bears(c) /\ calls'[c] = calls[c]
  BY DEF Unanswered, Bears
<1>8. Fresh'
  <2>1. ASSUME NEW f \in exchanges', f.at = "granted"
        PROVE  /\ Unseen(f.pair)'
               /\ \A g \in exchanges' : g.at = "granted" /\ g.pair = f.pair => g = f
               /\ \A c \in Calls : Bears(c)' => calls'[c].refresh # f.pair
    <3>1. f \in exchanges
      BY <2>1, <1>2, <1>3
    <3> QED
      BY <2>1, <3>1, <1>2, <1>3, <1>6, <1>7 DEF Tokens, Fresh, Unseen
  <2>2. ASSUME NEW c \in Calls, Bears(c)'
        PROVE  /\ Unseen(calls[c].refresh)' /\ calls'[c] = calls[c]
               /\ \A d \in Calls : Bears(d)' /\ calls'[d].refresh = calls'[c].refresh => d = c
    <3> DEFINE j == calls[c].refresh
    <3>1. /\ Unseen(j) /\ Bears(c) /\ calls'[c] = calls[c]
          /\ \A d \in Calls : Bears(d) /\ calls[d].refresh = calls[c].refresh => d = c
      BY <2>2, <1>7 DEF Tokens, Fresh
    <3>2. Unseen(calls[c].refresh)'
      <4> HIDE DEF j
      <4>1. /\ \A u \in Tabs : mem'[u].pair # j
            /\ \A b \in Browsers : stored'[b].pair # j
            /\ \A p \in presented' : p.refresh # j
            /\ \A f \in exchanges' : f.refresh # j
        BY <3>1, <1>6
      <4> QED
        BY <4>1, <3>1 DEF Unseen, j
    <3> QED
      BY <3>1, <3>2, <1>7
  <2> QED
    BY <2>1, <2>2 DEF Fresh
<1>9. SingleFlight'
  BY <1>2, <1>3 DEF Tokens, SingleFlight, InFlight
<1>10. Presentations'
  <2>1. ASSUME NEW p \in presented, p.end = "exchanged", p.refresh \notin Excused'
        PROVE  Used(p.tab, p.refresh)'
    <3>1. Used(p.tab, p.refresh)
      BY <2>1, <1>5 DEF Tokens, Presentations
    <3>2. ~(p.tab = t /\ p.refresh = k /\ InFlight(t) = {})
      BY <3>1 DEF Used, InFlight, k
    <3> QED
      BY <3>1, <3>2, <1>2, <1>3 DEF Used
  <2> QED
    BY <2>1, <1>5 DEF Tokens, Presentations
<1>11. NeverReplaysItself'
  BY <1>5 DEF Tokens, NeverReplaysItself, Excused
<1> QED
  BY <1>4, <1>8, <1>9, <1>10, <1>11 DEF Tokens

-----------------------------------------------------------------------------
(* The API.                                                                *)

Retirements == {"no", "rotated", "logout", "revoke", "change", "replay"}
StayRetired == \A k \in Pairs : retired[k] # "no" => retired'[k] # "no"

LEMMA RevokedFacts ==
  ASSUME retired \in [Pairs -> Retirements], NEW a, NEW why \in Retirements \ {"no"}
  PROVE  /\ AllRevoked(a, why) \in [Pairs -> Retirements]
         /\ \A k \in Pairs : retired[k] # "no" => AllRevoked(a, why)[k] # "no"
         /\ \A k \in Owned(a) \cap Pairs : AllRevoked(a, why)[k] # "no"
  BY DEF AllRevoked, Retirements

LEMMA IssueStep ==
  ASSUME ServerOK, NEW a \in Accounts, NEW how \in {"login", "refresh", "change"},
         NEW revoked \in [Pairs -> Retirements], Issue(a, how, revoked), UNCHANGED clocks
  PROVE  ServerOK' /\ issued' = issued + 1 /\ issued + 1 \in Pairs /\ retired' = revoked
  BY SessionAssumption DEF ServerOK, Issue, Pairs, clocks, Retirements

LEMMA NextPairIsNew ==
  ASSUME Typed
  PROVE  /\ Unseen(issued + 1)
         /\ \A e \in exchanges : e.pair # issued + 1
         /\ \A c \in Calls : calls[c].refresh # issued + 1
  BY SessionAssumption
     DEF Typed, ServerOK, TabsOK, RefreshesOK, HistoryOK, CallsOK, CallOK, Unseen,
         Exchange1, Presented1, CallRecords, Pairs, Sessions, SignedOut

LEMMA LaterIsCall ==
  ASSUME NEW n \in Nat, NEW m \in Nat, n <= m, NEW d, CallOK(d, n)
  PROVE  CallOK(d, m)
  BY DEF CallOK, CallRecords

(* What is typed is typed when more pairs have been issued.                 *)
LEMMA TypedLater ==
  ASSUME Typed, issued' \in Nat, issued <= issued', UNCHANGED <<stored, mem, told, screen, cache>>
  PROVE  TabsOK' /\ CallsOK(calls, issued')
<1>1. issued \in Nat
  BY SessionAssumption DEF Typed, ServerOK
<1>2. \A t \in Tabs : mem[t].pair <= issued'
  BY <1>1, SessionFacts, SessionAssumption DEF Typed, TabsOK
<1>3. \A b \in Browsers : stored[b].pair <= issued'
  BY <1>1, SessionFacts, SessionAssumption DEF Typed, TabsOK
<1>4. CallsOK(calls, issued')
  BY <1>1, LaterIsCall DEF Typed, CallsOK
<1> QED
  BY <1>2, <1>3, <1>4 DEF Typed, TabsOK

LEMMA ServeStep ==
  ASSUME IInv, NEW c \in Calls, Serve(c)
  PROVE  IInv'
<1> DEFINE call == calls[c]
           ok == Public(call.kind) \/ Verified(call)
           bears == ok /\ call.kind \in {"login", "change"}
           half == [call EXCEPT !.at = IF ok THEN "answered" ELSE "refused"]
           answered == [half EXCEPT !.refresh = IF bears THEN issued + 1 ELSE @]
           acct == IF call.kind = "login" \/ call.pair = 0 THEN call.subject
                   ELSE owner[call.pair]
           revokes == call.kind \in {"logout", "revoke"} /\ call.refresh # 0
<1>1. /\ call.at = "sent"
      /\ calls' = [calls EXCEPT ![c] = answered]
      /\ bears => Issue(acct, call.kind, IF call.kind = "change" THEN AllRevoked(acct, "change")
                                         ELSE retired)
      /\ ~bears => /\ retired' = IF ok /\ revokes /\ retired[call.refresh] = "no"
                                 THEN [retired EXCEPT ![call.refresh] = call.kind] ELSE retired
                   /\ UNCHANGED <<issued, owner, origin>>
      /\ UNCHANGED <<clocks, tabs, exchanges, started, events, ghosts>>
  BY DEF Serve
<1>2. /\ CallOK(call, issued) /\ call \in CallRecords /\ issued \in Nat
      /\ call.tab # NoTab
  BY <1>1, SessionAssumption DEF IInv, Typed, ServerOK, CallsOK, CallOK, IdleCall
<1>3. ok => call.kind = "login" \/ call.pair # 0
  BY DEF Public, Verified
<1>4. bears => acct \in Accounts
  <2>1. call.pair # 0 => call.pair \in 1..issued
    BY <1>2 DEF CallOK, CallRecords
  <2> QED
    BY <1>2, <1>3, <2>1 DEF IInv, Typed, ServerOK, CallOK
<1>5. ok /\ revokes => call.refresh \in Pairs /\ call.kind \in Retirements \ {"no"}
  BY <1>2, SessionAssumption DEF CallRecords, Pairs, Retirements
<1>6. /\ half \in CallRecords /\ half.at = IF ok THEN "answered" ELSE "refused"
      /\ half.tab = call.tab /\ half.kind = call.kind /\ half.pair = call.pair
      /\ half.refresh = call.refresh /\ half.subject = call.subject
  BY <1>2 DEF CallRecords
<1> HIDE DEF call, ok, half, acct
<1>7. /\ ServerOK' /\ StayRetired /\ issued <= issued' /\ issued' \in Nat
      /\ bears => issued' = issued + 1 /\ issued + 1 \in Pairs
      /\ ~bears => issued' = issued
  <2>1. CASE bears
    <3> DEFINE revoked == IF call.kind = "change" THEN AllRevoked(acct, "change") ELSE retired
    <3>1. /\ revoked \in [Pairs -> Retirements]
          /\ \A k \in Pairs : retired[k] # "no" => revoked[k] # "no"
      BY RevokedFacts DEF IInv, Typed, ServerOK, Retirements
    <3>2. /\ Issue(acct, call.kind, revoked) /\ acct \in Accounts /\ UNCHANGED clocks
          /\ call.kind \in {"login", "refresh", "change"} /\ ServerOK
      BY <2>1, <1>1, <1>4 DEF IInv, Typed
    <3> HIDE DEF revoked
    <3>3. ServerOK' /\ issued' = issued + 1 /\ issued + 1 \in Pairs /\ retired' = revoked
      BY <3>1, <3>2, IssueStep
    <3> QED
      BY <2>1, <3>1, <3>3, <1>2 DEF StayRetired
  <2>2. CASE ~bears
    <3>1. UNCHANGED <<issued, owner, origin, due, dead, over>>
      BY <2>2, <1>1 DEF clocks
    <3>2. retired' \in [Pairs -> Retirements] /\ StayRetired
      <4>1. CASE ok /\ revokes /\ retired[call.refresh] = "no"
        <5>1. retired' = [retired EXCEPT ![call.refresh] = call.kind]
          BY <4>1, <2>2, <1>1
        <5> QED
          BY <4>1, <5>1, <1>5 DEF IInv, Typed, ServerOK, StayRetired, Retirements
      <4>2. CASE ~(ok /\ revokes /\ retired[call.refresh] = "no")
        <5>1. retired' = retired
          BY <4>2, <2>2, <1>1
        <5> QED
          BY <5>1 DEF IInv, Typed, ServerOK, StayRetired, Retirements
      <4> QED
        BY <4>1, <4>2
    <3> QED
      BY <2>2, <3>1, <3>2, <1>2 DEF IInv, Typed, ServerOK, Retirements
  <2> QED
    BY <2>1, <2>2
<1>8. /\ answered \in CallRecords
      /\ answered.at = (IF ok THEN "answered" ELSE "refused")
      /\ answered.tab = call.tab /\ answered.kind = call.kind /\ answered.pair = call.pair
      /\ answered.subject = call.subject
      /\ answered.refresh = IF bears THEN issued + 1 ELSE call.refresh
  BY <1>6, <1>7, <1>2 DEF CallRecords, Pairs
<1> HIDE DEF answered
<1>9. CallOK(answered, issued')
  <2>1. answered.refresh <= issued' /\ answered.pair <= issued'
    BY <1>8, <1>7, <1>2 DEF CallOK, CallRecords
  <2>2. answered.at # "idle" /\ answered.tab # NoTab
    BY <1>8, <1>2
  <2>3. answered.kind = "login" => answered.subject \in Accounts
    BY <1>8, <1>2 DEF CallOK
  <2>4. answered.at = "answered" =>
          /\ answered.kind = "login" \/ answered.pair # 0
          /\ answered.kind \in {"login", "change"} => answered.refresh # 0
    BY <1>8, <1>3, <1>2
  <2> QED
    BY <1>8, <2>1, <2>2, <2>3, <2>4 DEF CallOK
<1>10. TabsOK' /\ CallsOK(calls, issued')
  BY <1>1, <1>7, TypedLater DEF IInv, tabs
<1>11. CallsOK(calls', issued')
  BY <1>1, <1>8, <1>9, <1>10 DEF CallsOK
<1>12. RefreshesOK' /\ HistoryOK'
  <2>1. UNCHANGED <<exchanges, started, events, presented, unheard, putBack>>
    BY <1>1 DEF ghosts
  <2>2. RefreshesOK'
    BY <2>1, <1>7, <1>2, SessionAssumption DEF IInv, Typed, RefreshesOK, Exchange1, Pairs
  <2>3. HistoryOK'
    BY <2>1, <1>7, <1>2, SessionAssumption DEF IInv, Typed, HistoryOK, Presented1, Pairs
  <2> QED
    BY <2>2, <2>3
<1>13. Blank'
  BY <1>1, <1>8 DEF IInv, Blank, SignInPageIsBlank, Quiet, Queries, tabs, call, Typed, CallsOK
<1>14. Fresh'
  <2>1. UNCHANGED <<mem, stored, exchanges, presented>>
    BY <1>1 DEF tabs, ghosts
  <2>2. \A k : Unseen(k)' <=> Unseen(k)
    BY <2>1 DEF Unseen
  <2>3. \A d \in Calls : Bears(d)' => (Bears(d) /\ calls'[d] = calls[d] /\ d # c)
                                      \/ (d = c /\ calls'[d].refresh = issued + 1)
    BY <1>1, <1>8 DEF Bears, IInv, Typed, CallsOK
  <2>4. /\ Unseen(issued + 1)
        /\ \A e \in exchanges : e.pair # issued + 1
        /\ \A d \in Calls : calls[d].refresh # issued + 1
    BY NextPairIsNew DEF IInv
  <2>5. ASSUME NEW d \in Calls, Bears(d)'
        PROVE  /\ Unseen(calls'[d].refresh)
               /\ \A f \in Calls : Bears(f)' /\ calls'[f].refresh = calls'[d].refresh => f = d
    BY <2>3, <2>4, <2>5 DEF IInv, Tokens, Fresh
  <2>6. ASSUME NEW e \in exchanges, e.at = "granted"
        PROVE  /\ Unseen(e.pair)
               /\ \A f \in exchanges : f.at = "granted" /\ f.pair = e.pair => f = e
               /\ \A d \in Calls : Bears(d)' => calls'[d].refresh # e.pair
    BY <2>3, <2>4, <2>6 DEF IInv, Tokens, Fresh
  <2>7. \A d \in Calls : Unseen(calls[d].refresh)' <=> Unseen(calls'[d].refresh)
    BY <2>1 DEF Unseen
  <2> QED
    BY <2>1, <2>2, <2>5, <2>6, <2>7 DEF Fresh
<1>15. Tokens'
  <2>1. UNCHANGED <<mem, stored, exchanges, presented, unheard, putBack>>
    BY <1>1 DEF tabs, ghosts
  <2>2. \A p \in presented : p.refresh \in Pairs
    BY DEF IInv, Typed, HistoryOK, Presented1
  <2>3. SingleFlight' /\ NeverReplaysItself'
    BY <2>1 DEF IInv, Tokens, SingleFlight, NeverReplaysItself
  <2>4. Presentations'
    BY <2>1, <2>2, <1>7 DEF IInv, Tokens, Presentations, Used, Excused, StayRetired
  <2> QED
    BY <1>14, <2>3, <2>4 DEF Tokens
<1> QED
  BY <1>7, <1>10, <1>11, <1>12, <1>13, <1>15 DEF IInv, Typed

LEMMA RotateStep ==
  ASSUME IInv, NEW e \in exchanges, Rotate(e)
  PROVE  IInv'
<1> DEFINE k == e.refresh
           replay == retired[k] # "no"
           granted == ~replay /\ k \notin over
           end == IF replay THEN "replay" ELSE IF granted THEN "exchanged" ELSE "expired"
           half == [e EXCEPT !.at = IF granted THEN "granted" ELSE "refused"]
           answer == [half EXCEPT !.pair = IF granted THEN issued + 1 ELSE 0]
           p0 == [tab |-> e.tab, refresh |-> k, end |-> end]
<1>1. /\ e.at = "sent"
      /\ granted => Issue(owner[k], "refresh", [retired EXCEPT ![k] = "rotated"])
      /\ ~granted => /\ retired' = IF replay THEN AllRevoked(owner[k], "replay") ELSE retired
                     /\ UNCHANGED <<issued, owner, origin>>
      /\ exchanges' = (exchanges \ {e}) \cup {answer}
      /\ presented' = presented \cup {p0}
      /\ UNCHANGED <<clocks, tabs, calls, started, events, unheard, putBack>>
  BY DEF Rotate
<1>2. /\ e \in Exchange1 /\ k \in Pairs /\ k \in 1..issued /\ issued \in Nat
      /\ owner[k] \in Accounts
  BY SessionAssumption DEF IInv, Typed, ServerOK, RefreshesOK, Exchange1, Pairs
<1>3. /\ half \in Exchange1 /\ half.at = IF granted THEN "granted" ELSE "refused"
      /\ half.tab = e.tab /\ half.refresh = k
  BY <1>2 DEF Exchange1
<1>4. p0.tab = e.tab /\ p0.refresh = k /\ p0.end = end /\ p0 \in Presented1
  BY <1>2 DEF Exchange1, Presented1
<1> HIDE DEF granted, half, p0, end
<1>5. /\ ServerOK' /\ StayRetired /\ issued <= issued' /\ issued' \in Nat
      /\ granted => issued' = issued + 1 /\ issued + 1 \in Pairs /\ retired'[k] # "no"
  <2>1. CASE granted
    <3> DEFINE revoked == [retired EXCEPT ![k] = "rotated"]
    <3>1. /\ revoked \in [Pairs -> Retirements] /\ revoked[k] # "no"
          /\ \A j \in Pairs : retired[j] # "no" => revoked[j] # "no"
      BY <1>2 DEF IInv, Typed, ServerOK, Retirements
    <3>2. Issue(owner[k], "refresh", revoked) /\ UNCHANGED clocks /\ ServerOK
      BY <2>1, <1>1 DEF IInv, Typed
    <3> HIDE DEF revoked
    <3>3. ServerOK' /\ issued' = issued + 1 /\ issued + 1 \in Pairs /\ retired' = revoked
      BY <3>1, <3>2, <1>2, IssueStep
    <3> QED
      BY <3>1, <3>3, <1>2 DEF StayRetired
  <2>2. CASE ~granted
    <3>1. UNCHANGED <<issued, owner, origin, due, dead, over>>
      BY <2>2, <1>1 DEF clocks
    <3>2. "replay" \in Retirements \ {"no"} /\ retired \in [Pairs -> Retirements]
      BY DEF Retirements, IInv, Typed, ServerOK
    <3>3. retired' \in [Pairs -> Retirements] /\ StayRetired
      <4>1. CASE replay
        BY <4>1, <2>2, <1>1, <3>2, RevokedFacts DEF StayRetired
      <4>2. CASE ~replay
        BY <4>2, <2>2, <1>1, <3>2 DEF StayRetired
      <4> QED
        BY <4>1, <4>2
    <3> QED
      BY <2>2, <3>1, <3>3, <1>2 DEF IInv, Typed, ServerOK, Retirements
  <2> QED
    BY <2>1, <2>2
<1>6. /\ answer \in Exchange1 /\ answer.tab = e.tab /\ answer.refresh = k
      /\ answer.at = (IF granted THEN "granted" ELSE "refused")
      /\ answer.pair = (IF granted THEN issued + 1 ELSE 0)
  BY <1>3, <1>5, SessionAssumption DEF Exchange1, Pairs
<1> HIDE DEF answer
<1>7. TabsOK' /\ CallsOK(calls', issued')
  <2>1. TabsOK' /\ CallsOK(calls, issued')
    BY <1>1, <1>5, TypedLater DEF IInv, tabs
  <2> QED
    BY <2>1, <1>1
<1>8. RefreshesOK'
  <2>1. \A f \in exchanges' : f \in exchanges \/ f = answer
    BY <1>1
  <2>2. \A f \in exchanges : f \in Exchange1 /\ f.refresh <= issued' /\ f.pair <= issued'
    BY <1>2, <1>5, SessionAssumption DEF IInv, Typed, RefreshesOK, Exchange1, Pairs
  <2>3. /\ answer.refresh <= issued' /\ answer.pair <= issued'
        /\ answer.at = "granted" => answer.pair # 0
    BY <1>6, <1>5, <1>2
  <2> QED
    BY <2>1, <2>2, <2>3, <1>6 DEF IInv, Typed, RefreshesOK
<1>9. HistoryOK'
  <2>1. \A p \in presented' : p \in Presented1 /\ p.refresh <= issued'
    BY <1>1, <1>4, <1>5, <1>2, SessionAssumption
       DEF IInv, Typed, HistoryOK, Presented1, Pairs
  <2> QED
    BY <2>1, <1>1 DEF IInv, Typed, HistoryOK
<1>10. Blank'
  BY <1>1 DEF IInv, Blank, SignInPageIsBlank, Quiet, Queries, tabs
<1>11. SingleFlight'
  BY <1>1, <1>6 DEF IInv, Tokens, SingleFlight
<1>12. Fresh'
  <2>1. UNCHANGED <<mem, stored, calls>>
    BY <1>1 DEF tabs
  <2>2. ASSUME NEW j, Unseen(j)
        PROVE  Unseen(j)'
    <3>1. j # k
      BY <2>2 DEF Unseen
    <3> QED
      BY <2>1, <2>2, <3>1, <1>1, <1>4, <1>6 DEF Unseen
  <2>3. /\ Unseen(issued + 1)
        /\ \A f \in exchanges : f.pair # issued + 1
        /\ \A d \in Calls : calls[d].refresh # issued + 1
    BY NextPairIsNew DEF IInv
  <2>4. ASSUME NEW f \in exchanges', f.at = "granted"
        PROVE  /\ Unseen(f.pair)'
               /\ \A g \in exchanges' : g.at = "granted" /\ g.pair = f.pair => g = f
               /\ \A c \in Calls : Bears(c)' => calls'[c].refresh # f.pair
    <3>1. CASE f = answer
      <4>1. f.pair = issued + 1
        BY <3>1, <2>4, <1>6
      <4>2. Unseen(f.pair)'
        BY <4>1, <2>2, <2>3
      <4>3. \A g \in exchanges' : g.pair = f.pair => g = f
        BY <3>1, <4>1, <2>3, <1>1
      <4> QED
        BY <4>1, <4>2, <4>3, <2>1, <2>3
    <3>2. CASE f \in exchanges \ {e}
      BY <3>2, <2>1, <2>2, <2>3, <2>4, <1>1, <1>6 DEF IInv, Tokens, Fresh, Bears
    <3> QED
      BY <3>1, <3>2, <1>1
  <2>5. ASSUME NEW c \in Calls, Bears(c)'
        PROVE  /\ Unseen(calls[c].refresh)'
               /\ \A d \in Calls : Bears(d)' /\ calls'[d].refresh = calls'[c].refresh => d = c
    <3> DEFINE j == calls[c].refresh
    <3>1. /\ Unseen(j) /\ calls' = calls
          /\ \A d \in Calls : Bears(d) /\ calls[d].refresh = calls[c].refresh => d = c
      BY <2>1, <2>5 DEF IInv, Tokens, Fresh, Bears
    <3>2. Unseen(calls[c].refresh)'
      <4> HIDE DEF j
      <4>1. j # k
        BY <3>1 DEF Unseen
      <4>2. /\ \A u \in Tabs : mem'[u].pair # j
            /\ \A b \in Browsers : stored'[b].pair # j
            /\ \A p \in presented' : p.refresh # j
            /\ \A f \in exchanges' : f.refresh # j
        BY <4>1, <3>1, <2>1, <1>1, <1>4, <1>6 DEF Unseen
      <4> QED
        BY <4>2, <3>1 DEF Unseen, j
    <3> QED
      BY <3>1, <3>2 DEF Bears
  <2> QED
    BY <2>4, <2>5 DEF Fresh
<1>13. Presentations'
  <2>1. UNCHANGED <<mem, stored, unheard, putBack>>
    BY <1>1 DEF tabs
  <2>2. \A p \in presented : p.refresh \in Pairs
    BY DEF IInv, Typed, HistoryOK, Presented1
  <2>3. ASSUME NEW p \in presented
        PROVE  /\ p.end \in {"exchanged", "replay"} => retired'[p.refresh] # "no"
               /\ p.end = "exchanged" /\ p.refresh \notin Excused' => Used(p.tab, p.refresh)'
    <3>1. p.end \in {"exchanged", "replay"} => retired'[p.refresh] # "no"
      BY <2>2, <1>5 DEF IInv, Tokens, Presentations, StayRetired
    <3>2. ASSUME p.end = "exchanged", p.refresh \notin Excused'
          PROVE  Used(p.tab, p.refresh)'
      <4>1. Used(p.tab, p.refresh)
        BY <3>2, <2>1 DEF IInv, Tokens, Presentations, Excused
      <4> QED
        BY <4>1, <2>1, <1>1, <1>6 DEF Used
    <3> QED
      BY <3>1, <3>2
  <2>4. /\ p0.end \in {"exchanged", "replay"} => retired'[p0.refresh] # "no"
        /\ p0.end = "exchanged" => Used(e.tab, e.refresh)'
    <3>1. p0.end \in {"exchanged", "replay"} => retired'[p0.refresh] # "no"
      BY <1>2, <1>4, <1>5 DEF end, granted, StayRetired
    <3>2. \A f \in exchanges' : f.tab = e.tab => f = answer
      BY <1>1 DEF IInv, Tokens, SingleFlight
    <3>3. Used(e.tab, e.refresh)'
      BY <3>2, <1>1, <1>6 DEF Used
    <3> QED
      BY <3>1, <3>3
  <2> QED
    BY <2>3, <2>4, <1>1, <1>4 DEF Presentations
<1>14. NeverReplaysItself'
  <2>1. ASSUME NEW p \in presented', NEW q \in presented', p.tab = q.tab,
               p.refresh = q.refresh, p.end = "exchanged", q.end = "replay",
               p.refresh \notin Excused
        PROVE  FALSE
    <3>1. CASE p \in presented /\ q \in presented
      BY <2>1, <3>1 DEF IInv, Tokens, NeverReplaysItself, Excused
    <3>2. CASE p \in presented /\ q = p0
      <4>1. Used(p.tab, p.refresh)
        BY <2>1, <3>2 DEF IInv, Tokens, Presentations
      <4> QED
        BY <4>1, <3>2, <2>1, <1>1, <1>4 DEF Used
    <3>3. CASE p = p0 /\ q \in presented
      <4>1. retired[k] # "no"
        BY <2>1, <3>3, <1>4 DEF IInv, Tokens, Presentations
      <4> QED
        BY <4>1, <3>3, <2>1, <1>4 DEF end
    <3>4. CASE p = p0 /\ q = p0
      BY <3>4, <2>1
    <3> QED
      BY <2>1, <3>1, <3>2, <3>3, <3>4, <1>1
  <2> QED
    BY <2>1, <1>1 DEF NeverReplaysItself, Excused
<1> QED
  BY <1>5, <1>7, <1>8, <1>9, <1>10, <1>11, <1>12, <1>13, <1>14 DEF IInv, Typed, Tokens

LEMMA LoseExchangeStep ==
  ASSUME IInv, NEW e \in exchanges, LoseExchange(e)
  PROVE  IInv'
<1> DEFINE half == [e EXCEPT !.at = "lost"]
           lost == [half EXCEPT !.pair = 0]
<1>1. /\ e.at \in {"sent", "granted"}
      /\ events' = events \/ (events < MaxEvents /\ events' = events + 1)
      /\ exchanges' = (exchanges \ {e}) \cup {lost}
      /\ UNCHANGED <<server, clocks, tabs, calls, started, ghosts>>
  BY DEF LoseExchange, Happens
<1>2. e \in Exchange1 /\ e.refresh <= issued
  BY DEF IInv, Typed, RefreshesOK
<1>3. half \in Exchange1 /\ half.at = "lost" /\ half.tab = e.tab /\ half.refresh = e.refresh
  BY <1>2 DEF Exchange1
<1> HIDE DEF half
<1>4. /\ lost \in Exchange1 /\ lost.at = "lost" /\ lost.pair = 0
      /\ lost.tab = e.tab /\ lost.refresh = e.refresh
  BY <1>3, SessionAssumption DEF Exchange1
<1> HIDE DEF lost
<1>5. UNCHANGED <<issued, owner, origin, retired, due, dead, over, stored, mem, told,
                  screen, cache, calls, started, presented, unheard, putBack>>
  BY <1>1 DEF server, clocks, tabs, ghosts
<1>6. Typed'
  <2>1. ServerOK' /\ TabsOK' /\ CallsOK(calls, issued)'
    BY <1>5 DEF IInv, Typed, ServerOK, TabsOK, CallsOK
  <2>2. RefreshesOK'
    BY <1>1, <1>2, <1>4, <1>5, SessionAssumption DEF IInv, Typed, RefreshesOK, ServerOK
  <2>3. HistoryOK'
    BY <1>1, <1>5, SessionAssumption DEF IInv, Typed, HistoryOK
  <2> QED
    BY <2>1, <2>2, <2>3 DEF Typed
<1>7. Blank'
  BY <1>5 DEF IInv, Blank, SignInPageIsBlank, Quiet, Queries
<1>8. Fresh'
  <2>1. \A j : Unseen(j) => Unseen(j)'
    BY <1>1, <1>4, <1>5 DEF Unseen
  <2>2. \A f \in exchanges' : f.at = "granted" => f \in exchanges
    BY <1>1, <1>4
  <2>3. \A c \in Calls : Unseen(calls[c].refresh) => Unseen(calls[c].refresh)'
    BY <1>1, <1>4, <1>5 DEF Unseen
  <2> QED
    BY <2>1, <2>2, <2>3, <1>5 DEF IInv, Tokens, Fresh, Bears
<1>9. Presentations'
  BY <1>1, <1>4, <1>5 DEF IInv, Tokens, Presentations, Used, Excused
<1>10. SingleFlight' /\ NeverReplaysItself'
  BY <1>1, <1>4, <1>5 DEF IInv, Tokens, SingleFlight, NeverReplaysItself
<1> QED
  BY <1>6, <1>7, <1>8, <1>9, <1>10 DEF IInv, Tokens

LEMMA TimePassesStep ==
  ASSUME IInv, TimePasses
  PROVE  IInv'
<1>1. /\ UNCHANGED <<server, tabs, exchanges, calls, started, ghosts>>
      /\ events' \in 0..MaxEvents
  BY SessionAssumption DEF TimePasses, Happens, IInv, Typed, HistoryOK
<1>2. UNCHANGED <<issued, owner, origin, retired, stored, mem, told, screen, cache,
                  exchanges, calls, started, presented, unheard, putBack>>
  BY <1>1 DEF server, tabs, ghosts
<1>3. /\ due' \subseteq 1..issued /\ dead' \subseteq 1..issued /\ over' \subseteq 1..issued
  BY DEF TimePasses, AccessFallsDue, AccessDies, RefreshPasses, IInv, Typed, ServerOK
<1>4. Typed'
  <2>1. ServerOK'
    BY <1>2, <1>3 DEF IInv, Typed, ServerOK
  <2>2. TabsOK' /\ CallsOK(calls, issued)' /\ RefreshesOK' /\ HistoryOK'
    BY <1>1, <1>2 DEF IInv, Typed, TabsOK, CallsOK, RefreshesOK, HistoryOK
  <2> QED
    BY <2>1, <2>2 DEF Typed
<1>5. Blank'
  BY <1>2 DEF IInv, Blank, SignInPageIsBlank, Quiet, Queries
<1>6. Tokens'
  BY <1>2 DEF IInv, Tokens, Fresh, Unseen, Bears, SingleFlight, Presentations, Used,
              NeverReplaysItself, Excused
<1> QED
  BY <1>4, <1>5, <1>6 DEF IInv

-----------------------------------------------------------------------------
(* The tab.                                                                *)

(* Calls a step may leave in flight: typed, no query behind a sign-in page, *)
(* and none answered that was not.                                         *)
Sound(cs) ==
  /\ CallsOK(cs, issued) /\ Quiet(cs)
  /\ \A c \in Calls : cs[c].at = "answered" => cs[c] = calls[c]

LEMMA MovesAreSound ==
  ASSUME IInv, NEW cs, Moves(calls, cs)
  PROVE  Sound(cs)
<1>1. issued \in Nat
  BY SessionAssumption DEF IInv, Typed, ServerOK
<1> QED
  BY <1>1, MovesKeep DEF IInv, Typed, Blank, Sound

LEMMA OneIsSound ==
  ASSUME IInv, NEW c \in Calls, NEW d, CallOK(d, issued), d.at # "answered",
         d.kind = "read" /\ d.tab \in Tabs => screen[d.tab] = "shell"
  PROVE  Sound([calls EXCEPT ![c] = d])
<1> DEFINE cs == [calls EXCEPT ![c] = d]
<1>1. \A b \in Calls : cs[b] = IF b = c THEN d ELSE calls[b]
  BY DEF IInv, Typed, CallsOK
<1>2. CallsOK(cs, issued)
  BY DEF IInv, Typed, CallsOK, CallOK
<1> HIDE DEF cs
<1>3. Quiet(cs)
  BY <1>1 DEF IInv, Blank, Quiet, Queries
<1> QED
  BY <1>1, <1>2, <1>3 DEF Sound, cs

LEMMA SoundIsUnanswered ==
  ASSUME IInv, NEW cs, Sound(cs), Moves(cs, calls')
  PROVE  Unanswered
<1>1. issued \in Nat
  BY SessionAssumption DEF IInv, Typed, ServerOK
<1> QED
  BY <1>1, MovesKeep DEF Sound, Unanswered, Bears

(* The API's part, what is in flight and the histories, of a step of a tab. *)
Aside == UNCHANGED <<server, clocks, ghosts>>
Counted == started' \in 0..MaxCalls /\ events' \in 0..MaxEvents

LEMMA AsideKeeps ==
  ASSUME IInv, Aside, Counted
  PROVE  /\ ServerOK' /\ HistoryOK' /\ Remembered
         /\ UNCHANGED <<issued, owner, retired, presented, unheard, putBack>>
         /\ exchanges' = exchanges => RefreshesOK'
  BY DEF IInv, Typed, Aside, Counted, ServerOK, HistoryOK, Remembered, RefreshesOK,
         server, clocks, ghosts

LEMMA NoTokenIsZero ==
  ASSUME IInv
  PROVE  /\ \A e \in exchanges : e.refresh # 0 /\ (e.at = "granted" => e.pair # 0)
         /\ \A c \in Calls : Bears(c) => calls[c].refresh # 0
         /\ \A p \in presented : p.refresh # 0
         /\ SignedOut \in Sessions /\ SignedOut.pair = 0 /\ 0 <= issued
  BY SessionAssumption
     DEF IInv, Typed, ServerOK, RefreshesOK, HistoryOK, Exchange1, Presented1, CallsOK, CallOK,
         Bears, Pairs, Sessions, SignedOut

LEMMA EndSession ==
  ASSUME IInv, Aside, Counted, UNCHANGED exchanges, NEW t \in Tabs,
         NEW cs, Sound(cs), SessionSet(t, SignedOut, cs)
  PROVE  IInv'
<1>1. /\ ServerOK' /\ HistoryOK' /\ Remembered /\ RefreshesOK'
      /\ UNCHANGED <<issued, owner, retired, presented, unheard, putBack>>
  BY AsideKeeps
<1>2. SignedOut \in Sessions /\ SignedOut.pair = 0 /\ SignedOut.pair <= issued
  BY NoTokenIsZero
<1>3. /\ TabsOK' /\ CallsOK(calls', issued) /\ Blank'
      /\ mem' = [mem EXCEPT ![t] = SignedOut]
      /\ stored' = [stored EXCEPT ![BrowserOf[t]] = SignedOut]
      /\ Moves(cs, calls')
  BY <1>1, <1>2, SessionSetStep DEF IInv, Sound
<1>4. Unanswered
  BY <1>3, SoundIsUnanswered
<1>5. Tokens'
  <2>1. \A c \in Calls : Bears(c)' => calls'[c].refresh # 0
    BY <1>4, NoTokenIsZero DEF Unanswered, Bears
  <2> QED
    BY <2>1, <1>1, <1>2, <1>3, <1>4, NoTokenIsZero, HandOver DEF IInv
<1> QED
  BY <1>1, <1>3, <1>5 DEF IInv, Typed

LEMMA KeepSession ==
  ASSUME IInv, Aside, Counted, NEW cs, Sound(cs), SessionKept(cs),
         \/ UNCHANGED exchanges
         \/ \E t \in Tabs : SignedIn(t) /\ exchanges' = Exchanging(t)
  PROVE  IInv'
<1>1. /\ ServerOK' /\ HistoryOK' /\ Remembered
      /\ UNCHANGED <<issued, owner, retired, presented, unheard, putBack>>
      /\ exchanges' = exchanges => RefreshesOK'
  BY AsideKeeps
<1>2. /\ TabsOK' /\ CallsOK(calls', issued) /\ Blank'
      /\ mem' = mem /\ stored' = stored /\ calls' = cs
  BY <1>1, SessionKeptStep DEF IInv, Sound
<1>3. Unanswered
  BY <1>2 DEF Sound, Unanswered, Bears
<1>4. CASE UNCHANGED exchanges
  <2>1. Tokens'
    <3>1. \A j : Unseen(j) => Unseen(j)'
      BY <1>1, <1>2, <1>4 DEF Unseen
    <3>2. \A c \in Calls : Bears(c)' => Bears(c) /\ calls'[c] = calls[c]
      BY <1>3 DEF Unanswered, Bears
    <3>3. \A c \in Calls : Bears(c)' => Unseen(calls[c].refresh)'
      BY <1>1, <1>2, <1>4, <3>2 DEF Unseen, IInv, Tokens, Fresh
    <3>4. Fresh'
      BY <3>1, <3>2, <3>3, <1>4 DEF IInv, Tokens, Fresh
    <3> QED
      BY <3>4, <1>1, <1>2, <1>4
         DEF IInv, Tokens, SingleFlight, Presentations, Used, NeverReplaysItself, Excused
  <2> QED
    BY <2>1, <1>1, <1>2, <1>4 DEF IInv, Typed
<1>5. CASE \E t \in Tabs : SignedIn(t) /\ exchanges' = Exchanging(t)
  <2>1. Tokens' /\ RefreshesOK'
    BY <1>1, <1>2, <1>3, <1>5, AddExchange DEF IInv
  <2> QED
    BY <2>1, <1>1, <1>2 DEF IInv, Typed
<1> QED
  BY <1>4, <1>5

LEMMA WatchdogStep ==
  ASSUME IInv, NEW t \in Tabs, Watchdog(t)
  PROVE  IInv'
<1>1. Moves(calls, calls)
  BY DEF Moves, IInv, Typed, CallsOK
<1> QED
  BY <1>1, MovesAreSound, EndSession DEF Watchdog, Aside, Counted, IInv, Typed, HistoryOK

LEMMA HearStorageStep ==
  ASSUME IInv, NEW t \in Tabs, HearStorage(t)
  PROVE  IInv'
<1> DEFINE s == stored[BrowserOf[t]]
           leaves == s = SignedOut /\ screen[t] = "shell"
<1>1. /\ Aside /\ Counted /\ UNCHANGED <<stored, exchanges>>
      /\ told' \subseteq Tabs
  BY DEF HearStorage, Aside, Counted, IInv, Typed, TabsOK, HistoryOK
<1>2. /\ ServerOK' /\ HistoryOK' /\ Remembered /\ RefreshesOK'
      /\ UNCHANGED <<issued, owner, retired, presented, unheard, putBack>>
  BY <1>1, AsideKeeps
<1>3. s \in Sessions /\ s.pair <= issued
  BY SessionAssumption DEF IInv, Typed, TabsOK
<1>4. /\ \/ mem' = mem /\ UNCHANGED <<screen, cache, calls>>
         \/ /\ mem' = [mem EXCEPT ![t] = s]
            /\ screen' = [screen EXCEPT ![t] = IF leaves THEN "sign-in" ELSE @]
            /\ cache' = [cache EXCEPT ![t] = IF leaves THEN {} ELSE @]
            /\ calls' = IF leaves THEN Cancelled(calls, t) ELSE calls
  BY DEF HearStorage
<1>5. leaves \in BOOLEAN
  OBVIOUS
<1> HIDE DEF leaves
<1>6. Moves(calls, calls)
  BY DEF Moves, IInv, Typed, CallsOK
<1>7. /\ screen' \in [Tabs -> {"shell", "sign-in"}] /\ cache' \in [Tabs -> SUBSET Accounts]
      /\ CallsOK(calls', issued) /\ Moves(calls, calls') /\ Blank'
  <2>1. CASE UNCHANGED <<screen, cache, calls>>
    BY <2>1, <1>6 DEF IInv, Typed, TabsOK, Blank, SignInPageIsBlank, Quiet, Queries
  <2>2. CASE /\ screen' = [screen EXCEPT ![t] = IF leaves THEN "sign-in" ELSE @]
             /\ cache' = [cache EXCEPT ![t] = IF leaves THEN {} ELSE @]
             /\ calls' = IF leaves THEN Cancelled(calls, t) ELSE calls
    BY <2>2, <1>5, Leaving DEF IInv, Typed, Blank
  <2> QED
    BY <1>4, <2>1, <2>2
<1>8. TabsOK'
  BY <1>1, <1>2, <1>3, <1>4, <1>7 DEF IInv, Typed, TabsOK
<1>9. Unanswered
  BY <1>6, <1>7, MovesAreSound, SoundIsUnanswered
<1>10. Tokens'
  BY <1>1, <1>2, <1>4, <1>9, FromStorage DEF IInv
<1> QED
  BY <1>2, <1>7, <1>8, <1>10 DEF IInv, Typed

LEMMA ReloadStep ==
  ASSUME IInv, NEW t \in Tabs, Reload(t)
  PROVE  IInv'
<1> DEFINE s == stored[BrowserOf[t]]
           dropped == {e.refresh : e \in {x \in exchanges : x.tab = t}}
<1>1. /\ UNCHANGED <<server, clocks, stored, started, presented, putBack>>
      /\ events' \in 0..MaxEvents
      /\ mem' = [mem EXCEPT ![t] = s] /\ told' = told \ {t}
      /\ screen' = [screen EXCEPT ![t] = IF s = SignedOut THEN "sign-in" ELSE "shell"]
      /\ cache' = [cache EXCEPT ![t] = {}]
      /\ calls' = [c \in Calls |-> IF calls[c].tab = t THEN IdleCall ELSE calls[c]]
      /\ exchanges' = {e \in exchanges : e.tab # t}
      /\ unheard' = unheard \cup dropped
  BY SessionAssumption DEF Reload, Happens, IInv, Typed, HistoryOK
<1>2. UNCHANGED <<issued, owner, origin, retired, due, dead, over>>
  BY <1>1 DEF server, clocks
<1>3. dropped \subseteq Pairs
  BY DEF IInv, Typed, RefreshesOK, Exchange1
<1>4. ServerOK' /\ HistoryOK' /\ RefreshesOK'
  <2>1. ServerOK'
    BY <1>2 DEF IInv, Typed, ServerOK
  <2>2. HistoryOK'
    BY <1>1, <1>2, <1>3 DEF IInv, Typed, HistoryOK
  <2>3. RefreshesOK'
    BY <1>1, <1>2 DEF IInv, Typed, RefreshesOK
  <2> QED
    BY <2>1, <2>2, <2>3
<1>5. s \in Sessions /\ s.pair <= issued
  BY SessionAssumption DEF IInv, Typed, TabsOK
<1>6. TabsOK'
  BY <1>1, <1>2, <1>5 DEF IInv, Typed, TabsOK
<1>7. Moves(calls, calls')
  BY <1>1, IdleIsCall DEF Moves, IInv, Typed, CallsOK
<1>8. Sound(calls')
  BY <1>7, MovesAreSound
<1>9. Blank'
  <2>1. ASSUME NEW u \in Tabs, screen'[u] = "sign-in"
        PROVE  cache'[u] = {} /\ Queries(calls', u) = {}
    <3>1. CASE u = t
      BY <3>1, <1>1, SessionAssumption DEF IInv, Typed, TabsOK, Queries, IdleCall
    <3>2. CASE u # t
      <4>1. screen[u] = "sign-in" /\ cache'[u] = cache[u]
        BY <3>2, <2>1, <1>1 DEF IInv, Typed, TabsOK
      <4> QED
        BY <4>1, <1>8 DEF IInv, Blank, SignInPageIsBlank, Quiet, Sound
    <3> QED
      BY <3>1, <3>2
  <2> QED
    BY <2>1 DEF Blank, SignInPageIsBlank, Quiet, Queries
<1>10. Tokens'
  <2>1. Unanswered
    BY <1>8 DEF Sound, Unanswered, Bears
  <2>2. Remembered
    BY <1>1 DEF Remembered
  <2>3. \A e \in exchanges \ exchanges' : e.refresh \in unheard'
    BY <1>1
  <2> QED
    BY <2>1, <2>2, <2>3, <1>1, <1>2, FromStorage DEF IInv
<1> QED
  BY <1>2, <1>4, <1>6, <1>8, <1>9, <1>10 DEF IInv, Typed, Sound

LEMMA SettleStep ==
  ASSUME IInv, NEW e \in exchanges, Settle(e)
  PROVE  IInv'
<1> DEFINE t == e.tab
           ok == e.at = "granted"
           s == IF ok THEN [pair |-> e.pair, user |-> owner[e.pair]] ELSE SignedOut
           cs == Resumed(calls, t, ok, s)
<1>1. /\ exchanges' = exchanges \ {e}
      /\ SessionSet(t, s, cs)
      /\ unheard' = unheard \cup (IF e.at = "lost" THEN {e.refresh} ELSE {})
      /\ UNCHANGED <<server, clocks, started, events, presented, putBack>>
  BY DEF Settle
<1>2. UNCHANGED <<issued, owner, origin, retired, due, dead, over>>
  BY <1>1 DEF server, clocks
<1>3. t \in Tabs /\ e.refresh \in Pairs /\ (ok => e.pair \in Pairs /\ e.pair \in 1..issued)
  BY SessionAssumption DEF IInv, Typed, ServerOK, RefreshesOK, Exchange1, Pairs
<1>4. /\ s \in Sessions /\ s.pair <= issued
      /\ s.pair = IF ok THEN e.pair ELSE 0
  <2>1. CASE ok
    BY <2>1, <1>3 DEF IInv, Typed, ServerOK, Sessions
  <2>2. CASE ~ok
    BY <2>2, NoTokenIsZero
  <2> QED
    BY <2>1, <2>2
<1>5. ServerOK' /\ HistoryOK' /\ RefreshesOK'
  <2>1. ServerOK'
    BY <1>2 DEF IInv, Typed, ServerOK
  <2>2. HistoryOK'
    BY <1>1, <1>2, <1>3 DEF IInv, Typed, HistoryOK
  <2>3. RefreshesOK'
    BY <1>1, <1>2 DEF IInv, Typed, RefreshesOK
  <2> QED
    BY <2>1, <2>2, <2>3
<1>6. Sound(cs)
  <2>1. issued \in Nat /\ ok \in BOOLEAN /\ CallsOK(calls, issued)
    BY SessionAssumption DEF IInv, Typed, ServerOK
  <2> HIDE DEF s, ok, t
  <2>2. Moves(calls, cs)
    BY <2>1, <1>3, <1>4, ResumedMoves
  <2> QED
    BY <2>2, MovesAreSound
<1>7. UNCHANGED issued /\ Typed /\ Blank /\ CallsOK(cs, issued) /\ Quiet(cs)
  BY <1>2, <1>6 DEF IInv, Sound
<1> HIDE DEF s, cs
<1>8. /\ TabsOK' /\ CallsOK(calls', issued) /\ Blank'
      /\ mem' = [mem EXCEPT ![t] = s]
      /\ stored' = [stored EXCEPT ![BrowserOf[t]] = s]
      /\ Moves(cs, calls')
  BY <1>1, <1>3, <1>4, <1>7, SessionSetStep
<1>9. Unanswered
  BY <1>6, <1>8, SoundIsUnanswered
<1>10. Tokens'
  <2>1. \A f \in exchanges' : f.at = "granted" => f.pair # s.pair
    BY <1>1, <1>4, NoTokenIsZero DEF IInv, Tokens, Fresh
  <2>2. \A c \in Calls : Bears(c)' => calls'[c].refresh # s.pair
    BY <1>4, <1>9, NoTokenIsZero DEF IInv, Tokens, Fresh, Unanswered, Bears
  <2>3. \A p \in presented : p.refresh # s.pair
    BY <1>4, NoTokenIsZero DEF IInv, Tokens, Fresh, Unseen
  <2>4. e.refresh # s.pair
    BY <1>4, NoTokenIsZero DEF IInv, Tokens, Fresh, Unseen
  <2>5. Remembered
    BY <1>1 DEF Remembered
  <2> HIDE DEF t
  <2>6. \A f \in exchanges \ exchanges' : f.tab = t /\ f.refresh # s.pair
    BY <2>4, <1>1 DEF t
  <2>7. Typed /\ Tokens /\ exchanges' \subseteq exchanges
    BY <1>1 DEF IInv
  <2> QED
    BY <2>1, <2>2, <2>3, <2>5, <2>6, <2>7, <1>2, <1>3, <1>4, <1>8, <1>9, HandOver
<1> QED
  BY <1>2, <1>5, <1>8, <1>10 DEF IInv, Typed

(* A call before it leaves.                                                *)
ToStart(call) ==
  /\ call \in CallRecords /\ call.tab \in Tabs /\ call.at = "idle"
  /\ call.pair = 0 /\ call.refresh <= issued
  /\ call.kind = "login" => call.subject \in Accounts

LEMMA StartStep ==
  ASSUME IInv, NEW c \in Calls, NEW call, ToStart(call), Start(c, call)
  PROVE  IInv'
<1> DEFINE t == call.tab
           d == [call EXCEPT !.at = "waiting"]
<1>1. /\ Aside /\ Counted /\ Leaves(c, call)
      /\ call.kind = "read" => screen[t] = "shell"
  BY SessionAssumption DEF Start, Aside, Counted, IInv, Typed, HistoryOK
<1>2. t \in Tabs /\ mem[t] \in Sessions /\ mem[t].pair <= issued /\ issued \in Nat
  BY SessionAssumption DEF ToStart, IInv, Typed, TabsOK, ServerOK
<1>3. CallOK(d, issued) /\ d.at = "waiting" /\ d.tab = t /\ d.kind = call.kind
  BY <1>2, SessionAssumption DEF ToStart, CallOK, CallRecords, IdleCall
<1> HIDE DEF d
<1>4. ASSUME NEW s \in Sessions, s.pair <= issued
      PROVE  /\ CallOK(Sent(call, s), issued) /\ Sent(call, s).at = "sent"
             /\ Sent(call, s).kind = call.kind /\ Sent(call, s).tab = t
  <2> DEFINE x == [call EXCEPT !.at = "sent"]
             y == [x EXCEPT !.pair = s.pair]
  <2>1. /\ x \in CallRecords /\ x.at = "sent" /\ x.tab = t /\ x.kind = call.kind
        /\ x.refresh = call.refresh /\ x.subject = call.subject
    BY DEF ToStart, CallRecords
  <2>2. y = Sent(call, s)
    BY DEF Sent
  <2> HIDE DEF x
  <2>3. /\ y \in CallRecords /\ y.at = "sent" /\ y.tab = t /\ y.kind = call.kind
        /\ y.refresh = call.refresh /\ y.subject = call.subject /\ y.pair = s.pair
    BY <2>1, <1>4, SessionFacts DEF CallRecords
  <2> HIDE DEF y
  <2> QED
    BY <2>2, <2>3, <1>2, <1>4, SessionAssumption DEF CallOK, ToStart
<1>5. ASSUME NEW s \in Sessions, s.pair <= issued
      PROVE  Sound([calls EXCEPT ![c] = Sent(call, s)])
  <2> DEFINE x == Sent(call, s)
  <2>1. /\ CallOK(x, issued) /\ x.at # "answered"
        /\ x.kind = "read" /\ x.tab \in Tabs => screen[x.tab] = "shell"
    BY <1>1, <1>4, <1>5
  <2> HIDE DEF x
  <2>2. Sound([calls EXCEPT ![c] = x])
    BY <2>1, OneIsSound
  <2> QED
    BY <2>2 DEF x
<1>6. CASE SignedIn(t) /\ AccessExpired(t) /\ RefreshExpired(t)
  <2> DEFINE x == IF call.kind = "stream" THEN IdleCall ELSE Sent(call, SignedOut)
             cs == [calls EXCEPT ![c] = x]
  <2>1. SessionSet(t, SignedOut, cs) /\ UNCHANGED exchanges
    BY <1>1, <1>6 DEF Leaves
  <2>2. Sound(cs)
    <3>1. CallOK(IdleCall, issued) /\ IdleCall.at # "answered" /\ IdleCall.tab \notin Tabs
      BY <1>2, IdleIsCall, SessionAssumption DEF IdleCall
    <3>2. Sound([calls EXCEPT ![c] = IdleCall])
      BY <3>1, OneIsSound
    <3>3. Sound([calls EXCEPT ![c] = Sent(call, SignedOut)])
      BY <1>5, NoTokenIsZero
    <3> QED
      BY <3>2, <3>3
  <2> HIDE DEF cs
  <2> QED
    BY <1>1, <1>2, <2>1, <2>2, EndSession
<1>7. CASE SignedIn(t) /\ AccessExpired(t) /\ ~RefreshExpired(t)
  <2> DEFINE cs == [calls EXCEPT ![c] = d]
  <2>1. exchanges' = Exchanging(t) /\ SessionKept(cs)
    BY <1>1, <1>7 DEF Leaves, d
  <2>2. Sound(cs)
    BY <1>1, <1>3, OneIsSound
  <2> HIDE DEF cs
  <2> QED
    BY <1>1, <1>2, <1>7, <2>1, <2>2, KeepSession
<1>8. CASE ~(SignedIn(t) /\ AccessExpired(t))
  <2> DEFINE cs == [calls EXCEPT ![c] = Sent(call, mem[t])]
  <2>1. SessionKept(cs) /\ UNCHANGED exchanges
    BY <1>1, <1>8 DEF Leaves
  <2>2. Sound(cs)
    BY <1>2, <1>5
  <2> HIDE DEF cs
  <2> QED
    BY <1>1, <2>1, <2>2, KeepSession
<1> QED
  BY <1>6, <1>7, <1>8

LEMMA NewCallStarts ==
  ASSUME IInv, NEW t \in Tabs, NEW kind \in AllKinds \ {"login"}, NEW k \in 0..MaxPairs,
         k <= issued
  PROVE  /\ ToStart(NewCall(t, kind))
         /\ ToStart([NewCall(t, kind) EXCEPT !.refresh = k])
         /\ \A a \in Accounts : ToStart([NewCall(t, "login") EXCEPT !.subject = a])
<1>1. issued \in Nat
  BY SessionAssumption DEF IInv, Typed, ServerOK
<1>2. ASSUME NEW how \in AllKinds
      PROVE  /\ NewCall(t, how) \in CallRecords
             /\ NewCall(t, how).at = "idle" /\ NewCall(t, how).kind = how
             /\ NewCall(t, how).tab = t /\ NewCall(t, how).pair = 0
             /\ NewCall(t, how).refresh = 0
  <2> DEFINE x == [IdleCall EXCEPT !.kind = how]
             y == [x EXCEPT !.tab = t]
  <2>1. /\ x \in CallRecords /\ x.at = "idle" /\ x.kind = how
        /\ x.pair = 0 /\ x.refresh = 0
    <3>1. /\ IdleCall \in CallRecords /\ IdleCall.at = "idle"
          /\ IdleCall.pair = 0 /\ IdleCall.refresh = 0
      BY IdleIsCall DEF IdleCall
    <3> QED
      BY <3>1 DEF CallRecords
  <2>2. y = NewCall(t, how)
    BY DEF NewCall
  <2> HIDE DEF x
  <2>3. /\ y \in CallRecords /\ y.at = "idle" /\ y.kind = how /\ y.tab = t
        /\ y.pair = 0 /\ y.refresh = 0
    BY <2>1 DEF CallRecords
  <2> QED
    BY <2>2, <2>3
<1>3. ToStart(NewCall(t, kind))
  BY <1>1, <1>2 DEF ToStart
<1>4. ToStart([NewCall(t, kind) EXCEPT !.refresh = k])
  <2> DEFINE x == NewCall(t, kind)
             y == [x EXCEPT !.refresh = k]
  <2>1. /\ x \in CallRecords /\ x.at = "idle" /\ x.kind # "login" /\ x.tab = t /\ x.pair = 0
    BY <1>2
  <2> HIDE DEF x
  <2>2. /\ y \in CallRecords /\ y.at = "idle" /\ y.kind # "login" /\ y.tab = t
        /\ y.pair = 0 /\ y.refresh = k
    BY <2>1 DEF CallRecords
  <2> HIDE DEF y
  <2>3. ToStart(y)
    BY <2>2 DEF ToStart
  <2> QED
    BY <2>3 DEF x, y
<1>5. ASSUME NEW a \in Accounts
      PROVE  ToStart([NewCall(t, "login") EXCEPT !.subject = a])
  <2> DEFINE x == NewCall(t, "login")
             y == [x EXCEPT !.subject = a]
  <2>1. /\ x \in CallRecords /\ x.at = "idle" /\ x.tab = t /\ x.pair = 0 /\ x.refresh = 0
    BY <1>2 DEF AllKinds
  <2> HIDE DEF x
  <2>2. /\ y \in CallRecords /\ y.at = "idle" /\ y.tab = t
        /\ y.pair = 0 /\ y.refresh = 0 /\ y.subject = a
    BY <2>1 DEF CallRecords
  <2> HIDE DEF y
  <2>3. ToStart(y)
    BY <2>2, <1>1 DEF ToStart
  <2> QED
    BY <2>3 DEF x, y
<1> QED
  BY <1>3, <1>4, <1>5

LEMMA StartsStep ==
  ASSUME IInv, NEW t \in Tabs, NEW c \in Calls,
         \/ \E a \in Accounts : SignIn(t, c, a)
         \/ Load(t, c) \/ Chat(t, c) \/ Rename(t, c) \/ ChangePassword(t, c)
         \/ SignOut(t, c)
         \/ \E k \in 1..issued : RevokeDevice(t, c, k)
  PROVE  IInv'
<1>1. mem[t].pair \in 0..MaxPairs /\ mem[t].pair <= issued
  BY SessionFacts DEF IInv, Typed, TabsOK
<1>2. 0 \in 0..MaxPairs /\ 0 <= issued
  BY SessionAssumption DEF IInv, Typed, ServerOK
<1>3. ASSUME NEW k \in 1..issued
      PROVE  k \in 0..MaxPairs /\ k <= issued
  BY SessionAssumption DEF IInv, Typed, ServerOK
<1>4. ASSUME NEW a \in Accounts, SignIn(t, c, a) PROVE IInv'
  <2> DEFINE call == [NewCall(t, "login") EXCEPT !.subject = a]
  <2>1. "read" \in AllKinds \ {"login"}
    BY DEF AllKinds
  <2>2. ToStart(call)
    BY <1>2, <2>1, NewCallStarts
  <2>3. Start(c, call)
    BY <1>4 DEF SignIn
  <2> HIDE DEF call
  <2> QED
    BY <2>2, <2>3, StartStep
<1>5. ASSUME Load(t, c) \/ Chat(t, c) \/ Rename(t, c) \/ ChangePassword(t, c) PROVE IInv'
  BY <1>2, <1>5, NewCallStarts, StartStep
     DEF Load, Chat, Rename, ChangePassword, AllKinds
<1>6. ASSUME SignOut(t, c) PROVE IInv'
  BY <1>1, <1>6, NewCallStarts, StartStep DEF SignOut, AllKinds
<1>7. ASSUME NEW k \in 1..issued, RevokeDevice(t, c, k) PROVE IInv'
  BY <1>3, <1>7, NewCallStarts, StartStep DEF RevokeDevice, AllKinds
<1> QED
  BY <1>4, <1>5, <1>6, <1>7

(* A call that is in flight is some tab's; when it is over, that moves it.  *)
LEMMA InFlightCall ==
  ASSUME IInv, NEW c \in Calls, calls[c].at # "idle"
  PROVE  /\ calls[c].tab \in Tabs /\ CallOK(calls[c], issued)
         /\ Sound([calls EXCEPT ![c] = IdleCall])
<1>1. CallOK(calls[c], issued) /\ calls[c].tab \in Tabs
  BY DEF IInv, Typed, CallsOK, CallOK, CallRecords, IdleCall
<1>2. Moves(calls, [calls EXCEPT ![c] = IdleCall])
  BY IdleIsCall, OneMoves DEF IInv, Typed, CallsOK
<1> QED
  BY <1>1, <1>2, MovesAreSound

LEMMA FailsStep ==
  ASSUME IInv, Aside, Counted, UNCHANGED exchanges, NEW c \in Calls, calls[c].at # "idle",
         Fails(calls[c], [calls EXCEPT ![c] = IdleCall])
  PROVE  IInv'
<1> DEFINE cs == [calls EXCEPT ![c] = IdleCall]
<1>1. Sound(cs) /\ calls[c].tab \in Tabs
  BY InFlightCall
<1>2. SessionSet(calls[c].tab, SignedOut, cs) \/ SessionKept(cs)
  BY DEF Fails
<1> HIDE DEF cs
<1> QED
  BY <1>1, <1>2, EndSession, KeepSession

LEMMA FailStep ==
  ASSUME IInv, NEW c \in Calls, Fail(c)
  PROVE  IInv'
<1>1. Aside /\ Counted /\ UNCHANGED exchanges
  BY SessionAssumption DEF Fail, Happens, Aside, Counted, IInv, Typed, HistoryOK
<1> QED
  BY <1>1, FailsStep DEF Fail

LEMMA HearRefusalStep ==
  ASSUME IInv, NEW c \in Calls, HearRefusal(c)
  PROVE  IInv'
<1> DEFINE call == calls[c]
<1>1. Aside /\ Counted /\ call.at = "refused"
  BY DEF HearRefusal, Aside, Counted, IInv, Typed, HistoryOK
<1>2. CASE ~Retriable(call)
  BY <1>1, <1>2, FailsStep DEF HearRefusal
<1>3. CASE Retriable(call) /\ call.kind = "stream" /\ RefreshExpired(call.tab)
  <2> DEFINE cs == [calls EXCEPT ![c] = IdleCall]
  <2>1. SessionSet(call.tab, SignedOut, cs) /\ UNCHANGED exchanges
    BY <1>3 DEF HearRefusal
  <2>2. Sound(cs) /\ call.tab \in Tabs
    BY <1>1, InFlightCall
  <2> HIDE DEF cs
  <2> QED
    BY <1>1, <2>1, <2>2, EndSession
<1>4. CASE Retriable(call) /\ ~(call.kind = "stream" /\ RefreshExpired(call.tab))
  <2> DEFINE d == [call EXCEPT !.at = "renewing"]
             cs == [calls EXCEPT ![c] = d]
  <2>1. exchanges' = Exchanging(call.tab) /\ SessionKept(cs)
    BY <1>4 DEF HearRefusal
  <2>2. CallOK(call, issued) /\ call.tab \in Tabs /\ SignedIn(call.tab)
    BY <1>1, <1>4, InFlightCall DEF Retriable
  <2>3. GoesOn(call, d) /\ d \in CallRecords
    BY <1>1, <2>2, SessionAssumption DEF GoesOn, CallOK, CallRecords, IdleCall
  <2> HIDE DEF d
  <2>4. Sound(cs)
    BY <2>3, OneMoves, MovesAreSound DEF IInv, Typed, CallsOK
  <2> HIDE DEF cs
  <2> QED
    BY <1>1, <2>1, <2>2, <2>4, KeepSession
<1> QED
  BY <1>2, <1>3, <1>4

-----------------------------------------------------------------------------
(* What the page does with an answer.                                      *)

(* A tab keeps a session of its own, or is handed a new one, by a call that *)
(* is over when the session is set.                                        *)
LEMMA HearSession ==
  ASSUME IInv, NEW c \in Calls, calls[c].at = "answered",
         NEW s \in Sessions, s.pair <= issued,
         UNCHANGED <<server, clocks, exchanges, started, events, presented, unheard>>,
         putBack \subseteq putBack', putBack' \subseteq Pairs,
         SessionSet(calls[c].tab, s, [calls EXCEPT ![c] = IdleCall]),
         \A e \in exchanges : e.at = "granted" => e.pair # s.pair,
         \A d \in Calls \ {c} : Bears(d) => calls[d].refresh # s.pair,
         \A p \in presented :
           p.end = "exchanged" /\ p.refresh = s.pair => p.refresh \in putBack'
  PROVE  IInv'
<1> DEFINE t == calls[c].tab
           cs == [calls EXCEPT ![c] = IdleCall]
<1>1. /\ t \in Tabs /\ Sound(cs)
      /\ \A d \in Calls : cs[d] = IF d = c THEN IdleCall ELSE calls[d]
  BY InFlightCall DEF IInv, Typed, CallsOK
<1>2. UNCHANGED <<issued, owner, origin, retired, due, dead, over>>
  BY DEF server, clocks
<1>3. SessionSet(t, s, cs)
  OBVIOUS
<1> HIDE DEF cs, t
<1>4. /\ TabsOK' /\ CallsOK(calls', issued) /\ Blank'
      /\ mem' = [mem EXCEPT ![t] = s]
      /\ stored' = [stored EXCEPT ![BrowserOf[t]] = s]
      /\ Moves(cs, calls')
  BY <1>1, <1>2, <1>3, SessionSetStep DEF IInv, Sound
<1>5. Unanswered
  BY <1>1, <1>4, SoundIsUnanswered
<1>6. ServerOK' /\ HistoryOK' /\ RefreshesOK'
  BY <1>2 DEF IInv, Typed, ServerOK, HistoryOK, RefreshesOK
<1>7. Tokens'
  <2>1. \A d \in Calls : Bears(d)' => d # c /\ Bears(d) /\ calls'[d] = calls[d]
    <3>1. issued \in Nat
      BY SessionAssumption DEF IInv, Typed, ServerOK
    <3>2. \A d \in Calls : calls'[d].at = "answered" => calls'[d] = cs[d]
      BY <3>1, <1>1, <1>4, MovesKeep DEF Sound
    <3> QED
      BY <3>2, <1>1 DEF Bears, IdleCall
  <2>2. Remembered
    BY DEF Remembered
  <2>3. \A p \in presented :
           p.end = "exchanged" /\ p.refresh = s.pair => p.refresh \in Excused'
    BY DEF Excused
  <2>4. /\ Typed /\ Tokens /\ exchanges' \subseteq exchanges
        /\ \A e \in exchanges' : e.at = "granted" => e.pair # s.pair
        /\ \A d \in Calls : Bears(d)' => calls'[d].refresh # s.pair
        /\ \A e \in exchanges \ exchanges' :
             e.tab = t /\ (e.refresh \in unheard' \/ e.refresh # s.pair)
    BY <2>1 DEF IInv
  <2> QED
    BY <2>2, <2>3, <2>4, <1>1, <1>2, <1>4, <1>5, HandOver
<1> QED
  BY <1>2, <1>4, <1>6, <1>7 DEF IInv, Typed

LEMMA HearStep ==
  ASSUME IInv, NEW c \in Calls, Hear(c)
  PROVE  IInv'
<1> DEFINE call == calls[c]
           t == call.tab
           rest == [calls EXCEPT ![c] = IdleCall]
           new == [pair |-> call.refresh, user |-> owner[call.refresh]]
           renamed == [pair |-> mem[t].pair, user |-> owner[call.pair]]
<1>1. /\ call.at = "answered"
      /\ UNCHANGED <<server, clocks, exchanges, started, events, presented, unheard>>
      /\ putBack' = putBack \cup
           (IF call.kind = "rename" /\ SignedIn(t) /\ retired[mem[t].pair] # "no"
            THEN {mem[t].pair} ELSE {})
  BY DEF Hear
<1>2. t \in Tabs /\ CallOK(call, issued) /\ Sound(rest)
  BY <1>1, InFlightCall
<1>3. call.kind \in {"login", "change"} =>
        /\ new \in Sessions /\ new.pair <= issued /\ Bears(c)
        /\ new.pair = call.refresh /\ new.pair \in Pairs
  <2>1. call.kind \in {"login", "change"} => call.refresh \in 1..issued
    BY <1>1, <1>2 DEF CallOK, CallRecords
  <2> QED
    BY <2>1, <1>1, SessionAssumption DEF IInv, Typed, ServerOK, Sessions, Pairs, Bears
<1>4. /\ \A e \in exchanges : Bears(c) /\ e.at = "granted" => e.pair # call.refresh
      /\ \A d \in Calls \ {c} : Bears(c) /\ Bears(d) => calls[d].refresh # call.refresh
      /\ \A p \in presented : Bears(c) => p.refresh # call.refresh
  BY DEF IInv, Tokens, Fresh, Unseen
<1>5. putBack \subseteq putBack' /\ putBack' \subseteq Pairs
  BY <1>1, <1>2, SessionFacts DEF SignedIn, IInv, Typed, TabsOK, HistoryOK
<1>6. UNCHANGED ghosts \/ call.kind = "rename"
  BY <1>1 DEF ghosts
<1>7. Counted
  BY <1>1 DEF Counted, IInv, Typed, HistoryOK
<1>8. CASE call.kind = "login"
  <2>1. /\ mem' = [mem EXCEPT ![t] = new]
        /\ stored' = [stored EXCEPT ![BrowserOf[t]] = new]
        /\ told' = told \cup Others(t)
        /\ screen' = [screen EXCEPT ![t] = "shell"]
        /\ cache' = [cache EXCEPT ![t] = {}]
        /\ calls' = Cancelled(rest, t)
    BY <1>8 DEF Hear
  <2>2. /\ new \in Sessions /\ new.pair <= issued /\ Bears(c) /\ new.pair = call.refresh
    BY <1>3, <1>8
  <2>3. UNCHANGED <<issued, owner, origin, retired, due, dead, over, putBack>>
    BY <1>1, <1>8 DEF server, clocks
  <2>4. \A d \in Calls : rest[d] = IF d = c THEN IdleCall ELSE calls[d]
    BY DEF IInv, Typed, CallsOK
  <2> HIDE DEF new, rest, t
  <2>5. Moves(rest, calls') /\ Queries(calls', t) = {}
    BY <2>1, <1>2, CancelledMoves DEF Sound, CallsOK
  <2>6. /\ CallsOK(calls', issued) /\ Quiet(calls')
        /\ \A d \in Calls : calls'[d].at = "answered" => calls'[d] = rest[d]
    BY <2>5, <1>2, MovesKeep, SessionAssumption DEF Sound, IInv, Typed, ServerOK
  <2>7. TabsOK'
    BY <2>1, <2>2, <2>3, <1>2, SessionAssumption DEF IInv, Typed, TabsOK, Others
  <2>8. Blank'
    <3>1. ASSUME NEW u \in Tabs, screen'[u] = "sign-in"
          PROVE  cache'[u] = {} /\ Queries(calls', u) = {}
      <4>1. u # t /\ screen[u] = "sign-in" /\ cache'[u] = cache[u]
        BY <3>1, <2>1, <1>2 DEF IInv, Typed, TabsOK
      <4> QED
        BY <4>1, <2>6 DEF IInv, Blank, SignInPageIsBlank, Quiet
    <3> QED
      BY <3>1 DEF Blank, SignInPageIsBlank, Quiet, Queries
  <2>9. ServerOK' /\ HistoryOK' /\ RefreshesOK'
    BY <1>1, <2>3 DEF IInv, Typed, ServerOK, HistoryOK, RefreshesOK
  <2>10. Tokens'
    <3>1. \A d \in Calls : Bears(d)' => d # c /\ Bears(d) /\ calls'[d] = calls[d]
      BY <2>4, <2>6 DEF Bears, IdleCall
    <3>2. Remembered /\ Unanswered
      BY <1>1, <2>3, <3>1 DEF Remembered, Unanswered
    <3>3. /\ Typed /\ Tokens /\ exchanges' \subseteq exchanges
          /\ \A e \in exchanges' : e.at = "granted" => e.pair # new.pair
          /\ \A d \in Calls : Bears(d)' => calls'[d].refresh # new.pair
          /\ \A p \in presented :
               p.end = "exchanged" /\ p.refresh = new.pair => p.refresh \in Excused'
          /\ \A e \in exchanges \ exchanges' :
               e.tab = t /\ (e.refresh \in unheard' \/ e.refresh # new.pair)
      BY <3>1, <2>2, <1>1, <1>4 DEF IInv
    <3> QED
      BY <3>2, <3>3, <2>1, <2>2, <2>3, <1>2, HandOver
  <2> QED
    BY <2>3, <2>6, <2>7, <2>8, <2>9, <2>10 DEF IInv, Typed
<1>9. CASE call.kind = "change"
  <2>1. SessionSet(t, new, rest)
    BY <1>9 DEF Hear
  <2>2. /\ new \in Sessions /\ new.pair <= issued /\ Bears(c) /\ new.pair = call.refresh
    BY <1>3, <1>9
  <2> HIDE DEF new
  <2> QED
    BY <2>1, <2>2, <1>1, <1>4, <1>5, HearSession
<1>10. CASE call.kind = "logout"
  <2>1. SessionSet(t, SignedOut, rest)
    BY <1>10 DEF Hear
  <2>2. Aside /\ UNCHANGED exchanges
    BY <1>1, <1>6, <1>10 DEF Aside
  <2> HIDE DEF rest, t
  <2> QED
    BY <2>1, <2>2, <1>2, <1>7, EndSession
<1>11. CASE call.kind = "rename" /\ SignedIn(t)
  <2>1. SessionSet(t, renamed, rest)
    BY <1>11 DEF Hear
  <2>2. mem[t].pair \in Pairs /\ mem[t].pair <= issued
    BY <1>2, <1>11, SessionFacts DEF SignedIn, IInv, Typed, TabsOK
  <2>3. call.pair \in 1..issued
    BY <1>1, <1>2, <1>11 DEF CallOK, CallRecords
  <2>4. renamed \in Sessions /\ renamed.pair = mem[t].pair
    BY <2>2, <2>3 DEF IInv, Typed, ServerOK, Sessions
  <2>5. \A e \in exchanges : e.at = "granted" => e.pair # mem[t].pair
    BY <1>2 DEF IInv, Tokens, Fresh, Unseen
  <2>6. \A d \in Calls \ {c} : Bears(d) => calls[d].refresh # mem[t].pair
    BY <1>2 DEF IInv, Tokens, Fresh, Unseen
  <2>7. \A p \in presented :
          p.end = "exchanged" /\ p.refresh = mem[t].pair => p.refresh \in putBack'
    BY <1>1, <1>11 DEF IInv, Tokens, Presentations
  <2> HIDE DEF renamed
  <2> QED
    BY <2>1, <2>2, <2>4, <2>5, <2>6, <2>7, <1>1, <1>5, HearSession
<1>12. CASE call.kind = "read"
  <2>1. /\ cache' = [cache EXCEPT ![t] = @ \cup {owner[call.pair]}]
        /\ calls' = rest
        /\ UNCHANGED <<stored, mem, told, screen>>
    BY <1>12 DEF Hear
  <2>2. call.pair \in 1..issued
    BY <1>1, <1>2, <1>12 DEF CallOK, CallRecords
  <2>3. screen[t] # "sign-in"
    BY <1>12, <1>2 DEF IInv, Blank, Quiet, Queries
  <2>4. UNCHANGED <<issued, owner, origin, retired, due, dead, over, putBack>>
    BY <1>1, <1>12 DEF server, clocks
  <2>5. TabsOK'
    BY <2>1, <2>2, <2>4, <1>2 DEF IInv, Typed, TabsOK, ServerOK
  <2>6. ServerOK' /\ HistoryOK' /\ RefreshesOK'
    BY <1>1, <2>4 DEF IInv, Typed, ServerOK, HistoryOK, RefreshesOK
  <2>7. CallsOK(calls', issued) /\ Quiet(calls)
    BY <2>1, <1>2 DEF Sound, IInv, Blank
  <2>8. Blank'
    <3>1. Quiet(rest)
      BY <1>2 DEF Sound
    <3> HIDE DEF rest
    <3> QED
      BY <3>1, <2>1, <2>3, <1>2
         DEF IInv, Typed, TabsOK, Blank, SignInPageIsBlank, Quiet, Queries
  <2>9. Tokens'
    <3>1. Unanswered
      BY <2>1, <1>2 DEF Unanswered, Sound, Bears
    <3>2. Remembered
      BY <1>1, <2>4 DEF Remembered
    <3>3. Typed /\ Tokens
      BY DEF IInv
    <3> QED
      BY <3>1, <3>2, <3>3, <2>1, <2>4, <1>1, <1>2, FromStorage
  <2> QED
    BY <2>1, <2>4, <2>5, <2>6, <2>7, <2>8, <2>9 DEF IInv, Typed
<1>13. CASE /\ call.kind \notin {"login", "change", "logout", "read"}
            /\ ~(call.kind = "rename" /\ SignedIn(t))
  <2>1. SessionKept(rest)
    BY <1>13 DEF Hear
  <2>2. Aside /\ UNCHANGED exchanges
    BY <1>1, <1>13 DEF Aside, ghosts
  <2> HIDE DEF rest
  <2> QED
    BY <2>1, <2>2, <1>2, <1>7, KeepSession
<1> QED
  BY <1>8, <1>9, <1>10, <1>11, <1>12, <1>13

-----------------------------------------------------------------------------
(* The invariant is inductive.                                             *)

LEMMA InitIInv == ASSUME Init PROVE IInv
<1>1. Typed
  <2>1. ServerOK
    BY SessionAssumption DEF Init, ServerOK, Pairs
  <2>2. SignedOut \in Sessions /\ SignedOut.pair = 0 /\ issued = 0
    BY DEF Init, Sessions, SignedOut
  <2>3. TabsOK
    BY <2>2 DEF Init, TabsOK
  <2>4. CallsOK(calls, issued)
    BY IdleIsCall DEF Init, CallsOK
  <2>5. RefreshesOK /\ HistoryOK
    BY SessionAssumption DEF Init, RefreshesOK, HistoryOK
  <2> QED
    BY <2>1, <2>3, <2>4, <2>5 DEF Typed
<1>2. Blank
  BY SessionAssumption DEF Init, Blank, SignInPageIsBlank, Quiet, Queries, IdleCall
<1>3. Tokens
  <2>1. \A c \in Calls : ~Bears(c)
    BY DEF Init, Bears, IdleCall
  <2> QED
    BY <2>1 DEF Init, Tokens, Fresh, SingleFlight, Presentations, NeverReplaysItself
<1> QED
  BY <1>1, <1>2, <1>3 DEF IInv

LEMMA NextIInv == ASSUME IInv, [Next]_vars PROVE IInv'
<1>1. ASSUME NEW t \in Tabs, NEW c \in Calls,
             \/ \E a \in Accounts : SignIn(t, c, a)
             \/ Load(t, c) \/ Chat(t, c) \/ Rename(t, c) \/ ChangePassword(t, c)
             \/ SignOut(t, c)
             \/ \E k \in 1..issued : RevokeDevice(t, c, k)
      PROVE  IInv'
  BY <1>1, StartsStep
<1>2. ASSUME NEW c \in Calls, Serve(c) \/ Fail(c) \/ Hear(c) \/ HearRefusal(c)
      PROVE  IInv'
  BY <1>2, ServeStep, FailStep, HearStep, HearRefusalStep
<1>3. ASSUME NEW e \in exchanges, Rotate(e) \/ LoseExchange(e) \/ Settle(e)
      PROVE  IInv'
  BY <1>3, RotateStep, LoseExchangeStep, SettleStep
<1>4. ASSUME NEW t \in Tabs, HearStorage(t) \/ Watchdog(t) \/ Reload(t)
      PROVE  IInv'
  BY <1>4, HearStorageStep, WatchdogStep, ReloadStep
<1>5. CASE TimePasses
  BY <1>5, TimePassesStep
<1>6. CASE UNCHANGED vars
  <2>1. UNCHANGED <<issued, owner, origin, retired, due, dead, over, stored, mem, told,
                    screen, cache, exchanges, calls, started, events, presented,
                    unheard, putBack>>
    BY <1>6 DEF vars, server, clocks, tabs, ghosts
  <2>2. Typed'
    BY <2>1 DEF IInv, Typed, ServerOK, TabsOK, CallsOK, RefreshesOK, HistoryOK
  <2>3. Blank' /\ Tokens'
    BY <2>1 DEF IInv, Blank, SignInPageIsBlank, Quiet, Queries, Tokens, Fresh, Unseen,
                Bears, SingleFlight, Presentations, Used, NeverReplaysItself, Excused
  <2> QED
    BY <2>2, <2>3 DEF IInv
<1> QED
  BY <1>1, <1>2, <1>3, <1>4, <1>5, <1>6 DEF Next

LEMMA Inductive == Spec => []IInv
  BY InitIInv, NextIInv, PTL DEF Spec

-----------------------------------------------------------------------------

(* What a browser stores and a tab holds is a pair that was issued, and     *)
(* every call and refresh in flight is one the transport makes (client.ts,  *)
(* session.ts).                                                            *)
THEOREM TypesHold == Spec => []TypeOK
<1>1. IInv => TypeOK
  BY DEF IInv, Typed, ServerOK, TabsOK, CallsOK, RefreshesOK, HistoryOK, TypeOK,
         Exchange1, Presented1
<1> QED
  BY <1>1, Inductive, PTL

(* The sign-in page holds nothing an account has loaded                     *)
(* (require-session.tsx:44-46, auth.ts:29-33).                             *)
THEOREM SignInPageStaysBlank == Spec => []SignInPageIsBlank
<1>1. IInv => SignInPageIsBlank
  BY DEF IInv, Blank
<1> QED
  BY <1>1, Inductive, PTL

(* The API never sees a tab present a refresh token the same tab has        *)
(* exchanged, unless the answer was lost or a rename put the token back     *)
(* into storage (client.ts:172-179).                                       *)
THEOREM TabsNeverReplayThemselves == Spec => []NeverReplaysItself
<1>1. IInv => NeverReplaysItself
  BY DEF IInv, Tokens
<1> QED
  BY <1>1, Inductive, PTL

=============================================================================
