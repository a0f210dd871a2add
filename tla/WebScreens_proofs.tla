--------------------------- MODULE WebScreens_proofs ---------------------------
(***************************************************************************)
(* Proofs about the screens of the web application.  Of Environments, the   *)
(* form that edits an environment and the service that stores it: for every *)
(* set of people, environments and variables, with or without an encryption *)
(* key.  Of Screens, the lists: for every start, every way through the      *)
(* screens, any number of visits, requests and reads that fail.             *)
(***************************************************************************)
EXTENDS Environments, Screens, TLAPS

-----------------------------------------------------------------------------
(* The inductive invariant.                                                *)

(* What may be stored under the key k of the environment e.                *)
Stored(e, k) ==
  {NoVariable, Variable(TRUE, Typed(e, k, TRUE)),
   Variable(FALSE, Typed(e, k, FALSE)), Variable(FALSE, Blank)}

(* What may be sent for it: also a secret whose value is left out.         *)
Given(e, k) == Stored(e, k) \cup {Variable(TRUE, Omitted)}

AreStored(e, variables) ==
  /\ variables \in [Keys -> Variables]
  /\ \A k \in Keys : variables[k] \in Stored(e, k)

PresentRow(e, row) ==
  /\ row \in [state : {"present"}, isDefault : BOOLEAN, variables : [Keys -> Variables]]
  /\ AreStored(e, row.variables)

Rows ==
  /\ rows = [e \in Names |-> rows[e]]
  /\ \A e \in Names : rows[e] \in {Never, Deleted} \/ PresentRow(e, rows[e])

(* A request on its way, and one that has read.                            *)
Sent(r) ==
  /\ r.stage = "out"
  /\ r.name \in Names
  /\ r.kind \in {"create", "update", "delete"}
  /\ r.isDefault \in BOOLEAN
  /\ \A k \in Keys : r.input[k] \in Given(r.name, k)

HasRead(r) ==
  /\ r = [stage |-> "read", name |-> r.name, after |-> r.after, kind |-> r.kind,
          previous |-> r.previous, writes |-> r.writes, outdated |-> r.outdated]
  /\ r.name \in Names
  /\ r.kind \in {"create", "update", "delete"}
  /\ IF r.kind = "delete" THEN r.after = Deleted ELSE PresentRow(r.name, r.after)

Requests ==
  /\ request = [c \in Clients |-> request[c]]
  /\ \A c \in Clients :
       request[c] = NoRequest \/ Sent(request[c]) \/ HasRead(request[c])

Dialogs ==
  /\ forms = [c \in Clients |-> forms[c]]
  /\ \A c \in Clients : forms[c] = NoForm \/ forms[c].name \in Names

IInv == Rows /\ Requests /\ Dialogs /\ saves \in 0..MaxSaves

-----------------------------------------------------------------------------
LEMMA StoredIsVariable ==
  ASSUME NEW e \in Names, NEW k \in Keys
  PROVE  Stored(e, k) \subseteq Variables
<1>1. /\ Blank \in Values
      /\ \A s \in BOOLEAN : Typed(e, k, s) \in Values
  BY DEF Values
<1>2. \A s \in BOOLEAN, v \in Values : Variable(s, v) \in Variables
  BY DEF Variables
<1>3. NoVariable \in Variables
  BY DEF Variables
<1> QED
  BY <1>1, <1>2, <1>3 DEF Stored

(* What a stored variable says of its value.                               *)
LEMMA StoredValue ==
  ASSUME NEW e, NEW k, NEW v \in Stored(e, k), v.kept
  PROVE  IF v.secret THEN v.value = Typed(e, k, TRUE)
         ELSE v.value \in {Blank, Typed(e, k, FALSE)}
<1>1. v # NoVariable
  BY DEF NoVariable
<1>2. ASSUME NEW s \in BOOLEAN, NEW value, v = Variable(s, value)
      PROVE  v.secret = s /\ v.value = value
  BY <1>2 DEF Variable
<1>3. CASE v = Variable(TRUE, Typed(e, k, TRUE))
  BY <1>2, <1>3
<1>4. CASE v \in {Variable(FALSE, Typed(e, k, FALSE)), Variable(FALSE, Blank)}
  BY <1>2, <1>4
<1> QED
  BY <1>1, <1>3, <1>4 DEF Stored

LEMMA PresentIsRow ==
  ASSUME Rows, NEW e \in Present
  PROVE  e \in Names /\ PresentRow(e, rows[e])
  BY DEF Rows, Present, Never, Deleted

LEMMA NoVariablesAreStored ==
  ASSUME NEW e PROVE AreStored(e, NoVariables)
  BY DEF AreStored, NoVariables, Stored, Variables

(* What a form is sent as. *)
LEMMA InputIsGiven ==
  ASSUME NEW e, NEW stored, NEW form \in Edited(stored), NEW k \in Keys
  PROVE  ToInput(e, form)[k] \in Given(e, k)
<1>1. form[k] \in FormRows
  BY DEF Edited
<1>2. CASE form[k] = NoVariable
  <2>1. form[k].kept = FALSE
    BY <1>2 DEF NoVariable
  <2> QED
    BY <2>1 DEF ToInput, Given, Stored
<1>3. ASSUME NEW f \in BOOLEAN, NEW s \in BOOLEAN, NEW st \in BOOLEAN,
             form[k] = FormRow(f, s, st)
      PROVE  ToInput(e, form)[k] \in Given(e, k)
  <2>1. form[k].kept = TRUE /\ form[k].filled = f /\ form[k].secret = s
    BY <1>3 DEF FormRow
  <2> QED
    BY <2>1 DEF ToInput, Given, Stored
<1> QED
  BY <1>1, <1>2, <1>3 DEF FormRows

(* What the service makes of it is a text of its own key again.            *)
LEMMA GivenIsStored ==
  ASSUME NEW e \in Names, NEW input, NEW existing,
         \A k \in Keys : input[k] \in Given(e, k),
         AreStored(e, existing)
  PROVE  AreStored(e, VariablesOf(input, existing))
<1> SUFFICES ASSUME NEW k \in Keys
             PROVE  VariablesOf(input, existing)[k] \in Stored(e, k)
  BY StoredIsVariable DEF AreStored, VariablesOf
<1>1. existing[k] \in Stored(e, k)
  BY DEF AreStored
<1>2. ASSUME NEW s \in BOOLEAN, NEW v, input[k] = Variable(s, v),
             input[k] \in Given(e, k)
      PROVE  VariablesOf(input, existing)[k] \in Stored(e, k)
  <2>1. input[k].kept /\ input[k].secret = s /\ input[k].value = v
    BY <1>2 DEF Variable
  <2>2. CASE v # Omitted
    <3>1. input[k] # Variable(TRUE, Omitted)
      BY <2>1, <2>2 DEF Variable
    <3> QED
      BY <1>2, <2>1, <2>2, <3>1 DEF VariablesOf, Given
  <2>3. CASE v = Omitted
    BY <1>1, <2>1, <2>3 DEF VariablesOf, Stored
  <2> QED
    BY <2>2, <2>3
<1>3. CASE input[k] = NoVariable
  <2>1. input[k].kept = FALSE
    BY <1>3 DEF NoVariable
  <2> QED
    BY <2>1 DEF VariablesOf, Stored
<1>4. input[k] \in Given(e, k)
  OBVIOUS
<1> QED
  BY <1>2, <1>3, <1>4 DEF Given, Stored

-----------------------------------------------------------------------------
LEMMA InitIInv == EnvInit => IInv
<1> SUFFICES ASSUME EnvInit PROVE IInv
  OBVIOUS
<1>1. Rows
  <2>1. CASE rows = [e \in Names |-> Never]
    BY <2>1 DEF Rows
  <2>2. ASSUME NEW first \in Names, NEW secret, NEW plain,
               rows = Started(first, secret, plain)
        PROVE  Rows
    <3>1. AreStored(first, StartVariables(first, secret, plain))
      BY StoredIsVariable DEF AreStored, StartVariables, Stored
    <3>2. PresentRow(first, rows[first])
      <4> DEFINE V == StartVariables(first, secret, plain)
      <4>1. rows[first] = [state |-> "present", isDefault |-> TRUE, variables |-> V]
        BY <2>2 DEF Started
      <4>2. V \in [Keys -> Variables]
        BY <3>1 DEF AreStored
      <4> HIDE DEF V
      <4>3. rows[first].variables = V
        BY <4>1
      <4> QED
        BY <3>1, <4>1, <4>2, <4>3 DEF PresentRow, V
    <3>3. \A e \in Names : e # first => rows[e] = Never
      BY <2>2 DEF Started
    <3>4. rows = [e \in Names |-> rows[e]]
      BY <2>2 DEF Started
    <3> QED
      BY <3>2, <3>3, <3>4 DEF Rows
  <2>3. \/ rows = [e \in Names |-> Never]
        \/ \E first \in Names, secret \in SUBSET Keys, plain \in SUBSET Keys :
             rows = Started(first, secret, plain)
    BY DEF EnvInit, FirstRows
  <2> QED
    BY <2>1, <2>2, <2>3
<1>2. Requests
  BY DEF EnvInit, Requests
<1>3. Dialogs
  BY DEF EnvInit, Dialogs
<1>4. saves \in 0..MaxSaves
  BY EnvironmentsAssumption DEF EnvInit
<1> QED
  BY <1>1, <1>2, <1>3, <1>4 DEF IInv

-----------------------------------------------------------------------------
(* Steps.                                                                  *)

(* A request of one client, changed while the rows are not.                *)
LEMMA RequestSet ==
  ASSUME IInv, NEW c \in Clients, NEW r,
         r = NoRequest \/ Sent(r) \/ HasRead(r),
         request' = [request EXCEPT ![c] = r]
  PROVE  Requests'
<1>1. request' = [d \in Clients |-> request'[d]]
  BY DEF IInv, Requests
<1>2. ASSUME NEW d \in Clients
      PROVE  request'[d] = NoRequest \/ Sent(request'[d]) \/ HasRead(request'[d])
  <2>1. CASE d = c
    BY <2>1 DEF IInv, Requests
  <2>2. CASE d # c
    BY <2>2 DEF IInv, Requests
  <2> QED
    BY <2>1, <2>2
<1> QED
  BY <1>1, <1>2 DEF Requests, Sent, HasRead, PresentRow, AreStored, Stored, Given

LEMMA SendStep ==
  ASSUME IInv, NEW c \in Clients, UNCHANGED <<rows, forms>>,
         NEW kind \in {"create", "update", "delete"}, NEW e \in Names,
         NEW isDefault \in BOOLEAN, NEW input,
         \A k \in Keys : input[k] \in Given(e, k),
         Sends(c, kind, e, isDefault, input)
  PROVE  IInv'
<1> DEFINE r == [stage |-> "out", kind |-> kind, name |-> e, isDefault |-> isDefault,
                 input |-> input]
<1>1. Sent(r)
  BY DEF Sent
<1>2. request' = [request EXCEPT ![c] = r]
  BY DEF Sends
<1>3. Requests'
  <2> HIDE DEF r
  <2> QED
    BY <1>1, <1>2, RequestSet
<1>4. saves' \in 0..MaxSaves
  BY EnvironmentsAssumption DEF IInv, Sends
<1>5. Rows' /\ Dialogs'
  BY DEF IInv, Rows, Dialogs, PresentRow, AreStored, Stored
<1> QED
  BY <1>3, <1>4, <1>5 DEF IInv

LEMMA SubmitStep ==
  ASSUME IInv, NEW c \in Clients, Submit(c)
  PROVE  IInv'
<1>1. PICK isDefault \in BOOLEAN, form \in Edited(forms[c].stored) :
        Sends(c, IF forms[c].creates THEN "create" ELSE "update",
              forms[c].name, isDefault, ToInput(forms[c].name, form))
  BY DEF Submit
<1>2. forms[c].name \in Names
  BY DEF IInv, Dialogs, Submit, NoForm
<1>3. \A k \in Keys :
        ToInput(forms[c].name, form)[k] \in Given(forms[c].name, k)
  BY InputIsGiven
<1> QED
  BY <1>1, <1>2, <1>3, SendStep DEF Submit

LEMMA AskDeletionStep ==
  ASSUME IInv, NEW c \in Clients, NEW e \in Names, AskDeletion(c, e)
  PROVE  IInv'
<1>1. \A k \in Keys : NoVariables[k] \in Given(e, k)
  BY DEF NoVariables, Given, Stored
<1> QED
  BY <1>1, SendStep DEF AskDeletion

LEMMA DialogSet ==
  ASSUME IInv, NEW c \in Clients, NEW d, d = NoForm \/ d.name \in Names,
         forms' = [forms EXCEPT ![c] = d], UNCHANGED <<rows, request, saves>>
  PROVE  IInv'
<1>1. Dialogs'
  BY DEF IInv, Dialogs
<1>2. Rows' /\ Requests'
  BY DEF IInv, Rows, Requests
<1> QED
  BY <1>1, <1>2 DEF IInv

LEMMA DialogStep ==
  ASSUME IInv, NEW c \in Clients,
         OpenCreate(c) \/ CloseForm(c) \/ \E e \in Names : OpenEdit(c, e)
  PROVE  IInv'
<1>1. CASE OpenCreate(c)
  <2>1. PICK e \in Names : forms' = [forms EXCEPT ![c] =
                             [open |-> TRUE, creates |-> TRUE, name |-> e, stored |-> 0]]
    BY <1>1 DEF OpenCreate
  <2> DEFINE d == [open |-> TRUE, creates |-> TRUE, name |-> e, stored |-> 0]
  <2>2. d.name \in Names
    OBVIOUS
  <2> HIDE DEF d
  <2> QED
    BY <1>1, <2>1, <2>2, DialogSet DEF OpenCreate, d
<1>2. CASE CloseForm(c)
  BY <1>2, DialogSet DEF CloseForm
<1>3. ASSUME NEW e \in Names, OpenEdit(c, e) PROVE IInv'
  <2> DEFINE d == [open |-> TRUE, creates |-> FALSE, name |-> e,
                   stored |-> StoredIn(rows[e].variables)]
  <2>1. d.name \in Names
    OBVIOUS
  <2>2. forms' = [forms EXCEPT ![c] = d] /\ UNCHANGED <<rows, request, saves>>
    BY <1>3 DEF OpenEdit
  <2> HIDE DEF d
  <2> QED
    BY <2>1, <2>2, DialogSet
<1> QED
  BY <1>1, <1>2, <1>3

LEMMA EndStep ==
  ASSUME IInv, NEW c \in Clients, Refuse(c) \/ RollBack(c)
  PROVE  IInv'
<1>1. Requests'
  BY RequestSet DEF Refuse, RollBack
<1>2. UNCHANGED <<rows, forms, saves>>
  BY DEF Refuse, RollBack
<1>3. Rows' /\ Dialogs'
  BY <1>2 DEF IInv, Rows, Dialogs
<1> QED
  BY <1>1, <1>2, <1>3 DEF IInv

LEMMA ReadingStep ==
  ASSUME IInv, NEW c \in Clients, Read(c)
  PROVE  IInv'
<1> DEFINE r == request[c]
           after == IF r.kind = "delete" THEN Deleted
                    ELSE [state |-> "present", isDefault |-> Wanted(r),
                          variables |-> VariablesOf(r.input, Before(r))]
           done == [stage |-> "read", name |-> r.name, after |-> after, kind |-> r.kind,
                    previous |-> IF r.kind = "delete" THEN {} ELSE Previous(r),
                    writes |-> RowsWritten(r, rows[r.name], after), outdated |-> {}]
<1>1. Sent(r)
  BY DEF IInv, Requests, Read, NoRequest, HasRead
<1>2. r.kind # "delete" => PresentRow(r.name, after)
  <2> SUFFICES ASSUME r.kind # "delete" PROVE PresentRow(r.name, after)
    OBVIOUS
  <2>1. AreStored(r.name, Before(r))
    <3>1. CASE r.kind = "create"
      BY <3>1, NoVariablesAreStored DEF Before
    <3>2. CASE r.kind # "create"
      <4>1. r.name \in Present
        BY <3>2 DEF Read, Accepted
      <4> QED
        BY <3>2, <4>1, PresentIsRow DEF Before, IInv, PresentRow
    <3> QED
      BY <3>1, <3>2
  <2>2. AreStored(r.name, VariablesOf(r.input, Before(r)))
    BY <1>1, <2>1, GivenIsStored DEF Sent
  <2>3. Wanted(r) \in BOOLEAN
    BY DEF Wanted
  <2> DEFINE V == VariablesOf(r.input, Before(r))
  <2>4. V \in [Keys -> Variables]
    BY <2>2 DEF AreStored
  <2>5. after.variables = V /\ after = [state |-> "present", isDefault |-> Wanted(r), variables |-> V]
    OBVIOUS
  <2> HIDE DEF V, after
  <2> QED
    BY <2>2, <2>3, <2>4, <2>5 DEF PresentRow, V
<1>3. HasRead(done)
  <2>1. r.name \in Names /\ r.kind \in {"create", "update", "delete"}
    BY <1>1 DEF Sent
  <2> HIDE DEF r
  <2> QED
    BY <1>2, <2>1 DEF HasRead
<1>4. request' = [request EXCEPT ![c] = done]
  BY DEF Read
<1>5. Requests'
  <2> HIDE DEF done
  <2> QED
    BY <1>3, <1>4, RequestSet
<1>6. Rows' /\ Dialogs' /\ saves' \in 0..MaxSaves
  BY DEF IInv, Rows, Dialogs, Read
<1> QED
  BY <1>5, <1>6 DEF IInv

LEMMA CommitStep ==
  ASSUME IInv, NEW c \in Clients, Commit(c)
  PROVE  IInv'
<1> DEFINE r == request[c]
<1>1. HasRead(r)
  <2>1. r.stage = "read"
    BY DEF Commit
  <2> QED
    BY <2>1 DEF IInv, Requests, NoRequest, Sent
<1>2. Rows'
  <2>1. rows' = [e \in Names |-> rows'[e]]
    BY DEF Commit
  <2>2. ASSUME NEW e \in Names
        PROVE  rows'[e] \in {Never, Deleted} \/ PresentRow(e, rows'[e])
    <3>1. rows[e] \in {Never, Deleted} \/ PresentRow(e, rows[e])
      BY DEF IInv, Rows
    <3>2. CASE e \in r.previous
      <4>1. rows'[e] = [rows[e] EXCEPT !.isDefault = FALSE]
        BY <3>2 DEF Commit
      <4>2. CASE PresentRow(e, rows[e])
        BY <4>1, <4>2 DEF PresentRow
      <4>3. CASE rows[e] \in {Never, Deleted}
        <5>1. rows'[e] = rows[e]
          BY <4>1, <4>3 DEF Never, Deleted
        <5> QED
          BY <4>3, <5>1
      <4> QED
        BY <3>1, <4>2, <4>3
    <3>3. CASE e \notin r.previous /\ e # r.name
      BY <3>1, <3>3 DEF Commit
    <3>4. CASE e \notin r.previous /\ e = r.name /\ r.kind # "update"
      <4>1. rows'[e] = r.after
        BY <3>4 DEF Commit
      <4> QED
        BY <1>1, <3>4, <4>1 DEF HasRead
    <3>5. CASE e \notin r.previous /\ e = r.name /\ r.kind = "update"
      <4>1. PresentRow(e, r.after)
        BY <1>1, <3>5 DEF HasRead
      <4>2. CASE rows[e].state # "present"
        BY <3>1, <3>5, <4>2 DEF Commit
      <4>3. CASE rows[e].state = "present"
        <5> DEFINE isDefault == IF <<e>> \in r.writes THEN r.after.isDefault
                                ELSE rows[e].isDefault
                   variables == [k \in Keys |-> IF <<e, k>> \in r.writes
                                                THEN r.after.variables[k]
                                                ELSE rows[e].variables[k]]
        <5>1. PresentRow(e, rows[e])
          BY <3>1, <4>3 DEF Never, Deleted
        <5>2. isDefault \in BOOLEAN
          BY <4>1, <5>1 DEF PresentRow
        <5>3. AreStored(e, variables)
          BY <4>1, <5>1 DEF PresentRow, AreStored
        <5>4. rows'[e] = [rows[e] EXCEPT !.isDefault = isDefault, !.variables = variables]
          BY <3>5, <4>3 DEF Commit
        <5>5. variables \in [Keys -> Variables]
          BY <5>3 DEF AreStored
        <5> HIDE DEF isDefault, variables
        <5>6. rows'[e].variables = variables
          BY <5>1, <5>4 DEF PresentRow
        <5> QED
          BY <5>1, <5>2, <5>3, <5>4, <5>5, <5>6 DEF PresentRow
      <4> QED
        BY <4>2, <4>3
    <3> QED
      BY <3>2, <3>3, <3>4, <3>5
  <2> QED
    BY <2>1, <2>2 DEF Rows, PresentRow, AreStored, Stored
<1>3. Requests'
  <2>1. request' = [d \in Clients |-> request'[d]]
    BY DEF Commit
  <2>2. ASSUME NEW d \in Clients
        PROVE  request'[d] = NoRequest \/ Sent(request'[d]) \/ HasRead(request'[d])
    <3>1. CASE d = c
      BY <3>1 DEF Commit
    <3>2. CASE d # c /\ request[d].stage = "read"
      <4>1. HasRead(request[d])
        BY <3>2 DEF IInv, Requests, NoRequest, Sent
      <4>2. PICK others : request'[d] = [request[d] EXCEPT !.outdated = others]
        BY <3>2 DEF Commit
      <4> QED
        BY <4>1, <4>2 DEF HasRead
    <3>3. CASE d # c /\ request[d].stage # "read"
      BY <3>3 DEF Commit, IInv, Requests
    <3> QED
      BY <3>1, <3>2, <3>3
  <2> QED
    BY <2>1, <2>2 DEF Requests, Sent, HasRead, PresentRow, AreStored, Stored, Given
<1>4. Dialogs'
  <2>1. PICK d : forms' = [forms EXCEPT ![c] = d] /\ (d = NoForm \/ d = forms[c])
    BY DEF Commit
  <2> QED
    BY <2>1 DEF IInv, Dialogs
<1>5. saves' \in 0..MaxSaves
  BY DEF IInv, Commit
<1> QED
  BY <1>2, <1>3, <1>4, <1>5 DEF IInv

LEMMA IInvHolds == EnvSpec => []IInv
<1>1. EnvInit => IInv
  BY InitIInv
<1>2. IInv /\ [EnvNext]_envVars => IInv'
  <2> SUFFICES ASSUME IInv, [EnvNext]_envVars PROVE IInv'
    OBVIOUS
  <2>1. CASE UNCHANGED envVars
    BY <2>1 DEF envVars, IInv, Rows, Requests, Dialogs
  <2>2. ASSUME NEW c \in Clients, OpenCreate(c) \/ CloseForm(c) PROVE IInv'
    BY <2>2, DialogStep
  <2>3. ASSUME NEW c \in Clients, Submit(c) PROVE IInv'
    BY <2>3, SubmitStep
  <2>4. ASSUME NEW c \in Clients, NEW e \in Names, OpenEdit(c, e) \/ AskDeletion(c, e)
        PROVE  IInv'
    BY <2>4, DialogStep, AskDeletionStep
  <2>5. ASSUME NEW c \in Clients, Refuse(c) \/ RollBack(c) PROVE IInv'
    BY <2>5, EndStep
  <2>6. ASSUME NEW c \in Clients, Read(c) PROVE IInv'
    BY <2>6, ReadingStep
  <2>7. ASSUME NEW c \in Clients, Commit(c) PROVE IInv'
    BY <2>7, CommitStep
  <2> QED
    BY <2>1, <2>2, <2>3, <2>4, <2>5, <2>6, <2>7 DEF EnvNext
<1> QED
  BY <1>1, <1>2, PTL DEF EnvSpec

-----------------------------------------------------------------------------
(* A stored secret is always a text given as that very secret, for any      *)
(* number of people whose forms and requests overlap                        *)
(* (EnvironmentService.java:225-270, environment-form.tsx:60-81).          *)
THEOREM StoredSecretsWereTyped == EnvSpec => []SecretsAreTyped
<1>1. IInv => SecretsAreTyped
  <2> SUFFICES ASSUME IInv, NEW e \in Present, NEW k \in Keys,
                      rows[e].variables[k].kept, rows[e].variables[k].secret
               PROVE  rows[e].variables[k].value = Typed(e, k, TRUE)
    BY DEF SecretsAreTyped
  <2>1. rows[e].variables[k] \in Stored(e, k)
    BY PresentIsRow DEF IInv, PresentRow, AreStored
  <2> QED
    BY <2>1, StoredValue
<1> QED
  BY <1>1, IInvHolds, PTL

(* No secret comes out of the API as a value, also not by way of a variable *)
(* that is turned into a plain one (EnvironmentService.java:249-295).      *)
THEOREM SecretsDoNotComeOut == EnvSpec => []SecretsStayHidden
<1>1. IInv => SecretsStayHidden
  <2> SUFFICES ASSUME IInv, NEW e \in Present, NEW k \in Keys,
                      rows[e].variables[k].kept, Response(e)[k].value # Hidden
               PROVE  Response(e)[k].value \in {Blank, Typed(e, k, FALSE)}
    BY DEF SecretsStayHidden
  <2>1. rows[e].variables[k] \in Stored(e, k)
    BY PresentIsRow DEF IInv, PresentRow, AreStored
  <2>2. Response(e)[k].value = IF rows[e].variables[k].secret THEN Hidden
                            ELSE rows[e].variables[k].value
    BY DEF Response, ToResponse
  <2> QED
    BY <2>1, <2>2, StoredValue
<1> QED
  BY <1>1, IInvHolds, PTL

(* Every variable has its type.                                            *)
THEOREM TypesHold == EnvSpec => []EnvTypeOK
<1>1. IInv => EnvTypeOK
  <2> SUFFICES ASSUME IInv PROVE EnvTypeOK
    OBVIOUS
  <2>1. ASSUME NEW e \in Names
        PROVE  \/ rows[e] \in {Never, Deleted}
               \/ rows[e].state = "present" /\ rows[e].isDefault \in BOOLEAN
                    /\ rows[e].variables \in [Keys -> Variables]
    <3>1. CASE PresentRow(e, rows[e])
      BY <3>1 DEF PresentRow
    <3> QED
      BY <3>1 DEF IInv, Rows
  <2>2. ASSUME NEW c \in Clients PROVE request[c].stage \in {"none", "out", "read"}
    BY DEF IInv, Requests, NoRequest, Sent, HasRead
  <2> QED
    BY <2>1, <2>2 DEF EnvTypeOK, IInv, Dialogs
<1> QED
  BY <1>1, IInvHolds, PTL

-------------------------------------------------------------------------------
(* The lists.  ListsShowOwnWrites says nothing of a list that is being      *)
(* read, or that no screen shows, and any of these may come to be at rest   *)
(* on a screen; the invariant says of each when it will be up to date.      *)

ListEntries == Entries(0 .. clock)

(* When a control may close its dialog.                                    *)
Times == {"click", "success", "failure"}

WriteRecords ==
  [touches : SUBSET Resources, gives : SUBSET Resources, ends : SUBSET Resources,
   sets : SUBSET Details, invalidates : SUBSET Resources, removes : SUBSET Resources,
   then : {Closed} \cup DOMAIN Writes]

CountRecords == [moved : Nat, sent : Nat, failed : Nat]

Controls ==
  [write : DOMAIN Writes, needs : SUBSET Resources, holds : SUBSET Resources,
   lacks : SUBSET Resources, unless : SUBSET Resources, inDialog : BOOLEAN,
   closes : SUBSET Times, blocked : BOOLEAN, inside : BOOLEAN,
   goes : {Closed} \cup DOMAIN Views]

Calls ==
  [write : DOMAIN Writes, id : Nat, bound : BOOLEAN, stage : {"out", "done"},
   closes : SUBSET Times, goes : {Closed} \cup DOMAIN Views, version : 0 .. clock]

ListsTyped ==
  /\ page \in DOMAIN Views
  /\ clock \in Nat
  /\ cache \in [Resources -> ListEntries]
  /\ server \in [Resources -> 0 .. clock]
  /\ acked \in [Lists -> 0 .. clock]
  /\ counts \in CountRecords

(* The hook of write k tells the cache of the lists k changes.              *)
TellsOf(k) ==
  /\ Writes[k] \in WriteRecords
  /\ (Writes[k].touches \cap Lists) \ Overlooked(k)
       \subseteq Writes[k].invalidates \cup Writes[k].removes

-----------------------------------------------------------------------------
(* The hooks.                                                              *)

LEMMA ListsAndDetails == Lists \cap Details = {} /\ Resources = Lists \cup Details
  BY DEF Lists, Details, Resources

LEMMA WriteNames ==
  DOMAIN Writes =
    {"createWorkspace", "createProject", "updateProject", "deleteProject", "createCase",
     "updateCase", "deleteCase", "createEnvironment", "updateEnvironment",
     "deleteEnvironment", "addMember", "changeRole", "removeMember", "createCredential",
     "deleteCredential", "saveAccount", "deleteAccount", "inspectPage", "updateElement",
     "connect", "bind", "unbind", "requestRun", "cancelRun", "analyse"}
  BY DEF Writes

(* Every hook tells the cache of each list its request changes, except for  *)
(* those it overlooks.                                                     *)
LEMMA HooksTell == \A k \in DOMAIN Writes : TellsOf(k)
<1> USE DEF TellsOf, Nothing, WriteRecords, Lists, Details, Resources,
   Overlooked
<1>1. \A k \in {"createWorkspace", "createProject", "updateProject", "deleteProject"} : TellsOf(k)
  <2>1. TellsOf("createWorkspace")
    BY WriteNames DEF Writes, CreateWorkspace
  <2>2. TellsOf("createProject")
    BY WriteNames DEF Writes, CreateProject
  <2>3. TellsOf("updateProject")
    BY WriteNames DEF Writes, UpdateProject
  <2>4. TellsOf("deleteProject")
    BY WriteNames DEF Writes, DeleteProject
  <2> QED
    BY <2>1, <2>2, <2>3, <2>4
<1>2. \A k \in {"createCase", "updateCase", "deleteCase", "createEnvironment",
                  "updateEnvironment", "deleteEnvironment"} : TellsOf(k)
  <2>1. TellsOf("createCase")
    BY WriteNames DEF Writes, CreateTestCase
  <2>2. TellsOf("updateCase")
    BY WriteNames DEF Writes, UpdateTestCase
  <2>3. TellsOf("deleteCase")
    BY WriteNames DEF Writes, DeleteTestCase
  <2>4. TellsOf("createEnvironment")
    BY WriteNames DEF Writes, CreateEnvironment
  <2>5. TellsOf("updateEnvironment")
    BY WriteNames DEF Writes, UpdateEnvironment
  <2>6. TellsOf("deleteEnvironment")
    BY WriteNames DEF Writes, DeleteEnvironment
  <2> QED
    BY <2>1, <2>2, <2>3, <2>4, <2>5, <2>6
<1>3. \A k \in {"addMember", "changeRole", "removeMember", "createCredential",
                  "deleteCredential"} : TellsOf(k)
  <2>1. TellsOf("addMember")
    BY WriteNames DEF Writes, AddMember
  <2>2. TellsOf("changeRole")
    BY WriteNames DEF Writes, ChangeMemberRole
  <2>3. TellsOf("removeMember")
    BY WriteNames DEF Writes, RemoveMember
  <2>4. TellsOf("createCredential")
    BY WriteNames DEF Writes, CreateGitCredential
  <2>5. TellsOf("deleteCredential")
    BY WriteNames DEF Writes, DeleteGitCredential
  <2> QED
    BY <2>1, <2>2, <2>3, <2>4, <2>5
<1>4. \A k \in {"saveAccount", "deleteAccount", "inspectPage", "updateElement"} : TellsOf(k)
  <2>1. TellsOf("saveAccount")
    BY WriteNames DEF Writes, SaveAiAccount
  <2>2. TellsOf("deleteAccount")
    BY WriteNames DEF Writes, DeleteAiAccount
  <2>3. TellsOf("inspectPage")
    BY WriteNames DEF Writes, InspectPage
  <2>4. TellsOf("updateElement")
    BY WriteNames DEF Writes, UpdateElement
  <2> QED
    BY <2>1, <2>2, <2>3, <2>4
<1>5. \A k \in {"connect", "bind", "unbind", "requestRun", "cancelRun", "analyse"} : TellsOf(k)
  <2>1. TellsOf("connect")
    BY WriteNames DEF Writes, CreateConnection
  <2>2. TellsOf("bind")
    BY WriteNames DEF Writes, Bind
  <2>3. TellsOf("unbind")
    BY WriteNames DEF Writes, Unbind
  <2>4. TellsOf("requestRun")
    BY WriteNames DEF Writes, RequestRun
  <2>5. TellsOf("cancelRun")
    BY WriteNames DEF Writes, CancelRun
  <2>6. TellsOf("analyse")
    BY WriteNames DEF Writes, AnalyseFailure
  <2> QED
    BY <2>1, <2>2, <2>3, <2>4, <2>5, <2>6
<1> HIDE DEF TellsOf
<1> QED
  BY <1>1, <1>2, <1>3, <1>4, <1>5, WriteNames

-----------------------------------------------------------------------------
(* The controls.                                                           *)

LEMMA ViewNames ==
  DOMAIN Views = {"dashboard", "projects", "cases", "case", "environments", "members",
                  "credentials", "account", "pages", "xray", "runs", "run"}
  BY DEF Views

(* A screen whose controls are controls.                                   *)
HasControls(v) ==
  /\ DOMAIN v = {"reads", "inDialog", "retries", "controls"}
  /\ v = [x \in DOMAIN v |-> v[x]]
  /\ v.controls \subseteq Controls

LEMMA ViewsHaveControls ==
  /\ \A reads : \A cs \in SUBSET Controls : HasControls(View(reads, cs))
  /\ \A v, x : HasControls(v) => /\ HasControls([v EXCEPT !.retries = x])
                                 /\ HasControls([v EXCEPT !.inDialog = x])
                                 /\ HasControls(ProjectShell(v))
<1>1. \A reads : \A cs \in SUBSET Controls : HasControls(View(reads, cs))
  BY DEF View, HasControls
<1>2. ASSUME NEW v, NEW x, HasControls(v)
      PROVE  /\ HasControls([v EXCEPT !.retries = x])
             /\ HasControls([v EXCEPT !.inDialog = x])
  BY <1>2 DEF HasControls
<1>3. ASSUME NEW v, HasControls(v)
      PROVE  HasControls(ProjectShell(v))
  <2> DEFINE cs == {[c EXCEPT !.needs = @ \cup {"project"}] : c \in v.controls}
             v1 == [v EXCEPT !.reads = @ \cup {"project"}]
             v2 == [v1 EXCEPT !.retries = @ \cup {"project"}]
             v3 == [v2 EXCEPT !.controls = cs]
  <2>1. cs \subseteq Controls
    BY <1>3 DEF HasControls, Controls, Resources, Details
  <2> HIDE DEF cs
  <2>2. v2.controls = v.controls
    BY <1>3 DEF HasControls
  <2>3. v3 = ProjectShell(v)
    BY <2>2 DEF ProjectShell, cs
  <2>4. HasControls(v3)
    BY <1>3, <2>1 DEF HasControls
  <2> QED
    BY <2>3, <2>4
<1> QED
  BY <1>1, <1>2, <1>3

LEMMA ControlsAreKnown == \A p \in DOMAIN Views : HasControls(Views[p])
<1>1. HasControls(DashboardView)
  BY ViewsHaveControls DEF DashboardView
<1>2. HasControls(ProjectsView)
  <2>1. CreateWorkspaceGate \in Controls
    BY WriteNames DEF CreateWorkspaceGate, Button, Controls, Times, Resources,
       Lists, Details
  <2>2. ProjectEditDialog \in Controls
    BY WriteNames DEF ProjectEditDialog, Form, Button, Controls, Times,
       Resources, Lists, Details
  <2>3. [Form("createProject", {"workspaces"}) EXCEPT !.holds = {"workspaces"}] \in Controls
    BY WriteNames DEF Form, Button, Controls, Times, Resources, Lists, Details
  <2>4. Confirm("deleteProject", {"workspaces", "projects"}) \in Controls
    BY WriteNames DEF Confirm, Button, Controls, Times, Resources, Lists,
       Details
  <2> QED
    BY <2>1, <2>2, <2>3, <2>4, ViewsHaveControls DEF ProjectsView, ProjectList
<1>3. HasControls(TestCasesView)
  <2>1. [Form("createCase", {}) EXCEPT !.goes = "case"] \in Controls
    BY WriteNames, ViewNames DEF Form, Button, Controls, Times, Resources,
       Lists, Details
  <2>2. Confirm("deleteCase", {"cases"}) \in Controls
    BY WriteNames DEF Confirm, Button, Controls, Times, Resources, Lists,
       Details
  <2> QED
    BY <2>1, <2>2, ViewsHaveControls DEF TestCasesView
<1>4. HasControls(TestCaseEditorView)
  <2>1. Button("updateCase", {"case"}) \in Controls
    BY WriteNames DEF Button, Controls, Times, Resources, Lists, Details
  <2>2. [Confirm("deleteCase", {"case"}) EXCEPT !.goes = "cases"] \in Controls
    BY WriteNames, ViewNames DEF Confirm, Button, Controls, Times, Resources,
       Lists, Details
  <2> QED
    BY <2>1, <2>2, ViewsHaveControls DEF TestCaseEditorView
<1>5. HasControls(EnvironmentsView)
  <2>1. Form("createEnvironment", {"environments"}) \in Controls
    BY WriteNames DEF Form, Button, Controls, Times, Resources, Lists, Details
  <2>2. [Form("updateEnvironment", {"environments"}) EXCEPT !.holds = {"environments"}] \in Controls
    BY WriteNames DEF Form, Button, Controls, Times, Resources, Lists, Details
  <2>3. [Form("deleteEnvironment", {"environments"}) EXCEPT !.holds = {"environments"}] \in Controls
    BY WriteNames DEF Form, Button, Controls, Times, Resources, Lists, Details
  <2> QED
    BY <2>1, <2>2, <2>3, ViewsHaveControls DEF EnvironmentsView
<1>6. HasControls(Members)
  <2>1. [Button("addMember", {"workspaces"}) EXCEPT !.holds = {"workspaces"}] \in Controls
    BY WriteNames DEF Button, Controls, Times, Resources, Lists, Details
  <2>2. Button("changeRole", {"workspaces", "members"}) \in Controls
    BY WriteNames DEF Button, Controls, Times, Resources, Lists, Details
  <2>3. [Confirm("removeMember", {"workspaces", "members"})
          EXCEPT !.closes = {"click"}, !.blocked = FALSE] \in Controls
    BY WriteNames DEF Confirm, Button, Controls, Times, Resources, Lists,
       Details
  <2> QED
    BY <2>1, <2>2, <2>3, ViewsHaveControls DEF Members
<1>7. HasControls(GitCredentialSettings)
  <2>1. Form("createCredential", {"workspaces", "credentials"}) \in Controls
    BY WriteNames DEF Form, Button, Controls, Times, Resources, Lists, Details
  <2>2. Confirm("deleteCredential", {"workspaces", "credentials"}) \in Controls
    BY WriteNames DEF Confirm, Button, Controls, Times, Resources, Lists,
       Details
  <2> QED
    BY <2>1, <2>2, ViewsHaveControls DEF GitCredentialSettings
<1>8. HasControls(AiAccountSettings)
  <2>1. Button("saveAccount", {"workspaces", "account"}) \in Controls
    BY WriteNames DEF Button, Controls, Times, Resources, Lists, Details
  <2>2. [Confirm("deleteAccount", {"workspaces", "account"}) EXCEPT !.holds = {"account"}] \in Controls
    BY WriteNames DEF Confirm, Button, Controls, Times, Resources, Lists,
       Details
  <2> QED
    BY <2>1, <2>2, ViewsHaveControls DEF AiAccountSettings, AiAccountForm
<1>9. HasControls(PagesView)
  <2>1. Form("inspectPage", {"pages"}) \in Controls
    BY WriteNames DEF Form, Button, Controls, Times, Resources, Lists, Details
  <2>2. ElementRow \in Controls
    BY WriteNames DEF ElementRow, Form, Button, Controls, Times, Resources,
       Lists, Details
  <2> QED
    BY <2>1, <2>2, ViewsHaveControls DEF PagesView
<1>10. HasControls(TestManagementView)
  <2>1. [Button("connect", {"workspaces", "binding"}) EXCEPT !.lacks = {"binding"}] \in Controls
    BY WriteNames DEF Button, Controls, Times, Resources, Lists, Details
  <2>2. [Button("unbind", {"workspaces", "binding"}) EXCEPT !.holds = {"binding"}] \in Controls
    BY WriteNames DEF Button, Controls, Times, Resources, Lists, Details
  <2> QED
    BY <2>1, <2>2, ViewsHaveControls DEF TestManagementView
<1>11. HasControls(RunsView)
  <2>1. [Button("requestRun", {"runs"}) EXCEPT !.unless = {"environments"}] \in Controls
    BY WriteNames DEF Button, Controls, Times, Resources, Lists, Details
  <2> QED
    BY <2>1, ViewsHaveControls DEF RunsView
<1>12. HasControls(RunDetailView)
  <2>1. [Button("cancelRun", {"run"}) EXCEPT !.holds = {"run"}] \in Controls
    BY WriteNames DEF Button, Controls, Times, Resources, Lists, Details
  <2>2. RunItemRow \in Controls
    BY WriteNames, ViewNames DEF RunItemRow, Button, Controls, Times, Resources,
       Lists, Details
  <2>3. FailureAnalysisPanel \in Controls
    BY WriteNames DEF FailureAnalysisPanel, Button, Controls, Times, Resources,
       Lists, Details
  <2> QED
    BY <2>1, <2>2, <2>3, ViewsHaveControls DEF RunDetailView
<1> HIDE DEF HasControls
<1>13. /\ HasControls(ProjectShell(TestCasesView))
       /\ HasControls(ProjectShell(EnvironmentsView))
       /\ HasControls(ProjectShell(PagesView))
       /\ HasControls(ProjectShell(TestManagementView))
       /\ HasControls(ProjectShell(RunsView))
  BY <1>3, <1>5, <1>9, <1>10, <1>11, ViewsHaveControls
<1> QED
  BY <1>1, <1>2, <1>3, <1>4, <1>5, <1>6, <1>7, <1>8, <1>9, <1>10, <1>11, <1>12,
     <1>13 DEF Views

-----------------------------------------------------------------------------
(* The inductive invariant.                                                *)

(* An entry of a list, of which this tab was told of version own, and that *)
(* a screen shows, or not.                                                 *)
FitsList(e, own, shows) ==
  /\ e.asked \notin {Idle, Going} => e.asked >= own
  /\ e.data # NoData /\ e.data < own => e.stale
  /\ (shows /\ e.data # NoData /\ e.asked = Idle /\ ~e.failed) => e.data >= own

ReadersShown ==
  \A r \in Resources : cache[r].asked # Idle => r \in Shown(page, dialog, cache)

ListsOK ==
  \A r \in Lists : /\ acked[r] <= server[r]
                   /\ FitsList(cache[r], acked[r], r \in Shown(page, dialog, cache))

(* A request; one that was served says no more than the API now holds.     *)
Held(s) ==
  /\ s \in Calls
  /\ s.stage = "done" => \A r \in Writes[s.write].touches : s.version <= server[r]

SentOK == \A s \in sent : Held(s)

ListsInv == ListsTyped /\ ReadersShown /\ ListsOK /\ SentOK

(* What is shown follows from what was read.                               *)

LEMMA ShownByData ==
  ASSUME NEW p, NEW d, NEW ch, NEW ci, \A r \in Resources : ch[r].data = ci[r].data
  PROVE  Shown(p, d, ch) = Shown(p, d, ci)
<1>1. "workspaces" \in Resources /\ "binding" \in Resources /\ "run" \in Resources
  BY DEF Resources, Lists, Details
<1>2. \A r : Enabled(r, ch) = Enabled(r, ci)
  BY <1>1 DEF Enabled, Has
<1> QED
  BY <1>2 DEF Shown

LEMMA ShownLater ==
  ASSUME marks' = marks
  PROVE  Shown(page, dialog, cache)' = Shown(page', dialog', cache')
BY DEF Shown, Enabled, Has

(* What shows a cache after another screen or dialog is shown.             *)
Turned(p, d, ch, renewed, ci) ==
  /\ ci \in [Resources -> ListEntries]
  /\ \A r \in Resources :
       /\ ci[r].data = ch[r].data /\ ci[r].stale = ch[r].stale /\ ci[r].failed = ch[r].failed
       /\ ci[r].asked # Idle => r \in Shown(p, d, ci)
       /\ ci[r].asked \in {ch[r].asked, Idle, Going}
       /\ r \in Shown(p, d, ci) /\ ci[r].asked = Idle =>
            \/ ci[r].data # NoData /\ ~ci[r].stale
            \/ r \in Shown(page, dialog, cache) /\ r \notin renewed /\ ch[r].asked = Idle

LEMMA ShowIs ==
  ASSUME NEW p, NEW d, NEW ch \in [Resources -> ListEntries], NEW renewed, clock \in Nat,
         \A r \in Resources : ch[r].asked # Idle => r \in Shown(page, dialog, cache)
  PROVE  Turned(p, d, ch, renewed, Show(p, d, ch, renewed))
<1> DEFINE before == Shown(page, dialog, cache)
           after == Shown(p, d, ch)
           ci == Show(p, d, ch, renewed)
           left == [r \in Resources |->
                      IF r \in before \ (after \ renewed) THEN Unmounted(ch[r]) ELSE ch[r]]
<1>1. ci = [r \in Resources |->
              IF r \in after \ (before \ renewed) THEN Mounted(left[r]) ELSE left[r]]
  BY DEF Show
<1> HIDE DEF before, after, ci
<1>2. ASSUME NEW r \in Resources
      PROVE  /\ left[r] \in ListEntries /\ left[r].data = ch[r].data
             /\ left[r].stale = ch[r].stale /\ left[r].failed = ch[r].failed
             /\ left[r].asked = IF r \in before \ (after \ renewed) THEN Idle ELSE ch[r].asked
  BY DEF Unmounted, ListEntries, Entries
<1> HIDE DEF left
<1>3. ASSUME NEW r \in Resources
      PROVE  /\ ci[r] \in ListEntries /\ ci[r].data = ch[r].data
             /\ ci[r].stale = ch[r].stale /\ ci[r].failed = ch[r].failed
             /\ ci[r].asked =
                  IF /\ r \in after \ (before \ renewed)
                     /\ left[r].asked = Idle /\ (ch[r].data = NoData \/ ch[r].stale)
                  THEN Going ELSE left[r].asked
  BY <1>1, <1>2 DEF Mounted, Fetching, ListEntries, Entries
<1>4. Shown(p, d, ci) = after
  BY <1>3, ShownByData DEF after
<1>5. ci \in [Resources -> ListEntries]
  BY <1>1, <1>3
<1>6. ASSUME NEW r \in Resources
      PROVE  /\ ci[r].asked # Idle => r \in after
             /\ ci[r].asked \in {ch[r].asked, Idle, Going}
             /\ r \in after /\ ci[r].asked = Idle =>
                  \/ ci[r].data # NoData /\ ~ci[r].stale
                  \/ r \in before /\ r \notin renewed /\ ch[r].asked = Idle
  BY <1>2, <1>3, <1>6 DEF before, Going, Idle
<1> QED
  BY <1>3, <1>4, <1>5, <1>6 DEF Turned, ci, before

(* A cache that may be shown by a tab that was told of the versions own.   *)
Fits(ch, own, renewed) ==
  LET before == Shown(page, dialog, cache) IN
  /\ ch \in [Resources -> ListEntries] /\ own \in [Lists -> 0 .. clock]
  /\ \A r \in Resources : ch[r].asked # Idle => r \in before
  /\ \A r \in Lists : /\ own[r] <= server[r]
                     /\ FitsList(ch[r], own[r], r \in before \ renewed)

LEMMA HeldLater ==
  ASSUME UNCHANGED <<server, clock>>
  PROVE  \A s : Held(s) => Held(s)'
BY DEF Held, Calls

LEMMA DisplaysKeep ==
  ASSUME ListsInv, NEW p \in DOMAIN Views, NEW d, NEW ch, NEW renewed,
         Fits(ch, acked', renewed), Displays(p, d, ch, renewed),
         UNCHANGED <<server, marks, clock>>, counts' \in CountRecords,
         \A s \in sent' : Held(s)
  PROVE  ListsInv'
<1>1. /\ clock \in Nat
      /\ ch \in [Resources -> ListEntries] /\ acked' \in [Lists -> 0 .. clock]
  BY DEF Fits, ListsInv, ListsTyped
<1>2. Turned(p, d, ch, renewed, cache') /\ page' = p /\ dialog' = d
  <2>1. \A r \in Resources : ch[r].asked # Idle => r \in Shown(page, dialog, cache)
    BY DEF Fits
  <2> QED
    BY <1>1, <2>1, ShowIs DEF Displays
<1>3. Shown(page, dialog, cache)' = Shown(p, d, cache')
  BY <1>2, ShownLater
<1>4. ListsTyped'
  BY <1>1, <1>2 DEF ListsTyped, Turned, ListsInv, ListEntries
<1>5. ReadersShown'
  BY <1>2, <1>3 DEF ReadersShown, Turned
<1>6. SentOK'
  BY HeldLater DEF SentOK
<1>7. ASSUME NEW r \in Lists
      PROVE  /\ acked'[r] <= server'[r]
             /\ FitsList(cache'[r], acked'[r], r \in Shown(page, dialog, cache)')
  <2>1. /\ r \in Resources /\ acked'[r] \in Nat /\ acked'[r] <= server[r]
        /\ FitsList(ch[r], acked'[r], r \in Shown(page, dialog, cache) \ renewed)
    BY <1>1 DEF Fits, Resources
  <2>2. ch[r] \in Entries(Nat) /\ cache'[r] \in Entries(Nat)
    BY <1>1, <1>2, <2>1 DEF Turned, ListEntries, Entries
  <2>3. /\ cache'[r].data = ch[r].data /\ cache'[r].stale = ch[r].stale
        /\ cache'[r].failed = ch[r].failed
        /\ cache'[r].asked \in {ch[r].asked, Idle, Going}
        /\ r \in Shown(page, dialog, cache)' /\ cache'[r].asked = Idle =>
            \/ cache'[r].data # NoData /\ ~cache'[r].stale
            \/ r \in Shown(page, dialog, cache) /\ r \notin renewed /\ ch[r].asked = Idle
    BY <1>2, <1>3, <2>1 DEF Turned
  <2> QED
    BY <2>1, <2>2, <2>3 DEF FitsList, Entries
<1> QED
  BY <1>4, <1>5, <1>6, <1>7 DEF ListsInv, ListsOK

LEMMA CacheFits ==
  ASSUME ListsInv, NEW old, NEW renewed
  PROVE  Fits(cache, acked, renewed) /\ Fits(Aged(cache, old), acked, renewed)
<1>1. Fits(cache, acked, renewed)
  BY DEF ListsInv, ListsTyped, ReadersShown, ListsOK, Fits, FitsList
<1> DEFINE ch == Aged(cache, old)
<1>2. /\ ch \in [Resources -> ListEntries]
      /\ \A r \in Resources : /\ ch[r].data = cache[r].data /\ ch[r].asked = cache[r].asked
                              /\ ch[r].failed = cache[r].failed
                              /\ cache[r].stale => ch[r].stale
  BY DEF ListsInv, ListsTyped, Aged, ListEntries, Entries
<1> HIDE DEF ch
<1>3. Fits(ch, acked, renewed)
  BY <1>1, <1>2 DEF Fits, FitsList, Resources
<1> QED
  BY <1>1, <1>3 DEF ch

LEMMA UnboundHeld ==
  ASSUME NEW these, \A s \in these : Held(s)
  PROVE  \A s \in Unbound(these) : Held(s)
<1> SUFFICES ASSUME NEW s \in these
             PROVE  Held([s EXCEPT !.bound = FALSE])
  BY DEF Unbound
<1> DEFINE t == [s EXCEPT !.bound = FALSE]
<1>1. Held(s)
  OBVIOUS
<1>2. t \in Calls /\ t.stage = s.stage /\ t.write = s.write /\ t.version = s.version
  BY <1>1 DEF Held, Calls
<1> QED
  BY <1>1, <1>2 DEF Held

LEMMA ControlIs ==
  ASSUME ListsInv, NEW c \in Views[page].controls
  PROVE  c \in Controls
BY ControlsAreKnown DEF ListsInv, ListsTyped, HasControls

-----------------------------------------------------------------------------
(* Every step.                                                             *)

LEMMA InitStep ==
  ASSUME Init
  PROVE  ListsInv
<1>1. page \in DOMAIN Views
  BY StartsAssumption DEF Init
<1>2. cache \in [Resources -> ListEntries]
  <2>1. clock = 1 /\ Loaded \in ListEntries /\ Empty \in ListEntries
    <3>1. clock = 1 /\ 1 \in 0 .. clock
      BY DEF Init
    <3>2. Empty \in ListEntries
      BY DEF Empty, ListEntries, Entries
    <3> DEFINE e == [Empty EXCEPT !.data = 1]
    <3>3. e \in ListEntries
      BY <3>1, <3>2 DEF ListEntries, Entries
    <3> HIDE DEF e
    <3>4. [e EXCEPT !.stale = FALSE] \in ListEntries
      BY <3>3 DEF ListEntries, Entries
    <3> QED
      BY <3>1, <3>2, <3>4 DEF Loaded, e
  <2> QED
    BY <2>1, Zenon DEF Init
<1>3. \A r \in Resources : cache[r].asked = Idle /\ cache[r].failed = FALSE
  BY DEF Init, Loaded, Empty
<1>4. ListsTyped /\ SentOK
  BY <1>1, <1>2 DEF ListsTyped, SentOK, Init, CountRecords
<1>5. ListsOK
  BY <1>2, <1>3 DEF ListsOK, FitsList, Init, Resources, ListEntries, Entries,
     NoData, Idle
<1> QED
  BY <1>3, <1>4, <1>5 DEF ListsInv, ReadersShown

LEMMA GoStep ==
  ASSUME ListsInv, NEW p \in DOMAIN Views, Go(p)
  PROVE  ListsInv'
<1>1. PICK old : Displays(p, Closed, Aged(cache, old), Resources)
  BY DEF Go
<1>2. /\ UNCHANGED <<server, marks, clock>> /\ acked' = acked
      /\ \A s \in sent' : Held(s)
  BY UnboundHeld DEF Go, ListsInv, SentOK
<1>3. counts' \in CountRecords
  BY DEF Go, ListsInv, ListsTyped, CountRecords
<1>4. Fits(Aged(cache, old), acked', Resources)
  BY <1>2, CacheFits
<1> QED
  BY <1>1, <1>2, <1>3, <1>4, DisplaysKeep

LEMMA DialogOpens ==
  ASSUME ListsInv, NEW c \in Views[page].controls, OpenDialog(c)
  PROVE  ListsInv'
<1>1. PICK old : Displays(page, c.write, Aged(cache, old), {})
  BY DEF OpenDialog
<1>2. /\ UNCHANGED <<server, marks, clock>> /\ acked' = acked
      /\ \A s \in sent' : Held(s)
      /\ counts' \in CountRecords /\ page \in DOMAIN Views
  BY DEF OpenDialog, ListsInv, SentOK, ListsTyped
<1>3. Fits(Aged(cache, old), acked', {})
  BY <1>2, CacheFits
<1> QED
  BY <1>1, <1>2, <1>3, DisplaysKeep

LEMMA DismissStep ==
  ASSUME ListsInv, Dismiss
  PROVE  ListsInv'
<1>1. PICK gone \in SUBSET sent : sent' = (sent \ gone) \cup Unbound(gone)
  BY DEF Dismiss
<1>2. \A s \in sent' : Held(s)
  BY <1>1, UnboundHeld DEF ListsInv, SentOK
<1>3. /\ UNCHANGED <<server, marks, clock>> /\ acked' = acked
      /\ Displays(page, Closed, cache, {})
      /\ counts' \in CountRecords /\ page \in DOMAIN Views
  BY DEF Dismiss, ListsInv, ListsTyped
<1>4. Fits(cache, acked', {})
  BY <1>3, CacheFits
<1> QED
  BY <1>2, <1>3, <1>4, DisplaysKeep

LEMMA PressStep ==
  ASSUME ListsInv, NEW c \in Views[page].controls, Press(c)
  PROVE  ListsInv'
<1> DEFINE earlier == {s \in sent : s.write = c.write}
           call == [write |-> c.write, id |-> counts.sent, bound |-> TRUE, stage |-> "out",
                    closes |-> c.closes, goes |-> c.goes, version |-> 0]
<1>1. sent' = (sent \ earlier) \cup Unbound(earlier) \cup {call}
  BY DEF Press
<1>2. Held(call)
  <2>1. c \in Controls /\ counts.sent \in Nat /\ clock \in Nat
    BY ControlIs DEF ListsInv, ListsTyped, CountRecords
  <2> QED
    BY <2>1 DEF Held, Calls, Controls
<1>3. (\A s \in earlier : Held(s)) /\ (\A s \in sent : Held(s))
  BY DEF ListsInv, SentOK
<1> HIDE DEF earlier, call
<1>4. \A s \in sent' : Held(s)
  BY <1>1, <1>2, <1>3, UnboundHeld
<1>5. /\ UNCHANGED <<server, marks, clock>> /\ acked' = acked
      /\ page \in DOMAIN Views
  BY DEF Press, ListsInv, ListsTyped
<1>6. counts' \in CountRecords
  BY DEF Press, ListsInv, ListsTyped, CountRecords
<1>7. PICK d : Displays(page, d, cache, {})
  BY DEF Press
<1>8. Fits(cache, acked', {})
  BY <1>5, CacheFits
<1> QED
  BY <1>4, <1>5, <1>6, <1>7, <1>8, DisplaysKeep

(* A step that changes one entry. *)
LEMMA EntryStep ==
  ASSUME ListsInv, NEW r \in Resources, NEW e \in ListEntries,
         e.asked # Idle => r \in Shown(page, dialog, cache),
         r \in Lists => FitsList(e, acked[r], r \in Shown(page, dialog, cache)),
         Displays(page, dialog, [cache EXCEPT ![r] = e], {}),
         UNCHANGED <<sent, server, marks, clock, acked>>,
         counts' \in CountRecords
  PROVE  ListsInv'
<1> DEFINE ch == [cache EXCEPT ![r] = e]
<1>1. Fits(cache, acked, {})
  BY CacheFits
<1>2. cache \in [Resources -> ListEntries]
  BY DEF ListsInv, ListsTyped
<1>3. /\ ch \in [Resources -> ListEntries] /\ ch[r] = e
      /\ \A q \in Resources : q # r => ch[q] = cache[q]
  BY <1>2
<1> HIDE DEF ch
<1>4. Fits(ch, acked, {})
  BY <1>1, <1>3 DEF Fits, Resources
<1>5. page \in DOMAIN Views /\ (\A s \in sent' : Held(s)) /\ acked' = acked
  BY DEF ListsInv, ListsTyped, SentOK
<1> QED
  BY <1>4, <1>5, DisplaysKeep DEF ch

LEMMA ReadsStep ==
  ASSUME ListsInv, NEW r \in Resources,
         \/ AnswerRead(r) \/ HearRead(r) \/ FailRead(r) \/ Retry(r) \/ Poll(r)
  PROVE  ListsInv'
<1>1. /\ cache[r] \in ListEntries /\ clock \in Nat /\ cache \in [Resources -> ListEntries]
      /\ server[r] \in 0 .. clock
      /\ counts \in CountRecords
  BY DEF ListsInv, ListsTyped
<1>2. r \in Lists => /\ acked[r] \in 0 .. clock /\ acked[r] <= server[r]
                  /\ FitsList(cache[r], acked[r], r \in Shown(page, dialog, cache))
  BY DEF ListsInv, ListsTyped, ListsOK
<1>3. cache[r].asked # Idle => r \in Shown(page, dialog, cache)
  BY DEF ListsInv, ReadersShown
<1>4. CASE AnswerRead(r)
  <2> DEFINE e == [cache[r] EXCEPT !.asked = server[r]]
  <2>1. e \in ListEntries
    BY <1>1 DEF ListEntries, Entries
  <2>2. e.asked # Idle => r \in Shown(page, dialog, cache)
    BY <1>3, <1>4 DEF AnswerRead, Going, Idle
  <2>3. e.asked = server[r] /\ e.data = cache[r].data /\ e.stale = cache[r].stale
    BY <1>1 DEF ListEntries, Entries
  <2>4. Displays(page, dialog, [cache EXCEPT ![r] = e], {})
    BY <1>4 DEF AnswerRead, ReadStep
  <2> HIDE DEF e
  <2>5. r \in Lists => FitsList(e, acked[r], r \in Shown(page, dialog, cache))
    BY <1>1, <1>2, <2>3 DEF FitsList, Idle
  <2> QED
    BY <1>1, <1>4, <2>1, <2>2, <2>4, <2>5, EntryStep DEF AnswerRead, ReadStep
<1>5. CASE HearRead(r)
  <2> DEFINE e == Answered(cache[r])
  <2>1. e \in ListEntries
    BY <1>1, <1>5 DEF ListEntries, Entries, Answered, HearRead
  <2>2. e.asked = Idle /\ e.data = cache[r].asked
    BY DEF Answered
  <2>3. Displays(page, dialog, [cache EXCEPT ![r] = e], {})
    BY <1>1, <1>5 DEF HearRead, ReadStep
  <2> HIDE DEF e
  <2>4. r \in Lists => FitsList(e, acked[r], r \in Shown(page, dialog, cache))
    BY <1>1, <1>2, <1>5, <2>2 DEF FitsList, HearRead, ListEntries, Entries, Idle,
       Going
  <2> QED
    BY <1>1, <1>5, <2>1, <2>2, <2>3, <2>4, EntryStep DEF HearRead, ReadStep
<1>6. CASE FailRead(r)
  <2> DEFINE e == ReadFailed(cache[r])
  <2>1. /\ e \in ListEntries /\ e.asked = Idle /\ e.data = cache[r].data
        /\ e.stale = cache[r].stale /\ e.failed
    BY <1>1 DEF ListEntries, Entries, ReadFailed
  <2>2. Displays(page, dialog, [cache EXCEPT ![r] = e], {})
    BY <1>1, <1>6 DEF FailRead
  <2>3. counts' \in CountRecords
    BY <1>1, <1>6 DEF FailRead, CountRecords
  <2> HIDE DEF e
  <2>4. r \in Lists => FitsList(e, acked[r], r \in Shown(page, dialog, cache))
    BY <1>1, <1>2, <2>1 DEF FitsList
  <2> QED
    BY <1>6, <2>1, <2>2, <2>3, <2>4, EntryStep DEF FailRead
<1>7. CASE Retry(r) \/ Poll(r)
  <2> DEFINE e == Fetching(cache[r])
  <2>1. /\ e \in ListEntries /\ e.asked = Going /\ e.data = cache[r].data
        /\ e.stale = cache[r].stale
    BY <1>1 DEF ListEntries, Entries, Fetching
  <2>2. /\ Displays(page, dialog, [cache EXCEPT ![r] = e], {})
        /\ r \in Shown(page, dialog, cache)
    BY <1>1, <1>7 DEF Retry, Poll, ReadStep
  <2> HIDE DEF e
  <2>3. r \in Lists => FitsList(e, acked[r], r \in Shown(page, dialog, cache))
    BY <1>1, <1>2, <2>1 DEF FitsList, Idle, Going
  <2> QED
    BY <1>1, <1>7, <2>1, <2>2, <2>3, EntryStep DEF Retry, Poll, ReadStep
<1> QED
  BY <1>4, <1>5, <1>6, <1>7

(* A step of the API: the entries show versions the API had before.        *)
LEMMA ShownAcross ==
  ASSUME ListsTyped, NEW w, Changes(w), UNCHANGED <<page, dialog, cache>>
  PROVE  Shown(page, dialog, cache)' = Shown(page, dialog, cache)
<1>1. \A r \in Resources : Has(r, cache)' = Has(r, cache)
  <2> SUFFICES ASSUME NEW r \in Resources
               PROVE  Has(r, cache)' = Has(r, cache)
    OBVIOUS
  <2>1. cache[r] \in ListEntries /\ clock \in Nat
    BY DEF ListsTyped
  <2>2. cache[r].data # clock + 1
    BY <2>1 DEF ListEntries, Entries, NoData
  <2> QED
    BY <2>2 DEF Has, Changes
<1>2. /\ "workspaces" \in Resources /\ "binding" \in Resources /\ "run" \in Resources
  BY DEF Resources, Lists, Details
<1>3. \A r : Enabled(r, cache)' = Enabled(r, cache)
  BY <1>1, <1>2 DEF Enabled
<1> QED
  BY <1>3 DEF Shown

LEMMA ApiStep ==
  ASSUME ListsInv, NEW w, w.touches \subseteq Resources, Changes(w),
         UNCHANGED <<page, dialog, cache, acked, counts>>
  PROVE  ListsTyped' /\ ReadersShown' /\ ListsOK' /\ (\A s : Held(s) => Held(s)')
<1>1. ListsTyped
  BY DEF ListsInv
<1>2. /\ clock \in Nat /\ clock' = clock + 1
      /\ server' \in [Resources -> 0 .. clock']
      /\ \A r \in Resources : server[r] \in Nat /\ server[r] <= server'[r]
  BY <1>1 DEF ListsTyped, Changes
<1>3. Shown(page, dialog, cache)' = Shown(page, dialog, cache)
  BY <1>1, ShownAcross
<1>4. ListsTyped'
  <2>1. \A n \in 0 .. clock : n \in 0 .. clock'
    BY <1>2
  <2>2. ListEntries \subseteq ListEntries'
    BY <2>1 DEF ListEntries, Entries
  <2>3. cache' \in [Resources -> ListEntries'] /\ acked' \in [Lists -> 0 .. clock']
    BY <1>1, <2>1, <2>2 DEF ListsTyped
  <2> QED
    BY <1>1, <1>2, <2>3 DEF ListsTyped
<1>5. ReadersShown'
  BY <1>3 DEF ListsInv, ReadersShown
<1>6. ListsOK'
  BY <1>1, <1>2, <1>3 DEF ListsInv, ListsOK, ListsTyped, Resources
<1>7. ASSUME NEW s, Held(s)
      PROVE  Held(s)'
  <2>1. s \in Calls /\ s.version \in Nat /\ s.version \in 0 .. clock'
    BY <1>2, <1>7 DEF Held, Calls
  <2>2. s \in Calls'
    BY <2>1, <1>2 DEF Calls
  <2>3. Writes[s.write].touches \subseteq Resources
    BY <2>1, HooksTell DEF Calls, TellsOf, WriteRecords
  <2>4. s.stage = "done" => \A r \in Writes[s.write].touches : s.version <= server'[r]
    BY <1>2, <1>7, <2>1, <2>3 DEF Held
  <2> QED
    BY <2>2, <2>4 DEF Held
<1> QED
  BY <1>4, <1>5, <1>6, <1>7

LEMMA RunEndsStep ==
  ASSUME ListsInv, RunEnds
  PROVE  ListsInv'
<1> DEFINE w == [Nothing EXCEPT !.touches = {"runs", "run"}, !.ends = {"runs", "run"}]
<1>1. w.touches \subseteq Resources
  BY DEF Nothing, Resources, Lists, Details
<1>2. Changes(w) /\ UNCHANGED <<page, dialog, cache, sent, acked, counts>>
  BY DEF RunEnds
<1> HIDE DEF w
<1>3. ListsTyped' /\ ReadersShown' /\ ListsOK' /\ (\A s : Held(s) => Held(s)')
  BY <1>1, <1>2, ApiStep
<1> QED
  BY <1>2, <1>3 DEF ListsInv, SentOK

LEMMA ServeStep ==
  ASSUME ListsInv, NEW s \in sent, Serve(s)
  PROVE  ListsInv'
<1> DEFINE w == Writes[s.write]
<1>1. Held(s) /\ s \in Calls /\ w.touches \subseteq Resources
  BY HooksTell DEF ListsInv, SentOK, Held, Calls, TellsOf, WriteRecords
<1>2. /\ Changes(w) /\ UNCHANGED <<page, dialog, cache, acked, counts>>
      /\ sent' = (sent \ {s}) \cup {[s EXCEPT !.stage = "done", !.version = clock + 1]}
  BY DEF Serve
<1>3. PICK v : v = clock + 1
  OBVIOUS
<1>4. PICK t : t = [s EXCEPT !.stage = "done", !.version = v]
  OBVIOUS
<1>5. ListsTyped' /\ ReadersShown' /\ ListsOK' /\ (\A q : Held(q) => Held(q)')
  BY <1>1, <1>2, ApiStep
<1>6. Held(t)'
  <2>1. v \in 0 .. clock' /\ clock' = v /\ v \in Nat
    BY <1>2, <1>3 DEF Changes, ListsInv, ListsTyped
  <2>2. \A r \in w.touches : server'[r] = v
    BY <1>1, <1>2, <1>3 DEF Changes
  <2> HIDE DEF w
  <2> DEFINE t1 == [s EXCEPT !.stage = "done"]
  <2>3. t1 \in Calls /\ t1.stage = "done" /\ t1.write = s.write
    BY <1>1 DEF Calls
  <2> HIDE DEF t1
  <2>4. /\ [t1 EXCEPT !.version = v] \in Calls' /\ [t1 EXCEPT !.version = v].version = v
        /\ [t1 EXCEPT !.version = v].stage = "done"
        /\ [t1 EXCEPT !.version = v].write = s.write
    BY <2>1, <2>3 DEF Calls
  <2>5. t = [t1 EXCEPT !.version = v]
    BY <1>4 DEF t1
  <2> QED
    BY <2>1, <2>2, <2>4, <2>5 DEF Held, w
<1> HIDE DEF w
<1> QED
  BY <1>2, <1>3, <1>4, <1>5, <1>6 DEF ListsInv, SentOK

LEMMA RefusalStep ==
  ASSUME ListsInv, NEW s \in sent, HearRefusal(s)
  PROVE  ListsInv'
<1>1. PICK d : Displays(page, d, cache, {})
  BY DEF HearRefusal
<1>2. /\ UNCHANGED <<server, marks, clock>> /\ acked' = acked /\ counts' = counts
      /\ (\A q \in sent' : Held(q)) /\ page \in DOMAIN Views
  BY DEF HearRefusal, ListsInv, SentOK, ListsTyped
<1>3. Fits(cache, acked', {}) /\ counts' \in CountRecords
  BY <1>2, CacheFits DEF ListsInv, ListsTyped
<1> QED
  BY <1>1, <1>2, <1>3, DisplaysKeep

(* What a hook leaves in the cache fits the versions the tab is then told  *)
(* of: a list it changed is read again, or forgotten, or not shown and     *)
(* stale.                                                                  *)
LEMMA CachedFits ==
  ASSUME ListsInv, NEW k \in DOMAIN Writes, NEW v \in 0 .. clock, NEW own, NEW renewed,
         \A r \in Writes[k].touches : v <= server[r],
         Writes[k].removes \subseteq renewed,
         own = [r \in Lists |->
                  IF /\ r \in (Writes[k].touches \cap Lists) \ Overlooked(k)
                     /\ cache[r].data # NoData /\ acked[r] < v
                  THEN v ELSE acked[r]]
  PROVE  Fits(Cached(Writes[k], v, Shown(page, dialog, cache)), own, renewed)
<1> DEFINE w == Writes[k]
           before == Shown(page, dialog, cache)
           ch == Cached(w, v, before)
<1>1. /\ w.sets \subseteq Details
      /\ (w.touches \cap Lists) \ Overlooked(k) \subseteq w.invalidates \cup w.removes
  BY HooksTell DEF TellsOf, WriteRecords
<1>2. /\ \A r \in w.touches : v <= server[r]
      /\ w.removes \subseteq renewed
      /\ own = [r \in Lists |->
                  IF /\ r \in (w.touches \cap Lists) \ Overlooked(k)
                     /\ cache[r].data # NoData /\ acked[r] < v
                  THEN v ELSE acked[r]]
  OBVIOUS
<1> HIDE DEF w
<1>3. /\ clock \in Nat
      /\ cache \in [Resources -> ListEntries] /\ acked \in [Lists -> 0 .. clock]
      /\ server \in [Resources -> 0 .. clock]
  BY DEF ListsInv, ListsTyped
<1>4. own \in [Lists -> 0 .. clock]
  BY <1>2, <1>3
<1>5. ASSUME NEW r \in Resources
      PROVE  ch[r] = IF r \in w.sets THEN WithData(cache[r], v)
                     ELSE IF r \in w.removes THEN Empty
                     ELSE IF r \in w.invalidates THEN Invalidated(cache[r], r \in before)
                     ELSE cache[r]
  BY DEF Cached
<1>6. \A r \in Resources : cache[r].asked # Idle => r \in before
  BY DEF ListsInv, ReadersShown
<1>7. ch = [r \in Resources |-> ch[r]]
  BY DEF Cached
<1> HIDE DEF before, ch
<1>8. ASSUME NEW r \in Resources
      PROVE  LET e == cache[r]
                 f == Invalidated(cache[r], r \in before)
             IN  /\ WithData(e, v) \in ListEntries /\ WithData(e, v).asked = e.asked
                 /\ Empty \in ListEntries /\ Empty.asked = Idle /\ Empty.data = NoData
                 /\ f \in ListEntries /\ f.data = e.data /\ f.failed = e.failed
                 /\ e.data # NoData => f.stale = TRUE
                 /\ f.asked = e.asked \/ (r \in before /\ f.asked = Going)
                 /\ (r \in before /\ e.data # NoData) => f.asked = Going
                 /\ e.stale => f.stale
  <2>1. PICK e \in ListEntries : e = cache[r]
    BY <1>3
  <2>2. /\ Empty \in ListEntries /\ Empty.asked = Idle /\ Empty.data = NoData
    BY DEF ListEntries, Entries, Empty
  <2>3. WithData(e, v) \in ListEntries /\ WithData(e, v).asked = e.asked
    <3> DEFINE e1 == [e EXCEPT !.data = v]
               e2 == [e1 EXCEPT !.stale = FALSE]
    <3>1. e1 \in ListEntries /\ e1.asked = e.asked
      BY DEF ListEntries, Entries
    <3> HIDE DEF e1
    <3>2. e2 \in ListEntries /\ e2.asked = e.asked
      BY <3>1 DEF ListEntries, Entries
    <3> HIDE DEF e2
    <3>3. /\ [e2 EXCEPT !.failed = FALSE] \in ListEntries
          /\ [e2 EXCEPT !.failed = FALSE].asked = e.asked
      BY <3>2 DEF ListEntries, Entries
    <3> QED
      BY <3>3 DEF WithData, e1, e2
  <2>4. CASE r \notin before
    <3> DEFINE f == [e EXCEPT !.stale = TRUE]
    <3>1. /\ f \in ListEntries /\ f.data = e.data /\ f.failed = e.failed /\ f.asked = e.asked
          /\ f.stale = TRUE
      BY DEF ListEntries, Entries
    <3>2. Invalidated(cache[r], r \in before) = f
      BY <2>1, <2>4 DEF Invalidated
    <3> HIDE DEF f
    <3> QED
      BY <2>1, <2>2, <2>3, <2>4, <3>1, <3>2
  <2>5. CASE r \in before
    <3> DEFINE g == Fetching(e)
               f == [g EXCEPT !.stale = TRUE]
    <3>1. g \in ListEntries /\ g.data = e.data /\ g.failed = e.failed /\ g.asked = Going
      BY DEF Fetching, ListEntries, Entries
    <3> HIDE DEF g
    <3>2. /\ f \in ListEntries /\ f.data = e.data /\ f.failed = e.failed /\ f.asked = Going
          /\ f.stale = TRUE
      BY <3>1 DEF ListEntries, Entries
    <3>3. Invalidated(cache[r], r \in before) =
          IF e.data = NoData /\ e.asked # Idle THEN e ELSE f
      BY <2>1, <2>5 DEF Invalidated, g
    <3> HIDE DEF f
    <3> QED
      BY <2>1, <2>2, <2>3, <2>5, <3>2, <3>3
  <2> QED
    BY <2>4, <2>5
<1>9. ch \in [Resources -> ListEntries]
  <2>1. \A r \in Resources : ch[r] \in ListEntries
    BY <1>3, <1>5, <1>8
  <2> QED
    BY <1>7, <2>1
<1>10. ASSUME NEW r \in Resources
      PROVE  ch[r].asked # Idle => r \in before
  BY <1>5, <1>6, <1>8
<1>11. ASSUME NEW r \in Lists
       PROVE  own[r] <= server[r] /\ FitsList(ch[r], own[r], r \in before \ renewed)
  <2>1. /\ r \in Resources /\ r \notin w.sets /\ cache[r] \in ListEntries
        /\ acked[r] \in 0 .. clock /\ server[r] \in 0 .. clock /\ v \in 0 .. clock
    BY <1>1, <1>3, ListsAndDetails
  <2>2. acked[r] <= server[r] /\ FitsList(cache[r], acked[r], r \in before)
    BY DEF ListsInv, ListsOK, before
  <2>3. own[r] <= server[r]
    BY <1>2, <2>1, <2>2
  <2>4. CASE r \in w.removes
    <3>1. ch[r].asked = Idle /\ ch[r].data = NoData
      BY <1>5, <1>8, <2>1, <2>4
    <3> QED
      BY <2>3, <3>1 DEF FitsList
  <2>5. CASE r \notin w.removes /\ own[r] = acked[r]
    <3>1. ch[r] = IF r \in w.invalidates THEN Invalidated(cache[r], r \in before)
                  ELSE cache[r]
      BY <1>5, <2>1, <2>5
    <3>2. cache[r].asked # Idle => r \in before
      BY <1>6, <2>1
    <3> DEFINE f == Invalidated(cache[r], r \in before)
    <3>3. /\ f \in ListEntries /\ f.data = cache[r].data /\ f.failed = cache[r].failed
          /\ f.asked = cache[r].asked \/ (r \in before /\ f.asked = Going)
          /\ (r \in before /\ cache[r].data # NoData) => f.asked = Going
          /\ cache[r].stale => f.stale
      BY <1>8, <2>1
    <3> HIDE DEF f
    <3>4. FitsList(f, acked[r], r \in before \ renewed)
      BY <2>2, <3>2, <3>3 DEF FitsList, Going, Idle
    <3>5. FitsList(cache[r], acked[r], r \in before \ renewed)
      BY <2>2 DEF FitsList
    <3> QED
      BY <2>3, <2>5, <3>1, <3>4, <3>5 DEF f
  <2>6. CASE r \notin w.removes /\ own[r] # acked[r]
    <3>1. r \in w.invalidates /\ cache[r].data # NoData
      BY <1>1, <1>2, <2>6
    <3>2. ch[r] = Invalidated(cache[r], r \in before)
      BY <1>5, <2>1, <2>6, <3>1
    <3>3. /\ ch[r].stale = TRUE
          /\ ch[r].asked = IF r \in before THEN Going ELSE cache[r].asked
      BY <1>6, <1>8, <2>1, <3>1, <3>2
    <3>4. cache[r].asked # Idle => r \in before
      BY <1>6, <2>1
    <3> QED
      BY <2>3, <3>3, <3>4 DEF FitsList, Going, Idle
  <2> QED
    BY <2>4, <2>5, <2>6
<1> QED
  BY <1>4, <1>9, <1>10, <1>11 DEF Fits, before, ch, w

LEMMA HearStep ==
  ASSUME ListsInv, NEW s \in sent, Hear(s)
  PROVE  ListsInv'
<1> DEFINE w == Writes[s.write]
           next == IF s.bound /\ s.goes # Closed THEN s.goes ELSE page
           followed == IF w.then = Closed THEN {}
                       ELSE {[s EXCEPT !.write = w.then, !.stage = "out", !.version = 0]}
           others == (sent \ {s}) \cup followed
           renewed == IF next # page THEN Resources ELSE w.removes
           ch == Cached(w, s.version, Shown(page, dialog, cache))
<1>1. /\ Held(s) /\ s.stage = "done" /\ s.write \in DOMAIN Writes
      /\ s.version \in 0 .. clock /\ \A r \in w.touches : s.version <= server[r]
  BY DEF Hear, ListsInv, SentOK, Held, Calls
<1>2. next \in DOMAIN Views
  BY <1>1 DEF ListsInv, ListsTyped, Held, Calls
<1>3. w.removes \subseteq renewed
  BY <1>1, HooksTell DEF TellsOf, WriteRecords
<1>4. \A q \in sent' : Held(q)
  <2>1. \A q \in followed : Held(q)
    <3> SUFFICES ASSUME w.then # Closed
                 PROVE  Held([s EXCEPT !.write = w.then, !.stage = "out", !.version = 0])
      OBVIOUS
    <3> DEFINE s1 == [s EXCEPT !.write = w.then]
               s2 == [s1 EXCEPT !.stage = "out"]
               s3 == [s2 EXCEPT !.version = 0]
    <3>1. w.then \in DOMAIN Writes
      BY <1>1, HooksTell DEF TellsOf, WriteRecords
    <3> HIDE DEF w
    <3>2. s1 \in Calls
      BY <1>1, <3>1 DEF Held, Calls
    <3>3. [s EXCEPT !.write = w.then, !.stage = "out", !.version = 0] = s3
      OBVIOUS
    <3> HIDE DEF s1
    <3>4. s2 \in Calls /\ s2.stage = "out"
      BY <3>2 DEF Calls
    <3> HIDE DEF s2
    <3>5. s3 \in Calls /\ s3.stage = "out"
      BY <3>4 DEF Calls, ListsInv, ListsTyped
    <3> HIDE DEF s3
    <3> QED
      BY <3>3, <3>5 DEF Held
  <2>2. \A q \in sent : Held(q)
    BY DEF ListsInv, SentOK
  <2>3. sent' = IF next # page THEN Unbound(others) ELSE others
    BY DEF Hear
  <2> HIDE DEF followed, next
  <2>4. \A q \in others : Held(q)
    BY <2>1, <2>2
  <2> HIDE DEF others
  <2>5. \A q \in Unbound(others) : Held(q)
    BY <2>4, UnboundHeld
  <2> QED
    BY <2>3, <2>4, <2>5
<1>5. acked' = [r \in Lists |->
                  IF /\ r \in (w.touches \cap Lists) \ Overlooked(s.write)
                     /\ cache[r].data # NoData /\ acked[r] < s.version
                  THEN s.version ELSE acked[r]]
  BY DEF Hear
<1>6. PICK d : Displays(next, d, ch, renewed)
  BY DEF Hear
<1>7. UNCHANGED <<server, marks, clock>> /\ counts' = counts
  BY DEF Hear
<1> HIDE DEF next, renewed
<1>8. Fits(ch, acked', renewed)
  BY <1>1, <1>3, <1>5, CachedFits
<1>9. counts' \in CountRecords
  BY <1>7 DEF ListsInv, ListsTyped
<1> HIDE DEF ch
<1> QED
  BY <1>2, <1>4, <1>6, <1>7, <1>8, <1>9, DisplaysKeep

LEMMA ScreensStep ==
  ASSUME ListsInv, [Next]_vars
  PROVE  ListsInv'
<1>1. CASE UNCHANGED vars
  BY <1>1 DEF vars, ListsInv, ListsTyped, ReadersShown, ListsOK, SentOK, Held,
              Calls, FitsList, Shown, Enabled, Has, ListEntries
<1>2. CASE Uses
  BY <1>2, GoStep, DialogOpens, PressStep, DismissStep, ReadsStep DEF Uses
<1>3. CASE Answers
  BY <1>3, ServeStep, HearStep, RefusalStep, ReadsStep DEF Answers
<1>4. CASE Passes
  BY <1>4, RunEndsStep, ReadsStep DEF Passes
<1> QED
  BY <1>1, <1>2, <1>3, <1>4 DEF Next

LEMMA ListsAreKept == Spec => []ListsInv
  BY InitStep, ScreensStep, PTL DEF Spec

(* A list on screen that is not being read shows every change this tab made *)
(* and was told of (projects.ts:51-83, environments.ts:30-63,               *)
(* members.ts:46-71, runs.ts:55-76, test-management.ts:77-98): whatever the *)
(* order of answers, reads, polls, dialogs and screens, and whichever reads *)
(* fail.  A change a hook does not tell the cache of is not one of them.    *)
THEOREM OwnWritesAreShown == Spec => []ListsShowOwnWrites
<1>1. ListsInv => ListsShowOwnWrites
  BY DEF ListsInv, ListsOK, FitsList, ListsShowOwnWrites
<1> QED
  BY <1>1, ListsAreKept, PTL

===============================================================================
