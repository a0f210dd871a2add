----------------------------- MODULE Environments -----------------------------
(***************************************************************************)
(* A project's environments: the form that edits one                       *)
(* (apps/web/src/features/environments) and the service that stores it     *)
(* (feature/environment).  A stored secret never leaves the API, so a form *)
(* holds a mark in its place, and a request that gives a secret no value   *)
(* keeps the stored one.                                                   *)
(*                                                                         *)
(* Each client has one dialog and one request.  A request is a             *)
(* transaction that reads and commits in two steps.  The version columns   *)
(* are modelled by what they tell: which of the rows a transaction read    *)
(* were written by others since.  The prelude, the base URL and the access *)
(* check are left out; a name stands for the row that has it, and is not   *)
(* used again once its row is deleted.                                     *)
(***************************************************************************)
EXTENDS Naturals, FiniteSets

CONSTANTS
  Clients,    \* people with the screen open
  Names,      \* the environments there may be
  Keys,       \* the variables there may be
  Encrypts,   \* whether the server has an encryption key
  MaxSaves    \* how many requests are sent

ASSUME EnvironmentsAssumption ==
  Encrypts \in BOOLEAN /\ MaxSaves \in Nat

VARIABLES
  rows,     \* per name: Never, Deleted, or the environment's row and its variables
  forms,    \* per client: NoForm, or the environment it edits and what it was then
  request,  \* per client: NoRequest, or what it sent and how far that is
  saves     \* how many requests were sent

envVars == <<rows, forms, request, saves>>

Never == [state |-> "never"]
Deleted == [state |-> "deleted"]
NoForm == [open |-> FALSE]
NoRequest == [stage |-> "none"]
NoVariable == [kept |-> FALSE]

Present == {e \in Names : rows[e].state = "present"}
Defaults == {e \in Present : rows[e].isDefault}
NoVariables == [k \in Keys |-> NoVariable]

Variable(secret, value) == [kept |-> TRUE, secret |-> secret, value |-> value]

(* A value is blank, or a text, which is named by what it was typed for:   *)
(* the environment, the variable, and whether that was to be a secret.     *)
Blank == <<>>
Typed(e, k, secret) == <<e, k, secret>>
Values == {Blank} \cup {Typed(e, k, s) : e \in Names, k \in Keys, s \in BOOLEAN}
Variables == {NoVariable} \cup {Variable(s, v) : s \in BOOLEAN, v \in Values}

-------------------------------------------------------------------------------
(* What the API shows, and the form made of it.                            *)

Hidden == <<"hidden">>

ToResponse(variable) ==
  IF ~variable.kept THEN variable
  ELSE [key |-> TRUE, secret |-> variable.secret, valueSet |-> variable.value # Blank,
        value |-> IF variable.secret THEN Hidden ELSE variable.value]

Response(e) == [k \in Keys |-> ToResponse(rows[e].variables[k])]

(* How many of the form's rows stand for a secret the API keeps.           *)
StoredIn(variables) ==
  Cardinality({k \in Keys : variables[k].kept /\ variables[k].secret
                            /\ variables[k].value # Blank})

FormRow(filled, secret, stored) ==
  [kept |-> TRUE, filled |-> filled, secret |-> secret, stored |-> stored]

FormRows ==
  {NoVariable} \cup {FormRow(f, s, st) : f \in BOOLEAN, s \in BOOLEAN, st \in BOOLEAN}

(* The forms that editing leads to, from one with that many stored         *)
(* secrets: rows are added, removed, renamed and typed into; turning a     *)
(* secret into a plain variable takes its mark away, for good.  The schema *)
(* refuses a key used twice and a new secret without a value.              *)
Edited(stored) ==
  {form \in [Keys -> FormRows] :
     /\ \A k \in Keys : form[k].kept /\ form[k].stored => form[k].secret
     /\ Cardinality({k \in Keys : form[k].kept /\ form[k].stored}) <= stored
     /\ \A k \in Keys :
          form[k].kept /\ form[k].secret /\ ~form[k].filled => form[k].stored}

(* An empty secret is sent without a value.                                *)
Omitted == <<"omitted">>

ToInput(e, form) ==
  [k \in Keys |->
     IF ~form[k].kept THEN NoVariable
     ELSE Variable(form[k].secret,
                   IF form[k].filled THEN Typed(e, k, form[k].secret)
                   ELSE IF form[k].secret THEN Omitted ELSE Blank)]

-------------------------------------------------------------------------------
(* The screen.                                                             *)

OpenCreate(c) ==
  /\ forms[c] = NoForm /\ saves < MaxSaves
  /\ \E e \in Names \ Present :
       /\ rows[e] = Never
       /\ forms' = [forms EXCEPT ![c] = [open |-> TRUE, creates |-> TRUE,
                                         name |-> e, stored |-> 0]]
  /\ UNCHANGED <<rows, request, saves>>

OpenEdit(c, e) ==
  /\ forms[c] = NoForm /\ saves < MaxSaves
  /\ e \in Present
  /\ forms' = [forms EXCEPT ![c] = [open |-> TRUE, creates |-> FALSE, name |-> e,
                                    stored |-> StoredIn(rows[e].variables)]]
  /\ UNCHANGED <<rows, request, saves>>

CloseForm(c) ==
  /\ forms[c].open
  /\ forms' = [forms EXCEPT ![c] = NoForm]
  /\ UNCHANGED <<rows, request, saves>>

Sends(c, kind, e, isDefault, input) ==
  /\ saves < MaxSaves
  /\ request[c] = NoRequest
  /\ saves' = saves + 1
  /\ request' = [request EXCEPT ![c] = [stage |-> "out", kind |-> kind, name |-> e,
                                        isDefault |-> isDefault, input |-> input]]

(* The dialog stays open, with its button disabled, until the answer.      *)
Submit(c) ==
  /\ forms[c].open
  /\ \E isDefault \in BOOLEAN, form \in Edited(forms[c].stored) :
       Sends(c, IF forms[c].creates THEN "create" ELSE "update",
             forms[c].name, isDefault, ToInput(forms[c].name, form))
  /\ UNCHANGED <<rows, forms>>

AskDeletion(c, e) ==
  /\ forms[c] = NoForm
  /\ e \in Present
  /\ Sends(c, "delete", e, FALSE, NoVariables)
  /\ UNCHANGED <<rows, forms>>

-------------------------------------------------------------------------------
(* The service.                                                            *)

(* Faulty: what was sent is what is stored. *)
VariablesAsGiven(input, existing) == input

(* Faulty: an absent value is stored as an empty one. *)
VariablesAsSent(input, existing) ==
  [k \in Keys |->
     IF ~input[k].kept THEN NoVariable
     ELSE Variable(input[k].secret, IF input[k].value = Omitted THEN Blank ELSE input[k].value)]

(* Faulty: an empty value leaves what is stored under the key, secret or not. *)
VariablesUnlessBlank(input, existing) ==
  [k \in Keys |->
     IF ~input[k].kept THEN NoVariable
     ELSE Variable(input[k].secret,
                   IF input[k].value \in {Omitted, Blank} /\ existing[k].kept
                   THEN existing[k].value ELSE input[k].value)]

(* The variables a request asks for.  A secret without a value is the      *)
(* secret that is stored under its key, and a plain variable without one   *)
(* is empty.                                                               *)
VariablesOf(input, existing) ==
  [k \in Keys |->
     IF ~input[k].kept THEN NoVariable
     ELSE IF input[k].value # Omitted THEN Variable(input[k].secret, input[k].value)
     ELSE IF input[k].secret THEN existing[k]
     ELSE Variable(FALSE, Blank)]

(* There is a key to encrypt with, and a stored secret for each that was   *)
(* sent without a value.                                                   *)
VariablesAreTaken(input, existing) ==
  \A k \in Keys : input[k].kept /\ input[k].secret =>
    IF input[k].value = Omitted THEN existing[k].kept /\ existing[k].secret ELSE Encrypts

Before(r) == IF r.kind = "create" THEN NoVariables ELSE rows[r.name].variables

Accepted(r) ==
  /\ IF r.kind = "create" THEN r.name \notin Present ELSE r.name \in Present
  /\ r.kind # "delete" => VariablesAreTaken(r.input, Before(r))
  /\ r.kind # "delete" /\ r.isDefault => Cardinality(Defaults) <= 1

Refuse(c) ==
  /\ request[c].stage = "out" /\ ~Accepted(request[c])
  /\ request' = [request EXCEPT ![c] = NoRequest]
  /\ UNCHANGED <<rows, forms, saves>>

(* The first environment of a project is the default.  A new default       *)
(* clears the one that was found.                                          *)
Wanted(r) == r.isDefault \/ (r.kind = "create" /\ Present = {})

Previous(r) == IF Wanted(r) THEN Defaults \ {r.name} ELSE {}

(* What a transaction that read `before` writes: the environment's own row *)
(* and each variable's only when they change.                              *)
RowsWritten(r, before, after) ==
  CASE r.kind = "create" -> {<<r.name>>}
    [] r.kind = "delete" -> {<<r.name>>} \cup {<<r.name, k>> : k \in Keys}
    [] OTHER ->
         (IF before.isDefault = after.isDefault THEN {} ELSE {<<r.name>>})
           \cup {<<r.name, k>> : k \in {k \in Keys :
                                          before.variables[k] # after.variables[k]}}

Read(c) ==
  LET r == request[c]
      after == IF r.kind = "delete" THEN Deleted
               ELSE [state |-> "present", isDefault |-> Wanted(r),
                     variables |-> VariablesOf(r.input, Before(r))]
  IN
  /\ r.stage = "out" /\ Accepted(r)
  /\ request' = [request EXCEPT ![c] =
       [stage |-> "read", name |-> r.name, after |-> after, kind |-> r.kind,
        previous |-> IF r.kind = "delete" THEN {} ELSE Previous(r),
        writes |-> RowsWritten(r, rows[r.name], after), outdated |-> {}]]
  /\ UNCHANGED <<rows, forms, saves>>

(* The rows a commit writes, with those of the previous default.           *)
Written(r) == r.writes \cup {<<e>> : e \in r.previous}

(* A row another transaction wrote, inserted or deleted in between.        *)
Overtaken(r) == Written(r) \cap r.outdated # {}

(* A variable is deleted with its environment, and cannot be added to one  *)
(* that is gone.                                                           *)
Outdates(r) ==
  Written(r) \cup (IF r.kind = "delete" THEN {<<r.name>>} ELSE {})

Commit(c) ==
  LET r == request[c]
      touched(e) == <<e>> \in r.writes
  IN
  /\ r.stage = "read" /\ ~Overtaken(r)
  /\ rows' = [e \in Names |->
       IF e \in r.previous THEN [rows[e] EXCEPT !.isDefault = FALSE]
       ELSE IF e # r.name THEN rows[e]
       ELSE IF r.kind # "update" THEN r.after
       ELSE IF rows[e].state # "present" THEN rows[e]
       ELSE [rows[e] EXCEPT
               !.isDefault = IF touched(e) THEN r.after.isDefault ELSE @,
               !.variables = [k \in Keys |-> IF <<e, k>> \in r.writes
                                             THEN r.after.variables[k] ELSE @[k]]]]
  /\ request' = [d \in Clients |->
       IF d = c THEN NoRequest
       ELSE IF request[d].stage = "read"
       THEN [request[d] EXCEPT !.outdated = @ \cup Outdates(r)] ELSE request[d]]
  /\ forms' = [forms EXCEPT ![c] = IF r.kind = "delete" THEN @ ELSE NoForm]
  /\ UNCHANGED saves

RollBack(c) ==
  /\ request[c].stage = "read" /\ Overtaken(request[c])
  /\ request' = [request EXCEPT ![c] = NoRequest]
  /\ UNCHANGED <<rows, forms, saves>>

-------------------------------------------------------------------------------
(* No environment yet, or the first one, with some variables.              *)
StartVariables(e, secret, plain) ==
  [k \in Keys |->
     IF k \in secret THEN Variable(TRUE, Typed(e, k, TRUE))
     ELSE IF k \in plain THEN Variable(FALSE, Typed(e, k, FALSE)) ELSE NoVariable]

Started(first, secret, plain) ==
  [e \in Names |->
     IF e # first THEN Never
     ELSE [state |-> "present", isDefault |-> TRUE,
           variables |-> StartVariables(e, secret, plain)]]

FirstRows ==
  {[e \in Names |-> Never]} \cup
  {Started(first, secret, plain) :
     first \in Names, secret \in SUBSET Keys, plain \in SUBSET Keys}

EnvInit ==
  /\ rows \in FirstRows
  /\ forms = [c \in Clients |-> NoForm]
  /\ request = [c \in Clients |-> NoRequest]
  /\ saves = 0

EnvNext ==
  \E c \in Clients :
    \/ OpenCreate(c) \/ CloseForm(c) \/ Submit(c)
    \/ \E e \in Names : OpenEdit(c, e) \/ AskDeletion(c, e)
    \/ Refuse(c) \/ Read(c) \/ Commit(c) \/ RollBack(c)

EnvSpec == EnvInit /\ [][EnvNext]_envVars

-------------------------------------------------------------------------------
EnvTypeOK ==
  /\ \A e \in Names :
       \/ rows[e] \in {Never, Deleted}
       \/ rows[e].state = "present" /\ rows[e].isDefault \in BOOLEAN
            /\ rows[e].variables \in [Keys -> Variables]
  /\ \A c \in Clients : forms[c] = NoForm \/ forms[c].name \in Names
  /\ \A c \in Clients : request[c].stage \in {"none", "out", "read"}
  /\ saves \in 0 .. MaxSaves

(* A stored secret is a text somebody gave as that very secret: saving a   *)
(* form that shows only its mark neither empties it nor puts another       *)
(* variable's value in its place, whatever was renamed, removed or saved   *)
(* by somebody else since the form was opened (EnvironmentService.java:    *)
(* 225-270, environment-form.tsx:60-81, environments-view.tsx:254-273).    *)
SecretsAreTyped ==
  \A e \in Present, k \in Keys :
    LET variable == rows[e].variables[k] IN
    variable.kept /\ variable.secret => variable.value = Typed(e, k, TRUE)

(* What the API shows as a value was given as a plain value: a secret that *)
(* is turned into a plain variable does not come out                       *)
(* (EnvironmentService.java:249-267, 272-295).                             *)
SecretsStayHidden ==
  \A e \in Present, k \in Keys :
    LET shown == Response(e)[k] IN
    rows[e].variables[k].kept /\ shown.value # Hidden =>
      shown.value \in {Blank, Typed(e, k, FALSE)}

(* At most one environment of a project is the default, as the service     *)
(* (EnvironmentService.java:208) and the entity (Environment.java:72) say. *)
OneDefault == Cardinality(Defaults) <= 1
===============================================================================
