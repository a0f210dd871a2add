------------------------ MODULE MC_GeneratedProject -------------------------
(* Small instances of GeneratedProject.                                    *)
EXTENDS GeneratedProject, TLC

CONSTANTS c1, c2, i1, i2

OneCase  == {c1}
TwoCases == {c1, c2}
TwoInspectors == {i1, i2}
OneInspector  == {i1}

V(text, traits) == [is |-> text, traits |-> traits]
Node(called, named, visible, at) ==
  [called |-> called, named |-> named, visible |-> visible,
   at |-> [s \in Strategies |-> IF s \in DOMAIN at THEN at[s] ELSE NoValueHere]]

(* A labelled field beside a button whose test id changes with every build. *)
SignInLayout ==
  <<Node(<<"user">>, "User", TRUE,
         "label" :> V("User", {}) @@ "css" :> V("#user", {})),
    Node(<<"submit">>, "Sign in", TRUE,
         "testId" :> V("x9", {"generated"}) @@ "role" :> V("button Sign in", {}))>>

(* Two buttons of one name, told apart by a test id and by their place; a    *)
(* third node that is hidden.                                              *)
HomeLayout ==
  <<Node(<<"delete">>, "Delete", TRUE,
         "testId" :> V("k3", {"generated"}) @@ "role" :> V("button Delete", {})),
    Node(<<"delete">>, "Delete", TRUE,
         "role" :> V("button Delete", {}) @@ "css" :> V("li > button", {"positional"})),
    Node(<<"menu">>, "Menu", FALSE, "role" :> V("button Menu", {}))>>

(* Two fields whose aria-label overrides their label, beside a button that  *)
(* is called what their label says.                                        *)
Overridden == Node(<<"quantity">>, "Item quantity", TRUE,
                   "label" :> V("Quantity", {}) @@ "role" :> V("textbox Item quantity", {}))
TwinLayout ==
  <<Overridden, Overridden,
    Node(<<"quantity">>, "Quantity", TRUE, "role" :> V("button Quantity", {}))>>
TwinsOnly == "SignIn" :> TwinLayout

SignInOnly == "SignIn" :> SubSeq(SignInLayout, 1, 1)
Layouts == "SignIn" :> SignInLayout @@ "Home" :> HomeLayout

Visible(p, e) == [Step("assert", OnElement(p, e)) EXCEPT !.condition = "visible"]
Fill(p, e, v) == [Step("fill", OnElement(p, e)) EXCEPT !.value = v]
Case(name, params, steps, teardown) ==
  [name |-> name, area |-> "auth", params |-> params, setup |-> <<>>, steps |-> steps,
   teardown |-> teardown]

(* Signing in by clicking through; the same with a parameter; a case that   *)
(* needs the page behind, and its URL.                                      *)
SigningIn == Case("sign in", {}, <<Step("click", OnElement("SignIn", <<"submit">>)),
                                  Visible("SignIn", <<"user">>)>>, <<>>)
SigningInAs == Case("sign in as", {"user"}, <<Fill("SignIn", <<"user">>, "user"),
                                  Visible("SignIn", <<"user">>)>>, <<>>)
Deleting == Case("delete", {"item"},
  <<[Step("press", OnElement("Home", <<"delete">>)) EXCEPT !.value = "item"],
    Visible("Home", <<"delete", 2>>)>>,
  <<Step("reload", Nothing)>>)
OnTheUrl == Case("url", {},
  <<[Step("assert", OnPage("Home")) EXCEPT !.condition = "url"]>>, <<>>)
Navigating == Case("open", {}, <<Step("navigate", OnPage("SignIn")),
                                 Visible("SignIn", <<"user">>)>>, <<>>)
Borrowing == Case("borrow", {}, <<[Step("useFlow", Nothing) EXCEPT !.flow = "signIn"],
                                  Visible("SignIn", <<"user">>)>>, <<>>)

SomeModels == {SigningIn, Deleting, OnTheUrl, Borrowing}
Resetting == Case("reset", {"other"}, <<Fill("SignIn", <<"user">>, "other"),
                                  Visible("SignIn", <<"user">>)>>, <<>>)
ParameterModels == {SigningInAs, Resetting}
NavigatingModels == {Navigating, SigningInAs}

(* A generation given its flows is closed too, and its environment fixture  *)
(* holds the parameters of both; renderFlow and generate.ts:86-104.         *)
SignInFlow == [f \in {"signIn"} |-> SigningInAs]
SignInPages == [p \in {"SignIn"} |-> {<<"user">>, <<"submit">>}]
WithFlow == Generate(c1, Borrowing, SignInPages, SignInFlow, TRUE)

ASSUME FlowIsClosed ==
  /\ ~Refused(Borrowing, SignInPages, SignInFlow)
  /\ UnresolvedIn(Borrowing, SignInPages, SignInFlow) = {}
  /\ ~TypeErrorsIn(WithFlow) /\ ~LintErrorsIn(WithFlow)
  /\ WithFlow[EnvironmentPath].declares = {<<"param", "user">>}

=============================================================================
