----------------------------- MODULE Projection -----------------------------
(***************************************************************************)
(* Test Models as data, and what the runner makes of them: the files the    *)
(* playwright adapter projects (spec.ts, flow.ts, page-object.ts,           *)
(* scaffold.ts, steps.ts) and what the prelude performs live (prelude.ts).  *)
(*                                                                         *)
(* A file is what it refers to, what it declares and what a compiler or a   *)
(* linter objects to inside it; its wording is left out.                    *)
(***************************************************************************)
EXTENDS Naturals, Sequences, FiniteSets

-----------------------------------------------------------------------------
(* The IR: test-model.v1.schema.json.                                       *)

Nothing         == [on |-> "nothing", page |-> "none", element |-> "none"]
Selector        == [on |-> "selector", page |-> "none", element |-> "none"]
OnPage(p)       == [on |-> "page", page |-> p, element |-> "none"]
OnElement(p, e) == [on |-> "element", page |-> p, element |-> e]

(* value: the name of a parameter or secret, or one of these two.           *)
NoValue == "none"
Literal == "literal"

Step(action, target) ==
  [action |-> action, target |-> target, to |-> Nothing, value |-> NoValue,
   condition |-> "none", flow |-> "none"]

Bare      == {"reload", "goBack", "goForward"}
OnOne     == {"fill", "clear", "select", "check", "uncheck", "upload", "click",
              "doubleClick", "rightClick", "hover", "dragTo"}
Typing    == {"fill", "select", "upload", "press"}
Asserting == {"assert", "waitFor"}

AllSteps(model) == model.setup \o model.steps \o model.teardown
StepsOf(model)  == {AllSteps(model)[i] : i \in DOMAIN AllSteps(model)}

(* What the schema asks of one step.                                        *)
StepIsValid(s) ==
  /\ s.action \in OnOne => s.target.on \in {"element", "selector"}
  /\ s.action \in Typing => s.value # NoValue
  /\ s.action = "navigate" => s.target.on \in {"page", "element"}
  /\ IF s.action = "dragTo" THEN s.to.on \in {"element", "selector"} ELSE s.to = Nothing
  /\ s.action \in Asserting => s.target # Nothing /\ s.condition # "none"
  /\ s.action \in Bare \cup {"useFlow"} =>
       s.target = Nothing /\ s.value = NoValue /\ s.condition = "none"
  /\ (s.action = "useFlow") = (s.flow # "none")

(* ... and TestModelSemantics of the whole: values are declared, and there  *)
(* is something to assert.                                                  *)
ModelIsValid(model) ==
  /\ Len(model.steps) > 0
  /\ \A s \in StepsOf(model) :
       /\ StepIsValid(s)
       /\ s.value \in model.params \cup {NoValue, Literal}
  /\ \E s \in StepsOf(model) : s.action = "assert"

-----------------------------------------------------------------------------
(* One step as code: steps.ts.                                              *)

(* The targets renderAction resolves, in the order it does.                 *)
Subjects(s) ==
  CASE s.action \in Bare \cup {"useFlow"} -> {}
    [] s.action = "dragTo" -> {s.target, s.to}
    [] OTHER -> {s.target}

RenderThrows(s) ==
  \/ Nothing \in Subjects(s)
  \/ s.action \in Typing /\ s.value = NoValue
  \/ s.action \in Asserting /\ s.condition = "none"

OnPages(s) == {t \in Subjects(s) : t.on \in {"page", "element"}}

(* Faulty: only a missing page counts, a missing element does not.          *)
UnresolvedPages(s, pages) == {t \in OnPages(s) : t.page \notin DOMAIN pages}

(* pages: the elements of each page object the generation was given.        *)
Unresolved(s, pages) ==
  {t \in OnPages(s) :
     \/ t.page \notin DOMAIN pages
     \/ t.on = "element" /\ t.element \notin pages[t.page]}

(* What the emitted line names: a URL assertion is about `page` alone.      *)
Named(s) == IF s.action \in Asserting /\ s.condition = "url" THEN {} ELSE OnPages(s)

Member(t) == <<"member", t.page, IF t.on = "page" THEN <<"goto">> ELSE t.element>>

(* A page object where a locator is wanted.                                 *)
NotALocator(s) == \E t \in Named(s) : t.on = "page" /\ s.action # "navigate"

-----------------------------------------------------------------------------
(* Files: [uses, declares, faults].                                         *)

File(uses, declares, faults) == [uses |-> uses, declares |-> declares, faults |-> faults]
Inert == File({}, {}, {})

TargetPages(model) ==
  {t.page : t \in {u \in UNION {{s.target, s.to} : s \in StepsOf(model)} :
                     u.on \in {"page", "element"}}}

PagesUsedBy(model, pages) == TargetPages(model) \cap DOMAIN pages
FlowsUsedBy(model) == {s.flow : s \in {u \in StepsOf(model) : u.action = "useFlow"}}

(* What a body of steps means to a compiler, given the pages it constructs. *)
BodyFaults(model, bound) ==
  LET steps == StepsOf(model)
      named == UNION {Named(s) : s \in steps} IN
  (IF {t.page : t \in named} \subseteq bound THEN {} ELSE {"unbound page"})
    \cup (IF \E s \in steps : NotALocator(s) THEN {"not a locator"} ELSE {})
    \cup (IF bound \subseteq {t.page : t \in named} THEN {} ELSE {"unused page"})
    \cup (IF model.params \subseteq {s.value : s \in steps} THEN {} ELSE {"unused parameter"})

Body(model, bound) ==
  {<<"class", p>> : p \in bound}
    \cup {<<"param", n>> : n \in model.params}
    \cup {Member(t) : t \in UNION {Named(s) : s \in StepsOf(model)}}
    \cup {<<"flow", f>> : f \in FlowsUsedBy(model)}

RenderSpec(model, pages) ==
  LET bound == PagesUsedBy(model, pages) IN
  File(Body(model, bound), {}, BodyFaults(model, bound))

(* A flow binds every page it targets, inspected or not.                    *)
RenderFlow(name, model) ==
  LET bound == TargetPages(model) IN
  File(Body(model, bound), {<<"flow", name>>}, BodyFaults(model, bound))

(* Element names are sequences of words, see Inspection.                    *)
Reserved == {<<"page">>, <<"goto">>, <<"constructor">>}

RenderPageObject(p, elements) ==
  File({}, {<<"class", p>>, <<"member", p, <<"goto">>>>} \cup {<<"member", p, e>> : e \in elements}, {})

RenderEnvironmentFixture(params) == File({}, {<<"param", n>> : n \in params}, {})

-----------------------------------------------------------------------------
(* A generation: generate.ts.                                               *)

SpecPath(model) == <<"tests", model.area, model.name>>
PagePath(p)     == <<"pages", p>>
FlowPath(f)     == <<"flows", f>>
ModelPath(ref)  == <<"models", ref>>
EnvironmentPath == <<"fixtures", "environment">>
Skeleton        == {<<"package.json">>, <<"playwright.config.ts">>, <<"project.json">>}

Refused(model, pages, flows) ==
  \/ ~ModelIsValid(model)
  \/ \E p \in DOMAIN pages : pages[p] \cap Reserved # {}
  \/ \E m \in {model} \cup {flows[f] : f \in DOMAIN flows} :
       \E s \in StepsOf(m) : RenderThrows(s)

ParametersOf(model, flows) ==
  model.params \cup UNION {flows[f].params : f \in DOMAIN flows}

UnresolvedIn(model, pages, flows) ==
  UNION {Unresolved(s, pages) :
           s \in StepsOf(model) \cup UNION {StepsOf(flows[f]) : f \in DOMAIN flows}}

Generate(ref, model, pages, flows, scaffold) ==
  LET params == ParametersOf(model, flows)
      paths  == {SpecPath(model), ModelPath(ref)}
                  \cup {PagePath(p) : p \in DOMAIN pages}
                  \cup {FlowPath(f) : f \in DOMAIN flows}
                  \cup (IF params = {} THEN {} ELSE {EnvironmentPath})
                  \cup (IF scaffold THEN Skeleton ELSE {})
  IN [path \in paths |->
        CASE path = SpecPath(model) -> RenderSpec(model, pages)
          [] path[1] = "pages"      -> RenderPageObject(path[2], pages[path[2]])
          [] path[1] = "flows"      -> RenderFlow(path[2], flows[path[2]])
          [] path = EnvironmentPath -> RenderEnvironmentFixture(params)
          [] OTHER                  -> Inert]

-----------------------------------------------------------------------------
(* tsc over a set of files, and then eslint: verify.ts.                     *)

Declared(files) == UNION {files[path].declares : path \in DOMAIN files}
Dangling(files) == (UNION {files[path].uses : path \in DOMAIN files}) \ Declared(files)

TypeErrorsIn(files) ==
  \/ Dangling(files) # {}
  \/ \E path \in DOMAIN files : files[path].faults \cap {"unbound page", "not a locator"} # {}

LintErrorsIn(files) ==
  \E path \in DOMAIN files : files[path].faults \cap {"unused page", "unused parameter"} # {}

(* Faulty: the linter's objections are read and dropped.                    *)
TypecheckOnly(files, engineTypes) ==
  IF ~engineTypes THEN [ok |-> TRUE, skipped |-> TRUE]
  ELSE [ok |-> ~TypeErrorsIn(files), skipped |-> FALSE]

(* Without the engine's types nothing is checked, and nothing objected.     *)
VerifyProject(files, engineTypes) ==
  IF ~engineTypes THEN [ok |-> TRUE, skipped |-> TRUE]
  ELSE [ok |-> ~TypeErrorsIn(files) /\ ~LintErrorsIn(files), skipped |-> FALSE]

-----------------------------------------------------------------------------
(* The same IR, performed: prelude.ts.                                      *)

(* locate() and resolve(): only an element of a known page, or a selector.  *)
Locates(t, pages) ==
  \/ t.on = "selector"
  \/ t.on = "element" /\ t.page \in DOMAIN pages /\ t.element \in pages[t.page]

Types(value, variables) == value = Literal \/ value \in variables

(* Whether perform() carries a step out on an application that obliges.     *)
(* variables: what the environment defines.                                 *)
PerformsAlone(s, pages, variables) ==
  CASE s.action \in Bare -> TRUE
    [] s.action = "navigate" -> Types(s.value, variables)
    [] s.action = "press" ->
         Types(s.value, variables) /\ (s.target = Nothing \/ Locates(s.target, pages))
    [] s.action \in {"fill", "select", "upload"} ->
         Locates(s.target, pages) /\ Types(s.value, variables)
    [] s.action = "dragTo" -> Locates(s.target, pages) /\ Locates(s.to, pages)
    [] s.action = "assert" -> s.target = Nothing \/ Locates(s.target, pages)
    [] s.action = "useFlow" -> FALSE
    [] OTHER -> Locates(s.target, pages)

(* setup then steps, teardown never; the first step that fails ends it.     *)
Replayed(model) == model.setup \o model.steps

PerformsAll(steps, pages, variables) ==
  \A i \in DOMAIN steps : PerformsAlone(steps[i], pages, variables)

(* flows: those sent along, each free of flows itself (bound).              *)
Performs(s, pages, variables, flows) ==
  IF s.action = "useFlow"
  THEN s.flow \in DOMAIN flows /\ PerformsAll(Replayed(flows[s.flow]), pages, variables)
  ELSE PerformsAlone(s, pages, variables)

RunPrelude(model, pages, variables, flows) ==
  \A i \in DOMAIN Replayed(model) : Performs(Replayed(model)[i], pages, variables, flows)

=============================================================================
