----------------------------- MODULE Inspection -----------------------------
(***************************************************************************)
(* How one reading of a page becomes named elements with ranked locators:   *)
(* what the collector counts in the document (inspect/collect.ts), how a    *)
(* candidate is scored (inspect/score.ts) and how elements are named        *)
(* (inspect/plan.ts).                                                       *)
(*                                                                         *)
(* A document is a sequence of interactive nodes in document order.  A node *)
(* is the identifier a person would give it, its accessible name and, for   *)
(* each strategy, the value it could be addressed by: a value is a text and *)
(* the traits the scorer looks for.                                        *)
(***************************************************************************)
EXTENDS Naturals, Sequences, FiniteSets

Strategies == {"testId", "role", "label", "placeholder", "text", "altText", "title", "css"}

(* The priority table, in hundredths.                                       *)
Base ==
  [testId |-> 100, role |-> 90, label |-> 85, placeholder |-> 70, text |-> 65,
   altText |-> 60, title |-> 55, css |-> 40]

Traits == {"generated", "volatile", "long", "positional"}
NoValueHere == [is |-> "none", traits |-> {}]

(* A node: [called, named, visible, at : [Strategies -> value]].            *)
Has(node, strategy) == node.at[strategy] # NoValueHere

-----------------------------------------------------------------------------
(* collect.ts: how many nodes a strategy and value would match.  Hidden     *)
(* nodes count; only visible ones are reported.  A label is counted by the  *)
(* nodes that have it for an accessible name.                              *)

Matches(document, strategy, value) ==
  Cardinality({i \in DOMAIN document :
    IF strategy = "label" THEN document[i].named = value.is
                          ELSE document[i].at[strategy] = value})

Reported(node) == node.visible

-----------------------------------------------------------------------------
(* score.ts.  Thousandths; every candidate of an element has a strategy of  *)
(* its own, so the strategy alone breaks a tie.                             *)

Scaled(score, trait, value, percent) ==
  IF trait \in value.traits THEN (score * percent) \div 100 ELSE score

Worth(strategy, value) ==
  LET base   == Base[strategy] * 10
      hashed == Scaled(base, "generated", value, 50)
      fickle == IF strategy \in {"text", "title"}
                THEN Scaled(hashed, "volatile", value, 40) ELSE hashed
      sized  == Scaled(fickle, "long", value, 70)
      placed == IF strategy = "css" THEN Scaled(sized, "positional", value, 60) ELSE sized
  IN placed

(* Faulty: a value that matches several is scored like any other.           *)
ScoreOfAny(strategy, value, matches) == IF matches = 0 THEN 0 ELSE Worth(strategy, value)

Score(strategy, value, matches) == IF matches # 1 THEN 0 ELSE Worth(strategy, value)

Candidates(document, node) ==
  {[strategy |-> s, value |-> node.at[s],
    score |-> Score(s, node.at[s], Matches(document, s, node.at[s]))] :
     s \in {t \in Strategies : Has(node, t)}}

(* Faulty: the table alone, whatever the value looks like.                  *)
HigherInTheTable(a, b) == Base[a.strategy] > Base[b.strategy]

Better(a, b) ==
  \/ a.score > b.score
  \/ a.score = b.score /\ Base[a.strategy] > Base[b.strategy]

Usable(candidates) == {c \in candidates : c.score > 0}

Best(candidates) ==
  CHOOSE c \in candidates : \A d \in candidates \ {c} : Better(c, d)

-----------------------------------------------------------------------------
(* plan.ts: `deleteButton`, then `deleteButton2`.  A name is the words it   *)
(* is made of; a number appended is one more.                              *)

UniqueName(name, used) ==
  IF name \notin used THEN name
  ELSE LET free == {n \in 2..(Cardinality(used) + 2) : Append(name, n) \notin used}
       IN Append(name, CHOOSE n \in free : \A m \in free : n <= m)

Element(name, candidates) ==
  LET best == Best(candidates)
      rest == candidates \ {best} IN
  [name |-> name, locator |-> best, fallback |-> IF rest = {} THEN {} ELSE {Best(rest)}]

(* One more node: left out, counted as one that cannot be told apart, or    *)
(* an element.                                                             *)
Planned(document, node, before) ==
  LET candidates == Usable(Candidates(document, node))
      used == {before.elements[i].name : i \in DOMAIN before.elements} IN
  IF ~Reported(node) THEN before
  ELSE IF candidates = {} THEN [before EXCEPT !.ambiguous = @ + 1]
  ELSE [before EXCEPT !.elements =
          Append(@, Element(UniqueName(node.called, used), candidates))]

(* The elements of a reading, and how many could not be told apart.         *)
PlanElements(document) ==
  LET plan[k \in 0..Len(document)] ==
        IF k = 0 THEN [elements |-> <<>>, ambiguous |-> 0]
        ELSE Planned(document, document[k], plan[k - 1])
  IN plan[Len(document)]

=============================================================================
