------------------------------ MODULE FileDiff ------------------------------
(***************************************************************************)
(* The line diff the review panel draws for one proposed file              *)
(* (features/codegen/components/file-diff.tsx): a longest-common-          *)
(* subsequence table filled from the end, and a walk through it from the   *)
(* start.  A file is a sequence of lines, and the empty file is the one    *)
(* with a single empty line.                                               *)
(***************************************************************************)
EXTENDS Naturals, Sequences, FiniteSets

CONSTANT EmptyLine  \* the line with nothing on it

IsFile(f) == f \in Seq({f[n] : n \in DOMAIN f})

EmptyFile == <<EmptyLine>>

(* A file that is not there, or has nothing in it, has no lines to remove. *)
Before(previous) == IF previous = EmptyFile THEN <<>> ELSE previous

Larger(x, y) == IF x >= y THEN x ELSE y

(* A place <<i, j>> is in front of line i of a and of line j of b, and may *)
(* be behind the last line of either.                                      *)
Places(a, b) == (1 .. Len(a) + 1) \X (1 .. Len(b) + 1)

PastOld(p)  == <<p[1] + 1, p[2]>>
PastNew(p)  == <<p[1], p[2] + 1>>
PastBoth(p) == <<p[1] + 1, p[2] + 1>>

InOld(a, p) == p[1] <= Len(a)
InNew(b, p) == p[2] <= Len(b)

(* At p: the most lines the rest of a and the rest of b have in common.    *)
Table(a, b) ==
  LET t[p \in Places(a, b)] ==
        IF ~InOld(a, p) \/ ~InNew(b, p) THEN 0
        ELSE IF a[p[1]] = b[p[2]] THEN t[PastBoth(p)] + 1
        ELSE Larger(t[PastOld(p)], t[PastNew(p)])
  IN t

(* What the walk through table t does at p: the same line in both files, a *)
(* line that is gone, or a new line.                                       *)
Same(a, b, p) == InOld(a, p) /\ InNew(b, p) /\ a[p[1]] = b[p[2]]

Gone(a, b, t, p) ==
  /\ InOld(a, p) /\ ~Same(a, b, p)
  /\ InNew(b, p) => t[PastOld(p)] >= t[PastNew(p)]

(* A row of the diff, with its number in the old and in the new file.      *)
Blank == 0

ContextRow(a, p) == [kind |-> "context", text |-> a[p[1]], before |-> p[1], after |-> p[2]]
RemovedRow(a, p) == [kind |-> "removed", text |-> a[p[1]], before |-> p[1], after |-> Blank]
AddedRow(b, p)   == [kind |-> "added", text |-> b[p[2]], before |-> Blank, after |-> p[2]]

(* Faulty: what is left of the old file when the new one ends is dropped. *)
WalkToTheShorterEnd(a, b) ==
  LET t == Table(a, b)
      w[p \in Places(a, b)] ==
        IF Same(a, b, p) THEN <<ContextRow(a, p)>> \o w[PastBoth(p)]
        ELSE IF InNew(b, p) /\ Gone(a, b, t, p) THEN <<RemovedRow(a, p)>> \o w[PastOld(p)]
        ELSE IF InNew(b, p) THEN <<AddedRow(b, p)>> \o w[PastNew(p)]
        ELSE <<>>
  IN w[<<1, 1>>]

Walk(a, b) ==
  LET t == Table(a, b)
      w[p \in Places(a, b)] ==
        IF Same(a, b, p) THEN <<ContextRow(a, p)>> \o w[PastBoth(p)]
        ELSE IF Gone(a, b, t, p) THEN <<RemovedRow(a, p)>> \o w[PastOld(p)]
        ELSE IF InNew(b, p) THEN <<AddedRow(b, p)>> \o w[PastNew(p)]
        ELSE <<>>
  IN w[<<1, 1>>]

Diff(previous, contents) == Walk(Before(previous), contents)

-----------------------------------------------------------------------------
(* What a diff is for: both sides can be read off it, line by line and     *)
(* number by number, and it is as short as any that does that.             *)

(* The rows of some kinds, in order. *)
Rows(diff, kinds) ==
  LET rows[n \in 1 .. Len(diff) + 1] ==
        IF n > Len(diff) THEN <<>>
        ELSE IF diff[n].kind \in kinds THEN <<diff[n]>> \o rows[n + 1]
        ELSE rows[n + 1]
  IN rows[1]

OldRows(diff) == Rows(diff, {"context", "removed"})
NewRows(diff) == Rows(diff, {"context", "added"})
ContextRows(diff) == Rows(diff, {"context"})

ReadsBothWays(previous, contents) ==
  LET old == OldRows(Diff(previous, contents))
      new == NewRows(Diff(previous, contents))
  IN  /\ Len(old) = Len(Before(previous)) /\ Len(new) = Len(contents)
      /\ \A n \in DOMAIN old : old[n].text = Before(previous)[n] /\ old[n].before = n
      /\ \A n \in DOMAIN new : new[n].text = contents[n] /\ new[n].after = n

(* A common subsequence of a and b, given by the places it is found at. *)
Common(a, b) ==
  {c \in SUBSET ((1 .. Len(a)) \X (1 .. Len(b))) :
     /\ \A p \in c : a[p[1]] = b[p[2]]
     /\ \A p, q \in c : p # q => \/ p[1] < q[1] /\ p[2] < q[2]
                                 \/ q[1] < p[1] /\ q[2] < p[2]}

NoneIsLonger(previous, contents) ==
  LET kept == Len(ContextRows(Diff(previous, contents)))
  IN  \A c \in Common(Before(previous), contents) : Cardinality(c) <= kept
=============================================================================
