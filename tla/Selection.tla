------------------------------- MODULE Selection -------------------------------
(***************************************************************************)
(* Ranges of lines that are chosen under a budget (src/response/           *)
(* selection.ts): candidates are offered one after another, best first; a  *)
(* range is merged with every range of its file that it touches, and its   *)
(* price is the change this makes.                                         *)
(***************************************************************************)
EXTENDS Integers, FiniteSets, FiniteSetsExt, Functions

CONSTANTS
  Files,       \* files, in the order of their paths
  Fragments,   \* fragments: a name, a file, lines, and the declaration cut to get it
  MaxLine,     \* lines of a file
  Cost,        \* tokens of a range of lines of a file, once serialized
  Available    \* tokens for excerpts

Lines == 1 .. MaxLine

ASSUME SelectionAssumption ==
  /\ Files \subseteq Nat /\ IsFiniteSet(Files) /\ MaxLine \in Nat /\ Available \in Nat
  /\ Cost \in [Files \X Lines \X Lines -> Nat]
  /\ Fragments \subseteq [id : Nat, file : Files, first : Lines, last : Lines,
                          whole : Lines \X Lines]
  /\ \A f \in Fragments : f.whole[1] <= f.first /\ f.first <= f.last /\ f.last <= f.whole[2]
  /\ \A f, g \in Fragments : f.id = g.id => f = g

Own(f) == <<f.first, f.last>>

\* compareCandidates: by score, then by place, then by name.
Better(f, g, score) ==
  \/ score[f] > score[g]
  \/ /\ score[f] = score[g]
     /\ \/ f.file < g.file
        \/ f.file = g.file /\ f.first < g.first
        \/ f.file = g.file /\ f.first = g.first /\ f.last < g.last
        \/ f.file = g.file /\ Own(f) = Own(g) /\ f.id < g.id

SamePlace(f, g) == f.file = g.file /\ Own(f) = Own(g)

\* Of candidates with the same lines the best is kept.
Distinct(S, score) ==
  {f \in S : \A g \in S \ {f} : SamePlace(f, g) => Better(f, g, score)}

Covers(r, f) == r.file = f.file /\ r.first <= f.first /\ f.last <= r.last

\* Mutant of Touching: ranges that only meet are left apart.
Overlapping(r, file, span) == r.file = file /\ r.first <= span[2] /\ span[1] <= r.last

\* Ranges of a file that overlap, or follow one another.
Touching(r, file, span) ==
  r.file = file /\ r.first <= span[2] + 1 /\ span[1] <= r.last + 1

Price(r) == Cost[<<r.file, r.first, r.last>>]
Prices(S) == SumFunctionOnSet([r \in S |-> Price(r)], S)

\* What it would do to offer lines of a fragment: the ranges replaced, by what, and
\* the change of the tokens used.
Near(S, f, span) == {r \in S : Touching(r, f.file, span)}

Union(S, f, span, score) ==
  [file  |-> f.file,
   first |-> Min({span[1]} \cup {r.first : r \in S}),
   last  |-> Max({span[2]} \cup {r.last : r \in S}),
   score |-> Max({score[f]} \cup {r.score : r \in S})]

Delta(near, range) == Price(range) - Prices(near)

Offered(S, f, span, score) ==
  LET near == Near(S, f, span)
      range == Union(near, f, span, score)
  IN  [near |-> near, range |-> range, delta |-> Delta(near, range)]

Fits(used, a) == used + a.delta <= Available

\* The whole declaration when it fits, and the fragment itself when not.
Admission(S, used, f, score) ==
  LET whole == Offered(S, f, f.whole, score)
  IN  IF Fits(used, whole) THEN whole ELSE Offered(S, f, Own(f), score)

Committed(S, a) == (S \ a.near) \cup {a.range}
=============================================================================
