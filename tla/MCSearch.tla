------------------------------- MODULE MCSearch -------------------------------
(***************************************************************************)
(* Two files.  The first has a declaration of four lines that was cut in   *)
(* two; the second has one line, that is worth most.                       *)
(***************************************************************************)
EXTENDS Search

a == [id |-> 1, file |-> 1, first |-> 1, last |-> 2, whole |-> <<1, 4>>]
c == [id |-> 2, file |-> 1, first |-> 3, last |-> 4, whole |-> <<1, 4>>]
d == [id |-> 3, file |-> 2, first |-> 1, last |-> 1, whole |-> <<1, 1>>]

MCFiles     == {1, 2}
MCFragments == {a, c, d}
MCCost      == [x \in MCFiles \X (1 .. 4) \X (1 .. 4) |->
                  IF x[3] < x[2] THEN 0 ELSE x[3] - x[2] + 3]
\* What a file holds only matters by being the same or not.  The second holds 1 at
\* first; the first may be what it was when its token was made, or not.
MCDisks == {h \in [MCFiles -> {1, 2}] : h[2] = 1}
MCPreparations == {[snap |-> [x \in MCFiles |-> 1], prepared |-> [inventory |-> TRUE, complete |-> TRUE, unreadable |-> 0]],
                   [snap |-> [x \in MCFiles |-> IF x = 1 THEN 1 ELSE None],
                    prepared |-> [inventory |-> TRUE, complete |-> FALSE, unreadable |-> 0]]}
MCPast      == {{<<a, 1>>}}
MCAnswers   == [f \in MCFragments |-> CASE f = a -> {3} [] f = c -> {1, 3} [] f = d -> {4}]
=============================================================================
