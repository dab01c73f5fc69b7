------------------------------ MODULE MCChunking ------------------------------
(* Files of four lines of three kinds, and of three lines of six kinds.     *)
EXTENDS Attachment

Kinds == [blank |-> [bytes |-> 1, tokens |-> 1, saved |-> 1], short |-> [bytes |-> 1, tokens |-> 1, saved |-> 0],
          long |-> [bytes |-> 2, tokens |-> 3, saved |-> 1], dense |-> [bytes |-> 2, tokens |-> 5, saved |-> 0],
          full |-> [bytes |-> 5, tokens |-> 4, saved |-> 0],
          wide |-> [bytes |-> 6, tokens |-> 2, saved |-> 0]]

Text(ks) == [bytes |-> [i \in DOMAIN ks |-> Kinds[ks[i]].bytes], tokens |-> [i \in DOMAIN ks |-> Kinds[ks[i]].tokens],
             saved |-> [i \in DOMAIN ks |-> Kinds[ks[i]].saved], blank |-> [i \in DOMAIN ks |-> ks[i] = "blank"],
             language |-> "text", policy |-> Nil, text |-> <<>>, tree |-> Nil, damaged |-> {}]
Texts == {Text(ks) : ks \in [1 .. 4 -> {"blank", "short", "long"}] \cup [1 .. 3 -> DOMAIN Kinds]}

N(first, last, kind, children) ==
  [first |-> first, last |-> last, kind |-> kind, held |-> FALSE, children |-> children]
L(first, last) == N(first, last, "plain", <<>>)

Trees == {
  N(1, 4, "plain", <<>>),
  N(1, 4, "plain", <<L(1, 1), N(2, 4, "holder", <<L(2, 2), [N(3, 3, "function", <<>>) EXCEPT !.held = TRUE], N(4, 4, "declaration", <<>>)>>)>>),
  N(1, 4, "plain", <<N(1, 4, "call", <<N(1, 1, "function", <<>>), N(1, 3, "data", <<L(2, 3)>>), L(4, 4)>>)>>),
  N(1, 4, "plain", <<N(1, 2, "element", <<>>), L(2, 3), N(3, 3, "case", <<>>), L(4, 4)>>)}

RECURSIVE NodesOf(_)
NodesOf(n) == {n} \cup UNION {NodesOf(child) : child \in Range(n.children)}

MCNodes == UNION {NodesOf(n) : n \in Trees}

T(t, indent) == [t |-> t, indent |-> indent]
PythonLines == {
  <<T("comment", 0)>>, <<T("@", 0), T("word", 1)>>, <<T("def", 0), T(":", 9)>>, <<T("word", 0)>>, <<T("word", 2)>>}
PythonRest == {
  <<T("@", 2), T("word", 3)>>, <<T("def", 2), T(":", 9)>>, <<T("word", 0), T("(", 1)>>, <<T(")", 0)>>,
  <<T("word", 0), T("\\", 2)>>, <<>>}
JavaLines == {
  <<T("comment", 0)>>, <<T("word", 0), T("{", 1)>>, <<T("word", 0), T(";", 1)>>,
  <<T("}", 0)>>, <<T("}", 0), T("else", 1), T("{", 2)>>}
JavaRest == {
  <<T("@", 0), T("word", 1)>>, <<T("do", 0), T("{", 1), T("comment", 2)>>, <<T("}", 0), T("while", 1)>>,
  <<T("word", 0), T("=", 1), T("{", 2)>>, <<T("}", 0), T(";", 1)>>, <<T("else", 0)>>}

On1(line, toks) == [k \in DOMAIN toks |-> [t |-> toks[k].t, line |-> line, indent |-> toks[k].indent]]
Tokens(ls) == FoldLeft(LAMBDA all, i : all \o On1(i, ls[i]), <<>>, [i \in DOMAIN ls |-> i])
WithEnds(ls) == [i \in DOMAIN ls |-> Append(ls[i], T("nl", 0))]

\* Programs of four lines of some kinds, or three of any.
Programs(some, rest) == [1 .. 4 -> some] \cup [1 .. 3 -> some \cup rest]

\* Lines as short as can be, or so long that each is a range of its own.
Sizes(n) == {Text([i \in 1 .. n |-> "short"]), Text([i \in 1 .. n |-> "long"])}
InPython == UNION {{[s EXCEPT !.language = "python", !.text = Tokens(WithEnds(ls))] : s \in Sizes(Len(ls))} :
                     ls \in Programs(PythonLines, PythonRest)}
InJava   == UNION {{[s EXCEPT !.language = "java", !.text = Tokens(ls)] : s \in Sizes(Len(ls))} :
                     ls \in Programs(JavaLines, JavaRest)}

\* Items and comments of one line or two, in order, alone or as the body of another.
Leaves(first, last) ==
  {N(a, b, k, <<>>) : a \in first .. last, b \in first .. last, k \in {"comment", "item"}}
Ordered(ns) ==
  \A i \in DOMAIN ns : ns[i].last - ns[i].first \in {0, 1} /\ (i > 1 => ns[i].first >= ns[i - 1].last)
Forests(first, last, size) == {ns \in UNION {[1 .. n -> Leaves(first, last)] : n \in 1 .. size} : Ordered(ns)}
Bodies == {<<L(2, 2)>>} \cup Forests(2, 4, 2) \cup {<<N(2, 4, "statement_list", ns)>> : ns \in Forests(2, 4, 2)}
Roots == Forests(1, 4, 2) \cup
         {<<N(1, 1, "comment", <<>>), N(1, 4, "container", b)>> : b \in Bodies} \cup
         {<<N(1, 4, "container", <<N(1, 4, "container", b)>>)>> : b \in Bodies}
InRust == {[s EXCEPT !.language = "rust", !.tree = N(1, 4, "root", r), !.damaged = d] :
             s \in Sizes(4), r \in Roots, d \in {{}, {1}}}

Module == Tokens(WithEnds(<< <<T("def", 0), T(":", 9)>>, <<T("word", 2)>>, <<T("@", 0)>>, <<T("def", 0)>> >>))

MCSources ==
  Texts \cup InPython \cup InJava \cup InRust
  \cup {[s EXCEPT !.language = "python", !.text = Module] : s \in {x \in Texts : Len(x.bytes) = 4}}
  \cup {[s EXCEPT !.language = "javascript", !.policy = p, !.tree = t, !.damaged = d] :
          s \in {x \in Texts : Len(x.bytes) = 4}, p \in {"local", "context"}, t \in Trees, d \in {{}, {2}, {1, 4}}}
=============================================================================
