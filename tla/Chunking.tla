------------------------------- MODULE Chunking -------------------------------
(***************************************************************************)
(* How a file becomes fragments: chunkSnapshot of src/source/chunker.ts    *)
(* with the packing of syntax boundaries, the recursive plan of            *)
(* src/source/javascript-chunker.ts and the line windows of                *)
(* src/source/line-windows.ts, over the line index of                      *)
(* src/source/snapshot.ts.                                                 *)
(*                                                                         *)
(* The recursion of the planners is a list of work still to do, the        *)
(* innermost part first.  Ranges are cut into fragments once the plan is   *)
(* complete, in its order.  Statements of Python, Java, Go and Rust are    *)
(* found by the module Boundaries.  The parsers of TypeScript, Go and Rust *)
(* are outside: a file comes with its tree.  A node is [first, last, kind, *)
(* held, children]: its lines, what it is, whether a holder names it, and  *)
(* its children.  A symbol is the lines [first, last] of the node it is    *)
(* of, and a label the first lines of the symbols it names, outermost      *)
(* first: kinds, names and signatures are wording.                         *)
(***************************************************************************)
EXTENDS Boundaries

CONSTANTS
  Sources,      \* the files: [bytes, tokens, saved, blank, language, policy, text, tree, damaged]
  TreeNodes,    \* the nodes of the trees of JavaScript
  TargetTokens, MaxTokens, MaxBytes, TargetLines, MaxLines, OverlapLines,  \* WindowLimits
  TinyTokens, HeaderTokens, MaxDepth  \* the planner's own limits

ASSUME LimitsAssumption ==  \* lineWindowsOf, and the order of DEFAULT_WINDOW_LIMITS
  /\ {TargetTokens, MaxTokens, MaxBytes, TargetLines, MaxLines} \subseteq Nat \ {0}
  /\ TargetTokens <= MaxTokens /\ TargetLines <= MaxLines
  /\ OverlapLines \in 0 .. 8

\* A file has a line, lines read as one text count fewer tokens, though no fewer than
\* the last of them, a file with a tree has a policy for its labels, and a node starts
\* no later than its children.
ASSUME SourcesAssumption ==
  /\ \A s \in Sources : /\ s.bytes \in Seq(Nat) /\ s.bytes # <<>>
                        /\ {s.tokens, s.saved} \subseteq [DOMAIN s.bytes -> Nat]
                        /\ s.blank \in [DOMAIN s.bytes -> BOOLEAN]
                        /\ \A l \in DOMAIN s.bytes : s.saved[l] <= s.tokens[l]
                        /\ s.language = "javascript" =>
                             s.tree \in TreeNodes /\ s.policy \in {"local", "context"}
  /\ \A n \in TreeNodes : /\ n.first \in Nat /\ n.last \in Nat /\ n.children \in Seq(TreeNodes)
                      /\ \A child \in Range(n.children) : n.first <= child.first
  /\ Nil \notin Nat \cup [first : Nat, last : Nat]

VARIABLES
  file,     \* the file, fixed
  boundaries,  \* where its statements begin, Nil before they are known
  stage,    \* "start", "plan", "windows", "emit" or "done"
  work,     \* what is left to plan, or the ranges left to cut
  pending,  \* the unit that may still grow, <<>> or <<unit>>
  chunks,   \* the ranges planned
  cursor,   \* the line the next window of the first range starts at
  out,      \* the fragments
  refused   \* the line that makes the file unsupported, Nil

chunkingVars == <<file, boundaries, stage, work, pending, chunks, cursor, out, refused>>

-----------------------------------------------------------------------------
(* The line index.                                                         *)

LineCount == Len(file.bytes)
Lines     == 1 .. LineCount

\* saved[i]: the tokens fewer that lines i and i + 1 have as one text.
RangeBytes(first, last)  == SumFunctionOnSet(file.bytes, first .. last)
RangeTokens(first, last) == SumFunctionOnSet(file.tokens, first .. last)
TokenCount(first, last)  == RangeTokens(first, last) - SumFunctionOnSet(file.saved, first .. last - 1)
BlankRange(first, last)  == \A l \in first .. last : file.blank[l]

Oversized(first, last) ==
  \/ RangeTokens(first, last) > MaxTokens
  \/ RangeBytes(first, last) > MaxBytes
  \/ last - first + 1 > MaxLines

FitsTarget(first, last) ==
  /\ RangeTokens(first, last) <= TargetTokens
  /\ RangeBytes(first, last) <= MaxBytes
  /\ last - first + 1 <= MaxLines

-----------------------------------------------------------------------------
(* Work.                                                                   *)

EndMark == [kind |-> "end"]

\* A range of the plan, within the symbols of `ancestry`, which starts with `own`.
Chunk(first, last, ancestry, own) ==
  [first |-> first, last |-> last, ancestry |-> ancestry, own |-> own, windows |-> FALSE, damaged |-> FALSE]
Split(first, last, ancestry) == [Chunk(first, last, ancestry, Nil) EXCEPT !.windows = TRUE]
Broken(first, last)          == [Split(first, last, <<>>) EXCEPT !.damaged = TRUE]

Flushed == chunks \o pending

Ascending(numbers) ==
  [n \in 1 .. Cardinality(numbers) |->
     CHOOSE x \in numbers : Cardinality({y \in numbers : y <= x}) = n]

\* The part of first .. last that a boundary starts is named by its label, the first
\* part by the outermost boundary there.
UnitsFromBoundaries(found, depth, first, last) ==
  LET inner == {b \in found : b.depth = depth /\ b.line \in first + 1 .. last}
      at    == Ascending({first} \cup {b.line : b \in inner})
      label(l) == LET here == {b \in found : b.line = l /\ (l = first \/ b.depth = depth)}
                  IN  IF here = {} THEN <<>>
                      ELSE (CHOOSE b \in here : \A o \in here : b.depth <= o.depth).label
      symbol(l) == IF label(l) = <<>> THEN Nil ELSE [first |-> label(l)[1], last |-> label(l)[1]]
  IN [i \in DOMAIN at |-> [kind |-> "range", first |-> at[i], last |-> IF i = Len(at) THEN last ELSE at[i + 1] - 1,
                           depth |-> depth + 1, own |-> symbol(at[i])]]

\* A child that starts past the first line of the last unit starts a unit, any other
\* belongs to the last.
Joined(units, child, last) ==
  LET n == Len(units)
  IN  IF child.first > units[n].first /\ child.first <= last
      THEN Append([units EXCEPT ![n].last = child.first - 1],
                  [units[n] EXCEPT !.first = child.first, !.last = last, !.nodes = <<child>>])
      ELSE [units EXCEPT ![n].nodes = Append(@, child)]

\* The units of a node, within the symbols of `context`.
UnitsOf(node, first, last, depth, context) ==
  LET units[n \in 0 .. Len(node.children)] ==
        IF n = 0 THEN <<[kind |-> "unit", first |-> first, last |-> last, depth |-> depth,
                         context |-> context, nodes |-> <<>>]>>
        ELSE Joined(units[n - 1], node.children[n], last)
  IN  units[Len(node.children)]

\* The child that spans the most lines, the first of them, among some.
WidestOf(nodes, some) ==
  LET span(n) == nodes[n].last - nodes[n].first
  IN IF some = {} THEN Nil
     ELSE nodes[CHOOSE n \in some : \A m \in some : span(n) > span(m) \/ (span(n) = span(m) /\ n <= m)]

Widest(nodes) == WidestOf(nodes, DOMAIN nodes)

Multiline(node)   == node.last > node.first
HasFunction(node) == \E n \in Range(node.children) : n.kind = "function"

\* Whether an assigned value makes its holder a symbol.
InitializerSymbol(holder, value) ==
  \/ value.kind \in {"function", "class"}
  \/ value.kind = "call" /\ HasFunction(value)
  \/ value.kind \in {"data", "call"} /\ Multiline(holder)

\* Whether a node introduces a symbol: a value does unless its holder has named it.
Introduces(node) ==
  \/ node.kind = "declaration"
  \/ node.kind = "holder" /\ \E v \in Range(node.children) : InitializerSymbol(node, v)
  \/ node.kind \in {"function", "class"} /\ ~node.held
  \/ node.kind = "call" /\ HasFunction(node) /\ ~node.held
  \/ node.kind \in {"element", "case"} /\ Multiline(node)

SymbolOf(node) == IF Introduces(node) THEN [first |-> node.first, last |-> node.last] ELSE Nil

\* The symbol a unit starts with is its first node's, or that of a part of it on the
\* same line, within six levels.
OwnSymbol(unit) ==
  LET start == unit.nodes[1].first
      inner(node) == IF node = Nil THEN Nil
                     ELSE WidestOf(node.children, {n \in DOMAIN node.children : node.children[n].first = start})
      at[k \in 0 .. 5] == IF k = 0 THEN unit.nodes[1] ELSE inner(at[k - 1])
      symbols == {k \in 0 .. 5 : at[k] # Nil /\ SymbolOf(at[k]) # Nil}
  IN  IF unit.nodes = <<>> \/ symbols = {} THEN Nil ELSE SymbolOf(at[Min(symbols)])

Damaged(unit)   == unit.depth = 0 /\ file.damaged \cap unit.first .. unit.last # {}
Node(node, first, last, depth, ancestry) ==
  [kind |-> "node", node |-> node, first |-> first, last |-> last, depth |-> depth, ancestry |-> ancestry]

FirstOf(one, other) == IF one = Nil THEN other ELSE one

-----------------------------------------------------------------------------
(* chunkSnapshot.                                                          *)

RefuseLine(line) == refused' = line /\ stage' = "done" /\ out' = <<>>

OverBytes == {l \in Lines : file.bytes[l] > MaxBytes}

\* A line over the byte ceiling refuses the file before any parsing.
LongLine ==
  /\ stage = "start" /\ ~BlankRange(1, LineCount) /\ OverBytes # {}
  /\ RefuseLine(Min(OverBytes))
  /\ UNCHANGED <<file, boundaries, work, pending, chunks, cursor>>

\* parseBoundaries.
Scan == CASE file.language = "python" -> ParsePythonBoundaries(file.text)
          [] file.language = "java"   -> ParseJavaBoundaries(file.text)
          [] file.language = "rust"   -> ParseTreeSitterBoundaries(file.tree, file.damaged)
          [] OTHER                    -> Nil

Units(parts) == parts \o <<EndMark>>

\* A file that cannot be parsed is cut without its structure.
ParseFile ==
  /\ stage = "start" /\ (BlankRange(1, LineCount) \/ OverBytes = {})
  /\ \E scan \in {Scan} :
       /\ boundaries' = scan
       /\ CASE file.language = "javascript" -> stage' = "plan" /\ work' = <<Node(file.tree, 1, LineCount, 0, <<>>)>>
            [] scan # Nil -> stage' = "plan" /\ work' = Units(UnitsFromBoundaries(scan, 0, 1, LineCount))
            [] OTHER       -> stage' = "windows" /\ UNCHANGED work
  /\ UNCHANGED <<file, pending, chunks, cursor, out, refused>>

\* packUnits: refinement by the next deeper boundaries that divide the unit.
MaxRefineDepth == 2

PackUnit ==
  /\ stage = "plan" /\ work # <<>> /\ Head(work).kind = "range"
  /\ LET u    == Head(work)
         deep == {d \in u.depth .. MaxRefineDepth : Len(UnitsFromBoundaries(boundaries, d, u.first, u.last)) > 1}
     IN IF Oversized(u.first, u.last)
        THEN /\ pending' = <<>>
             /\ IF deep = {}
                THEN /\ chunks' = Append(Flushed, [Chunk(u.first, u.last, <<>>, u.own) EXCEPT !.windows = TRUE])
                     /\ work' = Tail(work)
                ELSE LET inner == UnitsFromBoundaries(boundaries, Min(deep), u.first, u.last)
                     IN /\ chunks' = Flushed
                        /\ work' = Units(inner) \o Tail(work)
        ELSE /\ work' = Tail(work)
             /\ IF pending # <<>> /\ FitsTarget(pending[1].first, u.last)
                THEN pending' = [pending EXCEPT ![1].last = u.last, ![1].own = FirstOf(@, u.own)] /\ UNCHANGED chunks
                ELSE chunks' = Flushed /\ pending' = <<Chunk(u.first, u.last, <<>>, u.own)>>
  /\ UNCHANGED <<file, boundaries, stage, cursor, out, refused>>

\* plan of a node: a wrapper whose children all start on the first line is entered.
PlanNode ==
  /\ stage = "plan" /\ work # <<>> /\ Head(work).kind = "node"
  /\ LET n     == Head(work)
         context == n.ancestry \o (IF SymbolOf(n.node) = Nil THEN <<>> ELSE <<SymbolOf(n.node)>>)
         units == UnitsOf(n.node, n.first, n.last, n.depth, context)
         inner == Widest(units[1].nodes)
         leaf(chunk) == chunks' = Append(chunks, chunk) /\ work' = Tail(work)
     IN IF n.depth > MaxDepth THEN leaf(Split(n.first, n.last, context))
        ELSE IF Len(units) > 1 THEN work' = units \o <<EndMark>> \o Tail(work) /\ UNCHANGED chunks
        ELSE IF Damaged(n) THEN leaf(Broken(n.first, n.last))
        ELSE IF inner = Nil THEN leaf(Split(n.first, n.last, context))
        ELSE work' = <<Node(inner, n.first, n.last, n.depth + 1, context)>> \o Tail(work) /\ UNCHANGED chunks
  /\ UNCHANGED <<file, boundaries, stage, pending, cursor, out, refused>>

\* A small header is carried into the oversized node it opens.
Carried ==
  /\ pending # <<>> /\ pending[1].own = Nil
  /\ RangeTokens(pending[1].first, pending[1].last) <= HeaderTokens

PlanUnit ==
  /\ stage = "plan" /\ work # <<>> /\ Head(work).kind = "unit"
  /\ LET u     == Head(work)
         inner == Widest(u.nodes)
         start == IF Carried THEN pending[1].first ELSE u.first
     IN IF Damaged(u)
        THEN /\ chunks' = Append(Flushed, Broken(u.first, u.last))
             /\ pending' = <<>> /\ work' = Tail(work)
        ELSE IF Oversized(u.first, u.last)
        THEN LET before == IF Carried THEN chunks ELSE Flushed
             IN /\ pending' = <<>>
                /\ IF inner = Nil
                   THEN chunks' = Append(before, Split(start, u.last, u.context)) /\ work' = Tail(work)
                   ELSE chunks' = before /\ work' = <<Node(inner, start, u.last, u.depth + 1, u.context)>> \o Tail(work)
        ELSE /\ work' = Tail(work)
             /\ IF pending # <<>> /\ FitsTarget(pending[1].first, u.last)
                THEN pending' = [pending EXCEPT ![1].last = u.last, ![1].own = FirstOf(@, OwnSymbol(u))] /\ UNCHANGED chunks
                ELSE chunks' = Flushed /\ pending' = <<Chunk(u.first, u.last, u.context, OwnSymbol(u))>>
  /\ UNCHANGED <<file, boundaries, stage, cursor, out, refused>>

\* Mutant of EndOfUnits: the unit still pending is forgotten when its part ends.
EndUnflushed ==
  /\ stage = "plan" /\ work # <<>> /\ Head(work).kind = "end"
  /\ pending' = <<>> /\ work' = Tail(work)
  /\ UNCHANGED <<file, boundaries, stage, chunks, cursor, out, refused>>

EndOfUnits ==
  /\ stage = "plan" /\ work # <<>> /\ Head(work).kind = "end"
  /\ chunks' = Flushed /\ pending' = <<>> /\ work' = Tail(work)
  /\ UNCHANGED <<file, boundaries, stage, cursor, out, refused>>

CommonAncestry(left, right) ==
  LET lengths == {n \in 0 .. Min({Len(left), Len(right)}) : SubSeq(left, 1, n) = SubSeq(right, 1, n)}
  IN  SubSeq(left, 1, Max(lengths))

\* A tiny remnant joins the range it follows.
Merged(kept, c) ==
  LET tiny(x) == RangeTokens(x.first, x.last) <= TinyTokens
  IN  IF /\ kept # <<>> /\ ~Last(kept).windows /\ ~c.windows
         /\ Last(kept).last + 1 = c.first
         /\ tiny(c) \/ tiny(Last(kept))
         /\ ~Oversized(Last(kept).first, c.last)
      THEN Append(Front(kept), Chunk(Last(kept).first, c.last, CommonAncestry(Last(kept).ancestry, c.ancestry),
                                     FirstOf(Last(kept).own, c.own)))
      ELSE Append(kept, c)

MergeTiny(all) ==
  LET kept[n \in 0 .. Len(all)] == IF n = 0 THEN <<>> ELSE Merged(kept[n - 1], all[n])
  IN  kept[Len(all)]

DamagedLines(ranges) == FoldLeft(LAMBDA sum, c : sum + (IF c.damaged THEN c.last - c.first + 1 ELSE 0), 0, ranges)

\* A file damaged in most of its lines is cut without its structure.
Planned ==
  /\ stage = "plan" /\ work = <<>>
  /\ LET ranges  == IF file.language = "javascript" THEN MergeTiny(chunks) ELSE chunks
     IN IF 2 * DamagedLines(ranges) > LineCount THEN stage' = "windows" /\ UNCHANGED <<work, cursor>>
        ELSE stage' = "emit" /\ work' = ranges /\ cursor' = 1
  /\ UNCHANGED <<file, boundaries, pending, chunks, out, refused>>

-----------------------------------------------------------------------------
(* Fragments.                                                              *)

\* All the symbols around a range, and its own: those a name tells of with the policies
\* `enclosing` and `compact`.
SymbolNames(c) == LET symbols == c.ancestry \o (IF c.own = Nil THEN <<>> ELSE <<c.own>>)
            IN  [i \in DOMAIN symbols |-> symbols[i].first]

\* The outermost that starts within the range, with the policy `local`.
LocalLabel(c) == LET inside == {n \in DOMAIN SymbolNames(c) : SymbolNames(c)[n] \in c.first .. c.last}
                 IN  IF inside = {} THEN <<>> ELSE <<SymbolNames(c)[Min(inside)]>>

Label(c) == IF file.policy = "local" THEN LocalLabel(c) ELSE SymbolNames(c)

\* Only the first window of a range has its label, unless the label tells what is around it.
WindowLabel(c, from) == IF file.policy = "context" \/ from = c.first THEN Label(c) ELSE <<>>

Fragment(first, last, label, declaration) ==
  [first |-> first, last |-> last, label |-> label, declaration |-> declaration]
Emit(f) == out' = IF BlankRange(f.first, f.last) THEN out ELSE Append(out, f)

LongAt(line) == file.bytes[line] > MaxBytes \/ file.tokens[line] > MaxTokens

\* A range that fits, as one fragment.
EmitRange ==
  /\ stage = "emit" /\ work # <<>>
  /\ LET c == Head(work)
     IN /\ ~c.windows /\ ~Oversized(c.first, c.last)
        /\ Emit(Fragment(c.first, c.last, Label(c), Nil)) /\ cursor' = c.last + 1
  /\ work' = Tail(work)
  /\ UNCHANGED <<file, boundaries, stage, pending, chunks, refused>>

\* windowsOfRange: how far a window reaches, and where the next one starts.
WindowEnd(first, last) ==
  Max({e \in first .. last : \/ e = first
                             \/ /\ e - first + 1 <= TargetLines
                                /\ RangeTokens(first, e) <= MaxTokens
                                /\ RangeBytes(first, e) <= MaxBytes})
Following(first, end) == IF end - first + 1 > OverlapLines THEN end + 1 - OverlapLines ELSE end + 1

EmitWindow ==
  /\ stage = "emit" /\ work # <<>>
  /\ LET c    == Head(work)
         from == IF cursor \in c.first .. c.last THEN cursor ELSE c.first
         end  == WindowEnd(from, c.last)
         declaration == IF from > c.first \/ end < c.last THEN [first |-> c.first, last |-> c.last] ELSE Nil
     IN /\ c.windows \/ Oversized(c.first, c.last)
        /\ IF LongAt(from) THEN RefuseLine(from) /\ UNCHANGED <<work, cursor>>
           ELSE /\ Emit(Fragment(from, end, WindowLabel(c, from), declaration)) /\ UNCHANGED <<stage, refused>>
                /\ IF end >= c.last THEN work' = Tail(work) /\ cursor' = c.last + 1
                   ELSE work' = work /\ cursor' = Following(from, end)
  /\ UNCHANGED <<file, boundaries, pending, chunks>>

\* Mutant of LineWindowEnd: a window closes at its target and not before the limit.
LineWindowToTarget(first) ==
  Min({e \in first .. LineCount :
        \/ e = LineCount
        \/ e - first + 1 >= TargetLines
        \/ TokenCount(first, e) >= TargetTokens
        \/ RangeBytes(first, e + 1) > MaxBytes})

\* buildWindow: the first line after which the window takes no more.
LineWindowEnd(first) ==
  Min({e \in first .. LineCount :
        \/ e = LineCount
        \/ e - first + 1 >= TargetLines
        \/ RangeTokens(first, e) >= TargetTokens /\ TokenCount(first, e) >= TargetTokens
        \/ e - first + 2 > MaxLines
        \/ RangeBytes(first, e + 1) > MaxBytes
        \/ RangeTokens(first, e + 1) > MaxTokens /\ TokenCount(first, e + 1) > MaxTokens})

LineWindow ==
  /\ stage = "windows" /\ ~BlankRange(1, LineCount) /\ cursor <= LineCount
  /\ LET end == LineWindowEnd(cursor)
     IN IF LongAt(cursor) THEN RefuseLine(cursor) /\ UNCHANGED cursor
        ELSE /\ Emit(Fragment(cursor, end, <<>>, Nil)) /\ UNCHANGED <<stage, refused>>
             /\ cursor' = IF end >= LineCount THEN LineCount + 1
                          ELSE IF cursor + 1 >= end + 1 - OverlapLines THEN cursor + 1 ELSE end + 1 - OverlapLines
  /\ UNCHANGED <<file, boundaries, work, pending, chunks>>

FinishChunking ==
  /\ \/ stage = "emit" /\ work = <<>>
     \/ stage = "windows" /\ (BlankRange(1, LineCount) \/ cursor > LineCount)
  /\ stage' = "done"
  /\ UNCHANGED <<file, boundaries, work, pending, chunks, cursor, out, refused>>

ChunkingInit ==
  /\ file \in Sources /\ boundaries = Nil /\ stage = "start" /\ work = <<>> /\ pending = <<>> /\ chunks = <<>>
  /\ cursor = 1 /\ out = <<>> /\ refused = Nil

ChunkingNext == LongLine \/ ParseFile \/ PackUnit \/ PlanNode \/ PlanUnit \/ EndOfUnits \/ Planned
                \/ EmitRange \/ EmitWindow \/ LineWindow \/ FinishChunking

ChunkingSpec == ChunkingInit /\ [][ChunkingNext]_chunkingVars

-----------------------------------------------------------------------------
(* Properties.                                                             *)

UncoveredNonBlankLines == {l \in Lines : ~file.blank[l] /\ \A f \in Range(out) : l \notin f.first .. f.last}

\* Every line of the file that is not blank is in a fragment (chunker.ts:11), however
\* units were packed, headers carried, tiny ranges folded or oversized ones cut.
EveryLineCovered == stage = "done" /\ refused = Nil => UncoveredNonBlankLines = {}

\* The declaration a window was cut from contains it.  A label is told once, and names
\* what starts in the range ("labels a range with the symbol it starts", chunker.ts:317);
\* with all that is around it, the outermost first (javascript-chunker.ts:410).
LabelsTell ==
  \A i \in DOMAIN out :
    LET f     == out[i]
        range == IF f.declaration = Nil THEN f ELSE f.declaration
    IN  /\ range.first <= f.first /\ f.last <= range.last
        /\ IF file.policy = "context"
           THEN \A k \in 2 .. Len(f.label) : f.label[k - 1] <= f.label[k]
           ELSE /\ Len(f.label) <= 1 /\ Range(f.label) \subseteq range.first .. range.last
                /\ f.label # <<>> => \A j \in 1 .. i - 1 : out[j].label # f.label

\* A fragment keeps to the limits by its own text, starts after the one before it,
\* reaches as far and overlaps it by the allowed lines at most (specification 5.4).
SizesFit ==
  \A i \in DOMAIN out :
    /\ TokenCount(out[i].first, out[i].last) <= MaxTokens
    /\ RangeBytes(out[i].first, out[i].last) <= MaxBytes
    /\ out[i].last - out[i].first + 1 <= MaxLines
    /\ i > 1 => /\ out[i].first > out[i - 1].first /\ out[i].last >= out[i - 1].last
                /\ out[i].first > out[i - 1].last - OverlapLines

\* Fragments keep to their sizes, and are labelled with what they, or the declarations
\* they were cut from, hold.
FragmentsFit == SizesFit /\ LabelsTell
=============================================================================
