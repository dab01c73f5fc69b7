------------------------------ MODULE Boundaries ------------------------------
(***************************************************************************)
(* Where the statements of a file begin, and how deep: the scanners of     *)
(* Python and Java in src/source/python-boundaries.ts and                  *)
(* src/source/java-boundaries.ts, and the walk of the syntax trees of Go   *)
(* and Rust in src/source/tree-sitter-boundaries.ts.                       *)
(*                                                                         *)
(* A text is a sequence of tokens [t, line, indent]: what the token is,    *)
(* the line it starts on, and the column it starts at.  "nl" is the end of *)
(* a line of Python, "\\" a continuation of it, "bad" a literal or a       *)
(* comment that never ends; "word" is a word that can name what it is in,  *)
(* "def" the head of a definition that is named.  A label is the line of   *)
(* the name it tells: <<line>>, or <<>> for no label.  A boundary is       *)
(* [line, depth, label]; a text that cannot be scanned has Nil instead of  *)
(* boundaries.                                                             *)
(***************************************************************************)
EXTENDS Integers, SequencesExt

CONSTANT Nil

Openers == {"(", "[", "{"}
Closers == [c \in {")", "]", "}"} |-> CASE c = ")" -> "(" [] c = "]" -> "[" [] c = "}" -> "{"]

Popped(s) == IF s = <<>> THEN s ELSE Front(s)
TopOf(s)    == IF s = <<>> THEN Nil ELSE Last(s)

\* Brackets kept open by a token, and whether it closes the bracket on top.
Bracketed(stack, x) == CASE x.t \in Openers         -> Append(stack, x.t)
                         [] x.t \in DOMAIN Closers  -> Popped(stack)
                         [] OTHER                   -> stack
Balanced(stack, x)  == x.t \in DOMAIN Closers => TopOf(stack) = Closers[x.t]

-----------------------------------------------------------------------------
(* Python: logical lines, then statements by their indentation.            *)

ScanStart == [lines |-> <<>>, current |-> Nil, comment |-> Nil, brackets |-> <<>>,
              continued |-> FALSE, ok |-> TRUE]

CloseLine(s) == IF s.current = Nil THEN s
                ELSE [s EXCEPT !.lines = Append(@, s.current), !.current = Nil]

LineEnds(s) ==
  [(IF s.brackets = <<>> /\ ~s.continued THEN CloseLine(s) ELSE s) EXCEPT !.continued = FALSE]

\* A comment of its own line is kept for the statement that follows.
Comment(s, x) == IF s.current = Nil /\ s.comment = Nil THEN [s EXCEPT !.comment = x.line] ELSE s

\* Mutant of Begun: a statement starts at its first token.
BegunAtToken(s, x) ==
  IF s.current # Nil THEN s
  ELSE [s EXCEPT !.comment = Nil,
                 !.current = [start |-> x.line, line |-> x.line, indent |-> x.indent, head |-> x.t, last |-> x.t]]

Begun(s, x) ==
  IF s.current # Nil THEN s
  ELSE [s EXCEPT !.comment = Nil,
                 !.current = [start |-> IF s.comment = Nil THEN x.line ELSE s.comment,
                              line |-> x.line, indent |-> x.indent, head |-> x.t, last |-> x.t]]

\* One token of a logical line; a bracket that closes no other fails the scan.
Scanned(s, x) ==
  CASE x.t = "nl"      -> LineEnds(s)
    [] x.t = "\\"      -> [s EXCEPT !.continued = TRUE]
    [] x.t = "comment" -> Comment(s, x)
    [] OTHER           -> [Begun(s, x) EXCEPT !.current.last = x.t,
                                              !.brackets = Bracketed(@, x),
                                              !.ok = @ /\ x.t # "bad" /\ Balanced(s.brackets, x)]

ScanLogicalLines(text) ==
  LET s == FoldLeft(Scanned, ScanStart, text)
  IN  IF s.ok /\ s.brackets = <<>> /\ ~s.continued THEN CloseLine(s).lines ELSE Nil

\* The statements open at an indentation: those indented more end.
Dedented(indents, indent) == SelectSeq(indents, LAMBDA i : i = 0 \/ i <= indent)

\* Only a line that ends with a colon is followed by a deeper one, and always is.
Nested(s, l) ==
  LET deeper == l.indent > Last(s.indents)
      kept   == IF deeper THEN Append(s.indents, l.indent) ELSE Dedented(s.indents, l.indent)
  IN  [s EXCEPT !.ok = @ /\ (deeper <=> s.colon) /\ Last(kept) = l.indent,
                !.decorated = IF kept = s.indents THEN @ ELSE Nil,
                !.indents = kept, !.colon = l.last = ":"]

\* A decorator stays with what it decorates, at its own depth, and is labelled with it.
Statement(s, l) ==
  LET n        == Nested(s, l)
      depth    == Len(n.indents) - 1
      label    == IF l.head = "def" THEN <<l.line>> ELSE <<>>
      boundary == [line |-> l.start, depth |-> depth, label |-> label]
      open     == n.decorated # Nil /\ n.decorated.depth = depth
  IN  IF depth > 2 THEN n
      ELSE IF ~open THEN [n EXCEPT !.found = @ \cup {boundary}, !.decorated = IF l.head = "@" THEN boundary ELSE Nil]
      ELSE IF l.head = "@" THEN n
      ELSE [n EXCEPT !.found = (@ \ {n.decorated}) \cup {[n.decorated EXCEPT !.label = label]}, !.decorated = Nil]

ParsePythonBoundaries(text) ==
  LET lines == ScanLogicalLines(text)
      s == FoldLeft(Statement, [indents |-> <<0>>, colon |-> FALSE, decorated |-> Nil,
                                found |-> {}, ok |-> TRUE], lines)
  IN  IF lines = Nil THEN Nil ELSE IF s.ok /\ ~s.colon THEN s.found ELSE Nil

-----------------------------------------------------------------------------
(* Java: statements between braces, with what continues them.              *)

ContinuesAfterBlock ==
  {"else", "catch", "finally", ";", ",", ")", "]", ".", "?", ":", "+", "-",
   "*", "/", "%", "&", "|", "^", "<", ">", "=", "!"}

\* `statement` is the one open, `closed` the one whose block has just ended; Nil is
\* neither, and a statement is the word it starts with.  A frame is [char, block, owner].
\* `unnamed` is the boundary of a statement whose header has told no name yet.
JavaStart == [frames |-> <<>>, depth |-> 0, statement |-> Nil, start |-> TRUE, ended |-> 0,
              comment |-> Nil, previous |-> Nil, closed |-> Nil, unnamed |-> Nil, found |-> {}, ok |-> TRUE]

InParens(s) == \E i \in DOMAIN s.frames : s.frames[i].char # "{"
AtStatementLevel(s) ==
  /\ ~InParens(s)
  /\ s.frames = <<>> \/ Last(s.frames).block

EndStatement(s, line) ==
  [s EXCEPT !.statement = Nil, !.start = TRUE, !.ended = line, !.comment = Nil]

\* A comment that starts on the line of the token before it belongs to that token.
JavaComment(s, x) ==
  IF /\ s.start \/ s.closed # Nil
     /\ s.comment = Nil /\ AtStatementLevel(s) /\ x.line > s.ended
  THEN [s EXCEPT !.comment = x.line] ELSE s

\* Mutant of Continues: a block always ends its statement.
NeverContinues(s, x) == FALSE

Continues(s, x) == x.t \in ContinuesAfterBlock \/ (x.t = "while" /\ s.closed = "do")

\* After a block, its statement continues, or has ended right before the token.
Resumed(s, x) ==
  IF s.closed = Nil THEN s
  ELSE IF Continues(s, x)
  THEN [s EXCEPT !.statement = s.closed, !.closed = Nil, !.start = FALSE, !.comment = Nil]
  ELSE [EndStatement(s, IF x.indent = 0 THEN x.line - 1 ELSE x.line) EXCEPT !.closed = Nil, !.comment = s.comment]

\* The first of the boundaries at a line and a depth is kept.
AlreadyFound(found, b) == \E o \in found : o.line = b.line /\ o.depth = b.depth

\* The first token of a statement.
StatementStarts(s, x) ==
  LET b     == [line |-> IF s.comment = Nil THEN x.line ELSE s.comment, depth |-> s.depth, label |-> <<>>]
      fresh == s.depth <= 2 /\ ~AlreadyFound(s.found, b)
  IN  IF s.start /\ AtStatementLevel(s) /\ x.t \notin {";", "}"}
      THEN [s EXCEPT !.found = IF fresh THEN @ \cup {b} ELSE @, !.unnamed = IF fresh THEN b ELSE Nil,
                     !.statement = x.t, !.start = FALSE, !.comment = Nil]
      ELSE s

\* The tokens of a statement's header are collected up to a block, a value or its end.
HeaderEnds(s, x) == ~InParens(s) /\ x.t \in {"{", ";", "="}

\* The name is told in the header, and is not that of an annotation.
LabelOf(s, x) ==
  IF s.unnamed = Nil THEN s
  ELSE IF HeaderEnds(s, x) THEN [s EXCEPT !.unnamed = Nil]
  ELSE IF x.t = "word" /\ s.previous # "@"
  THEN [s EXCEPT !.found = (@ \ {s.unnamed}) \cup {[s.unnamed EXCEPT !.label = <<x.line>>]}, !.unnamed = Nil]
  ELSE s

\* Braces where no statement can start hold values.
Initializer(s) ==
  \/ ~AtStatementLevel(s)
  \/ s.previous \in {"=", "]", ","}

OpenBrace(s, x) ==
  IF Initializer(s) THEN [s EXCEPT !.frames = Append(@, [char |-> "{", block |-> FALSE, owner |-> Nil])]
  ELSE [EndStatement(s, x.line) EXCEPT
          !.frames = Append(@, [char |-> "{", block |-> TRUE, owner |-> s.statement]), !.depth = @ + 1]

CloseBrace(s, x) ==
  LET frame == Last(s.frames)
      open  == [s EXCEPT !.frames = Front(@)]
  IN  IF ~frame.block THEN open
      ELSE [open EXCEPT !.depth = @ - 1, !.statement = frame.owner, !.closed = frame.owner,
                        !.start = frame.owner = Nil, !.ended = x.line, !.comment = Nil, !.unnamed = Nil]

OpenParen(s, x) == [s EXCEPT !.frames = Append(@, [char |-> x.t, block |-> FALSE, owner |-> Nil])]

\* A closer must match; the scan fails otherwise.
Matches(s, x) == s.frames # <<>> /\ Last(s.frames).char = Closers[x.t]

JavaToken(s, x) ==
  LET r == LabelOf(StatementStarts(Resumed(s, x), x), x)
      n == CASE x.t \in {"(", "["} -> OpenParen(r, x)
             [] x.t = "{" -> OpenBrace(r, x)
             [] x.t \in DOMAIN Closers /\ ~Matches(r, x) -> [r EXCEPT !.ok = FALSE]
             [] x.t \in {")", "]"} -> [r EXCEPT !.frames = Front(@)]
             [] x.t = "}" -> CloseBrace(r, x)
             [] x.t = ";" /\ AtStatementLevel(r) -> EndStatement(r, x.line)
             [] OTHER -> [r EXCEPT !.ok = @ /\ x.t # "bad"]
  IN  [n EXCEPT !.previous = x.t]

\* A scan that has failed looks no further.
JavaScanned(s, x) == IF ~s.ok THEN s ELSE IF x.t = "comment" THEN JavaComment(s, x) ELSE JavaToken(s, x)

ParseJavaBoundaries(text) ==
  LET s == FoldLeft(JavaScanned, JavaStart, text)
  IN  IF s.ok /\ s.frames = <<>> THEN s.found ELSE Nil

-----------------------------------------------------------------------------
(* Go and Rust: items of a syntax tree.  A node is [first, last, kind,     *)
(* held, children]: "comment", "container" with a name and the children    *)
(* of its body, "statement_list", or anything else: an item with no name.  *)

CollectStart == [run |-> Nil, end |-> -1, itemEnd |-> -1, found |-> {}]

\* A comment on the line where an item ends trails that item; on a line further below
\* it starts a new run.
CommentRun(s, n) ==
  [s EXCEPT !.run = IF n.first # s.itemEnd /\ (s.run = Nil \/ n.first > s.end + 1) THEN n.first ELSE @,
            !.end = n.last]

\* Mutant of ItemLine: the line below a comment does not touch it.
ItemLineTouching(s, n) == IF s.run # Nil /\ n.first <= s.end THEN s.run ELSE n.first

\* An item starts with the comments directly above it.
ItemLine(s, n) == IF s.run # Nil /\ n.first <= s.end + 1 THEN s.run ELSE n.first

\* Go wraps the statements of a block in a node of its own.
StatementsOf(nodes) ==
  IF Len(nodes) = 1 /\ nodes[1].kind = "statement_list" THEN nodes[1].children ELSE nodes

\* The items of a body, each with those within its own body.
CollectAt(nodes, depth, within) ==
  LET label(n)  == IF n.kind = "container" THEN <<n.first>> ELSE <<>>
      inner(n)  == IF n.kind = "container" THEN within[n] ELSE {}
      all(s, n) == {[line |-> ItemLine(s, n), depth |-> depth, label |-> label(n)]} \cup inner(n)
      item(s, n) == [run |-> Nil, end |-> n.last, itemEnd |-> n.last,
                     found |-> s.found \cup {b \in all(s, n) : ~AlreadyFound(s.found, b)}]
  IN  FoldLeft(LAMBDA s, n : IF n.kind = "comment" THEN CommentRun(s, n) ELSE item(s, n),
               CollectStart, nodes).found

\* collectBoundaries enters the bodies of containers, down to depth 2.
Deepest(nodes) == CollectAt(nodes, 2, [n \in Range(nodes) |-> {}])
Deeper(nodes)  == CollectAt(nodes, 1, [n \in Range(nodes) |-> Deepest(StatementsOf(n.children))])
Collect(nodes) == CollectAt(nodes, 0, [n \in Range(nodes) |-> Deeper(StatementsOf(n.children))])

\* A tree with any error is not used.
ParseTreeSitterBoundaries(root, errors) == IF errors # {} THEN Nil ELSE Collect(root.children)

=============================================================================
