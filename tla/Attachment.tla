------------------------------- MODULE Attachment -------------------------------
(***************************************************************************)
(* What belongs together in a file, said of its text or its tree alone:    *)
(* lines at which no statement starts, so that none of the ranges that     *)
(* Chunking plans may start there either.                                  *)
(***************************************************************************)
EXTENDS Chunking

OwnLine(text, i)    == \A j \in 1 .. i - 1 : text[j].line < text[i].line
Earlier(text, line) == SelectSeq(text, LAMBDA x : x.line < line /\ x.t # "nl")
Code(xs)            == SelectSeq(xs, LAMBDA x : x.t \notin {"nl", "comment", "\\"})
On(text, line)      == Code(SelectSeq(text, LAMBDA x : x.line >= line))

Continued(text, line) == \E x \in Range(text) : x.t = "\\" /\ x.line = line - 1

\* The last thing before the line is a comment with a line of its own.
AfterComment(text, line) ==
  LET xs == Earlier(text, line)
  IN  /\ xs # <<>> /\ Last(xs).t = "comment" /\ ~Continued(text, Last(xs).line)
      /\ \E i \in DOMAIN xs : xs[i] = Last(xs) /\ OwnLine(xs, i)

OpenBrackets(xs) ==
  Len(SelectSeq(xs, LAMBDA x : x.t \in Openers)) > Len(SelectSeq(xs, LAMBDA x : x.t \in DOMAIN Closers))

\* In Python: the rest of a logical line, what follows a comment, and what is decorated.
GluedPython(text, line) ==
  LET before == Code(Earlier(text, line))
      here   == On(text, line)
  IN  /\ here # <<>> /\ here[1].line = line
      /\ \/ OpenBrackets(before)
         \/ Continued(text, line)
         \/ AfterComment(text, line)
         \/ /\ before # <<>>
            /\ \E i \in DOMAIN before :
                 /\ before[i].t = "@" /\ OwnLine(before, i) /\ before[i].indent = here[1].indent
                 /\ before[i].line = Last(before).line /\ ~Continued(text, before[i].line)
                 /\ ~OpenBrackets(SubSeq(before, 1, i))

Terminators == {";", "{", "}"}

\* In Java: what follows no terminator, a clause after a block, and what is documented,
\* on a line where nothing else begins.
GluedJava(text, line) ==
  LET before == Code(Earlier(text, line))
      here   == SelectSeq(On(text, line), LAMBDA x : x.line = line)
  IN  /\ before # <<>> /\ here # <<>> /\ \A x \in Range(Front(here)) : x.t \notin Terminators
      /\ \/ Last(before).t \notin Terminators
         \/ Last(before).t = "}" /\ here[1].t \in {"else", "catch", "finally"}
         \/ AfterComment(text, line)

\* All lists of siblings of a forest.
RECURSIVE SiblingsIn(_)
SiblingsIn(nodes) == {nodes} \cup UNION {SiblingsIn(n.children) : n \in Range(nodes)}

ItemsAt(nodes, line) ==
  {n \in UNION {Range(ns) : ns \in SiblingsIn(nodes)} :
     n.first = line /\ n.kind \notin {"comment", "statement_list"}}

\* In a tree: an item right below a comment that does not follow another item on its
\* line, where no other item begins.
GluedItem(nodes, line) ==
  /\ Cardinality(ItemsAt(nodes, line)) = 1
  /\ \E ns \in SiblingsIn(nodes) : \E i \in 2 .. Len(ns) :
       /\ ns[i] \in ItemsAt(nodes, line) /\ ns[i - 1].kind = "comment"
       /\ line \in ns[i - 1].first + 1 .. ns[i - 1].last + 1
       /\ \A j \in 1 .. i - 2 : ns[j].kind # "comment" => ns[j].last < ns[i - 1].first

-----------------------------------------------------------------------------
\* Lines a statement cannot start at, by the text alone.
Glued == {l \in Lines : CASE file.language = "python" -> GluedPython(file.text, l)
                          [] file.language = "java"   -> GluedJava(file.text, l)
                          [] file.language = "rust"   -> GluedItem(file.tree.children, l)
                          [] OTHER                    -> FALSE}

\* Comments and decorators "stay attached to the statement they precede"
\* (python-boundaries.ts:159, java-boundaries.ts:238, tree-sitter-boundaries.ts:12), and a statement in brackets,
\* a clause after a block, a continued line are not parted: however units are refined
\* and packed, none of the ranges starts at such a line.
AttachedTogether == boundaries # Nil => \A c \in Range(chunks) : c.first \notin Glued
=============================================================================
