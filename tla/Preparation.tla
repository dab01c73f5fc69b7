------------------------------ MODULE Preparation ------------------------------
(***************************************************************************)
(* Which files a search may read, and what it makes of them: the inventory *)
(* walk of src/source/inventory.ts with the ignore rules of                *)
(* src/source/ignore-rules.ts, and the preparation loop of                 *)
(* src/source/prepare.ts on the calling thread.                            *)
(*                                                                         *)
(* A step is what happens between two yields; between any two of them      *)
(* other programs change the tree, and `hit` says that one changes what a  *)
(* step is reading: SourceAccess refuses such a read.  Names are what the  *)
(* rules make of them (DirClass, FileClass), a pattern is the set of paths *)
(* it matches, a file is its size, the verdict of its content checks and   *)
(* the number of its fragments.                                            *)
(***************************************************************************)
EXTENDS Naturals, FiniteSets, SequencesExt

CONSTANTS
  Names,       \* every path but the root, in path order: a sequence
  Root,
  Above,       \* Above[p]: the paths from the root down to p
  Tree,        \* what each path is at first
  Changes,     \* Changes[p]: what else it may become
  DirClass,    \* the exclusion the name of a directory gives it, Nothing
  FileClass,   \* the exclusion the name of a file gives it, Nothing
  Gitignore,   \* the .gitignore of each directory, Nothing
  Narrowing,   \* the .jevgrepignore of each directory, Nothing
  RulesOf,     \* the patterns each of these files holds
  Scopes,      \* the scopes that may be asked for
  MaxFile,     \* scan.max_file_bytes
  LimitSets,   \* the preparation limits that may be set, Unlimited for null
  MaxChanges,  \* a bound: changes of the tree, and reads hit by one
  Nothing

Paths     == {Root} \cup Range(Names)
Unlimited == 1000  \* more than any scope holds

\* The directory a path is in, and its place in path order.
Parent(p) == Above[p][Len(Above[p]) - 1]
Pos(p)    == CHOOSE i \in DOMAIN Names : Names[i] = p

\* What may be at a path, and why the inventory leaves it out.
Kinds    == {"file", "dir", "link", "other", "missing"}
Verdicts == {x.verdict : x \in Range(Tree) \cup UNION Range(Changes)}
Nodes    == [kind : Kinds, size : Nat, verdict : Verdicts, fragments : Nat]
InventoryExclusion ==
  {"administrative", "credential_file", "operator_denied", "gitignored", "jevgrepignored", "dependency",
   "build_output", "generated", "minified", "file_too_large", "empty", "link", "outside_root", "not_regular_file"}

\* A path is what leads to it from the root; all of that is directories at first.
ASSUME TreeAssumption ==
  /\ Names \in Seq(Range(Names)) /\ IsInjective(Names) /\ Root \notin Range(Names)
  /\ Above \in [Paths -> Seq(Paths)]
  /\ \A p \in Paths : /\ Above[p] # <<>> /\ Above[p][1] = Root /\ Above[p][Len(Above[p])] = p
                      /\ \A i \in DOMAIN Above[p] : Above[Above[p][i]] = SubSeq(Above[p], 1, i)
  /\ Tree \in [Paths -> Nodes] /\ Tree[Root].kind = "dir"
  /\ \A p \in Range(Names) : Tree[p].kind # "missing" => \A q \in Range(Above[p]) \ {p} : Tree[q].kind = "dir"
  /\ Changes \in [Paths -> SUBSET Nodes]
  /\ DirClass \in [Paths -> InventoryExclusion \cup {Nothing}]
  /\ FileClass \in [Range(Names) -> InventoryExclusion \cup {Nothing}]
  /\ Nothing \notin InventoryExclusion \cup {"lookup", "rules", "identity"}
  /\ Scopes \subseteq Seq(Paths) /\ MaxChanges \in Nat

VARIABLES
  disk,     \* what each path is now
  changes,  \* how many changes were made
  touched,  \* history: the paths they were made to
  stop,     \* shouldStop
  phase,    \* "inventory", "prepare" or "done"
  asked,    \* the scope asked for
  limits,   \* [files, bytes, fragments]
  scope,    \* the entries of it still to come
  frames,   \* the directories being walked, the innermost last
  inv,      \* the accumulator of the walk, then the InventoryResult
  order,    \* the files still to prepare
  ahead,    \* the file read ahead of its turn: none or one
  prep      \* the PreparedScope

treeVars == <<disk, changes, touched, stop>>
walkVars == <<scope, frames, inv>>
prepVars == <<order, ahead, prep>>
preparationVars == <<treeVars, phase, asked, limits, walkVars, prepVars>>

-----------------------------------------------------------------------------
(* Resolving a path: its kind, or why it is refused.                       *)

Refusal(kind) == IF kind \in {"link", "missing"} THEN kind ELSE "not_regular_file"

Resolve(p) ==
  LET n   == Len(Above[p])
      bad == {i \in 1 .. n : disk[Above[p][i]].kind \notin (IF i = n THEN {"dir", "file"} ELSE {"dir"})}
  IN IF bad = {} THEN disk[p].kind
     ELSE Refusal(disk[Above[p][CHOOSE i \in bad : \A j \in bad : i <= j]].kind)

(* Ignore files.  A negation in a narrowing file is dropped; a file that   *)
(* cannot be read stops the walk of its directory.                         *)

Kept(f, narrowing) == SelectSeq(RulesOf[f], LAMBDA r : ~(narrowing /\ r.negated))
Rules(f, narrowing) == [i \in DOMAIN Kept(f, narrowing) |-> Kept(f, narrowing)[i] @@ [narrowing |-> narrowing]]

Parsed(f, narrowing) == IF f = Nothing \/ Resolve(f) = "missing" THEN <<>> ELSE Rules(f, narrowing)

Readable(d) == \A f \in {Gitignore[d], Narrowing[d]} \ {Nothing} : Resolve(f) \in {"file", "missing"}

DirectoryIgnoreFiles(d) == Parsed(Gitignore[d], FALSE) \o Parsed(Narrowing[d], TRUE)

\* The stack has the rules of each directory, those of the innermost last.
IgnoreStackFor(d) == [i \in DOMAIN Above[d] |-> DirectoryIgnoreFiles(Above[d][i])]
StackReadable(d)  == \A i \in DOMAIN Above[d] : Readable(Above[d][i])

\* The last pattern that matches decides, and those of inner directories come last.
Deciding(rules, p, isDir) == {i \in DOMAIN rules : p \in rules[i].matches /\ (rules[i].dirOnly => isDir)}
Decision(stack, p, isDir) ==
  {r \in UNION {Range(stack[d]) : d \in DOMAIN stack} :
     \E d \in DOMAIN stack : \E i \in Deciding(stack[d], p, isDir) :
       /\ r = stack[d][i] /\ \A j \in Deciding(stack[d], p, isDir) : j <= i
       /\ \A e \in DOMAIN stack : e > d => Deciding(stack[e], p, isDir) = {}}

Ignored(stack, p, isDir) ==
  IF \A r \in Decision(stack, p, isDir) : r.negated THEN Nothing
  ELSE IF \E r \in Decision(stack, p, isDir) : r.narrowing THEN "jevgrepignored" ELSE "gitignored"

DirExclusion(d, stack) == IF DirClass[d] # Nothing THEN DirClass[d] ELSE Ignored(stack, d, TRUE)

FileExclusion(p, size, stack) ==
  IF FileClass[p] # Nothing THEN FileClass[p]
  ELSE IF size = 0 THEN "empty"
  ELSE IF size > MaxFile THEN "file_too_large"
  ELSE Ignored(stack, p, FALSE)

-----------------------------------------------------------------------------
(* The accumulator.                                                        *)

Empty == [files |-> <<>>, excluded |-> <<>>, pruned |-> <<>>, seen |-> {},
          discovered |-> 0, errors |-> 0, complete |-> TRUE]

Exclude(a, p, why) == [a EXCEPT !.excluded = Append(@, [path |-> p, reason |-> why]), !.discovered = @ + 1]
Prune(a, d, why)   == [a EXCEPT !.pruned = Append(@, [path |-> d, reason |-> why])]
Incomplete(a)      == [a EXCEPT !.complete = FALSE]
\* Mutant of TraversalError: the error is counted and the walk still complete.
ErrorCounted(a) == [a EXCEPT !.errors = @ + 1]

TraversalError(a)  == [Incomplete(a) EXCEPT !.errors = @ + 1]

\* Mutant of ConsiderFile: a file is considered once for each scope that holds it.
ConsiderAgain(a, p, stack, hit) ==
  IF hit THEN [TraversalError(a) EXCEPT !.discovered = @ + 1]
  ELSE IF FileExclusion(p, disk[p].size, stack) # Nothing THEN Exclude(a, p, FileExclusion(p, disk[p].size, stack))
  ELSE [a EXCEPT !.files = Append(@, p), !.discovered = @ + 1]

\* A file reached twice, through overlapping scopes, counts once.
ConsiderFile(a, p, stack, hit) ==
  IF hit THEN [TraversalError(a) EXCEPT !.discovered = @ + 1]
  ELSE IF p \in a.seen THEN a
  ELSE LET b   == [a EXCEPT !.seen = @ \cup {p}]
           why == FileExclusion(p, disk[p].size, stack)
       IN IF why # Nothing THEN Exclude(b, p, why)
          ELSE [b EXCEPT !.files = Append(@, p), !.discovered = @ + 1]

Rank(s, i) == Cardinality({j \in DOMAIN s : Pos(s[j]) < Pos(s[i]) \/ (s[j] = s[i] /\ j <= i)})

InPathOrder(s) == [n \in DOMAIN s |-> s[CHOOSE i \in DOMAIN s : Rank(s, i) = n]]

Entries(d) == {[path |-> p, kind |-> disk[p].kind] :
                 p \in {q \in Range(Names) : Parent(q) = d /\ disk[q].kind # "missing"}}

\* A directory in which there is nothing to walk is left at once.
Walked(left, d, stack) ==
  IF Entries(d) = {} THEN left ELSE Append(left, [rest |-> Entries(d), stack |-> stack])

\* Mutant of Enter: the rules of the directories above go last.
EnterReversed(a, left, d, inherited, hit) ==
  IF Resolve(d) = "link" THEN [inv |-> Prune(a, d, "link"), frames |-> left]
  ELSE IF hit \/ Resolve(d) # "dir" \/ (d # Root /\ ~Readable(d))
  THEN [inv |-> TraversalError(a), frames |-> left]
  ELSE [inv |-> a, frames |-> Walked(left, d,
          IF d = Root THEN inherited ELSE <<DirectoryIgnoreFiles(d)>> \o inherited)]

\* walkDirectory up to its first entry: the listing, and the rules in it.
Enter(a, left, d, inherited, hit) ==
  IF Resolve(d) = "link" THEN [inv |-> Prune(a, d, "link"), frames |-> left]
  ELSE IF hit \/ Resolve(d) # "dir" \/ (d # Root /\ ~Readable(d))
  THEN [inv |-> TraversalError(a), frames |-> left]
  ELSE [inv |-> a, frames |-> Walked(left, d,
          IF d = Root THEN inherited ELSE Append(inherited, DirectoryIgnoreFiles(d)))]

\* The next entry of the innermost directory in path order, and what is left without it.
Nearest == {e \in Last(frames).rest : \A other \in Last(frames).rest : Pos(e.path) <= Pos(other.path)}

Without(e) ==
  IF Last(frames).rest = {e} THEN Front(frames)
  ELSE [frames EXCEPT ![Len(frames)].rest = @ \ {e}]

\* What another program's change hits: the lookup of an entry, or a read after it.
Hits == IF changes < MaxChanges THEN {Nothing, "lookup", "rules", "identity"} ELSE {Nothing}

HitBy(hit) == changes' = IF hit = Nothing THEN changes ELSE changes + 1

NotFound(a, p) == Incomplete(Exclude(a, p, "not_regular_file"))

\* One entry of the scope, refused, a file or a directory.
ScopeEntry ==
  /\ phase = "inventory" /\ frames = <<>> /\ scope # <<>> /\ ~stop
  /\ scope' = Tail(scope)
  /\ LET p == Head(scope)
         d == IF Resolve(p) = "dir" THEN p ELSE Parent(p)
     IN \E hit \in Hits :
        /\ HitBy(hit)
        /\ IF hit = "lookup" \/ Resolve(p) = "missing"
           THEN inv' = NotFound(inv, p) /\ UNCHANGED frames
           ELSE IF Resolve(p) \notin {"file", "dir"}
           THEN inv' = Exclude(inv, p, Resolve(p)) /\ UNCHANGED frames
           ELSE IF hit = "rules" \/ ~StackReadable(d)
           THEN inv' = TraversalError(inv) /\ UNCHANGED frames
           ELSE IF d = p
           THEN LET e == Enter(inv, <<>>, p, IgnoreStackFor(p), hit # Nothing)
                IN inv' = e.inv /\ frames' = e.frames
           ELSE inv' = ConsiderFile(inv, p, IgnoreStackFor(d), hit # Nothing) /\ UNCHANGED frames
  /\ UNCHANGED <<disk, touched, stop, phase, asked, limits, prepVars>>

\* A name that was a file when it was listed.
FileEntry(p, hit) ==
  IF hit = "lookup" \/ Resolve(p) = "missing" THEN NotFound(inv, p)
  ELSE IF Resolve(p) \in {"link", "not_regular_file"} THEN Exclude(inv, p, Resolve(p))
  ELSE ConsiderFile(inv, p, Last(frames).stack, hit # Nothing)

\* One entry of the innermost directory, of the kind it had when it was listed.
WalkEntry ==
  /\ phase = "inventory" /\ frames # <<>> /\ ~stop
  /\ \E e \in Nearest, hit \in Hits :
       LET excluded == DirExclusion(e.path, Last(frames).stack)
           entered  == Enter(inv, Without(e), e.path, Last(frames).stack, hit # Nothing)
       IN /\ HitBy(hit)
          /\ IF e.kind = "dir" /\ excluded = Nothing
             THEN inv' = entered.inv /\ frames' = entered.frames
             ELSE /\ inv' = IF e.kind = "dir" THEN Prune(inv, e.path, excluded)
                            ELSE IF e.kind = "file" THEN FileEntry(e.path, hit)
                            ELSE Exclude(inv, e.path, Refusal(e.kind))
                  /\ frames' = Without(e)
  /\ UNCHANGED <<disk, touched, stop, phase, asked, limits, scope, prepVars>>

\* Path order, or the order of priority of a question.  Its scores are of paths and
\* words that are not modelled: of the orders they may give, a bound on the state
\* space keeps the one furthest from path order.
FileOrders(files) == {files, Reverse(files)}

\* A stop ends the walk where it is.
InventoryEnds ==
  /\ phase = "inventory" /\ (stop \/ (scope = <<>> /\ frames = <<>>))
  /\ LET found == [inv EXCEPT !.files = InPathOrder(@),
                              !.complete = @ /\ scope = <<>> /\ frames = <<>>]
     IN /\ inv' = found
        /\ order' \in FileOrders(found.files)
        /\ prep' = [prep EXCEPT !.complete = found.complete]
  /\ phase' = "prepare" /\ scope' = <<>> /\ frames' = <<>>
  /\ UNCHANGED <<treeVars, asked, limits, ahead>>

-----------------------------------------------------------------------------
(* Preparation.                                                            *)

ReadEntry(p, hit) ==
  IF hit \/ Resolve(p) = "missing" THEN [kind |-> "unreadable"]
  ELSE IF Resolve(p) # "file"
  THEN [kind |-> "excluded", why |-> IF Resolve(p) = "link" THEN "link" ELSE "not_regular_file"]
  ELSE IF disk[p].size > MaxFile THEN [kind |-> "excluded", why |-> "file_too_large"]
  ELSE IF disk[p].size = 0 THEN [kind |-> "read", size |-> 0, verdict |-> "empty", fragments |-> 0]
  ELSE [kind |-> "read", size |-> disk[p].size, verdict |-> disk[p].verdict, fragments |-> disk[p].fragments]

\* A file is read before its turn comes.
ReadAhead ==
  /\ phase = "prepare" /\ ahead = <<>> /\ order # <<>>
  /\ order' = Tail(order)
  /\ \E hit \in Hits \cap {Nothing, "lookup"} :
       /\ HitBy(hit)
       /\ ahead' = <<[path |-> Head(order), read |-> ReadEntry(Head(order), hit # Nothing)]>>
  /\ UNCHANGED <<disk, touched, stop, phase, asked, limits, walkVars, prep>>

LimitHit(read) ==
  \/ Len(prep.files) >= limits.files
  \/ read.kind = "read" /\ prep.bytes + read.size > limits.bytes
  \/ read.kind = "read" /\ read.verdict = "ok" /\ prep.fragments + read.fragments > limits.fragments

Handled(p, read) ==
  IF read.kind = "unreadable" THEN [prep EXCEPT !.unreadable = @ + 1, !.complete = FALSE]
  ELSE IF read.kind = "excluded" THEN [prep EXCEPT !.excluded = Append(@, [path |-> p, reason |-> read.why])]
  ELSE IF read.verdict # "ok" THEN [prep EXCEPT !.excluded = Append(@, [path |-> p, reason |-> read.verdict])]
  ELSE [prep EXCEPT !.files = Append(@, p), !.bytes = @ + read.size, !.fragments = @ + read.fragments]

\* Results go back to the order of the inventory.
InOrder(r) == [r EXCEPT !.files = InPathOrder(@)]

TakeTurn ==
  /\ phase = "prepare" /\ ahead # <<>>
  /\ IF stop \/ LimitHit(ahead[1].read)
     THEN phase' = "done" /\ prep' = InOrder([prep EXCEPT !.complete = FALSE])
     ELSE phase' = phase /\ prep' = Handled(ahead[1].path, ahead[1].read)
  /\ ahead' = <<>>
  /\ UNCHANGED <<treeVars, asked, limits, walkVars, order>>

Finish ==
  /\ phase = "prepare" /\ ahead = <<>> /\ order = <<>>
  /\ phase' = "done" /\ prep' = InOrder(prep)
  /\ UNCHANGED <<treeVars, asked, limits, walkVars, order, ahead>>

-----------------------------------------------------------------------------
(* Other programs, and whoever stops the search.                           *)

Change ==
  /\ changes < MaxChanges /\ phase # "done"
  /\ \E p \in Range(Names) : \E x \in Changes[p] \ {disk[p]} :
       disk' = [disk EXCEPT ![p] = x] /\ touched' = touched \cup {p}
  /\ changes' = changes + 1
  /\ UNCHANGED <<stop, phase, asked, limits, walkVars, prepVars>>

Stop ==
  /\ ~stop /\ phase # "done" /\ stop' = TRUE
  /\ UNCHANGED <<disk, changes, touched, phase, asked, limits, walkVars, prepVars>>

PreparationInit ==
  /\ disk = Tree /\ changes = 0 /\ touched = {} /\ stop = FALSE
  /\ phase = "inventory" /\ asked \in Scopes /\ scope = asked /\ limits \in LimitSets
  /\ frames = <<>> /\ inv = Empty /\ order = <<>> /\ ahead = <<>>
  /\ prep = [files |-> <<>>, fragments |-> 0, bytes |-> 0, excluded |-> <<>>, unreadable |-> 0, complete |-> FALSE]

PreparationNext == ScopeEntry \/ WalkEntry \/ InventoryEnds \/ ReadAhead \/ TakeTurn \/ Finish \/ Change \/ Stop

PreparationSpec == PreparationInit /\ [][PreparationNext]_preparationVars

-----------------------------------------------------------------------------
(* Properties.                                                             *)

Excluded == {e.path : e \in Range(inv.excluded) \cup Range(prep.excluded)}
Pruned   == {e.path : e \in Range(inv.pruned)}

\* The paths from a scope entry down to p, without the entry itself.
Below(e, p) == Range(Above[p]) \ Range(Above[e])

\* A preparation reported complete (prepare.ts:314, requirement R8) has met every
\* file of the scope that nobody touched: prepared, listed as excluded, or below a
\* directory listed as pruned, whatever hit the reads and whenever a stop came.
CompleteMeansAll ==
  phase = "done" /\ prep.complete =>
    \A e \in Range(asked), p \in Range(Names) :
      (/\ e \in Range(Above[p]) /\ disk[p].kind = "file" /\ Range(Above[p]) \cap touched = {})
        => p \in Range(prep.files) \cup Excluded \/ Below(e, p) \cap Pruned # {}

\* The counts the response contract compares (contracts.ts:393): no file is counted
\* twice between the prepared, the excluded and the unreadable ones, and no path is
\* prepared twice, however the entries of the scope overlap.
CountsFit ==
  /\ Len(prep.files) + Len(inv.excluded) + Len(prep.excluded) + prep.unreadable <= inv.discovered
  /\ IsInjective(prep.files)

\* A path in an administrative directory, or such a directory itself.
Administrative(p) == \E d \in Range(Above[p]) : disk[d].kind = "dir" /\ DirClass[d] = "administrative"

\* What a search of an undisturbed tree may read, each path decided by itself: nothing in
\* a directory that is "never entered, whatever the scope says" (inventory.ts:66), and of
\* the rest what the rules of every directory from the root down leave, the last match
\* deciding.
RulesAt(p) == IgnoreStackFor(Parent(p))
Eligible(e, p) ==
  /\ e \in Range(Above[p]) /\ disk[p].kind = "file" /\ ~Administrative(p)
  /\ \A d \in Below(e, p) \ {p} : disk[d].kind = "dir" /\ DirExclusion(d, RulesAt(d)) = Nothing
  /\ FileExclusion(p, disk[p].size, RulesAt(p)) = Nothing

\* The eligible files that pass their content checks.
Meant == {p \in Range(Names) : disk[p].verdict = "ok" /\ \E e \in Range(asked) : Eligible(e, p)}

\* On an undisturbed tree the prepared files are those, in path order, whatever the order
\* of the scope and of reading; only a limit that says so in `complete` leaves one out.
\* Nothing is said of a scope with an entry that is an administrative directory or is in
\* one: the walk looks only at the names it meets and enters it (inventory.ts:284), against
\* the comment at inventory.ts:66.
MatchesEligibility ==
  phase = "done" /\ changes = 0 /\ ~stop /\ (\A e \in Range(asked) : ~Administrative(e)) =>
    /\ \A i, j \in DOMAIN prep.files : i < j => Pos(prep.files[i]) < Pos(prep.files[j])
    /\ IF prep.complete THEN Range(prep.files) = Meant ELSE Range(prep.files) \subseteq Meant

=============================================================================
