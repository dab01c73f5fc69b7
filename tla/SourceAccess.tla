----------------------------- MODULE SourceAccess -----------------------------
(***************************************************************************)
(* AuthorizedRoot of src/source/authorization.ts: every read of source     *)
(* bytes, ignore files and directory listings, one system call at a time,  *)
(* while other programs replace the entries it walks over; and the Windows *)
(* attribute helper (src/source/windows-attributes.ts and its worker) that *)
(* is asked before the walk and before every check of a chain.             *)
(*                                                                         *)
(* The tree is one path of three names: the root, a directory in it and a  *)
(* file in that.  Every name may come to stand for another object: a link, *)
(* another object of the same kind, nothing.  An object stays where it     *)
(* was made: what is outside the root does not move into it.               *)
(***************************************************************************)
EXTENDS Naturals, Sequences

CONSTANTS
  Dirs,        \* directory objects, Top (the parent of the root) among them
  FileObjs,    \* file objects
  Target,      \* what each link leads to: a function from the link objects
  Top,
  May,         \* May[d]: what the one name in directory d may stand for
  Start,       \* what it stands for at first
  Size,        \* Size[f][v]: the blocks version v of file f has; a bound on
               \* how often it is written
  MaxBlocks,   \* maxBytes, in blocks
  MaxSwaps,    \* a bound: how often directories are exchanged during one call
  None

Links   == DOMAIN Target
Objects == Dirs \cup FileObjs \cup Links

ASSUME AccessAssumption ==
  /\ Dirs \cap FileObjs = {} /\ Links \cap (Dirs \cup FileObjs) = {}
  /\ Top \in Dirs /\ None \notin Objects
  /\ May \in [Dirs -> SUBSET (Objects \cup {None})]
  /\ Start \in [Dirs -> Objects \cup {None}]
  /\ MaxBlocks \in Nat /\ MaxSwaps \in Nat
  /\ \A f \in FileObjs : Size[f] \in Seq(Nat) /\ Size[f] # <<>>

VARIABLES
  windows,      \* process.platform, fixed
  child,        \* what the one name of each directory stands for
  version,      \* how often each file was written
  swaps,        \* how often a directory was exchanged during this call
  helper,       \* the worker: "none", "idle", "serving" or "closed"
  unavailable,  \* the module's flag: the helper is given up
  anchor,       \* #anchor: the object pinned as the root, None before open
  invalidated,  \* #invalidated
  op,           \* "open", "read" or "list"
  at,           \* the system call it makes next, "idle" between calls
  next,         \* where it goes on when the attribute check passes
  k,            \* the entry of the chain it is at, or the rechecks left
  after,        \* what the running checkChain is for
  chain,        \* the stats the walk collected below the root
  fd,           \* the open descriptor: the object and its fstat, None
  blocks,       \* the version each block read was of
  result,       \* what the last call returned
  seen,         \* history: what the path has been since the call began
  lost          \* history: a check of the anchor found another object

envVars    == <<windows, child, version, swaps>>
helperVars == <<helper, unavailable>>
readVars   == <<chain, fd, blocks>>
vars == <<envVars, helperVars, anchor, invalidated, op, at, next, k, after, readVars,
          result, seen, lost>>

-----------------------------------------------------------------------------
(* The file system.                                                        *)

Follow(x) == IF x \in Links THEN Target[x] ELSE x
In(x)     == IF Follow(x) \in Dirs THEN child[Follow(x)] ELSE None

\* What the path of `n` names stands for, its last component not followed.
Entry(n) == CASE n = 1 -> child[Top]
              [] n = 2 -> In(child[Top])
              [] n = 3 -> In(In(child[Top]))

\* No component of the path is a link: realpath changes nothing.
Straight(n) == \A i \in 1 .. n : Entry(i) \notin Links

Stat(x) == <<x, IF x \in FileObjs THEN version[x] ELSE 0>>

\* metadata refuses links and missing entries; sameObject compares what is left.
SameObject(x, n) == Entry(n) = x

\* The versions of the file that the path inside the pinned root stands for.
Current == IF Straight(3) /\ Entry(1) = anchor /\ Entry(3) \in FileObjs
           THEN {Stat(Entry(3))} ELSE {}

\* Another program gives a name another meaning, or writes a file.
Replace(d, x) ==
  /\ x \in May[d] \ {child[d]}
  /\ IF at = "idle" \/ child[d] \in FileObjs THEN UNCHANGED swaps
     ELSE swaps < MaxSwaps /\ swaps' = swaps + 1
  /\ child' = [child EXCEPT ![d] = x]
  /\ UNCHANGED <<windows, version>>

Write(f) ==
  /\ version[f] + 1 \in DOMAIN Size[f]
  /\ version' = [version EXCEPT ![f] = @ + 1]
  /\ UNCHANGED <<windows, child, swaps>>

Environment ==
  /\ (\E d \in Dirs, x \in Objects \cup {None} : Replace(d, x)) \/ (\E f \in FileObjs : Write(f))
  /\ UNCHANGED <<helperVars, anchor, invalidated, op, at, next, k, after, readVars, result, lost>>
  /\ seen' = seen \cup Current'

-----------------------------------------------------------------------------
(* Calls end, and refusals are looked at by #checked.                      *)

End(r) ==
  /\ at' = "idle" /\ next' = "idle" /\ k' = 1 /\ after' = "walked"
  /\ op' = "none" /\ result' = r
  /\ fd' = None /\ chain' = <<>> /\ blocks' = <<>>
  /\ UNCHANGED anchor

Refused == [kind |-> "refused", blocks |-> <<>>, file |-> None]

\* A refusal that names the anchor invalidates the root for good; any other
\* one, inside #checked, has the anchor checked `n` times before it is thrown.
RefuseAnchor == End(Refused) /\ invalidated' = TRUE
Refuse       == End(Refused) /\ UNCHANGED invalidated

\* checkWindows comes first where there is one.
Goto(a, n, why) ==
  /\ at' = IF windows THEN "attributes" ELSE a
  /\ next' = IF windows THEN a ELSE "idle"
  /\ k' = n /\ after' = why
Still == UNCHANGED <<anchor, op, result, invalidated>>

Recheck(n) == Goto("recheck", n, after) /\ Still /\ UNCHANGED readVars

\* The root was looked at.
LookAtRoot == lost' = (lost \/ ~SameObject(anchor, 1))
Fixed == UNCHANGED <<envVars, helperVars, seen>>
Quiet == Fixed /\ UNCHANGED lost

Depth == IF op = "list" THEN 2 ELSE 3

(* AuthorizedRoot.open: the ancestors as asked for, the canonical ones, and *)
(* the first ones again.                                                    *)
Open ==
  /\ at = "idle" /\ anchor = None
  /\ op' = "open" /\ Goto("ancestors", 1, "opened")
  /\ UNCHANGED <<anchor, invalidated, readVars, result>> /\ Quiet

OpenStep ==
  /\ at \in {"ancestors", "canonical", "confirm"} /\ Quiet
  /\ CASE at = "ancestors" ->
            IF Entry(1) \in Dirs
            THEN Goto("canonical", 1, after) /\ chain' = <<Stat(Entry(1))>> /\ Still /\ UNCHANGED <<fd, blocks>>
            ELSE Refuse
       [] at = "canonical" ->
            IF <<Follow(Entry(1)), 0>> = chain[1]
            THEN Goto("confirm", 1, after) /\ Still /\ UNCHANGED readVars
            ELSE Refuse
       [] OTHER ->
            IF SameObject(chain[1][1], 1)
            THEN /\ at' = "idle" /\ op' = "none" /\ anchor' = chain[1][1] /\ chain' = <<>>
                 /\ after' = "walked" /\ UNCHANGED <<next, k, fd, blocks, result, invalidated>>
            ELSE Refuse

-----------------------------------------------------------------------------
(* #resolveWalk, readDirectory and readFileBytes.                          *)

\* assertCurrent fails at once once the root is invalidated.
Begin(o) ==
  /\ at = "idle" /\ anchor # None
  /\ result' = [Refused EXCEPT !.kind = "none"]
  /\ seen' = Current
  /\ IF invalidated THEN /\ UNCHANGED <<op, at, next, k, after, chain>>
     ELSE op' = o /\ Goto("anchor", 1, "walked") /\ chain' = <<>>
  /\ swaps' = 0
  /\ UNCHANGED <<windows, child, version, helperVars, anchor, invalidated, fd, blocks, lost>>

CheckAnchor ==
  /\ at = "anchor" /\ Fixed /\ LookAtRoot
  /\ IF SameObject(anchor, 1)
     THEN Goto("lstat", 2, after) /\ Still /\ UNCHANGED readVars
     ELSE RefuseAnchor

\* lstat of the next component: links, and files on the way, are refused.
Lstat ==
  /\ at = "lstat" /\ Quiet
  /\ IF Entry(k) \in Dirs \/ (k = Depth /\ Entry(k) \in FileObjs)
     THEN /\ at' = "real" /\ chain' = Append(chain, Stat(Entry(k)))
          /\ Still /\ UNCHANGED <<next, k, after, fd, blocks>>
     ELSE Recheck(1)

\* realpath must stay inside; an outside or missing one is not named the anchor.
Realpath ==
  /\ at = "real" /\ Quiet
  /\ IF Straight(k) /\ Entry(k) # None
     THEN at' = "again" /\ Still /\ UNCHANGED <<next, k, after, readVars>>
     ELSE Recheck(1)

LstatAgain ==
  /\ at = "again" /\ Quiet
  /\ IF ~SameObject(chain[k - 1][1], k) THEN Recheck(1)
     ELSE /\ IF k < Depth THEN at' = "lstat" /\ k' = k + 1 /\ UNCHANGED <<next, after>>
             ELSE Goto("chain", 1, after)
          /\ Still /\ UNCHANGED readVars

\* What follows a checkChain that found every entry in place.
AfterChain ==
  CASE after = "walked" -> IF op = "list" THEN "readdir" ELSE "open"
    [] after = "opened" -> "size"
    [] after = "read"   -> "lstatAfter"
    [] after = "listed" -> "listed"

CheckChain ==
  /\ at = "chain" /\ Fixed /\ IF k = 1 THEN LookAtRoot ELSE UNCHANGED lost
  /\ IF SameObject(IF k = 1 THEN anchor ELSE chain[k - 1][1], k)
     THEN /\ IF k < Depth THEN k' = k + 1 /\ UNCHANGED <<at, next, after>>
             ELSE at' = AfterChain /\ UNCHANGED <<next, k, after>>
          /\ Still /\ UNCHANGED readVars
     ELSE IF k = 1 THEN RefuseAnchor
     ELSE Recheck(IF after = "walked" THEN 2 ELSE 1)

\* Mutant of CheckedCatch: the failure of the anchor is swallowed with the recheck.
CatchForgets ==
  /\ at = "recheck" /\ Fixed /\ LookAtRoot
  /\ IF k = 1 THEN Refuse ELSE Recheck(k - 1)

\* The catch block of #checked: assertCurrent once more, its failure kept.
CheckedCatch ==
  /\ at = "recheck" /\ Fixed /\ IF invalidated THEN UNCHANGED lost ELSE LookAtRoot
  /\ IF ~invalidated /\ ~SameObject(anchor, 1) THEN RefuseAnchor
     ELSE IF k = 1 THEN Refuse
     ELSE Recheck(k - 1)

ReadDirectory ==
  /\ at = "readdir" /\ Quiet
  /\ IF chain[1][1] \in Dirs /\ Follow(Entry(2)) \in Dirs
     THEN Goto("chain", 1, "listed") /\ Still /\ UNCHANGED readVars
     ELSE Refuse

Listed ==
  /\ at = "listed" /\ Quiet
  /\ End([kind |-> "listing", blocks |-> <<>>, file |-> None]) /\ UNCHANGED invalidated

\* O_NOFOLLOW, where there is one, refuses a link; the walk before it is
\* over, so nothing checks the anchor after this refusal or the next two.
OpenFile ==
  /\ at = "open" /\ Quiet
  /\ LET x == IF windows THEN Follow(Entry(3)) ELSE Entry(3)
     IN IF x \in FileObjs
        THEN /\ at' = "fstat" /\ fd' = Stat(x)
             /\ Still /\ UNCHANGED <<next, k, after, chain, blocks>>
        ELSE Refuse

\* The descriptor must be the file the walk saw, in the version it saw.
Fstat ==
  /\ at = "fstat" /\ Quiet
  /\ IF Stat(fd[1]) = chain[2]
     THEN /\ Goto("chain", 1, "opened") /\ fd' = Stat(fd[1])
          /\ Still /\ UNCHANGED <<chain, blocks>>
     ELSE Refuse

CheckSize ==
  /\ at = "size" /\ Quiet
  /\ IF Size[fd[1]][fd[2]] > MaxBlocks THEN Refuse
     ELSE at' = "block" /\ Still /\ UNCHANGED <<next, k, after, readVars>>

\* Reads go on to the end of the file as it is then, up to the ceiling.
ReadBlock ==
  /\ at = "block" /\ Quiet
  /\ LET now == version[fd[1]]
     IN IF Len(blocks) >= Size[fd[1]][now]
        THEN at' = "fstatAfter" /\ Still /\ UNCHANGED <<next, k, after, readVars>>
        ELSE IF Len(blocks) = MaxBlocks THEN Refuse
        ELSE /\ blocks' = Append(blocks, now)
             /\ Still /\ UNCHANGED <<at, next, k, after, chain, fd>>

\* Mutant of FstatAfter: only the size is compared after the read.
FstatSizeOnly ==
  /\ at = "fstatAfter" /\ Quiet
  /\ IF Size[fd[1]][version[fd[1]]] = Len(blocks)
     THEN Goto("chain", 1, "read") /\ fd' = Stat(fd[1]) /\ Still /\ UNCHANGED <<chain, blocks>>
     ELSE Refuse

\* unchanged(before, after), and the size that was read.
FstatAfter ==
  /\ at = "fstatAfter" /\ Quiet
  /\ IF Stat(fd[1]) = fd /\ Size[fd[1]][fd[2]] = Len(blocks)
     THEN Goto("chain", 1, "read") /\ Still /\ UNCHANGED readVars
     ELSE Refuse

LstatAfter ==
  /\ at = "lstatAfter" /\ Quiet
  /\ IF Stat(Entry(3)) = fd
     THEN End([kind |-> "bytes", blocks |-> blocks, file |-> fd]) /\ UNCHANGED invalidated
     ELSE Refuse

-----------------------------------------------------------------------------
(* assertNoReparsePoints and its worker.  The caller's thread waits, so one *)
(* request at most is out; the others go on meanwhile.                      *)

\* The helper gave no answer: the anchor's last name, or the path asked for,
\* is refused as unavailable; then the recheck finds the helper given up.
RefuseUnavailable ==
  IF anchor = None THEN Refuse
  ELSE IF next \in {"anchor", "recheck"} THEN RefuseAnchor
  ELSE Recheck(1)

\* A name the helper found to be a link, or missing.
RefuseName(i) ==
  IF anchor = None THEN Refuse
  ELSE IF i = 1 THEN RefuseAnchor
  ELSE Recheck(IF next = "chain" /\ after = "walked" THEN 2 ELSE 1)

Asked == IF next \in {"lstat", "chain"} THEN 1 .. Depth ELSE {1}
Bad   == {i \in Asked : Entry(i) \in Links \cup {None}}

\* A helper once given up refuses every request; the first request starts it.
AskHelper ==
  /\ at = "attributes" /\ UNCHANGED <<envVars, unavailable, seen, lost>>
  /\ IF unavailable THEN RefuseUnavailable /\ UNCHANGED helper
     ELSE /\ at' = "waiting"
          /\ helper' = IF helper = "closed" THEN "closed" ELSE "serving"
          /\ Still /\ UNCHANGED <<next, k, after, readVars>>

\* The child looks at the names in order; the first refusal is the answer.
HelperAnswers ==
  /\ helper = "serving" /\ at = "waiting"
  /\ helper' = "idle" /\ UNCHANGED <<envVars, unavailable, seen, lost>>
  /\ IF Bad = {} THEN at' = next /\ next' = "idle" /\ Still /\ UNCHANGED <<k, after, readVars>>
     ELSE RefuseName(CHOOSE i \in Bad : \A j \in Bad : i <= j)

\* The child exits, answers what it was not asked, or its watchdog fires: the
\* worker closes it, answers a request it still has with 5, and ends.
HelperCloses ==
  /\ helper \in {"idle", "serving"} /\ helper' = "closed"
  /\ UNCHANGED <<envVars, seen, lost>>
  /\ IF helper = "serving" THEN unavailable' = TRUE /\ RefuseUnavailable
     ELSE UNCHANGED <<unavailable, anchor, invalidated, op, at, next, k, after, readVars, result>>

\* Mutant of WaitTimesOut: a wait without a limit.
WaitForever == FALSE /\ UNCHANGED vars

\* Atomics.wait times out, the worker's own grace included.
WaitTimesOut ==
  /\ at = "waiting" /\ unavailable' = TRUE /\ helper' = "closed"
  /\ RefuseUnavailable /\ UNCHANGED <<envVars, seen, lost>>

\* The caller's event loop hears that the worker has gone.
HelperGone ==
  /\ at = "idle" /\ helper = "closed" /\ ~unavailable /\ unavailable' = TRUE
  /\ UNCHANGED <<envVars, helper, anchor, invalidated, op, at, next, k, after, readVars,
                 result, seen, lost>>

-----------------------------------------------------------------------------
Init ==
  /\ windows \in BOOLEAN /\ child = Start /\ version = [f \in FileObjs |-> 1] /\ swaps = 0
  /\ helper = "none" /\ unavailable = FALSE
  /\ anchor = None /\ invalidated = FALSE
  /\ op = "none" /\ at = "idle" /\ next = "idle" /\ k = 1 /\ after = "walked"
  /\ chain = <<>> /\ fd = None /\ blocks = <<>>
  /\ result = Refused /\ seen = {} /\ lost = FALSE

Continue ==
  \/ OpenStep \/ CheckAnchor \/ Lstat \/ Realpath \/ LstatAgain \/ CheckChain \/ CheckedCatch
  \/ ReadDirectory \/ Listed \/ OpenFile \/ Fstat \/ CheckSize \/ ReadBlock \/ FstatAfter
  \/ LstatAfter \/ AskHelper

Next ==
  \/ Environment \/ Open \/ (\E o \in {"read", "list"} : Begin(o)) \/ Continue
  \/ HelperAnswers \/ HelperCloses \/ WaitTimesOut \/ HelperGone

Spec == Init /\ [][Next]_vars

\* The caller's code runs on, and a wait ends by its timer at the latest.
FairSpec == Spec /\ WF_vars(Continue) /\ WF_vars(WaitTimesOut)

-----------------------------------------------------------------------------
\* What a read returns is the whole of one version of one file, and that
\* file was, in that version and at some moment of the call, what the path
\* inside the pinned root stood for (readFileBytes: fstat against the walk,
\* the chain three times, fstat and lstat after the last byte).
BytesAreOneVersion ==
  result.kind = "bytes" =>
    /\ result.file \in seen
    /\ result.blocks = [i \in 1 .. Size[result.file[1]][result.file[2]] |-> result.file[2]]

\* Once a check has found another object in the place of the root, no later
\* call returns anything, the original put back or not (assertCurrent,
\* #checked).
LossIsFinal == [][lost /\ at = "idle" => op' = "none" /\ result'.kind \in {"none", result.kind}]_vars

\* Every call ends, whatever becomes of the helper and of the tree (the
\* bounded wait of assertNoReparsePoints, the ceiling of the read loop).
CallsEnd == at # "idle" ~> at = "idle"
=============================================================================
