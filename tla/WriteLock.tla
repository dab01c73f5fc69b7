------------------------------- MODULE WriteLock -------------------------------
(***************************************************************************)
(* The writer lock of a local directory (src/local-directory.ts): several  *)
(* processes, at any of whose steps one may die, take a directory named    *)
(* .write.lock by renaming a directory of their own, with a marker in it,  *)
(* to that name.  The marker says who owns the lock, so the lock of a dead *)
(* process can be taken over.                                              *)
(*                                                                         *)
(* A step is one call of the file system that another process can see or   *)
(* be seen by.  A marker is the process it names and the number of the     *)
(* attempt (a random identifier in the code); it stands also for the       *)
(* directory created with it, so that a directory is a marker and holds    *)
(* that marker or nothing.                                                 *)
(***************************************************************************)
EXTENDS Naturals, FiniteSets

CONSTANTS
  Procs,          \* process identifiers
  MaxTries,       \* bound: attempts of one process
  NoDir           \* no directory, no marker

Markers == Procs \X (1 .. MaxTries)

ASSUME LockAssumption ==
  /\ MaxTries \in Nat
  /\ NoDir \notin Markers

VARIABLES
  lock,        \* the directory at .write.lock, or NoDir
  candidates,  \* the directories still under their first name, .lock-<marker>
  marked,      \* the directories that hold their marker
  answers,     \* process identifiers to which a signal can be sent
  pc,          \* where each process is
  tries,       \* attempts made
  swept,       \* whether this process has cleaned abandoned candidates
  seen,        \* the directory a process opened at .write.lock
  found,       \* the marker it listed there
  outcome,     \* how its last attempt ended
  ran,         \* history: whether its last attempt ran the operation
  alone        \* history: during the attempt no other process was at work, and
               \* no write failed

dirs == <<lock, candidates, marked>>
vars == <<lock, candidates, marked, answers, pc, tries, swept, seen, found,
          outcome, ran, alone>>

Marker(p) == <<p, tries[p]>>
Owner(m)  == m[1]

Working == {p \in Procs : pc[p] \notin {"idle", "dead"}}

\* Identifiers that other programs got.
Reused == {p \in answers : pc[p] = "dead"}
Empty(d) == d \notin marked

-----------------------------------------------------------------------------
Goto(p, l) == pc' = [pc EXCEPT ![p] = l]

\* What a step of p leaves alone besides what its action says.
Local(p) == UNCHANGED <<answers, tries, swept, outcome, ran, alone>>

\* withLock is entered: abandoned candidates are removed by the first call, and
\* the candidate directory is made.
Start(p) ==
  /\ pc[p] = "idle" /\ tries[p] < MaxTries
  /\ tries' = [tries EXCEPT ![p] = @ + 1]
  /\ LET swept0   == {m \in candidates : Owner(m) \notin answers}
         garbage  == IF swept[p] THEN {} ELSE swept0
     IN  /\ candidates' = (candidates \ garbage) \cup {<<p, tries[p] + 1>>}
         /\ marked' = marked \ garbage
  /\ swept' = [swept EXCEPT ![p] = TRUE]
  /\ Goto(p, "made")
  /\ outcome' = [outcome EXCEPT ![p] = "none"]
  /\ ran' = [ran EXCEPT ![p] = "no"]
  /\ alone' = [q \in Procs |-> IF q = p THEN Working \cup Reused = {} ELSE FALSE]
  /\ UNCHANGED <<lock, answers, seen, found>>

\* The marker is written, complete or not at all.
WriteMarker(p) ==
  /\ pc[p] = "made"
  /\ marked' = marked \cup {Marker(p)}
  /\ Goto(p, "rename")
  /\ Local(p) /\ UNCHANGED <<lock, candidates, seen, found>>

\* The write fails, as on a full disk.
WriteFails(p) ==
  /\ pc[p] = "made"
  /\ Goto(p, "cleanup")
  /\ alone' = [alone EXCEPT ![p] = FALSE]
  /\ UNCHANGED <<dirs, answers, tries, swept, seen, found, outcome, ran>>

\* rename(candidate, .write.lock), before and after recovery.  An empty directory
\* is replaced by POSIX systems and by others not.
Rename(p) ==
  /\ pc[p] \in {"rename", "again"} /\ (lock = NoDir \/ Empty(lock))
  /\ lock' = Marker(p)
  /\ candidates' = candidates \ {Marker(p)}
  /\ Goto(p, "published")
  /\ Local(p) /\ UNCHANGED <<marked, seen, found>>

RenameFails(p) ==
  /\ pc[p] \in {"rename", "again"} /\ lock # NoDir
  /\ Goto(p, IF pc[p] = "rename" THEN "open" ELSE "cleanup")
  /\ Local(p) /\ UNCHANGED <<dirs, seen, found>>

-----------------------------------------------------------------------------
(* #recoverLock.  A directory seen before is recognized by its inode, which *)
(* a new directory may have been given again: a check of a directory that   *)
(* was replaced may pass.                                                   *)

StillThere(p) == lock # NoDir
Replaced(p)   == lock # seen[p]

Open(p) ==
  /\ pc[p] = "open"
  /\ seen' = [seen EXCEPT ![p] = lock]
  /\ Goto(p, IF lock = NoDir THEN "again" ELSE "list")
  /\ Local(p) /\ UNCHANGED <<dirs, found>>

\* Mutant of List: a directory without a marker is left as it is.
ListNeedsMarker(p) ==
  /\ pc[p] = "list" /\ StillThere(p)
  /\ found' = [found EXCEPT ![p] = IF Empty(lock) THEN NoDir ELSE lock]
  /\ Goto(p, IF Empty(lock) THEN "cleanup" ELSE "probe")
  /\ Local(p) /\ UNCHANGED <<dirs, seen>>

\* readdir, and the check of what was opened.
List(p) ==
  /\ pc[p] = "list" /\ StillThere(p)
  /\ found' = [found EXCEPT ![p] = IF Empty(lock) THEN NoDir ELSE lock]
  /\ Goto(p, IF Empty(lock) THEN "confirm" ELSE "probe")
  /\ Local(p) /\ UNCHANGED <<dirs, seen>>

\* Mutant of OwnerIsGone: nobody is asked.
OwnerForgotten(p) == TRUE

OwnerIsGone(p) == Owner(found[p]) \notin answers

\* The marker is read and its process sent a signal.
Probe(p) ==
  /\ pc[p] = "probe"
  /\ lock = found[p] /\ ~Empty(lock) /\ OwnerIsGone(p)
  /\ Goto(p, "unlink")
  /\ Local(p) /\ UNCHANGED <<dirs, seen, found>>

\* The marker is gone, or its process answers: "busy".
ProbeFails(p) ==
  /\ pc[p] = "probe"
  /\ lock # found[p] \/ Empty(lock) \/ ~OwnerIsGone(p)
  /\ Goto(p, "cleanup")
  /\ Local(p) /\ UNCHANGED <<dirs, seen, found>>

\* Mutant of Unlinked: every owner's marker has the same name.
UnlinkedAny(p) == {lock}

\* What unlinking .write.lock/<found> removes.
Unlinked(p) == {lock} \cap {found[p]}

Unlink(p) ==
  /\ pc[p] = "unlink"
  /\ marked' = marked \ Unlinked(p)
  /\ Goto(p, "confirm")
  /\ Local(p) /\ UNCHANGED <<lock, candidates, seen, found>>

\* The last check before the directory is removed.
Confirm(p) ==
  /\ pc[p] = "confirm" /\ StillThere(p)
  /\ Goto(p, "rmdir")
  /\ Local(p) /\ UNCHANGED <<dirs, seen, found>>

\* List or Confirm throws.
CheckFails(p) ==
  /\ pc[p] \in {"list", "confirm"} /\ Replaced(p)
  /\ Goto(p, "cleanup")
  /\ Local(p) /\ UNCHANGED <<dirs, seen, found>>

\* rmdir: not recursive.
Rmdir(p) ==
  /\ pc[p] = "rmdir" /\ lock # NoDir /\ Empty(lock)
  /\ lock' = NoDir
  /\ Goto(p, "again")
  /\ Local(p) /\ UNCHANGED <<candidates, marked, seen, found>>

RmdirFails(p) ==
  /\ pc[p] = "rmdir" /\ (lock = NoDir \/ ~Empty(lock))
  /\ Goto(p, "cleanup")
  /\ Local(p) /\ UNCHANGED <<dirs, seen, found>>

-----------------------------------------------------------------------------
(* The operation and the finally block.                                    *)

\* Reading back the marker, then the operation.
Enter(p) ==
  /\ pc[p] = "published"
  /\ Goto(p, IF lock = Marker(p) /\ ~Empty(lock) THEN "inside" ELSE "release")
  /\ Local(p) /\ UNCHANGED <<dirs, seen, found>>

\* The operation returns or throws.
Leave(p) ==
  /\ pc[p] = "inside"
  /\ \E how \in {"completed", "threw"} : ran' = [ran EXCEPT ![p] = how]
  /\ Goto(p, "release")
  /\ UNCHANGED <<dirs, answers, tries, swept, seen, found, outcome, alone>>

\* A late releaser removes its own marker, if it is there.
Release(p) ==
  /\ pc[p] = "release"
  /\ marked' = marked \ ({lock} \cap {Marker(p)})
  /\ Goto(p, "reopen")
  /\ Local(p) /\ UNCHANGED <<lock, candidates, seen, found>>

Finish(p, how) ==
  /\ Goto(p, "idle")
  /\ outcome' = [outcome EXCEPT ![p] = how]
  /\ seen' = [seen EXCEPT ![p] = NoDir] /\ found' = [found EXCEPT ![p] = NoDir]
  /\ UNCHANGED <<answers, tries, swept, ran, alone>>

\* What the attempt comes to when its clean-up goes well.
Result(p) == IF ran[p] = "completed" THEN "ok" ELSE "failed"

Reopen(p) ==
  /\ pc[p] = "reopen" /\ lock # NoDir
  /\ seen' = [seen EXCEPT ![p] = lock]
  /\ Goto(p, "drop")
  /\ Local(p) /\ UNCHANGED <<dirs, found>>

\* The check of the directory, and rmdir, whose failure on a directory that is
\* not empty is ignored.  The two are one step: a lock that is replaced between
\* them is not empty, and one that is removed counts as missing.
Drop(p) ==
  /\ pc[p] = "drop" /\ lock # NoDir
  /\ lock' = IF Empty(lock) THEN NoDir ELSE lock
  /\ Finish(p, Result(p))
  /\ UNCHANGED <<candidates, marked>>

\* The directory is gone.
NothingToDrop(p) ==
  /\ pc[p] \in {"reopen", "drop"} /\ lock = NoDir
  /\ Finish(p, Result(p))
  /\ UNCHANGED dirs

\* The directory was replaced: "a failed cleanup must stay loud".
DropThrows(p) ==
  /\ pc[p] = "drop" /\ lock # NoDir /\ Replaced(p)
  /\ Finish(p, "failed")
  /\ UNCHANGED dirs

\* Mutant of Removed: the candidate stays.
RemovedNothing(p) == {}

\* The directories removed when nothing was published.
Removed(p) == {Marker(p)}

Cleanup(p) ==
  /\ pc[p] = "cleanup"
  /\ candidates' = candidates \ Removed(p)
  /\ marked' = marked \ Removed(p)
  /\ Finish(p, "failed")
  /\ UNCHANGED lock

-----------------------------------------------------------------------------
(* Processes that die, and identifiers that are used again.                *)

Die(p) ==
  /\ pc[p] # "dead"
  /\ Goto(p, "dead")
  /\ answers' = answers \ {p}
  /\ seen' = [seen EXCEPT ![p] = NoDir] /\ found' = [found EXCEPT ![p] = NoDir]
  /\ UNCHANGED <<dirs, tries, swept, outcome, ran, alone>>

\* Some other program gets the identifier of a dead process.
IdReused(p) ==
  /\ pc[p] = "dead" /\ p \notin answers
  /\ answers' = answers \cup {p}
  /\ alone' = [q \in Procs |-> FALSE]
  /\ UNCHANGED <<dirs, pc, tries, swept, seen, found, outcome, ran>>

-----------------------------------------------------------------------------
Init ==
  /\ lock = NoDir /\ candidates = {} /\ marked = {}
  /\ answers = Procs
  /\ pc = [p \in Procs |-> "idle"] /\ tries = [p \in Procs |-> 0]
  /\ swept = [p \in Procs |-> FALSE]
  /\ seen = [p \in Procs |-> NoDir] /\ found = [p \in Procs |-> NoDir]
  /\ outcome = [p \in Procs |-> "none"] /\ ran = [p \in Procs |-> "no"]
  /\ alone = [p \in Procs |-> FALSE]

Acquire(p) ==
  \/ Start(p) \/ WriteMarker(p) \/ WriteFails(p) \/ Rename(p) \/ RenameFails(p)
  \/ Enter(p)

Recover(p) ==
  \/ Open(p) \/ List(p) \/ Probe(p) \/ ProbeFails(p) \/ Unlink(p) \/ Confirm(p)
  \/ CheckFails(p) \/ Rmdir(p) \/ RmdirFails(p)

GiveUp(p) ==
  \/ Leave(p) \/ Release(p) \/ Reopen(p) \/ Drop(p) \/ NothingToDrop(p)
  \/ DropThrows(p) \/ Cleanup(p)

Next == \E p \in Procs :
  Acquire(p) \/ Recover(p) \/ GiveUp(p) \/ Die(p) \/ IdReused(p)

Spec == Init /\ [][Next]_vars

-----------------------------------------------------------------------------
(* Properties.                                                             *)

PC == {"idle", "dead", "made", "rename", "open", "list", "probe", "unlink",
       "confirm", "rmdir", "again", "published", "inside", "release", "reopen",
       "drop", "cleanup"}

\* Of the directories: a marker is in a directory that exists.
TypeOK ==
  /\ lock \in Markers \cup {NoDir}
  /\ candidates \subseteq Markers /\ marked \subseteq Markers \cap (candidates \cup {lock})
  /\ answers \subseteq Procs
  /\ pc \in [Procs -> PC]
  /\ tries \in [Procs -> 0 .. MaxTries]
  /\ swept \in [Procs -> BOOLEAN] /\ alone \in [Procs -> BOOLEAN]
  /\ seen \in [Procs -> Markers \cup {NoDir}]
  /\ found \in [Procs -> Markers \cup {NoDir}]
  /\ outcome \in [Procs -> {"none", "ok", "failed"}]
  /\ ran \in [Procs -> {"no", "completed", "threw"}]

\* Two processes are never in their operations at once, whoever died where and
\* whatever recoveries are under way.
MutualExclusion ==
  \A p, q \in Procs : pc[p] = "inside" /\ pc[q] = "inside" => p = q

\* A marker that was published is removed by its owner, or after its owner's
\* death: "A late releaser knows only its own generation; it cannot unlink a new
\* owner's marker" (src/local-directory.ts:140-141), and neither can a late
\* recovery.
OnlyTheDeadAreRobbed ==
  [][\A m \in marked \ marked' :
       \/ pc[Owner(m)] = "dead"
       \/ pc[Owner(m)] # pc'[Owner(m)] /\ pc'[Owner(m)] # "dead"]_vars

\* Where others died stops nobody: an attempt with no other process at work
\* comes to its operation.
AloneEnters ==
  \A p \in Procs : alone[p] /\ outcome[p] = "failed" => ran[p] = "threw"

\* A process that is not at work has left no candidate and no marker.
NothingLeftBehind ==
  \A m \in candidates \cup marked : pc[Owner(m)] # "idle"
=============================================================================
