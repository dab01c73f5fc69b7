------------------------------ MODULE ScoreCache ------------------------------
(***************************************************************************)
(* The score cache (src/evaluation/cache.ts): one file for each identity,  *)
(* in a directory (a shard) for each prefix of identities, written by      *)
(* several processes.  A process writes under the writer lock of WriteLock *)
(* (two owners at once are excluded there) and keeps what it last saw in   *)
(* each shard, with the stamp the shard's directory had: a shard whose     *)
(* stamp has not changed is not read again.  Readers take no lock, and     *)
(* remove the files they cannot use.                                       *)
(*                                                                         *)
(* Stamps are modelled by what they tell: whether the shard has changed    *)
(* since the stamp was taken.  A file is the time of its entry, the time   *)
(* it ends, and its size; a file with no readable entry has the times 0.   *)
(***************************************************************************)
EXTENDS Integers, FiniteSets, Functions

CONSTANTS
  Procs,       \* processes that share the directory
  Names,       \* names of files: the shard and the identity within it
  Sizes,       \* sizes of a file
  MaxBytes,    \* the limit of the directory's files, the same for every process
  Ttl,         \* time to live of an entry, by the configuration of each process
  None,        \* no process, no shard, no name
  MaxTime,     \* bound: times of the clock
  MaxPasses,   \* bound: passes under the lock
  MaxFaults    \* bound: failures of the file system, and deaths

Times == 1 .. MaxTime

ASSUME ScoreCacheAssumption ==
  /\ Names \subseteq Nat \X Nat /\ IsFiniteSet(Names)
  /\ Sizes \subseteq Nat \ {0}
  /\ MaxBytes \in Nat /\ MaxTime \in Nat /\ MaxPasses \in Nat /\ MaxFaults \in Nat
  /\ Ttl \in [Procs -> Nat]
  /\ None \notin Procs

VARIABLES
  disk,      \* the file of each name
  holder,    \* the process that holds the writer lock
  pc,        \* where each process is
  seen,      \* the files a process knows of (#sizes)
  known,     \* whether it knows any (#sizes is not null)
  current,   \* the shards whose last stamp it keeps still holds
  total,     \* the bytes it counts
  todo,      \* shards it has not looked at in this pass
  at,        \* the shard it reads
  fresh,     \* whether the stamp it took of that shard still holds
  clearing,  \* whether this pass is a clear
  batch,     \* files it has to write, with their sizes
  began,     \* the time of their entries
  changed,   \* shards it has written in
  queue,     \* names it may still remove in this pass
  failed,    \* whether this pass has failed
  doomed,    \* the file a reader is about to remove
  passes,    \* passes begun
  faults,    \* failures and deaths so far
  unseen,    \* history: files it could not look at as it should
  stuck      \* history: files it could not remove in this pass

world == <<disk, holder>>
pass  == <<todo, at, fresh, clearing, batch, began, changed, queue, failed>>
memory == <<seen, known, current, total>>
bounds == <<passes, faults>>
vars == <<world, pc, memory, pass, doomed, bounds, unseen, stuck>>

-----------------------------------------------------------------------------
Shard(n)  == n[1]
Shards    == {Shard(n) : n \in Names}
Within(s) == {n \in Names : Shard(n) = s}

NoFile    == [created |-> 0, ends |-> 0, size |-> 0]
NothingSeen == [n \in Names |-> [created |-> 0, size |-> 0]]
Sight(f)  == [created |-> f.created, size |-> f.size]
Files     == {n \in Names : disk[n] # NoFile}

Corrupt(f) == f.ends <= f.created

\* What a process does not answer with at a time, by its own time to live too.
\* Clocks may be set back: every reading of one is any time.
Unusable(p, f, now) ==
  \/ Corrupt(f) \/ f.created > now
  \/ Ttl[p] = 0 \/ f.ends <= now \/ f.created + Ttl[p] <= now

Older(f, m, n) ==
  \/ f[m].created < f[n].created
  \/ f[m].created = f[n].created /\ m[1] < n[1]
  \/ f[m].created = f[n].created /\ m[1] = n[1] /\ m[2] < n[2]

Goto(p, l) == pc' = [pc EXCEPT ![p] = l]

\* A change of a file changes the stamp of its shard, for everyone.
Touch(s) == [q \in Procs |-> current[q] \ {s}]
Stale(s) == [q \in Procs |-> fresh[q] /\ at[q] # s]

Bytes(f, S) == SumFunctionOnSet([n \in S |-> f[n].size], S)

-----------------------------------------------------------------------------
(* A pass under the lock: writeMany or clear.                              *)

Enter(p) ==
  /\ pc[p] = "idle" /\ passes < MaxPasses
  /\ passes' = passes + 1

Fault == faults < MaxFaults /\ faults' = faults + 1

Begin(p, forClear, b, now) ==
  /\ Enter(p) /\ holder = None
  /\ holder' = p
  /\ clearing' = [clearing EXCEPT ![p] = forClear]
  /\ batch' = [batch EXCEPT ![p] = b]
  /\ began' = [began EXCEPT ![p] = now]
  /\ todo' = [todo EXCEPT ![p] = Shards]
  /\ Goto(p, "load")
  /\ UNCHANGED <<disk, seen, known, total, at, fresh, changed, queue, failed,
                 doomed, faults, unseen, stuck>>

\* Mutant of KeptStamps: those of another life of the map are kept.
StampsKept(p) == current[p]

\* Stamps are forgotten when nothing is known.
KeptStamps(p) == IF known[p] THEN current[p] ELSE {}

\* Of the scores of an answer, those that fit are written under one lock.
BeginWrite(p, b, now) ==
  /\ Ttl[p] > 0 /\ b # {}
  /\ \A v, w \in b : v[2] <= MaxBytes /\ (v[1] = w[1] => v = w)
  /\ current' = [current EXCEPT ![p] = KeptStamps(p)]
  /\ Begin(p, FALSE, b, now)

BeginClear(p) ==
  /\ current' = [current EXCEPT ![p] = {}]
  /\ Begin(p, TRUE, {}, 0)

\* The process forgets what it knows, and keeps its stamps.  Its count is not used
\* before it is made again: it is 0 meanwhile.
Forget(p) ==
  /\ known' = [known EXCEPT ![p] = FALSE]
  /\ seen' = [seen EXCEPT ![p] = NothingSeen]
  /\ total' = [total EXCEPT ![p] = 0]
  /\ unseen' = [unseen EXCEPT ![p] = {}]

\* The lock is busy or the directory cannot be listed.
WriteRefused(p) ==
  /\ Enter(p) /\ Fault /\ Ttl[p] > 0
  /\ Forget(p)
  /\ UNCHANGED <<world, pc, current, pass, doomed, stuck>>

\* A clear that fails so keeps what it knew, with or without the stamps.
ClearRefused(p) ==
  /\ Enter(p) /\ Fault
  /\ \E S \in {current[p], {}} : current' = [current EXCEPT ![p] = S]
  /\ UNCHANGED <<world, pc, seen, known, total, pass, doomed, unseen, stuck>>

-----------------------------------------------------------------------------
(* #listEntries, one shard after another.                                  *)

\* Mutant of StampHolds: a shard read once is not read again.
StampOnce(p, s) == s \in current[p] \/ \E n \in Within(s) : seen[p][n].size > 0

StampHolds(p, s) == s \in current[p]

\* The stamp is taken before the shard is read.
Stamp(p, s) ==
  /\ pc[p] = "load" /\ s \in todo[p]
  /\ todo' = [todo EXCEPT ![p] = @ \ {s}]
  /\ IF StampHolds(p, s)
       THEN UNCHANGED <<pc, at, fresh>>
       ELSE /\ at' = [at EXCEPT ![p] = s]
            /\ fresh' = [fresh EXCEPT ![p] = TRUE]
            /\ Goto(p, "read")
  /\ UNCHANGED <<world, memory, clearing, batch, began, changed, queue, failed,
                 doomed, bounds, unseen, stuck>>

\* The stamp cannot be taken: what was known of the shard is left.
StampFails(p, s) ==
  /\ Fault /\ pc[p] = "load" /\ s \in todo[p]
  /\ todo' = [todo EXCEPT ![p] = @ \ {s}]
  /\ unseen' = [unseen EXCEPT ![p] = @ \cup Within(s)]
  /\ UNCHANGED <<world, pc, memory, at, fresh, clearing, batch, began, changed, queue,
                 failed, doomed, passes, stuck>>

DoneReading(p) ==
  /\ at' = [at EXCEPT ![p] = None]
  /\ fresh' = [fresh EXCEPT ![p] = FALSE]
  /\ Goto(p, "load")
  /\ UNCHANGED <<todo, clearing, batch, began, changed, queue, failed>>

\* The files of the shard.  Those in lost cannot be looked at, or only at their
\* size, and then they count as the oldest.
ReadShard(p, lost, sized) ==
  /\ pc[p] = "read" /\ lost \subseteq Files \cap Within(at[p]) /\ sized \subseteq lost
  /\ seen' = [seen EXCEPT ![p] = [n \in Names |->
       IF Shard(n) # at[p] THEN @[n]
       ELSE IF n \in sized THEN [created |-> 0, size |-> disk[n].size]
       ELSE IF n \in lost THEN NothingSeen[n] ELSE Sight(disk[n])]]
  /\ unseen' = [unseen EXCEPT ![p] = (@ \ Within(at[p])) \cup lost]
  /\ current' = [current EXCEPT ![p] = IF fresh[p] THEN @ \cup {at[p]} ELSE @]
  /\ IF lost = {} THEN UNCHANGED faults ELSE Fault
  /\ DoneReading(p)
  /\ UNCHANGED <<world, known, total, doomed, passes, stuck>>

\* The shard cannot be read: its stamp is not kept.
ReadShardFails(p) ==
  /\ Fault /\ pc[p] = "read"
  /\ seen' = [seen EXCEPT ![p] = [n \in Names |->
       IF Shard(n) = at[p] THEN NothingSeen[n] ELSE @[n]]]
  /\ unseen' = [unseen EXCEPT ![p] = @ \cup Within(at[p])]
  /\ DoneReading(p)
  /\ UNCHANGED <<world, known, current, total, doomed, passes, stuck>>

SeenNames(p) == {n \in Names : seen[p][n].size > 0}

\* Mutant of ToClear: what was known before, and not what is found.
ToClearKnown(p) == IF known[p] THEN SeenNames(p) ELSE {}

ToClear(p) == SeenNames(p)

Loaded(p) ==
  /\ pc[p] = "load" /\ todo[p] = {}
  /\ known' = [known EXCEPT ![p] = @ \/ ~clearing[p]]
  /\ total' = [total EXCEPT ![p] = IF clearing[p] THEN @ ELSE Bytes(seen[p], SeenNames(p))]
  /\ queue' = [queue EXCEPT ![p] = IF clearing[p] THEN ToClear(p) ELSE {}]
  /\ Goto(p, IF clearing[p] THEN "remove" ELSE "write")
  /\ UNCHANGED <<world, seen, current, todo, at, fresh, clearing, batch, began,
                 changed, failed, doomed, bounds, unseen, stuck>>

-----------------------------------------------------------------------------
(* Writing, and removing the oldest files over the limit.                  *)

\* The count once a file of size z is known under n.
Counted(p, n, z) == total[p] + z - seen[p][n].size

Write(p, n, z) ==
  /\ pc[p] = "write" /\ <<n, z>> \in batch[p]
  /\ disk' = [disk EXCEPT ![n] =
       [created |-> began[p], ends |-> began[p] + Ttl[p], size |-> z]]
  /\ total' = [total EXCEPT ![p] = Counted(p, n, z)]
  /\ seen' = [seen EXCEPT ![p][n] = [created |-> began[p], size |-> z]]
  /\ batch' = [batch EXCEPT ![p] = @ \ {<<n, z>>}]
  /\ changed' = [changed EXCEPT ![p] = @ \cup {Shard(n)}]
  /\ current' = Touch(Shard(n)) /\ fresh' = Stale(Shard(n))
  /\ unseen' = [unseen EXCEPT ![p] = @ \ {n}]
  /\ UNCHANGED <<holder, pc, known, todo, at, clearing, began, queue,
                 failed, doomed, bounds, stuck>>

\* The first write that fails ends them.
WriteFails(p) ==
  /\ Fault /\ pc[p] = "write" /\ batch[p] # {}
  /\ batch' = [batch EXCEPT ![p] = {}]
  /\ failed' = [failed EXCEPT ![p] = TRUE]
  /\ UNCHANGED <<world, pc, memory, todo, at, fresh, clearing, began, changed,
                 queue, doomed, passes, unseen, stuck>>

\* The stamps of the shards written in are taken again, as far as they can be.
Restamp(p, S) ==
  /\ pc[p] = "write" /\ batch[p] = {} /\ S \subseteq changed[p]
  /\ current' = [current EXCEPT ![p] = @ \cup S]
  /\ failed' = [failed EXCEPT ![p] = @ \/ S # changed[p]]
  /\ queue' = [queue EXCEPT ![p] = SeenNames(p)]
  /\ IF S = changed[p] THEN UNCHANGED faults ELSE Fault
  /\ Goto(p, "remove")
  /\ UNCHANGED <<world, seen, known, total, todo, at, fresh, clearing, batch, began,
                 changed, doomed, passes, unseen, stuck>>

Needed(p) == total[p] > MaxBytes
OldestFirst(p, n) == \A m \in queue[p] \ {n} : Older(seen[p], n, m)

\* A file is removed, if it is there, from the disk and from what p knows.
Discard(p, n) ==
  /\ disk' = [disk EXCEPT ![n] = NoFile]
  /\ seen' = [seen EXCEPT ![p][n] = NothingSeen[n]]
  /\ total' = [total EXCEPT ![p] = IF known[p] THEN Counted(p, n, 0) ELSE @]
  /\ IF disk[n] = NoFile
       THEN UNCHANGED <<current, fresh>>
       ELSE current' = Touch(Shard(n)) /\ fresh' = Stale(Shard(n))

\* The oldest file first; a clear removes them all.
Turn(p, n) ==
  /\ pc[p] = "remove" /\ n \in queue[p]
  /\ clearing[p] \/ (Needed(p) /\ OldestFirst(p, n))
  /\ queue' = [queue EXCEPT ![p] = @ \ {n}]

Remove(p, n) ==
  /\ Turn(p, n) /\ Discard(p, n)
  /\ UNCHANGED <<holder, pc, known, todo, at, clearing, batch, began,
                 changed, failed, doomed, bounds, unseen, stuck>>

RemoveFails(p, n) ==
  /\ Fault /\ Turn(p, n)
  /\ stuck' = [stuck EXCEPT ![p] = @ \cup {n}]
  /\ UNCHANGED <<world, pc, memory, todo, at, fresh, clearing, batch, began, changed,
                 failed, doomed, passes, unseen>>

\* Nothing is left to write and to remove.
Done(p) ==
  pc[p] = "remove" /\ (queue[p] = {} \/ (~clearing[p] /\ ~Needed(p)))

EndPass(p) ==
  /\ todo' = [todo EXCEPT ![p] = {}]
  /\ at' = [at EXCEPT ![p] = None]
  /\ fresh' = [fresh EXCEPT ![p] = FALSE]
  /\ clearing' = [clearing EXCEPT ![p] = FALSE]
  /\ batch' = [batch EXCEPT ![p] = {}]
  /\ began' = [began EXCEPT ![p] = 0]
  /\ changed' = [changed EXCEPT ![p] = {}]
  /\ queue' = [queue EXCEPT ![p] = {}]
  /\ failed' = [failed EXCEPT ![p] = FALSE]
  /\ stuck' = [stuck EXCEPT ![p] = {}]
  /\ doomed' = [doomed EXCEPT ![p] = None]

\* The lock is dropped.  After a clear or a failure nothing is known.
Release(p) ==
  /\ Done(p)
  /\ holder' = None
  /\ Goto(p, "idle")
  /\ IF clearing[p] \/ failed[p] THEN Forget(p)
     ELSE UNCHANGED <<seen, known, total, unseen>>
  /\ EndPass(p)
  /\ UNCHANGED <<disk, current, bounds>>

-----------------------------------------------------------------------------
(* Reading takes no lock.  A file that can be answered with changes        *)
(* nothing; another is removed, whatever has become of it meanwhile.       *)

Reject(p, n, now) ==
  /\ pc[p] = "idle" /\ disk[n] # NoFile /\ Unusable(p, disk[n], now)
  /\ doomed' = [doomed EXCEPT ![p] = n]
  /\ Goto(p, "reject")
  /\ UNCHANGED <<world, memory, pass, bounds, unseen, stuck>>

DiscardRejected(p) ==
  /\ pc[p] = "reject"
  /\ Discard(p, doomed[p])
  /\ doomed' = [doomed EXCEPT ![p] = None]
  /\ Goto(p, "idle")
  /\ UNCHANGED <<holder, known, todo, at, clearing, batch, began, changed,
                 queue, failed, bounds, unseen, stuck>>

DiscardFails(p) ==
  /\ Fault /\ pc[p] = "reject"
  /\ doomed' = [doomed EXCEPT ![p] = None]
  /\ Goto(p, "idle")
  /\ UNCHANGED <<world, memory, pass, passes, unseen, stuck>>

-----------------------------------------------------------------------------
(* Processes that die and come back.                                       *)

\* The lock of a dead process is taken over by the next that wants it.
Die(p) ==
  /\ Fault /\ pc[p] # "dead"
  /\ holder' = IF holder = p THEN None ELSE holder
  /\ Goto(p, "dead")
  /\ Forget(p) /\ EndPass(p)
  /\ current' = [current EXCEPT ![p] = {}]
  /\ UNCHANGED <<disk, passes>>

Start(p) ==
  /\ pc[p] = "dead"
  /\ Goto(p, "idle")
  /\ UNCHANGED <<world, memory, pass, doomed, bounds, unseen, stuck>>

-----------------------------------------------------------------------------
\* The directory may hold entries that another version wrote.
Init ==
  /\ disk \in [Names -> {NoFile} \cup {[created |-> 0, ends |-> 0, size |-> z] : z \in Sizes}]
  /\ holder = None /\ passes = 0 /\ faults = 0
  /\ pc = [p \in Procs |-> "idle"]
  /\ seen = [p \in Procs |-> NothingSeen]
  /\ known = [p \in Procs |-> FALSE]
  /\ current = [p \in Procs |-> {}]
  /\ total = [p \in Procs |-> 0]
  /\ todo = [p \in Procs |-> {}]
  /\ at = [p \in Procs |-> None]
  /\ fresh = [p \in Procs |-> FALSE]
  /\ clearing = [p \in Procs |-> FALSE]
  /\ batch = [p \in Procs |-> {}]
  /\ began = [p \in Procs |-> 0]
  /\ changed = [p \in Procs |-> {}]
  /\ queue = [p \in Procs |-> {}]
  /\ failed = [p \in Procs |-> FALSE]
  /\ doomed = [p \in Procs |-> None]
  /\ unseen = [p \in Procs |-> {}]
  /\ stuck = [p \in Procs |-> {}]

Pass(p) ==
  /\ pc[p] = "idle" /\ holder = None
  /\ \E b \in SUBSET (Names \X Sizes), t \in Times : BeginWrite(p, b, t)

Step(p) ==
  \/ Pass(p) \/ BeginClear(p) \/ WriteRefused(p) \/ ClearRefused(p)
  \/ \E s \in Shards : Stamp(p, s) \/ StampFails(p, s)
  \/ \E lost \in SUBSET Files : \E sized \in SUBSET lost : ReadShard(p, lost, sized)
  \/ ReadShardFails(p) \/ Loaded(p)
  \/ \E n \in Names, z \in Sizes : Write(p, n, z)
  \/ WriteFails(p)
  \/ \E S \in SUBSET Shards : Restamp(p, S)
  \/ \E n \in Names : Remove(p, n) \/ RemoveFails(p, n)
  \/ \E n \in Names, t \in Times : Reject(p, n, t)
  \/ Release(p) \/ DiscardRejected(p) \/ DiscardFails(p)
  \/ Die(p) \/ Start(p)

Next == \E p \in Procs : Step(p)

Spec == Init /\ [][Next]_vars

-----------------------------------------------------------------------------
SeenFile == [created : Nat, size : Nat]
DiskFile == [created : Nat, ends : Nat, size : Nat]

\* What a process keeps of a shard whose stamp still holds is complete: every
\* file there, whoever wrote it, is known with its age and size, but for those
\* the process could not look at.  (#shardStamps: line 298 skips such shards.)
StampsAreHonest ==
  \A p \in Procs : known[p] \/ pc[p] \in {"load", "read"} =>
   \A n \in Files \ unseen[p] :
    Shard(n) \in current[p] => seen[p][n] = Sight(disk[n])

\* When a pass of writes ends, whatever failed in it and whoever died before, the
\* files are within the limit, but for those that could not be looked at or
\* removed.  (#evict in the finally of writeMany.)
WithinLimit ==
  \A p \in Procs :
    Done(p) /\ ~clearing[p] /\ stuck[p] = {}
      => Bytes(disk, Files \ unseen[p]) <= MaxBytes

\* When a clear ends, none of the files it could look at and remove is left,
\* though other processes wrote and removed some since this one last looked.
ClearedAll ==
  \A p \in Procs :
    Done(p) /\ clearing[p] => Files \subseteq unseen[p] \cup stuck[p]

=============================================================================
