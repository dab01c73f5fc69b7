--------------------------- MODULE ScoreCacheProofs ---------------------------
(***************************************************************************)
(* Theorems of ScoreCache: what a process keeps of a shard it need not     *)
(* read again is complete, a merge leaves no more than MaxBytes, and a     *)
(* clear leaves nothing, for any number of processes, shards, files,       *)
(* passes, failures and deaths.                                            *)
(***************************************************************************)
EXTENDS ScoreCache, SumTheorems

\* The part of the types the argument needs.
Shapes ==
  /\ pc \in [Procs -> {"idle", "load", "read", "write", "remove", "reject", "dead"}]
  /\ disk \in [Names -> DiskFile]
  /\ seen \in [Procs -> [Names -> SeenFile]]
  /\ known \in [Procs -> BOOLEAN]
  /\ current \in [Procs -> SUBSET Shards]
  /\ todo \in [Procs -> SUBSET Shards]
  /\ at \in [Procs -> Shards \cup {None}]
  /\ clearing \in [Procs -> BOOLEAN]
  /\ batch \in [Procs -> SUBSET (Names \X Sizes)]
  /\ began \in [Procs -> Nat]
  /\ changed \in [Procs -> SUBSET Shards]
  /\ doomed \in [Procs -> Names \cup {None}]
  /\ unseen \in [Procs -> SUBSET Names]

\* A process at work on the files holds the lock.
HoldsLock ==
  \A p \in Procs : pc[p] \in {"load", "read", "write", "remove"} => holder = p

\* A process that reads knows which shard, and one that writes has none left.
ReadAll ==
  \A p \in Procs : /\ pc[p] = "read" => at[p] \in Shards
                   /\ pc[p] = "write" => todo[p] = {}

\* A process that rejects a file knows which.
KnowsDoomed == \A p \in Procs : pc[p] = "reject" => doomed[p] \in Names

\* Until it has written, a process knows every file of the shards it has looked
\* at in this pass, even of those that changed since.
Looked ==
  \A p \in Procs : pc[p] \in {"load", "read", "write"} =>
    \A n \in Files \ unseen[p] :
      Shard(n) \notin todo[p] /\ (pc[p] = "read" => Shard(n) # at[p])
        => seen[p][n] = Sight(disk[n])

Inv == Shapes /\ HoldsLock /\ ReadAll /\ KnowsDoomed /\ Looked /\ StampsAreHonest

\* A process that begins has every shard to look at.
LEMMA BeginWriteStep ==
  ASSUME Inv, NEW p \in Procs, NEW b \in SUBSET (Names \X Sizes), NEW t \in Times,
         BeginWrite(p, b, t)
  PROVE  Inv'
  BY ScoreCacheAssumption DEF Inv, Shapes, HoldsLock, ReadAll, KnowsDoomed, Looked,
        StampsAreHonest, Files, Goto, Shards,
        BeginWrite, Begin, Enter, KeptStamps, Times

LEMMA BeginClearStep ==
  ASSUME Inv, NEW p \in Procs, BeginClear(p)
  PROVE  Inv'
  BY ScoreCacheAssumption DEF Inv, Shapes, HoldsLock, ReadAll, KnowsDoomed, Looked,
        StampsAreHonest, Files, Goto, Shards, Shard, Sight, DiskFile, SeenFile, NoFile,
        BeginClear, Begin, Enter

LEMMA WriteRefusedStep ==
  ASSUME Inv, NEW p \in Procs, WriteRefused(p)
  PROVE  Inv'
  BY DEF Inv, Shapes, HoldsLock, ReadAll, KnowsDoomed, Looked,
        StampsAreHonest, Files, Goto, SeenFile,
        WriteRefused, Forget, NothingSeen, Enter, Fault, pass, world

LEMMA ClearRefusedStep ==
  ASSUME Inv, NEW p \in Procs, ClearRefused(p)
  PROVE  Inv'
  BY DEF Inv, Shapes, HoldsLock, ReadAll, KnowsDoomed, Looked,
        StampsAreHonest, Files, Goto,
        ClearRefused, Enter, Fault, pass, world

\* A shard is skipped only when its stamp holds.
LEMMA StampStep ==
  ASSUME Inv, NEW p \in Procs, NEW s \in Shards, Stamp(p, s)
  PROVE  Inv'
<1> USE DEF Files, Goto
<1>1. Shapes'
  <2>1. todo' \in [Procs -> SUBSET Shards] /\ at' \in [Procs -> Shards \cup {None}]
    BY DEF Inv, Shapes, Stamp
  <2>2. pc' \in [Procs -> {"idle", "load", "read", "write", "remove", "reject", "dead"}]
    BY DEF Inv, Shapes, Stamp
  <2> QED  BY <2>1, <2>2 DEF Inv, Shapes, Stamp, world, memory
<1>2. HoldsLock' /\ ReadAll' /\ KnowsDoomed'
  BY DEF Inv, Shapes, HoldsLock, ReadAll, KnowsDoomed, Stamp, world
<1>3. StampsAreHonest'
  BY DEF Inv, Shapes, StampsAreHonest, Stamp, world, memory, Shards, Shard
<1>4. Looked'
  <2> SUFFICES ASSUME NEW q \in Procs, pc'[q] \in {"load", "read", "write"},
                      NEW n \in Files' \ unseen'[q], Shard(n) \notin todo'[q],
                      pc'[q] = "read" => Shard(n) # at'[q]
               PROVE  seen'[q][n] = Sight(disk'[n])
    BY DEF Looked, Files
  <2>1. CASE q # p
    BY <2>1 DEF Inv, Shapes, Looked, Stamp, world, memory
  <2>2. CASE q = p /\ Shard(n) # s
    BY <2>2 DEF Inv, Shapes, Looked, Stamp, world, memory
  \* The shard just skipped: its stamp holds.
  <2>3. CASE q = p /\ Shard(n) = s
    BY <2>3 DEF Inv, Shapes, StampsAreHonest, Stamp, StampHolds, world, memory
  <2> QED  BY <2>1, <2>2, <2>3
<1> QED  BY <1>2, <1>1, <1>3, <1>4 DEF Inv

LEMMA StampFailsStep ==
  ASSUME Inv, NEW p \in Procs, NEW s \in Shards, StampFails(p, s)
  PROVE  Inv'
  BY DEF Inv, Shapes, HoldsLock, ReadAll, KnowsDoomed, Looked,
        StampsAreHonest, Files, Shards,
        StampFails, Fault, Within, world, memory

\* The files of a shard are seen as they are.
LEMMA ReadShardStep ==
  ASSUME Inv, NEW p \in Procs, NEW lost \in SUBSET Files, NEW sized \in SUBSET lost,
         ReadShard(p, lost, sized)
  PROVE  Inv'
<1> USE DEF Files, Goto, DoneReading, world
<1>1. Shapes'
  <2>1. seen' \in [Procs -> [Names -> SeenFile]]
    BY DEF Inv, Shapes, ReadShard, NothingSeen, Sight, DiskFile, SeenFile
  <2>2. unseen' \in [Procs -> SUBSET Names] /\ current' \in [Procs -> SUBSET Shards]
    BY DEF Inv, Shapes, ReadAll, ReadShard, Within
  <2>3. at' \in [Procs -> Shards \cup {None}]
        /\ pc' \in [Procs -> {"idle", "load", "read", "write", "remove", "reject", "dead"}]
    BY DEF Inv, Shapes, ReadShard
  <2>4. UNCHANGED <<disk, known, todo, clearing, batch, began, changed, doomed>>
    BY DEF ReadShard
  <2> QED  BY <2>1, <2>2, <2>3, <2>4 DEF Inv, Shapes
<1>2. HoldsLock' /\ ReadAll' /\ KnowsDoomed'
  BY DEF Inv, Shapes, HoldsLock, ReadAll, KnowsDoomed, ReadShard
\* What is seen now is seen as it is.
<1>3. ASSUME NEW n \in Files \ unseen'[p], Shard(n) = at[p]
      PROVE  seen'[p][n] = Sight(disk[n])
  BY <1>3 DEF Inv, Shapes, ReadShard, Within
<1>4. ASSUME NEW n \in Files \ unseen'[p], Shard(n) # at[p]
      PROVE  n \notin unseen[p] /\ seen'[p][n] = seen[p][n]
  BY <1>4 DEF Inv, Shapes, ReadShard, Within
<1>5. \A q \in Procs \ {p} : pc'[q] = pc[q] /\ seen'[q] = seen[q] /\ unseen'[q] = unseen[q]
                              /\ current'[q] = current[q] /\ at'[q] = at[q]
  BY DEF Inv, Shapes, ReadShard
<1>6. StampsAreHonest'
  <2> SUFFICES ASSUME NEW q \in Procs, known'[q] \/ pc'[q] \in {"load", "read"},
                      NEW n \in Files' \ unseen'[q], Shard(n) \in current'[q]
               PROVE  seen'[q][n] = Sight(disk'[n])
    BY DEF StampsAreHonest
  <2>1. CASE q # p
    BY <1>5, <2>1 DEF Inv, StampsAreHonest, ReadShard
  <2>2. CASE q = p /\ Shard(n) = at[p]
    BY <1>3, <2>2 DEF ReadShard
  <2>3. CASE q = p /\ Shard(n) # at[p]
    <3>1. Shard(n) \in current[p] /\ pc[p] = "read"
      BY <2>3 DEF Inv, Shapes, ReadShard
    <3> QED  BY <3>1, <1>4, <2>3 DEF Inv, StampsAreHonest, ReadShard
  <2> QED  BY <2>1, <2>2, <2>3
<1>7. Looked'
  <2> SUFFICES ASSUME NEW q \in Procs, pc'[q] \in {"load", "read", "write"},
                      NEW n \in Files' \ unseen'[q], Shard(n) \notin todo'[q],
                      pc'[q] = "read" => Shard(n) # at'[q]
               PROVE  seen'[q][n] = Sight(disk'[n])
    BY DEF Looked
  <2>1. CASE q # p
    BY <1>5, <2>1 DEF Inv, Looked, ReadShard
  <2>2. CASE q = p /\ Shard(n) = at[p]
    BY <1>3, <2>2 DEF ReadShard
  <2>3. CASE q = p /\ Shard(n) # at[p]
    BY <1>4, <2>3 DEF Inv, Looked, ReadShard
  <2> QED  BY <2>1, <2>2, <2>3
<1> QED  BY <1>1, <1>2, <1>6, <1>7 DEF Inv

LEMMA ReadShardFailsStep ==
  ASSUME Inv, NEW p \in Procs, ReadShardFails(p)
  PROVE  Inv'
  BY DEF Inv, Shapes, HoldsLock, ReadAll, KnowsDoomed, Looked,
        StampsAreHonest, Files, Goto, SeenFile,
        ReadShardFails, DoneReading, Within, NothingSeen, Fault, world

LEMMA LoadedStep ==
  ASSUME Inv, NEW p \in Procs, Loaded(p)
  PROVE  Inv'
  BY DEF Inv, Shapes, HoldsLock, ReadAll, KnowsDoomed, Looked,
        StampsAreHonest, Files, Goto,
        Loaded, world

\* A file written changes the shard for everybody.
LEMMA WriteStep ==
  ASSUME Inv, NEW p \in Procs, NEW n \in Names, NEW z \in Sizes, Write(p, n, z)
  PROVE  Inv'
<1> DEFINE e == [created |-> began[p], ends |-> began[p] + Ttl[p], size |-> z]
<1>1. z \in Nat /\ Ttl[p] \in Nat /\ e \in DiskFile /\ Sight(e) \in SeenFile
      /\ Sight(e) = [created |-> began[p], size |-> z]
  BY ScoreCacheAssumption DEF Inv, Shapes, DiskFile, SeenFile, Sight
<1>2. /\ disk' = [disk EXCEPT ![n] = e]
      /\ seen' = [seen EXCEPT ![p][n] = Sight(e)]
      /\ current' = Touch(Shard(n))
      /\ unseen' = [unseen EXCEPT ![p] = @ \ {n}]
      /\ changed' = [changed EXCEPT ![p] = @ \cup {Shard(n)}]
      /\ batch' = [batch EXCEPT ![p] = @ \ {<<n, z>>}]
      /\ pc[p] = "write"
      /\ UNCHANGED <<holder, pc, known, todo, at, clearing, began, doomed>>
  BY <1>1 DEF Write
<1> HIDE DEF e
<1>3. Shapes'
  <2>1. disk' \in [Names -> DiskFile] /\ seen' \in [Procs -> [Names -> SeenFile]]
    BY <1>1, <1>2 DEF Inv, Shapes
  <2>2. changed' \in [Procs -> SUBSET Shards] /\ current' \in [Procs -> SUBSET Shards]
        /\ unseen' \in [Procs -> SUBSET Names]
    BY <1>2 DEF Inv, Shapes, Shards, Touch
  <2> QED  BY <1>2, <2>1, <2>2 DEF Inv, Shapes
<1>4. HoldsLock' /\ ReadAll' /\ KnowsDoomed'
  BY <1>2 DEF Inv, HoldsLock, ReadAll, KnowsDoomed
\* The shard written in is current for nobody.
<1>5. StampsAreHonest'
  <2> SUFFICES ASSUME NEW q \in Procs, known'[q] \/ pc'[q] \in {"load", "read"},
                      NEW m \in Files' \ unseen'[q], Shard(m) \in current'[q]
               PROVE  seen'[q][m] = Sight(disk'[m])
    BY DEF StampsAreHonest
  <2>1. Shard(m) \in current[q] /\ m # n
    BY <1>2 DEF Inv, Shapes, Touch
  <2>2. m \in Files /\ disk'[m] = disk[m] /\ seen'[q][m] = seen[q][m] /\ m \notin unseen[q]
    BY <1>2, <2>1 DEF Inv, Shapes, Files
  <2> QED  BY <1>2, <2>1, <2>2 DEF Inv, StampsAreHonest
\* Nobody else is at work.
<1>6. Looked'
  <2> SUFFICES ASSUME NEW q \in Procs, pc'[q] \in {"load", "read", "write"},
                      NEW m \in Files' \ unseen'[q], Shard(m) \notin todo'[q],
                      pc'[q] = "read" => Shard(m) # at'[q]
               PROVE  seen'[q][m] = Sight(disk'[m])
    BY DEF Looked
  <2>1. q = p
    BY <1>2 DEF Inv, HoldsLock
  <2>2. CASE m = n
    BY <1>2, <2>1, <2>2 DEF Inv, Shapes
  <2>3. CASE m # n
    BY <1>2, <2>1, <2>3 DEF Inv, Shapes, Looked, Files
  <2> QED  BY <2>2, <2>3
<1> QED  BY <1>3, <1>4, <1>5, <1>6 DEF Inv

LEMMA WriteFailsStep ==
  ASSUME Inv, NEW p \in Procs, WriteFails(p)
  PROVE  Inv'
  BY DEF Inv, Shapes, HoldsLock, ReadAll, KnowsDoomed, Looked,
        StampsAreHonest, Files, Goto,
        WriteFails, Fault, world, memory

\* Shards written in were looked at before they were.
LEMMA RestampStep ==
  ASSUME Inv, NEW p \in Procs, NEW S \in SUBSET Shards, Restamp(p, S)
  PROVE  Inv'
  BY DEF Inv, Shapes, HoldsLock, ReadAll, KnowsDoomed, Looked,
        StampsAreHonest, Files, Goto,
        Restamp, world

\* Removing makes nobody's knowledge incomplete.
LEMMA RemoveStep ==
  ASSUME Inv, NEW p \in Procs, NEW n \in Names, Remove(p, n)
  PROVE  Inv'
  BY DEF Inv, Shapes, HoldsLock, ReadAll, KnowsDoomed, Looked,
        StampsAreHonest, Files, Goto, SeenFile, DiskFile, NoFile,
        Remove, Turn, Discard, Touch, Stale, NothingSeen

LEMMA RemoveFailsStep ==
  ASSUME Inv, NEW p \in Procs, NEW n \in Names, RemoveFails(p, n)
  PROVE  Inv'
  BY DEF Inv, Shapes, HoldsLock, ReadAll, KnowsDoomed, Looked,
        StampsAreHonest, Files, Goto,
        RemoveFails, Turn, Fault, world, memory

LEMMA ReleaseStep ==
  ASSUME Inv, NEW p \in Procs, Release(p)
  PROVE  Inv'
<1> USE DEF Goto, Release, Done
<1>1. /\ todo' = [todo EXCEPT ![p] = {}] /\ at' = [at EXCEPT ![p] = None]
      /\ clearing' = [clearing EXCEPT ![p] = FALSE] /\ batch' = [batch EXCEPT ![p] = {}]
      /\ began' = [began EXCEPT ![p] = 0] /\ changed' = [changed EXCEPT ![p] = {}]
      /\ doomed' = [doomed EXCEPT ![p] = None]
      /\ UNCHANGED <<disk, current>>
  BY DEF EndPass
<1>2. Shapes'
  <2>1. known' \in [Procs -> BOOLEAN] /\ clearing' \in [Procs -> BOOLEAN]
    <3>1. CASE clearing[p] \/ failed[p]
      BY <1>1, <3>1 DEF Inv, Shapes, Forget
    <3>2. CASE ~(clearing[p] \/ failed[p])
      BY <1>1, <3>2 DEF Inv, Shapes
    <3> QED  BY <3>1, <3>2
  <2>2. seen' \in [Procs -> [Names -> SeenFile]] /\ unseen' \in [Procs -> SUBSET Names]
    <3>0. NothingSeen \in [Names -> SeenFile]
      BY DEF NothingSeen, SeenFile
    <3>1. CASE clearing[p] \/ failed[p]
      <4>1. seen' = [seen EXCEPT ![p] = NothingSeen] /\ unseen' = [unseen EXCEPT ![p] = {}]
        BY <3>1 DEF Forget
      <4> QED  BY <3>0, <4>1 DEF Inv, Shapes
    <3>2. CASE ~(clearing[p] \/ failed[p])
      BY <3>2 DEF Inv, Shapes
    <3> QED  BY <3>1, <3>2
  <2>3. pc' \in [Procs -> {"idle", "load", "read", "write", "remove", "reject", "dead"}]
    BY DEF Inv, Shapes
  <2>4. todo' \in [Procs -> SUBSET Shards] /\ at' \in [Procs -> Shards \cup {None}]
        /\ batch' \in [Procs -> SUBSET (Names \X Sizes)] /\ began' \in [Procs -> Nat]
        /\ changed' \in [Procs -> SUBSET Shards] /\ doomed' \in [Procs -> Names \cup {None}]
    BY <1>1 DEF Inv, Shapes
  <2> QED  BY <1>1, <2>1, <2>2, <2>3, <2>4 DEF Inv, Shapes
<1>3. HoldsLock' /\ ReadAll' /\ KnowsDoomed'
  BY <1>1 DEF Inv, Shapes, HoldsLock, ReadAll, KnowsDoomed
<1>4. \A q \in Procs \ {p} : pc'[q] = pc[q] /\ seen'[q] = seen[q] /\ unseen'[q] = unseen[q]
        /\ known'[q] = known[q] /\ todo'[q] = todo[q] /\ at'[q] = at[q]
  BY <1>1 DEF Inv, Shapes, Forget
<1>5. pc'[p] = "idle"
      /\ (known'[p] => known[p] /\ seen'[p] = seen[p] /\ unseen'[p] = unseen[p])
  BY DEF Inv, Shapes, Forget
<1>6. Looked' /\ StampsAreHonest'
  BY <1>1, <1>4, <1>5 DEF Inv, Looked, StampsAreHonest, Files
<1> QED  BY <1>2, <1>3, <1>6 DEF Inv

LEMMA RejectStep ==
  ASSUME Inv, NEW p \in Procs, NEW n \in Names, NEW t \in Times, Reject(p, n, t)
  PROVE  Inv'
  BY DEF Inv, Shapes, HoldsLock, ReadAll, KnowsDoomed, Looked,
        StampsAreHonest, Files, Goto,
        Reject, world, memory, pass

LEMMA DiscardRejectedStep ==
  ASSUME Inv, NEW p \in Procs, DiscardRejected(p)
  PROVE  Inv'
  BY DEF Inv, Shapes, HoldsLock, ReadAll, KnowsDoomed, Looked,
        StampsAreHonest, Files, Goto, SeenFile, DiskFile, NoFile,
        DiscardRejected, Discard, Touch, Stale, NothingSeen

LEMMA DiscardFailsStep ==
  ASSUME Inv, NEW p \in Procs, DiscardFails(p)
  PROVE  Inv'
  BY DEF Inv, Shapes, HoldsLock, ReadAll, KnowsDoomed, Looked,
        StampsAreHonest, Files, Goto,
        DiscardFails, Fault, world, memory, pass

LEMMA DieStep ==
  ASSUME Inv, NEW p \in Procs, Die(p)
  PROVE  Inv'
  BY DEF Inv, Shapes, HoldsLock, ReadAll, KnowsDoomed, Looked,
        StampsAreHonest, Files, Goto, SeenFile,
        Die, Fault, Forget, NothingSeen, EndPass

LEMMA StartStep ==
  ASSUME Inv, NEW p \in Procs, Start(p)
  PROVE  Inv'
  BY DEF Inv, Shapes, HoldsLock, ReadAll, KnowsDoomed, Looked,
        StampsAreHonest, Files, Goto,
        Start, world, memory, pass

LEMMA Initially == Init => Inv
  BY ScoreCacheAssumption DEF Init, Inv, Shapes, HoldsLock, ReadAll, KnowsDoomed, Looked,
        StampsAreHonest, DiskFile, SeenFile, NoFile, NothingSeen

LEMMA StutterStep == ASSUME Inv, UNCHANGED vars PROVE Inv'
  BY DEF Inv, Shapes, HoldsLock, ReadAll, KnowsDoomed, Looked, StampsAreHonest, Files,
         vars, world, memory, pass, bounds

\* Every step of every process keeps the invariant.
THEOREM Invariance == Spec => []Inv
<1>1. Inv /\ [Next]_vars => Inv'
  <2> SUFFICES ASSUME Inv, Next PROVE Inv'
    BY StutterStep
  <2> PICK p \in Procs : Step(p)
    BY DEF Next
  <2> QED
    BY BeginWriteStep, BeginClearStep, WriteRefusedStep, ClearRefusedStep, StampStep,
       StampFailsStep, ReadShardStep, ReadShardFailsStep, LoadedStep, WriteStep,
       WriteFailsStep, RestampStep, RemoveStep, RemoveFailsStep, ReleaseStep, RejectStep,
       DiscardRejectedStep, DiscardFailsStep, DieStep, StartStep DEF Step, Pass
<1> QED  BY <1>1, Initially, PTL DEF Spec

\* A process that skips a shard because its stamp holds (line 298 of cache.ts)
\* loses no file of it, whoever wrote, removed, failed or died meanwhile.
THEOREM HonestStamps == Spec => []StampsAreHonest
  BY Invariance, PTL DEF Inv

-----------------------------------------------------------------------------
(* The limit.  A pass of writes counts the bytes of the files it knows of, *)
(* and while it removes files it knows of every file there is, other than  *)
(* those it could not look at.                                             *)

\* Types of what only removing needs.  A file has bytes.
MoreShapes ==
  /\ queue \in [Procs -> SUBSET Names] /\ stuck \in [Procs -> SUBSET Names]
  /\ total \in [Procs -> Int]
  /\ \A n \in Files : disk[n].size > 0

\* A process that removes files knows those there are as they are, though readers
\* may have removed some; and it has yet to try, or has tried, to remove each of them.
Removing(p) ==
  pc[p] = "remove" =>
    /\ \A n \in Files \ unseen[p] : seen[p][n] = Sight(disk[n])
    /\ SeenNames(p) \subseteq queue[p] \cup stuck[p]

\* A process that writes, or removes what it must, has counted what it knows.
Counting(p) ==
  pc[p] \in {"write", "remove"} /\ ~clearing[p] =>
    known[p] /\ total[p] = Bytes(seen[p], Names)

Limits == Inv /\ MoreShapes /\ \A p \in Procs : Removing(p) /\ Counting(p)

\* The bytes of what is known are those of the names known.
LEMMA BytesKnown ==
  ASSUME Inv, NEW p \in Procs
  PROVE  Bytes(seen[p], SeenNames(p)) = Bytes(seen[p], Names)
         /\ Bytes(seen[p], Names) \in Nat
  <1> DEFINE f == [n \in Names |-> seen[p][n].size]
             S == SeenNames(p)
             e == [n \in S |-> seen[p][n].size]
  <1>1. IsFiniteSet(Names) /\ S \subseteq Names  BY ScoreCacheAssumption DEF SeenNames
  <1>2. \A n \in Names : f[n] \in Nat  BY DEF Inv, Shapes, SeenFile
  <1>3. \A n \in Names \ S : f[n] = 0  BY <1>2 DEF SeenNames
  <1>4. \A n \in S : e[n] = f[n] /\ e[n] \in Int  BY <1>1, <1>2
  <1> HIDE DEF f, S, e
  <1>5. IsFiniteSet(S) /\ IsFiniteSet(Names \ S)  BY <1>1, FS_Subset
  <1>6. SumFunctionOnSet(f, Names \ S) = 0  BY <1>3, <1>5, SumZeros
  <1>7. SumFunctionOnSet(f, S) = SumFunctionOnSet(e, S)  BY <1>4, <1>5, SumAgree
  <1>8. S \cup (Names \ S) = Names /\ S \cap (Names \ S) = {}  BY <1>1
  <1>9. \A n \in S \cup (Names \ S) : f[n] \in Int  BY <1>2, <1>8
  <1>10. SumFunctionOnSet(f, S \cup (Names \ S))
           = SumFunctionOnSet(f, S) + SumFunctionOnSet(f, Names \ S)
    BY <1>5, <1>8, <1>9, SumUnion
  <1>11. SumFunctionOnSet(f, Names) \in Nat /\ SumFunctionOnSet(f, S) \in Nat
    BY <1>1, <1>2, <1>5, SumType
  <1>12. SumFunctionOnSet(f, Names) = SumFunctionOnSet(e, S)
    BY <1>6, <1>7, <1>8, <1>10, <1>11
  <1> QED  BY <1>11, <1>12 DEF Bytes, f, e, S

\* A count that is kept up to date is right.
LEMMA BytesChange ==
  ASSUME NEW f \in [Names -> SeenFile], NEW n \in Names, NEW x \in SeenFile
  PROVE  Bytes([f EXCEPT ![n] = x], Names) = Bytes(f, Names) + x.size - f[n].size
  <1> DEFINE g == [f EXCEPT ![n] = x]
             a == [m \in Names |-> f[m].size]
             b == [m \in Names |-> g[m].size]
  <1>1. IsFiniteSet(Names)  BY ScoreCacheAssumption
  <1>2. \A m \in Names : a[m] \in Int /\ b[m] \in Int /\ (m # n => b[m] = a[m])
    BY DEF SeenFile
  <1>3. a[n] = f[n].size /\ b[n] = x.size  OBVIOUS
  <1> HIDE DEF a, b
  <1>4. SumFunctionOnSet(b, Names) = SumFunctionOnSet(a, Names) + b[n] - a[n]
    BY <1>1, <1>2, SumExcept
  <1> HIDE DEF g
  <1>5. Bytes(g, Names) = SumFunctionOnSet(b, Names)  BY DEF Bytes, b
  <1>6. Bytes(f, Names) = SumFunctionOnSet(a, Names)  BY DEF Bytes, a
  <1>7. Bytes(g, Names) = Bytes(f, Names) + x.size - f[n].size  BY <1>3, <1>4, <1>5, <1>6
  <1> QED  BY <1>7 DEF g

\* Where the pass of a process is, and what it knows.
mine(p) == <<pc[p], seen[p], known[p], total[p], clearing[p], queue[p], unseen[p], stuck[p]>>

\* Whatever becomes of the files while another removes some, they only vanish.
LEMMA OthersKeep ==
  ASSUME NEW q \in Procs, Removing(q), Counting(q), UNCHANGED mine(q),
         pc[q] = "remove" =>
           \A n \in Names : disk'[n] = disk[n] \/ disk'[n] = NoFile
  PROVE  Removing(q)' /\ Counting(q)'
  <1>1. Counting(q)'  BY DEF mine, Counting, Bytes
  <1>2. Removing(q)'  BY DEF mine, Removing, Files, SeenNames
  <1> QED  BY <1>1, <1>2

\* A step of a process that neither writes nor removes after it.
LEMMA ElsewhereKeeps ==
  ASSUME Limits, Inv', MoreShapes', NEW p \in Procs, pc'[p] \notin {"write", "remove"},
         \A q \in Procs \ {p} : UNCHANGED mine(q),
         \A n \in Names : disk'[n] = disk[n] \/ disk'[n] = NoFile
  PROVE  Limits'
  <1>1. Removing(p)' /\ Counting(p)'  BY DEF Removing, Counting
  <1>2. ASSUME NEW q \in Procs \ {p} PROVE Removing(q)' /\ Counting(q)'
    BY OthersKeep DEF Limits
  <1> QED  BY <1>1, <1>2 DEF Limits

\* Steps of a process that has not come to writing or removing yet, or has done with it.
LEMMA BeginsLimits ==
  ASSUME Limits, Inv', NEW p \in Procs,
         (\E b, t : BeginWrite(p, b, t)) \/ BeginClear(p) \/ WriteRefused(p) \/ ClearRefused(p)
  PROVE  Limits'
  <1> USE DEF Limits, Inv, Shapes
  <1>1. ASSUME NEW c, NEW b, NEW t, Begin(p, c, b, t) PROVE Limits'
    <2>1. MoreShapes'  BY <1>1 DEF Begin, MoreShapes, Files
    <2>2. pc'[p] = "load"  BY <1>1 DEF Begin, Goto
    <2>3. \A q \in Procs \ {p} : UNCHANGED mine(q)  BY <1>1 DEF Begin, Goto, mine
    <2>4. disk' = disk  BY <1>1 DEF Begin
    <2> QED  BY <2>1, <2>2, <2>3, <2>4, ElsewhereKeeps
  <1>2. CASE WriteRefused(p)
    <2> USE <1>2 DEF WriteRefused, Forget, Enter, Fault, world, pass
    <2>1. MoreShapes'  BY DEF MoreShapes, Files
    <2>2. pc'[p] = "idle"  OBVIOUS
    <2>3. \A q \in Procs \ {p} : UNCHANGED mine(q)  BY DEF mine
    <2>4. disk' = disk  OBVIOUS
    <2> QED  BY <2>1, <2>2, <2>3, <2>4, ElsewhereKeeps
  <1>3. CASE ClearRefused(p)
    <2> USE <1>3 DEF ClearRefused, Enter, Fault, world, pass
    <2>1. MoreShapes'  BY DEF MoreShapes, Files
    <2>2. pc'[p] = "idle"  OBVIOUS
    <2>3. \A q \in Procs \ {p} : UNCHANGED mine(q)  BY DEF mine
    <2>4. disk' = disk  OBVIOUS
    <2> QED  BY <2>1, <2>2, <2>3, <2>4, ElsewhereKeeps
  <1> QED  BY <1>1, <1>2, <1>3 DEF BeginWrite, BeginClear

LEMMA ReadsLimits ==
  ASSUME Limits, Inv', NEW p \in Procs,
         \/ \E s : Stamp(p, s) \/ StampFails(p, s)
         \/ \E l, z : ReadShard(p, l, z)
         \/ ReadShardFails(p)
  PROVE  Limits'
  <1> USE DEF Limits, Inv, Shapes
  <1>1. UNCHANGED <<disk, known, total, clearing, queue, stuck>>
        /\ pc'[p] \notin {"write", "remove"}
        /\ \A q \in Procs \ {p} : pc'[q] = pc[q] /\ seen'[q] = seen[q] /\ unseen'[q] = unseen[q]
    <2>1. ASSUME NEW s, Stamp(p, s) PROVE <1>1!:
      BY <2>1 DEF Stamp, Goto, world, memory
    <2>2. ASSUME NEW s, StampFails(p, s) PROVE <1>1!:
      BY <2>2 DEF StampFails, world, memory
    <2>3. ASSUME NEW l, NEW z, ReadShard(p, l, z) PROVE <1>1!:
      BY <2>3 DEF ReadShard, DoneReading, Goto, world
    <2>4. CASE ReadShardFails(p)
      BY <2>4 DEF ReadShardFails, DoneReading, Goto, world
    <2> QED  BY <2>1, <2>2, <2>3, <2>4
  <1>2. MoreShapes'  BY <1>1 DEF MoreShapes, Files
  <1>3. \A q \in Procs \ {p} : UNCHANGED mine(q)  BY <1>1 DEF mine
  <1> QED  BY <1>1, <1>2, <1>3, ElsewhereKeeps

\* The pass is over: its process may forget.
LEMMA EndsLimits ==
  ASSUME Limits, Inv', NEW p \in Procs, Release(p) \/ Die(p)
  PROVE  Limits'
  <1> USE DEF Limits, Inv, Shapes
  <1>1. /\ queue' = [queue EXCEPT ![p] = {}] /\ stuck' = [stuck EXCEPT ![p] = {}]
        /\ clearing' = [clearing EXCEPT ![p] = FALSE] /\ disk' = disk
    BY DEF Release, Die, EndPass
  <1>2. /\ pc'[p] \notin {"write", "remove"}
        /\ \A q \in Procs \ {p} : pc'[q] = pc[q]
    BY DEF Release, Die, Goto
  <1>3. /\ total' \in [Procs -> Int]
        /\ \A q \in Procs \ {p} : seen'[q] = seen[q] /\ unseen'[q] = unseen[q]
                                  /\ known'[q] = known[q] /\ total'[q] = total[q]
    <2>1. CASE Forget(p)  BY <2>1 DEF Forget, MoreShapes
    <2>2. CASE UNCHANGED <<seen, known, total, unseen>>  BY <2>2 DEF MoreShapes
    <2> QED  BY <2>1, <2>2 DEF Release, Die
  <1>4. MoreShapes'  BY <1>1, <1>3 DEF MoreShapes, Files
  <1>5. \A q \in Procs \ {p} : UNCHANGED mine(q)  BY <1>1, <1>2, <1>3 DEF mine
  <1> QED  BY <1>1, <1>2, <1>4, <1>5, ElsewhereKeeps

LEMMA ReaderLimits ==
  ASSUME Limits, Inv', NEW p \in Procs,
         (\E n, t : Reject(p, n, t)) \/ DiscardFails(p) \/ Start(p)
  PROVE  Limits'
  <1> USE DEF Limits, Inv, Shapes
  <1>1. UNCHANGED <<disk, seen, known, total, clearing, queue, unseen, stuck>>
        /\ pc'[p] \notin {"write", "remove"}
        /\ \A q \in Procs \ {p} : pc'[q] = pc[q]
    BY DEF Reject, DiscardFails, Start, Goto, world, memory, pass
  <1>2. MoreShapes'  BY <1>1 DEF MoreShapes, Files
  <1>3. \A q \in Procs \ {p} : UNCHANGED mine(q)  BY <1>1 DEF mine
  <1> QED  BY <1>1, <1>2, <1>3, ElsewhereKeeps

\* What Discard leaves: fewer files, and a count that is right if it was.
LEMMA DiscardLeaves ==
  ASSUME Limits, NEW p \in Procs, NEW n \in Names, Discard(p, n)
  PROVE  /\ disk' = [disk EXCEPT ![n] = NoFile]
         /\ seen' = [seen EXCEPT ![p][n] = NothingSeen[n]]
         /\ total' \in [Procs -> Int]
         /\ \A q \in Procs \ {p} : total'[q] = total[q] /\ seen'[q] = seen[q]
         /\ known[p] /\ total[p] = Bytes(seen[p], Names)
              => total'[p] = Bytes(seen[p], Names)'
  <1> USE DEF Limits, Inv, Shapes
  <1>1. /\ disk' = [disk EXCEPT ![n] = NoFile]
        /\ seen' = [seen EXCEPT ![p][n] = NothingSeen[n]]
        /\ total' = [total EXCEPT ![p] = IF known[p] THEN Counted(p, n, 0) ELSE @]
    BY DEF Discard
  <1>2. seen[p] \in [Names -> SeenFile] /\ NothingSeen[n] \in SeenFile /\ NothingSeen[n].size = 0
    BY DEF NothingSeen, SeenFile
  <1>3. seen[p][n].size \in Nat  BY <1>2 DEF SeenFile
  <1>4. total[p] \in Int /\ Counted(p, n, 0) = total[p] - seen[p][n].size
    BY <1>3 DEF MoreShapes, Counted
  <1>5. total' \in [Procs -> Int]  BY <1>1, <1>3, <1>4 DEF MoreShapes
  <1>6. \A q \in Procs \ {p} : total'[q] = total[q] /\ seen'[q] = seen[q]
    BY <1>1 DEF MoreShapes
  <1>7. seen'[p] = [seen[p] EXCEPT ![n] = NothingSeen[n]]  BY <1>1
  <1>8. Bytes(seen'[p], Names) = Bytes(seen[p], Names) + 0 - seen[p][n].size
    BY <1>2, <1>7, BytesChange
  <1>9. Bytes(seen[p], Names)' = Bytes(seen'[p], Names)  BY DEF Bytes
  <1>10. known[p] => total'[p] = total[p] - seen[p][n].size
    BY <1>1, <1>4 DEF MoreShapes
  <1>11. Bytes(seen[p], Names) \in Nat  BY BytesKnown
  <1>12. known[p] /\ total[p] = Bytes(seen[p], Names) => total'[p] = Bytes(seen[p], Names)'
    BY <1>3, <1>8, <1>9, <1>10, <1>11
  <1> QED  BY <1>1, <1>5, <1>6, <1>12

LEMMA DiscardRejectedLimits ==
  ASSUME Limits, Inv', NEW p \in Procs, DiscardRejected(p)
  PROVE  Limits'
  <1> USE DEF Limits, Inv, Shapes
  <1>1. doomed[p] \in Names /\ Discard(p, doomed[p])
        /\ UNCHANGED <<known, clearing, queue, unseen, stuck>> /\ pc'[p] = "idle"
        /\ \A q \in Procs \ {p} : pc'[q] = pc[q]
    BY DEF KnowsDoomed, DiscardRejected, Goto
  <1>2. \A n \in Names : disk'[n] = disk[n] \/ disk'[n] = NoFile  BY <1>1, DiscardLeaves
  <1>3. MoreShapes'
    <2>1. total' \in [Procs -> Int]  BY <1>1, DiscardLeaves
    <2>2. \A n \in Files' : n \in Files /\ disk'[n] = disk[n]  BY <1>2 DEF Files
    <2> QED  BY <1>1, <2>1, <2>2 DEF MoreShapes
  <1>4. \A q \in Procs \ {p} : UNCHANGED mine(q)  BY <1>1, DiscardLeaves DEF mine
  <1> QED  BY <1>1, <1>2, <1>3, <1>4, ElsewhereKeeps

\* Another process is not at the files of a process that holds the lock.
LEMMA OnlyHolder ==
  ASSUME Limits, NEW p \in Procs, pc[p] \in {"load", "read", "write", "remove"},
         NEW q \in Procs \ {p}
  PROVE  pc[q] \notin {"write", "remove"}
  BY DEF Limits, Inv, HoldsLock

\* What is looked at is counted; what a clear found is to be removed.
LEMMA LoadedLimits ==
  ASSUME Limits, Inv', NEW p \in Procs, Loaded(p)
  PROVE  Limits'
  <1> USE DEF Limits, Inv, Shapes, Loaded, Goto, world
  <1>1. total' \in [Procs -> Int] /\ queue' \in [Procs -> SUBSET Names]
    <2>1. Bytes(seen[p], SeenNames(p)) \in Nat  BY BytesKnown
    <2>2. SeenNames(p) \in SUBSET Names  BY DEF SeenNames
    <2> QED  BY <2>1, <2>2 DEF MoreShapes, ToClear
  <1>2. MoreShapes'  BY <1>1 DEF MoreShapes, Files
  <1>3. ASSUME NEW q \in Procs \ {p} PROVE Removing(q)' /\ Counting(q)'
    <2>1. UNCHANGED mine(q)  BY DEF mine, MoreShapes
    <2> QED  BY <2>1, OthersKeep
  <1>4. Removing(p)'
    <2>1. SeenNames(p)' = SeenNames(p)  BY DEF SeenNames
    <2>2. \A n \in Files \ unseen[p] : seen[p][n] = Sight(disk[n])  BY DEF Looked
    <2> QED  BY <2>1, <2>2 DEF Removing, ToClear, MoreShapes, Files
  <1>5. Counting(p)'
    <2>1. pc'[p] = "write" => total'[p] = Bytes(seen[p], Names) /\ ~clearing[p]
      BY BytesKnown DEF MoreShapes
    <2>2. Bytes(seen[p], Names)' = Bytes(seen[p], Names)  BY DEF Bytes
    <2>3. ~clearing'[p] => pc'[p] = "write" /\ known'[p]  OBVIOUS
    <2> QED  BY <2>1, <2>2, <2>3 DEF Counting
  <1> QED  BY <1>2, <1>3, <1>4, <1>5

\* A file written is counted for the one it replaces.
LEMMA WriteLimits ==
  ASSUME Limits, Inv', NEW p \in Procs, NEW n \in Names, NEW z \in Sizes, Write(p, n, z)
  PROVE  Limits'
  <1> USE DEF Limits, Inv, Shapes
  <1> DEFINE e == [created |-> began[p], ends |-> began[p] + Ttl[p], size |-> z]
             x == [created |-> began[p], size |-> z]
  <1>1. /\ disk' = [disk EXCEPT ![n] = e] /\ seen' = [seen EXCEPT ![p][n] = x]
        /\ total' = [total EXCEPT ![p] = Counted(p, n, z)]
        /\ unseen' = [unseen EXCEPT ![p] = @ \ {n}]
        /\ UNCHANGED <<pc, known, clearing, queue, stuck>> /\ pc[p] = "write"
    BY DEF Write
  <1>2. x \in SeenFile /\ x.size = z /\ z \in Nat /\ z > 0 /\ e.size = z
    BY ScoreCacheAssumption DEF SeenFile
  <1> HIDE DEF e, x
  <1>3. seen[p] \in [Names -> SeenFile] /\ seen[p][n].size \in Nat  BY DEF SeenFile
  <1>4. Counted(p, n, z) = total[p] + z - seen[p][n].size /\ total[p] \in Int
    BY DEF Counted, MoreShapes
  <1>5. total' \in [Procs -> Int]  BY <1>1, <1>2, <1>3, <1>4 DEF MoreShapes
  <1>6. MoreShapes'
    <2>1. \A m \in Files' : disk'[m].size > 0
      BY <1>1, <1>2 DEF Files, MoreShapes
    <2> QED  BY <1>1, <1>5, <2>1 DEF MoreShapes
  <1>7. ASSUME NEW q \in Procs \ {p} PROVE Removing(q)' /\ Counting(q)'
    <2>1. pc'[q] \notin {"write", "remove"}  BY <1>1, OnlyHolder
    <2> QED  BY <2>1 DEF Removing, Counting
  <1>8. Removing(p)'  BY <1>1 DEF Removing
  <1>9. Counting(p)'
    <2>1. seen'[p] = [seen[p] EXCEPT ![n] = x]  BY <1>1
    <2> DEFINE f == [seen[p] EXCEPT ![n] = x]
    <2>5. Bytes(f, Names) = Bytes(seen[p], Names) + x.size - seen[p][n].size
      BY <1>2, <1>3, BytesChange
    <2> HIDE DEF f
    <2>2. Bytes(seen'[p], Names) = Bytes(seen[p], Names) + z - seen[p][n].size
      BY <1>2, <2>1, <2>5 DEF f
    <2>3. Bytes(seen[p], Names)' = Bytes(seen'[p], Names)  BY DEF Bytes
    <2>4. total'[p] = total[p] + z - seen[p][n].size  BY <1>1, <1>4 DEF MoreShapes
    <2> QED  BY <1>1, <2>2, <2>3, <2>4 DEF Counting
  <1> QED  BY <1>6, <1>7, <1>8, <1>9

\* Writing is over, or has failed; everything known may be removed.
LEMMA WritesEndLimits ==
  ASSUME Limits, Inv', NEW p \in Procs,
         WriteFails(p) \/ (\E S \in SUBSET Shards : Restamp(p, S))
  PROVE  Limits'
  <1> USE DEF Limits, Inv, Shapes
  <1>1. UNCHANGED <<disk, seen, known, total, clearing, unseen, stuck>>
        /\ pc[p] = "write" /\ \A q \in Procs \ {p} : pc'[q] = pc[q]
    BY DEF WriteFails, Restamp, Goto, world, memory
  <1>2. \/ pc'[p] = "write" /\ queue' = queue
        \/ pc'[p] = "remove" /\ queue' = [queue EXCEPT ![p] = SeenNames(p)]
    BY DEF WriteFails, Restamp, Goto
  <1>3. queue' \in [Procs -> SUBSET Names]
    <2>1. SeenNames(p) \in SUBSET Names  BY DEF SeenNames
    <2>2. queue \in [Procs -> SUBSET Names]  BY DEF MoreShapes
    <2> QED  BY <1>2, <2>1, <2>2
  <1>4. MoreShapes'  BY <1>1, <1>3 DEF MoreShapes, Files
  <1>5. ASSUME NEW q \in Procs \ {p} PROVE Removing(q)' /\ Counting(q)'
    <2>1. UNCHANGED mine(q)  BY <1>1, <1>2 DEF mine, MoreShapes
    <2> QED  BY <1>1, <2>1, OthersKeep
  <1>6. Removing(p)'
    <2>1. \A n \in Files \ unseen[p] : seen[p][n] = Sight(disk[n])
      BY <1>1 DEF Looked, ReadAll
    <2>2. pc'[p] = "remove" => queue'[p] = SeenNames(p)  BY <1>2 DEF MoreShapes
    <2> QED  BY <1>1, <2>1, <2>2 DEF Removing, SeenNames, Files
  <1>7. Counting(p)'  BY <1>1 DEF Counting, Bytes
  <1> QED  BY <1>4, <1>5, <1>6, <1>7

\* A file removed is neither there nor known, and not counted.
LEMMA RemoveLimits ==
  ASSUME Limits, Inv', NEW p \in Procs, NEW n \in Names, Remove(p, n)
  PROVE  Limits'
  <1> USE DEF Limits, Inv, Shapes
  <1>1. /\ Discard(p, n) /\ pc[p] = "remove"
        /\ queue' = [queue EXCEPT ![p] = @ \ {n}]
        /\ UNCHANGED <<pc, known, clearing, unseen, stuck>>
    BY DEF Remove, Turn
  <1>2. \A m \in Names : disk'[m] = disk[m] \/ disk'[m] = NoFile  BY <1>1, DiscardLeaves
  <1>3. MoreShapes'
    <2>1. total' \in [Procs -> Int]  BY <1>1, DiscardLeaves
    <2>2. \A m \in Files' : m \in Files /\ disk'[m] = disk[m]  BY <1>2 DEF Files
    <2> QED  BY <1>1, <2>1, <2>2 DEF MoreShapes
  <1>4. ASSUME NEW q \in Procs \ {p} PROVE Removing(q)' /\ Counting(q)'
    <2>1. pc'[q] \notin {"write", "remove"}  BY <1>1, OnlyHolder
    <2> QED  BY <2>1 DEF Removing, Counting
  <1>5. Removing(p)'
    <2>0. disk' = [disk EXCEPT ![n] = NoFile]
          /\ seen' = [seen EXCEPT ![p][n] = NothingSeen[n]]
      BY <1>1, DiscardLeaves
    <2>1. \A m \in Names \ {n} : disk'[m] = disk[m] /\ seen'[p][m] = seen[p][m]  BY <2>0
    <2>2. disk'[n] = NoFile /\ seen'[p][n].size = 0  BY <2>0 DEF NothingSeen
    <2>3. \A m \in Files' \ unseen'[p] : seen'[p][m] = Sight(disk'[m])
      BY <1>1, <2>1, <2>2 DEF Removing, Files
    <2>4. SeenNames(p)' \subseteq SeenNames(p) \ {n}  BY <2>1, <2>2 DEF SeenNames
    <2>5. queue'[p] = queue[p] \ {n}  BY <1>1 DEF MoreShapes
    <2> QED  BY <1>1, <2>3, <2>4, <2>5 DEF Removing
  <1>6. Counting(p)'  BY <1>1, DiscardLeaves DEF Counting
  <1> QED  BY <1>3, <1>4, <1>5, <1>6

LEMMA RemoveFailsLimits ==
  ASSUME Limits, Inv', NEW p \in Procs, NEW n \in Names, RemoveFails(p, n)
  PROVE  Limits'
  <1> USE DEF Limits, Inv, Shapes
  <1>1. /\ queue' = [queue EXCEPT ![p] = @ \ {n}] /\ stuck' = [stuck EXCEPT ![p] = @ \cup {n}]
        /\ UNCHANGED <<disk, pc, seen, known, total, clearing, unseen>> /\ pc[p] = "remove"
    BY DEF RemoveFails, Turn, world, memory
  <1>2. MoreShapes'  BY <1>1 DEF MoreShapes, Files
  <1>3. ASSUME NEW q \in Procs \ {p} PROVE Removing(q)' /\ Counting(q)'
    <2>1. pc'[q] \notin {"write", "remove"}  BY <1>1, OnlyHolder
    <2> QED  BY <2>1 DEF Removing, Counting
  <1>4. Removing(p)'
    <2>1. queue'[p] \cup stuck'[p] = queue[p] \cup stuck[p] \cup {n}  BY <1>1 DEF MoreShapes
    <2> QED  BY <1>1, <2>1 DEF Removing, SeenNames, Files
  <1>5. Counting(p)'  BY <1>1 DEF Counting, Bytes
  <1> QED  BY <1>2, <1>3, <1>4, <1>5

\* Nothing is written at first, and nothing changes by itself.
LEMMA LimitsInitially == Init => Limits
  <1> SUFFICES ASSUME Init PROVE Limits  OBVIOUS
  <1>1. Inv  BY Initially
  <1>2. \A n \in Files : disk[n].size > 0  BY ScoreCacheAssumption DEF Init, Files
  <1>3. MoreShapes  BY <1>2 DEF Init, MoreShapes
  <1> QED  BY <1>1, <1>3 DEF Init, Limits, Removing, Counting

LEMMA LimitsStutter == ASSUME Limits, UNCHANGED vars PROVE Limits'
  <1> USE DEF Limits, vars, world, memory, pass
  <1>1. Inv'  BY StutterStep
  <1>2. MoreShapes'  BY DEF MoreShapes, Files
  <1>3. ASSUME NEW q \in Procs PROVE Removing(q)' /\ Counting(q)'
    <2>1. UNCHANGED mine(q)  BY DEF mine
    <2> QED  BY <2>1, OthersKeep
  <1> QED  BY <1>1, <1>2, <1>3

\* What bounds the bytes of the shards holds in every reachable state.
THEOREM LimitsInvariance == Spec => []Limits
<1>1. Limits /\ Inv' /\ [Next]_vars => Limits'
  <2> SUFFICES ASSUME Limits, Inv', Next PROVE Limits'
    BY LimitsStutter
  <2> PICK p \in Procs : Step(p)
    BY DEF Next
  <2>1. CASE Pass(p) \/ BeginClear(p) \/ WriteRefused(p) \/ ClearRefused(p)
    BY <2>1, BeginsLimits DEF Pass
  <2>2. CASE \/ \E s \in Shards : Stamp(p, s) \/ StampFails(p, s)
             \/ \E lost \in SUBSET Files : \E sized \in SUBSET lost : ReadShard(p, lost, sized)
             \/ ReadShardFails(p)
    BY <2>2, ReadsLimits
  <2>3. CASE \/ Loaded(p) \/ WriteFails(p) \/ \E n \in Names, z \in Sizes : Write(p, n, z)
             \/ \E S \in SUBSET Shards : Restamp(p, S)
    BY <2>3, LoadedLimits, WriteLimits, WritesEndLimits
  <2>4. CASE \E n \in Names : Remove(p, n) \/ RemoveFails(p, n)
    BY <2>4, RemoveLimits, RemoveFailsLimits
  <2>5. CASE \/ \E n \in Names, t \in Times : Reject(p, n, t)
             \/ DiscardRejected(p) \/ DiscardFails(p) \/ Start(p)
    BY <2>5, ReaderLimits, DiscardRejectedLimits
  <2>6. CASE Release(p) \/ Die(p)
    BY <2>6, EndsLimits
  <2> QED
    BY <2>1, <2>2, <2>3, <2>4, <2>5, <2>6 DEF Step
<1> QED  BY <1>1, LimitsInitially, Invariance, PTL DEF Spec

\* What is counted is no less than what is there.
LEMMA CountCovers ==
  ASSUME Limits, NEW p \in Procs, pc[p] = "remove"
  PROVE  /\ Files \ unseen[p] \subseteq SeenNames(p)
         /\ Bytes(disk, Files \ unseen[p]) <= Bytes(seen[p], Names)
  <1> USE DEF Limits, Inv, Shapes
  <1> DEFINE S == Files \ unseen[p]
             f == [n \in Names |-> seen[p][n].size]
             e == [n \in S |-> disk[n].size]
  <1>1. IsFiniteSet(Names) /\ S \in SUBSET Names  BY ScoreCacheAssumption DEF Files
  <1>2. ASSUME NEW n \in S PROVE seen[p][n].size = disk[n].size
    <2>1. seen[p][n] = Sight(disk[n])  BY DEF Removing
    <2> QED  BY <2>1 DEF Sight
  <1>3. S \subseteq SeenNames(p)  BY <1>2 DEF SeenNames, MoreShapes, Files
  <1>4. \A n \in Names : f[n] \in Nat  BY DEF SeenFile
  <1>5. \A n \in S : e[n] = f[n] /\ e[n] \in Int  BY <1>1, <1>2, <1>4
  <1>6. Bytes(disk, S) = SumFunctionOnSet(e, S)
        /\ Bytes(seen[p], Names) = SumFunctionOnSet(f, Names)
    BY DEF Bytes
  <1> HIDE DEF S, f, e
  <1>7. IsFiniteSet(S)  BY <1>1, FS_Subset
  <1>8. SumFunctionOnSet(e, S) = SumFunctionOnSet(f, S)  BY <1>5, <1>7, SumAgree
  <1>9. SumFunctionOnSet(f, S) <= SumFunctionOnSet(f, Names)  BY <1>1, <1>4, SumMonotone
  <1>10. Bytes(disk, S) <= Bytes(seen[p], Names)  BY <1>6, <1>8, <1>9
  <1> QED  BY <1>3, <1>10 DEF S

\* When a pass of writes ends the directory is within its limit, for all the process
\* could look at and remove (#evict in the finally of writeMany).
THEOREM LimitIsKept == Spec => []WithinLimit
<1>1. Limits => WithinLimit
  <2> SUFFICES ASSUME Limits, NEW p \in Procs, Done(p), ~clearing[p], stuck[p] = {}
               PROVE  Bytes(disk, Files \ unseen[p]) <= MaxBytes
    BY DEF WithinLimit
  <2> USE DEF Limits
  <2>0. pc[p] = "remove"  BY DEF Done
  <2>1. total[p] = Bytes(seen[p], Names) /\ Bytes(seen[p], Names) \in Nat
    BY <2>0, BytesKnown DEF Counting
  <2>2. CASE ~Needed(p)
    <3>1. Bytes(disk, Files \ unseen[p]) <= total[p]  BY <2>0, <2>1, CountCovers
    <3>2. Bytes(disk, Files \ unseen[p]) \in Nat
      <4> DEFINE S == Files \ unseen[p]
                 e == [n \in S |-> disk[n].size]
      <4>1. S \in SUBSET Names /\ IsFiniteSet(Names)  BY ScoreCacheAssumption DEF Files
      <4>2. \A n \in S : e[n] \in Nat  BY <4>1 DEF Inv, Shapes, DiskFile
      <4> HIDE DEF e
      <4>3. IsFiniteSet(S)  BY <4>1, FS_Subset
      <4>4. SumFunctionOnSet(e, S) \in Nat  BY <4>2, <4>3, SumType
      <4> QED  BY <4>4 DEF Bytes, e
    <3> QED  BY <2>1, <2>2, <3>1, <3>2, ScoreCacheAssumption DEF Needed
  <2>3. CASE queue[p] = {}
    <3>1. SeenNames(p) = {}  BY <2>0, <2>3 DEF Removing
    <3>2. Files \ unseen[p] = {}  BY <2>0, <3>1, CountCovers
    <3>3. Bytes(disk, {}) = 0  BY SumEmpty DEF Bytes
    <3> QED  BY <3>2, <3>3, ScoreCacheAssumption
  <2> QED  BY <2>2, <2>3 DEF Done
<1> QED  BY <1>1, LimitsInvariance, PTL

\* When a clear ends, nothing it could look at and remove is left (clear).
THEOREM ClearLeavesNothing == Spec => []ClearedAll
<1>1. Limits => ClearedAll
  <2> SUFFICES ASSUME Limits, NEW p \in Procs, Done(p), clearing[p]
               PROVE  Files \subseteq unseen[p] \cup stuck[p]
    BY DEF ClearedAll
  <2>1. pc[p] = "remove" /\ queue[p] = {}  BY DEF Done
  <2>2. SeenNames(p) \subseteq stuck[p]  BY <2>1 DEF Limits, Removing
  <2> QED  BY <2>1, <2>2, CountCovers
<1> QED  BY <1>1, LimitsInvariance, PTL
=============================================================================
