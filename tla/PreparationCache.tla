--------------------------- MODULE PreparationCache ---------------------------
(***************************************************************************)
(* The preparation cache (src/source/preparation-cache.ts) and the content *)
(* stage that uses it (src/source/prepare.ts: prepareWithCache,            *)
(* prepareContent, and the jobs handed to the worker pool).                *)
(*                                                                         *)
(* One process prepares files, is restarted as another version, and shares *)
(* the stored entries with other processes: of theirs it sees that entries *)
(* come, change, go, or no longer parse.  An entry is one mutable object:  *)
(* `heap` holds them, and the memory map, the dirty map and the jobs ahead *)
(* refer to them.  A chunk record is its last line: one that fits the file *)
(* gives the boundaries its chunker and limits give.                       *)
(*                                                                         *)
(* The maps keep their keys in order, so that each is a sequence of named  *)
(* elements, of which no two have one name.                                *)
(***************************************************************************)
EXTENDS Integers, SequencesExt

CONSTANTS
  Files,
  Content,     \* the bytes of each file, as their hash
  Identity,    \* the chunker of each file
  VerdictOf,   \* VerdictOf[v][c]: what the content checks of version v say of bytes c
  Lines,       \* how many lines they have
  Versions,    \* the versions of scanner, counter and limits, as numbers
  MaxMemory,   \* MAX_MEMORY_ENTRIES
  MaxStored,   \* maxBytes of the stored entries
  Depth,       \* how many files are read ahead
  MaxEvents,   \* a bound: restarts, searches, and what others do to the store
  None

Contents   == {Content[f] : f \in Files}
Identities == {Identity[f] : f \in Files}
Verdicts   == {"ok"} \cup {VerdictOf[v][c] : v \in Versions, c \in Contents}

\* Entries (isPreparationEntry): each part with the version that computed it.
Entries ==
  [sha256 : Contents,
   scan   : {None} \cup [version : Versions, verdict : Verdicts],
   tokens : {None} \cup [counter : Versions, lines : Nat],
   chunks : SUBSET [key : Identities \X Versions, by : Identities \X Versions, last : Nat]]

ASSUME CacheAssumption ==
  /\ IsFiniteSet(Files)
  /\ Lines \in [Contents -> Nat]
  /\ MaxMemory \in Nat
  /\ None \notin Entries \cup [version : Versions, verdict : Verdicts] \cup [counter : Versions, lines : Nat]

VARIABLES
  config,   \* [version, enabled, depth]: SCANNER_VERSION with the counter and the
            \* limits, whether the cache is enabled, how many files are read ahead
  cache,    \* [heap, memory, dirty, disk, ref]: the last is what get returned
  todo,     \* the files still to read
  ahead,    \* the files read, in order, each with its job
  stage,    \* "run", "rebuild", "flush", "evict", "clear" or "idle"
  pending,  \* the dirty entries a flush still has to write
  listed,   \* [entries, total]: the stored entries an eviction or a clear still has
            \* to look at, and the size of what it believes is stored
  outcomes, \* what the search made of each file
  log,      \* history, of a process or since it cleared its cache: [unsaved: what updates
            \* recorded and no flush has come to, updated: the entries they updated,
            \* rejected: the bytes of which an entry was rejected]
  events

cacheVars == <<config, cache, todo, ahead, stage, pending, listed, outcomes, log, events>>

-----------------------------------------------------------------------------
(* Entries.                                                                *)

EmptyEntry(c) == [sha256 |-> c, scan |-> None, tokens |-> None, chunks |-> {}]

Verdict(f)   == VerdictOf[config.version][Content[f]]
LinesOf(f)   == Lines[Content[f]]

\* Mutant of Key: the limits and versions are left out of the key.
KeyOfChunker(f) == <<Identity[f]>>

\* chunkKey: what split the file, under which limits and counter.
Key(f) == <<Identity[f], config.version>>

Recorded(e, f) == \E r \in e.chunks : r.key = Key(f)
Record(e, f)   == CHOOSE r \in e.chunks : r.key = Key(f)
Recording(e, f, last) ==
  [e EXCEPT !.chunks = {r \in @ : r.key # Key(f)}
                       \cup {[key |-> Key(f), by |-> <<Identity[f], config.version>>, last |-> last]}]

\* Mutant of Recording: the boundaries of other chunkers go.
RecordingAlone(e, f, last) ==
  [e EXCEPT !.chunks = {[key |-> Key(f), by |-> <<Identity[f], config.version>>, last |-> last]}]

\* The parts of an entry, each computed and invalidated on its own: its verdict, its line
\* counts, and the boundaries of each chunker; and what an update of it records.
Parts(e) ==
  {r.key : r \in e.chunks}
    \cup (IF e.scan = None THEN {} ELSE {<<"scan">>}) \cup (IF e.tokens = None THEN {} ELSE {<<"tokens">>})
Work(c, e) == {[name |-> c, part |-> p] : p \in Parts(e)}

NoLog == [unsaved |-> {}, updated |-> {}, rejected |-> {}]
Logged(c, ref, e) == [log EXCEPT !.unsaved = @ \cup Work(c, e), !.updated = @ \cup {[name |-> c, ref |-> ref]}]

\* What the content stage makes of a file on its own.
Fresh(f) == IF Verdict(f) = "ok" THEN [kind |-> "chunked", by |-> <<Identity[f], config.version>>]
            ELSE [kind |-> "excluded", reason |-> Verdict(f)]

Scanned(e, f) == [e EXCEPT !.scan = [version |-> config.version, verdict |-> Verdict(f)]]

Withholds(e) == e # None /\ e.scan # None /\ e.scan.version = config.version /\ e.scan.verdict # "ok"

\* prepareContent with an entry, or None: the outcome, the entry as it leaves it,
\* whether it changed it and whether it rejects it.
PrepareContent(f, e) ==
  LET badTokens == e # None /\ Verdict(f) # "binary" /\ e.tokens # None
                   /\ e.tokens.counter = config.version /\ e.tokens.lines # LinesOf(f)
      scanned   == IF e = None THEN None ELSE Scanned(e, f)
      badRecord == e # None /\ Recorded(e, f) /\ (badTokens \/ Record(e, f).last > LinesOf(f))
      reused    == e # None /\ Recorded(e, f) /\ ~badRecord
      measured  == [counter |-> config.version, lines |-> LinesOf(f)]
      final     == [(IF reused THEN scanned ELSE Recording(scanned, f, LinesOf(f))) EXCEPT !.tokens = measured]
  IN IF Withholds(e)
     THEN [outcome |-> [kind |-> "excluded", reason |-> e.scan.verdict],
           entry |-> e, changed |-> FALSE, rejected |-> FALSE]
     ELSE IF e = None
     THEN [outcome |-> Fresh(f), entry |-> None, changed |-> FALSE, rejected |-> FALSE]
     ELSE IF Verdict(f) # "ok"
     THEN [outcome |-> Fresh(f), entry |-> scanned, changed |-> TRUE, rejected |-> badTokens]
     ELSE [outcome |-> [Fresh(f) EXCEPT !.by = IF reused THEN Record(e, f).by ELSE @],
           entry |-> final, changed |-> final # e, rejected |-> badTokens \/ badRecord]

-----------------------------------------------------------------------------
(* The cache: a state in, the states it may lead to out.                   *)

Has(s, c)     == \E i \in DOMAIN s : s[i].name = c
Place(s, c)   == CHOOSE i \in DOMAIN s : s[i].name = c
Find(s, c)    == s[Place(s, c)]
Without(s, c) == IF Has(s, c) THEN RemoveAt(s, Place(s, c)) ELSE s

\* The oldest of the remembered entries are forgotten.
Remember(memory, c, ref) ==
  LET all == Append(Without(memory, c), [name |-> c, ref |-> ref])
  IN IF Len(all) > MaxMemory THEN Tail(all) ELSE all

Allocate(s, e) == [s EXCEPT !.heap = Append(@, e), !.ref = Len(s.heap) + 1]

\* Removing a stored entry may fail, and is then only counted.
Discards(s, c) == {s, [s EXCEPT !.disk = Without(@, c)]}

\* get: the remembered entry, the stored one, or an empty one that nothing remembers.
Lookups(s, c) ==
  IF Has(s.memory, c)
  THEN LET ref == Find(s.memory, c).ref IN {[s EXCEPT !.memory = Remember(@, c, ref), !.ref = ref]}
  ELSE {Allocate(s, EmptyEntry(c))} \cup  \* missing, or the read fails
       IF ~Has(s.disk, c) THEN {}
       ELSE IF Find(s.disk, c).entry = None
       THEN {Allocate(d, EmptyEntry(c)) : d \in Discards(s, c)}
       ELSE LET a == Allocate(s, Find(s.disk, c).entry)
            IN {[a EXCEPT !.memory = Remember(@, c, a.ref)]}

\* An entry already dirty keeps its place.
Update(s, c, ref) ==
  [s EXCEPT !.memory = Remember(@, c, ref),
            !.dirty  = IF Has(@, c) THEN [@ EXCEPT ![Place(@, c)] = [name |-> c, ref |-> ref]]
                       ELSE Append(@, [name |-> c, ref |-> ref])]

Rejects(s, c) == Discards([s EXCEPT !.memory = Without(@, c), !.dirty = Without(@, c)], c)

-----------------------------------------------------------------------------
(* The preparation loop.                                                   *)

\* submitToPool gives the worker no file whose chunks, or whose exclusion, are known.
WorkNeeded(e, f) == ~Recorded(e, f) /\ ~Withholds(e)

\* A worker computes the entry of a file from nothing, one that does not fit, or
\* none that arrives.
IllFitting(f) == Recording([EmptyEntry(Content[f]) EXCEPT !.tokens = [counter |-> config.version, lines |-> LinesOf(f) + 1]],
                           f, LinesOf(f) + 1)
Computed(f)   == {None, PrepareContent(f, EmptyEntry(Content[f])).entry, IllFitting(f)}

ReadAhead ==
  /\ stage = "run" /\ todo # <<>> /\ Len(ahead) < config.depth
  /\ LET f == Head(todo)
         put(ref, c) == ahead' = Append(ahead, [file |-> f, cached |-> ref, computed |-> c])
     IN IF config.depth = 1 THEN put(0, None) /\ UNCHANGED cache
        ELSE IF ~config.enabled THEN (\E c \in Computed(f) : put(0, c)) /\ UNCHANGED cache
        ELSE \E s \in Lookups(cache, Content[f]) :
               /\ cache' = s
               /\ IF WorkNeeded(s.heap[s.ref], f) THEN \E c \in Computed(f) : put(s.ref, c)
                  ELSE put(0, None)
  /\ todo' = Tail(todo)
  /\ UNCHANGED <<config, stage, pending, listed, outcomes, log, events>>

\* What a worker computed fills the gaps of the entry it was computed for.
Seeded(e, c) ==
  [e EXCEPT !.scan   = IF @ = None THEN c.scan ELSE @,
            !.tokens = IF @ = None THEN c.tokens ELSE @,
            !.chunks = @ \cup {r \in c.chunks : \A own \in @ : own.key # r.key}]

\* The turn of a file comes once as many as fit are read ahead.
ReadyToRun == stage = "run" /\ ahead # <<>> /\ (todo = <<>> \/ Len(ahead) = config.depth)

Turn ==
  /\ ReadyToRun
  /\ LET job == Head(ahead)
         f   == job.file
         c   == Content[f]
     IN IF ~config.enabled
        THEN LET r == PrepareContent(f, job.computed)
             IN /\ outcomes' = [outcomes EXCEPT ![f] =
                     IF r.rejected \/ r.changed THEN PrepareContent(f, None).outcome ELSE r.outcome]
                /\ stage' = stage /\ ahead' = Tail(ahead) /\ UNCHANGED <<cache, log>>
        ELSE \E s \in IF job.computed # None THEN {[cache EXCEPT !.ref = job.cached]} ELSE Lookups(cache, c) :
             LET e == IF job.computed # None THEN Seeded(s.heap[s.ref], job.computed) ELSE s.heap[s.ref]
                 r == PrepareContent(f, e)
                 kept == [s EXCEPT !.heap[s.ref] = r.entry]
             IN IF r.rejected
                THEN /\ cache' \in Rejects(kept, c)
                     /\ stage' = "rebuild" /\ log' = [log EXCEPT !.rejected = @ \cup {c}]
                     /\ UNCHANGED <<outcomes, ahead>>
                ELSE LET recorded == r.changed \/ e # s.heap[s.ref]
                     IN /\ cache' = IF recorded THEN Update(kept, c, s.ref) ELSE kept
                        /\ log' = IF recorded THEN Logged(c, s.ref, r.entry) ELSE log
                        /\ outcomes' = [outcomes EXCEPT ![f] = r.outcome]
                        /\ stage' = stage /\ ahead' = Tail(ahead)
  /\ UNCHANGED <<config, todo, pending, listed, events>>

\* An entry that does not fit its bytes is dropped and rebuilt.
Rebuild ==
  /\ stage = "rebuild"
  /\ LET f == Head(ahead).file
         c == Content[f]
     IN \E s \in Lookups(cache, c) :
        LET r == PrepareContent(f, s.heap[s.ref])
            kept == [s EXCEPT !.heap[s.ref] = r.entry]
            recorded == r.changed /\ ~r.rejected
        IN /\ cache' = IF recorded THEN Update(kept, c, s.ref) ELSE kept
           /\ log' = IF recorded THEN Logged(c, s.ref, r.entry) ELSE log
           /\ outcomes' = [outcomes EXCEPT ![f] = r.outcome]
  /\ stage' = "run" /\ ahead' = Tail(ahead)
  /\ UNCHANGED <<config, todo, pending, listed, events>>

PreparationEnds ==
  /\ stage = "run" /\ todo = <<>> /\ ahead = <<>>
  /\ stage' = IF config.enabled /\ cache.dirty # <<>> THEN "flush" ELSE "idle"
  /\ pending' = IF config.enabled THEN cache.dirty ELSE <<>>
  /\ UNCHANGED <<config, cache, todo, ahead, listed, outcomes, log, events>>

-----------------------------------------------------------------------------
(* flush, under the writer lock.                                           *)

SizeOf(m)   == IF m.entry = None THEN 1 ELSE 1 + Cardinality(m.entry.chunks)
Listing(disk) ==
  [entries |-> [i \in DOMAIN disk |-> [name |-> disk[i].name, size |-> SizeOf(disk[i])]],
   total   |-> FoldLeft(LAMBDA sum, m : sum + SizeOf(m), 0, disk)]
NoListing == [entries |-> <<>>, total |-> 0]

\* Each write may fail, and then the rest is not tried; an entry too large is left out.
FlushWrite ==
  /\ stage = "flush" /\ pending # <<>>
  /\ LET new == [name |-> Head(pending).name, entry |-> cache.heap[Head(pending).ref]]
     IN /\ cache' = IF SizeOf(new) > MaxStored THEN cache
                    ELSE [cache EXCEPT !.disk = Append(Without(@, new.name), new)]
        /\ log' = [log EXCEPT !.unsaved = @ \ Work(new.name, new.entry)]
  /\ pending' = Tail(pending)
  /\ UNCHANGED <<config, todo, ahead, stage, listed, outcomes, events>>

\* Mutant of FlushFails: what could not be written is dirty no more.
FlushFailsClean ==
  /\ stage \in {"flush", "evict"}
  /\ stage' = "idle" /\ pending' = <<>> /\ listed' = NoListing
  /\ cache' = [cache EXCEPT !.dirty = <<>>]
  /\ UNCHANGED <<config, todo, ahead, outcomes, log, events>>

\* The lock, a write, the listing or the release fails: everything stays dirty.
FlushFails ==
  /\ stage \in {"flush", "evict"}
  /\ stage' = "idle" /\ pending' = <<>> /\ listed' = NoListing
  /\ UNCHANGED <<config, cache, todo, ahead, outcomes, log, events>>

\* All is written, and what is stored is listed, oldest first.
Evict ==
  /\ stage = "flush" /\ pending = <<>>
  /\ stage' = "evict" /\ listed' = Listing(cache.disk)
  /\ UNCHANGED <<config, cache, todo, ahead, pending, outcomes, log, events>>

\* clear: first what is in memory; then, unless the lock is busy, what is stored.
Clear ==
  /\ stage = "idle" /\ config.enabled /\ events < MaxEvents /\ events' = events + 1
  /\ cache' = [cache EXCEPT !.memory = <<>>, !.dirty = <<>>]
  /\ \/ stage' = "clear" /\ listed' = Listing(cache.disk)
     \/ UNCHANGED <<stage, listed>>
  /\ log' = NoLog
  /\ UNCHANGED <<config, todo, ahead, pending, outcomes>>

\* An eviction goes on until the rest fits, a clear to the end.
Removing ==
  /\ listed.entries # <<>>
  /\ \/ stage = "evict" /\ listed.total > MaxStored
     \/ stage = "clear"

\* A listed entry is removed, or cannot be, or is no longer there.
Discard ==
  /\ Removing
  /\ LET m == Head(listed.entries)
     IN \E gone \in {FALSE, Has(cache.disk, m.name)} :
          /\ cache'  = IF gone THEN [cache EXCEPT !.disk = Without(@, m.name)] ELSE cache
          /\ listed' = [entries |-> Tail(listed.entries),
                        total   |-> listed.total - IF gone THEN m.size ELSE 0]
  /\ UNCHANGED <<config, todo, ahead, stage, pending, outcomes, log, events>>

RemovalEnds ==
  /\ stage \in {"evict", "clear"} /\ ~Removing
  /\ stage' = "idle" /\ listed' = NoListing /\ cache' = [cache EXCEPT !.dirty = <<>>]
  /\ UNCHANGED <<config, todo, ahead, pending, outcomes, log, events>>

-----------------------------------------------------------------------------
(* Searches, restarts and the processes that share the store.              *)

Configs == [version : Versions, enabled : BOOLEAN, depth : {1, Depth}]

SearchFrom(c) ==
  /\ cache' = c
  /\ todo' = SetToSeq(Files) /\ ahead' = <<>> /\ stage' = "run"
  /\ pending' = <<>> /\ listed' = NoListing
  /\ outcomes' = [f \in Files |-> None]

SearchAgain ==
  /\ stage = "idle" /\ events < MaxEvents /\ events' = events + 1
  /\ SearchFrom(cache)
  /\ UNCHANGED <<config, log>>

Restart ==
  /\ events < MaxEvents /\ events' = events + 1
  /\ config' \in Configs /\ log' = NoLog
  /\ SearchFrom([cache EXCEPT !.heap = <<>>, !.memory = <<>>, !.dirty = <<>>, !.ref = 0])

\* What version v may have stored for a content, and entries that lie: of other
\* bytes, or "ok" for content that is not.
Foreign(f, v) ==
  {[sha256 |-> Content[f], scan |-> [version |-> v, verdict |-> w], tokens |-> [counter |-> v, lines |-> n],
    chunks |-> {[key |-> <<Identity[f], v>>, by |-> <<Identity[f], v>>, last |-> n]}] :
      w \in {"ok", VerdictOf[v][Content[f]]}, n \in {LinesOf(f), LinesOf(f) + 1}}

Others ==
  /\ events < MaxEvents /\ events' = events + 1
  /\ \E f \in Files :
       LET rest == Without(cache.disk, Content[f])
       IN cache' \in {[cache EXCEPT !.disk = d] :
            d \in {rest} \cup {Append(rest, [name |-> Content[f], entry |-> e]) : e \in {None} \cup UNION {Foreign(f, v) : v \in Versions}}}
  /\ UNCHANGED <<config, todo, ahead, stage, pending, listed, outcomes, log>>

CacheInit ==
  /\ config \in Configs
  /\ cache = [heap |-> <<>>, memory |-> <<>>, dirty |-> <<>>, disk |-> <<>>, ref |-> 0]
  /\ todo = SetToSeq(Files) /\ ahead = <<>> /\ stage = "run"
  /\ pending = <<>> /\ listed = NoListing
  /\ outcomes = [f \in Files |-> None] /\ log = NoLog /\ events = 0

CacheNext ==
  \/ ReadAhead \/ Turn \/ Rebuild \/ PreparationEnds
  \/ FlushWrite \/ FlushFails \/ Evict \/ Clear \/ Discard \/ RemovalEnds
  \/ SearchAgain \/ Restart \/ Others

CacheSpec == CacheInit /\ [][CacheNext]_cacheVars

-----------------------------------------------------------------------------
(* Properties.                                                             *)

\* What the search makes of a file is what its bytes and the running version give
\* (prepare.ts:437-445: a cache entry can only withhold content, never release it):
\* no verdict or boundary of another version, of other bytes or of a worker that went
\* wrong reaches an outcome, whatever was stored, seeded, rejected or lost before.
OutcomeIsFresh == \A f \in Files : outcomes[f] \in {None, Fresh(f)}

\* What an update recorded is in the dirty entry of its bytes until a flush has written
\* that entry, or found it too large to store (preparation-cache.ts:242, :272): neither a flush that fails, nor the memory's
\* limit, nor what happens to other bytes, nor another file that shares the entry loses
\* any part of it.  Two ways to lose it the code does have: an entry of these bytes that
\* is rejected goes with all that files of these bytes recorded (:250), and of two entries
\* of the same bytes, made by jobs read ahead or after the memory forgot the first, the
\* one updated last replaces the other among the dirty (:246).
Kept(w) ==
  \E i \in DOMAIN cache.dirty :
    cache.dirty[i].name = w.name /\ w.part \in Parts(cache.heap[cache.dirty[i].ref])
Displaced(c) == \E m, n \in log.updated : m.name = c /\ n.name = c /\ m.ref # n.ref

RecordedIsKept == \A w \in log.unsaved : Kept(w) \/ w.name \in log.rejected \/ Displaced(w.name)
=============================================================================
