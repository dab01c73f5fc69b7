----------------------------- MODULE StorageProofs -----------------------------
(***************************************************************************)
(* Theorems about what is kept on disk between searches: the preparation   *)
(* cache (PreparationCache), for any files, contents, versions and bounds, *)
(* and the writer lock (WriteLock), for every set of processes and every   *)
(* number of attempts.  The two specifications share no variable.          *)
(*                                                                         *)
(* Of the cache: an entry is named by its content wherever it is held, and *)
(* all it says against that content is what the version that wrote it says *)
(* of it.  So an entry, of whatever origin, gives a file the outcome it    *)
(* would have without one (ContentStage), and this is kept by every        *)
(* operation on the heap and the maps that refer to it.                    *)
(***************************************************************************)
EXTENDS WriteLock, PreparationCache, SequenceTheorems, FiniteSetTheorems, TLAPS

-----------------------------------------------------------------------------
(* Sequences of named elements.                                            *)

\* A sequence's elements are in the set it is over.
LEMMA RangeIn ==
  ASSUME NEW S, NEW s \in Seq(S)
  PROVE  Range(s) \subseteq S
  BY ElementOfSeq, LenProperties DEF Range

\* What Append adds.
LEMMA RangeOfAppend ==
  ASSUME NEW S, NEW s \in Seq(S), NEW x \in S
  PROVE  Append(s, x) \in Seq(S) /\ Range(Append(s, x)) = Range(s) \cup {x}
  BY LenProperties DEF Range

\* What Tail leaves out.
LEMMA RangeOfTail ==
  ASSUME NEW S, NEW s \in Seq(S), s # <<>>
  PROVE  /\ Tail(s) \in Seq(S)
         /\ Head(s) \in Range(s)
         /\ Range(s) = Range(Tail(s)) \cup {Head(s)}
  <1>1. /\ Len(s) \in Nat /\ Len(s) >= 1 /\ DOMAIN s = 1 .. Len(s)
        /\ Tail(s) \in Seq(S) /\ Len(Tail(s)) = Len(s) - 1 /\ DOMAIN Tail(s) = 1 .. Len(s) - 1
        /\ Head(s) = s[1] /\ \A i \in 1 .. Len(s) - 1 : Tail(s)[i] = s[i + 1]
    BY LenProperties, HeadTailProperties, EmptySeq
  <1>2. Head(s) \in Range(s)  BY <1>1 DEF Range
  <1>3. Range(Tail(s)) \subseteq Range(s)  BY <1>1 DEF Range
  <1>4. ASSUME NEW i \in DOMAIN s PROVE s[i] \in Range(Tail(s)) \cup {Head(s)}
    <2>1. CASE i = 1  BY <2>1, <1>1
    <2>2. CASE i # 1
      <3>1. i - 1 \in DOMAIN Tail(s) /\ Tail(s)[i - 1] = s[i]  BY <1>1, <2>2
      <3> QED  BY <3>1 DEF Range
    <2> QED  BY <2>1, <2>2
  <1> QED  BY <1>1, <1>2, <1>3, <1>4 DEF Range

\* What taking out the element at one place leaves.
LEMMA RangeOfRemoveAt ==
  ASSUME NEW S, NEW s \in Seq(S), NEW p \in DOMAIN s
  PROVE  /\ RemoveAt(s, p) \in Seq(S)
         /\ Range(RemoveAt(s, p)) \subseteq Range(s)
         /\ \A m \in Range(s) : m # s[p] => m \in Range(RemoveAt(s, p))
  <1> DEFINE before == SubSeq(s, 1, p - 1)
             after  == SubSeq(s, p + 1, Len(s))
             t      == before \o after
  <1>1. Len(s) \in Nat /\ DOMAIN s = 1 .. Len(s) /\ p \in 1 .. Len(s)  BY LenProperties
  <1>2. before \in Seq(S) /\ Len(before) = p - 1 /\ \A i \in 1 .. p - 1 : before[i] = s[i]
    BY <1>1, SubSeqProperties
  <1>3. /\ after \in Seq(S) /\ Len(after) = Len(s) - p
        /\ \A i \in 1 .. Len(s) - p : after[i] = s[p + i]
    BY <1>1, SubSeqProperties
  <1>0. t = RemoveAt(s, p)  BY DEF RemoveAt
  <1> HIDE DEF before, after
  <1>8. /\ t \in Seq(S) /\ Len(t) = Len(s) - 1
        /\ \A i \in 1 .. Len(s) - 1 : t[i] = IF i <= p - 1 THEN before[i] ELSE after[i - (p - 1)]
    <2>1. /\ t \in Seq(S) /\ Len(t) = Len(before) + Len(after)
          /\ \A i \in 1 .. Len(before) + Len(after) :
               t[i] = IF i <= Len(before) THEN before[i] ELSE after[i - Len(before)]
      <3>1. before \in Seq(S) /\ after \in Seq(S)  BY <1>2, <1>3
      <3> QED  BY <3>1, ConcatProperties, Zenon
    <2>2. Len(before) + Len(after) = Len(s) - 1  BY <1>1, <1>2, <1>3
    <2> HIDE DEF t
    <2> QED  BY <2>1, <2>2, <1>2
  <1> HIDE DEF t
  <1>9. DOMAIN t = 1 .. Len(s) - 1  BY <1>8, LenProperties
  <1>10. ASSUME NEW i \in 1 .. Len(s) - 1 PROVE t[i] = IF i < p THEN s[i] ELSE s[i + 1]
    <2>1. CASE i < p  BY <1>1, <1>2, <1>8, <2>1
    <2>2. CASE ~(i < p)
      <3>1. i - (p - 1) \in 1 .. Len(s) - p  BY <1>1, <2>2
      <3>2. after[i - (p - 1)] = s[p + (i - (p - 1))]  BY <1>3, <3>1
      <3>3. p + (i - (p - 1)) = i + 1  BY <1>1
      <3> QED  BY <1>1, <1>8, <2>2, <3>2, <3>3
    <2> QED  BY <2>1, <2>2
  <1>4. /\ t \in Seq(S) /\ DOMAIN t = 1 .. Len(s) - 1
        /\ \A i \in 1 .. Len(s) - 1 : t[i] = IF i < p THEN s[i] ELSE s[i + 1]
    BY <1>8, <1>9, <1>10
  <1>5. Range(t) \subseteq Range(s)  BY <1>1, <1>4 DEF Range
  <1>6. ASSUME NEW i \in DOMAIN s, i # p PROVE s[i] \in Range(t)
    <2>1. CASE i < p
      <3>1. i \in DOMAIN t /\ t[i] = s[i]  BY <1>1, <1>4, <2>1
      <3> QED  BY <3>1 DEF Range
    <2>2. CASE i > p
      <3>1. i - 1 \in DOMAIN t /\ t[i - 1] = s[i]  BY <1>1, <1>4, <2>2
      <3> QED  BY <3>1 DEF Range
    <2> QED  BY <1>1, <1>6, <2>1, <2>2
  <1>7. \A m \in Range(s) : m # s[p] => m \in Range(t)  BY <1>6 DEF Range
  <1> QED  BY <1>0, <1>4, <1>5, <1>7

\* What is found under a name that there is.
LEMMA FoundUnderName ==
  ASSUME NEW s, NEW c, Has(s, c)
  PROVE  Place(s, c) \in DOMAIN s /\ Find(s, c) \in Range(s) /\ Find(s, c).name = c
  BY DEF Has, Place, Find, Range

\* A sequence has a name when one of its elements has it.
LEMMA HasInRange ==
  ASSUME NEW s, NEW c
  PROVE  Has(s, c) <=> \E m \in Range(s) : m.name = c
  BY DEF Has, Range

\* What is left without a name: part of what there was, and all of another name.
LEMMA RangeOfWithout ==
  ASSUME NEW S, NEW s \in Seq(S), NEW c
  PROVE  /\ Without(s, c) \in Seq(S)
         /\ Range(Without(s, c)) \subseteq Range(s)
         /\ \A m \in Range(s) : m.name # c => m \in Range(Without(s, c))
  <1>1. CASE ~Has(s, c)  BY <1>1 DEF Without
  <1>2. CASE Has(s, c)
    <2>1. Place(s, c) \in DOMAIN s /\ s[Place(s, c)].name = c  BY <1>2, FoundUnderName DEF Find
    <2>2. Without(s, c) = RemoveAt(s, Place(s, c))  BY <1>2 DEF Without
    <2> QED  BY <2>1, <2>2, RangeOfRemoveAt
  <1> QED  BY <1>1, <1>2

-----------------------------------------------------------------------------
(* The invariant.                                                          *)

\* An entry that can only withhold what its version would: a verdict against the
\* content is that version's own, and a chunk record is of the chunker, the limits and
\* the counter it is filed under.
Sound(e) ==
  /\ \A r \in e.chunks : r.by = r.key
  /\ e.scan # None => e.scan.verdict \in {"ok", VerdictOf[e.scan.version][e.sha256]}

SoundFor(e, c) == e \in Entries /\ e.sha256 = c /\ Sound(e)

Named  == [name : Contents, ref : Nat]
Stored == [name : Contents, entry : Entries \cup {None}]
Jobs   == [file : Files, cached : Nat, computed : Entries \cup {None}]

CacheTypes(s) ==
  s \in [heap : Seq(Entries), memory : Seq(Named), dirty : Seq(Named), disk : Seq(Stored), ref : Nat]

\* What is filed under a content in the maps is an entry of that content.
Refers(s, m) == m.ref \in DOMAIN s.heap /\ s.heap[m.ref].sha256 = m.name

CacheFits(s) ==
  /\ CacheTypes(s)
  /\ \A e \in Range(s.heap) : Sound(e)
  /\ \A m \in Range(s.memory) : Refers(s, m)
  /\ \A m \in Range(s.dirty) : Refers(s, m)
  /\ \A m \in Range(s.disk) : m.entry # None => SoundFor(m.entry, m.name)

\* What a worker computed for a file is of its bytes, and so is the entry it is for.
JobFits(s, enabled, j) ==
  j.computed # None =>
    /\ SoundFor(j.computed, Content[j.file])
    /\ enabled => Refers(s, [name |-> Content[j.file], ref |-> j.cached])

\* The history, and what is exempt in it: bytes of which an entry was rejected, or of which
\* two were updated.
Works == [name : Contents, part : (Identities \X Versions) \cup {<<"scan">>, <<"tokens">>}]
Logs  == [unsaved : SUBSET Works, updated : SUBSET Named, rejected : SUBSET Contents]
Excused(l, c) == c \in l.rejected \/ \E m, n \in l.updated : m.name = c /\ n.name = c /\ m.ref # n.ref

\* An entry among ms has a piece of work; all that is unsaved is among the dirty ones.
Holds(s, ms, w) == \E m \in ms : m.name = w.name /\ w.part \in Parts(s.heap[m.ref])
WorkKept(s, l) ==
  /\ Range(s.dirty) \subseteq l.updated
  /\ \A w \in l.unsaved : Excused(l, w.name) \/ Holds(s, Range(s.dirty), w)

CacheInv ==
  /\ config \in Configs
  /\ CacheFits(cache)
  /\ todo \in Seq(Files)
  /\ ahead \in Seq(Jobs)
  /\ \A j \in Range(ahead) : JobFits(cache, config.enabled, j)
  /\ stage = "rebuild" => ahead # <<>>
  /\ pending \in Seq(Named)
  /\ \A m \in Range(pending) : Refers(cache, m)
  /\ DOMAIN outcomes = Files
  /\ OutcomeIsFresh
  /\ log \in Logs
  /\ WorkKept(cache, log)
  /\ stage = "flush" => \A w \in log.unsaved : Excused(log, w.name) \/ Holds(cache, Range(pending), w)
  /\ stage \in {"evict", "clear"} => \A w \in log.unsaved : Excused(log, w.name)

-----------------------------------------------------------------------------
(* Entries.                                                                *)

\* What the content stage promises for an entry of a file.
Prepared(f, r) == r.outcome = Fresh(f) /\ SoundFor(r.entry, Content[f])

\* The parts of what it computes have their types.
LEMMA MeasuresAreTyped ==
  ASSUME config \in Configs, NEW f \in Files
  PROVE  /\ Content[f] \in Contents
         /\ LinesOf(f) \in Nat
         /\ [version |-> config.version, verdict |-> Verdict(f)] \in [version : Versions, verdict : Verdicts]
         /\ [counter |-> config.version, lines |-> LinesOf(f)] \in [counter : Versions, lines : Nat]
         /\ Key(f) \in Identities \X Versions
         /\ Key(f) = <<Identity[f], config.version>>
  <1>1. config.version \in Versions  BY DEF Configs
  <1>2. Content[f] \in Contents /\ Identity[f] \in Identities  BY DEF Contents, Identities
  <1>3. LinesOf(f) \in Nat  BY <1>2, CacheAssumption DEF LinesOf
  <1>4. Verdict(f) \in Verdicts  BY <1>1, <1>2 DEF Verdict, Verdicts
  <1> QED  BY <1>1, <1>2, <1>3, <1>4 DEF Key

\* An empty entry of a content is sound.
LEMMA EmptyIsSound ==
  ASSUME NEW c \in Contents
  PROVE  SoundFor(EmptyEntry(c), c)
  BY DEF SoundFor, Sound, EmptyEntry, Entries

\* A verdict recorded is the running version's.
LEMMA ScannedIsSound ==
  ASSUME config \in Configs, NEW f \in Files, NEW e, SoundFor(e, Content[f])
  PROVE  SoundFor(Scanned(e, f), Content[f])
  <1> DEFINE sc == [version |-> config.version, verdict |-> Verdict(f)]
  <1>1. sc \in [version : Versions, verdict : Verdicts]  BY MeasuresAreTyped
  <1>2. sc.verdict = VerdictOf[sc.version][Content[f]]  BY DEF Verdict
  <1>3. Scanned(e, f) = [e EXCEPT !.scan = sc]  BY DEF Scanned
  <1> HIDE DEF sc
  <1> QED  BY <1>1, <1>2, <1>3 DEF SoundFor, Sound, Entries

\* Line counts recorded change nothing else.
LEMMA MeasuredIsSound ==
  ASSUME NEW e, NEW c, SoundFor(e, c), NEW m \in [counter : Versions, lines : Nat]
  PROVE  SoundFor([e EXCEPT !.tokens = m], c)
  BY DEF SoundFor, Sound, Entries

\* A chunk record written is filed under what made it.
LEMMA RecordingIsSound ==
  ASSUME config \in Configs, NEW f \in Files, NEW e, SoundFor(e, Content[f]), NEW last \in Nat
  PROVE  SoundFor(Recording(e, f, last), Content[f])
  <1> DEFINE rec == [key |-> Key(f), by |-> <<Identity[f], config.version>>, last |-> last]
             chunks == {r \in e.chunks : r.key # Key(f)} \cup {rec}
  <1>1. rec \in [key : Identities \X Versions, by : Identities \X Versions, last : Nat] /\ rec.by = rec.key
    BY MeasuresAreTyped
  <1>2. Recording(e, f, last) = [e EXCEPT !.chunks = chunks]  BY DEF Recording
  <1> HIDE DEF rec
  <1>3. /\ chunks \in SUBSET [key : Identities \X Versions, by : Identities \X Versions, last : Nat]
        /\ \A r \in chunks : r.by = r.key
    BY <1>1 DEF SoundFor, Sound, Entries
  <1> HIDE DEF chunks
  <1> QED  BY <1>2, <1>3 DEF SoundFor, Sound, Entries

\* With an entry of these bytes that is sound, whatever is in it, the content stage
\* makes of a file what it makes of it alone, and leaves a sound entry.
LEMMA ContentStage ==
  ASSUME config \in Configs, NEW f \in Files, NEW e, SoundFor(e, Content[f])
  PROVE  Prepared(f, PrepareContent(f, e))
  <1>1. e # None  BY CacheAssumption DEF SoundFor
  <1>2. CASE Withholds(e)
    <2>1. e.scan.verdict = Verdict(f) /\ Verdict(f) # "ok"
      BY <1>2 DEF Withholds, SoundFor, Sound, Verdict
    <2>2. PrepareContent(f, e).outcome = Fresh(f)  BY <1>2, <2>1 DEF PrepareContent, Fresh
    <2>3. PrepareContent(f, e).entry = e  BY <1>2 DEF PrepareContent
    <2> QED  BY <2>2, <2>3 DEF Prepared
  <1>3. CASE ~Withholds(e) /\ Verdict(f) # "ok"
    <2>1. PrepareContent(f, e).outcome = Fresh(f) /\ PrepareContent(f, e).entry = Scanned(e, f)
      BY <1>1, <1>3 DEF PrepareContent
    <2> QED  BY <2>1, ScannedIsSound DEF Prepared
  <1>4. CASE ~Withholds(e) /\ Verdict(f) = "ok"
    <2> DEFINE measured == [counter |-> config.version, lines |-> LinesOf(f)]
               r == PrepareContent(f, e)
    <2>1. PICK reused \in BOOLEAN :
            /\ reused => Recorded(e, f)
            /\ r.outcome = [Fresh(f) EXCEPT !.by = IF reused THEN Record(e, f).by ELSE @]
            /\ r.entry = [(IF reused THEN Scanned(e, f) ELSE Recording(Scanned(e, f), f, LinesOf(f)))
                             EXCEPT !.tokens = measured]
      BY <1>1, <1>4 DEF PrepareContent
    <2>2. measured \in [counter : Versions, lines : Nat] /\ LinesOf(f) \in Nat  BY MeasuresAreTyped
    <2>3. SoundFor(Scanned(e, f), Content[f])  BY ScannedIsSound
    <2>4. SoundFor(Recording(Scanned(e, f), f, LinesOf(f)), Content[f])  BY <2>2, <2>3, RecordingIsSound
    <2>5. reused => Record(e, f).by = <<Identity[f], config.version>>
      <3>1. reused => Record(e, f) \in e.chunks /\ Record(e, f).key = Key(f)  BY <2>1 DEF Recorded, Record
      <3> QED  BY <3>1 DEF SoundFor, Sound, Key
    <2> HIDE DEF measured, r
    <2>6. r.outcome = Fresh(f)  BY <1>4, <2>1, <2>5 DEF Fresh
    <2>7. CASE reused  BY <2>1, <2>2, <2>3, <2>6, <2>7, MeasuredIsSound DEF Prepared, r
    <2>8. CASE ~reused  BY <2>1, <2>2, <2>4, <2>6, <2>8, MeasuredIsSound DEF Prepared, r
    <2> QED  BY <2>1, <2>7, <2>8
  <1> QED  BY <1>2, <1>3, <1>4

\* Without one it does too.
LEMMA ContentStageAlone ==
  ASSUME NEW f
  PROVE  PrepareContent(f, None).outcome = Fresh(f)
  BY DEF PrepareContent, Withholds

\* What a worker computes is sound for the bytes it was given.
LEMMA ComputedIsSound ==
  ASSUME config \in Configs, NEW f \in Files, NEW c \in Computed(f), c # None
  PROVE  SoundFor(c, Content[f])
  <1> DEFINE m == [counter |-> config.version, lines |-> LinesOf(f) + 1]
             e == EmptyEntry(Content[f])
  <1>1. Content[f] \in Contents /\ LinesOf(f) + 1 \in Nat /\ m \in [counter : Versions, lines : Nat]
    BY MeasuresAreTyped DEF Configs
  <1>2. SoundFor(e, Content[f])  BY <1>1, EmptyIsSound
  <1>3. SoundFor(PrepareContent(f, e).entry, Content[f])  BY <1>2, ContentStage DEF Prepared
  <1>4. IllFitting(f) = Recording([e EXCEPT !.tokens = m], f, LinesOf(f) + 1)  BY DEF IllFitting
  <1> HIDE DEF m, e
  <1>5. SoundFor([e EXCEPT !.tokens = m], Content[f])  BY <1>1, <1>2, MeasuredIsSound
  <1>6. SoundFor(IllFitting(f), Content[f])  BY <1>1, <1>4, <1>5, RecordingIsSound
  <1> QED  BY <1>3, <1>6 DEF Computed, e

\* An entry seeded with what a worker computed for the same bytes stays sound.
LEMMA SeededIsSound ==
  ASSUME NEW e, NEW c, NEW b, SoundFor(e, b), SoundFor(c, b)
  PROVE  SoundFor(Seeded(e, c), b)
  <1> DEFINE chunks == e.chunks \cup {r \in c.chunks : \A own \in e.chunks : own.key # r.key}
             scan   == IF e.scan = None THEN c.scan ELSE e.scan
             tokens == IF e.tokens = None THEN c.tokens ELSE e.tokens
  <1>1. Seeded(e, c) = [e EXCEPT !.scan = scan, !.tokens = tokens, !.chunks = chunks]  BY DEF Seeded
  <1>2. /\ chunks \in SUBSET [key : Identities \X Versions, by : Identities \X Versions, last : Nat]
        /\ \A r \in chunks : r.by = r.key
    BY DEF SoundFor, Sound, Entries
  <1>3. /\ scan \in {None} \cup [version : Versions, verdict : Verdicts]
        /\ scan # None => scan.verdict \in {"ok", VerdictOf[scan.version][b]}
        /\ tokens \in {None} \cup [counter : Versions, lines : Nat]
    BY DEF SoundFor, Sound, Entries
  <1> HIDE DEF chunks, scan, tokens
  <1> QED  BY <1>1, <1>2, <1>3 DEF SoundFor, Sound, Entries

\* An entry of a content has parts that have names.
LEMMA PartsAreNamed ==
  ASSUME NEW c \in Contents, NEW e \in Entries
  PROVE  Work(c, e) \subseteq Works
  BY DEF Work, Works, Parts, Entries

\* The content stage and a seed add to the parts of an entry, and take none away.
LEMMA ContentStageGrows ==
  ASSUME config \in Configs, NEW f \in Files, NEW e \in Entries
  PROVE  Parts(e) \subseteq Parts(PrepareContent(f, e).entry)
  <1> DEFINE scan     == [version |-> config.version, verdict |-> Verdict(f)]
             measured == [counter |-> config.version, lines |-> LinesOf(f)]
             added    == [key |-> Key(f), by |-> <<Identity[f], config.version>>, last |-> LinesOf(f)]
             chunks   == {r \in e.chunks : r.key # Key(f)} \cup {added}
  <1>1. e # None /\ scan # None /\ measured # None  BY CacheAssumption, MeasuresAreTyped
  <1>2. Scanned(e, f) = [e EXCEPT !.scan = scan]  BY DEF Scanned
  <1>3. Recording(Scanned(e, f), f, LinesOf(f)) = [e EXCEPT !.scan = scan, !.chunks = chunks]
    BY <1>2 DEF Recording, Entries
  <1>4. {r.key : r \in e.chunks} \subseteq {r.key : r \in chunks}
    <2> SUFFICES ASSUME NEW r \in e.chunks PROVE \E x \in chunks : x.key = r.key  OBVIOUS
    <2>1. CASE r.key = Key(f)
      <3>1. added \in chunks /\ added.key = Key(f)  OBVIOUS
      <3> QED  BY <2>1, <3>1
    <2>2. CASE r.key # Key(f)  BY <2>2
    <2> QED  BY <2>1, <2>2
  <1> HIDE DEF scan, measured, chunks
  <1>5. PrepareContent(f, e).entry \in
          {e, [e EXCEPT !.scan = scan], [e EXCEPT !.scan = scan, !.tokens = measured],
           [e EXCEPT !.scan = scan, !.chunks = chunks, !.tokens = measured]}
    BY <1>1, <1>2, <1>3 DEF PrepareContent, measured
  <1> QED  BY <1>1, <1>4, <1>5 DEF Parts, Entries

LEMMA SeedGrows ==
  ASSUME NEW e \in Entries, NEW c
  PROVE  Parts(e) \subseteq Parts(Seeded(e, c))
  <1> DEFINE chunks == e.chunks \cup {r \in c.chunks : \A own \in e.chunks : own.key # r.key}
             scan   == IF e.scan = None THEN c.scan ELSE e.scan
             tokens == IF e.tokens = None THEN c.tokens ELSE e.tokens
  <1>1. Seeded(e, c) = [e EXCEPT !.scan = scan, !.tokens = tokens, !.chunks = chunks]  BY DEF Seeded
  <1>2. e.chunks \subseteq chunks /\ (e.scan # None => scan # None) /\ (e.tokens # None => tokens # None)
    OBVIOUS
  <1> HIDE DEF chunks, scan, tokens
  <1>3. {r.key : r \in e.chunks} \subseteq {r.key : r \in chunks}  BY <1>2
  <1> QED  BY <1>1, <1>2, <1>3 DEF Parts, Entries

-----------------------------------------------------------------------------
(* The cache's operations.                                                 *)

\* What refers to an entry goes on referring to one of the same content, and no entry
\* loses a part.
Keeps(s, t) ==
  /\ \A m : Refers(s, m) => Refers(t, m)
  /\ \A i \in DOMAIN s.heap : i \in DOMAIN t.heap /\ Parts(s.heap[i]) \subseteq Parts(t.heap[i])

\* The parts of a cache may be exchanged for others that fit.
LEMMA MemoryExchanged ==
  ASSUME NEW s, CacheFits(s), NEW memory \in Seq(Named), NEW ref \in Nat,
         \A m \in Range(memory) : Refers(s, m)
  PROVE  /\ CacheFits([s EXCEPT !.memory = memory])
         /\ CacheFits([s EXCEPT !.memory = memory, !.ref = ref])
  BY DEF CacheFits, CacheTypes, Refers

LEMMA DirtyExchanged ==
  ASSUME NEW s, CacheFits(s), NEW dirty \in Seq(Named), \A m \in Range(dirty) : Refers(s, m)
  PROVE  CacheFits([s EXCEPT !.dirty = dirty])
  BY DEF CacheFits, CacheTypes, Refers

LEMMA DiskExchanged ==
  ASSUME NEW s, CacheFits(s), NEW disk \in Seq(Stored),
         \A m \in Range(disk) : m.entry # None => SoundFor(m.entry, m.name)
  PROVE  CacheFits([s EXCEPT !.disk = disk])
  BY DEF CacheFits, CacheTypes, Refers

\* Removing stored entries leaves a cache that fits.
LEMMA Undisked ==
  ASSUME NEW s, CacheFits(s), NEW c
  PROVE  CacheFits([s EXCEPT !.disk = Without(@, c)])
  <1>1. s.disk \in Seq(Stored)  BY DEF CacheFits, CacheTypes
  <1>2. Without(s.disk, c) \in Seq(Stored) /\ Range(Without(s.disk, c)) \subseteq Range(s.disk)
    BY <1>1, RangeOfWithout
  <1>3. \A m \in Range(Without(s.disk, c)) : m.entry # None => SoundFor(m.entry, m.name)
    BY <1>2 DEF CacheFits
  <1> QED  BY <1>2, <1>3, DiskExchanged

\* A discard touches what is stored, and no more.
LEMMA DiscardsFit ==
  ASSUME NEW s, CacheFits(s), NEW c, NEW t \in Discards(s, c)
  PROVE  CacheFits(t) /\ t.dirty = s.dirty /\ t.heap = s.heap /\ t.memory = s.memory
  <1>1. CacheFits([s EXCEPT !.disk = Without(@, c)])  BY Undisked
  <1>2. CacheTypes(s)  BY DEF CacheFits
  <1>3. t = s \/ t = [s EXCEPT !.disk = Without(@, c)]  BY DEF Discards
  <1> QED  BY <1>1, <1>2, <1>3 DEF CacheTypes

\* An entry remembered is under its name, and pushes out at most another.
LEMMA RememberFits ==
  ASSUME NEW memory \in Seq(Named), NEW c \in Contents, NEW ref \in Nat
  PROVE  /\ Remember(memory, c, ref) \in Seq(Named)
         /\ Range(Remember(memory, c, ref)) \subseteq Range(memory) \cup {[name |-> c, ref |-> ref]}
  <1> DEFINE x   == [name |-> c, ref |-> ref]
             all == Append(Without(memory, c), x)
  <1>1. x \in Named  BY DEF Named
  <1>2. Without(memory, c) \in Seq(Named) /\ Range(Without(memory, c)) \subseteq Range(memory)
    BY RangeOfWithout
  <1>3. Remember(memory, c, ref) = IF Len(all) > MaxMemory THEN Tail(all) ELSE all  BY DEF Remember
  <1>4. all # <<>>  BY <1>1, <1>2
  <1> HIDE DEF x
  <1>5. all \in Seq(Named) /\ Range(all) \subseteq Range(memory) \cup {x}  BY <1>1, <1>2, RangeOfAppend
  <1> HIDE DEF all
  <1>6. Tail(all) \in Seq(Named) /\ Range(Tail(all)) \subseteq Range(all)  BY <1>4, <1>5, RangeOfTail
  <1> QED  BY <1>3, <1>5, <1>6 DEF x

\* An entry put on the heap leaves the others where they are.
Allocated(s, t, c) ==
  /\ CacheFits(t)
  /\ t.dirty = s.dirty
  /\ t.ref \in DOMAIN t.heap /\ t.heap[t.ref].sha256 = c
  /\ Keeps(s, t)

LEMMA AllocateFits ==
  ASSUME NEW s, CacheFits(s), NEW c, NEW e, SoundFor(e, c)
  PROVE  Allocated(s, Allocate(s, e), c) /\ Allocate(s, e).memory = s.memory
  <1> DEFINE t == Allocate(s, e)
             h == Append(s.heap, e)
  <1>1. CacheTypes(s) /\ s.heap \in Seq(Entries) /\ e \in Entries /\ Sound(e) /\ e.sha256 = c
    BY DEF CacheFits, CacheTypes, SoundFor
  <1>2. /\ Len(s.heap) \in Nat /\ DOMAIN s.heap = 1 .. Len(s.heap)
        /\ h \in Seq(Entries) /\ DOMAIN h = 1 .. Len(s.heap) + 1
        /\ h[Len(s.heap) + 1] = e /\ \A i \in DOMAIN s.heap : h[i] = s.heap[i]
    BY <1>1, LenProperties
  <1>3. Range(h) = Range(s.heap) \cup {e}  BY <1>1, RangeOfAppend
  <1> HIDE DEF h
  <1>4. /\ t = [s EXCEPT !.heap = h, !.ref = Len(s.heap) + 1]
        /\ t.heap = h /\ t.ref = Len(s.heap) + 1
        /\ t.memory = s.memory /\ t.dirty = s.dirty /\ t.disk = s.disk
    BY <1>1 DEF Allocate, CacheTypes, h
  <1> HIDE DEF t
  <1>5. CacheTypes(t)
    <2>1. Len(s.heap) + 1 \in Nat  BY <1>2
    <2> DEFINE n == Len(s.heap) + 1
    <2> HIDE DEF n
    <2>2. t = [s EXCEPT !.heap = h, !.ref = n] /\ n \in Nat /\ h \in Seq(Entries)  BY <1>2, <1>4, <2>1 DEF n
    <2> QED  BY <1>1, <2>2 DEF CacheTypes
  <1>6. Keeps(s, t)  BY <1>2, <1>4 DEF Keeps, Refers
  <1>7. CacheFits(t)  BY <1>1, <1>3, <1>4, <1>5, <1>6 DEF CacheFits, Keeps
  <1>8. t.ref \in DOMAIN t.heap /\ t.heap[t.ref].sha256 = c  BY <1>1, <1>2, <1>4
  <1> QED  BY <1>4, <1>6, <1>7, <1>8 DEF Allocated, t

\* get finds an entry of the content it is asked for, and disturbs no other.
LEMMA LookupsFit ==
  ASSUME NEW s, CacheFits(s), NEW c \in Contents, NEW t \in Lookups(s, c)
  PROVE  Allocated(s, t, c)
  <1>1. CacheTypes(s) /\ s.memory \in Seq(Named) /\ s.disk \in Seq(Stored)  BY DEF CacheFits, CacheTypes
  <1>2. CASE Has(s.memory, c)
    <2> DEFINE m == Find(s.memory, c)
               r == Remember(s.memory, c, m.ref)
    <2>1. m \in Range(s.memory) /\ m.name = c  BY <1>2, FoundUnderName
    <2>2. m \in Named /\ Refers(s, m)  BY <1>1, <2>1, RangeIn DEF CacheFits
    <2>3. t = [s EXCEPT !.memory = r, !.ref = m.ref]  BY <1>2 DEF Lookups
    <2> HIDE DEF m
    <2>4. m.ref \in Nat /\ m = [name |-> c, ref |-> m.ref]  BY <2>1, <2>2 DEF Named
    <2>5. r \in Seq(Named) /\ Range(r) \subseteq Range(s.memory) \cup {m}  BY <1>1, <2>4, RememberFits
    <2> HIDE DEF r
    <2>6. \A x \in Range(r) : Refers(s, x)  BY <2>2, <2>5 DEF CacheFits
    <2>7. CacheFits(t)  BY <2>3, <2>4, <2>5, <2>6, MemoryExchanged
    <2>8. t.heap = s.heap /\ t.dirty = s.dirty /\ t.ref = m.ref  BY <1>1, <2>3 DEF CacheTypes
    <2> QED  BY <2>1, <2>2, <2>7, <2>8 DEF Allocated, Keeps, Refers
  <1>3. CASE t = Allocate(s, EmptyEntry(c))  BY <1>3, EmptyIsSound, AllocateFits
  <1>4. CASE \E d \in Discards(s, c) : t = Allocate(d, EmptyEntry(c))
    <2>1. PICK d \in Discards(s, c) : t = Allocate(d, EmptyEntry(c))  BY <1>4
    <2>2. CacheFits(d) /\ d.dirty = s.dirty /\ d.heap = s.heap  BY DiscardsFit
    <2>3. Allocated(d, t, c)  BY <2>1, <2>2, EmptyIsSound, AllocateFits
    <2> QED  BY <2>2, <2>3 DEF Allocated, Keeps, Refers
  <1>5. CASE /\ Has(s.disk, c) /\ Find(s.disk, c).entry # None
             /\ LET a == Allocate(s, Find(s.disk, c).entry)
                IN t = [a EXCEPT !.memory = Remember(@, c, a.ref)]
    <2> DEFINE m == Find(s.disk, c)
               a == Allocate(s, m.entry)
               r == Remember(a.memory, c, a.ref)
    <2>1. m \in Range(s.disk) /\ m.name = c  BY <1>5, FoundUnderName
    <2>2. m.entry # None /\ t = [a EXCEPT !.memory = r]  BY <1>5
    <2>3. SoundFor(m.entry, c)  BY <2>1, <2>2 DEF CacheFits
    <2>4. Allocated(s, a, c) /\ a.memory = s.memory  BY <2>3, AllocateFits
    <2> HIDE DEF m, a
    <2>5. CacheFits(a) /\ CacheTypes(a) /\ a.memory \in Seq(Named) /\ a.ref \in Nat
      BY <2>4 DEF Allocated, CacheFits, CacheTypes
    <2>6. r \in Seq(Named) /\ Range(r) \subseteq Range(a.memory) \cup {[name |-> c, ref |-> a.ref]}
      BY <2>5, RememberFits
    <2> HIDE DEF r
    <2>7. Refers(a, [name |-> c, ref |-> a.ref])  BY <2>4 DEF Allocated, Refers
    <2>8. \A x \in Range(r) : Refers(a, x)  BY <2>5, <2>6, <2>7 DEF CacheFits
    <2>9. CacheFits(t)  BY <2>2, <2>5, <2>6, <2>8, MemoryExchanged
    <2>10. t.heap = a.heap /\ t.dirty = a.dirty /\ t.ref = a.ref  BY <2>2, <2>5 DEF CacheTypes
    <2> QED  BY <2>4, <2>9, <2>10 DEF Allocated, Keeps, Refers
  <1> QED  BY <1>2, <1>3, <1>4, <1>5 DEF Lookups

\* An entry rewritten in place stays the one its content is filed under.
Rewritten(s, t) ==
  /\ CacheFits(t)
  /\ t.dirty = s.dirty
  /\ Keeps(s, t)

LEMMA RewriteFits ==
  ASSUME NEW s, CacheFits(s), NEW p \in DOMAIN s.heap, NEW e, SoundFor(e, s.heap[p].sha256),
         Parts(s.heap[p]) \subseteq Parts(e)
  PROVE  Rewritten(s, [s EXCEPT !.heap[p] = e]) /\ [s EXCEPT !.heap[p] = e].heap[p] = e
  <1> DEFINE h == [s.heap EXCEPT ![p] = e]
             t == [s EXCEPT !.heap = h]
  <1>1. CacheTypes(s) /\ s.heap \in Seq(Entries) /\ e \in Entries /\ Sound(e) /\ e.sha256 = s.heap[p].sha256
    BY DEF CacheFits, CacheTypes, SoundFor
  <1>2. p \in 1 .. Len(s.heap)  BY <1>1, LenProperties
  <1>3. h \in Seq(Entries)  BY <1>1, <1>2, ExceptSeq
  <1>4. DOMAIN h = DOMAIN s.heap /\ h[p] = e /\ \A i \in DOMAIN s.heap : i # p => h[i] = s.heap[i]
    OBVIOUS
  <1> HIDE DEF h
  <1>5. /\ t.heap = h /\ t.memory = s.memory /\ t.dirty = s.dirty /\ t.disk = s.disk /\ CacheTypes(t)
    BY <1>1, <1>3 DEF CacheTypes
  <1>6. \A x \in Range(h) : Sound(x)  BY <1>1, <1>4 DEF CacheFits, Range
  <1> HIDE DEF t
  <1>7. Keeps(s, t)  BY <1>1, <1>4, <1>5 DEF Keeps, Refers
  <1>8. CacheFits(t)  BY <1>5, <1>6, <1>7 DEF CacheFits, Keeps
  <1>9. t = [s EXCEPT !.heap[p] = e]  BY DEF t, h
  <1> QED  BY <1>4, <1>5, <1>7, <1>8, <1>9 DEF Rewritten

\* An entry updated is dirty, and so is all that was of other content.
Updated(s, t, x) ==
  /\ CacheFits(t)
  /\ t.heap = s.heap
  /\ x \in Range(t.dirty) /\ Range(t.dirty) \subseteq Range(s.dirty) \cup {x}
  /\ \A m \in Range(s.dirty) : m.name # x.name => m \in Range(t.dirty)

LEMMA UpdateFits ==
  ASSUME NEW s, CacheFits(s), NEW c \in Contents, NEW ref, Refers(s, [name |-> c, ref |-> ref])
  PROVE  Updated(s, Update(s, c, ref), [name |-> c, ref |-> ref])
  <1> DEFINE x == [name |-> c, ref |-> ref]
             p == Place(s.dirty, c)
             d == IF Has(s.dirty, c) THEN [s.dirty EXCEPT ![p] = x] ELSE Append(s.dirty, x)
             r == Remember(s.memory, c, ref)
             t == Update(s, c, ref)
  <1>1. CacheTypes(s) /\ s.memory \in Seq(Named) /\ s.dirty \in Seq(Named) /\ s.heap \in Seq(Entries)
    BY DEF CacheFits, CacheTypes
  <1>2. ref \in Nat  BY <1>1, LenProperties DEF Refers
  <1>3. x \in Named /\ x.name = c  BY <1>2 DEF Named
  <1>4. r \in Seq(Named) /\ Range(r) \subseteq Range(s.memory) \cup {x}  BY <1>1, <1>2, RememberFits
  <1>5. t = [s EXCEPT !.memory = r, !.dirty = d]  BY DEF Update
  <1> HIDE DEF x, r
  <1>6. /\ d \in Seq(Named) /\ Range(d) \subseteq Range(s.dirty) \cup {x} /\ x \in Range(d)
        /\ \A m \in Range(s.dirty) : m.name # c => m \in Range(d)
    <2>1. CASE Has(s.dirty, c)
      <3>1. p \in DOMAIN s.dirty /\ s.dirty[p].name = c  BY <2>1, FoundUnderName DEF Find
      <3>2. p \in 1 .. Len(s.dirty)  BY <1>1, <3>1, LenProperties
      <3>3. [s.dirty EXCEPT ![p] = x] \in Seq(Named)  BY <1>1, <1>3, <3>2, ExceptSeq
      <3> HIDE DEF p
      <3> QED  BY <2>1, <3>1, <3>3 DEF Range
    <2>2. CASE ~Has(s.dirty, c)  BY <1>1, <1>3, <2>2, RangeOfAppend
    <2> QED  BY <2>1, <2>2
  <1> HIDE DEF d
  <1>7. /\ \A m \in Range(r) : Refers(s, m)
        /\ \A m \in Range(d) : Refers(s, m)
    BY <1>4, <1>6 DEF CacheFits, x
  <1>8. CacheFits([s EXCEPT !.memory = r])  BY <1>4, <1>7, MemoryExchanged
  <1>9. \A m \in Range(d) : Refers([s EXCEPT !.memory = r], m)  BY <1>1, <1>7 DEF Refers, CacheTypes
  <1>10. CacheFits(t)
    <2>1. t = [[s EXCEPT !.memory = r] EXCEPT !.dirty = d]  BY <1>1, <1>5 DEF CacheTypes
    <2> QED  BY <1>6, <1>8, <1>9, <2>1, DirtyExchanged
  <1>11. t.dirty = d /\ t.heap = s.heap  BY <1>1, <1>5 DEF CacheTypes
  <1> HIDE DEF t
  <1> QED  BY <1>3, <1>6, <1>10, <1>11 DEF Updated, t, x

\* Rejecting the entry of a content makes no other less dirty.
Rejected(s, t, c) ==
  /\ CacheFits(t)
  /\ t.heap = s.heap
  /\ Range(t.dirty) \subseteq Range(s.dirty) /\ \A m \in Range(s.dirty) : m.name # c => m \in Range(t.dirty)

LEMMA RejectsFit ==
  ASSUME NEW s, CacheFits(s), NEW c, NEW t \in Rejects(s, c)
  PROVE  Rejected(s, t, c)
  <1> DEFINE m == Without(s.memory, c)
             d == Without(s.dirty, c)
             u == [s EXCEPT !.memory = m]
             v == [u EXCEPT !.dirty = d]
  <1>1. CacheTypes(s) /\ s.memory \in Seq(Named) /\ s.dirty \in Seq(Named)  BY DEF CacheFits, CacheTypes
  <1>2. m \in Seq(Named) /\ Range(m) \subseteq Range(s.memory)  BY <1>1, RangeOfWithout
  <1>3. /\ d \in Seq(Named) /\ Range(d) \subseteq Range(s.dirty)
        /\ \A x \in Range(s.dirty) : x.name # c => x \in Range(d)
    BY <1>1, RangeOfWithout
  <1> HIDE DEF m, d
  <1>4. CacheFits(u)  BY <1>2, MemoryExchanged DEF CacheFits
  <1>5. u.heap = s.heap /\ u.dirty = s.dirty /\ CacheTypes(u)  BY <1>1, <1>4 DEF CacheTypes, CacheFits
  <1>6. \A x \in Range(d) : Refers(u, x)  BY <1>3, <1>5 DEF CacheFits, Refers
  <1> HIDE DEF u
  <1>7. CacheFits(v)  BY <1>3, <1>4, <1>6, DirtyExchanged
  <1>8. v.heap = s.heap /\ v.dirty = d  BY <1>5 DEF CacheTypes
  <1>9. v = [s EXCEPT !.memory = m, !.dirty = d]  BY <1>1 DEF u, CacheTypes
  <1> HIDE DEF v
  <1>10. t \in Discards(v, c)  BY <1>9 DEF Rejects, m, d
  <1>11. CacheFits(t) /\ t.dirty = d /\ t.heap = s.heap  BY <1>7, <1>8, <1>10, DiscardsFit
  <1> QED  BY <1>3, <1>11 DEF Rejected

-----------------------------------------------------------------------------
(* The initial state, and each step.                                       *)

\* The order of the files is an order of files.
LEMMA FilesInOrder == SetToSeq(Files) \in Seq(Files)
  <1>1. Cardinality(Files) \in Nat /\ ExistsBijection(1 .. Cardinality(Files), Files)
    BY CacheAssumption, FS_CardinalityType
  <1>2. \E g \in [1 .. Cardinality(Files) -> Files] : IsInjective(g)
    BY <1>1 DEF ExistsBijection, Bijection, Injection, IsInjective
  <1>3. SetToSeq(Files) \in [1 .. Cardinality(Files) -> Files]  BY <1>2 DEF SetToSeq
  <1> QED  BY <1>1, <1>3, SeqDef

\* A cache of which only the stored entries are left fits.
LEMMA EmptiedFits ==
  ASSUME NEW s, CacheTypes(s), \A m \in Range(s.disk) : m.entry # None => SoundFor(m.entry, m.name)
  PROVE  CacheFits([s EXCEPT !.heap = <<>>, !.memory = <<>>, !.dirty = <<>>, !.ref = 0])
  <1>1. <<>> \in Seq(Entries) /\ <<>> \in Seq(Named) /\ Range(<<>>) = {}  BY DEF Range
  <1> QED  BY <1>1 DEF CacheFits, CacheTypes

\* The initial state has the invariant.
LEMMA CacheInitially == CacheInit => CacheInv
  <1> SUFFICES ASSUME CacheInit PROVE CacheInv  OBVIOUS
  <1> USE DEF CacheInit
  <1>1. /\ <<>> \in Seq(Entries) /\ <<>> \in Seq(Named) /\ <<>> \in Seq(Stored) /\ <<>> \in Seq(Jobs)
        /\ Range(<<>>) = {}
    BY DEF Range
  <1>2. CacheFits(cache)  BY <1>1 DEF CacheFits, CacheTypes
  <1>3. todo \in Seq(Files)  BY FilesInOrder
  <1>4. OutcomeIsFresh /\ DOMAIN outcomes = Files  BY DEF OutcomeIsFresh
  <1>5. log \in Logs /\ WorkKept(cache, log)  BY <1>1 DEF Logs, WorkKept, NoLog
  <1> QED  BY <1>1, <1>2, <1>3, <1>4, <1>5 DEF CacheInv

\* What a file comes to is of the running version, which only a restart changes.
LEMMA FreshUnchanged ==
  config' = config => \A f : Fresh(f)' = Fresh(f)
  BY DEF Fresh, Verdict

\* Jobs and pending entries refer to entries of their content in every later heap.
LEMMA ReferencesKept ==
  ASSUME CacheInv, NEW t, Keeps(cache, t)
  PROVE  /\ \A j \in Range(ahead) : JobFits(t, config.enabled, j)
         /\ \A m \in Range(pending) : Refers(t, m)
  BY DEF CacheInv, Keeps, JobFits

\* What is unsaved is kept while entries only gain parts, and those of one content alone may
\* cease to be dirty: it is excused, or its entry is dirty still.
LEMMA WorkStaysKept ==
  ASSUME CacheInv, NEW t, NEW l, Keeps(cache, t), log.rejected \subseteq l.rejected, log.updated \subseteq l.updated,
         NEW c, \A m \in Range(cache.dirty) : m \in Range(t.dirty) \/ (m.name = c /\ Excused(l, c)),
         NEW w \in log.unsaved
  PROVE  Excused(l, w.name) \/ Holds(t, Range(t.dirty), w)
  <1>1. CASE Excused(log, w.name)  BY <1>1 DEF Excused
  <1>2. CASE Holds(cache, Range(cache.dirty), w)
    <2>1. PICK m \in Range(cache.dirty) : m.name = w.name /\ w.part \in Parts(cache.heap[m.ref])
      BY <1>2 DEF Holds
    <2>2. m.ref \in DOMAIN cache.heap  BY DEF CacheInv, CacheFits, Refers
    <2>3. w.part \in Parts(t.heap[m.ref])  BY <2>1, <2>2 DEF Keeps
    <2>4. CASE m \in Range(t.dirty)  BY <2>1, <2>3, <2>4 DEF Holds
    <2>5. CASE m.name = c /\ Excused(l, c)  BY <2>1, <2>5
    <2> QED  BY <2>4, <2>5
  <1> QED  BY <1>1, <1>2 DEF CacheInv, WorkKept

\* The cache and the history after the turn of a file.
Ended(t, l) ==
  /\ CacheFits(t)
  /\ Keeps(cache, t)
  /\ l \in Logs
  /\ WorkKept(t, l)

LEMMA EntryEnds ==
  ASSUME CacheInv, NEW f \in Files, NEW s, Allocated(cache, s, Content[f]),
         NEW e, SoundFor(e, Content[f]), Parts(s.heap[s.ref]) \subseteq Parts(e),
         NEW kept, kept = [s EXCEPT !.heap[s.ref] = e],
         NEW t, NEW l,
         \/ t = kept /\ l = log
         \/ t = Update(kept, Content[f], s.ref) /\ l = Logged(Content[f], s.ref, e)
  PROVE  Ended(t, l)
  <1> DEFINE c == Content[f]
             x == [name |-> c, ref |-> s.ref]
  <1>1. /\ CacheFits(s) /\ s.dirty = cache.dirty /\ s.ref \in DOMAIN s.heap
        /\ s.heap[s.ref].sha256 = c /\ Keeps(cache, s)
    BY DEF Allocated
  <1>2. Rewritten(s, kept) /\ kept.heap[s.ref] = e  BY <1>1, RewriteFits
  <1>3. CacheFits(kept) /\ kept.dirty = cache.dirty /\ Keeps(s, kept)  BY <1>1, <1>2 DEF Rewritten
  <1>4. Keeps(cache, kept)  BY <1>1, <1>3 DEF Keeps
  <1>5. Refers(kept, x)  BY <1>1, <1>3 DEF Keeps, Refers
  <1>6. log \in Logs /\ Range(cache.dirty) \subseteq log.updated  BY DEF CacheInv, WorkKept
  <1>7. CASE t = kept /\ l = log
    <2>1. \A w \in log.unsaved : Excused(l, w.name) \/ Holds(t, Range(t.dirty), w)
      BY <1>3, <1>4, <1>7, WorkStaysKept
    <2> QED  BY <1>3, <1>4, <1>6, <1>7, <2>1 DEF Ended, WorkKept
  <1>8. CASE t = Update(kept, c, s.ref) /\ l = Logged(c, s.ref, e)
    <2>1. c \in Contents /\ e \in Entries  BY DEF Contents, SoundFor
    <2>2. Updated(kept, t, x)  BY <1>3, <1>5, <1>8, <2>1, UpdateFits
    <2>3. CacheFits(t) /\ Keeps(cache, t)  BY <1>4, <2>2 DEF Updated, Keeps, Refers
    <2>4. x \in Named
      <3>1. s.ref \in Nat  BY <1>1 DEF CacheFits, CacheTypes
      <3> QED  BY <2>1, <3>1 DEF Named
    <2>5. /\ l.unsaved = log.unsaved \cup Work(c, e) /\ l.updated = log.updated \cup {x} /\ l.rejected = log.rejected
          /\ l \in Logs
      <3>1. l = [log EXCEPT !.unsaved = @ \cup Work(c, e), !.updated = @ \cup {x}]  BY <1>8 DEF Logged
      <3>2. Work(c, e) \subseteq Works  BY <2>1, PartsAreNamed
      <3> HIDE DEF x
      <3> QED  BY <1>6, <2>4, <3>1, <3>2 DEF Logs
    <2>6. x \in Range(t.dirty) /\ Range(t.dirty) \subseteq Range(cache.dirty) \cup {x} /\ t.heap[s.ref] = e
      BY <1>2, <1>3, <2>2 DEF Updated
    <2>7. ASSUME NEW m \in Range(cache.dirty) PROVE m \in Range(t.dirty) \/ (m.name = c /\ Excused(l, c))
      <3>1. CASE m.name # c  BY <1>3, <2>2, <3>1 DEF Updated
      <3>2. CASE m.name = c /\ m.ref = s.ref
        <4>1. m \in Named  BY <1>6 DEF Logs
        <4>2. m = x  BY <3>2, <4>1 DEF Named
        <4> QED  BY <2>6, <4>2
      <3>3. CASE m.name = c /\ m.ref # s.ref
        <4>1. m \in l.updated /\ x \in l.updated  BY <1>6, <2>5
        <4> QED  BY <3>3, <4>1 DEF Excused
      <3> QED  BY <3>1, <3>2, <3>3
    <2>8. ASSUME NEW w \in l.unsaved PROVE Excused(l, w.name) \/ Holds(t, Range(t.dirty), w)
      <3>1. CASE w \in log.unsaved
        <4> HIDE DEF c, x
        <4> QED  BY <2>3, <2>5, <2>7, <3>1, WorkStaysKept
      <3>2. CASE w \in Work(c, e)
        <4>1. w.name = x.name /\ w.part \in Parts(t.heap[x.ref])  BY <2>6, <3>2 DEF Work
        <4> QED  BY <2>6, <4>1 DEF Holds
      <3> QED  BY <2>5, <3>1, <3>2
    <2>9. Range(t.dirty) \subseteq l.updated  BY <1>6, <2>5, <2>6
    <2> QED  BY <2>3, <2>5, <2>8, <2>9 DEF Ended, WorkKept
  <1> QED  BY <1>7, <1>8

\* The turn of a file over, the invariant holds.
LEMMA TurnOver ==
  ASSUME CacheInv, NEW f \in Files, ahead # <<>>, Ended(cache', log'),
         outcomes' = [outcomes EXCEPT ![f] = Fresh(f)], ahead' = Tail(ahead), stage' = "run",
         UNCHANGED <<config, todo, pending>>
  PROVE  CacheInv'
  <1>1. /\ ahead \in Seq(Jobs) /\ config \in Configs /\ todo \in Seq(Files) /\ pending \in Seq(Named)
        /\ DOMAIN outcomes = Files /\ OutcomeIsFresh
    BY DEF CacheInv
  <1>2. Tail(ahead) \in Seq(Jobs) /\ Range(Tail(ahead)) \subseteq Range(ahead)  BY <1>1, RangeOfTail
  <1>3. /\ \A j \in Range(ahead) : JobFits(cache', config.enabled, j)
        /\ \A m \in Range(pending) : Refers(cache', m)
    BY ReferencesKept DEF Ended
  <1>4. DOMAIN outcomes' = Files /\ \A g \in Files : outcomes'[g] \in {None, Fresh(g)}
    BY <1>1 DEF OutcomeIsFresh
  <1>5. OutcomeIsFresh'  BY <1>4, FreshUnchanged DEF OutcomeIsFresh
  <1>6. CacheFits(cache') /\ log' \in Logs /\ WorkKept(cache', log')  BY DEF Ended
  <1> QED  BY <1>1, <1>2, <1>3, <1>4, <1>5, <1>6 DEF CacheInv

\* The entry that a lookup, or a job, leads to is sound for the bytes of the file.
LEMMA EntryIsSound ==
  ASSUME NEW s, NEW c, Allocated(cache, s, c)
  PROVE  SoundFor(s.heap[s.ref], c)
  <1>1. s.heap \in Seq(Entries) /\ s.ref \in DOMAIN s.heap /\ s.heap[s.ref].sha256 = c
    BY DEF Allocated, CacheFits, CacheTypes
  <1>2. s.heap[s.ref] \in Range(s.heap)  BY <1>1 DEF Range
  <1>3. s.heap[s.ref] \in Entries  BY <1>1, <1>2, RangeIn
  <1>4. Sound(s.heap[s.ref])  BY <1>2 DEF Allocated, CacheFits
  <1> QED  BY <1>1, <1>3, <1>4 DEF SoundFor

\* The reading of a file keeps the invariant.
LEMMA ReadAheadKeeps == CacheInv /\ ReadAhead => CacheInv'
  <1> SUFFICES ASSUME CacheInv, ReadAhead PROVE CacheInv'  OBVIOUS
  <1> DEFINE f == Head(todo)
  <1>1. todo \in Seq(Files) /\ todo # <<>> /\ ahead \in Seq(Jobs) /\ config \in Configs
    BY DEF CacheInv, ReadAhead
  <1>2. f \in Files /\ Tail(todo) \in Seq(Files)  BY <1>1, HeadTailProperties
  <1>3. stage = "run" /\ todo' = Tail(todo) /\ UNCHANGED <<config, stage, pending, listed, outcomes, log, events>>
    BY DEF ReadAhead
  <1>4. PICK ref \in Nat, c \in Entries \cup {None} :
          /\ ahead' = Append(ahead, [file |-> f, cached |-> ref, computed |-> c])
          /\ c # None => SoundFor(c, Content[f])
          /\ CacheFits(cache') /\ Keeps(cache, cache') /\ cache'.dirty = cache.dirty
          /\ config.enabled /\ c # None => Refers(cache', [name |-> Content[f], ref |-> ref])
    <2>0. \A c \in Computed(f) : c \in Entries \cup {None} /\ (c # None => SoundFor(c, Content[f]))
      BY <1>1, <1>2, ComputedIsSound DEF SoundFor
    <2>4. CacheFits(cache) /\ Keeps(cache, cache)  BY DEF CacheInv, Keeps
    <2> HIDE DEF f
    <2>1. CASE cache' = cache /\ ahead' = Append(ahead, [file |-> f, cached |-> 0, computed |-> None])
      BY <2>1, <2>4
    <2>2. CASE /\ ~config.enabled /\ cache' = cache
               /\ \E c \in Computed(f) : ahead' = Append(ahead, [file |-> f, cached |-> 0, computed |-> c])
      BY <2>0, <2>2, <2>4
    <2>3. CASE \E s \in Lookups(cache, Content[f]) :
                 /\ cache' = s
                 /\ \/ \E c \in Computed(f) : ahead' = Append(ahead, [file |-> f, cached |-> s.ref, computed |-> c])
                    \/ ahead' = Append(ahead, [file |-> f, cached |-> 0, computed |-> None])
      <3>1. cache' \in Lookups(cache, Content[f])  BY <2>3
      <3>2. Content[f] \in Contents  BY <1>2 DEF Contents
      <3>3. Allocated(cache, cache', Content[f])  BY <2>4, <3>1, <3>2, LookupsFit
      <3>4. cache'.ref \in Nat /\ Refers(cache', [name |-> Content[f], ref |-> cache'.ref])
        BY <3>3 DEF Allocated, CacheFits, CacheTypes, Refers
      <3>5. CacheFits(cache') /\ Keeps(cache, cache') /\ cache'.dirty = cache.dirty  BY <3>3 DEF Allocated
      <3>6. CASE \E c \in Computed(f) : ahead' = Append(ahead, [file |-> f, cached |-> cache'.ref, computed |-> c])
        BY <2>0, <3>4, <3>5, <3>6
      <3>7. CASE ahead' = Append(ahead, [file |-> f, cached |-> 0, computed |-> None])
        BY <3>5, <3>7
      <3> QED  BY <2>3, <3>6, <3>7
    <2> QED  BY <2>1, <2>2, <2>3 DEF ReadAhead, f
  <1> DEFINE j == [file |-> f, cached |-> ref, computed |-> c]
  <1>5. j \in Jobs /\ JobFits(cache', config.enabled, j)  BY <1>2, <1>4 DEF Jobs, JobFits
  <1>6. ahead' = Append(ahead, j)  BY <1>4
  <1> HIDE DEF j, f
  <1>7. ahead' \in Seq(Jobs) /\ Range(ahead') = Range(ahead) \cup {j}  BY <1>1, <1>5, <1>6, RangeOfAppend
  <1>8. /\ \A i \in Range(ahead) : JobFits(cache', config.enabled, i)
        /\ \A m \in Range(pending) : Refers(cache', m)
    BY <1>4, ReferencesKept
  <1>9. OutcomeIsFresh'  BY <1>3, FreshUnchanged DEF OutcomeIsFresh, CacheInv
  <1>10. log' \in Logs /\ WorkKept(cache', log')
    <2>1. \A w \in log.unsaved : Excused(log, w.name) \/ Holds(cache', Range(cache'.dirty), w)
      BY <1>4, WorkStaysKept
    <2> QED  BY <1>3, <1>4, <2>1 DEF WorkKept, CacheInv
  <1> QED  BY <1>1, <1>2, <1>3, <1>4, <1>5, <1>7, <1>8, <1>9, <1>10 DEF CacheInv

\* The turn of a file keeps the invariant.
LEMMA TurnKeeps == CacheInv /\ Turn => CacheInv'
  <1> SUFFICES ASSUME CacheInv, Turn PROVE CacheInv'  OBVIOUS
  <1> DEFINE job == Head(ahead)
             f == job.file
             c == Content[f]
  <1>1. /\ ahead \in Seq(Jobs) /\ ahead # <<>> /\ config \in Configs /\ CacheFits(cache)
        /\ stage = "run" /\ UNCHANGED <<config, todo, pending, listed, events>>
    BY DEF CacheInv, Turn, ReadyToRun
  <1>2. job \in Range(ahead)  BY <1>1, RangeOfTail
  <1>3. job \in Jobs /\ JobFits(cache, config.enabled, job)  BY <1>1, <1>2, RangeIn DEF CacheInv
  <1> HIDE DEF job
  <1>4. f \in Files /\ c \in Contents  BY <1>3 DEF Jobs, Contents
  <1>5. job.computed # None => SoundFor(job.computed, c)  BY <1>3 DEF JobFits
  <1>6. CASE ~config.enabled
    <2>1. PrepareContent(f, None).outcome = Fresh(f)  BY ContentStageAlone
    <2>2. PrepareContent(f, job.computed).outcome = Fresh(f)
      BY <1>1, <1>4, <1>5, <2>1, ContentStage DEF Prepared
    <2>3. /\ outcomes' = [outcomes EXCEPT ![f] = Fresh(f)]
          /\ ahead' = Tail(ahead) /\ stage' = "run" /\ cache' = cache /\ log' = log
      BY <1>1, <1>6, <2>1, <2>2 DEF Turn, job
    <2>4. Ended(cache', log')  BY <2>3 DEF Ended, CacheInv, Keeps
    <2> QED  BY <1>1, <1>4, <2>3, <2>4, TurnOver
  <1>7. CASE config.enabled
    <2>1. PICK s \in IF job.computed # None THEN {[cache EXCEPT !.ref = job.cached]} ELSE Lookups(cache, c) :
            LET e == IF job.computed # None THEN Seeded(s.heap[s.ref], job.computed) ELSE s.heap[s.ref]
                r == PrepareContent(f, e)
                kept == [s EXCEPT !.heap[s.ref] = r.entry]
            IN \/ /\ cache' \in Rejects(kept, c)
                  /\ stage' = "rebuild" /\ log' = [log EXCEPT !.rejected = @ \cup {c}]
                  /\ UNCHANGED <<outcomes, ahead>>
               \/ /\ \/ cache' = kept /\ log' = log
                     \/ cache' = Update(kept, c, s.ref) /\ log' = Logged(c, s.ref, r.entry)
                  /\ outcomes' = [outcomes EXCEPT ![f] = r.outcome]
                  /\ stage' = stage /\ ahead' = Tail(ahead)
      BY <1>7 DEF Turn, job
    <2> DEFINE e == IF job.computed # None THEN Seeded(s.heap[s.ref], job.computed) ELSE s.heap[s.ref]
               r == PrepareContent(f, e)
               kept == [s EXCEPT !.heap[s.ref] = r.entry]
    <2>2. Allocated(cache, s, c)
      <3>1. CASE job.computed = None  BY <1>1, <1>4, <2>1, <3>1, LookupsFit
      <3>2. CASE job.computed # None
        <4>1. s = [cache EXCEPT !.ref = job.cached] /\ job.cached \in Nat  BY <1>3, <2>1, <3>2 DEF Jobs
        <4>2. Refers(cache, [name |-> c, ref |-> job.cached])  BY <1>3, <1>7, <3>2 DEF JobFits
        <4>3. /\ s.heap = cache.heap /\ s.memory = cache.memory /\ s.dirty = cache.dirty
              /\ s.disk = cache.disk /\ s.ref = job.cached /\ CacheTypes(s)
          BY <1>1, <4>1 DEF CacheFits, CacheTypes
        <4>4. CacheFits(s)  BY <1>1, <4>3 DEF CacheFits, Refers
        <4> QED  BY <4>2, <4>3, <4>4 DEF Allocated, Keeps, Refers
      <3> QED  BY <3>1, <3>2
    <2>3. SoundFor(s.heap[s.ref], c)  BY <2>2, EntryIsSound
    <2>4. SoundFor(e, c) /\ Parts(s.heap[s.ref]) \subseteq Parts(e)
      BY <1>5, <2>3, SeededIsSound, SeedGrows DEF SoundFor
    <2> HIDE DEF e
    <2>5. Prepared(f, r) /\ Parts(e) \subseteq Parts(r.entry)
      BY <1>1, <1>4, <2>4, ContentStage, ContentStageGrows DEF SoundFor
    <2>6. r.outcome = Fresh(f) /\ SoundFor(r.entry, c) /\ Parts(s.heap[s.ref]) \subseteq Parts(r.entry)
      BY <2>4, <2>5 DEF Prepared
    <2>7. CASE /\ cache' \in Rejects(kept, c)
               /\ stage' = "rebuild" /\ log' = [log EXCEPT !.rejected = @ \cup {c}]
               /\ UNCHANGED <<outcomes, ahead>>
      <3> HIDE DEF r
      <3>1. Rewritten(s, kept)
        <4>1. CacheFits(s) /\ s.ref \in DOMAIN s.heap /\ s.heap[s.ref].sha256 = c  BY <2>2 DEF Allocated
        <4> QED  BY <2>6, <4>1, RewriteFits
      <3> HIDE DEF kept
      <3>2. CacheFits(kept) /\ kept.dirty = cache.dirty /\ Keeps(cache, kept)
        BY <2>2, <3>1 DEF Rewritten, Allocated, Keeps
      <3>3. Rejected(kept, cache', c)  BY <2>7, <3>2, RejectsFit
      <3>4. CacheFits(cache') /\ Keeps(cache, cache')  BY <3>2, <3>3 DEF Rejected, Keeps, Refers
      <3>5. log' \in Logs /\ WorkKept(cache', log')
        <4>1. log \in Logs /\ Range(cache.dirty) \subseteq log.updated  BY DEF CacheInv, WorkKept
        <4>2. /\ log' \in Logs /\ log'.unsaved = log.unsaved /\ log'.updated = log.updated
              /\ log'.rejected = log.rejected \cup {c}
          BY <1>4, <2>7, <4>1 DEF Logs
        <4>3. Excused(log', c)  BY <4>2 DEF Excused
        <4>4. /\ Range(cache'.dirty) \subseteq Range(cache.dirty)
              /\ \A m \in Range(cache.dirty) : m \in Range(cache'.dirty) \/ (m.name = c /\ Excused(log', c))
          BY <3>2, <3>3, <4>3 DEF Rejected
        <4> HIDE DEF c
        <4>5. \A w \in log.unsaved : Excused(log', w.name) \/ Holds(cache', Range(cache'.dirty), w)
          BY <3>4, <4>2, <4>4, WorkStaysKept
        <4> QED  BY <4>1, <4>2, <4>4, <4>5 DEF WorkKept
      <3>6. /\ \A i \in Range(ahead) : JobFits(cache', config.enabled, i)
            /\ \A m \in Range(pending) : Refers(cache', m)
        BY <3>4, ReferencesKept
      <3>7. OutcomeIsFresh'  BY <1>1, <2>7, FreshUnchanged DEF OutcomeIsFresh, CacheInv
      <3> QED  BY <1>1, <2>7, <3>4, <3>5, <3>6, <3>7 DEF CacheInv
    <2>8. CASE /\ \/ cache' = kept /\ log' = log
                  \/ cache' = Update(kept, c, s.ref) /\ log' = Logged(c, s.ref, r.entry)
               /\ outcomes' = [outcomes EXCEPT ![f] = r.outcome]
               /\ stage' = stage /\ ahead' = Tail(ahead)
      <3> HIDE DEF r
      <3>1. Ended(cache', log')  BY <1>4, <2>2, <2>6, <2>8, EntryEnds
      <3> QED  BY <1>1, <1>4, <2>6, <2>8, <3>1, TurnOver
    <2> QED  BY <2>1, <2>7, <2>8 DEF e
  <1> QED  BY <1>6, <1>7

\* The rebuilding of a rejected entry keeps the invariant.
LEMMA RebuildKeeps == CacheInv /\ Rebuild => CacheInv'
  <1> SUFFICES ASSUME CacheInv, Rebuild PROVE CacheInv'  OBVIOUS
  <1> DEFINE f == Head(ahead).file
             c == Content[f]
  <1>1. /\ ahead \in Seq(Jobs) /\ ahead # <<>> /\ config \in Configs /\ CacheFits(cache)
        /\ UNCHANGED <<config, todo, pending, listed, events>>
        /\ stage' = "run" /\ ahead' = Tail(ahead)
    BY DEF CacheInv, Rebuild
  <1>2. Head(ahead) \in Jobs  BY <1>1, HeadTailProperties
  <1>3. f \in Files /\ c \in Contents  BY <1>2 DEF Jobs, Contents
  <1>4. PICK s \in Lookups(cache, c) :
          LET r == PrepareContent(f, s.heap[s.ref])
              kept == [s EXCEPT !.heap[s.ref] = r.entry]
          IN /\ \/ cache' = kept /\ log' = log
                \/ cache' = Update(kept, c, s.ref) /\ log' = Logged(c, s.ref, r.entry)
             /\ outcomes' = [outcomes EXCEPT ![f] = r.outcome]
    BY DEF Rebuild
  <1> HIDE DEF f
  <1> DEFINE r == PrepareContent(f, s.heap[s.ref])
             kept == [s EXCEPT !.heap[s.ref] = r.entry]
  <1>5. Allocated(cache, s, c)  BY <1>1, <1>3, <1>4, LookupsFit
  <1>6. SoundFor(s.heap[s.ref], c)  BY <1>5, EntryIsSound
  <1>7. r.outcome = Fresh(f) /\ SoundFor(r.entry, c) /\ Parts(s.heap[s.ref]) \subseteq Parts(r.entry)
    BY <1>1, <1>3, <1>6, ContentStage, ContentStageGrows DEF Prepared, SoundFor
  <1>8. /\ \/ cache' = kept /\ log' = log
           \/ cache' = Update(kept, c, s.ref) /\ log' = Logged(c, s.ref, r.entry)
        /\ outcomes' = [outcomes EXCEPT ![f] = r.outcome]
    BY <1>4
  <1> HIDE DEF r
  <1>9. Ended(cache', log')  BY <1>3, <1>5, <1>7, <1>8, EntryEnds
  <1> QED  BY <1>1, <1>3, <1>7, <1>8, <1>9, TurnOver

\* The end of a preparation, and what follows it up to the next search, keeps the
\* invariant.
LEMMA StorageKeeps ==
  CacheInv /\ (PreparationEnds \/ FlushWrite \/ FlushFails \/ Evict \/ Clear \/ Discard \/ RemovalEnds) => CacheInv'
  <1> SUFFICES ASSUME CacheInv,
                      PreparationEnds \/ FlushWrite \/ FlushFails \/ Evict \/ Clear \/ Discard \/ RemovalEnds
               PROVE  CacheInv'
    OBVIOUS
  <1>1. /\ CacheFits(cache) /\ CacheTypes(cache) /\ cache.dirty \in Seq(Named) /\ pending \in Seq(Named)
        /\ cache.disk \in Seq(Stored)
        /\ config \in Configs /\ todo \in Seq(Files) /\ ahead \in Seq(Jobs) /\ DOMAIN outcomes = Files
    BY DEF CacheInv, CacheFits, CacheTypes
  <1>2. UNCHANGED <<config, todo, ahead, outcomes>>
    BY DEF PreparationEnds, FlushWrite, FlushFails, Evict, Clear, Discard, RemovalEnds
  <1>3. OutcomeIsFresh'  BY <1>2, FreshUnchanged DEF OutcomeIsFresh, CacheInv
  <1>4. <<>> \in Seq(Named) /\ Range(<<>>) = {}  BY DEF Range
  <1> SUFFICES /\ CacheFits(cache') /\ cache'.heap = cache.heap
               /\ pending' \in Seq(Named)
               /\ \A m \in Range(pending') : Refers(cache, m)
               /\ stage' # "rebuild"
               /\ log' \in Logs /\ Range(cache'.dirty) \subseteq log'.updated
               /\ \A w \in log'.unsaved : Excused(log', w.name) \/ Holds(cache, Range(cache'.dirty), w)
               /\ stage' = "flush" => \A w \in log'.unsaved : Excused(log', w.name) \/ Holds(cache, Range(pending'), w)
               /\ stage' \in {"evict", "clear"} => \A w \in log'.unsaved : Excused(log', w.name)
    <2>1. Keeps(cache, cache')  BY DEF Keeps, Refers
    <2>2. \A m \in Range(pending') : Refers(cache', m)  BY <2>1 DEF Keeps
    <2>3. \A j \in Range(ahead) : JobFits(cache', config.enabled, j)  BY <2>1, ReferencesKept
    <2>4. \A ms, w : Holds(cache, ms, w) => Holds(cache', ms, w)  BY DEF Holds
    <2>5. WorkKept(cache', log')  BY <2>4 DEF WorkKept
    <2>6. stage' = "flush" => \A w \in log'.unsaved : Excused(log', w.name) \/ Holds(cache', Range(pending'), w)
      BY <2>4
    <2> QED  BY <1>1, <1>2, <1>3, <2>2, <2>3, <2>5, <2>6 DEF CacheInv
  <1>kept. /\ log \in Logs /\ Range(cache.dirty) \subseteq log.updated
        /\ \A w \in log.unsaved : Excused(log, w.name) \/ Holds(cache, Range(cache.dirty), w)
    BY DEF CacheInv, WorkKept
  <1>5. CASE PreparationEnds
    <2>1. cache' = cache /\ log' = log  BY <1>5 DEF PreparationEnds
    <2>2. pending' \in {cache.dirty, <<>>} /\ stage' \in {"flush", "idle"}
          /\ (stage' = "flush" => pending' = cache.dirty)
      BY <1>5 DEF PreparationEnds
    <2>3. \A m \in Range(pending') : Refers(cache, m)  BY <1>1, <1>4, <2>2 DEF CacheFits
    <2> QED  BY <1>1, <1>4, <1>kept, <2>1, <2>2, <2>3
  <1>6. CASE FlushWrite
    <2> DEFINE h    == Head(pending)
               new  == [name |-> h.name, entry |-> cache.heap[h.ref]]
               rest == Without(cache.disk, new.name)
    <2>1. /\ stage = "flush" /\ stage' = "flush" /\ pending # <<>>
          /\ pending' = Tail(pending) /\ log' = [log EXCEPT !.unsaved = @ \ Work(new.name, new.entry)]
          /\ \/ cache' = cache
             \/ cache' = [cache EXCEPT !.disk = Append(rest, new)]
      BY <1>6 DEF FlushWrite
    <2>2. h \in Range(pending) /\ Tail(pending) \in Seq(Named) /\ Range(pending) = Range(Tail(pending)) \cup {h}
      BY <1>1, <2>1, RangeOfTail
    <2>3. h \in Named /\ Refers(cache, h)  BY <1>1, <2>2, RangeIn DEF CacheInv
    <2> HIDE DEF h
    <2>4. new \in Stored /\ (new.entry # None => SoundFor(new.entry, new.name))
      <3>1. cache.heap[h.ref].sha256 = h.name /\ h.ref \in DOMAIN cache.heap  BY <2>3 DEF Refers
      <3>2. cache.heap \in Seq(Entries) /\ cache.heap[h.ref] \in Range(cache.heap)
        BY <1>1, <3>1 DEF CacheTypes, Range
      <3>3. cache.heap[h.ref] \in Entries /\ Sound(cache.heap[h.ref])
        BY <1>1, <3>2, RangeIn DEF CacheFits
      <3> QED  BY <2>3, <3>1, <3>3 DEF SoundFor, Stored, Named
    <2> HIDE DEF new
    <2>5. rest \in Seq(Stored) /\ Range(rest) \subseteq Range(cache.disk)  BY <1>1, RangeOfWithout
    <2> HIDE DEF rest
    <2>6. Append(rest, new) \in Seq(Stored) /\ Range(Append(rest, new)) = Range(rest) \cup {new}
      BY <2>4, <2>5, RangeOfAppend
    <2>7. \A m \in Range(Append(rest, new)) : m.entry # None => SoundFor(m.entry, m.name)
      BY <1>1, <2>4, <2>5, <2>6 DEF CacheFits
    <2>8. CacheFits(cache') /\ cache'.heap = cache.heap /\ cache'.dirty = cache.dirty
      <3>1. CASE cache' = cache  BY <1>1, <3>1
      <3>2. CASE cache' = [cache EXCEPT !.disk = Append(rest, new)]
        <4>1. CacheFits(cache')  BY <1>1, <2>6, <2>7, <3>2, DiskExchanged
        <4> QED  BY <1>1, <3>2, <4>1 DEF CacheTypes
      <3> QED  BY <2>1, <3>1, <3>2
    <2>9. /\ log' \in Logs /\ log'.updated = log.updated /\ log'.rejected = log.rejected
          /\ log'.unsaved = log.unsaved \ Work(h.name, cache.heap[h.ref])
      BY <1>kept, <2>1 DEF Logs, new
    <2>10. \A c : Excused(log', c) = Excused(log, c)  BY <2>9 DEF Excused
    <2>11. ASSUME NEW w \in log'.unsaved PROVE Excused(log', w.name) \/ Holds(cache, Range(pending'), w)
      <3>1. w \in log.unsaved /\ w \notin Work(h.name, cache.heap[h.ref])  BY <2>9
      <3>2. w \in Works  BY <1>kept, <3>1 DEF Logs
      <3>3. w = [name |-> w.name, part |-> w.part]  BY <3>2 DEF Works
      <3>4. ~(w.name = h.name /\ w.part \in Parts(cache.heap[h.ref]))  BY <3>1, <3>3 DEF Work
      <3>5. CASE Excused(log, w.name)  BY <2>10, <3>5
      <3>6. CASE Holds(cache, Range(pending), w)
        <4>1. PICK m \in Range(pending) : m.name = w.name /\ w.part \in Parts(cache.heap[m.ref])
          BY <3>6 DEF Holds
        <4>2. m \in Range(Tail(pending))  BY <2>2, <3>4, <4>1
        <4> QED  BY <2>1, <4>1, <4>2 DEF Holds
      <3> QED  BY <2>1, <3>1, <3>5, <3>6 DEF CacheInv
    <2>12. \A w \in log'.unsaved : Excused(log', w.name) \/ Holds(cache, Range(cache.dirty), w)
      BY <1>kept, <2>9, <2>10
    <2>13. \A m \in Range(pending') : Refers(cache, m)  BY <2>1, <2>2 DEF CacheInv
    <2> QED  BY <1>kept, <2>1, <2>2, <2>8, <2>9, <2>11, <2>12, <2>13
  <1>7. CASE FlushFails
    BY <1>1, <1>4, <1>kept, <1>7 DEF FlushFails
  <1>8. CASE Evict
    <2>1. /\ stage = "flush" /\ pending = <<>> /\ stage' = "evict"
          /\ cache' = cache /\ pending' = pending /\ log' = log
      BY <1>8 DEF Evict
    <2>2. \A w : ~Holds(cache, Range(pending), w)  BY <1>4, <2>1 DEF Holds
    <2>3. \A w \in log.unsaved : Excused(log, w.name)  BY <2>1, <2>2 DEF CacheInv
    <2> QED  BY <1>1, <1>4, <1>kept, <2>1, <2>3
  <1>9. CASE Clear
    <2>1. /\ stage' \in {"clear", "idle"} /\ log' = NoLog /\ pending' = pending
          /\ cache' = [cache EXCEPT !.memory = <<>>, !.dirty = <<>>]
      BY <1>9 DEF Clear
    <2>2. CacheFits(cache') /\ cache'.heap = cache.heap
      <3>1. CacheFits([cache EXCEPT !.memory = <<>>])  BY <1>1, <1>4, MemoryExchanged DEF CacheTypes
      <3>2. CacheFits([[cache EXCEPT !.memory = <<>>] EXCEPT !.dirty = <<>>])  BY <1>4, <3>1, DirtyExchanged
      <3>3. cache' = [[cache EXCEPT !.memory = <<>>] EXCEPT !.dirty = <<>>]  BY <1>1, <2>1 DEF CacheTypes
      <3> QED  BY <1>1, <2>1, <3>2, <3>3 DEF CacheTypes
    <2>3. log' \in Logs /\ log'.unsaved = {}  BY <2>1 DEF NoLog, Logs
    <2>4. cache'.dirty = <<>>  BY <1>1, <2>1 DEF CacheTypes
    <2>5. \A m \in Range(pending) : Refers(cache, m)  BY DEF CacheInv
    <2> QED  BY <1>1, <1>4, <2>1, <2>2, <2>3, <2>4, <2>5
  <1>10. CASE Discard
    <2>1. /\ stage \in {"evict", "clear"} /\ stage' = stage /\ pending' = pending /\ log' = log
          /\ \/ cache' = cache
             \/ \E c : cache' = [cache EXCEPT !.disk = Without(@, c)]
      BY <1>10 DEF Discard, Removing
    <2>2. \A w \in log.unsaved : Excused(log, w.name)  BY <2>1 DEF CacheInv
    <2>3. CacheFits(cache') /\ cache'.heap = cache.heap /\ cache'.dirty = cache.dirty
      <3>1. CASE cache' = cache  BY <1>1, <3>1
      <3>2. CASE \E c : cache' = [cache EXCEPT !.disk = Without(@, c)]
        <4>1. PICK c : cache' = [cache EXCEPT !.disk = Without(@, c)]  BY <3>2
        <4>2. CacheFits(cache')  BY <1>1, <4>1, Undisked
        <4> QED  BY <1>1, <4>1, <4>2 DEF CacheTypes
      <3> QED  BY <2>1, <3>1, <3>2
    <2>4. \A m \in Range(pending) : Refers(cache, m)  BY DEF CacheInv
    <2> QED  BY <1>1, <1>kept, <2>1, <2>2, <2>3, <2>4
  <1>11. CASE RemovalEnds
    <2>1. /\ stage \in {"evict", "clear"} /\ stage' = "idle" /\ pending' = pending /\ log' = log
          /\ cache' = [cache EXCEPT !.dirty = <<>>]
      BY <1>11 DEF RemovalEnds
    <2>2. \A w \in log.unsaved : Excused(log, w.name)  BY <2>1 DEF CacheInv
    <2>3. CacheFits(cache')  BY <1>1, <1>4, <2>1, DirtyExchanged
    <2>4. cache'.heap = cache.heap /\ cache'.dirty = <<>>  BY <1>1, <2>1 DEF CacheTypes
    <2>5. \A m \in Range(pending) : Refers(cache, m)  BY DEF CacheInv
    <2> QED  BY <1>1, <1>4, <1>kept, <2>1, <2>2, <2>3, <2>4, <2>5
  <1> QED  BY <1>5, <1>6, <1>7, <1>8, <1>9, <1>10, <1>11

\* A search and a restart keep the invariant: what outlives the process is stored.
LEMMA SearchesKeep == CacheInv /\ (SearchAgain \/ Restart) => CacheInv'
  <1> SUFFICES ASSUME CacheInv, SearchAgain \/ Restart PROVE CacheInv'  OBVIOUS
  <1>1. /\ config' \in Configs /\ todo' = SetToSeq(Files) /\ ahead' = <<>> /\ pending' = <<>> /\ stage' = "run"
        /\ outcomes' = [f \in Files |-> None]
    BY DEF SearchAgain, Restart, SearchFrom, CacheInv
  <1>2. /\ todo' \in Seq(Files) /\ <<>> \in Seq(Jobs) /\ <<>> \in Seq(Named) /\ Range(<<>>) = {}
        /\ DOMAIN outcomes' = Files /\ OutcomeIsFresh'
    BY <1>1, FilesInOrder DEF Range, OutcomeIsFresh
  <1>3. CacheFits(cache') /\ log' \in Logs /\ WorkKept(cache', log')
    <2>1. CASE SearchAgain
      BY <2>1 DEF SearchAgain, SearchFrom, CacheInv
    <2>2. CASE Restart
      <3>1. cache' = [cache EXCEPT !.heap = <<>>, !.memory = <<>>, !.dirty = <<>>, !.ref = 0] /\ log' = NoLog
        BY <2>2 DEF Restart, SearchFrom
      <3>2. CacheFits(cache')  BY <3>1, EmptiedFits DEF CacheInv, CacheFits
      <3>3. cache'.dirty = <<>>  BY <3>1 DEF CacheInv, CacheFits, CacheTypes
      <3> QED  BY <1>2, <3>1, <3>2, <3>3 DEF NoLog, Logs, WorkKept
    <2> QED  BY <2>1, <2>2
  <1> QED  BY <1>1, <1>2, <1>3 DEF CacheInv

\* What other processes store is of the version that stored it, or is refused.
LEMMA ForeignIsSound ==
  ASSUME NEW f \in Files, NEW v \in Versions, NEW e \in Foreign(f, v)
  PROVE  SoundFor(e, Content[f])
  <1>1. PICK w \in {"ok", VerdictOf[v][Content[f]]}, n \in {LinesOf(f), LinesOf(f) + 1} :
          e = [sha256 |-> Content[f], scan |-> [version |-> v, verdict |-> w], tokens |-> [counter |-> v, lines |-> n],
               chunks |-> {[key |-> <<Identity[f], v>>, by |-> <<Identity[f], v>>, last |-> n]}]
    BY DEF Foreign
  <1>2. Content[f] \in Contents /\ Identity[f] \in Identities /\ w \in Verdicts
    BY DEF Contents, Identities, Verdicts
  <1>3. n \in Nat  BY <1>2, CacheAssumption DEF LinesOf
  <1>4. e \in Entries  BY <1>1, <1>2, <1>3 DEF Entries
  <1> QED  BY <1>1, <1>4 DEF SoundFor, Sound

\* What other processes do to the store keeps the invariant.
LEMMA OthersKeep == CacheInv /\ Others => CacheInv'
  <1> SUFFICES ASSUME CacheInv, Others PROVE CacheInv'  OBVIOUS
  <1>1. CacheFits(cache) /\ CacheTypes(cache) /\ cache.disk \in Seq(Stored)  BY DEF CacheInv, CacheFits, CacheTypes
  <1>2. UNCHANGED <<config, todo, ahead, stage, pending, listed, outcomes, log>>  BY DEF Others
  <1>3. PICK f \in Files : \E d \in {Without(cache.disk, Content[f])}
                 \cup {Append(Without(cache.disk, Content[f]), [name |-> Content[f], entry |-> e]) :
                         e \in {None} \cup UNION {Foreign(f, v) : v \in Versions}} :
               cache' = [cache EXCEPT !.disk = d]
    BY DEF Others
  <1> DEFINE rest == Without(cache.disk, Content[f])
  <1>4. rest \in Seq(Stored) /\ Range(rest) \subseteq Range(cache.disk)  BY <1>1, RangeOfWithout
  <1>5. \A m \in Range(rest) : m.entry # None => SoundFor(m.entry, m.name)  BY <1>1, <1>4 DEF CacheFits
  <1>6. PICK d \in Seq(Stored) :
          /\ \A m \in Range(d) : m.entry # None => SoundFor(m.entry, m.name)
          /\ cache' = [cache EXCEPT !.disk = d]
    <2> HIDE DEF rest
    <2>1. CASE cache' = [cache EXCEPT !.disk = rest]  BY <1>4, <1>5, <2>1
    <2>2. CASE \E e \in {None} \cup UNION {Foreign(f, v) : v \in Versions} :
                 cache' = [cache EXCEPT !.disk = Append(rest, [name |-> Content[f], entry |-> e])]
      <3>1. PICK e \in {None} \cup UNION {Foreign(f, v) : v \in Versions} :
              cache' = [cache EXCEPT !.disk = Append(rest, [name |-> Content[f], entry |-> e])]
        BY <2>2
      <3> DEFINE m == [name |-> Content[f], entry |-> e]
      <3>2. e # None => SoundFor(e, Content[f])  BY ForeignIsSound
      <3>3. m \in Stored /\ (m.entry # None => SoundFor(m.entry, m.name))
        BY <3>2 DEF Stored, Contents, SoundFor
      <3> HIDE DEF m
      <3>4. Append(rest, m) \in Seq(Stored) /\ Range(Append(rest, m)) = Range(rest) \cup {m}
        BY <1>4, <3>3, RangeOfAppend
      <3>5. \A x \in Range(Append(rest, m)) : x.entry # None => SoundFor(x.entry, x.name)
        BY <1>5, <3>3, <3>4
      <3> QED  BY <3>1, <3>4, <3>5 DEF m
    <2> QED  BY <1>3, <2>1, <2>2 DEF rest
  <1>7. CacheFits(cache') /\ cache'.heap = cache.heap /\ cache'.dirty = cache.dirty
    BY <1>1, <1>6, DiskExchanged DEF CacheTypes
  <1>8. Keeps(cache, cache')  BY <1>7 DEF Keeps, Refers
  <1>9. /\ \A j \in Range(ahead) : JobFits(cache', config.enabled, j)
        /\ \A m \in Range(pending) : Refers(cache', m)
    BY <1>8, ReferencesKept
  <1>10. OutcomeIsFresh'  BY <1>2, FreshUnchanged DEF OutcomeIsFresh, CacheInv
  <1>11. \A ms, w : Holds(cache', ms, w) = Holds(cache, ms, w)  BY <1>7 DEF Holds
  <1>12. WorkKept(cache', log')  BY <1>2, <1>7, <1>11 DEF WorkKept, CacheInv
  <1>13. stage = "flush" => \A w \in log.unsaved : Excused(log, w.name) \/ Holds(cache', Range(pending), w)
    BY <1>11 DEF CacheInv
  <1> QED  BY <1>2, <1>7, <1>9, <1>10, <1>12, <1>13 DEF CacheInv

\* Every step keeps the invariant.
LEMMA CacheStep == CacheInv /\ [CacheNext]_cacheVars => CacheInv'
  <1> SUFFICES ASSUME CacheInv, [CacheNext]_cacheVars PROVE CacheInv'  OBVIOUS
  <1>1. CASE CacheNext
    BY <1>1, ReadAheadKeeps, TurnKeeps, RebuildKeeps, StorageKeeps, SearchesKeep, OthersKeep DEF CacheNext
  <1>2. CASE UNCHANGED cacheVars
    <2>1. OutcomeIsFresh'
      BY <1>2, FreshUnchanged DEF OutcomeIsFresh, CacheInv, cacheVars
    <2> QED  BY <1>2, <2>1 DEF CacheInv, cacheVars
  <1> QED  BY <1>1, <1>2

\* The invariant of the cache: every entry, wherever it is held, is sound for the
\* content it is filed under.
THEOREM CacheInvariant == CacheSpec => []CacheInv
  BY CacheInitially, CacheStep, PTL DEF CacheSpec

\* prepare.ts:437-445: whatever was stored by whichever version, shared by files of the
\* same bytes, seeded, rejected or lost, what a search makes of a file is what its bytes
\* and the running version give.
THEOREM OutcomesAreFresh == CacheSpec => []OutcomeIsFresh
  <1>1. CacheInv => OutcomeIsFresh  BY DEF CacheInv
  <1> QED  BY <1>1, CacheInvariant, PTL

\* preparation-cache.ts:242-245, :263-283: each part of an entry that an update recorded is
\* in the dirty entry of its bytes until a flush has written that entry or found it too
\* large, whatever fails, is forgotten, rewritten or evicted meanwhile -- but for bytes of which an entry was
\* rejected (:250), or of which two distinct entries were updated (:246).
THEOREM RecordedStaysKept == CacheSpec => []RecordedIsKept
  <1>1. CacheInv => RecordedIsKept
    <2> SUFFICES ASSUME CacheInv, NEW w \in log.unsaved
                 PROVE  Kept(w) \/ w.name \in log.rejected \/ Displaced(w.name)
      BY DEF RecordedIsKept
    <2>1. Excused(log, w.name) \/ Holds(cache, Range(cache.dirty), w)  BY DEF CacheInv, WorkKept
    <2>2. Excused(log, w.name) => w.name \in log.rejected \/ Displaced(w.name)  BY DEF Excused, Displaced
    <2>3. Holds(cache, Range(cache.dirty), w) => Kept(w)  BY DEF Holds, Kept, Range
    <2> QED  BY <2>1, <2>2, <2>3
  <1> QED  BY <1>1, CacheInvariant, PTL

-----------------------------------------------------------------------------
(* The writer lock.                                                        *)

Candidate == {"rename", "open", "list", "probe", "unlink", "confirm", "rmdir", "again"}
Holder    == {"published", "inside", "release"}

\* A process that lives answers a signal.
TheLivingAnswer == \A p \in Procs : pc[p] # "dead" => p \in answers

\* Before publication a process has its candidate, with its marker once written.
HasCandidate ==
  \A p \in Procs :
    /\ pc[p] = "made" => Marker(p) \in candidates
    /\ pc[p] \in Candidate => Marker(p) \in candidates /\ Marker(p) \in marked

\* From publication to release the lock is its own directory, with its marker.
HoldsLock ==
  \A p \in Procs : pc[p] \in Holder =>
    lock = Marker(p) /\ Marker(p) \in marked /\ Marker(p) \notin candidates

\* A marker about to be unlinked by another is a dead process's.
FoundIsDead ==
  \A p \in Procs : pc[p] = "unlink" =>
    found[p] \in Markers /\ pc[Owner(found[p])] = "dead"

\* What a living process has in the directory is of its current attempt.
IsCurrent(m) ==
  /\ m = Marker(Owner(m))
  /\ pc[Owner(m)] \notin {"idle", "reopen", "drop"}
OnlyCurrent ==
  \A m \in candidates \cup marked : pc[Owner(m)] = "dead" \/ IsCurrent(m)

IInv ==
  /\ TypeOK /\ TheLivingAnswer /\ HasCandidate /\ HoldsLock
  /\ FoundIsDead /\ OnlyCurrent

\* Markers of two processes differ, and name their processes.
LEMMA MarkersDiffer ==
  \A p, q \in Procs : Owner(Marker(p)) = p /\ (Marker(p) = Marker(q) => p = q)
  BY DEF Owner, Marker

\* The lock that is held has its marker.
LEMMA HolderMarked ==
  HoldsLock => \A q \in Procs : pc[q] \in Holder => lock \in marked
  BY DEF HoldsLock

\* The initial state has the invariant.
LEMMA Initially == Init => IInv
  BY LockAssumption DEF Init, IInv, TypeOK, PC, Markers, TheLivingAnswer, HasCandidate, HoldsLock,
     FoundIsDead, OnlyCurrent, Candidate, Holder

USE DEF Goto, Local, dirs, Empty, StillThere, Replaced, Finish

\* Every step keeps it.
LEMMA Step == IInv /\ [Next]_vars => IInv'
<1> SUFFICES ASSUME IInv, [Next]_vars PROVE IInv'
  OBVIOUS
<1> USE LockAssumption, MarkersDiffer DEF IInv, TypeOK, PC, TheLivingAnswer, HasCandidate, HoldsLock,
     FoundIsDead, OnlyCurrent, IsCurrent, Candidate, Holder, Owner, Marker, Markers
<1>0. \A q \in Procs : pc[q] \in Holder => lock \in marked
  BY HolderMarked
<1>1. CASE UNCHANGED vars
  BY <1>1 DEF vars
<1>2. ASSUME NEW p \in Procs, Start(p) PROVE IInv'
  <2> USE <1>2 DEF Start
  <2>1. TypeOK'
    <3>1. tries[p] + 1 \in 1 .. MaxTries
      OBVIOUS
    <3>2. candidates' \subseteq Markers /\ marked' \subseteq Markers
      BY <3>1
    <3>3. marked' \subseteq candidates' \cup {lock'}
      OBVIOUS
    <3>4. /\ tries' \in [Procs -> 0 .. MaxTries] /\ pc' \in [Procs -> PC]
          /\ outcome' \in [Procs -> {"none", "ok", "failed"}]
          /\ ran' \in [Procs -> {"no", "completed", "threw"}]
      BY <3>1
    <3>5. swept' \in [Procs -> BOOLEAN] /\ alone' \in [Procs -> BOOLEAN]
      BY Zenon
    <3>6. UNCHANGED <<lock, answers, seen, found>>
      OBVIOUS
    <3> HIDE <1>2 DEF Start
    <3> QED
      BY <3>2, <3>3, <3>4, <3>5, <3>6
  <2>2. TheLivingAnswer'
    OBVIOUS
  <2>3. HasCandidate'
    OBVIOUS
  <2>4. HoldsLock'
    OBVIOUS
  <2>5. FoundIsDead'
    OBVIOUS
  <2>6. OnlyCurrent'
    OBVIOUS
  <2> QED
    BY <2>1, <2>2, <2>3, <2>4, <2>5, <2>6
<1>3. ASSUME NEW p \in Procs, WriteMarker(p) PROVE IInv'
  BY <1>3 DEF WriteMarker
<1>3a. ASSUME NEW p \in Procs, WriteFails(p) PROVE IInv'
  BY <1>3a DEF WriteFails
<1>4. ASSUME NEW p \in Procs, Rename(p) PROVE IInv'
  <2> USE <1>4 DEF Rename
  <2>1. TypeOK'
    <3>1. lock \notin marked /\ Marker(p) \in Markers
      OBVIOUS
    <3> QED
      BY <3>1
  <2>2. TheLivingAnswer'
    OBVIOUS
  <2>3. HasCandidate'
    OBVIOUS
  <2>4. HoldsLock'
    <3>1. ASSUME NEW q \in Procs PROVE pc[q] \notin Holder
      <4>1. lock \notin marked
        OBVIOUS
      <4> QED
        BY <4>1, <1>0
    <3>2. Marker(p)' = Marker(p) /\ lock' = Marker(p) /\ Marker(p) \in marked'
      OBVIOUS
    <3>3. Marker(p) \notin candidates'
      OBVIOUS
    <3> QED
      BY <3>1, <3>2, <3>3
  <2>5. FoundIsDead'
    OBVIOUS
  <2>6. OnlyCurrent'
    OBVIOUS
  <2> QED
    BY <2>1, <2>2, <2>3, <2>4, <2>5, <2>6
<1>5. ASSUME NEW p \in Procs, RenameFails(p) PROVE IInv'
  BY <1>5 DEF RenameFails
<1>6. ASSUME NEW p \in Procs, Enter(p) PROVE IInv'
  BY <1>6 DEF Enter
<1>7. ASSUME NEW p \in Procs, Open(p) PROVE IInv'
  BY <1>7 DEF Open
<1>8. ASSUME NEW p \in Procs, List(p) PROVE IInv'
  BY <1>8 DEF List
<1>9. ASSUME NEW p \in Procs, Probe(p) PROVE IInv'
  <2> USE <1>9 DEF Probe, OwnerIsGone
  <2>1. TypeOK'
    OBVIOUS
  <2>2. TheLivingAnswer'
    OBVIOUS
  <2>3. HasCandidate'
    OBVIOUS
  <2>4. HoldsLock'
    OBVIOUS
  <2>5. FoundIsDead'
    OBVIOUS
  <2>6. OnlyCurrent'
    OBVIOUS
  <2> QED
    BY <2>1, <2>2, <2>3, <2>4, <2>5, <2>6
<1>10. ASSUME NEW p \in Procs, ProbeFails(p) PROVE IInv'
  BY <1>10 DEF ProbeFails
<1>11. ASSUME NEW p \in Procs, Unlink(p) PROVE IInv'
  BY <1>11 DEF Unlink, Unlinked
<1>12. ASSUME NEW p \in Procs, Confirm(p) PROVE IInv'
  BY <1>12 DEF Confirm
<1>13. ASSUME NEW p \in Procs, CheckFails(p) PROVE IInv'
  BY <1>13 DEF CheckFails
<1>14. ASSUME NEW p \in Procs, Rmdir(p) PROVE IInv'
  BY <1>14 DEF Rmdir
<1>15. ASSUME NEW p \in Procs, RmdirFails(p) PROVE IInv'
  BY <1>15 DEF RmdirFails
<1>16. ASSUME NEW p \in Procs, Leave(p) PROVE IInv'
  BY <1>16 DEF Leave
<1>17. ASSUME NEW p \in Procs, Release(p) PROVE IInv'
  <2> USE <1>17 DEF Release
  <2>1. TypeOK'
    OBVIOUS
  <2>2. TheLivingAnswer'
    OBVIOUS
  <2>3. HasCandidate'
    OBVIOUS
  <2>4. HoldsLock'
    OBVIOUS
  <2>5. FoundIsDead'
    OBVIOUS
  <2>6. OnlyCurrent'
    <3> SUFFICES ASSUME NEW m \in candidates' \cup marked', pc'[Owner(m)] # "dead"
                 PROVE  IsCurrent(m)'
      OBVIOUS
    <3>1. m \in candidates \cup marked /\ m \in Markers
      OBVIOUS
    <3>2. m # Marker(p)
      <4>1. lock = Marker(p) /\ Marker(p) \notin candidates
        OBVIOUS
      <4> QED
        BY <4>1
    <3>3. Owner(m) # p
      BY <3>1, <3>2
    <3> QED
      BY <3>1, <3>3
  <2> QED
    BY <2>1, <2>2, <2>3, <2>4, <2>5, <2>6
<1>18. ASSUME NEW p \in Procs, Reopen(p) PROVE IInv'
  BY <1>18 DEF Reopen
<1>19. ASSUME NEW p \in Procs, Drop(p) PROVE IInv'
  BY <1>19 DEF Drop, Result
<1>20. ASSUME NEW p \in Procs, NothingToDrop(p) PROVE IInv'
  BY <1>20 DEF NothingToDrop, Result
<1>21. ASSUME NEW p \in Procs, DropThrows(p) PROVE IInv'
  BY <1>21 DEF DropThrows
<1>22. ASSUME NEW p \in Procs, Cleanup(p) PROVE IInv'
  BY <1>22 DEF Cleanup, Removed
<1>23. ASSUME NEW p \in Procs, Die(p) PROVE IInv'
  BY <1>23 DEF Die
<1>24. ASSUME NEW p \in Procs, IdReused(p) PROVE IInv'
  BY <1>24 DEF IdReused
<1> QED
  BY <1>1, <1>2, <1>3, <1>3a, <1>4, <1>5, <1>6, <1>7, <1>8, <1>9, <1>10, <1>11, <1>12, <1>13,
     <1>14, <1>15, <1>16, <1>17, <1>18, <1>19, <1>20, <1>21, <1>22, <1>23, <1>24
     DEF Next, Acquire, Recover, GiveUp

USE DEF IInv

\* The invariant holds throughout.
THEOREM Invariance == Spec => []IInv
<1> QED
  BY Initially, Step, PTL DEF Spec

\* Variables keep their types, and every marker is in a directory that exists.
THEOREM TypeCorrect == Spec => []TypeOK
<1>1. IInv => TypeOK
  OBVIOUS
<1> QED
  BY <1>1, Invariance, PTL

\* No two processes are in their operations at once (src/local-directory.ts:119-138).
THEOREM Exclusion == Spec => []MutualExclusion
<1>1. IInv => MutualExclusion
  <2> SUFFICES ASSUME HoldsLock, NEW p \in Procs, NEW q \in Procs,
                      pc[p] = "inside", pc[q] = "inside"
               PROVE  p = q
    BY DEF MutualExclusion
  <2>1. lock = Marker(p) /\ lock = Marker(q)
    BY DEF HoldsLock, Holder
  <2> QED
    BY <2>1, MarkersDiffer
<1> QED
  BY <1>1, Invariance, PTL

\* Who is not at work has left no candidate and no marker (finally block,
\* src/local-directory.ts:139-152).
THEOREM Tidiness == Spec => []NothingLeftBehind
<1>1. IInv => NothingLeftBehind
  BY DEF NothingLeftBehind, OnlyCurrent, IsCurrent
<1> QED
  BY <1>1, Invariance, PTL

-----------------------------------------------------------------------------
(* Markers are removed by their owners or after their death.               *)

\* Whose marker a step removes.
LEMMA Robbing ==
  IInv /\ [Next]_vars =>
    \A m \in marked \ marked' :
      \/ pc[Owner(m)] = "dead"
      \/ pc[Owner(m)] # pc'[Owner(m)] /\ pc'[Owner(m)] # "dead"
<1> SUFFICES ASSUME IInv, [Next]_vars, NEW m \in marked \ marked', pc[Owner(m)] # "dead"
             PROVE  pc[Owner(m)] # pc'[Owner(m)] /\ pc'[Owner(m)] # "dead"
  OBVIOUS
<1>0. m \in Markers /\ Owner(m) \in Procs /\ Owner(m) \in answers
  BY DEF TypeOK, Markers, Owner, TheLivingAnswer
<1>1. PICK p \in Procs : Start(p) \/ Unlink(p) \/ Release(p) \/ Cleanup(p)
  BY DEF Next, vars, Acquire, Recover, GiveUp, Start, WriteMarker, WriteFails, Rename, RenameFails, Enter,
     Open, List, Probe, ProbeFails, Unlink, Confirm, CheckFails, Rmdir, RmdirFails, Leave,
     Release, Reopen, Drop, NothingToDrop, DropThrows, Cleanup, Die, IdReused
<1>2. CASE Start(p)
  BY <1>0, <1>2 DEF Start
<1>3. CASE Unlink(p)
  BY <1>3 DEF Unlink, Unlinked, FoundIsDead
<1>4. CASE Release(p) \/ Cleanup(p)
  <2>1. m = Marker(p) /\ pc[p] \in {"release", "cleanup"} /\ pc'[p] \in {"reopen", "idle"}
    BY <1>4 DEF Release, Cleanup, Removed, TypeOK
  <2> QED
    BY <2>1, MarkersDiffer
<1> QED
  BY <1>1, <1>2, <1>3, <1>4

\* OnlyTheDeadAreRobbed (src/local-directory.ts:140-143, 166-170).
THEOREM NobodyAliveIsRobbed == Spec => OnlyTheDeadAreRobbed
<1> QED
  BY Invariance, Robbing, PTL DEF Spec, OnlyTheDeadAreRobbed

-----------------------------------------------------------------------------
(* Who is alone comes to its operation.                                    *)

\* The lock is no candidate, and numbers of attempts to come are not in use.
LockIsOld ==
  /\ lock # NoDir => lock \notin candidates /\ lock[2] <= tries[Owner(lock)]
  /\ \A m \in candidates : m[2] <= tries[Owner(m)]

\* Who releases the lock has run its operation, and has no outcome yet.
RanBefore ==
  \A p \in Procs :
    /\ pc[p] \in {"release", "reopen", "drop"} => ran[p] # "no"
    /\ p \in Working => outcome[p] = "none"

\* What a process that is alone finds, step by step.
FindsWay(p) ==
  /\ Working = {p} /\ Reused = {}
  /\ pc[p] # "cleanup"
  /\ pc[p] \in {"open", "list", "probe", "unlink", "confirm", "rmdir"} => lock # NoDir
  /\ pc[p] \in {"list", "probe", "unlink", "confirm", "drop"} => lock = seen[p]
  /\ pc[p] \in {"probe", "unlink"} => lock = found[p]
  /\ pc[p] = "probe" => ~Empty(lock)
  /\ pc[p] \in {"confirm", "rmdir"} => Empty(lock)
  /\ pc[p] = "again" => lock = NoDir
AloneFindsWay == \A p \in Procs : alone[p] /\ p \in Working => FindsWay(p)

AInv == IInv /\ LockIsOld /\ RanBefore /\ AloneFindsWay /\ AloneEnters

\* Steps keep LockIsOld.
LEMMA StepOld == IInv /\ LockIsOld /\ [Next]_vars => LockIsOld'
<1> SUFFICES ASSUME IInv, LockIsOld, [Next]_vars PROVE LockIsOld'
  OBVIOUS
<1> USE LockAssumption DEF TypeOK, LockIsOld, HasCandidate, Candidate, Owner, Marker, Markers
<1>1. CASE UNCHANGED vars
  BY <1>1 DEF vars, Working, Reused
<1>2. ASSUME NEW p \in Procs, Start(p) PROVE LockIsOld'
  BY <1>2 DEF Start
<1>3. ASSUME NEW p \in Procs, WriteMarker(p) PROVE LockIsOld'
  BY <1>3 DEF WriteMarker
<1>3a. ASSUME NEW p \in Procs, WriteFails(p) PROVE LockIsOld'
  BY <1>3a DEF WriteFails
<1>4. ASSUME NEW p \in Procs, Rename(p) PROVE LockIsOld'
  BY <1>4 DEF Rename
<1>5. ASSUME NEW p \in Procs, RenameFails(p) PROVE LockIsOld'
  BY <1>5 DEF RenameFails
<1>6. ASSUME NEW p \in Procs, Enter(p) PROVE LockIsOld'
  BY <1>6 DEF Enter
<1>7. ASSUME NEW p \in Procs, Open(p) PROVE LockIsOld'
  BY <1>7 DEF Open
<1>8. ASSUME NEW p \in Procs, List(p) PROVE LockIsOld'
  BY <1>8 DEF List
<1>9. ASSUME NEW p \in Procs, Probe(p) PROVE LockIsOld'
  BY <1>9 DEF Probe, OwnerIsGone
<1>10. ASSUME NEW p \in Procs, ProbeFails(p) PROVE LockIsOld'
  BY <1>10 DEF ProbeFails, OwnerIsGone
<1>11. ASSUME NEW p \in Procs, Unlink(p) PROVE LockIsOld'
  BY <1>11 DEF Unlink, Unlinked
<1>12. ASSUME NEW p \in Procs, Confirm(p) PROVE LockIsOld'
  BY <1>12 DEF Confirm
<1>13. ASSUME NEW p \in Procs, CheckFails(p) PROVE LockIsOld'
  BY <1>13 DEF CheckFails
<1>14. ASSUME NEW p \in Procs, Rmdir(p) PROVE LockIsOld'
  BY <1>14 DEF Rmdir
<1>15. ASSUME NEW p \in Procs, RmdirFails(p) PROVE LockIsOld'
  BY <1>15 DEF RmdirFails
<1>16. ASSUME NEW p \in Procs, Leave(p) PROVE LockIsOld'
  BY <1>16 DEF Leave
<1>17. ASSUME NEW p \in Procs, Release(p) PROVE LockIsOld'
  BY <1>17 DEF Release
<1>18. ASSUME NEW p \in Procs, Reopen(p) PROVE LockIsOld'
  BY <1>18 DEF Reopen
<1>19. ASSUME NEW p \in Procs, Drop(p) PROVE LockIsOld'
  BY <1>19 DEF Drop, Result
<1>20. ASSUME NEW p \in Procs, NothingToDrop(p) PROVE LockIsOld'
  BY <1>20 DEF NothingToDrop, Result
<1>21. ASSUME NEW p \in Procs, DropThrows(p) PROVE LockIsOld'
  BY <1>21 DEF DropThrows
<1>22. ASSUME NEW p \in Procs, Cleanup(p) PROVE LockIsOld'
  BY <1>22 DEF Cleanup, Removed
<1>23. ASSUME NEW p \in Procs, Die(p) PROVE LockIsOld'
  BY <1>23 DEF Die
<1>24. ASSUME NEW p \in Procs, IdReused(p) PROVE LockIsOld'
  BY <1>24 DEF IdReused
<1> QED
  BY <1>1, <1>2, <1>3, <1>3a, <1>4, <1>5, <1>6, <1>7, <1>8, <1>9, <1>10, <1>11, <1>12,
     <1>13, <1>14, <1>15, <1>16, <1>17, <1>18, <1>19, <1>20, <1>21, <1>22, <1>23, <1>24
     DEF Next, Acquire, Recover, GiveUp

\* Steps keep RanBefore.
LEMMA StepRan == IInv /\ RanBefore /\ [Next]_vars => RanBefore'
<1> SUFFICES ASSUME IInv, RanBefore, [Next]_vars PROVE RanBefore'
  OBVIOUS
<1> USE DEF TypeOK, RanBefore, HoldsLock, Holder, Working
<1>1. CASE UNCHANGED vars
  BY <1>1 DEF vars, Working, Reused
<1>2. ASSUME NEW p \in Procs, Start(p) PROVE RanBefore'
  BY <1>2 DEF Start
<1>3. ASSUME NEW p \in Procs, WriteMarker(p) PROVE RanBefore'
  BY <1>3 DEF WriteMarker
<1>3a. ASSUME NEW p \in Procs, WriteFails(p) PROVE RanBefore'
  BY <1>3a DEF WriteFails
<1>4. ASSUME NEW p \in Procs, Rename(p) PROVE RanBefore'
  BY <1>4 DEF Rename
<1>5. ASSUME NEW p \in Procs, RenameFails(p) PROVE RanBefore'
  BY <1>5 DEF RenameFails
<1>6. ASSUME NEW p \in Procs, Enter(p) PROVE RanBefore'
  BY <1>6 DEF Enter
<1>7. ASSUME NEW p \in Procs, Open(p) PROVE RanBefore'
  BY <1>7 DEF Open
<1>8. ASSUME NEW p \in Procs, List(p) PROVE RanBefore'
  BY <1>8 DEF List
<1>9. ASSUME NEW p \in Procs, Probe(p) PROVE RanBefore'
  BY <1>9 DEF Probe, OwnerIsGone
<1>10. ASSUME NEW p \in Procs, ProbeFails(p) PROVE RanBefore'
  BY <1>10 DEF ProbeFails, OwnerIsGone
<1>11. ASSUME NEW p \in Procs, Unlink(p) PROVE RanBefore'
  BY <1>11 DEF Unlink, Unlinked
<1>12. ASSUME NEW p \in Procs, Confirm(p) PROVE RanBefore'
  BY <1>12 DEF Confirm
<1>13. ASSUME NEW p \in Procs, CheckFails(p) PROVE RanBefore'
  BY <1>13 DEF CheckFails
<1>14. ASSUME NEW p \in Procs, Rmdir(p) PROVE RanBefore'
  BY <1>14 DEF Rmdir
<1>15. ASSUME NEW p \in Procs, RmdirFails(p) PROVE RanBefore'
  BY <1>15 DEF RmdirFails
<1>16. ASSUME NEW p \in Procs, Leave(p) PROVE RanBefore'
  BY <1>16 DEF Leave
<1>17. ASSUME NEW p \in Procs, Release(p) PROVE RanBefore'
  BY <1>17 DEF Release
<1>18. ASSUME NEW p \in Procs, Reopen(p) PROVE RanBefore'
  BY <1>18 DEF Reopen
<1>19. ASSUME NEW p \in Procs, Drop(p) PROVE RanBefore'
  BY <1>19 DEF Drop, Result
<1>20. ASSUME NEW p \in Procs, NothingToDrop(p) PROVE RanBefore'
  BY <1>20 DEF NothingToDrop, Result
<1>21. ASSUME NEW p \in Procs, DropThrows(p) PROVE RanBefore'
  BY <1>21 DEF DropThrows
<1>22. ASSUME NEW p \in Procs, Cleanup(p) PROVE RanBefore'
  BY <1>22 DEF Cleanup, Removed
<1>23. ASSUME NEW p \in Procs, Die(p) PROVE RanBefore'
  BY <1>23 DEF Die
<1>24. ASSUME NEW p \in Procs, IdReused(p) PROVE RanBefore'
  BY <1>24 DEF IdReused
<1> QED
  BY <1>1, <1>2, <1>3, <1>3a, <1>4, <1>5, <1>6, <1>7, <1>8, <1>9, <1>10, <1>11, <1>12,
     <1>13, <1>14, <1>15, <1>16, <1>17, <1>18, <1>19, <1>20, <1>21, <1>22, <1>23, <1>24
     DEF Next, Acquire, Recover, GiveUp

\* A lock that a process alone finds with a marker is a dead process's.
LEMMA LockOfTheDead ==
  ASSUME IInv, LockIsOld, NEW p \in Procs, Working = {p}, Reused = {},
         pc[p] \in Candidate, lock \in marked
  PROVE  Owner(lock) \notin answers
<1>1. lock # NoDir /\ Owner(lock) \in Procs /\ lock # Marker(p)
  BY LockAssumption DEF TypeOK, Markers, Owner, LockIsOld, HasCandidate
<1>2. pc[Owner(lock)] # "dead" => lock = Marker(Owner(lock)) /\ Owner(lock) \in Working
  BY <1>1 DEF OnlyCurrent, IsCurrent, Working
<1>3. pc[Owner(lock)] = "dead"
  BY <1>1, <1>2
<1> QED
  BY <1>3 DEF Reused

\* A step of a process that is alone leaves it alone.
LEMMA StaysAlone ==
  ASSUME NEW p \in Procs, TypeOK, Working = {p}, Reused = {}, NEW l \in PC \ {"dead"},
         Goto(p, l), UNCHANGED answers
  PROVE  Reused' = {} /\ (l # "idle" => Working' = {p}) /\ (l = "idle" => Working' = {})
  BY DEF TypeOK, Working, Reused, Goto

\* The steps of a process that is alone, from its entry to its operation and out.
LEMMA StepAlone ==
  ASSUME IInv, LockIsOld, RanBefore, NEW p \in Procs, p \in Working, alone'[p], FindsWay(p),
         Acquire(p) \/ Recover(p) \/ GiveUp(p)
  PROVE  /\ p \in Working' => FindsWay(p)'
         /\ p \notin Working' => outcome'[p] = "ok" \/ ran'[p] = "threw"
<1> USE LockAssumption DEF TypeOK, FindsWay, PC, Candidate
<1>0. ~Start(p)
  BY DEF Start, Working
<1>1. CASE WriteMarker(p)
  BY <1>1, StaysAlone DEF WriteMarker
<1>1a. CASE WriteFails(p)
  BY <1>1a DEF WriteFails
<1>2. CASE Rename(p)
  BY <1>2, StaysAlone DEF Rename
<1>3. CASE RenameFails(p)
  BY <1>3, StaysAlone DEF RenameFails
<1>4. CASE Enter(p)
  BY <1>4, StaysAlone DEF Enter
<1>5. CASE Open(p)
  BY <1>5, StaysAlone DEF Open
<1>6. CASE List(p)
  BY <1>6, StaysAlone DEF List
<1>7. CASE Probe(p)
  BY <1>7, StaysAlone DEF Probe, OwnerIsGone
<1>8. CASE ProbeFails(p)
  <2>1. lock = found[p] /\ lock \in marked
    BY <1>8 DEF ProbeFails
  <2>2. Owner(lock) \notin answers
    BY <1>8, <2>1, LockOfTheDead DEF ProbeFails
  <2> QED
    BY <1>8, <2>1, <2>2 DEF ProbeFails, OwnerIsGone
<1>9. CASE Unlink(p)
  BY <1>9, StaysAlone DEF Unlink, Unlinked
<1>10. CASE Confirm(p)
  BY <1>10, StaysAlone DEF Confirm
<1>11. CASE CheckFails(p)
  BY <1>11, StaysAlone DEF CheckFails
<1>12. CASE Rmdir(p)
  BY <1>12, StaysAlone DEF Rmdir
<1>13. CASE RmdirFails(p)
  BY <1>13, StaysAlone DEF RmdirFails
<1>14. CASE Leave(p)
  BY <1>14, StaysAlone DEF Leave
<1>15. CASE Release(p)
  BY <1>15, StaysAlone DEF Release
<1>16. CASE Reopen(p)
  BY <1>16, StaysAlone DEF Reopen
<1>17. CASE Drop(p)
  BY <1>17, StaysAlone DEF Drop, Result, RanBefore
<1>18. CASE NothingToDrop(p)
  BY <1>18, StaysAlone DEF NothingToDrop, Result, RanBefore
<1>19. CASE DropThrows(p)
  BY <1>19, StaysAlone DEF DropThrows
<1>20. CASE Cleanup(p)
  BY <1>20, StaysAlone DEF Cleanup, Removed
<1> QED
  BY <1>0, <1>1, <1>1a, <1>2, <1>3, <1>4, <1>5, <1>6, <1>7, <1>8, <1>9, <1>10, <1>11,
     <1>12, <1>13, <1>14, <1>15, <1>16, <1>17, <1>18, <1>19, <1>20
     DEF Acquire, Recover, GiveUp

\* The steps of others leave a process alone on its way, or end its being alone.
LEMMA StepOfAnother ==
  ASSUME TypeOK, NEW q \in Procs, q \in Working, FindsWay(q), alone'[q],
         NEW p \in Procs, Acquire(p) \/ Recover(p) \/ GiveUp(p) \/ Die(p) \/ IdReused(p),
         p # q
  PROVE  FindsWay(q)'
<1>1. pc[p] \in {"idle", "dead"}
  BY DEF FindsWay, Working
<1>2. Die(p)
  BY <1>1 DEF Acquire, Recover, GiveUp, Start, WriteMarker, WriteFails, Rename, RenameFails, Enter, Open,
     List, Probe, ProbeFails, Unlink, Confirm, CheckFails, Rmdir, RmdirFails, Leave, Release,
     Reopen, Drop, NothingToDrop, DropThrows, Cleanup, IdReused
<1>3. Working' = Working /\ Reused' = {}
  BY <1>1, <1>2 DEF Die, Working, Reused, FindsWay, TypeOK
<1> QED
  BY <1>2, <1>3 DEF Die, FindsWay, TypeOK

\* Every step keeps the strengthened invariant.
LEMMA StepA == AInv /\ [Next]_vars => AInv'
<1> SUFFICES ASSUME AInv, [Next]_vars PROVE AInv'
  OBVIOUS
<1> USE DEF AInv
<1>1. IInv' /\ LockIsOld' /\ RanBefore'
  BY Step, StepOld, StepRan
<1>2. ASSUME NEW q \in Procs, alone'[q]
      PROVE  /\ q \in Working' => FindsWay(q)'
             /\ outcome'[q] = "failed" => ran'[q] = "threw"
  <2>1. CASE UNCHANGED vars
    BY <1>2, <2>1 DEF vars, Working, Reused, AloneFindsWay, FindsWay, AloneEnters
  <2>2. ASSUME NEW p \in Procs,
               Acquire(p) \/ Recover(p) \/ GiveUp(p) \/ Die(p) \/ IdReused(p)
        PROVE  /\ q \in Working' => FindsWay(q)'
               /\ outcome'[q] = "failed" => ran'[q] = "threw"
    <3>1. CASE p # q
      <4>1. /\ alone[q] /\ (q \in Working' => q \in Working)
            /\ outcome'[q] = outcome[q] /\ ran'[q] = ran[q]
        BY <1>2, <2>2, <3>1
           DEF Acquire, Recover, GiveUp, Die, IdReused, Working, TypeOK, Start, WriteMarker,
               WriteFails, Rename, RenameFails, Enter, Open, List, Probe, ProbeFails, Unlink,
               Confirm, CheckFails, Rmdir, RmdirFails, Leave, Release, Reopen, Drop,
               NothingToDrop, DropThrows, Cleanup
      <4>2. q \in Working => FindsWay(q)
        BY <4>1 DEF AloneFindsWay
      <4> QED
        BY <1>2, <2>2, <3>1, <4>1, <4>2, StepOfAnother DEF AloneEnters
    <3>2. CASE p = q /\ Start(p)
      BY <1>2, <3>2 DEF Start, FindsWay, Working, Reused, TypeOK
    <3>3. CASE p = q /\ Die(p)
      <4>1. q \notin Working' /\ UNCHANGED <<alone, outcome, ran>>
        BY <3>3 DEF Die, Working, TypeOK
      <4> QED
        BY <1>2, <4>1 DEF AloneEnters
    <3>4. CASE p = q /\ IdReused(p)
      BY <1>2, <3>4 DEF IdReused
    <3>5. CASE p = q /\ ~Start(p) /\ (Acquire(p) \/ Recover(p) \/ GiveUp(p))
      <4>0. q \in Working /\ (WriteFails(p) \/ alone' = alone)
        BY <3>5
           DEF Acquire, Recover, GiveUp, Working, Start, WriteMarker, WriteFails, Rename,
               RenameFails, Enter, Open, List, Probe, ProbeFails, Unlink, Confirm, CheckFails,
               Rmdir, RmdirFails, Leave, Release, Reopen, Drop, NothingToDrop, DropThrows,
               Cleanup
      <4>1. alone[q] /\ q \in Working
        BY <1>2, <3>5, <4>0 DEF WriteFails, TypeOK
      <4>2. FindsWay(q)
        BY <1>2, <4>1 DEF AloneFindsWay
      <4>3. /\ q \in Working' => FindsWay(q)'
            /\ q \notin Working' => outcome'[q] = "ok" \/ ran'[q] = "threw"
        BY <1>2, <3>5, <4>1, <4>2, StepAlone
      <4>4. q \in Working' => outcome'[q] = "none"
        BY <1>1 DEF RanBefore
      <4> QED
        BY <4>3, <4>4
    <3> QED
      BY <2>2, <3>1, <3>2, <3>3, <3>4, <3>5
  <2> QED
    BY <2>1, <2>2 DEF Next
<1> QED
  BY <1>1, <1>2 DEF AloneFindsWay, AloneEnters

\* AloneEnters: wherever others died, in an attempt, in a recovery or in a
\* release (src/local-directory.ts:119-171).
THEOREM TheDeadStopNobody == Spec => []AloneEnters
<1>1. Init => AInv
  <2>1. Init => LockIsOld /\ RanBefore /\ AloneFindsWay /\ AloneEnters
    BY LockAssumption DEF Init, LockIsOld, RanBefore, AloneFindsWay, AloneEnters, Working
  <2> QED
    BY <2>1, Initially DEF AInv
<1>2. AInv => AloneEnters
  BY DEF AInv
<1> QED
  BY <1>1, <1>2, StepA, PTL DEF Spec
=============================================================================
