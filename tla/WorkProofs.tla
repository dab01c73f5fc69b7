------------------------------ MODULE WorkProofs ------------------------------
(***************************************************************************)
(* The invariants of PreparePool, for any number of slots, files, chunks   *)
(* and tickets, whichever workers may die; and those of Planning, for any  *)
(* questions, limits, caps and requests, whichever order is given.         *)
(*                                                                         *)
(* Ports is about the pool and its workers: the tickets a working slot was *)
(* given are the ones at its ports, so that its load is real, and those of *)
(* a dead one wait for its exit.  Owned is about the pool and its callers: *)
(* whoever a job is owed to, the caller that holds it, a waiter, or nobody *)
(* any more, is known, so that its result goes there.                      *)
(*                                                                         *)
(* PlanningInv is about the batches: those that are final are what closing *)
(* one at a time gives, as far as they go, and those closed on the         *)
(* estimate take the rest, each as far as its estimate admits.  PlanInv    *)
(* adds the answer: it is the plan of these batches.  The recursive        *)
(* functions of the model are shown to exist before they are used.         *)
(***************************************************************************)
EXTENDS PreparePool, Planning, SumTheorems, SequenceTheorems, TLAPS

-----------------------------------------------------------------------------
(* PreparePool.                                                            *)

Results == {"entry", "failed"}
Maps(R) == UNION {[D -> R] : D \in SUBSET Nat}

Pools == [queued : [Slots -> Nat], consumed : [Slots -> Nat], failed : [Slots -> BOOLEAN],
          next : Nat, assigned : Maps(Slots), results : Maps(Results),
          resolved : Maps(Results), waiters : SUBSET Nat, forgotten : SUBSET Nat]

Phases == {"idle", "loop", "turn", "waiting", "counting"}

Typed ==
  /\ pool \in Pools
  /\ inbox \in [Slots -> SUBSET Nat] /\ outbox \in [Slots -> Maps(Results)]
  /\ alive \in [Slots -> BOOLEAN] /\ exits \in [Slots -> Nat]
  /\ phase \in Phases /\ left \in Nat /\ ahead \in Seq(Nat) /\ current \in Nat
  /\ misrouted \subseteq Nat /\ cut \subseteq Nat

\* The tickets given out so far.
Given == 0 .. pool.next - 1

\* The tickets that slot s is thought to owe.
Owes(s) == {t \in DOMAIN pool.assigned : pool.assigned[t] = s}

\* Every ticket is at one port at most, that of the slot it was given to.
Routed ==
  /\ DOMAIN pool.assigned \subseteq Given
  /\ \A s \in Slots :
       /\ InTransit(s) \subseteq Given
       /\ inbox[s] \cap DOMAIN outbox[s] = {}
       /\ \A t \in InTransit(s) \cap DOMAIN pool.assigned : pool.assigned[t] = s

\* A slot whose exits were all handled is known to have failed.
Exited == \A s \in Slots : IF alive[s] THEN exits[s] = 0 ELSE exits[s] > 0 \/ pool.failed[s]

Ports == Routed /\ Exited /\ LoadIsReal /\ HandedBack

\* The tickets the preparation holds: of the files read ahead, and of the one whose turn
\* it is until it is awaited.
Held == (ToSet(ahead) \cup (IF phase = "turn" THEN {current} ELSE {})) \ {NoJob}

\* No ticket is held twice.
HeldOnce ==
  /\ \A i, j \in DOMAIN ahead : ahead[i] = ahead[j] => i = j \/ ahead[i] = NoJob
  /\ phase = "turn" /\ current # NoJob => current \notin ToSet(ahead)

\* What becomes of a result: it is held, awaited or forgotten, and it comes once.
Owned ==
  /\ pool.waiters \subseteq DOMAIN pool.assigned
  /\ pool.forgotten \subseteq DOMAIN pool.assigned
  /\ pool.waiters \cap pool.forgotten = {}
  /\ DOMAIN pool.results \cap DOMAIN pool.assigned = {}
  /\ DOMAIN pool.resolved \cap DOMAIN pool.assigned \subseteq pool.forgotten
  /\ DOMAIN pool.results \cup DOMAIN pool.resolved \cup Held \subseteq Given
  /\ Held \cap (pool.waiters \cup pool.forgotten) = {}
  /\ DOMAIN pool.assigned \subseteq pool.forgotten \cup pool.waiters \cup cut \cup Held
  /\ Living => DOMAIN pool.results \subseteq cut \cup Held

\* Where the caller is.
Placed ==
  /\ phase \in {"idle", "loop", "turn"} => pool.waiters = {}
  /\ phase = "waiting" => pool.waiters \subseteq {current} /\ current \in Given
  /\ phase \in {"idle", "counting"} => ahead = <<>> /\ left = 0
  /\ pool.next + left <= MaxTickets
  /\ Len(ahead) <= 2 * NumSlots

Inv == Typed /\ Ports /\ HeldOnce /\ Owned /\ Placed

-----------------------------------------------------------------------------
(* The operations of the pool, field by field.                             *)

\* g is f without the tickets T.
Lacks(g, f, T) == DOMAIN g = DOMAIN f \ T /\ \A t \in DOMAIN g : g[t] = f[t]

\* A map without the tickets T is a map, that keeps the rest.
LEMMA WithoutIs ==
  ASSUME NEW R, NEW f \in Maps(R), NEW T
  PROVE  Without(f, T) \in Maps(R) /\ Lacks(Without(f, T), f, T)
  <1>1. DOMAIN f \ T \in SUBSET Nat /\ \A t \in DOMAIN f : f[t] \in R
    BY DEF Maps
  <1>2. Without(f, T) \in [DOMAIN f \ T -> R]  BY <1>1 DEF Without
  <1>3. Without(f, T) \in Maps(R)  BY <1>1, <1>2 DEF Maps
  <1> QED  BY <1>3 DEF Without, Lacks

\* A map with the result r for the tickets T is a map, with those tickets more.
LEMMA PutIs ==
  ASSUME NEW f \in Maps(Results), NEW T \in SUBSET Nat, NEW r \in Results
  PROVE  Put(f, T, r) \in Maps(Results) /\ DOMAIN Put(f, T, r) = DOMAIN f \cup T
  <1>1. DOMAIN f \cup T \in SUBSET Nat /\ \A t \in DOMAIN f : f[t] \in Results
    BY DEF Maps
  <1>2. Put(f, T, r) \in [DOMAIN f \cup T -> Results]  BY <1>1 DEF Put
  <1>3. Put(f, T, r) \in Maps(Results)  BY <1>1, <1>2 DEF Maps
  <1> QED  BY <1>3 DEF Put

\* What the pools P and Q have in common but for who is owed what.
SameSlots(P, Q) ==
  Q.queued = P.queued /\ Q.consumed = P.consumed /\ Q.failed = P.failed /\ Q.next = P.next

\* Q is P when the tickets T are settled.
Settled(P, T, Q) ==
  /\ SameSlots(P, Q) /\ Lacks(Q.assigned, P.assigned, T)
  /\ Q.forgotten = P.forgotten \ T
  /\ Q.waiters = P.waiters \ (T \ P.forgotten)
  /\ DOMAIN Q.resolved = DOMAIN P.resolved \cup ((T \cap P.waiters) \ P.forgotten)
  /\ DOMAIN Q.results = DOMAIN P.results \cup (T \ (P.forgotten \cup P.waiters))

\* #settle does what Settled says.
LEMMA SettleIs ==
  ASSUME NEW P \in Pools, NEW T \in SUBSET Nat, NEW result \in Results
  PROVE  Settle(P, T, result) \in Pools /\ Settled(P, T, Settle(P, T, result))
  <1> DEFINE Q == Settle(P, T, result)
             a == Without(P.assigned, T)
             v == Put(P.resolved, (T \cap P.waiters) \ P.forgotten, result)
             r == Put(P.results, T \ (P.forgotten \cup P.waiters), result)
  <1>1. /\ P.assigned \in Maps(Slots) /\ P.resolved \in Maps(Results)
        /\ P.results \in Maps(Results) /\ P.waiters \in SUBSET Nat /\ P.forgotten \in SUBSET Nat
    BY DEF Pools
  <1>2. a \in Maps(Slots) /\ Lacks(a, P.assigned, T)
    BY <1>1, WithoutIs, Zenon
  <1>3. /\ v \in Maps(Results)
        /\ DOMAIN v = DOMAIN P.resolved \cup ((T \cap P.waiters) \ P.forgotten)
    <2>1. (T \cap P.waiters) \ P.forgotten \in SUBSET Nat  BY <1>1
    <2> QED  BY <1>1, <2>1, PutIs, Zenon DEF Results
  <1>4. /\ r \in Maps(Results)
        /\ DOMAIN r = DOMAIN P.results \cup (T \ (P.forgotten \cup P.waiters))
    <2>1. T \ (P.forgotten \cup P.waiters) \in SUBSET Nat  BY <1>1
    <2> QED  BY <1>1, <2>1, PutIs, Zenon DEF Results
  <1>5. Q = [P EXCEPT !.assigned = a, !.forgotten = P.forgotten \ T,
                      !.waiters = P.waiters \ (T \ P.forgotten), !.resolved = v, !.results = r]
    BY DEF Settle, Pools
  <1> HIDE DEF a, v, r, Q
  <1>6. /\ Q.assigned = a /\ Q.resolved = v /\ Q.results = r
        /\ Q.forgotten = P.forgotten \ T /\ Q.waiters = P.waiters \ (T \ P.forgotten)
        /\ SameSlots(P, Q)
    BY <1>5 DEF Pools, SameSlots
  <1>7. Q \in Pools
    <2>1. P.forgotten \ T \in SUBSET Nat /\ P.waiters \ (T \ P.forgotten) \in SUBSET Nat
      BY <1>1
    <2> QED  BY <1>2, <1>3, <1>4, <1>5, <2>1 DEF Pools
  <1>8. Settled(P, T, Q)  BY <1>2, <1>3, <1>4, <1>6 DEF Settled
  <1> QED  BY <1>7, <1>8 DEF Q

\* forget: results that came are dropped, those still to come remembered.
LEMMA ForgetIs ==
  ASSUME NEW P \in Pools, NEW T
  PROVE  LET Q == Forget(P, T)
         IN  /\ Q \in Pools /\ SameSlots(P, Q)
             /\ Q.assigned = P.assigned /\ Q.resolved = P.resolved /\ Q.waiters = P.waiters
             /\ DOMAIN Q.results = DOMAIN P.results \ T
             /\ Q.forgotten = P.forgotten \cup ((T \cap DOMAIN P.assigned) \ DOMAIN P.results)
  <1> DEFINE Q == Forget(P, T)
             r == Without(P.results, T)
             f == P.forgotten \cup ((T \cap DOMAIN P.assigned) \ DOMAIN P.results)
  <1>1. P.results \in Maps(Results) /\ DOMAIN P.assigned \in SUBSET Nat /\ P.forgotten \in SUBSET Nat
    BY DEF Pools, Maps
  <1>2. r \in Maps(Results) /\ DOMAIN r = DOMAIN P.results \ T
    BY <1>1, WithoutIs, Zenon DEF Lacks
  <1>3. f \in SUBSET Nat  BY <1>1
  <1>4. Q = [P EXCEPT !.results = r, !.forgotten = f]
    BY DEF Forget, Pools
  <1> HIDE DEF r, f, Q
  <1>5. /\ Q.results = r /\ Q.forgotten = f /\ SameSlots(P, Q)
        /\ Q.assigned = P.assigned /\ Q.resolved = P.resolved /\ Q.waiters = P.waiters
    BY <1>4 DEF Pools, SameSlots
  <1>6. Q \in Pools  BY <1>2, <1>3, <1>4 DEF Pools
  <1> QED  BY <1>2, <1>5, <1>6 DEF Q, f

\* An abort: nobody waits, each wait has its answer, and the jobs are forgotten.
LEMMA AbortWaitsIs ==
  ASSUME NEW P \in Pools, NEW T \in SUBSET Nat
  PROVE  LET Q == AbortWaits(P, T)
         IN  /\ Q \in Pools /\ SameSlots(P, Q)
             /\ Q.assigned = P.assigned /\ Q.waiters = P.waiters \ T
             /\ DOMAIN Q.resolved = DOMAIN P.resolved \cup T
             /\ DOMAIN Q.results = DOMAIN P.results \ T
             /\ Q.forgotten = P.forgotten \cup ((T \cap DOMAIN P.assigned) \ DOMAIN P.results)
  <1> DEFINE v == Put(P.resolved, T, "failed")
             M == [P EXCEPT !.waiters = @ \ T, !.resolved = v]
  <1>1. v \in Maps(Results) /\ DOMAIN v = DOMAIN P.resolved \cup T
    <2>1. P.resolved \in Maps(Results) /\ "failed" \in Results  BY DEF Pools, Results
    <2> QED  BY <2>1, PutIs, Zenon
  <1>2. M \in Pools /\ SameSlots(P, M) /\ M.assigned = P.assigned /\ M.results = P.results
        /\ M.forgotten = P.forgotten /\ M.waiters = P.waiters \ T /\ M.resolved = v
    <2> HIDE DEF v
    <2> QED  BY <1>1 DEF Pools, SameSlots
  <1>3. AbortWaits(P, T) = Forget(M, T)  BY DEF AbortWaits, Pools
  <1> HIDE DEF v, M
  <1> QED  BY <1>1, <1>2, <1>3, ForgetIs DEF SameSlots

\* wait: a result that came is taken, one to come awaited, and nothing else answered.
LEMMA WaitIs ==
  ASSUME NEW P \in Pools, NEW t \in Nat
  PROVE  LET Q == Wait(P, t)
         IN  /\ Q \in Pools /\ SameSlots(P, Q)
             /\ Q.assigned = P.assigned /\ Q.forgotten = P.forgotten
             /\ DOMAIN Q.results = DOMAIN P.results \ {t}
             /\ IF t \in DOMAIN P.assigned \ DOMAIN P.results
                THEN Q.waiters = P.waiters \cup {t} /\ DOMAIN Q.resolved = DOMAIN P.resolved
                ELSE Q.waiters = P.waiters /\ DOMAIN Q.resolved = DOMAIN P.resolved \cup {t}
  <1> DEFINE Q == Wait(P, t)
  <1>1. CASE t \in DOMAIN P.results
    <2> DEFINE r == Without(P.results, {t})
               v == Put(P.resolved, {t}, P.results[t])
    <2>1. r \in Maps(Results) /\ DOMAIN r = DOMAIN P.results \ {t}
      <3>1. P.results \in Maps(Results)  BY DEF Pools
      <3> QED  BY <3>1, WithoutIs, Zenon DEF Lacks
    <2>2. P.results[t] \in Results  BY <1>1 DEF Pools, Maps
    <2>3. v \in Maps(Results) /\ DOMAIN v = DOMAIN P.resolved \cup {t}
      <3>1. P.resolved \in Maps(Results) /\ {t} \in SUBSET Nat  BY DEF Pools
      <3> QED  BY <3>1, <2>2, PutIs, Zenon
    <2>4. Q = [P EXCEPT !.results = r, !.resolved = v]  BY <1>1 DEF Wait, Pools
    <2> HIDE DEF r, v, Q
    <2>5. /\ Q.results = r /\ Q.resolved = v /\ SameSlots(P, Q) /\ Q.waiters = P.waiters
          /\ Q.assigned = P.assigned /\ Q.forgotten = P.forgotten /\ Q \in Pools
      BY <2>1, <2>3, <2>4 DEF Pools, SameSlots
    <2> QED  BY <1>1, <2>1, <2>3, <2>5 DEF Q
  <1>2. CASE t \notin DOMAIN P.results /\ t \in DOMAIN P.assigned
    BY <1>2 DEF Wait, Pools, SameSlots
  <1>3. CASE t \notin DOMAIN P.results /\ t \notin DOMAIN P.assigned
    <2> DEFINE v == Put(P.resolved, {t}, "failed")
    <2>1. v \in Maps(Results) /\ DOMAIN v = DOMAIN P.resolved \cup {t}
      <3>1. P.resolved \in Maps(Results) /\ "failed" \in Results /\ {t} \in SUBSET Nat
        BY DEF Pools, Results
      <3> QED  BY <3>1, PutIs, Zenon
    <2>2. Q = [P EXCEPT !.resolved = v]  BY <1>3 DEF Wait
    <2> HIDE DEF v, Q
    <2>3. /\ Q.results = P.results /\ Q.resolved = v /\ SameSlots(P, Q) /\ Q.waiters = P.waiters
          /\ Q.assigned = P.assigned /\ Q.forgotten = P.forgotten /\ Q \in Pools
      BY <2>1, <2>2 DEF Pools, SameSlots
    <2> QED  BY <1>3, <2>1, <2>3 DEF Q
  <1> QED  BY <1>1, <1>2, <1>3

\* submit: each of the next n tickets goes to the slot of its route, and is queued there.
LEMMA SubmitIs ==
  ASSUME NEW P \in Pools, NEW n \in Nat, NEW route \in Routes(P, n)
  PROVE  /\ DOMAIN route = P.next .. P.next + n - 1 /\ \A t \in DOMAIN route : route[t] \in Slots
         /\ LET Q == Submit(P, route)
            IN  /\ Q \in Pools /\ Q.next = P.next + n
                /\ Q.consumed = P.consumed /\ Q.failed = P.failed /\ Q.results = P.results
                /\ Q.resolved = P.resolved /\ Q.waiters = P.waiters /\ Q.forgotten = P.forgotten
                /\ DOMAIN Q.assigned = DOMAIN P.assigned \cup DOMAIN route
                /\ \A t \in DOMAIN Q.assigned :
                     Q.assigned[t] = IF t \in DOMAIN route THEN route[t] ELSE P.assigned[t]
                /\ \A s \in Slots :
                     Q.queued[s] = P.queued[s] + Cardinality(GivenTo(s, route))
  <1> DEFINE D == P.next .. P.next + n - 1
             a == [t \in DOMAIN P.assigned \cup DOMAIN route |->
                            IF t \in DOMAIN route THEN route[t] ELSE P.assigned[t]]
             q == [s \in Slots |-> P.queued[s] + Cardinality(GivenTo(s, route))]
             c == P.next + Cardinality(DOMAIN route)
             Q == Submit(P, route)
  <1>1. /\ P.next \in Nat /\ P.assigned \in Maps(Slots) /\ P.queued \in [Slots -> Nat]
    BY DEF Pools
  <1>2. route \in [D -> Slots] /\ D \subseteq Nat
    BY <1>1 DEF Routes
  <1>3. IsFiniteSet(D) /\ Cardinality(D) = n
    <2> DEFINE b == P.next + n - 1
    <2>1. b \in Int /\ P.next \in Int  BY <1>1
    <2>2. D = P.next .. b  OBVIOUS
    <2>3. n = IF P.next > b THEN 0 ELSE b - P.next + 1  BY <1>1
    <2> HIDE DEF b, D
    <2> QED  BY <2>1, <2>2, <2>3, FS_Interval
  <1>4. c = P.next + n /\ c \in Nat
    BY <1>1, <1>2, <1>3
  <1>5. \A s \in Slots : Cardinality(GivenTo(s, route)) \in Nat
    BY <1>2, <1>3, FS_Subset, FS_CardinalityType DEF GivenTo
  <1>6. a \in Maps(Slots)
    <2>1. DOMAIN P.assigned \in SUBSET Nat /\ \A t \in DOMAIN P.assigned : P.assigned[t] \in Slots
      BY <1>1 DEF Maps
    <2>2. DOMAIN P.assigned \cup DOMAIN route \in SUBSET Nat
      BY <1>2, <2>1
    <2>3. a \in [DOMAIN P.assigned \cup DOMAIN route -> Slots]
      BY <1>2, <2>1
    <2> QED  BY <2>2, <2>3 DEF Maps
  <1>7. q \in [Slots -> Nat]  BY <1>1, <1>5
  <1>8. Q = [P EXCEPT !.queued = q, !.assigned = a, !.next = c]
    BY DEF Submit, Pools
  <1>9. /\ DOMAIN a = DOMAIN P.assigned \cup DOMAIN route
        /\ \A t \in DOMAIN a : a[t] = IF t \in DOMAIN route THEN route[t] ELSE P.assigned[t]
        /\ \A s \in Slots : q[s] = P.queued[s] + Cardinality(GivenTo(s, route))
    OBVIOUS
  <1> HIDE DEF a, q, c, Q
  <1>10. /\ Q.next = c /\ Q.queued = q /\ Q.assigned = a
         /\ Q.consumed = P.consumed /\ Q.failed = P.failed /\ Q.results = P.results
         /\ Q.resolved = P.resolved /\ Q.waiters = P.waiters /\ Q.forgotten = P.forgotten
    BY <1>8 DEF Pools
  <1>11. Q \in Pools  BY <1>4, <1>6, <1>7, <1>8 DEF Pools
  <1> QED  BY <1>2, <1>4, <1>9, <1>10, <1>11 DEF Q

\* A pool that was just started owes nothing.
LEMMA FreshIs ==
  /\ FreshPool \in Pools /\ NonePosted \in [Slots -> SUBSET Nat]
  /\ NoneReplied \in [Slots -> Maps(Results)]
  /\ DOMAIN FreshPool.assigned = {} /\ DOMAIN FreshPool.results = {}
  /\ DOMAIN FreshPool.resolved = {}
  /\ FreshPool.waiters = {} /\ FreshPool.forgotten = {} /\ FreshPool.next = 0
  /\ \A s \in Slots : NonePosted[s] = {} /\ DOMAIN NoneReplied[s] = {} /\ Load(FreshPool, s) = 0
  <1>1. DOMAIN EmptyMap = {}  BY DEF EmptyMap
  <1>2. EmptyMap \in Maps(Slots) /\ EmptyMap \in Maps(Results)
    <2>1. EmptyMap \in [{} -> Slots] /\ EmptyMap \in [{} -> Results]  BY DEF EmptyMap
    <2>2. {} \in SUBSET Nat  OBVIOUS
    <2> QED  BY <2>1, <2>2 DEF Maps
  <1> QED  BY <1>1, <1>2 DEF FreshPool, Pools, NonePosted, NoneReplied, Load

\* The next of a port's tickets is one of them.
LEMMA NextIs == ASSUME NEW T \in SUBSET Nat, T # {} PROVE Min(T) \in T
  BY LeastNatural DEF Min

\* A ticket is given to one of the slots.
LEMMA AssignedIs == Typed => \A t \in DOMAIN pool.assigned : t \in Nat /\ pool.assigned[t] \in Slots
  <1>1. \A f \in Maps(Slots) : \A t \in DOMAIN f : t \in Nat /\ f[t] \in Slots  BY DEF Maps
  <1>2. Typed => pool.assigned \in Maps(Slots)  BY DEF Typed, Pools
  <1> HIDE DEF Maps
  <1> QED  BY <1>1, <1>2

\* Finitely many tickets wait at a port.
LEMMA PortsAreFinite ==
  ASSUME Typed, Routed, NEW s \in Slots
  PROVE  /\ IsFiniteSet(inbox[s]) /\ IsFiniteSet(DOMAIN outbox[s])
         /\ Cardinality(inbox[s]) \in Nat /\ Cardinality(DOMAIN outbox[s]) \in Nat
  <1>1. IsFiniteSet(Given)
    <2>1. pool.next \in Nat  BY DEF Typed, Pools
    <2> QED  BY <2>1, FS_Interval DEF Given
  <1>2. inbox[s] \subseteq Given /\ DOMAIN outbox[s] \subseteq Given
    BY DEF Routed, InTransit
  <1> QED  BY <1>1, <1>2, FS_Subset, FS_CardinalityType

-----------------------------------------------------------------------------
(* The ports.                                                              *)

\* Who a job is owed to does not matter to them.
LEMMA PortsSame ==
  ASSUME Ports, SameSlots(pool, pool'), pool'.assigned = pool.assigned,
         UNCHANGED workerVars, misrouted' = misrouted
  PROVE  Ports'
  BY DEF Ports, Routed, Exited, LoadIsReal, HandedBack, Given, InTransit, Load, SameSlots,
         workerVars

\* A reply moves a ticket from one port of its slot to the other.
LEMMA RepliesPorts ==
  ASSUME Typed, Ports, NEW s \in Slots, WorkerReplies(s)
  PROVE  Typed' /\ Ports'
  <1> DEFINE m == Min(inbox[s])
  <1>1. m \in inbox[s] /\ m \in Nat /\ outbox[s] \in Maps(Results)
    BY NextIs DEF WorkerReplies, Typed
  <1>2. PICK result \in Results : outbox' = [outbox EXCEPT ![s] = Put(outbox[s], {m}, result)]
    BY DEF WorkerReplies, Results
  <1>3. inbox' = [inbox EXCEPT ![s] = inbox[s] \ {m}]
    BY DEF WorkerReplies
  <1> DEFINE o == Put(outbox[s], {m}, result)
  <1> HIDE DEF m
  <1>4. o \in Maps(Results) /\ DOMAIN o = DOMAIN outbox[s] \cup {m}
    BY <1>1, PutIs
  <1> HIDE DEF o
  <1>5. outbox' = [outbox EXCEPT ![s] = o]  BY <1>2 DEF o
  <1>6. Typed'
    BY <1>1, <1>3, <1>4, <1>5 DEF Typed, WorkerReplies, callerVars, history
  <1>7. /\ inbox'[s] = inbox[s] \ {m} /\ outbox'[s] = o
        /\ \A r \in Slots \ {s} : inbox'[r] = inbox[r] /\ outbox'[r] = outbox[r]
    BY <1>3, <1>5 DEF Typed
  <1>8. m \notin DOMAIN outbox[s]  BY <1>1 DEF Ports, Routed
  <1>9. \A r \in Slots : InTransit(r)' = InTransit(r)
    BY <1>1, <1>4, <1>7 DEF InTransit
  <1>10. /\ Cardinality(inbox'[s]) = Cardinality(inbox[s]) - 1
         /\ Cardinality(DOMAIN outbox'[s]) = Cardinality(DOMAIN outbox[s]) + 1
    <2>1. IsFiniteSet(inbox[s]) /\ IsFiniteSet(DOMAIN outbox[s])
      BY PortsAreFinite DEF Ports
    <2>2. Cardinality(inbox[s] \ {m}) = Cardinality(inbox[s]) - 1
      BY <1>1, <2>1, FS_RemoveElement
    <2>3. Cardinality(DOMAIN outbox[s] \cup {m}) = Cardinality(DOMAIN outbox[s]) + 1
      BY <1>8, <2>1, FS_AddElement
    <2> QED  BY <1>4, <1>7, <2>2, <2>3
  <1>11. UNCHANGED <<pool, alive, exits, misrouted>>  BY DEF WorkerReplies, history
  <1>12. \A r \in Slots : Cardinality(inbox'[r]) + Cardinality(DOMAIN outbox'[r])
                            = Cardinality(inbox[r]) + Cardinality(DOMAIN outbox[r])
    <2>1. Cardinality(inbox[s]) \in Nat /\ Cardinality(DOMAIN outbox[s]) \in Nat
      BY PortsAreFinite DEF Ports
    <2>2. ASSUME NEW r \in Slots \ {s}
          PROVE  Cardinality(inbox'[r]) + Cardinality(DOMAIN outbox'[r])
                   = Cardinality(inbox[r]) + Cardinality(DOMAIN outbox[r])
      BY <1>7
    <2>3. Cardinality(inbox'[s]) + Cardinality(DOMAIN outbox'[s])
            = Cardinality(inbox[s]) + Cardinality(DOMAIN outbox[s])
      BY <1>10, <2>1
    <2> QED  BY <2>2, <2>3
  <1>13. Routed'
    BY <1>4, <1>7, <1>8, <1>9, <1>11 DEF Ports, Routed, Given
  <1>14. LoadIsReal'  BY <1>9, <1>11, <1>12 DEF Ports, LoadIsReal, Load
  <1>15. HandedBack'  BY <1>9, <1>11, AssignedIs DEF Ports, HandedBack
  <1>16. Exited'  BY <1>11 DEF Ports, Exited
  <1> QED  BY <1>6, <1>13, <1>14, <1>15, <1>16 DEF Ports

\* What a dead worker had not answered waits for its exit.
LEMMA DiesPorts ==
  ASSUME Typed, Ports, NEW s \in Slots, WorkerDies(s)
  PROVE  Typed' /\ Ports'
  <1>1. PICK n \in {1, 2} : exits' = [exits EXCEPT ![s] = n]  BY DEF WorkerDies
  <1>2. Typed'  BY <1>1 DEF Typed, WorkerDies, callerVars, history
  <1>3. /\ inbox'[s] = {} /\ ~alive'[s] /\ exits'[s] > 0 /\ outbox' = outbox
        /\ UNCHANGED <<pool, misrouted>>
        /\ \A r \in Slots \ {s} : /\ inbox'[r] = inbox[r] /\ alive'[r] = alive[r]
                                  /\ exits'[r] = exits[r]
    BY <1>1 DEF WorkerDies, Typed, history
  <1>4. \A r \in Slots : InTransit(r)' = IF r = s THEN DOMAIN outbox[s] ELSE InTransit(r)
    BY <1>3 DEF InTransit
  <1>5. Routed'  BY <1>3, <1>4 DEF Ports, Routed, Given, InTransit
  <1>6. Exited'  BY <1>3 DEF Ports, Exited
  <1>7. LoadIsReal'  BY <1>3, <1>4 DEF Ports, LoadIsReal, Load
  <1>8. HandedBack'
    <2> SUFFICES ASSUME NEW t \in DOMAIN pool.assigned
                 PROVE  LET r == pool.assigned[t]
                        IN  t \in InTransit(r)' \/ exits'[r] > 0 \/ t \in misrouted
      BY <1>3 DEF HandedBack
    <2>1. pool.assigned[t] \in Slots  BY AssignedIs
    <2> QED  BY <1>3, <1>4, <2>1 DEF Ports, HandedBack
  <1> QED  BY <1>2, <1>5, <1>6, <1>7, <1>8 DEF Ports

\* An exit that is handled takes what the slot owed, and marks it failed.
LEMMA FailsPorts ==
  ASSUME Typed, Ports, NEW s \in Slots, SlotFails(s)
  PROVE  Typed' /\ Ports'
  <1> DEFINE P == [pool EXCEPT !.failed[s] = TRUE]
  <1>1. exits[s] > 0 /\ exits' = [exits EXCEPT ![s] = exits[s] - 1]  BY DEF SlotFails
  <1>2. P \in Pools /\ P.assigned = pool.assigned /\ P.failed[s]
    BY DEF Typed, Pools
  <1>3. /\ P.queued = pool.queued /\ P.consumed = pool.consumed /\ P.next = pool.next
        /\ \A r \in Slots : pool.failed[r] => P.failed[r]
    BY DEF Typed, Pools
  <1>4. pool' = Settle(P, Owes(s), "failed")  BY DEF SlotFails, FailSlot, Owes
  <1>5. Owes(s) \in SUBSET Nat /\ "failed" \in Results  BY AssignedIs DEF Owes, Results
  <1> HIDE DEF P
  <1>6. /\ pool' \in Pools /\ SameSlots(P, pool') /\ Lacks(pool'.assigned, P.assigned, Owes(s))
    BY <1>2, <1>4, <1>5, SettleIs DEF Settled
  <1>7. Typed'
    BY <1>1, <1>6 DEF Typed, SlotFails, callerVars, history
  <1>8. UNCHANGED <<inbox, outbox, alive, misrouted>> /\ \A r \in Slots : InTransit(r)' = InTransit(r)
    BY DEF SlotFails, history, InTransit
  <1>9. /\ \A t \in DOMAIN pool'.assigned :
            /\ t \in DOMAIN pool.assigned /\ pool'.assigned[t] = pool.assigned[t]
            /\ pool.assigned[t] # s
        /\ \A r \in Slots \ {s} : Owes(r)' = Owes(r)
    BY <1>2, <1>6 DEF Lacks, Owes
  <1>10. ~alive[s]  BY <1>1 DEF Ports, Exited
  <1>11. Routed'
    BY <1>3, <1>6, <1>8, <1>9 DEF Ports, Routed, Given, SameSlots
  <1>12. Exited'
    BY <1>1, <1>2, <1>3, <1>6, <1>8 DEF Typed, Ports, Exited, SameSlots
  <1>13. LoadIsReal'
    BY <1>3, <1>6, <1>8, <1>9, <1>10 DEF Ports, LoadIsReal, Load, SameSlots, Owes
  <1>14. HandedBack'
    BY <1>1, <1>8, <1>9, AssignedIs DEF Typed, Ports, HandedBack
  <1> QED  BY <1>7, <1>11, <1>12, <1>13, <1>14 DEF Ports

\* A reply that is received is counted, and no longer owed.
LEMMA DeliverPorts ==
  ASSUME Typed, Ports, NEW s \in Slots, Deliver(s)
  PROVE  Typed' /\ Ports'
  <1> DEFINE m == Min(DOMAIN outbox[s])
             P == [pool EXCEPT !.consumed[s] = @ + 1]
             o == Without(outbox[s], {m})
             result == outbox[s][m]
  <1>1. outbox[s] \in Maps(Results)  BY DEF Typed
  <1>2. DOMAIN outbox[s] \in SUBSET Nat /\ \A t \in DOMAIN outbox[s] : outbox[s][t] \in Results
    BY <1>1 DEF Maps
  <1>3. m \in DOMAIN outbox[s]  BY <1>2, NextIs DEF Deliver
  <1>4. m \in Nat /\ result \in Results  BY <1>2, <1>3
  <1>5. o \in Maps(Results) /\ DOMAIN o = DOMAIN outbox[s] \ {m}
    BY <1>1, WithoutIs, Zenon DEF Lacks
  <1>6. P \in Pools /\ P.assigned = pool.assigned
    <2> DEFINE c == [pool.consumed EXCEPT ![s] = @ + 1]
    <2>1. pool \in Pools /\ pool.consumed \in [Slots -> Nat]  BY DEF Typed, Pools
    <2>2. c \in [Slots -> Nat]  BY <2>1
    <2>3. P = [pool EXCEPT !.consumed = c]  BY <2>1 DEF Pools
    <2> HIDE DEF c, P
    <2> QED  BY <2>1, <2>2, <2>3 DEF Pools
  <1>7. /\ P.queued = pool.queued /\ P.failed = pool.failed /\ P.next = pool.next
        /\ P.consumed[s] = pool.consumed[s] + 1
        /\ \A r \in Slots \ {s} : P.consumed[r] = pool.consumed[r]
    BY DEF Typed, Pools
  <1>8. pool' = Settle(P, {m}, result) /\ outbox' = [outbox EXCEPT ![s] = o]
    BY DEF Deliver
  <1> HIDE DEF m, P, o, result
  <1>9. pool' \in Pools /\ SameSlots(P, pool') /\ Lacks(pool'.assigned, P.assigned, {m})
    <2>1. {m} \in SUBSET Nat  BY <1>4
    <2> QED  BY <1>4, <1>6, <1>8, <2>1, SettleIs DEF Settled
  <1>10. Typed'
    BY <1>5, <1>8, <1>9 DEF Typed, Deliver, callerVars, history
  <1>11. /\ UNCHANGED <<inbox, alive, exits, misrouted>> /\ outbox'[s] = o
         /\ \A r \in Slots \ {s} : outbox'[r] = outbox[r]
    BY <1>8 DEF Typed, Deliver, history
  <1>12. /\ InTransit(s)' = InTransit(s) \ {m} /\ m \in InTransit(s)
         /\ \A r \in Slots \ {s} : InTransit(r)' = InTransit(r)
    BY <1>3, <1>5, <1>11 DEF Ports, Routed, InTransit
  <1>13. \A t \in DOMAIN pool'.assigned :
            t \in DOMAIN pool.assigned /\ pool'.assigned[t] = pool.assigned[t] /\ t # m
    BY <1>6, <1>9 DEF Lacks
  <1>14. \A r \in Slots : Owes(r)' = Owes(r) \ {m}
    BY <1>6, <1>9 DEF Lacks, Owes
  <1>15. \A r \in Slots \ {s} : m \notin Owes(r)
    BY <1>12 DEF Ports, Routed, Owes
  <1>16. Routed'
    BY <1>5, <1>7, <1>9, <1>11, <1>12, <1>13 DEF Ports, Routed, Given, SameSlots
  <1>17. Exited'
    BY <1>7, <1>9, <1>11 DEF Ports, Exited, SameSlots
  <1>18. Cardinality(DOMAIN outbox'[s]) = Cardinality(DOMAIN outbox[s]) - 1
    <2>1. IsFiniteSet(DOMAIN outbox[s])  BY PortsAreFinite DEF Ports
    <2>2. Cardinality(DOMAIN outbox[s] \ {m}) = Cardinality(DOMAIN outbox[s]) - 1
      BY <1>3, <2>1, FS_RemoveElement
    <2> QED  BY <1>5, <1>11, <2>2
  <1>19. LoadIsReal'
    <2> SUFFICES ASSUME NEW r \in Slots, alive[r]
                 PROVE  /\ Load(pool', r) = Cardinality(inbox'[r]) + Cardinality(DOMAIN outbox'[r])
                        /\ Owes(r)' = InTransit(r)'
      BY <1>11 DEF LoadIsReal, Owes
    <2>1. /\ Load(pool, r) = Cardinality(inbox[r]) + Cardinality(DOMAIN outbox[r])
          /\ Owes(r) = InTransit(r)
      BY DEF Ports, LoadIsReal, Owes
    <2>2. Owes(r)' = InTransit(r)'  BY <1>12, <1>14, <1>15, <2>1
    <2>3. CASE r = s
      <3>1. /\ pool.queued[s] \in Int /\ pool.consumed[s] \in Int
            /\ Cardinality(inbox[s]) \in Int /\ Cardinality(DOMAIN outbox[s]) \in Int
        BY PortsAreFinite DEF Ports, Typed, Pools
      <3>2. Load(pool', s) = Load(pool, s) - 1
        BY <1>7, <1>9, <3>1 DEF Load, SameSlots
      <3> QED  BY <1>11, <1>18, <2>1, <2>2, <2>3, <3>1, <3>2 DEF Load
    <2>4. CASE r # s
      BY <1>7, <1>9, <1>11, <2>1, <2>2, <2>4 DEF Load, SameSlots
    <2> QED  BY <2>3, <2>4
  <1>20. HandedBack'
    BY <1>11, <1>12, <1>13, AssignedIs DEF Ports, HandedBack
  <1> QED  BY <1>10, <1>16, <1>17, <1>19, <1>20 DEF Ports

\* Tickets are posted to the slots they are given to, or lost by those known to be dead.
LEMMA SubmitPorts ==
  ASSUME Typed, Ports, NEW n \in Nat, NEW route \in Routes(pool, n), Posted(route),
         SameSlots(Submit(pool, route), pool'),
         pool'.assigned = Submit(pool, route).assigned
  PROVE  Ports' /\ inbox' \in [Slots -> SUBSET Nat] /\ misrouted' \subseteq Nat
  <1> DEFINE Q == Submit(pool, route)
  <1>1. pool \in Pools /\ pool.next \in Nat  BY DEF Typed, Pools
  <1>2. /\ DOMAIN route = pool.next .. pool.next + n - 1
        /\ \A t \in DOMAIN route : route[t] \in Slots
        /\ Q.next = pool.next + n /\ Q.consumed = pool.consumed /\ Q.failed = pool.failed
        /\ DOMAIN Q.assigned = DOMAIN pool.assigned \cup DOMAIN route
        /\ \A t \in DOMAIN Q.assigned :
              Q.assigned[t] = IF t \in DOMAIN route THEN route[t] ELSE pool.assigned[t]
        /\ \A s \in Slots : Q.queued[s] = pool.queued[s] + Cardinality(GivenTo(s, route))
    BY <1>1, SubmitIs
  <1> HIDE DEF Q
  <1>3. /\ pool'.next = pool.next + n /\ pool'.consumed = pool.consumed
        /\ pool'.failed = pool.failed /\ pool'.assigned = Q.assigned /\ pool'.queued = Q.queued
    BY <1>2 DEF SameSlots, Q
  <1>4. /\ DOMAIN route \cap Given = {} /\ Given' = Given \cup DOMAIN route
        /\ DOMAIN route \subseteq Nat
    BY <1>1, <1>2, <1>3 DEF Given
  <1>5. /\ UNCHANGED <<outbox, alive, exits>>
        /\ \A r \in Slots : inbox'[r] = IF alive[r] THEN inbox[r] \cup GivenTo(r, route)
                                          ELSE inbox[r]
        /\ misrouted' = misrouted \cup {t \in DOMAIN route : pool.failed[route[t]]}
    BY DEF Posted
  <1>6. \A r \in Slots : GivenTo(r, route) \subseteq DOMAIN route
    BY DEF GivenTo
  <1>7. inbox' \in [Slots -> SUBSET Nat] /\ misrouted' \subseteq Nat
    <2>1. inbox' = [r \in Slots |-> IF alive[r] THEN inbox[r] \cup GivenTo(r, route)
                                    ELSE inbox[r]]
      BY DEF Posted
    <2> QED  BY <1>4, <1>5, <1>6, <2>1 DEF Typed
  <1>8. \A r \in Slots : InTransit(r)' = IF alive[r] THEN InTransit(r) \cup GivenTo(r, route)
                                          ELSE InTransit(r)
    BY <1>5 DEF InTransit
  <1>9. \A r \in Slots : Owes(r)' = Owes(r) \cup GivenTo(r, route)
    BY <1>2, <1>3, <1>4 DEF Owes, GivenTo, Ports, Routed
  <1>10. Routed'
    <2>1. DOMAIN pool'.assigned \subseteq Given'
      BY <1>2, <1>3, <1>4 DEF Ports, Routed
    <2> SUFFICES ASSUME NEW r \in Slots
                 PROVE  /\ InTransit(r)' \subseteq Given'
                        /\ inbox'[r] \cap DOMAIN outbox'[r] = {}
                        /\ \A t \in InTransit(r)' \cap DOMAIN pool'.assigned :
                             pool'.assigned[t] = r
      BY <2>1 DEF Routed
    <2>2. InTransit(r)' \subseteq Given'
      BY <1>4, <1>6, <1>8 DEF Ports, Routed
    <2>3. inbox'[r] \cap DOMAIN outbox'[r] = {}
      BY <1>4, <1>5, <1>6 DEF Ports, Routed, InTransit
    <2>4. ASSUME NEW t \in InTransit(r)' \cap DOMAIN pool'.assigned
          PROVE  pool'.assigned[t] = r
      <3>1. CASE t \in InTransit(r)
        <4>1. t \notin DOMAIN route  BY <1>4, <3>1 DEF Ports, Routed
        <4> QED  BY <1>2, <1>3, <2>4, <3>1, <4>1 DEF Ports, Routed
      <3>2. CASE t \notin InTransit(r)
        <4>1. t \in GivenTo(r, route)  BY <1>8, <2>4, <3>2
        <4> QED  BY <1>2, <1>3, <2>4, <4>1 DEF GivenTo
      <3> QED  BY <3>1, <3>2
    <2> QED  BY <2>2, <2>3, <2>4
  <1>11. Exited'  BY <1>3, <1>5 DEF Ports, Exited
  <1>12. LoadIsReal'
    <2> SUFFICES ASSUME NEW r \in Slots, alive[r]
                 PROVE  /\ Load(pool', r) = Cardinality(inbox'[r]) + Cardinality(DOMAIN outbox'[r])
                        /\ Owes(r)' = InTransit(r)'
      BY <1>5 DEF LoadIsReal, Owes
    <2> DEFINE g == GivenTo(r, route)
    <2>1. /\ Load(pool, r) = Cardinality(inbox[r]) + Cardinality(DOMAIN outbox[r])
          /\ Owes(r) = InTransit(r)
      BY DEF Ports, LoadIsReal, Owes
    <2>2. Owes(r)' = InTransit(r)'  BY <1>8, <1>9, <2>1
    <2>3. IsFiniteSet(inbox[r]) /\ Cardinality(inbox[r]) \in Nat /\ Cardinality(DOMAIN outbox[r]) \in Nat
      BY PortsAreFinite DEF Ports
    <2>4. IsFiniteSet(g) /\ Cardinality(g) \in Nat
      <3>1. IsFiniteSet(Given')
        <4>1. pool'.next \in Nat  BY <1>1, <1>3
        <4> QED  BY <4>1, FS_Interval DEF Given
      <3>2. g \subseteq Given'  BY <1>4, <1>6
      <3> QED  BY <3>1, <3>2, FS_Subset, FS_CardinalityType
    <2>5. inbox[r] \cap g = {} /\ inbox'[r] = inbox[r] \cup g
      BY <1>4, <1>5, <1>6 DEF Ports, Routed, InTransit
    <2>6. pool'.queued[r] = pool.queued[r] + Cardinality(g)
      BY <1>2, <1>3
    <2> HIDE DEF g
    <2>7. Cardinality(inbox'[r]) = Cardinality(inbox[r]) + Cardinality(g)
      BY <2>3, <2>4, <2>5, FS_Union, FS_EmptySet
    <2>8. pool.queued[r] \in Nat /\ pool.consumed[r] \in Nat  BY <1>1 DEF Pools
    <2>9. Load(pool', r) = Load(pool, r) + Cardinality(g)
      BY <1>3, <2>4, <2>6, <2>8 DEF Load
    <2> QED  BY <1>5, <2>1, <2>2, <2>3, <2>4, <2>7, <2>9
  <1>13. HandedBack'
    <2> SUFFICES ASSUME NEW t \in DOMAIN pool'.assigned, NEW r, r = pool'.assigned[t],
                        ~(exits'[r] > 0), t \notin misrouted'
                 PROVE  t \in InTransit(r)'
      BY DEF HandedBack
    <2>1. CASE t \in DOMAIN route
      <3>1. pool'.assigned[t] = route[t] /\ route[t] \in Slots /\ t \in GivenTo(route[t], route)
        BY <1>2, <1>3, <2>1 DEF GivenTo
      <3>2. r \in Slots /\ ~(exits[r] > 0) /\ ~pool.failed[r]  BY <1>5, <2>1, <3>1
      <3>3. alive[r]  BY <3>2 DEF Ports, Exited
      <3> QED  BY <1>8, <3>1, <3>2, <3>3
    <2>2. CASE t \notin DOMAIN route
      <3>1. t \in DOMAIN pool.assigned /\ pool'.assigned[t] = pool.assigned[t]
        BY <1>2, <1>3, <2>2
      <3>2. r = pool.assigned[t] /\ r \in Slots /\ ~(exits[r] > 0) /\ t \notin misrouted
        BY <1>5, <3>1, AssignedIs
      <3>3. t \in InTransit(r)  BY <3>1, <3>2 DEF Ports, HandedBack
      <3> QED  BY <1>8, <3>2, <3>3
    <2> QED  BY <2>1, <2>2
  <1> QED  BY <1>7, <1>10, <1>11, <1>12, <1>13 DEF Ports

\* A pool with nothing posted and nothing replied, and no worker dead.
LEMMA FreshPorts ==
  ASSUME pool = FreshPool, inbox = NonePosted, outbox = NoneReplied,
         alive = [s \in Slots |-> TRUE], exits = [s \in Slots |-> 0]
  PROVE  Ports
  <1>1. \A s \in Slots : /\ InTransit(s) = {} /\ alive[s] /\ exits[s] = 0 /\ Load(pool, s) = 0
                         /\ Cardinality(inbox[s]) = 0 /\ Cardinality(DOMAIN outbox[s]) = 0
                         /\ inbox[s] = {}
    BY FreshIs, FS_EmptySet DEF InTransit
  <1>2. DOMAIN pool.assigned = {}  BY FreshIs
  <1> QED  BY <1>1, <1>2 DEF Ports, Routed, Exited, LoadIsReal, HandedBack

-----------------------------------------------------------------------------
(* The callers.                                                            *)

Calls == HeldOnce /\ Owned /\ Placed

\* A worker's own step does not touch them.
LEMMA CallsSame ==
  ASSUME Calls, UNCHANGED <<pool, callerVars, cut>>, Living' => Living
  PROVE  Calls'
  BY DEF Calls, HeldOnce, Owned, Placed, Held, Given, callerVars

\* A job is settled: its result goes to whom it is owed.
LEMMA SettleCalls ==
  ASSUME Typed, Routed, Calls, UNCHANGED <<alive, callerVars, cut>>,
         NEW P \in Pools, P.next = pool.next, P.assigned = pool.assigned,
         P.results = pool.results, P.resolved = pool.resolved,
         P.waiters = pool.waiters, P.forgotten = pool.forgotten,
         NEW T \in SUBSET Given, Living => T \subseteq DOMAIN pool.assigned,
         NEW result \in Results, pool' = Settle(P, T, result)
  PROVE  Calls'
  <1>1. T \in SUBSET Nat  BY DEF Given
  <1>2. /\ pool'.next = pool.next
        /\ DOMAIN pool'.assigned = DOMAIN pool.assigned \ T
        /\ pool'.forgotten = pool.forgotten \ T
        /\ pool'.waiters = pool.waiters \ (T \ pool.forgotten)
        /\ DOMAIN pool'.resolved
             = DOMAIN pool.resolved \cup ((T \cap pool.waiters) \ pool.forgotten)
        /\ DOMAIN pool'.results
             = DOMAIN pool.results \cup (T \ (pool.forgotten \cup pool.waiters))
    <2>1. Settled(P, T, pool')  BY <1>1, SettleIs
    <2> QED  BY <2>1 DEF Settled, SameSlots, Lacks
  <1>3. Held' = Held /\ Given' = Given /\ Living' = Living /\ UNCHANGED <<callerVars, cut>>
    BY <1>2 DEF Held, Given, Living, callerVars
  <1>4. HeldOnce'  BY DEF Calls, HeldOnce, callerVars
  <1>5. Owned'
    <2>1. /\ pool'.waiters \subseteq DOMAIN pool'.assigned
          /\ pool'.forgotten \subseteq DOMAIN pool'.assigned
          /\ pool'.waiters \cap pool'.forgotten = {}
      BY <1>2 DEF Calls, Owned
    <2>2. /\ DOMAIN pool'.results \cap DOMAIN pool'.assigned = {}
          /\ DOMAIN pool'.resolved \cap DOMAIN pool'.assigned \subseteq pool'.forgotten
          /\ DOMAIN pool'.results \cup DOMAIN pool'.resolved \cup Held' \subseteq Given'
      BY <1>2, <1>3 DEF Calls, Owned
    <2>3. /\ Held' \cap (pool'.waiters \cup pool'.forgotten) = {}
          /\ DOMAIN pool'.assigned \subseteq pool'.forgotten \cup pool'.waiters \cup cut' \cup Held'
      BY <1>2, <1>3 DEF Calls, Owned
    <2>4. Living' => DOMAIN pool'.results \subseteq cut' \cup Held'
      BY <1>2, <1>3 DEF Calls, Owned
    <2> QED  BY <2>1, <2>2, <2>3, <2>4 DEF Owned
  <1>6. Placed'
    BY <1>2, <1>3 DEF Calls, Placed, Given, callerVars
  <1> QED  BY <1>4, <1>5, <1>6 DEF Calls

\* The jobs of a dead worker fail, for whoever they are owed to.
LEMMA FailsCalls ==
  ASSUME Typed, Ports, Calls, NEW s \in Slots, SlotFails(s)
  PROVE  Calls'
  <1> DEFINE P == [pool EXCEPT !.failed[s] = TRUE]
  <1>1. /\ P \in Pools /\ P.next = pool.next /\ P.assigned = pool.assigned
        /\ P.results = pool.results /\ P.resolved = pool.resolved
        /\ P.waiters = pool.waiters /\ P.forgotten = pool.forgotten
    BY DEF Typed, Pools
  <1>2. pool' = Settle(P, Owes(s), "failed") /\ UNCHANGED <<alive, callerVars, cut>>
    BY DEF SlotFails, FailSlot, Owes, history
  <1> HIDE DEF P
  <1>3. Owes(s) \in SUBSET Given /\ Owes(s) \subseteq DOMAIN pool.assigned
    BY DEF Owes, Ports, Routed
  <1>4. "failed" \in Results /\ Routed  BY DEF Results, Ports
  <1> QED  BY <1>1, <1>2, <1>3, <1>4, SettleCalls

\* A reply goes to whom it is owed: while all workers live it was still expected.
LEMMA DeliverCalls ==
  ASSUME Typed, Ports, Calls, NEW s \in Slots, Deliver(s)
  PROVE  Calls'
  <1> DEFINE m == Min(DOMAIN outbox[s])
             P == [pool EXCEPT !.consumed[s] = @ + 1]
             result == outbox[s][m]
  <1>1. DOMAIN outbox[s] \in SUBSET Nat /\ \A t \in DOMAIN outbox[s] : outbox[s][t] \in Results
    <2>1. outbox[s] \in Maps(Results)  BY DEF Typed
    <2> QED  BY <2>1 DEF Maps
  <1>2. m \in DOMAIN outbox[s]  BY <1>1, NextIs DEF Deliver
  <1>3. result \in Results  BY <1>1, <1>2
  <1>4. P \in Pools
    <2> DEFINE c == [pool.consumed EXCEPT ![s] = @ + 1]
    <2>1. pool \in Pools /\ pool.consumed \in [Slots -> Nat]  BY DEF Typed, Pools
    <2>2. c \in [Slots -> Nat]  BY <2>1
    <2>3. P = [pool EXCEPT !.consumed = c]  BY <2>1 DEF Pools
    <2> HIDE DEF c, P
    <2> QED  BY <2>1, <2>2, <2>3 DEF Pools
  <1>5. /\ P.next = pool.next /\ P.assigned = pool.assigned
        /\ P.results = pool.results /\ P.resolved = pool.resolved
        /\ P.waiters = pool.waiters /\ P.forgotten = pool.forgotten
    BY DEF Typed, Pools
  <1>6. pool' = Settle(P, {m}, result) /\ UNCHANGED <<alive, callerVars, cut>>
    BY DEF Deliver, history
  <1> HIDE DEF m, P, result
  <1>7. m \in InTransit(s)  BY <1>2 DEF InTransit
  <1>8. {m} \in SUBSET Given  BY <1>7 DEF Ports, Routed
  <1>9. Living => {m} \subseteq DOMAIN pool.assigned
    BY <1>7 DEF Living, Ports, LoadIsReal
  <1>10. Routed  BY DEF Ports
  <1> QED  BY <1>3, <1>4, <1>5, <1>6, <1>8, <1>9, <1>10, SettleCalls

-----------------------------------------------------------------------------
(* Leaving the preparation.                                                *)

\* The preparation gives up what it holds, and nobody waits.
LEMMA LeaveKeeps ==
  ASSUME Inv, Leave, pool.waiters = {}, cut \subseteq cut', cut' \subseteq Nat,
         Held \ (ToSet(ahead) \ {NoJob}) \subseteq cut'
  PROVE  Inv'
  <1> DEFINE T == ToSet(ahead) \ {NoJob}
  <1>1. T \subseteq Held  BY DEF Held
  <1>2. pool' = Forget(pool, T)  BY DEF Leave
  <1>3. /\ phase' = "idle" /\ left' = 0 /\ ahead' = <<>> /\ current' = NoJob
        /\ UNCHANGED <<inbox, outbox, alive, exits, misrouted>>
    BY DEF Leave, workerVars
  <1>4. pool \in Pools  BY DEF Inv, Typed
  <1> HIDE DEF T
  <1>5. /\ pool' \in Pools /\ SameSlots(pool, pool')
        /\ pool'.assigned = pool.assigned /\ pool'.resolved = pool.resolved /\ pool'.waiters = {}
        /\ DOMAIN pool'.results = DOMAIN pool.results \ T
        /\ pool'.forgotten
             = pool.forgotten \cup ((T \cap DOMAIN pool.assigned) \ DOMAIN pool.results)
    BY <1>2, <1>4, ForgetIs
  <1>6. Held' = {}  BY <1>3 DEF Held, ToSet
  <1>7. Typed'
    BY <1>3, <1>5, PoolAssumption DEF Inv, Typed, NoJob, Phases
  <1>8. Ports'  BY <1>3, <1>5, PortsSame DEF Inv, workerVars
  <1>9. HeldOnce'  BY <1>3 DEF HeldOnce
  <1>10. Given' = Given /\ Living' = Living /\ pool'.next = pool.next
    BY <1>3, <1>5 DEF Given, Living, SameSlots
  <1>11. Owned'
    <2>1. /\ pool'.waiters \subseteq DOMAIN pool'.assigned
          /\ pool'.forgotten \subseteq DOMAIN pool'.assigned
          /\ pool'.waiters \cap pool'.forgotten = {}
      BY <1>5 DEF Inv, Owned
    <2>2. /\ DOMAIN pool'.results \cap DOMAIN pool'.assigned = {}
          /\ DOMAIN pool'.resolved \cap DOMAIN pool'.assigned \subseteq pool'.forgotten
          /\ DOMAIN pool'.results \cup DOMAIN pool'.resolved \cup Held' \subseteq Given'
      BY <1>5, <1>6, <1>10 DEF Inv, Owned
    <2>3. /\ Held' \cap (pool'.waiters \cup pool'.forgotten) = {}
          /\ DOMAIN pool'.assigned \subseteq pool'.forgotten \cup pool'.waiters \cup cut' \cup Held'
      BY <1>5, <1>6 DEF Inv, Owned, T
    <2>4. Living' => DOMAIN pool'.results \subseteq cut' \cup Held'
      BY <1>5, <1>6, <1>10 DEF Inv, Owned, T
    <2> QED  BY <2>1, <2>2, <2>3, <2>4 DEF Owned
  <1>12. Placed'
    <2>1. pool.next \in Nat /\ left \in Nat /\ pool.next + left <= MaxTickets
      BY <1>4 DEF Inv, Typed, Placed, Pools
    <2>2. NumSlots \in Nat /\ MaxTickets \in Nat  BY PoolAssumption
    <2> QED  BY <1>3, <1>5, <1>10, <2>1, <2>2 DEF Placed
  <1> QED  BY <1>7, <1>8, <1>9, <1>11, <1>12 DEF Inv

\* What is awaited has come, so that nobody waits any more.
LEMMA Awaited ==
  ASSUME Inv, phase = "waiting", current \in DOMAIN pool.resolved
  PROVE  pool.waiters = {}
  BY DEF Inv, Owned, Placed

\* No file is left: nothing was read ahead.
LEMMA DoneKeeps == ASSUME Inv, Done PROVE Inv'
  <1>1. phase = "loop" /\ Leave /\ cut' = cut  BY DEF Done
  <1>2. pool.waiters = {}  BY <1>1 DEF Inv, Placed
  <1>3. Held \ (ToSet(ahead) \ {NoJob}) = {}  BY <1>1 DEF Held
  <1>4. cut \subseteq Nat  BY DEF Inv, Typed
  <1> QED  BY <1>1, <1>2, <1>3, <1>4, LeaveKeeps

\* A stop at a file's turn: that file's job is cut off, the others are forgotten.
LEMMA StopAtTurnKeeps == ASSUME Inv, StopAtTurn PROVE Inv'
  <1>1. phase = "turn" /\ Leave /\ cut' = cut \cup ({current} \ {NoJob})  BY DEF StopAtTurn
  <1>2. pool.waiters = {}  BY <1>1 DEF Inv, Placed
  <1>3. Held \ (ToSet(ahead) \ {NoJob}) \subseteq cut'  BY <1>1 DEF Held
  <1>4. cut' \subseteq Nat  BY <1>1 DEF Inv, Typed
  <1> QED  BY <1>1, <1>2, <1>3, <1>4, LeaveKeeps

\* A limit reached after a file: its own result was taken.
LEMMA StopAfterFileKeeps == ASSUME Inv, StopAfterFile PROVE Inv'
  <1>1. phase = "waiting" /\ current \in DOMAIN pool.resolved /\ Leave /\ cut' = cut
    BY DEF StopAfterFile
  <1>2. pool.waiters = {}  BY <1>1, Awaited
  <1>3. Held \ (ToSet(ahead) \ {NoJob}) = {}  BY <1>1 DEF Held
  <1>4. cut \subseteq Nat  BY DEF Inv, Typed
  <1> QED  BY <1>1, <1>2, <1>3, <1>4, LeaveKeeps

-----------------------------------------------------------------------------
(* A file's turn.                                                          *)

\* The job whose turn it is stops being held, and is awaited or answered.
LEMMA GoOnKeeps == ASSUME Inv, GoOn PROVE Inv'
  <1>1. /\ phase = "turn" /\ UNCHANGED <<workerVars, left, ahead, current, idle, history>>
        /\ pool' = IF current = NoJob THEN pool ELSE Wait(pool, current)
        /\ phase' = IF current = NoJob THEN "loop" ELSE "waiting"
    BY DEF GoOn
  <1>2. pool \in Pools /\ current \in Nat  BY DEF Inv, Typed
  <1>3. CASE current = NoJob
    <2>1. Held' = Held  BY <1>1, <1>3 DEF Held
    <2>2. pool' = pool /\ phase' = "loop"  BY <1>1, <1>3
    <2>3. Typed'  BY <1>1, <2>2 DEF Inv, Typed, Phases, workerVars, history
    <2>4. Ports'  BY <1>1, <2>2, PortsSame DEF Inv, SameSlots, history
    <2>5. HeldOnce'  BY <1>1, <2>2 DEF Inv, HeldOnce
    <2>6. Owned'  BY <1>1, <2>1, <2>2 DEF Inv, Owned, Given, Living, workerVars, history
    <2>7. Placed'  BY <1>1, <2>2 DEF Inv, Placed
    <2> QED  BY <2>3, <2>4, <2>5, <2>6, <2>7 DEF Inv
  <1>4. CASE current # NoJob
    <2>1. pool' = Wait(pool, current) /\ phase' = "waiting"  BY <1>1, <1>4
    <2>2. /\ pool' \in Pools /\ SameSlots(pool, pool')
          /\ pool'.assigned = pool.assigned /\ pool'.forgotten = pool.forgotten
          /\ DOMAIN pool'.results = DOMAIN pool.results \ {current}
          /\ IF current \in DOMAIN pool.assigned \ DOMAIN pool.results
             THEN /\ pool'.waiters = pool.waiters \cup {current}
                  /\ DOMAIN pool'.resolved = DOMAIN pool.resolved
             ELSE /\ pool'.waiters = pool.waiters
                  /\ DOMAIN pool'.resolved = DOMAIN pool.resolved \cup {current}
      BY <1>2, <2>1, WaitIs
    <2>3. current \in Held /\ current \notin ToSet(ahead)
      BY <1>1, <1>4 DEF Inv, HeldOnce, Held
    <2>4. Held' = Held \ {current}  BY <1>1, <2>1, <2>3 DEF Held
    <2>5. Typed'  BY <1>1, <2>1, <2>2 DEF Inv, Typed, Phases, workerVars, history
    <2>6. Ports'  BY <1>1, <2>2, PortsSame DEF Inv, history
    <2>7. HeldOnce'  BY <1>1, <2>1 DEF Inv, HeldOnce
    <2>8. Given' = Given /\ Living' = Living /\ cut' = cut /\ current \in Given
      BY <1>1, <2>2, <2>3 DEF Inv, Owned, Given, Living, SameSlots, workerVars, history
    <2>9. pool.waiters = {}  BY <1>1 DEF Inv, Placed
    <2>10. Owned'
      <3>1. /\ pool'.waiters \subseteq DOMAIN pool'.assigned
            /\ pool'.forgotten \subseteq DOMAIN pool'.assigned
            /\ pool'.waiters \cap pool'.forgotten = {}
        BY <2>2, <2>3 DEF Inv, Owned
      <3>2. /\ DOMAIN pool'.results \cap DOMAIN pool'.assigned = {}
            /\ DOMAIN pool'.resolved \cap DOMAIN pool'.assigned \subseteq pool'.forgotten
        BY <2>2 DEF Inv, Owned
      <3>3. DOMAIN pool'.results \cup DOMAIN pool'.resolved \cup Held' \subseteq Given'
        BY <2>2, <2>4, <2>8 DEF Inv, Owned
      <3>4. Held' \cap (pool'.waiters \cup pool'.forgotten) = {}
        BY <2>2, <2>4, <2>9 DEF Inv, Owned
      <3>5. DOMAIN pool'.assigned \subseteq pool'.forgotten \cup pool'.waiters \cup cut' \cup Held'
        BY <2>2, <2>4, <2>8, <2>9 DEF Inv, Owned
      <3>6. Living' => DOMAIN pool'.results \subseteq cut' \cup Held'
        BY <2>2, <2>4, <2>8 DEF Inv, Owned
      <3> QED  BY <3>1, <3>2, <3>3, <3>4, <3>5, <3>6 DEF Owned
    <2>11. Placed'
      BY <1>1, <2>1, <2>2, <2>8, <2>9 DEF Inv, Placed, SameSlots
    <2> QED  BY <2>5, <2>6, <2>7, <2>10, <2>11 DEF Inv
  <1> QED  BY <1>3, <1>4

\* The awaited result has come, so that nobody waits.
LEMMA ResumeKeeps == ASSUME Inv, Resume PROVE Inv'
  <1>1. /\ phase = "waiting" /\ current \in DOMAIN pool.resolved
        /\ phase' = "loop" /\ current' = NoJob
        /\ UNCHANGED <<pool, workerVars, left, ahead, idle, history>>
    BY DEF Resume
  <1>2. pool.waiters = {}  BY <1>1, Awaited
  <1>3. Held' = Held  BY <1>1 DEF Held
  <1>4. Typed'
    BY <1>1, PoolAssumption DEF Inv, Typed, Phases, NoJob, workerVars, history
  <1>5. Ports'  BY <1>1, PortsSame DEF Inv, SameSlots, history
  <1>6. HeldOnce'  BY <1>1 DEF Inv, HeldOnce
  <1>7. Owned'  BY <1>1, <1>3 DEF Inv, Owned, Given, Living, workerVars, history
  <1>8. Placed'  BY <1>1, <1>2 DEF Inv, Placed
  <1> QED  BY <1>4, <1>5, <1>6, <1>7, <1>8 DEF Inv

\* A preparation begins, holding nothing.
LEMMA BeginKeeps == ASSUME Inv, Begin PROVE Inv'
  <1>1. /\ phase = "idle" /\ pool.next + NumFiles <= MaxTickets
        /\ phase' = "loop" /\ left' = NumFiles
        /\ UNCHANGED <<pool, workerVars, ahead, current, history>>
    BY DEF Begin
  <1>2. ahead = <<>> /\ pool.waiters = {}  BY <1>1 DEF Inv, Placed
  <1>3. Held' = Held  BY <1>1 DEF Held
  <1>4. Typed'  BY <1>1, PoolAssumption DEF Inv, Typed, Phases, workerVars, history
  <1>5. Ports'  BY <1>1, PortsSame DEF Inv, SameSlots, history
  <1>6. HeldOnce'  BY <1>1 DEF Inv, HeldOnce
  <1>7. Owned'  BY <1>1, <1>3 DEF Inv, Owned, Given, Living, workerVars, history
  <1>8. Placed'  BY <1>1, <1>2 DEF Inv, Placed
  <1> QED  BY <1>4, <1>5, <1>6, <1>7, <1>8 DEF Inv

\* q is what was read ahead, a, then r jobs, that the tickets T are among.
Joined(q, a, r, T, jobs) ==
  /\ q \in Seq(Nat) /\ Len(q) = Len(a) + r
  /\ Head(q) \in Nat /\ Tail(q) \in Seq(Nat) /\ Len(Tail(q)) = Len(a) + r - 1
  /\ ToSet(Tail(q)) \cup {Head(q)} \cup {NoJob} = ToSet(a) \cup T \cup {NoJob}
  /\ \A i \in DOMAIN q : q[i] = IF i <= Len(a) THEN a[i] ELSE jobs[i - Len(a)]
  /\ Head(q) = q[1] /\ \A i \in 1 .. Len(a) + r - 1 : Tail(q)[i] = q[i + 1]

\* Reading ahead joins them so.
LEMMA JobsAre ==
  ASSUME NEW r \in Nat, NEW T \in SUBSET Nat, NEW a \in Seq(Nat),
         NEW jobs \in [1 .. r -> T \cup {NoJob}], T \subseteq ToSet(jobs),
         Len(a) + r > 0
  PROVE  Joined(a \o jobs, a, r, T, jobs)
  <1> DEFINE q == a \o jobs
             n == Len(a) + r
  <1>1. NoJob \in Nat  BY PoolAssumption DEF NoJob
  <1>2. /\ jobs \in Seq(Nat) /\ Len(jobs) = r
        /\ ToSet(a) = {a[i] : i \in 1 .. Len(a)} /\ ToSet(jobs) = {jobs[i] : i \in 1 .. r}
    <2>1. jobs \in [1 .. r -> Nat]  BY <1>1
    <2>2. jobs \in Seq(Nat)  BY <2>1, SeqDef
    <2>3. Len(jobs) = r  BY <2>1, <2>2, LenProperties
    <2>4. DOMAIN a = 1 .. Len(a) /\ DOMAIN jobs = 1 .. r  BY LenProperties
    <2> QED  BY <2>2, <2>3, <2>4 DEF ToSet
  <1>3. /\ q \in Seq(Nat) /\ Len(q) = n
        /\ \A i \in 1 .. n : q[i] = IF i <= Len(a) THEN a[i] ELSE jobs[i - Len(a)]
    BY <1>2, ConcatProperties
  <1> HIDE DEF q
  <1>4. n \in Nat /\ n > 0 /\ Len(a) \in Nat  BY LenProperties
  <1>5. /\ Head(q) = q[1] /\ Head(q) \in Nat /\ Tail(q) \in Seq(Nat) /\ Len(Tail(q)) = n - 1
        /\ \A i \in 1 .. n - 1 : Tail(q)[i] = q[i + 1]
    <2>1. q # <<>>  BY <1>3, <1>4, EmptySeq
    <2>2. Head(q) = q[1]  OBVIOUS
    <2> QED  BY <1>3, <2>1, <2>2, HeadTailProperties
  <1>6. ToSet(Tail(q)) \cup {Head(q)} = {q[i] : i \in 1 .. n}
    <2>1. ToSet(Tail(q)) = {Tail(q)[i] : i \in 1 .. n - 1}
      <3>1. DOMAIN Tail(q) = 1 .. n - 1  BY <1>5, LenProperties
      <3> QED  BY <3>1 DEF ToSet
    <2>2. ASSUME NEW i \in 1 .. n, i # 1
          PROVE  i - 1 \in 1 .. n - 1 /\ q[i] = Tail(q)[i - 1]
      BY <1>4, <1>5, <2>2
    <2>3. ASSUME NEW i \in 1 .. n - 1 PROVE i + 1 \in 1 .. n /\ Tail(q)[i] = q[i + 1]
      BY <1>4, <1>5
    <2>4. 1 \in 1 .. n  BY <1>4
    <2> HIDE DEF n
    <2>5. ToSet(Tail(q)) \subseteq {q[i] : i \in 1 .. n}  BY <2>1, <2>3
    <2>6. {q[i] : i \in 1 .. n} \subseteq ToSet(Tail(q)) \cup {q[1]}
      <3> SUFFICES ASSUME NEW i \in 1 .. n, i # 1 PROVE q[i] \in ToSet(Tail(q))
        OBVIOUS
      <3>1. i - 1 \in 1 .. n - 1 /\ q[i] = Tail(q)[i - 1]  BY <2>2
      <3> QED  BY <2>1, <3>1
    <2> QED  BY <1>5, <2>4, <2>5, <2>6
  <1>7. {q[i] : i \in 1 .. n} = ToSet(a) \cup ToSet(jobs)
    <2>1. ASSUME NEW i \in 1 .. Len(a) PROVE i \in 1 .. n /\ q[i] = a[i]
      BY <1>3, <1>4
    <2>2. ASSUME NEW i \in 1 .. r PROVE i + Len(a) \in 1 .. n /\ q[i + Len(a)] = jobs[i]
      <3>1. /\ i + Len(a) \in 1 .. n /\ ~(i + Len(a) <= Len(a)) /\ (i + Len(a)) - Len(a) = i
        BY <1>4
      <3> HIDE DEF n
      <3> QED  BY <1>3, <3>1
    <2>3. ASSUME NEW i \in 1 .. n
          PROVE  \/ i \in 1 .. Len(a) /\ q[i] = a[i]
                 \/ i - Len(a) \in 1 .. r /\ q[i] = jobs[i - Len(a)]
      BY <1>3, <1>4
    <2> HIDE DEF n
    <2>4. ToSet(a) \subseteq {q[i] : i \in 1 .. n}  BY <1>2, <2>1
    <2>5. ToSet(jobs) \subseteq {q[i] : i \in 1 .. n}  BY <1>2, <2>2
    <2>6. {q[i] : i \in 1 .. n} \subseteq ToSet(a) \cup ToSet(jobs)  BY <1>2, <2>3
    <2> QED  BY <2>4, <2>5, <2>6
  <1>8. ToSet(jobs) \cup {NoJob} = T \cup {NoJob}
    BY <1>2
  <1>9. ToSet(Tail(q)) \cup {Head(q)} \cup {NoJob} = ToSet(a) \cup T \cup {NoJob}
    BY <1>6, <1>7, <1>8
  <1>10. DOMAIN q = 1 .. n  BY <1>3, LenProperties
  <1>11. Joined(q, a, r, T, jobs)  BY <1>3, <1>5, <1>9, <1>10 DEF Joined
  <1> QED  BY <1>11 DEF q

\* The room to read ahead is there, and used when nothing is left to take.
LEMMA RoomIs ==
  ASSUME Inv
  PROVE  /\ Room \in Nat /\ Room <= left /\ Len(ahead) \in Nat /\ Len(ahead) + Room <= 2 * NumSlots
         /\ left + Len(ahead) > 0 => Len(ahead) + Room > 0
  <1>1. NumSlots \in Nat /\ NumSlots > 0  BY PoolAssumption
  <1>2. left \in Nat /\ Len(ahead) \in Nat /\ Len(ahead) <= 2 * NumSlots
    BY LenProperties DEF Inv, Typed, Placed
  <1> QED  BY <1>1, <1>2 DEF Room

\* Tickets are given out: nobody owed anything by them yet.
LEMMA GivenOut ==
  ASSUME Inv, NEW n \in Nat, NEW route \in Routes(pool, n), pool.next + n <= MaxTickets
  PROVE  /\ Submit(pool, route).next = pool.next + n
         /\ DOMAIN route \subseteq Nat /\ NoJob \notin DOMAIN route
         /\ DOMAIN route \cap Given = {}
         /\ Given \cup DOMAIN route = 0 .. pool.next + n - 1
         /\ \A t \in DOMAIN route : t >= pool.next
  <1>1. pool \in Pools /\ pool.next \in Nat /\ MaxTickets \in Nat
    BY PoolAssumption DEF Inv, Typed, Pools
  <1>2. DOMAIN route = pool.next .. pool.next + n - 1 /\ Submit(pool, route).next = pool.next + n
    BY <1>1, SubmitIs
  <1> QED  BY <1>1, <1>2 DEF Given, NoJob

\* The tickets that a preparation submits are new, each is held once, and the first of
\* all that are held has its turn.
LEMMA TakeTurnKeeps == ASSUME Inv, TakeTurn PROVE Inv'
  <1>1. PICK n \in 0 .. Room : \E route \in Routes(pool, n) : \E jobs \in Jobs(DOMAIN route) :
          /\ pool' = Submit(pool, route) /\ Posted(route)
          /\ current' = Head(ahead \o jobs) /\ ahead' = Tail(ahead \o jobs)
    BY DEF TakeTurn
  <1>2. PICK route \in Routes(pool, n) : \E jobs \in Jobs(DOMAIN route) :
          /\ pool' = Submit(pool, route) /\ Posted(route)
          /\ current' = Head(ahead \o jobs) /\ ahead' = Tail(ahead \o jobs)
    BY <1>1
  <1>3. PICK jobs \in Jobs(DOMAIN route) :
          /\ pool' = Submit(pool, route) /\ Posted(route)
          /\ current' = Head(ahead \o jobs) /\ ahead' = Tail(ahead \o jobs)
    BY <1>2
  <1> DEFINE T == DOMAIN route
             q == ahead \o jobs
  <1>4. /\ phase = "loop" /\ phase' = "turn" /\ left' = left - Room /\ left + Len(ahead) > 0
        /\ UNCHANGED <<outbox, alive, exits, cut>>
    BY <1>3 DEF TakeTurn, Posted
  <1>5. /\ pool \in Pools /\ pool.next \in Nat /\ left \in Nat /\ ahead \in Seq(Nat)
        /\ pool.next + left <= MaxTickets /\ MaxTickets \in Nat /\ pool.waiters = {}
    BY <1>4, PoolAssumption DEF Inv, Typed, Pools, Placed
  <1>6. /\ Room \in Nat /\ Room <= left /\ Len(ahead) \in Nat
        /\ Len(ahead) + Room <= 2 * NumSlots /\ Len(ahead) + Room > 0
    BY <1>4, RoomIs
  <1>7. n \in Nat /\ n <= Room /\ pool.next + n <= MaxTickets  BY <1>5, <1>6
  <1>8. /\ pool'.next = pool.next + n
        /\ T \subseteq Nat /\ NoJob \notin T /\ T \cap Given = {}
        /\ Given' = Given \cup T /\ \A t \in T : t >= pool.next
    <2>1. /\ Submit(pool, route).next = pool.next + n
          /\ T \subseteq Nat /\ NoJob \notin T /\ T \cap Given = {}
          /\ Given \cup T = 0 .. pool.next + n - 1
          /\ \A t \in T : t >= pool.next
      BY <1>7, GivenOut
    <2>2. pool'.next = pool.next + n  BY <1>3, <2>1
    <2>3. Given' = 0 .. pool.next + n - 1  BY <1>5, <1>7, <2>2 DEF Given
    <2> QED  BY <2>1, <2>2, <2>3
  <1>9. /\ pool' \in Pools /\ pool'.results = pool.results /\ pool'.resolved = pool.resolved
        /\ pool'.waiters = pool.waiters /\ pool'.forgotten = pool.forgotten
        /\ DOMAIN pool'.assigned = DOMAIN pool.assigned \cup T
    BY <1>3, <1>5, <1>7, SubmitIs
  <1>10. /\ jobs \in [1 .. Room -> T \cup {NoJob}] /\ T \subseteq ToSet(jobs)
         /\ \A i, j \in 1 .. Room : i < j /\ NoJob \notin {jobs[i], jobs[j]} => jobs[i] < jobs[j]
    BY DEF Jobs
  <1> HIDE DEF T, q
  <1>11. /\ q \in Seq(Nat) /\ Len(q) = Len(ahead) + Room
         /\ Head(q) \in Nat /\ Tail(q) \in Seq(Nat) /\ Len(Tail(q)) = Len(ahead) + Room - 1
         /\ ToSet(Tail(q)) \cup {Head(q)} \cup {NoJob} = ToSet(ahead) \cup T \cup {NoJob}
         /\ \A i \in DOMAIN q : q[i] = IF i <= Len(ahead) THEN ahead[i] ELSE jobs[i - Len(ahead)]
         /\ Head(q) = q[1] /\ \A i \in 1 .. Len(ahead) + Room - 1 : Tail(q)[i] = q[i + 1]
    <2>1. Joined(q, ahead, Room, T, jobs)
      BY <1>5, <1>6, <1>8, <1>10, JobsAre DEF q
    <2> QED  BY <2>1 DEF Joined
  <1>12. current' = Head(q) /\ ahead' = Tail(q)  BY <1>3 DEF q
  <1>13. Held' = Held \cup T
    BY <1>4, <1>8, <1>11, <1>12 DEF Held
  <1>14. Typed' /\ Ports'
    <2>1. Ports' /\ inbox' \in [Slots -> SUBSET Nat] /\ misrouted' \subseteq Nat
      BY <1>3, <1>7, SubmitPorts DEF Inv, SameSlots
    <2>2. left' \in Nat /\ phase' \in Phases  BY <1>4, <1>5, <1>6 DEF Phases
    <2>3. ahead' \in Seq(Nat) /\ current' \in Nat  BY <1>11, <1>12
    <2> QED  BY <1>4, <1>9, <2>1, <2>2, <2>3 DEF Inv, Typed
  <1>15. DOMAIN q = 1 .. Len(ahead) + Room /\ DOMAIN ahead = 1 .. Len(ahead)
    BY <1>5, <1>11, LenProperties
  <1>16. ASSUME NEW i \in DOMAIN q, NEW j \in DOMAIN q, i < j, q[i] = q[j] PROVE q[i] = NoJob
    <2>1. CASE j <= Len(ahead)
      <3>1. i \in DOMAIN ahead /\ j \in DOMAIN ahead /\ i # j /\ q[i] = ahead[i] /\ q[j] = ahead[j]
        BY <1>6, <1>11, <1>15, <1>16, <2>1
      <3> QED  BY <1>16, <3>1 DEF Inv, HeldOnce
    <2>2. CASE i > Len(ahead)
      <3>1. /\ i - Len(ahead) \in 1 .. Room /\ j - Len(ahead) \in 1 .. Room
            /\ i - Len(ahead) < j - Len(ahead)
            /\ q[i] = jobs[i - Len(ahead)] /\ q[j] = jobs[j - Len(ahead)]
        <4>1. i \in 1 .. Len(ahead) + Room /\ j \in 1 .. Len(ahead) + Room  BY <1>15
        <4>2. ~(i <= Len(ahead)) /\ ~(j <= Len(ahead))  BY <1>6, <1>16, <2>2, <4>1
        <4>3. /\ i - Len(ahead) \in 1 .. Room /\ j - Len(ahead) \in 1 .. Room
              /\ i - Len(ahead) < j - Len(ahead)
          BY <1>6, <1>16, <4>1, <4>2
        <4> QED  BY <1>11, <4>2, <4>3
      <3>2. q[i] \in T \cup {NoJob}  BY <1>10, <3>1
      <3>3. q[i] = NoJob \/ q[i] < q[j]  BY <1>10, <1>16, <3>1
      <3>4. q[i] \in Nat  BY <1>11, <1>15, ElementOfSeq
      <3> QED  BY <1>16, <3>3, <3>4
    <2>3. CASE i <= Len(ahead) /\ j > Len(ahead)
      <3>1. /\ i \in DOMAIN ahead /\ q[i] = ahead[i]
            /\ j - Len(ahead) \in 1 .. Room /\ q[j] = jobs[j - Len(ahead)]
        BY <1>6, <1>11, <1>15, <2>3
      <3>2. q[j] \in T \cup {NoJob}  BY <1>10, <3>1
      <3>3. q[i] \in Held \cup {NoJob}  BY <3>1 DEF Held, ToSet
      <3>4. Held \subseteq Given  BY DEF Inv, Owned
      <3> QED  BY <1>8, <1>16, <3>2, <3>3, <3>4
    <2> QED  BY <1>6, <1>15, <1>16, <2>1, <2>2, <2>3
  <1>17. DOMAIN ahead' = 1 .. Len(ahead) + Room - 1  BY <1>11, <1>12, LenProperties
  <1>18. HeldOnce'
    <2>1. ASSUME NEW i \in DOMAIN ahead', NEW j \in DOMAIN ahead', i < j, ahead'[i] = ahead'[j]
          PROVE  ahead'[i] = NoJob
      <3>1. /\ i + 1 \in DOMAIN q /\ j + 1 \in DOMAIN q /\ i + 1 < j + 1
            /\ ahead'[i] = q[i + 1] /\ ahead'[j] = q[j + 1]
        <4>1. i \in 1 .. Len(ahead) + Room - 1 /\ j \in 1 .. Len(ahead) + Room - 1  BY <1>17
        <4>2. /\ i + 1 \in 1 .. Len(ahead) + Room /\ j + 1 \in 1 .. Len(ahead) + Room
              /\ i + 1 < j + 1
          BY <1>6, <2>1, <4>1
        <4> QED  BY <1>11, <1>12, <1>15, <4>1, <4>2
      <3> QED  BY <1>16, <2>1, <3>1
    <2>2. \A i, j \in DOMAIN ahead' : ahead'[i] = ahead'[j] => i = j \/ ahead'[i] = NoJob
      <3> SUFFICES ASSUME NEW i \in DOMAIN ahead', NEW j \in DOMAIN ahead', ahead'[i] = ahead'[j]
                   PROVE  i = j \/ ahead'[i] = NoJob
        OBVIOUS
      <3>1. i \in Int /\ j \in Int  BY <1>6, <1>17
      <3>2. i < j \/ j < i \/ i = j  BY <3>1
      <3> QED  BY <2>1, <3>2
    <2>3. ASSUME current' \in ToSet(ahead') PROVE current' = NoJob
      <3>1. PICK i \in DOMAIN ahead' : current' = ahead'[i]  BY <2>3 DEF ToSet
      <3>2. /\ 1 \in DOMAIN q /\ i + 1 \in DOMAIN q /\ 1 < i + 1
            /\ current' = q[1] /\ ahead'[i] = q[i + 1]
        BY <1>6, <1>11, <1>12, <1>15, <1>17
      <3> QED  BY <1>16, <3>1, <3>2
    <2> QED  BY <2>2, <2>3 DEF HeldOnce
  <1>19. Living' = Living  BY <1>4 DEF Living
  <1>20. Owned'
    <2>1. /\ pool'.waiters \subseteq DOMAIN pool'.assigned
          /\ pool'.forgotten \subseteq DOMAIN pool'.assigned
          /\ pool'.waiters \cap pool'.forgotten = {}
      BY <1>9 DEF Inv, Owned
    <2>2. /\ DOMAIN pool'.results \cap DOMAIN pool'.assigned = {}
          /\ DOMAIN pool'.resolved \cap DOMAIN pool'.assigned \subseteq pool'.forgotten
          /\ DOMAIN pool'.results \cup DOMAIN pool'.resolved \cup Held' \subseteq Given'
      BY <1>8, <1>9, <1>13 DEF Inv, Owned
    <2>3. /\ Held' \cap (pool'.waiters \cup pool'.forgotten) = {}
          /\ DOMAIN pool'.assigned \subseteq pool'.forgotten \cup pool'.waiters \cup cut' \cup Held'
      BY <1>4, <1>8, <1>9, <1>13 DEF Inv, Ports, Routed, Owned
    <2>4. Living' => DOMAIN pool'.results \subseteq cut' \cup Held'
      BY <1>4, <1>9, <1>13, <1>19 DEF Inv, Owned
    <2> QED  BY <2>1, <2>2, <2>3, <2>4 DEF Owned
  <1>21. Placed'
    <2>1. pool'.next + left' <= MaxTickets  BY <1>4, <1>5, <1>6, <1>7, <1>8
    <2>2. Len(ahead') <= 2 * NumSlots
      <3>1. NumSlots \in Nat  BY PoolAssumption
      <3> QED  BY <1>6, <1>11, <1>12, <3>1
    <2> QED  BY <1>4, <1>5, <1>9, <2>1, <2>2 DEF Placed
  <1> QED  BY <1>14, <1>18, <1>20, <1>21 DEF Inv

-----------------------------------------------------------------------------
(* A token count, and a pool that nobody took.                             *)

\* The chunks of a count are submitted and awaited at once.
LEMMA CountBeginsKeeps == ASSUME Inv, CountBegins PROVE Inv'
  <1>1. PICK route \in Routes(pool, NumChunks) :
          /\ pool' = [Submit(pool, route) EXCEPT !.waiters = @ \cup DOMAIN route]
          /\ Posted(route)
    BY DEF CountBegins
  <1> DEFINE T == DOMAIN route
             Q == Submit(pool, route)
  <1>2. /\ phase = "idle" /\ phase' = "counting" /\ pool.next + NumChunks <= MaxTickets
        /\ UNCHANGED <<left, ahead, current, outbox, alive, exits, cut>>
    BY <1>1 DEF CountBegins, Posted
  <1>3. pool \in Pools /\ pool.next \in Nat /\ NumChunks \in Nat
    BY PoolAssumption DEF Inv, Typed, Pools
  <1>4. ahead = <<>> /\ left = 0 /\ pool.waiters = {}  BY <1>2 DEF Inv, Placed
  <1>5. /\ Q.next = pool.next + NumChunks
        /\ T \subseteq Nat /\ T \cap Given = {}
        /\ Given \cup T = 0 .. pool.next + NumChunks - 1
    BY <1>2, <1>3, GivenOut
  <1>6. /\ Q \in Pools /\ Q.results = pool.results /\ Q.resolved = pool.resolved
        /\ Q.waiters = pool.waiters /\ Q.forgotten = pool.forgotten
        /\ DOMAIN Q.assigned = DOMAIN pool.assigned \cup T
    BY <1>3, SubmitIs
  <1>7. pool' = [Q EXCEPT !.waiters = T]  BY <1>1, <1>4, <1>6
  <1> HIDE DEF T, Q
  <1>8. /\ SameSlots(Q, pool') /\ pool'.assigned = Q.assigned /\ pool'.results = Q.results
        /\ pool'.resolved = Q.resolved /\ pool'.forgotten = Q.forgotten /\ pool'.waiters = T
    BY <1>6, <1>7 DEF Pools, SameSlots
  <1>9. pool' \in Pools
    <2>1. T \in SUBSET Nat  BY <1>5
    <2> QED  BY <1>6, <1>7, <2>1 DEF Pools
  <1>10. Given' = Given \cup T /\ pool'.next = pool.next + NumChunks
    <2>1. pool'.next = pool.next + NumChunks  BY <1>5, <1>8 DEF SameSlots
    <2>2. Given' = 0 .. pool.next + NumChunks - 1  BY <1>3, <2>1 DEF Given
    <2> QED  BY <1>5, <2>1, <2>2
  <1>11. Typed' /\ Ports'
    <2>1. Ports' /\ inbox' \in [Slots -> SUBSET Nat] /\ misrouted' \subseteq Nat
      BY <1>1, <1>3, <1>8, SubmitPorts DEF Inv, Q
    <2> QED  BY <1>2, <1>9, <2>1 DEF Inv, Typed, Phases
  <1>12. Held = {} /\ Held' = {}  BY <1>2, <1>4 DEF Held, ToSet
  <1>13. HeldOnce'  BY <1>2 DEF Inv, HeldOnce
  <1>14. Living' = Living  BY <1>2 DEF Living
  <1>15. Owned'
    <2>1. /\ pool'.waiters \subseteq DOMAIN pool'.assigned
          /\ pool'.forgotten \subseteq DOMAIN pool'.assigned
          /\ pool'.waiters \cap pool'.forgotten = {}
      BY <1>5, <1>6, <1>8 DEF Inv, Ports, Routed, Owned
    <2>2. /\ DOMAIN pool'.results \cap DOMAIN pool'.assigned = {}
          /\ DOMAIN pool'.resolved \cap DOMAIN pool'.assigned \subseteq pool'.forgotten
          /\ DOMAIN pool'.results \cup DOMAIN pool'.resolved \cup Held' \subseteq Given'
      BY <1>5, <1>6, <1>8, <1>10, <1>12 DEF Inv, Owned
    <2>3. /\ Held' \cap (pool'.waiters \cup pool'.forgotten) = {}
          /\ DOMAIN pool'.assigned \subseteq pool'.forgotten \cup pool'.waiters \cup cut' \cup Held'
      BY <1>2, <1>4, <1>6, <1>8, <1>12 DEF Inv, Owned
    <2>4. Living' => DOMAIN pool'.results \subseteq cut' \cup Held'
      BY <1>2, <1>6, <1>8, <1>12, <1>14 DEF Inv, Owned
    <2> QED  BY <2>1, <2>2, <2>3, <2>4 DEF Owned
  <1>16. Placed'
    <2>1. pool'.next + left' <= MaxTickets  BY <1>2, <1>3, <1>4, <1>10
    <2> QED  BY <1>2, <1>4, <2>1 DEF Inv, Placed
  <1> QED  BY <1>11, <1>13, <1>15, <1>16 DEF Inv

\* A count ends when nobody waits.
LEMMA CountEndsKeeps == ASSUME Inv, CountEnds PROVE Inv'
  <1>1. /\ phase = "counting" /\ pool.waiters = {} /\ phase' = "idle"
        /\ UNCHANGED <<pool, workerVars, left, ahead, current, history>>
    BY DEF CountEnds
  <1>2. Held' = Held  BY <1>1 DEF Held
  <1>3. Typed'  BY <1>1 DEF Inv, Typed, Phases, workerVars, history
  <1>4. Ports'  BY <1>1, PortsSame DEF Inv, SameSlots, history
  <1>5. HeldOnce'  BY <1>1 DEF Inv, HeldOnce
  <1>6. Owned'  BY <1>1, <1>2 DEF Inv, Owned, Given, Living, workerVars, history
  <1>7. Placed'  BY <1>1 DEF Inv, Placed
  <1> QED  BY <1>3, <1>4, <1>5, <1>6, <1>7 DEF Inv

\* A count that is aborted forgets what it waited for.
LEMMA CountAbortsKeeps == ASSUME Inv, CountAborts PROVE Inv'
  <1> DEFINE T == pool.waiters
  <1>1. /\ phase = "counting" /\ phase' = "idle" /\ pool' = AbortWaits(pool, T)
        /\ UNCHANGED <<workerVars, left, ahead, current, history>>
    BY DEF CountAborts
  <1>2. pool \in Pools /\ T \in SUBSET Nat  BY DEF Inv, Typed, Pools
  <1>3. ahead = <<>> /\ left = 0  BY <1>1 DEF Inv, Placed
  <1>4. /\ pool' \in Pools /\ SameSlots(pool, pool')
        /\ pool'.assigned = pool.assigned /\ pool'.waiters = T \ T
        /\ DOMAIN pool'.resolved = DOMAIN pool.resolved \cup T
        /\ DOMAIN pool'.results = DOMAIN pool.results \ T
        /\ pool'.forgotten
             = pool.forgotten \cup ((T \cap DOMAIN pool.assigned) \ DOMAIN pool.results)
    BY <1>1, <1>2, AbortWaitsIs
  <1>5. Held = {} /\ Held' = {}  BY <1>1, <1>3 DEF Held, ToSet
  <1>6. Given' = Given /\ Living' = Living /\ cut' = cut
    BY <1>1, <1>4 DEF Given, Living, SameSlots, workerVars, history
  <1>7. Typed'  BY <1>1, <1>4 DEF Inv, Typed, Phases, workerVars, history
  <1>8. Ports'  BY <1>1, <1>4, PortsSame DEF Inv, history
  <1>9. HeldOnce'  BY <1>1 DEF Inv, HeldOnce
  <1>10. Owned'
    <2>1. /\ pool'.waiters \subseteq DOMAIN pool'.assigned
          /\ pool'.forgotten \subseteq DOMAIN pool'.assigned
          /\ pool'.waiters \cap pool'.forgotten = {}
      BY <1>4 DEF Inv, Owned
    <2>2. /\ DOMAIN pool'.results \cap DOMAIN pool'.assigned = {}
          /\ DOMAIN pool'.resolved \cap DOMAIN pool'.assigned \subseteq pool'.forgotten
      BY <1>4 DEF Inv, Owned
    <2>3. DOMAIN pool'.results \cup DOMAIN pool'.resolved \cup Held' \subseteq Given'
      BY <1>4, <1>5, <1>6 DEF Inv, Ports, Routed, Owned
    <2>4. DOMAIN pool'.assigned \subseteq pool'.forgotten \cup pool'.waiters \cup cut' \cup Held'
      BY <1>4, <1>5, <1>6 DEF Inv, Owned
    <2>5. Living' => DOMAIN pool'.results \subseteq cut' \cup Held'
      BY <1>4, <1>5, <1>6 DEF Inv, Owned
    <2> QED  BY <1>5, <2>1, <2>2, <2>3, <2>4, <2>5 DEF Owned
  <1>11. Placed'  BY <1>1, <1>3, <1>4 DEF Inv, Placed, SameSlots
  <1> QED  BY <1>7, <1>8, <1>9, <1>10, <1>11 DEF Inv

\* A fresh pool, and a caller that has not come yet.
LEMMA FreshKeeps ==
  ASSUME pool = FreshPool, inbox = NonePosted, outbox = NoneReplied,
         alive = [s \in Slots |-> TRUE], exits = [s \in Slots |-> 0],
         phase = "idle", left = 0, ahead = <<>>, current \in Nat, misrouted = {}, cut = {}
  PROVE  Inv
  <1>1. Typed
    <2>1. ahead \in Seq(Nat)  BY EmptySeq
    <2> QED  BY <2>1, FreshIs DEF Typed, Phases
  <1>2. Ports  BY FreshPorts
  <1>3. Held = {}  BY DEF Held, ToSet
  <1>4. HeldOnce  BY DEF HeldOnce
  <1>5. Owned  BY <1>3, FreshIs DEF Owned
  <1>6. Placed
    <2>1. Len(ahead) = 0  OBVIOUS
    <2> QED  BY <2>1, FreshIs, PoolAssumption DEF Placed
  <1> QED  BY <1>1, <1>2, <1>4, <1>5, <1>6 DEF Inv

\* The pool that is closed gives way to a fresh one.
LEMMA CloseIdleKeeps == ASSUME Inv, CloseIdle PROVE Inv'
  <1>1. /\ pool' = FreshPool /\ inbox' = NonePosted /\ outbox' = NoneReplied
        /\ alive' = [s \in Slots |-> TRUE] /\ exits' = [s \in Slots |-> 0]
        /\ misrouted' = {} /\ cut' = {}
        /\ phase = "idle" /\ UNCHANGED <<phase, left, ahead, current>>
    BY DEF CloseIdle, Close
  <1>2. left' = 0 /\ ahead' = <<>> /\ current' \in Nat /\ phase' = "idle"
    BY <1>1 DEF Inv, Typed, Placed
  <1>3. (pool = FreshPool /\ inbox = NonePosted /\ outbox = NoneReplied
          /\ alive = [s \in Slots |-> TRUE] /\ exits = [s \in Slots |-> 0]
          /\ phase = "idle" /\ left = 0 /\ ahead = <<>> /\ current \in Nat /\ misrouted = {}
          /\ cut = {} => Inv)'
    BY FreshKeeps, PTL
  <1> QED  BY <1>1, <1>2, <1>3

-----------------------------------------------------------------------------
(* The theorems.                                                           *)

\* In every behaviour of the pool, its workers and its callers, the ports hold what the
\* slots owe, and every job is held, awaited, forgotten or cut off.
THEOREM Invariance == Spec => []Inv
  <1>1. Init => Inv
    <2>1. Init => current \in Nat  BY PoolAssumption DEF Init, NoJob
    <2> QED  BY <2>1, FreshKeeps DEF Init
  <1>2. Inv /\ [Next]_vars => Inv'
    <2> SUFFICES ASSUME Inv, [Next]_vars PROVE Inv'
      OBVIOUS
    <2>1. ASSUME NEW s \in Slots, WorkerReplies(s) PROVE Inv'
      <3>1. Calls'
        <4>1. UNCHANGED <<pool, callerVars, cut>> /\ Living' = Living
          BY <2>1 DEF WorkerReplies, history, Living
        <4> QED  BY <4>1, CallsSame DEF Inv, Calls
      <3> QED  BY <2>1, <3>1, RepliesPorts DEF Inv, Calls
    <2>2. ASSUME NEW s \in Slots, WorkerDies(s) PROVE Inv'
      <3>1. Calls'
        <4>1. UNCHANGED <<pool, callerVars, cut>>  BY <2>2 DEF WorkerDies, history
        <4>2. Living' => Living
          BY <2>2 DEF WorkerDies, Living, Inv, Typed
        <4> QED  BY <4>1, <4>2, CallsSame DEF Inv, Calls
      <3> QED  BY <2>2, <3>1, DiesPorts DEF Inv, Calls
    <2>3. ASSUME NEW s \in Slots, SlotFails(s) PROVE Inv'
      BY <2>3, FailsPorts, FailsCalls DEF Inv, Calls
    <2>4. ASSUME NEW s \in Slots, Deliver(s) PROVE Inv'
      BY <2>4, DeliverPorts, DeliverCalls DEF Inv, Calls
    <2>5. CASE Begin  BY <2>5, BeginKeeps
    <2>6. CASE Caller
      BY <2>6, TakeTurnKeeps, DoneKeeps, GoOnKeeps, ResumeKeeps DEF Caller
    <2>7. CASE StopAtTurn  BY <2>7, StopAtTurnKeeps
    <2>8. CASE StopAfterFile  BY <2>8, StopAfterFileKeeps
    <2>9. CASE CountBegins  BY <2>9, CountBeginsKeeps
    <2>10. CASE CountEnds  BY <2>10, CountEndsKeeps
    <2>11. CASE CountAborts  BY <2>11, CountAbortsKeeps
    <2>12. CASE CloseIdle  BY <2>12, CloseIdleKeeps
    <2>13. CASE UNCHANGED vars
      <3>1. UNCHANGED <<pool, workerVars, callerVars, cut>> /\ misrouted' = misrouted /\ Living' = Living
        BY <2>13 DEF vars, history, Living, workerVars
      <3>2. Typed'  BY <3>1 DEF Inv, Typed, workerVars, callerVars
      <3>3. Ports'  BY <3>1, PortsSame DEF Inv, SameSlots
      <3>4. Calls'  BY <3>1, CallsSame DEF Inv, Calls
      <3> QED  BY <3>2, <3>3, <3>4 DEF Inv, Calls
    <2> QED
      BY <2>1, <2>2, <2>3, <2>4, <2>5, <2>6, <2>7, <2>8, <2>9, <2>10, <2>11, <2>12, <2>13
      DEF Next
  <1> QED  BY <1>1, <1>2, PTL DEF Spec

\* However many jobs are forgotten or abandoned, and whichever workers die, a working slot
\* is thought to owe the tickets at its ports, no more and no fewer, so that #leastLoaded
\* compares real loads (src/source/prepare-pool.ts).
THEOREM LoadsAreReal == Spec => []LoadIsReal
  <1>1. Inv => LoadIsReal  BY DEF Inv, Ports
  <1> QED  BY <1>1, Invariance, PTL

\* No job outlives its worker: what a dead worker owes is handed back by the handlers of
\* its exit, but for what was given to a slot that had failed already.
THEOREM JobsAreHandedBack == Spec => []HandedBack
  <1>1. Inv => HandedBack  BY DEF Inv, Ports
  <1> QED  BY <1>1, Invariance, PTL

\* When nobody holds the pool and its workers are done, all of them alive, the only
\* results left in it are those of files at whose own turn a preparation was stopped.
THEOREM NothingElseIsKept == Spec => []OnlyCutIsKept
  <1>1. ASSUME Inv, Quiet, Living
        PROVE  DOMAIN pool.results \subseteq cut /\ pool.forgotten = {} /\ pool.waiters = {}
    <2>1. pool.waiters = {} /\ ahead = <<>>  BY <1>1 DEF Inv, Placed, Quiet
    <2>2. Held = {}  BY <1>1, <2>1 DEF Held, ToSet, Quiet
    <2>3. DOMAIN pool.assigned = {}
      <3> SUFFICES ASSUME NEW t \in DOMAIN pool.assigned PROVE FALSE
        OBVIOUS
      <3>1. pool.assigned[t] \in Slots  BY <1>1, AssignedIs DEF Inv
      <3>2. t \in InTransit(pool.assigned[t])
        BY <1>1, <3>1 DEF Inv, Ports, LoadIsReal, Living
      <3> QED  BY <1>1, <3>1, <3>2 DEF Quiet
    <2> QED  BY <1>1, <2>1, <2>2, <2>3 DEF Inv, Owned
  <1>2. Inv => OnlyCutIsKept  BY <1>1 DEF OnlyCutIsKept
  <1> QED  BY <1>2, Invariance, PTL

-----------------------------------------------------------------------------
(* Planning.                                                               *)

Spans == {b \in [first : 1 .. Count, last : 1 .. Count] : b.first <= b.last}

OfAll(o) == o \in [1 .. Count -> 1 .. Count] /\ ToSet(o) = 1 .. Count

\* What was asked, and an order of all of it.
Ordered ==
  questions \in Seq(Questions) /\ OfAll(order)

\* The batches take the positions from `first` to `last`, without a gap.
Covering(bs, first, last) ==
  /\ bs \in Seq(Spans)
  /\ bs = <<>> => last = first - 1
  /\ bs # <<>> => bs[1].first = first /\ bs[Len(bs)].last = last
  /\ \A k \in 1 .. Len(bs) - 1 : bs[k + 1].first = bs[k].last + 1

\* The longest batch from i that the estimate admits ends here.
EstimatedEnd(i) == Max({e \in i .. Count : e = i \/ EstimateFits(Interval(i, e))})

\* A closed batch, of which the exact measure is not known.
ClosedBatch(b) == b.last = EstimatedEnd(b.first)

\* The position after the last of the final batches.
After(bs) == IF bs = <<>> THEN 1 ELSE bs[Len(bs)].last + 1

\* Final batches: each is the next one after those before it.
ClosedSoFar(bs) ==
  /\ Covering(bs, 1, After(bs) - 1)
  /\ \A k \in DOMAIN bs : bs[k] = NextBatch(bs[k].first)

\* Batches closed on the estimate take all the positions left.
ClosedFrom(bs, start) ==
  /\ Covering(bs, start, Count)
  /\ \A k \in DOMAIN bs : ClosedBatch(bs[k])

PlanningInv ==
  /\ Ordered
  /\ stage \in {"closing", "planning", "ready"} =>
       ClosedSoFar(batches) /\ \A p \in 1 .. Count : ExactlyFits(Single(p))
  /\ stage = "closing" => ClosedFrom(pending, After(batches))
  /\ stage \in {"planning", "ready"} => After(batches) = Count + 1

-----------------------------------------------------------------------------
(* The estimate.                                                           *)

\* What is assumed of the questions.
LEMMA QuestionsAre ==
  \A q \in Questions : /\ q.tokens \in Nat \ {0} /\ q.bytes \in Nat \ {0}
                       /\ q.joined \in Int /\ q.tokens + q.joined >= 0
  BY PlanningAssumption

\* Every position has a question.
LEMMA QuestionAt ==
  ASSUME Ordered, NEW p \in 1 .. Count
  PROVE  /\ At(p) \in Questions /\ At(p).tokens \in Nat \ {0} /\ At(p).bytes \in Nat \ {0}
         /\ At(p).joined \in Int /\ At(p).tokens + At(p).joined >= 0
  BY QuestionsAre DEF Ordered, OfAll, At, Count

\* What is assumed of the limits.
LEMMA ConstantsAre ==
  /\ StateTokens \in Nat /\ StateBytes \in Nat /\ EnvelopeBytes \in Nat /\ EnvelopeBytes >= StateBytes
  /\ TokenBudget \in Nat /\ MaxBytes \in Nat /\ MaxItems \in Nat \ {0}
  BY PlanningAssumption

\* The number of pending fragments is a natural.
LEMMA CountType == ASSUME Ordered PROVE Count \in Nat
  BY DEF Ordered, Count

\* What a question adds to the estimate.
LEMMA AddedIs ==
  ASSUME Ordered, NEW p \in 1 .. Count
  PROVE  AddedTokens(p) \in Nat /\ AddedBytes(p) \in Nat
<1> DEFINE f == [q \in Positions(Single(p)) |-> At(q).tokens + IF q = Single(p).first THEN 0 ELSE At(q).joined]
           g == [q \in Positions(Single(p)) |-> At(q).bytes]
<1>1. Positions(Single(p)) = p .. p /\ Single(p).first = p /\ p \in Int /\ p .. p - 1 = {}
  BY DEF Positions, Single, Interval
<1>2. \A q \in p .. p : q = p
  OBVIOUS
<1>3. f[p] = At(p).tokens /\ g[p] = At(p).bytes
  BY <1>1, QuestionAt
<1>4. \A q \in p .. p : f[q] \in Int /\ g[q] \in Int
  BY <1>2, <1>3, QuestionAt
<1>5. /\ SumFunctionOnSet(f, p .. p) = SumFunctionOnSet(f, p .. p - 1) + f[p]
      /\ SumFunctionOnSet(g, p .. p) = SumFunctionOnSet(g, p .. p - 1) + g[p]
  <2> HIDE DEF f, g
  <2>1. p <= p /\ \A x \in p .. p - 1 : f[x] = f[x] /\ g[x] = g[x]
    BY <1>1
  <2> QED
    BY <2>1, <1>1, <1>4, SumOfLast
<1>6. SumFunctionOnSet(f, p .. p) = At(p).tokens /\ SumFunctionOnSet(g, p .. p) = At(p).bytes
  <2> HIDE DEF f, g
  <2> QED
    BY <1>1, <1>3, <1>5, SumEmpty, QuestionAt
<1>7. ExactTokens(Single(p)) = StateTokens + At(p).tokens /\ ExactBytes(Single(p)) = EnvelopeBytes + At(p).bytes
  BY <1>1, <1>6 DEF ExactTokens, ExactBytes
<1> QED
  BY <1>7, QuestionAt, ConstantsAre DEF AddedTokens, AddedBytes

\* One question more adds what it adds on its own.
LEMMA EstimateGrows ==
  ASSUME Ordered, NEW i \in 1 .. Count, NEW p \in i .. Count
  PROVE  /\ EstimatedTokens(Interval(i, p)) = EstimatedTokens(Interval(i, p - 1)) + AddedTokens(p)
         /\ EstimatedBytes(Interval(i, p)) = EstimatedBytes(Interval(i, p - 1)) + AddedBytes(p)
         /\ EstimatedTokens(Interval(i, p)) \in Nat /\ EstimatedTokens(Interval(i, p - 1)) \in Nat
         /\ EstimatedBytes(Interval(i, p)) \in Nat /\ EstimatedBytes(Interval(i, p - 1)) \in Nat
<1> DEFINE f(n) == [q \in i .. n |-> AddedTokens(q)]
           g(n) == [q \in i .. n |-> AddedBytes(q)]
<1>1. \A q \in i .. p : AddedTokens(q) \in Nat /\ AddedBytes(q) \in Nat
  BY AddedIs, CountType
<1>2. \A x \in i .. p : f(p)[x] \in Nat /\ g(p)[x] \in Nat
  BY <1>1
<1>3. i \in Int /\ p \in Int /\ i <= p /\ p - 1 \in Int
  BY CountType
<1>4. /\ \A x \in i .. p - 1 : f(p - 1)[x] = f(p)[x] /\ g(p - 1)[x] = g(p)[x]
      /\ f(p)[p] = AddedTokens(p) /\ g(p)[p] = AddedBytes(p)
  BY <1>3
<1>5. \A x \in i .. p - 1 : f(p - 1)[x] \in Nat /\ g(p - 1)[x] \in Nat
  BY <1>1, <1>3
<1> DEFINE a == SumFunctionOnSet(f(p), i .. p)
           b == SumFunctionOnSet(f(p - 1), i .. p - 1)
           c == SumFunctionOnSet(g(p), i .. p)
           d == SumFunctionOnSet(g(p - 1), i .. p - 1)
<1>6. a \in Nat /\ b \in Nat /\ c \in Nat /\ d \in Nat
  <2> HIDE DEF f, g
  <2> QED
    BY <1>2, <1>3, <1>5, FS_Interval, SumType
<1>7. a = b + f(p)[p] /\ c = d + g(p)[p]
  <2> HIDE DEF f, g
  <2> QED
    BY <1>2, <1>3, <1>4, SumOfLast
<1>8. /\ EstimatedTokens(Interval(i, p)) = StateTokens + a /\ EstimatedTokens(Interval(i, p - 1)) = StateTokens + b
      /\ EstimatedBytes(Interval(i, p)) = StateBytes + c /\ EstimatedBytes(Interval(i, p - 1)) = StateBytes + d
  BY Zenon DEF EstimatedTokens, EstimatedBytes, Positions, Interval
<1>9. AddedTokens(p) \in Nat /\ AddedBytes(p) \in Nat
  BY <1>1, <1>3
<1>10. a = b + AddedTokens(p) /\ c = d + AddedBytes(p)
  BY <1>4, <1>7
<1> HIDE DEF a, b, c, d
<1> QED
  BY <1>6, <1>8, <1>9, <1>10, ConstantsAre

\* What the estimate admits, it admits of every part.
LEMMA EstimateOfPart ==
  ASSUME Ordered, NEW i \in 1 .. Count, NEW j \in 1 .. Count, EstimateFits(Interval(i, j)),
         NEW k \in i .. j, NEW l \in i .. j
  PROVE  EstimateFits(Interval(k, l))
<1> DEFINE f(m, n) == [q \in m .. n |-> AddedTokens(q)]
           g(m, n) == [q \in m .. n |-> AddedBytes(q)]
<1>1. \A q \in i .. j : AddedTokens(q) \in Nat /\ AddedBytes(q) \in Nat
  BY AddedIs, CountType
<1>2. \A x \in i .. j : f(i, j)[x] \in Nat /\ g(i, j)[x] \in Nat
  BY <1>1
<1>3. i \in Int /\ j \in Int /\ k \in Int /\ l \in Int /\ i <= k /\ l <= j
  BY CountType
<1>4. \A x \in k .. l : f(k, l)[x] = f(i, j)[x] /\ g(k, l)[x] = g(i, j)[x]
  BY <1>3
<1>5. /\ SumFunctionOnSet(f(k, l), k .. l) <= SumFunctionOnSet(f(i, j), i .. j)
      /\ SumFunctionOnSet(g(k, l), k .. l) <= SumFunctionOnSet(g(i, j), i .. j)
      /\ SumFunctionOnSet(f(i, j), i .. j) \in Nat /\ SumFunctionOnSet(g(i, j), i .. j) \in Nat
  <2> HIDE DEF f, g
  <2> QED
    BY <1>2, <1>3, <1>4, SumOfPart
<1>6. \A x \in k .. l : f(k, l)[x] \in Nat /\ g(k, l)[x] \in Nat
  BY <1>1, <1>3
<1>7. SumFunctionOnSet(f(k, l), k .. l) \in Nat /\ SumFunctionOnSet(g(k, l), k .. l) \in Nat
  <2> HIDE DEF f, g
  <2> QED
    BY <1>3, <1>6, FS_Interval, SumType
<1>8. /\ EstimatedTokens(Interval(k, l)) = StateTokens + SumFunctionOnSet(f(k, l), k .. l)
      /\ EstimatedTokens(Interval(i, j)) = StateTokens + SumFunctionOnSet(f(i, j), i .. j)
      /\ EstimatedBytes(Interval(k, l)) = StateBytes + SumFunctionOnSet(g(k, l), k .. l)
      /\ EstimatedBytes(Interval(i, j)) = StateBytes + SumFunctionOnSet(g(i, j), i .. j)
  BY Zenon DEF EstimatedTokens, EstimatedBytes, Positions, Interval
<1>9. Size(Interval(k, l)) = l - k + 1 /\ Size(Interval(i, j)) = j - i + 1
  BY DEF Size, Interval
<1> HIDE DEF f, g
<1> QED
  BY <1>3, <1>5, <1>7, <1>8, <1>9, ConstantsAre DEF EstimateFits
-----------------------------------------------------------------------------
(* Closing batches on the estimate.                                        *)

\* The end of the estimate is the greatest that it admits.
LEMMA EndIs ==
  ASSUME Ordered, NEW i \in 1 .. Count
  PROVE  /\ EstimatedEnd(i) \in i .. Count
         /\ EstimatedEnd(i) = i \/ EstimateFits(Interval(i, EstimatedEnd(i)))
         /\ \A e \in i .. Count : e = i \/ EstimateFits(Interval(i, e)) => e <= EstimatedEnd(i)
<1> DEFINE T == {e \in i .. Count : e = i \/ EstimateFits(Interval(i, e))}
<1>1. T # {} /\ (\A x \in T : x \in Int /\ x <= Count) /\ Count \in Int
  BY CountType
<1>2. Max(T) \in T /\ \A x \in T : x <= Max(T)
  <2> HIDE DEF T
  <2> QED
    BY <1>1, MaxIs
<1> QED
  BY <1>2 DEF EstimatedEnd

\* A batch is closed where the estimate of one question more does not fit.
LEMMA EndHere ==
  ASSUME Ordered, NEW i \in 1 .. Count, NEW p \in i .. Count, p = i \/ EstimateFits(Interval(i, p)),
         p < Count => ~EstimateFits(Interval(i, p + 1))
  PROVE  EstimatedEnd(i) = p
<1>1. p <= EstimatedEnd(i) /\ EstimatedEnd(i) \in i .. Count
  BY EndIs
<1>2. ASSUME p < EstimatedEnd(i) PROVE FALSE
  <2>1. EstimateFits(Interval(i, EstimatedEnd(i)))
    BY <1>2, EndIs, CountType
  <2>2. p < Count /\ i \in i .. EstimatedEnd(i) /\ p + 1 \in i .. EstimatedEnd(i) /\ EstimatedEnd(i) \in 1 .. Count
    BY <1>1, <1>2, CountType
  <2> QED
    BY <2>1, <2>2, EstimateOfPart
<1> QED
  BY <1>1, <1>2, CountType

Fillings == [closed : Seq(Spans), first : 1 .. Count, tokens : Int, bytes : Int]

\* After the question at p: what is closed is closed as far as it goes, and what is
\* being filled fits its estimate.
FilledTo(f, start, p) ==
  /\ f \in Fillings
  /\ start <= f.first /\ f.first <= p + 1 /\ (f.first = p + 1 => p = start - 1)
  /\ f.tokens = EstimatedTokens(Interval(f.first, p)) /\ f.bytes = EstimatedBytes(Interval(f.first, p))
  /\ f.first < p => EstimateFits(Interval(f.first, p))
  /\ Covering(f.closed, start, f.first - 1)
  /\ \A k \in DOMAIN f.closed : ClosedBatch(f.closed[k])

\* The batches of a covering, and one more.
LEMMA CoverMore ==
  ASSUME Ordered, NEW bs, NEW start \in Int, NEW i \in 1 .. Count, NEW j \in i .. Count, Covering(bs, start, i - 1)
  PROVE  /\ Covering(Append(bs, Interval(i, j)), start, j)
         /\ Interval(i, j) \in Spans
         /\ \A P : (\A k \in DOMAIN bs : bs[k] \in P) /\ Interval(i, j) \in P
                  => \A k \in DOMAIN Append(bs, Interval(i, j)) : Append(bs, Interval(i, j))[k] \in P
<1>1. Interval(i, j) \in Spans /\ Interval(i, j).first = i /\ Interval(i, j).last = j
  BY CountType DEF Spans, Interval
<1>2. bs \in Seq(Spans)
  BY DEF Covering
<1> DEFINE b == Interval(i, j)
           c == Append(bs, b)
<1> HIDE DEF b
<1>3. /\ c \in Seq(Spans) /\ Len(c) = Len(bs) + 1 /\ DOMAIN c = 1 .. Len(bs) + 1 /\ DOMAIN bs = 1 .. Len(bs)
      /\ Len(bs) \in Nat /\ c[Len(bs) + 1] = b /\ \A k \in 1 .. Len(bs) : c[k] = bs[k]
  BY <1>1, <1>2 DEF b
<1>4. c # <<>>
  BY <1>3
<1>5. c[1].first = start
  <2>1. CASE bs = <<>>
    BY <2>1, <1>1, <1>3, CountType DEF Covering, b
  <2>2. CASE bs # <<>>
    BY <2>2, <1>2, <1>3 DEF Covering
  <2> QED
    BY <2>1, <2>2
<1>6. ASSUME NEW k \in 1 .. Len(c) - 1 PROVE c[k + 1].first = c[k].last + 1
  <2>1. CASE k = Len(bs)
    <3>1. bs # <<>> /\ c[k] = bs[k] /\ c[k + 1] = b
      BY <2>1, <1>3
    <3>2. bs[k].last = i - 1
      BY <2>1, <3>1 DEF Covering
    <3> QED
      BY <3>1, <3>2, <1>1, CountType DEF b
  <2>2. CASE k # Len(bs)
    <3>1. k \in 1 .. Len(bs) - 1 /\ k \in 1 .. Len(bs) /\ k + 1 \in 1 .. Len(bs)
      <4>1. Len(c) = Len(bs) + 1 /\ Len(bs) \in Nat
        BY <1>3
      <4>2. k \in 1 .. Len(bs)
        BY <4>1
      <4> HIDE DEF c
      <4> QED
        BY <2>2, <4>1, <4>2
    <3>2. c[k] = bs[k] /\ c[k + 1] = bs[k + 1]
      BY <3>1, <1>3
    <3> QED
      BY <3>1, <3>2 DEF Covering
  <2> QED
    BY <2>1, <2>2
<1>7. c[Len(c)].last = j
  BY <1>1, <1>3 DEF b
<1>8. Covering(c, start, j)
  <2> HIDE DEF c
  <2> QED
    BY <1>3, <1>4, <1>5, <1>6, <1>7 DEF Covering
<1>9. \A P : (\A k \in DOMAIN bs : bs[k] \in P) /\ b \in P => \A k \in DOMAIN c : c[k] \in P
  BY <1>3
<1> QED
  BY <1>1, <1>8, <1>9 DEF b

\* The estimate of a batch that is not empty.
LEMMA EstimateTyped ==
  ASSUME Ordered, NEW i \in 1 .. Count, NEW p \in i .. Count
  PROVE  EstimatedTokens(Interval(i, p)) \in Int /\ EstimatedBytes(Interval(i, p)) \in Int
  BY EstimateGrows, CountType

\* One more question in the batch being filled.
LEMMA GrownIs ==
  ASSUME Ordered, NEW f \in Fillings, NEW p \in 1 .. Count
  PROVE  /\ Grown(f, p) \in Fillings /\ Grown(f, p).first = f.first /\ Grown(f, p).closed = f.closed
         /\ Grown(f, p).tokens = f.tokens + AddedTokens(p) /\ Grown(f, p).bytes = f.bytes + AddedBytes(p)
<1>1. AddedTokens(p) \in Nat /\ AddedBytes(p) \in Nat
  BY AddedIs
<1>2. f.tokens \in Int /\ f.bytes \in Int
  BY DEF Fillings
<1>3. f.tokens + AddedTokens(p) \in Int /\ f.bytes + AddedBytes(p) \in Int
  BY <1>1, <1>2
<1> DEFINE t == f.tokens + AddedTokens(p)
           u == f.bytes + AddedBytes(p)
<1>4. Grown(f, p) = [f EXCEPT !.tokens = t, !.bytes = u]
  BY DEF Grown
<1> HIDE DEF t, u
<1>5. [f EXCEPT !.tokens = t, !.bytes = u] \in Fillings
  <2>1. t \in Int /\ u \in Int
    BY <1>3 DEF t, u
  <2> QED
    BY <2>1 DEF Fillings
<1>6. /\ [f EXCEPT !.tokens = t, !.bytes = u].first = f.first
      /\ [f EXCEPT !.tokens = t, !.bytes = u].closed = f.closed
      /\ [f EXCEPT !.tokens = t, !.bytes = u].tokens = t
      /\ [f EXCEPT !.tokens = t, !.bytes = u].bytes = u
  BY DEF Fillings
<1> QED
  BY <1>4, <1>5, <1>6 DEF t, u

\* Filling keeps the types of what is filled.
LEMMA FillTyped ==
  ASSUME Ordered, NEW f \in Fillings, NEW p \in 1 .. Count
  PROVE  Fill(f, p) \in Fillings
<1>1. CASE p > f.first /\ TooLarge(f, p)
  <2>1. Interval(f.first, p - 1) \in Spans
    BY <1>1, CountType DEF Fillings, Spans, Interval
  <2>2. Append(f.closed, Interval(f.first, p - 1)) \in Seq(Spans)
    BY <2>1 DEF Fillings
  <2>3. EstimatedTokens(Single(p)) \in Int /\ EstimatedBytes(Single(p)) \in Int /\ Single(p).first = p
    BY EstimateTyped, CountType DEF Single, Interval
  <2> QED
    BY <1>1, <2>2, <2>3 DEF Fill, Filling, Fillings
<1>2. CASE ~(p > f.first /\ TooLarge(f, p))
  <2>1. Fill(f, p) = Grown(f, p)
    BY <1>2 DEF Fill
  <2> QED
    BY <2>1, GrownIs
<1> QED
  BY <1>1, <1>2

\* A question is added where the estimate fits, and starts a new batch where it does not.
LEMMA FillKeeps ==
  ASSUME Ordered, NEW start \in 1 .. Count, NEW f, NEW p \in start .. Count, FilledTo(f, start, p - 1)
  PROVE  FilledTo(Fill(f, p), start, p)
<1> DEFINE i == f.first
           g == Grown(f, p)
<1>1. /\ f \in Fillings /\ i \in 1 .. Count /\ start <= i /\ i <= p /\ p \in 1 .. Count /\ p \in i .. Count
      /\ (i = p => p = start) /\ start \in Int /\ p \in Int /\ i \in Int
  BY CountType DEF FilledTo, Fillings
<1>2. /\ g.tokens = EstimatedTokens(Interval(i, p)) /\ g.bytes = EstimatedBytes(Interval(i, p))
      /\ g.first = i /\ g.closed = f.closed /\ g \in Fillings
  <2>1. /\ EstimatedTokens(Interval(i, p)) = EstimatedTokens(Interval(i, p - 1)) + AddedTokens(p)
        /\ EstimatedBytes(Interval(i, p)) = EstimatedBytes(Interval(i, p - 1)) + AddedBytes(p)
    BY <1>1, EstimateGrows
  <2>2. f.tokens = EstimatedTokens(Interval(i, p - 1)) /\ f.bytes = EstimatedBytes(Interval(i, p - 1))
    BY DEF FilledTo
  <2>3. f \in Fillings /\ p \in 1 .. Count
    BY <1>1
  <2>4. /\ g \in Fillings /\ g.first = i /\ g.closed = f.closed
        /\ g.tokens = f.tokens + AddedTokens(p) /\ g.bytes = f.bytes + AddedBytes(p)
    BY <2>3, GrownIs
  <2> HIDE DEF g, i
  <2> QED
    BY <2>1, <2>2, <2>4
<1>3. TooLarge(f, p) <=> ~EstimateFits(Interval(i, p))
  <2>1. Size(Interval(i, p)) = p - i + 1
    BY DEF Size, Interval
  <2>2. EstimatedTokens(Interval(i, p)) \in Int /\ EstimatedBytes(Interval(i, p)) \in Int
    BY <1>1, EstimateTyped
  <2> QED
    BY <1>1, <1>2, <2>1, <2>2, ConstantsAre DEF TooLarge, EstimateFits
<1>4. Covering(f.closed, start, i - 1) /\ \A k \in DOMAIN f.closed : ClosedBatch(f.closed[k])
  BY DEF FilledTo
<1>5. CASE p > i /\ TooLarge(f, p)
  <2> DEFINE h == Fill(f, p)
             b == Interval(i, p - 1)
  <2>1. p - 1 \in i .. Count /\ b.first = i /\ b.last = p - 1
    BY <1>1, <1>5, CountType DEF Interval
  <2>2. EstimatedEnd(i) = p - 1
    <3>1. p - 1 = i \/ EstimateFits(Interval(i, p - 1))
      BY <1>1, <1>5 DEF FilledTo
    <3>2. ~EstimateFits(Interval(i, p - 1 + 1))
      BY <1>1, <1>3, <1>5
    <3> QED
      BY <1>1, <2>1, <3>1, <3>2, EndHere
  <2>3. Covering(Append(f.closed, b), start, p - 1)
    BY <1>1, <1>4, <2>1, CoverMore
  <2>4. \A k \in DOMAIN Append(f.closed, b) : ClosedBatch(Append(f.closed, b)[k])
    <3> DEFINE P == {c \in Spans : ClosedBatch(c)}
    <3>1. b \in P /\ \A k \in DOMAIN f.closed : f.closed[k] \in P
      BY <1>1, <1>4, <2>1, <2>2, CoverMore DEF ClosedBatch, Covering
    <3>2. \A k \in DOMAIN Append(f.closed, b) : Append(f.closed, b)[k] \in P
      <4> HIDE DEF P
      <4> QED
        BY <3>1, <1>1, <1>4, <2>1, CoverMore
    <3> QED
      BY <3>2
  <2>5. /\ h = [Filling(Single(p)) EXCEPT !.closed = Append(f.closed, b)]
        /\ h.closed = Append(f.closed, b) /\ h.first = p
        /\ h.tokens = EstimatedTokens(Interval(p, p)) /\ h.bytes = EstimatedBytes(Interval(p, p))
    BY <1>5 DEF Fill, Filling, Single, Interval
  <2>6. h \in Fillings
    BY <1>1, FillTyped
  <2>7. start <= h.first /\ h.first <= p + 1 /\ h.first # p + 1 /\ ~(h.first < p)
    BY <1>1, <2>5
  <2>8. Covering(h.closed, start, h.first - 1) /\ \A k \in DOMAIN h.closed : ClosedBatch(h.closed[k])
    BY <2>3, <2>4, <2>5
  <2>9. h.tokens = EstimatedTokens(Interval(h.first, p)) /\ h.bytes = EstimatedBytes(Interval(h.first, p))
    BY <2>5
  <2> HIDE DEF h, b
  <2>10. FilledTo(h, start, p)
    BY <2>6, <2>7, <2>8, <2>9 DEF FilledTo
  <2> QED
    BY <2>10 DEF h
<1>6. CASE ~(p > i /\ TooLarge(f, p))
  <2>1. Fill(f, p) = g
    BY <1>6 DEF Fill
  <2>2. i < p => EstimateFits(Interval(i, p))
    BY <1>1, <1>3, <1>6
  <2> HIDE DEF g
  <2> QED
    BY <1>1, <1>2, <1>4, <2>1, <2>2 DEF FilledTo
<1> QED
  BY <1>5, <1>6

\* What the fold over the questions computes.
Folded(start, from, f) ==
  f = [p \in from - 1 .. Count |-> IF p < from THEN Filling(Interval(start, p)) ELSE Fill(f[p - 1], p)]

\* CloseFrom, by the fold that computes it.
LEMMA CloseFromIs ==
  ASSUME NEW start, NEW from
  PROVE  CloseFrom(start, from)
           = IF start > Count THEN <<>>
             ELSE LET f == CHOOSE f : Folded(start, from, f)
                  IN  Append(f[Count].closed, Interval(f[Count].first, Count))
  BY DEF CloseFrom, Folded

\* There is such a fold.
LEMMA FoldedExists ==
  ASSUME Ordered, NEW start \in 1 .. Count, NEW from \in start .. Count + 1
  PROVE  \E f : Folded(start, from, f)
<1> DEFINE base == Filling(Interval(start, from - 1))
           step == [x \in Fillings \X (from .. Count) |-> Fill(x[1], x[2])]
<1>1. from - 1 \in Int /\ Count \in Int /\ from - 1 <= Count /\ from - 1 + 1 = from /\ start \in Int
      /\ from .. Count \subseteq 1 .. Count
  BY CountType
<1>2. base \in Fillings
  <2>1. EstimatedTokens(Interval(start, from - 1)) \in Int /\ EstimatedBytes(Interval(start, from - 1)) \in Int
    <3>1. CASE from = start
      <4>1. start \in start .. Count
        BY <1>1
      <4>2. /\ EstimatedTokens(Interval(start, start - 1)) \in Nat
            /\ EstimatedBytes(Interval(start, start - 1)) \in Nat
        BY <4>1, EstimateGrows
      <4> QED
        BY <3>1, <4>2
    <3>2. CASE from # start
      <4>1. from - 1 \in start .. Count
        BY <1>1, <3>2
      <4> QED
        BY <4>1, EstimateTyped
    <3> QED
      BY <3>1, <3>2
  <2> QED
    BY <1>1, <2>1 DEF Filling, Fillings, Interval
<1>3. step \in [Fillings \X (from .. Count) -> Fillings]
  BY <1>1, FillTyped
<1>4. \E f \in [from - 1 .. Count -> Fillings] :
         f[from - 1] = base /\ \A p \in from .. Count : f[p] = step[<<f[p - 1], p>>]
  <2> DEFINE lo == from - 1
  <2> HIDE DEF base, step
  <2>1. lo \in Int /\ Count \in Int /\ lo <= Count /\ lo + 1 = from
    BY <1>1
  <2> HIDE DEF lo
  <2>2. step \in StepsOver(Fillings, lo, Count)
    BY <1>3, <2>1 DEF StepsOver
  <2>3. Solutions(Fillings, lo, Count, base, step) # {}
    BY <1>2, <2>1, <2>2, Recursion
  <2>4. \E f \in [lo .. Count -> Fillings] :
         f[lo] = base /\ \A p \in from .. Count : f[p] = step[<<f[p - 1], p>>]
    BY <2>1, <2>3 DEF Solutions
  <2> QED
    BY <2>4 DEF lo
<1>5. PICK f \in [from - 1 .. Count -> Fillings] :
         f[from - 1] = base /\ \A p \in from .. Count : f[p] = step[<<f[p - 1], p>>]
  BY <1>4
<1>6. ASSUME NEW p \in from - 1 .. Count
      PROVE  f[p] = IF p < from THEN Filling(Interval(start, p)) ELSE Fill(f[p - 1], p)
  <2>1. CASE p < from
    BY <1>1, <1>5, <2>1
  <2>2. CASE ~(p < from)
    <3>1. p \in from .. Count /\ p - 1 \in from - 1 .. Count
      BY <1>1, <2>2
    <3>2. f[p - 1] \in Fillings
      BY <1>5, <3>1
    <3> QED
      BY <1>5, <2>2, <3>1, <3>2
  <2> QED
    BY <2>1, <2>2
<1> HIDE DEF base, step
<1>7. f = [p \in from - 1 .. Count |-> IF p < from THEN Filling(Interval(start, p)) ELSE Fill(f[p - 1], p)]
  BY <1>5, <1>6
<1> QED
  BY <1>7 DEF Folded

\* Closing from a tail that fits its estimate takes what follows `start` as closing one
\* batch at a time would, as far as the estimate goes.
LEMMA CloseFromCovers ==
  ASSUME Ordered, NEW start \in 1 .. Count + 1, NEW from \in start .. Count + 1,
         from = start \/ from = start + 1 \/ EstimateFits(Interval(start, from - 1))
  PROVE  ClosedFrom(CloseFrom(start, from), start)
<1>1. CASE start > Count
  <2>1. CloseFrom(start, from) = <<>>
    BY <1>1, CloseFromIs
  <2>2. start = Count + 1
    BY <1>1, CountType
  <2> QED
    BY <2>1, <2>2, CountType DEF Covering, ClosedFrom
<1>2. CASE ~(start > Count)
  <2> DEFINE f == CHOOSE f : Folded(start, from, f)
  <2>1. start \in 1 .. Count /\ start \in Int /\ from \in Int /\ Count \in Nat
    BY <1>2, CountType
  <2>2. Folded(start, from, f)
    BY <2>1, FoldedExists
  <2> HIDE DEF f
  <2>3. ASSUME NEW p \in from - 1 .. Count
        PROVE  f[p] = IF p < from THEN Filling(Interval(start, p)) ELSE Fill(f[p - 1], p)
    BY <2>2 DEF Folded
  <2>4. FilledTo(f[from - 1], start, from - 1)
    <3>1. f[from - 1] = Filling(Interval(start, from - 1))
      BY <2>1, <2>3
    <3> DEFINE g == Filling(Interval(start, from - 1))
    <3>2. /\ g.closed = <<>> /\ g.first = start
          /\ g.tokens = EstimatedTokens(Interval(start, from - 1)) /\ g.bytes = EstimatedBytes(Interval(start, from - 1))
      BY DEF Filling, Interval
    <3>3. EstimatedTokens(Interval(start, from - 1)) \in Int /\ EstimatedBytes(Interval(start, from - 1)) \in Int
      <4>1. CASE from = start
        <5>1. start \in start .. Count
          BY <2>1
        <5>2. /\ EstimatedTokens(Interval(start, start - 1)) \in Nat
              /\ EstimatedBytes(Interval(start, start - 1)) \in Nat
          BY <2>1, <5>1, EstimateGrows
        <5> QED
          BY <4>1, <5>2
      <4>2. CASE from # start
        <5>1. from - 1 \in start .. Count
          BY <2>1, <4>2
        <5> QED
          BY <2>1, <5>1, EstimateTyped
      <4> QED
        BY <4>1, <4>2
    <3>4. g \in Fillings
      BY <2>1, <3>3 DEF Filling, Fillings, Interval
    <3>5. Covering(<<>>, start, start - 1)
      BY <2>1 DEF Covering
    <3>6. start < from - 1 => EstimateFits(Interval(start, from - 1))
      BY <2>1
    <3>7. start <= start /\ start <= from - 1 + 1 /\ (start = from - 1 + 1 => from - 1 = start - 1)
      BY <2>1
    <3>8. DOMAIN g.closed = {}
      BY <3>2
    <3> HIDE DEF g
    <3>9. FilledTo(g, start, from - 1)
      BY <3>2, <3>4, <3>5, <3>6, <3>7, <3>8 DEF FilledTo
    <3> QED
      BY <3>1, <3>9 DEF g
  <2>5. ASSUME NEW p \in from .. Count, FilledTo(f[p - 1], start, p - 1) PROVE FilledTo(f[p], start, p)
    <3>1. p \in from - 1 .. Count /\ ~(p < from) /\ p \in start .. Count
      BY <2>1
    <3>2. f[p] = Fill(f[p - 1], p)
      BY <2>3, <3>1
    <3> QED
      BY <2>1, <2>5, <3>1, <3>2, FillKeeps
  <2>6. FilledTo(f[Count], start, Count)
    <3> DEFINE N == {n \in Nat : from - 1 + n <= Count => FilledTo(f[from - 1 + n], start, from - 1 + n)}
    <3>1. 0 \in N
      BY <2>1, <2>4
    <3>2. ASSUME NEW n \in N PROVE n + 1 \in N
      <4> SUFFICES ASSUME from - 1 + (n + 1) <= Count
                   PROVE  FilledTo(f[from - 1 + (n + 1)], start, from - 1 + (n + 1))
        BY <3>2
      <4> DEFINE q == from - 1 + (n + 1)
      <4>1. q \in from .. Count /\ q - 1 = from - 1 + n /\ q - 1 <= Count
        BY <2>1, <3>2
      <4>2. FilledTo(f[q - 1], start, q - 1)
        BY <3>2, <4>1
      <4> HIDE DEF q
      <4>3. FilledTo(f[q], start, q)
        BY <2>5, <4>1, <4>2
      <4> QED
        BY <4>3 DEF q
    <3>3. N = Nat
      <4>1. N \subseteq Nat
        OBVIOUS
      <4> HIDE DEF N
      <4> QED
        BY <3>1, <3>2, <4>1, NaturalInduction
    <3>4. Count - (from - 1) \in N
      <4>1. Count - (from - 1) \in Nat
        BY <2>1
      <4> QED
        BY <3>3, <4>1
    <3>5. from - 1 + (Count - (from - 1)) = Count
      BY <2>1
    <3> QED
      BY <2>1, <3>4, <3>5
  <2> DEFINE g == f[Count]
             i == g.first
             b == Interval(i, Count)
  <2> HIDE DEF g
  <2>7. FilledTo(g, start, Count)
    BY <2>6 DEF g
  <2>8. /\ i \in 1 .. Count /\ i \in Int /\ Count \in i .. Count /\ Covering(g.closed, start, i - 1)
        /\ i = Count \/ EstimateFits(Interval(i, Count))
        /\ \A k \in DOMAIN g.closed : ClosedBatch(g.closed[k])
    BY <2>1, <2>7 DEF FilledTo, Fillings
  <2>9. EstimatedEnd(i) = Count /\ b.first = i /\ b.last = Count
    <3>1. Count < Count => ~EstimateFits(Interval(i, Count + 1))
      BY <2>1
    <3>2. EstimatedEnd(i) = Count
      BY <2>8, <3>1, EndHere
    <3> QED
      BY <3>2 DEF Interval
  <2>10. Covering(Append(g.closed, b), start, Count)
    BY <2>1, <2>8, CoverMore
  <2>11. \A k \in DOMAIN Append(g.closed, b) : ClosedBatch(Append(g.closed, b)[k])
    <3> DEFINE P == {c \in Spans : ClosedBatch(c)}
    <3>1. b \in P /\ \A k \in DOMAIN g.closed : g.closed[k] \in P
      BY <2>1, <2>8, <2>9, CoverMore DEF ClosedBatch, Covering
    <3>2. \A k \in DOMAIN Append(g.closed, b) : Append(g.closed, b)[k] \in P
      <4> HIDE DEF P
      <4> QED
        BY <3>1, <2>1, <2>8, CoverMore
    <3> QED
      BY <3>2
  <2>12. CloseFrom(start, from) = Append(g.closed, b)
    BY <1>2, CloseFromIs DEF f, g
  <2> HIDE DEF b
  <2> QED
    BY <2>10, <2>11, <2>12 DEF ClosedFrom
<1> QED
  BY <1>1, <1>2

-----------------------------------------------------------------------------
(* Measuring the closed batches.                                           *)

\* Measures depend on the questions and their order alone.
LEMMA SameMeasures ==
  ASSUME UNCHANGED <<questions, order>>
  PROVE  /\ \A b : ExactTokens(b)' = ExactTokens(b) /\ ExactBytes(b)' = ExactBytes(b)
         /\ Count' = Count /\ Ordered' = Ordered /\ Spans' = Spans
         /\ \A b : ExactlyFits(b)' = ExactlyFits(b)
         /\ \A b : EstimateFits(b)' = EstimateFits(b)
         /\ \A i : EstimatedEnd(i)' = EstimatedEnd(i) /\ NextBatch(i)' = NextBatch(i)
<1>1. \A p : At(p)' = At(p)
  BY DEF At
<1>2. Count' = Count /\ Ordered' = Ordered
  BY DEF Count, Ordered, OfAll
<1>3. \A b : ExactTokens(b)' = ExactTokens(b)
  BY <1>1 DEF ExactTokens, Positions
<1>4. \A b : ExactBytes(b)' = ExactBytes(b)
  BY <1>1 DEF ExactBytes, Positions
<1>5. \A p : AddedTokens(p)' = AddedTokens(p) /\ AddedBytes(p)' = AddedBytes(p)
  BY <1>3, <1>4 DEF AddedTokens, AddedBytes, Single, Interval
<1>6. \A b : EstimatedTokens(b)' = EstimatedTokens(b)
  BY <1>5 DEF EstimatedTokens, Positions
<1>7. \A b : EstimatedBytes(b)' = EstimatedBytes(b)
  BY <1>5 DEF EstimatedBytes, Positions
<1>8. \A b : ExactlyFits(b)' = ExactlyFits(b)
  BY <1>1, <1>3, <1>4 DEF ExactlyFits, Positions, Size
<1>9. \A b : EstimateFits(b)' = EstimateFits(b)
  BY <1>6, <1>7 DEF EstimateFits, Size
<1>10. \A i : EstimatedEnd(i)' = EstimatedEnd(i)
  <2>1. ASSUME NEW i
        PROVE  {e \in i .. Count : e = i \/ EstimateFits(Interval(i, e))}'
                 = {e \in i .. Count : e = i \/ EstimateFits(Interval(i, e))}
    BY <1>2, <1>9 DEF Interval
  <2> QED
    BY <2>1 DEF EstimatedEnd
<1>11. ASSUME NEW i PROVE NextBatch(i)' = NextBatch(i)
  <2> DEFINE n == EstimatedEnd(i)
             S == {e \in i .. n : e = i \/ ExactlyFits(Interval(i, e))}
             T == {e \in i .. n : e = i \/ ExactlyFits(Interval(i, e))'}
  <2>1. S = T
    BY <1>8 DEF Interval
  <2>2. NextBatch(i) = Interval(i, Max(S))
    BY DEF NextBatch, EstimatedEnd
  <2>3. NextBatch(i)' = Interval(i, Max({e \in i .. n' : e = i \/ ExactlyFits(Interval(i, e))'}))
    BY DEF NextBatch, EstimatedEnd, Interval
  <2>4. n' = n
    BY <1>10
  <2>5. NextBatch(i)' = Interval(i, Max(T))
    <3> HIDE DEF n
    <3> QED
      BY <2>3, <2>4
  <2> QED
    BY <2>1, <2>2, <2>5
<1>12. Spans' = Spans
  BY <1>2 DEF Spans
<1> QED
  BY <1>2, <1>3, <1>4, <1>8, <1>9, <1>10, <1>11, <1>12

\* A span is the interval from its first position to its last.
LEMMA SpanIs ==
  ASSUME Ordered, NEW b \in Spans
  PROVE  /\ b = Interval(b.first, b.last) /\ b.first \in 1 .. Count /\ b.last \in 1 .. Count /\ b.first <= b.last
         /\ b.first \in Int /\ b.last \in Int /\ b.last \in b.first .. Count /\ Size(b) = b.last - b.first + 1
  BY CountType DEF Spans, Interval, Size

\* What the next batch is, of those the estimate admits.
LEMMA NextBatchIs ==
  ASSUME Ordered, NEW i \in 1 .. Count
  PROVE  /\ NextBatch(i).first = i /\ NextBatch(i).last \in i .. EstimatedEnd(i)
         /\ NextBatch(i) = Interval(i, NextBatch(i).last)
         /\ NextBatch(i).last = i \/ ExactlyFits(NextBatch(i))
         /\ \A e \in i .. EstimatedEnd(i) : e = i \/ ExactlyFits(Interval(i, e)) => e <= NextBatch(i).last
<1> DEFINE T == {e \in i .. EstimatedEnd(i) : e = i \/ ExactlyFits(Interval(i, e))}
<1>1. EstimatedEnd(i) \in i .. Count /\ i \in Int
  BY EndIs
<1>2. EstimatedEnd(i) \in Int /\ T # {} /\ \A x \in T : x \in Int /\ x <= EstimatedEnd(i)
  <2>1. i \in T
    BY <1>1, CountType
  <2> QED
    BY <1>1, <2>1, CountType
<1>3. Max(T) \in T /\ \A x \in T : x <= Max(T)
  <2> HIDE DEF T
  <2> QED
    BY <1>2, MaxIs
<1>4. NextBatch(i) = Interval(i, Max(T))
  BY DEF NextBatch, EstimatedEnd
<1>5. NextBatch(i).first = i /\ NextBatch(i).last = Max(T)
  BY <1>4 DEF Interval
<1> QED
  BY <1>3, <1>4, <1>5

\* A closed batch whose exact measure fits is the next one.
LEMMA NextOfAccepted ==
  ASSUME Ordered, NEW b \in Spans, ClosedBatch(b), Accepted(b, ExactlyFits(b))
  PROVE  NextBatch(b.first) = b
<1> DEFINE i == b.first
           n == NextBatch(i)
<1>1. /\ b = Interval(i, b.last) /\ i \in 1 .. Count /\ i <= b.last /\ i \in Int /\ b.last \in Int
      /\ b.last = EstimatedEnd(i) /\ Size(b) = b.last - i + 1
  BY SpanIs DEF ClosedBatch
<1>2. n = Interval(i, n.last) /\ n.last \in i .. b.last
  BY <1>1, NextBatchIs
<1>3. b.last = i \/ ExactlyFits(Interval(i, b.last))
  <2>1. Size(b) = 1 => b.last = i
    BY <1>1
  <2> QED
    BY <1>1, <2>1 DEF Accepted
<1>4. b.last \in i .. EstimatedEnd(i)
  BY <1>1
<1>5. b.last <= n.last
  BY <1>1, <1>3, <1>4, NextBatchIs
<1>6. n.last = b.last
  BY <1>1, <1>2, <1>5
<1> QED
  BY <1>1, <1>2, <1>6

\* One that does not fit leaves the next one when it has shed its tail.
LEMMA NextOfShed ==
  ASSUME Ordered, NEW b \in Spans, ClosedBatch(b), ~Accepted(b, ExactlyFits(b))
  PROVE  /\ NextBatch(b.first) = Shed(b) /\ Shed(b) = Interval(b.first, Shed(b).last)
         /\ Shed(b).last \in b.first .. b.last - 1
<1> DEFINE i == b.first
           T == {e \in i .. EstimatedEnd(i) : e = i \/ ExactlyFits(Interval(i, e))}
           U == {e \in i .. b.last - 1 : e = i \/ ExactlyFits(Interval(i, e))}
<1>1. /\ b = Interval(i, b.last) /\ i \in 1 .. Count /\ i <= b.last /\ i \in Int /\ b.last \in Int
      /\ b.last = EstimatedEnd(i) /\ Size(b) = b.last - i + 1
  BY SpanIs DEF ClosedBatch
<1>2. ~ExactlyFits(Interval(i, b.last)) /\ b.last # i
  <2>1. b.last = i => Size(b) = 1
    BY <1>1
  <2> QED
    BY <1>1, <2>1 DEF Accepted
<1>3. T = U
  BY <1>1, <1>2
<1>4. NextBatch(i) = Interval(i, Max(T)) /\ Shed(b) = Interval(i, Max(U))
  BY DEF NextBatch, EstimatedEnd, Shed
<1>5. b.last - 1 \in Int /\ U # {} /\ \A x \in U : x \in Int /\ x <= b.last - 1
  <2>1. i \in U
    BY <1>1, <1>2
  <2> QED
    BY <1>1, <2>1
<1>6. Max(U) \in U
  <2> DEFINE m == b.last - 1
  <2> HIDE DEF U, m
  <2>1. m \in Int /\ U # {} /\ \A x \in U : x \in Int /\ x <= m
    BY <1>5 DEF m
  <2> QED
    BY <2>1, MaxIs
<1>7. Max(U) \in i .. b.last - 1
  BY <1>6
<1> HIDE DEF T, U
<1>8. Shed(b).last = Max(U)
  BY <1>4 DEF Interval
<1> QED
  BY <1>3, <1>4, <1>7, <1>8

\* So does what the next batch is.
LEMMA SameClosing ==
  ASSUME UNCHANGED <<questions, order>>
  PROVE  /\ \A bs : ClosedSoFar(bs)' = ClosedSoFar(bs)
         /\ \A bs, start : ClosedFrom(bs, start)' = ClosedFrom(bs, start)
         /\ (\A p \in 1 .. Count : ExactlyFits(Single(p)))' = (\A p \in 1 .. Count : ExactlyFits(Single(p)))
<1>1. \A bs, first, last : Covering(bs, first, last)' = Covering(bs, first, last)
  BY SameMeasures DEF Covering
<1>2. \A b : ClosedBatch(b)' = ClosedBatch(b)
  BY SameMeasures DEF ClosedBatch
<1>3. \A bs : ClosedSoFar(bs)' = ClosedSoFar(bs)
  BY <1>1, SameMeasures DEF ClosedSoFar, After
<1>4. \A bs, start : ClosedFrom(bs, start)' = ClosedFrom(bs, start)
  BY <1>1, <1>2, SameMeasures DEF ClosedFrom
<1>5. (\A p \in 1 .. Count : ExactlyFits(Single(p)))' = (\A p \in 1 .. Count : ExactlyFits(Single(p)))
  BY SameMeasures DEF Single, Interval
<1> QED
  BY <1>3, <1>4, <1>5

\* After a covering comes the position that follows its last.
LEMMA AfterIs ==
  ASSUME NEW bs, NEW last \in Int, Covering(bs, 1, last)
  PROVE  After(bs) = last + 1
  BY DEF Covering, After

\* A covering, and another from where it ends.
LEMMA CoverBoth ==
  ASSUME NEW bs, NEW cs, NEW start \in Int, NEW middle \in Int, NEW last \in Int,
         Covering(bs, start, middle), Covering(cs, middle + 1, last)
  PROVE  Covering(bs \o cs, start, last)
<1> DEFINE ds == bs \o cs
           n == Len(bs)
<1>1. bs \in Seq(Spans) /\ cs \in Seq(Spans)
  BY DEF Covering
<1>2. /\ ds \in Seq(Spans) /\ Len(ds) = n + Len(cs) /\ n \in Nat /\ Len(cs) \in Nat
      /\ DOMAIN ds = 1 .. n + Len(cs)
      /\ \A k \in 1 .. n : ds[k] = bs[k]
      /\ \A k \in n + 1 .. n + Len(cs) : ds[k] = cs[k - n]
  BY <1>1
<1>3. (bs = <<>> <=> n = 0) /\ (cs = <<>> <=> Len(cs) = 0) /\ (ds = <<>> <=> n + Len(cs) = 0)
  BY <1>1, <1>2
<1> HIDE DEF ds
<1>4. ds = <<>> => last = start - 1
  BY <1>2, <1>3 DEF Covering
<1>5. ASSUME ds # <<>> PROVE ds[1].first = start
  <2>1. CASE n # 0
    BY <2>1, <1>2, <1>3 DEF Covering
  <2>2. CASE n = 0
    <3>1. Len(cs) # 0 /\ 1 \in n + 1 .. n + Len(cs) /\ 1 - n = 1
      BY <2>2, <1>2, <1>3, <1>5
    <3>2. ds[1] = cs[1]
      BY <3>1, <1>2
    <3>3. middle = start - 1
      BY <2>2, <1>3 DEF Covering
    <3> QED
      BY <3>1, <3>2, <3>3, <1>3 DEF Covering
  <2> QED
    BY <2>1, <2>2
<1>6. ASSUME ds # <<>> PROVE ds[Len(ds)].last = last
  <2>1. CASE Len(cs) # 0
    <3>1. Len(ds) \in n + 1 .. n + Len(cs) /\ Len(ds) - n = Len(cs)
      BY <2>1, <1>2
    <3>2. ds[Len(ds)] = cs[Len(cs)]
      BY <3>1, <1>2
    <3> QED
      BY <2>1, <3>2, <1>3 DEF Covering
  <2>2. CASE Len(cs) = 0
    <3>1. n # 0 /\ Len(ds) = n /\ n \in 1 .. n
      BY <2>2, <1>2, <1>3, <1>6
    <3>2. ds[Len(ds)] = bs[n]
      BY <3>1, <1>2
    <3>3. last = middle
      BY <2>2, <1>3 DEF Covering
    <3> QED
      BY <3>1, <3>2, <3>3, <1>3 DEF Covering
  <2> QED
    BY <2>1, <2>2
<1>7. ASSUME NEW k \in 1 .. Len(ds) - 1 PROVE ds[k + 1].first = ds[k].last + 1
  <2>1. CASE k < n
    <3>1. k \in 1 .. n /\ k + 1 \in 1 .. n /\ k \in 1 .. n - 1
      BY <2>1, <1>2
    <3>2. ds[k] = bs[k] /\ ds[k + 1] = bs[k + 1]
      BY <3>1, <1>2
    <3> QED
      BY <3>1, <3>2 DEF Covering
  <2>2. CASE k = n
    <3>1. k \in 1 .. n /\ k + 1 \in n + 1 .. n + Len(cs) /\ k + 1 - n = 1 /\ n # 0 /\ Len(cs) # 0
      BY <2>2, <1>2
    <3>2. ds[k] = bs[k] /\ ds[k + 1] = cs[k + 1 - n]
      BY <3>1, <1>2
    <3>3. ds[k] = bs[n] /\ ds[k + 1] = cs[1]
      BY <2>2, <3>1, <3>2
    <3> QED
      BY <3>1, <3>3, <1>3 DEF Covering
  <2>3. CASE k > n
    <3>1. /\ k \in n + 1 .. n + Len(cs) /\ k + 1 \in n + 1 .. n + Len(cs) /\ k - n \in 1 .. Len(cs) - 1
          /\ k + 1 - n = k - n + 1
      BY <2>3, <1>2
    <3>2. ds[k] = cs[k - n] /\ ds[k + 1] = cs[k - n + 1]
      BY <3>1, <1>2
    <3> QED
      BY <3>1, <3>2 DEF Covering
  <2> QED
    BY <2>1, <2>2, <2>3, <1>2
<1>8. Covering(ds, start, last)
  BY <1>2, <1>4, <1>5, <1>6, <1>7 DEF Covering
<1> QED
  BY <1>8 DEF ds

\* The part of a covering before one of its batches.
LEMMA CoverPrefix ==
  ASSUME NEW bs, NEW start \in Int, NEW last \in Int, Covering(bs, start, last), Count \in Nat, NEW k \in DOMAIN bs
  PROVE  /\ Covering(SubSeq(bs, 1, k - 1), start, bs[k].first - 1)
         /\ bs[k] \in Spans /\ SubSeq(bs, 1, k - 1) \in Seq(Spans)
         /\ Len(SubSeq(bs, 1, k - 1)) = k - 1 /\ \A j \in 1 .. k - 1 : SubSeq(bs, 1, k - 1)[j] = bs[j] /\ j \in DOMAIN bs
<1> DEFINE cs == SubSeq(bs, 1, k - 1)
<1>1. bs \in Seq(Spans) /\ DOMAIN bs = 1 .. Len(bs) /\ Len(bs) \in Nat /\ k \in 1 .. Len(bs)
  BY DEF Covering
<1>2. \A j \in 1 .. k - 1 : j \in 1 .. Len(bs)
  BY <1>1
<1>3. /\ cs \in Seq(Spans) /\ Len(cs) = k - 1 /\ \A j \in 1 .. k - 1 : cs[j] = bs[j]
  BY <1>1, <1>2
<1>4. bs[k] \in Spans
  BY <1>1
<1>5. cs = <<>> <=> k = 1
  BY <1>1, <1>3
<1> HIDE DEF cs
<1>6. CASE k = 1
  <2>1. bs[k].first = start /\ cs = <<>>
    BY <1>1, <1>5, <1>6 DEF Covering
  <2>2. Covering(cs, start, start - 1)
    BY <1>3, <2>1 DEF Covering
  <2> QED
    BY <1>1, <1>2, <1>3, <1>4, <2>1, <2>2 DEF cs
<1>7. CASE k # 1
  <2>1. k - 1 \in 1 .. Len(bs) - 1 /\ k - 1 + 1 = k /\ 1 \in 1 .. k - 1 /\ k - 1 \in 1 .. k - 1 /\ bs # <<>>
    BY <1>1, <1>7
  <2>2. cs[1] = bs[1] /\ cs[Len(cs)] = bs[k - 1] /\ bs[k].first = bs[k - 1].last + 1 /\ bs[1].first = start
    BY <1>3, <2>1 DEF Covering
  <2>3. bs[k - 1].last \in Int
    BY <1>1, <2>1 DEF Spans
  <2>4. \A j \in 1 .. Len(cs) - 1 : cs[j + 1].first = cs[j].last + 1
    <3>1. ASSUME NEW j \in 1 .. Len(cs) - 1 PROVE cs[j + 1].first = cs[j].last + 1
      <4>1. j \in 1 .. k - 1 /\ j + 1 \in 1 .. k - 1 /\ j \in 1 .. Len(bs) - 1
        BY <1>1, <1>3
      <4>2. cs[j] = bs[j] /\ cs[j + 1] = bs[j + 1]
        BY <1>3, <4>1
      <4> QED
        BY <4>1, <4>2 DEF Covering
    <3> QED
      BY <3>1
  <2>5. Covering(cs, start, bs[k].first - 1)
    BY <1>3, <1>5, <1>7, <2>2, <2>3, <2>4 DEF Covering
  <2> QED
    BY <1>1, <1>2, <1>3, <1>4, <2>5 DEF cs
<1> QED
  BY <1>6, <1>7

-----------------------------------------------------------------------------
(* The steps.                                                              *)

\* The same, of a batch of those closed.
LEMMA NextAccepted ==
  ASSUME Ordered, NEW bs, NEW start, ClosedFrom(bs, start), NEW k \in DOMAIN bs, Accepted(bs[k], ExactlyFits(bs[k]))
  PROVE  bs[k] \in Spans /\ NextBatch(bs[k].first) = bs[k]
<1>1. bs[k] \in Spans /\ ClosedBatch(bs[k])
  BY DEF ClosedFrom, Covering
<1> QED
  BY <1>1, NextOfAccepted

\* All that was closed fits.
LEMMA TakeAll ==
  ASSUME Ordered, ClosedSoFar(batches), ClosedFrom(pending, After(batches)),
         \A k \in DOMAIN pending : Accepted(pending[k], ExactlyFits(pending[k]))
  PROVE  ClosedSoFar(batches \o pending) /\ After(batches \o pending) = Count + 1
<1> DEFINE bs == batches \o pending
           m == After(batches)
<1>1. /\ Covering(batches, 1, m - 1) /\ Covering(pending, m, Count) /\ batches \in Seq(Spans) /\ pending \in Seq(Spans)
  BY DEF ClosedSoFar, ClosedFrom, Covering
<1>2. m \in Int /\ Count \in Int /\ m - 1 \in Int /\ m - 1 + 1 = m
  <2>1. batches # <<>> => batches[Len(batches)] \in Spans
    BY <1>1
  <2> QED
    BY <2>1, CountType DEF After, Spans
<1>3. Covering(bs, 1, Count)
  <2> HIDE DEF m
  <2> QED
    BY <1>1, <1>2, CoverBoth
<1>4. After(bs) = Count + 1
  BY <1>2, <1>3, AfterIs
<1>5. ASSUME NEW k \in DOMAIN bs PROVE bs[k] = NextBatch(bs[k].first)
  <2>1. /\ DOMAIN bs = 1 .. Len(batches) + Len(pending)
        /\ Len(batches) \in Nat /\ Len(pending) \in Nat /\ DOMAIN batches = 1 .. Len(batches)
        /\ DOMAIN pending = 1 .. Len(pending)
    BY <1>1
  <2>2. CASE k <= Len(batches)
    <3>1. bs[k] = batches[k] /\ k \in DOMAIN batches
      BY <1>1, <2>1, <2>2
    <3> QED
      BY <3>1 DEF ClosedSoFar
  <2>3. CASE ~(k <= Len(batches))
    <3>1. bs[k] = pending[k - Len(batches)] /\ k - Len(batches) \in DOMAIN pending
      BY <1>1, <2>1, <2>3
    <3> QED
      BY <3>1, NextAccepted
  <2> QED
    BY <2>2, <2>3
<1> HIDE DEF bs
<1>6. ClosedSoFar(bs)
  BY <1>2, <1>3, <1>4, <1>5, CountType DEF ClosedSoFar
<1> QED
  BY <1>4, <1>6 DEF bs

\* The first that does not fit sheds its tail, from which the rest is closed again.
LEMMA TakeSome ==
  ASSUME Ordered, ClosedSoFar(batches), ClosedFrom(pending, After(batches)), NEW k \in DOMAIN pending,
         ~Accepted(pending[k], ExactlyFits(pending[k])),
         \A j \in DOMAIN pending : j < k => Accepted(pending[j], ExactlyFits(pending[j]))
  PROVE  LET bs == Append(batches \o SubSeq(pending, 1, k - 1), Shed(pending[k]))
         IN  ClosedSoFar(bs) /\ ClosedFrom(Reclosed(pending[k]), After(bs))
<1> DEFINE b == pending[k]
           c == Shed(b)
           ps == SubSeq(pending, 1, k - 1)
           cs == batches \o ps
           bs == Append(cs, c)
           m == After(batches)
<1>1. /\ Covering(batches, 1, m - 1) /\ Covering(pending, m, Count) /\ batches \in Seq(Spans) /\ pending \in Seq(Spans)
      /\ b \in Spans /\ ClosedBatch(b)
  BY DEF ClosedSoFar, ClosedFrom, Covering
<1>2. m \in Int /\ Count \in Int /\ Count \in Nat /\ m - 1 \in Int /\ m - 1 + 1 = m
  <2>1. batches # <<>> => batches[Len(batches)] \in Spans
    BY <1>1
  <2> QED
    BY <2>1, CountType DEF After, Spans
<1>3. /\ b = Interval(b.first, b.last) /\ b.first \in 1 .. Count /\ b.last \in 1 .. Count /\ b.first <= b.last
      /\ b.first \in Int /\ b.last \in Int
  BY <1>1, SpanIs
<1>4. /\ NextBatch(b.first) = c /\ c = Interval(b.first, c.last) /\ c.last \in b.first .. b.last - 1 /\ c.first = b.first
  <2>1. NextBatch(b.first) = c /\ c = Interval(b.first, c.last) /\ c.last \in b.first .. b.last - 1
    BY <1>1, NextOfShed
  <2> QED
    BY <2>1 DEF Interval
<1>5. /\ Covering(ps, m, b.first - 1) /\ Len(ps) = k - 1 /\ ps \in Seq(Spans)
      /\ \A j \in 1 .. k - 1 : ps[j] = pending[j] /\ j \in DOMAIN pending
  <2> HIDE DEF m
  <2> QED
    BY <1>1, <1>2, CoverPrefix
<1>6. Covering(cs, 1, b.first - 1)
  <2> DEFINE l == b.first - 1
             o == m - 1
  <2>0. o + 1 = m /\ o \in Int /\ l \in Int
    BY <1>2, <1>3
  <2>1. Covering(ps, o + 1, l) /\ Covering(batches, 1, o) /\ o \in Int /\ l \in Int
    <3>1. Covering(ps, m, l) /\ Covering(batches, 1, o)
      BY <1>1, <1>5
    <3> HIDE DEF o, l, m, ps
    <3> QED
      BY <2>0, <3>1
  <2> HIDE DEF l, o, ps
  <2>2. Covering(cs, 1, l)
    BY <2>1, CoverBoth
  <2> QED
    BY <2>2 DEF l
<1>7. \A j \in DOMAIN cs : cs[j] \in {d \in Spans : NextBatch(d.first) = d}
  <2>1. ASSUME NEW j \in DOMAIN cs PROVE cs[j] \in Spans /\ NextBatch(cs[j].first) = cs[j]
    <3>1. /\ DOMAIN cs = 1 .. Len(batches) + (k - 1) /\ Len(batches) \in Nat /\ DOMAIN batches = 1 .. Len(batches)
          /\ k \in Nat
      <4>1. k \in Nat /\ Len(batches) \in Nat /\ DOMAIN batches = 1 .. Len(batches)
        BY <1>1
      <4> HIDE DEF ps
      <4>2. Len(cs) = Len(batches) + Len(ps) /\ DOMAIN cs = 1 .. Len(cs)
        <5>1. batches \in Seq(Spans) /\ ps \in Seq(Spans)
          BY <1>1, <1>5
        <5> QED
          BY <5>1
      <4>3. Len(ps) = k - 1
        BY <1>5
      <4> HIDE DEF cs
      <4> QED
        BY <4>1, <4>2, <4>3
    <3>2. CASE j <= Len(batches)
      <4>1. cs[j] = batches[j] /\ j \in DOMAIN batches
        <5> HIDE DEF ps
        <5> QED
          BY <1>1, <1>5, <3>1, <3>2
      <4> QED
        BY <4>1, <1>1 DEF ClosedSoFar
    <3>3. CASE ~(j <= Len(batches))
      <4> DEFINE i == j - Len(batches)
      <4>1. cs[j] = ps[i] /\ i \in 1 .. k - 1
        <5> HIDE DEF ps
        <5> QED
          BY <1>1, <1>5, <3>1, <3>3
      <4>2. cs[j] = pending[i] /\ i \in DOMAIN pending /\ i < k
        BY <1>5, <3>1, <4>1
      <4>3. Accepted(pending[i], ExactlyFits(pending[i]))
        BY <4>2
      <4> HIDE DEF i, cs
      <4> QED
        BY <4>2, <4>3, NextAccepted
    <3> QED
      BY <3>2, <3>3
  <2> QED
    BY <2>1
<1>8. c.last \in b.first .. Count /\ c.last \in Int /\ c = Interval(b.first, c.last)
  <2> DEFINE i == b.first
             j == b.last
             l == c.last
  <2>1. i \in Int /\ j \in 1 .. Count /\ l \in i .. j - 1 /\ c = Interval(i, l)
    BY <1>3, <1>4
  <2> HIDE DEF i, j, l
  <2>2. l \in i .. Count /\ l \in Int
    BY <1>2, <2>1
  <2> QED
    BY <2>1, <2>2 DEF i, l
<1> DEFINE P == {d \in Spans : NextBatch(d.first) = d}
           d == Interval(b.first, c.last)
<1>9. Covering(Append(cs, d), 1, c.last) /\ d \in Spans
  <2> DEFINE i == b.first
             l == c.last
             one == 1
  <2>1. i \in 1 .. Count /\ l \in i .. Count /\ Covering(cs, one, i - 1) /\ one \in Int
    BY <1>3, <1>6, <1>8
  <2> HIDE DEF cs, i, l, one
  <2>2. Covering(Append(cs, Interval(i, l)), one, l) /\ Interval(i, l) \in Spans
    BY <2>1, CoverMore
  <2> QED
    BY <2>2 DEF i, l, one
<1>10. \A j \in DOMAIN Append(cs, d) : Append(cs, d)[j] \in P
  <2>1. d \in P
    BY <1>4, <1>8, <1>9
  <2>2. \A j \in DOMAIN cs : cs[j] \in P
    BY <1>7
  <2> DEFINE i == b.first
             l == c.last
  <2>3. i \in 1 .. Count /\ l \in i .. Count /\ Covering(cs, 1, i - 1) /\ Interval(i, l) \in P
    BY <1>3, <1>6, <1>8, <2>1
  <2> HIDE DEF cs, i, l, P
  <2>4. \A j \in DOMAIN Append(cs, Interval(i, l)) : Append(cs, Interval(i, l))[j] \in P
    BY <2>2, <2>3, CoverMore
  <2> QED
    BY <2>4 DEF i, l
<1>11. bs = Append(cs, d)
  BY <1>8
<1> HIDE DEF cs, c, b, d, bs
<1>12. After(bs) = c.last + 1
  BY <1>8, <1>9, <1>11, AfterIs
<1>13. ClosedSoFar(bs)
  <2>1. After(bs) - 1 = c.last
    BY <1>8, <1>12
  <2>2. \A j \in DOMAIN bs : bs[j] = NextBatch(bs[j].first)
    BY <1>10, <1>11
  <2> QED
    BY <1>9, <1>11, <2>1, <2>2 DEF ClosedSoFar
<1>14. ClosedFrom(Reclosed(b), After(bs))
  <2> DEFINE start == c.last + 1
             from == b.last + 1
  <2>1. Reclosed(b) = CloseFrom(start, from)
    BY DEF Reclosed, c
  <2>2. start \in 1 .. Count + 1 /\ from \in start .. Count + 1 /\ from - 1 = b.last /\ start \in 1 .. Count
    BY <1>2, <1>3, <1>4
  <2>3. EstimateFits(Interval(start, b.last))
    <3>1. b.last = EstimatedEnd(b.first) /\ b.last # b.first
      BY <1>1, <1>3, <1>4 DEF ClosedBatch
    <3>2. EstimateFits(Interval(b.first, b.last))
      BY <1>3, <3>1, EndIs
    <3>3. start \in b.first .. b.last /\ b.last \in b.first .. b.last
      BY <1>3, <1>4
    <3> HIDE DEF start
    <3> QED
      BY <1>3, <3>2, <3>3, EstimateOfPart
  <2> HIDE DEF start, from
  <2>4. ClosedFrom(CloseFrom(start, from), start)
    BY <2>2, <2>3, CloseFromCovers
  <2> QED
    BY <1>12, <2>1, <2>4 DEF start
<1> QED
  BY <1>13, <1>14 DEF bs, b, c, cs

-----------------------------------------------------------------------------
(* The order of a partial scan.                                            *)

\* An injection, point by point.
LEMMA InjectionIs ==
  ASSUME NEW S, NEW T, NEW f
  PROVE  f \in Injection(S, T) <=> f \in [S -> T] /\ \A x, y \in S : f[x] = f[y] => x = y
<1>1. f \in Injection(S, T) <=> f \in [S -> T] /\ \A x, y \in DOMAIN f : f[x] = f[y] => x = y
  BY Zenon DEF Injection, IsInjective
<1>2. f \in [S -> T] => DOMAIN f = S
  OBVIOUS
<1> QED
  BY <1>1, <1>2

\* Count different positions are all of them.
LEMMA OrderFromInjection ==
  ASSUME Count \in Nat, NEW o \in Injection(1 .. Count, 1 .. Count)
  PROVE  OfAll(o)
<1>1. IsFiniteSet(1 .. Count)
  BY FS_Interval
<1>2. o \in Surjection(1 .. Count, 1 .. Count)
  BY <1>1, FS_Injection
<1>3. o \in [1 .. Count -> 1 .. Count] /\ \A t \in 1 .. Count : \E x \in 1 .. Count : o[x] = t
  BY <1>2 DEF Surjection
<1> QED
  BY <1>3 DEF OfAll, ToSet

\* No two fragments have the same rank.
LEMMA RankedIsOrder ==
  ASSUME Count \in Nat, NEW scores \in [1 .. Count -> 1 .. Count]
  PROVE  OfAll(Ranked(scores))
<1> DEFINE D == 1 .. Count
           B(p) == {q \in D : scores[q] > scores[p] \/ (scores[q] = scores[p] /\ q <= p)}
           r == [p \in D |-> Rank(scores, p)]
<1>1. IsFiniteSet(D) /\ Cardinality(D) = Count
  BY FS_Interval
<1>2. \A p : Rank(scores, p) = Cardinality(B(p))
  BY DEF Rank
<1>3. \A p \in D : scores[p] \in Int /\ p \in Int
  OBVIOUS
<1>4. ASSUME NEW p \in D PROVE Rank(scores, p) \in D /\ IsFiniteSet(B(p))
  <2>1. B(p) \subseteq D /\ p \in B(p)
    BY <1>3
  <2> HIDE DEF B
  <2>2. IsFiniteSet(B(p)) /\ Cardinality(B(p)) <= Cardinality(D)
    BY <1>1, <2>1, FS_Subset
  <2>3. Cardinality(B(p)) \in Nat /\ Cardinality(B(p)) # 0
    BY <2>1, <2>2, FS_CardinalityType, FS_EmptySet
  <2> QED
    BY <1>1, <1>2, <2>2, <2>3
<1>5. ASSUME NEW p \in D, NEW q \in D, p # q, scores[p] > scores[q] \/ (scores[p] = scores[q] /\ p <= q)
      PROVE  Rank(scores, p) # Rank(scores, q)
  <2>1. q \in B(q) /\ q \notin B(p)
    BY <1>3, <1>5
  <2>2. ASSUME NEW x \in B(p) PROVE x \in B(q)
    <3>1. /\ x \in D /\ x \in Int /\ p \in Int /\ q \in Int
          /\ scores[x] \in Int /\ scores[p] \in Int /\ scores[q] \in Int
      BY <1>3, <2>2
    <3>2. scores[x] > scores[p] \/ (scores[x] = scores[p] /\ x <= p)
      BY <2>2
    <3>3. scores[x] > scores[q] \/ (scores[x] = scores[q] /\ x <= q)
      <4> DEFINE i == scores[x]
                 j == scores[p]
                 k == scores[q]
      <4>1. i \in Int /\ j \in Int /\ k \in Int
        BY <3>1
      <4>2. (i > j \/ (i = j /\ x <= p)) /\ (j > k \/ (j = k /\ p <= q))
        BY <1>5, <3>2
      <4> HIDE DEF i, j, k, B, D, r
      <4>3. i > k \/ (i = k /\ x <= q)
        BY <3>1, <4>1, <4>2
      <4> QED
        BY <4>3 DEF i, k
    <3> QED
      BY <3>1, <3>3
  <2> HIDE DEF B
  <2>3. B(p) \in SUBSET B(q) /\ IsFiniteSet(B(q)) /\ B(p) # B(q)
    BY <1>4, <2>1, <2>2
  <2>4. Cardinality(B(q)) # Cardinality(B(p))
    BY <2>3, FS_Subset
  <2> QED
    BY <1>2, <2>4
<1>6. \A p, q \in D : Rank(scores, p) = Rank(scores, q) => p = q
  BY <1>3, <1>5
<1>7. r \in Injection(D, D)
  <2>1. r \in [D -> D]
    BY <1>4
  <2>2. \A p, q \in D : r[p] = r[q] => p = q
    BY <1>6
  <2> HIDE DEF r, D
  <2> QED
    BY <2>1, <2>2, InjectionIs
<1>8. r \in Surjection(D, D)
  <2> HIDE DEF r, D
  <2> QED
    BY <1>1, <1>7, FS_Injection
<1>9. \A n \in D : \E p \in D : Rank(scores, p) = n
  BY <1>8 DEF Surjection
<1>10. \A n \in D : Ranked(scores)[n] \in D /\ Rank(scores, Ranked(scores)[n]) = n
  BY <1>9 DEF Ranked
<1>11. Ranked(scores) \in Injection(D, D)
  <2>1. Ranked(scores) = [n \in D |-> Ranked(scores)[n]]
    BY DEF Ranked
  <2>2. Ranked(scores) \in [D -> D]
    BY <1>10, <2>1
  <2>3. \A x, y \in D : Ranked(scores)[x] = Ranked(scores)[y] => x = y
    BY <1>10
  <2> HIDE DEF D
  <2> QED
    BY <2>2, <2>3, InjectionIs
<1> QED
  BY <1>11, OrderFromInjection

\* After n positions were given: n different candidates, and all that the two lists
\* have before their cursors.
Placing(o, n, ranked, sweep) ==
  /\ o.out \in Injection(1 .. n, 1 .. Count)
  /\ o.r \in 1 .. Count + 1 /\ \A i \in 1 .. o.r - 1 : ranked[i] \in ToSet(o.out)
  /\ o.s \in 1 .. Count + 1 /\ \A i \in 1 .. o.s - 1 : sweep[i] \in ToSet(o.out)

\* The first candidate from a cursor that has no position yet.
LEMMA FirstFreeTyped ==
  ASSUME Count \in Nat, NEW source \in [1 .. Count -> 1 .. Count], NEW from \in 1 .. Count + 1, NEW taken
  PROVE  /\ FirstFree(source, from, taken) \in 1 .. Count + 1
         /\ \A i \in from .. FirstFree(source, from, taken) - 1 : source[i] \in taken
         /\ FirstFree(source, from, taken) # Count + 1 =>
              FirstFree(source, from, taken) \in 1 .. Count /\ source[FirstFree(source, from, taken)] \notin taken
         /\ FirstFree(source, from, taken) >= from
<1> DEFINE free == {i \in from .. Len(source) : source[i] \notin taken}
<1>1. Len(source) = Count
  OBVIOUS
<1>2. free \subseteq Nat /\ free \subseteq 1 .. Count
  BY <1>1
<1>3. CASE free = {}
  <2>1. FirstFree(source, from, taken) = Count + 1
    BY <1>1, <1>3 DEF FirstFree
  <2>2. \A i \in from .. Count : source[i] \in taken
    BY <1>1, <1>3
  <2> QED
    BY <2>1, <2>2
<1>4. CASE free # {}
  <2>1. FirstFree(source, from, taken) = Min(free)
    BY <1>4 DEF FirstFree
  <2>2. Min(free) \in free /\ \A x \in free : Min(free) <= x
    <3> HIDE DEF free
    <3> QED
      BY <1>2, <1>4, MinIs
  <2> DEFINE m == Min(free)
  <2>3. m \in from .. Count /\ source[m] \notin taken
    BY <1>1, <2>2
  <2>4. ASSUME NEW i \in from .. m - 1 PROVE source[i] \in taken
    <3>1. i \in from .. Count /\ ~(m <= i)
      BY <2>3
    <3> QED
      BY <1>1, <2>2, <3>1
  <2> HIDE DEF m
  <2>5. m \in 1 .. Count + 1 /\ m >= from /\ m \in 1 .. Count
    BY <2>3
  <2> QED
    BY <2>1, <2>3, <2>4, <2>5 DEF m
<1> QED
  BY <1>3, <1>4

\* One of the first n is still to be placed.
LEMMA SomeFree ==
  ASSUME Count \in Nat, NEW n \in Nat, n < Count, NEW out \in Injection(1 .. n, 1 .. Count),
         NEW source, OfAll(source), NEW from \in 1 .. Count + 1,
         \A i \in 1 .. from - 1 : source[i] \in ToSet(out)
  PROVE  LET i == FirstFree(source, from, ToSet(out))
         IN  /\ i \in 1 .. Count /\ source[i] \in 1 .. Count /\ source[i] \notin ToSet(out)
             /\ \A j \in 1 .. i - 1 : source[j] \in ToSet(out)
<1> DEFINE i == FirstFree(source, from, ToSet(out))
<1>1. out \in [1 .. n -> 1 .. Count] /\ DOMAIN out = 1 .. n
  BY InjectionIs
<1>2. \E v \in 1 .. Count : v \notin ToSet(out)
  <2> SUFFICES ASSUME \A v \in 1 .. Count : v \in ToSet(out) PROVE FALSE
    OBVIOUS
  <2>1. out \in Surjection(1 .. n, 1 .. Count)
    BY <1>1 DEF Surjection, ToSet
  <2>2. /\ IsFiniteSet(1 .. n) /\ Cardinality(1 .. n) = n /\ Cardinality(1 .. Count) = Count
    <3> DEFINE one == 1
    <3>1. one \in Int /\ n \in Int /\ Count \in Int
      OBVIOUS
    <3> HIDE DEF one
    <3>2. /\ IsFiniteSet(one .. n) /\ Cardinality(one .. n) = IF one > n THEN 0 ELSE n - one + 1
          /\ Cardinality(one .. Count) = IF one > Count THEN 0 ELSE Count - one + 1
      BY <3>1, FS_Interval
    <3> QED
      BY <3>2 DEF one
  <2>3. Cardinality(1 .. Count) <= Cardinality(1 .. n)
    BY <2>1, <2>2, FS_Surjection
  <2> QED
    BY <2>2, <2>3
<1>3. PICK k \in 1 .. Count : source[k] \notin ToSet(out)
  BY <1>2 DEF OfAll, ToSet
<1>4. source \in [1 .. Count -> 1 .. Count]
  BY DEF OfAll
<1>5. /\ i \in 1 .. Count + 1 /\ (\A j \in from .. i - 1 : source[j] \in ToSet(out))
      /\ (i # Count + 1 => i \in 1 .. Count /\ source[i] \notin ToSet(out)) /\ i >= from
  BY <1>4, FirstFreeTyped
<1> HIDE DEF i
<1>6. \A j \in 1 .. i - 1 : source[j] \in ToSet(out)
  <2>1. ASSUME NEW j \in 1 .. i - 1 PROVE source[j] \in ToSet(out)
    <3>1. j \in 1 .. from - 1 \/ j \in from .. i - 1
      BY <1>5
    <3> QED
      BY <1>5, <3>1
  <2> QED
    BY <2>1
<1>7. i # Count + 1
  <2>1. i = Count + 1 => k \in 1 .. i - 1
    BY <1>3
  <2> QED
    BY <1>3, <1>6, <2>1
<1>8. i \in 1 .. Count /\ source[i] \notin ToSet(out) /\ source[i] \in 1 .. Count
  BY <1>4, <1>5, <1>7
<1> QED
  BY <1>6, <1>8 DEF i

\* A different one more.
LEMMA PlaceOneMore ==
  ASSUME NEW T, NEW n \in Nat, NEW out \in Injection(1 .. n, T), NEW v \in T, v \notin ToSet(out)
  PROVE  /\ Append(out, v) \in Injection(1 .. n + 1, T) /\ Len(Append(out, v)) = n + 1
         /\ ToSet(out) \subseteq ToSet(Append(out, v)) /\ v \in ToSet(Append(out, v))
<1>0. out \in Injection(1 .. n, T)
  OBVIOUS
<1>1. out \in [1 .. n -> T] /\ \A x, y \in 1 .. n : out[x] = out[y] => x = y
  BY <1>0, InjectionIs
<1>2. out \in Seq(T) /\ Len(out) = n
  BY <1>1
<1> DEFINE c == Append(out, v)
<1>3. c \in [1 .. n + 1 -> T] /\ Len(c) = n + 1 /\ c[n + 1] = v /\ \A x \in 1 .. n : c[x] = out[x]
  <2>1. /\ c \in Seq(T) /\ Len(c) = Len(out) + 1 /\ c[Len(out) + 1] = v
        /\ \A x \in 1 .. Len(out) : c[x] = out[x]
    BY <1>2
  <2> HIDE DEF c
  <2> QED
    BY <1>2, <2>1
<1> HIDE DEF c
<1>4. \A x \in 1 .. n : out[x] # v
  BY <1>1 DEF ToSet
<1>5. ASSUME NEW x \in 1 .. n + 1, NEW y \in 1 .. n + 1, c[x] = c[y] PROVE x = y
  <2>1. (x \in 1 .. n \/ x = n + 1) /\ (y \in 1 .. n \/ y = n + 1)
    OBVIOUS
  <2> QED
    BY <1>1, <1>3, <1>4, <1>5, <2>1
<1>6. c \in Injection(1 .. n + 1, T)
  BY <1>3, <1>5, InjectionIs
<1>7. ToSet(out) \subseteq ToSet(c) /\ v \in ToSet(c)
  <2>1. \A x \in 1 .. n : x \in 1 .. n + 1
    OBVIOUS
  <2>2. n + 1 \in 1 .. n + 1
    OBVIOUS
  <2> QED
    BY <1>1, <1>3, <2>1, <2>2 DEF ToSet
<1> QED
  BY <1>3, <1>6, <1>7 DEF c

Placings(V) == [out : Seq(V), r : 1 .. Count + 1, s : 1 .. Count + 1]

\* The next position is given to a candidate that has none.
LEMMA PlaceKeeps ==
  ASSUME Count \in Nat, NEW ranked, OfAll(ranked), NEW sweep, OfAll(sweep), NEW reserve,
         NEW n \in Nat, n < Count, NEW o, Placing(o, n, ranked, sweep)
  PROVE  Placing(Place(o, n, ranked, sweep, reserve), n + 1, ranked, sweep)
<1> DEFINE reserved == Reserved(n, reserve)
           source == IF reserved THEN sweep ELSE ranked
           from == IF reserved THEN o.s ELSE o.r
           i == FirstFree(source, from, ToSet(o.out))
           d == Place(o, n, ranked, sweep, reserve)
<1>1. OfAll(source)
  OBVIOUS
<1>2. from \in 1 .. Count + 1 /\ \A j \in 1 .. from - 1 : source[j] \in ToSet(o.out)
  BY DEF Placing
<1>3. o.out \in Injection(1 .. n, 1 .. Count)
  BY DEF Placing
<1>4. /\ i \in 1 .. Count /\ source[i] \in 1 .. Count /\ source[i] \notin ToSet(o.out)
      /\ \A j \in 1 .. i - 1 : source[j] \in ToSet(o.out)
  <2> DEFINE out == o.out
  <2> HIDE DEF source, from, out
  <2>1. /\ from \in 1 .. Count + 1 /\ \A j \in 1 .. from - 1 : source[j] \in ToSet(out)
        /\ out \in Injection(1 .. n, 1 .. Count)
    BY <1>2, <1>3 DEF out
  <2> QED
    BY <1>1, <2>1, SomeFree DEF out
<1>5. /\ d.out = Append(o.out, source[i]) /\ d.r = (IF reserved THEN o.r ELSE i)
      /\ d.s = (IF reserved THEN i ELSE o.s)
  BY DEF Place
<1>6. /\ d.out \in Injection(1 .. n + 1, 1 .. Count) /\ ToSet(o.out) \subseteq ToSet(d.out)
  <2> HIDE DEF source, i, d
  <2> QED
    BY <1>3, <1>4, <1>5, PlaceOneMore
<1>7. i \in 1 .. Count + 1 /\ \A j \in 1 .. i - 1 : source[j] \in ToSet(d.out)
  <2> HIDE DEF source, i, d
  <2> QED
    BY <1>4, <1>6
<1>8. d.r \in 1 .. Count + 1 /\ \A j \in 1 .. d.r - 1 : ranked[j] \in ToSet(d.out)
  <2>1. CASE reserved
    <3>1. d.r = o.r
      BY <1>5, <2>1
    <3> HIDE DEF d
    <3> QED
      BY <1>6, <3>1 DEF Placing
  <2>2. CASE ~reserved
    <3>1. d.r = i /\ source = ranked
      BY <1>5, <2>2
    <3> HIDE DEF d, i, source
    <3> QED
      BY <1>7, <3>1
  <2> QED
    BY <2>1, <2>2
<1>9. d.s \in 1 .. Count + 1 /\ \A j \in 1 .. d.s - 1 : sweep[j] \in ToSet(d.out)
  <2>1. CASE ~reserved
    <3>1. d.s = o.s
      BY <1>5, <2>1
    <3> HIDE DEF d
    <3> QED
      BY <1>6, <3>1 DEF Placing
  <2>2. CASE reserved
    <3>1. d.s = i /\ source = sweep
      BY <1>5, <2>2
    <3> HIDE DEF d, i, source
    <3> QED
      BY <1>7, <3>1
  <2> QED
    BY <2>1, <2>2
<1> HIDE DEF d
<1>10. Placing(d, n + 1, ranked, sweep)
  BY <1>6, <1>8, <1>9 DEF Placing
<1> QED
  BY <1>10 DEF d

\* What the interleaving computes.
PlacedBy(ranked, sweep, reserve, f) ==
  f = [n \in 0 .. Len(ranked) |-> IF n = 0 THEN [out |-> <<>>, r |-> 1, s |-> 1]
                                  ELSE Place(f[n - 1], n - 1, ranked, sweep, reserve)]

\* Interleaved, by the recursion that computes it.
LEMMA InterleavedIs ==
  ASSUME NEW ranked, NEW sweep, NEW reserve, reserve[1] # 0
  PROVE  Interleaved(ranked, sweep, reserve)
           = LET f == CHOOSE f : PlacedBy(ranked, sweep, reserve, f) IN f[Len(ranked)].out
  BY DEF Interleaved, PlacedBy

\* There is such a recursion.
LEMMA PlacedExists ==
  ASSUME Count \in Nat, NEW ranked, OfAll(ranked), NEW sweep, OfAll(sweep), NEW reserve
  PROVE  \E f : PlacedBy(ranked, sweep, reserve, f)
<1> DEFINE V == (1 .. Count) \cup {ranked[Count + 1], sweep[Count + 1]}
           S == Placings(V)
           base == [out |-> <<>>, r |-> 1, s |-> 1]
           step == [x \in S \X (1 .. Count) |-> Place(x[1], x[2] - 1, ranked, sweep, reserve)]
<1>1. Len(ranked) = Count /\ ranked \in [1 .. Count -> 1 .. Count] /\ sweep \in [1 .. Count -> 1 .. Count]
  <2>1. ranked \in [1 .. Count -> 1 .. Count] /\ sweep \in [1 .. Count -> 1 .. Count]
    BY DEF OfAll
  <2>2. Len(ranked) = Count
    BY <2>1
  <2> QED
    BY <2>1, <2>2
<1>2. base \in S
  BY DEF Placings
<1>3. ASSUME NEW o \in S, NEW n \in 1 .. Count PROVE Place(o, n - 1, ranked, sweep, reserve) \in S
  <2> DEFINE reserved == Reserved(n - 1, reserve)
             source == IF reserved THEN sweep ELSE ranked
             from == IF reserved THEN o.s ELSE o.r
             i == FirstFree(source, from, ToSet(o.out))
             d == Place(o, n - 1, ranked, sweep, reserve)
  <2>1. source \in [1 .. Count -> 1 .. Count]
    BY <1>1
  <2>2. from \in 1 .. Count + 1 /\ o.out \in Seq(V) /\ o.r \in 1 .. Count + 1 /\ o.s \in 1 .. Count + 1
    <3> HIDE DEF V
    <3> QED
      BY DEF Placings
  <2>3. i \in 1 .. Count + 1
    <3> HIDE DEF from, source
    <3> QED
      BY <2>1, <2>2, FirstFreeTyped
  <2>4. source[i] \in V
    <3> HIDE DEF i
    <3>1. CASE i = Count + 1
      BY <3>1
    <3>2. CASE i # Count + 1
      BY <3>2, <2>1, <2>3
    <3> QED
      BY <3>1, <3>2
  <2>5. d = [out |-> Append(o.out, source[i]),
             r |-> IF reserved THEN o.r ELSE i, s |-> IF reserved THEN i ELSE o.s]
    BY DEF Place
  <2>6. Append(o.out, source[i]) \in Seq(V)
    <3> HIDE DEF V, source, i
    <3> QED
      BY <2>2, <2>4
  <2> HIDE DEF V, source, i, from, d, reserved
  <2>7. d \in S
    BY <2>2, <2>3, <2>5, <2>6 DEF Placings
  <2> QED
    BY <2>7 DEF d
<1> HIDE DEF S
<1>4. step \in StepsOver(S, 0, Count)
  <2>1. step \in [S \X (1 .. Count) -> S]
    BY <1>3
  <2> HIDE DEF step
  <2> QED
    BY <2>1 DEF StepsOver
<1>5. Solutions(S, 0, Count, base, step) # {}
  <2> DEFINE zero == 0
  <2>1. zero \in Int /\ Count \in Int /\ zero <= Count /\ step \in StepsOver(S, zero, Count) /\ base \in S
    BY <1>2, <1>4
  <2> HIDE DEF base, step, zero
  <2>2. Solutions(S, zero, Count, base, step) # {}
    BY <2>1, Recursion
  <2> QED
    BY <2>2 DEF zero
<1>6. PICK f \in [0 .. Count -> S] : f[0] = base /\ \A p \in 1 .. Count : f[p] = step[<<f[p - 1], p>>]
  <2> HIDE DEF base, step
  <2> QED
    BY <1>5 DEF Solutions
<1>7. ASSUME NEW n \in 0 .. Count
      PROVE  f[n] = IF n = 0 THEN base ELSE Place(f[n - 1], n - 1, ranked, sweep, reserve)
  <2>1. CASE n = 0
    BY <1>6, <2>1
  <2>2. CASE n # 0
    <3>1. n \in 1 .. Count /\ n - 1 \in 0 .. Count
      BY <2>2
    <3>2. f[n - 1] \in S
      BY <1>6, <3>1
    <3> QED
      BY <1>6, <2>2, <3>1, <3>2
  <2> QED
    BY <2>1, <2>2
<1> HIDE DEF step
<1>8. f = [n \in 0 .. Count |-> IF n = 0 THEN base ELSE Place(f[n - 1], n - 1, ranked, sweep, reserve)]
  <2> HIDE DEF base
  <2> QED
    BY <1>6, <1>7
<1> QED
  BY <1>1, <1>8 DEF PlacedBy

\* Interleaving two orders of all the fragments gives one.
LEMMA InterleavedIsOrder ==
  ASSUME Count \in Nat, NEW ranked, OfAll(ranked), NEW sweep, OfAll(sweep), NEW reserve
  PROVE  OfAll(Interleaved(ranked, sweep, reserve))
<1>1. CASE reserve[1] = 0
  BY <1>1 DEF Interleaved
<1>2. CASE reserve[1] # 0
  <2> DEFINE f == CHOOSE f : PlacedBy(ranked, sweep, reserve, f)
  <2>1. PlacedBy(ranked, sweep, reserve, f)
    BY PlacedExists
  <2> HIDE DEF f
  <2>2. Len(ranked) = Count
    BY DEF OfAll
  <2>3. /\ f[0] = [out |-> <<>>, r |-> 1, s |-> 1]
        /\ \A n \in 0 .. Count : n # 0 => f[n] = Place(f[n - 1], n - 1, ranked, sweep, reserve)
    BY <2>1, <2>2 DEF PlacedBy
  <2> DEFINE N == {n \in Nat : n <= Count => Placing(f[n], n, ranked, sweep)}
  <2>4. 0 \in N
    <3> DEFINE none == <<>>
               zero == 0
    <3>1. none \in [1 .. 0 -> 1 .. Count] /\ \A x, y \in 1 .. 0 : none[x] = none[y] => x = y
      OBVIOUS
    <3> HIDE DEF none
    <3>2. none \in Injection(1 .. 0, 1 .. Count)
      BY <3>1, InjectionIs
    <3>3. f[0].out = none /\ f[0].r = 1 /\ f[0].s = 1
      BY <2>3 DEF none
    <3>4. Placing(f[0], 0, ranked, sweep)
      BY <3>2, <3>3 DEF Placing
    <3> QED
      BY <3>4
  <2>5. ASSUME NEW n \in N PROVE n + 1 \in N
    <3> SUFFICES ASSUME n + 1 <= Count PROVE Placing(f[n + 1], n + 1, ranked, sweep)
      BY <2>5
    <3>1. n \in Nat /\ n < Count /\ n <= Count /\ n + 1 \in 0 .. Count /\ n + 1 # 0 /\ n + 1 - 1 = n
      BY <2>5
    <3>2. Placing(f[n], n, ranked, sweep)
      BY <2>5, <3>1
    <3>3. f[n + 1] = Place(f[n], n, ranked, sweep, reserve)
      BY <2>3, <3>1
    <3> QED
      BY <3>1, <3>2, <3>3, PlaceKeeps
  <2>6. N = Nat
    <3>1. N \subseteq Nat
      OBVIOUS
    <3> HIDE DEF N
    <3> QED
      BY <2>4, <2>5, <3>1, NaturalInduction
  <2>7. Placing(f[Count], Count, ranked, sweep)
    <3>1. Count \in N
      BY <2>6
    <3> QED
      BY <3>1
  <2>8. OfAll(f[Count].out)
    BY <2>7, OrderFromInjection DEF Placing
  <2>9. Interleaved(ranked, sweep, reserve) = f[Count].out
    BY <1>2, <2>2, InterleavedIs DEF f
  <2> QED
    BY <2>8, <2>9
<1> QED
  BY <1>1, <1>2

\* The order of priority excludes no fragment (priority.ts:5).
LEMMA PrioritizedIsOrder ==
  ASSUME Count \in Nat, NEW scores \in [1 .. Count -> 1 .. Count], NEW reserve
  PROVE  OfAll(PrioritizeFragments(scores, reserve))
<1>1. OfAll(PathOrder)
  BY DEF OfAll, PathOrder, ToSet
<1> QED
  BY <1>1, RankedIsOrder, InterleavedIsOrder DEF PrioritizeFragments

-----------------------------------------------------------------------------
(* Closing one batch at a time.                                            *)

OneFrom(first, f) ==
  f = [i \in first .. Count + 1 |-> IF i > Count THEN <<>> ELSE <<NextBatch(i)>> \o f[NextBatch(i).last + 1]]

\* OneAtATime, by the recursion that computes it.
LEMMA OneAtATimeDef == OneAtATime = LET f == CHOOSE f : OneFrom(1, f) IN f[1]
BY DEF OneAtATime, OneFrom

\* There is such a recursion, made from the last position down.
LEMMA OneFromExists ==
  ASSUME Ordered
  PROVE  \E f : OneFrom(1, f)
<1>1. Count \in Nat
  BY CountType
<1> DEFINE N == {n \in Nat : n <= Count => \E f : OneFrom(Count + 1 - n, f)}
<1>2. 0 \in N
  <2> DEFINE f == [i \in Count + 1 .. Count + 1 |-> <<>>]
             g == [i \in Count + 1 .. Count + 1 |-> IF i > Count THEN <<>> ELSE <<NextBatch(i)>> \o f[NextBatch(i).last + 1]]
  <2>1. \A i \in Count + 1 .. Count + 1 : i > Count
    BY <1>1
  <2>2. f = g
    BY <2>1
  <2>3. OneFrom(Count + 1, f)
    BY <2>2 DEF OneFrom
  <2>4. Count + 1 - 0 = Count + 1
    BY <1>1
  <2> HIDE DEF f
  <2> QED
    BY <2>3, <2>4
<1>3. ASSUME NEW n \in N PROVE n + 1 \in N
  <2> SUFFICES ASSUME n + 1 <= Count PROVE \E f : OneFrom(Count + 1 - (n + 1), f)
    BY <1>3
  <2> DEFINE j == Count + 1 - (n + 1)
  <2>1. n \in Nat /\ n <= Count /\ j \in 1 .. Count /\ Count + 1 - n = j + 1
    BY <1>1, <1>3
  <2>2. PICK f : OneFrom(j + 1, f)
    BY <1>3, <2>1
  <2> HIDE DEF j
  <2> DEFINE next(i) == NextBatch(i).last + 1
             g == [i \in j .. Count + 1 |-> IF i = j THEN <<NextBatch(j)>> \o f[next(j)] ELSE f[i]]
  <2>3. \A i \in 1 .. Count : next(i) \in i + 1 .. Count + 1
    <3>1. ASSUME NEW i \in 1 .. Count PROVE next(i) \in i + 1 .. Count + 1
      <4>1. NextBatch(i).last \in i .. EstimatedEnd(i) /\ EstimatedEnd(i) \in i .. Count
        BY NextBatchIs, EndIs
      <4> DEFINE l == NextBatch(i).last
                 m == EstimatedEnd(i)
      <4>2. l \in i .. m /\ m \in i .. Count
        BY <4>1
      <4> HIDE DEF l, m
      <4>3. l + 1 \in i + 1 .. Count + 1
        BY <1>1, <4>2
      <4> QED
        BY <4>3 DEF l
    <3> QED
      BY <3>1
  <2>4. ASSUME NEW i \in j .. Count + 1
        PROVE  g[i] = IF i > Count THEN <<>> ELSE <<NextBatch(i)>> \o g[next(i)]
    <3>1. CASE i = j
      <4>1. next(j) \in j + 1 .. Count + 1 /\ next(j) \in j .. Count + 1 /\ next(j) # j /\ ~(j > Count)
        <5>1. next(j) \in j + 1 .. Count + 1
          BY <2>1, <2>3
        <5> HIDE DEF next
        <5> QED
          BY <1>1, <2>1, <5>1
      <4>2. g[next(j)] = f[next(j)] /\ g[j] = <<NextBatch(j)>> \o f[next(j)]
        <5>1. j \in j .. Count + 1
          BY <1>1, <2>1
        <5> HIDE DEF next
        <5> QED
          BY <4>1, <5>1
      <4> QED
        BY <3>1, <4>1, <4>2
    <3>2. CASE i # j
      <4>1. i \in j + 1 .. Count + 1
        BY <1>1, <2>1, <3>2
      <4>2. f[i] = IF i > Count THEN <<>> ELSE <<NextBatch(i)>> \o f[next(i)]
        BY <2>2, <4>1 DEF OneFrom
      <4>3. g[i] = f[i]
        BY <3>2
      <4>4. ASSUME ~(i > Count) PROVE g[next(i)] = f[next(i)]
        <5>1. next(i) \in i + 1 .. Count + 1
          BY <1>1, <2>1, <2>3, <4>1, <4>4
        <5> HIDE DEF next
        <5>2. next(i) \in j .. Count + 1 /\ next(i) # j
          BY <1>1, <2>1, <4>1, <5>1
        <5> QED
          BY <5>2
      <4> HIDE DEF g
      <4> QED
        BY <4>2, <4>3, <4>4
    <3> QED
      BY <3>1, <3>2
  <2>5. g = [i \in j .. Count + 1 |-> IF i > Count THEN <<>> ELSE <<NextBatch(i)>> \o g[next(i)]]
    <3>1. g = [i \in j .. Count + 1 |-> g[i]]
      OBVIOUS
    <3> HIDE DEF g
    <3> QED
      BY <2>4, <3>1
  <2> HIDE DEF g
  <2>6. OneFrom(j, g)
    BY <2>5 DEF OneFrom
  <2> QED
    BY <2>6 DEF j
<1>4. N = Nat
  <2>1. N \subseteq Nat
    OBVIOUS
  <2> HIDE DEF N
  <2> QED
    BY <1>2, <1>3, <2>1, NaturalInduction
<1>5. Count \in N
  BY <1>1, <1>4
<1>6. Count + 1 - Count = 1 /\ Count <= Count
  BY <1>1
<1> QED
  BY <1>5, <1>6

\* Batches of which each is the next one, to the end, are those.
LEMMA OneAtATimeIs ==
  ASSUME Ordered, NEW bs, ClosedSoFar(bs), After(bs) = Count + 1
  PROVE  bs = OneAtATime
<1> DEFINE f == CHOOSE f : OneFrom(1, f)
           n == Len(bs)
           start(j) == IF j > n THEN Count + 1 ELSE bs[j].first
<1>1. OneFrom(1, f)
  BY OneFromExists
<1> HIDE DEF f
<1>2. /\ Count \in Nat /\ bs \in Seq(Spans) /\ n \in Nat /\ DOMAIN bs = 1 .. n /\ Covering(bs, 1, Count)
      /\ \A k \in 1 .. n : bs[k] = NextBatch(bs[k].first)
  <2>1. Count \in Nat /\ Covering(bs, 1, Count + 1 - 1) /\ Count + 1 - 1 = Count
    BY CountType DEF ClosedSoFar
  <2>2. bs \in Seq(Spans)
    BY <2>1 DEF Covering
  <2>3. n \in Nat /\ DOMAIN bs = 1 .. n
    BY <2>2
  <2> QED
    BY <2>1, <2>2, <2>3 DEF ClosedSoFar
<1>3. start(1) = 1
  BY <1>2 DEF Covering
<1>4. ASSUME NEW j \in 1 .. n
      PROVE  start(j) \in 1 .. Count /\ NextBatch(start(j)) = bs[j] /\ bs[j].last + 1 = start(j + 1)
  <2>1. bs[j] \in Spans /\ start(j) = bs[j].first
    BY <1>2
  <2>2. start(j) \in 1 .. Count /\ NextBatch(start(j)) = bs[j]
    BY <1>2, <2>1 DEF Spans
  <2>3. CASE j = n
    <3>1. n + 1 > n /\ bs # <<>>
      BY <1>2, <2>3
    <3>2. bs[n].last = Count
      BY <1>2, <3>1 DEF Covering
    <3>3. start(n + 1) = Count + 1
      BY <3>1
    <3> HIDE DEF start
    <3> QED
      BY <2>2, <2>3, <3>2, <3>3
  <2>4. CASE j # n
    <3>1. j \in 1 .. n - 1 /\ ~(j + 1 > n)
      <4> HIDE DEF n
      <4> QED
        BY <1>2, <2>4
    <3>2. bs[j + 1].first = bs[j].last + 1
      BY <1>2, <3>1 DEF Covering
    <3>3. start(j + 1) = bs[j + 1].first
      BY <3>1
    <3> HIDE DEF start
    <3> QED
      BY <2>2, <3>2, <3>3
  <2> QED
    BY <2>2, <2>3, <2>4
<1>5. \A i \in 1 .. Count + 1 : f[i] = IF i > Count THEN <<>> ELSE <<NextBatch(i)>> \o f[NextBatch(i).last + 1]
  BY <1>1 DEF OneFrom
<1> DEFINE N == {m \in Nat : m <= n => f[start(n + 1 - m)] = SubSeq(bs, n + 1 - m, n)}
<1>6. 0 \in N
  <2>1. n + 1 - 0 = n + 1 /\ n + 1 > n /\ Count + 1 \in 1 .. Count + 1 /\ Count + 1 > Count
    BY <1>2
  <2>2. f[start(n + 1)] = <<>>
    BY <1>5, <2>1
  <2>3. SubSeq(bs, n + 1, n) = <<>>
    BY <1>2
  <2> QED
    BY <2>1, <2>2, <2>3
<1>7. ASSUME NEW m \in N PROVE m + 1 \in N
  <2> DEFINE j == n + 1 - (m + 1)
  <2> SUFFICES ASSUME m + 1 <= n PROVE f[start(j)] = SubSeq(bs, j, n)
    BY <1>7
  <2>1. m \in Nat /\ m <= n /\ j \in 1 .. n /\ n + 1 - m = j + 1
    BY <1>2, <1>7
  <2>2. f[start(j + 1)] = SubSeq(bs, j + 1, n)
    BY <1>7, <2>1
  <2> HIDE DEF j
  <2>3. start(j) \in 1 .. Count /\ NextBatch(start(j)) = bs[j] /\ bs[j].last + 1 = start(j + 1)
    BY <1>4, <2>1
  <2> HIDE DEF start
  <2>4. f[start(j)] = <<bs[j]>> \o SubSeq(bs, j + 1, n)
    <3>1. start(j) \in 1 .. Count + 1 /\ ~(start(j) > Count)
      BY <1>2, <2>3
    <3>2. f[start(j)] = <<NextBatch(start(j))>> \o f[NextBatch(start(j)).last + 1]
      BY <1>5, <3>1
    <3> QED
      BY <2>2, <2>3, <3>2
  <2>5. <<bs[j]>> \o SubSeq(bs, j + 1, n) = SubSeq(bs, j, n)
    BY <1>2, <2>1
  <2> QED
    BY <2>4, <2>5
<1>8. N = Nat
  <2>1. N \subseteq Nat
    OBVIOUS
  <2> HIDE DEF N
  <2> QED
    BY <1>6, <1>7, <2>1, NaturalInduction
<1>9. f[1] = SubSeq(bs, 1, n)
  <2>0. n <= n /\ n + 1 - n = 1
    <3> HIDE DEF n
    <3> QED
      BY <1>2
  <2>1. n \in N
    <3> HIDE DEF N
    <3> QED
      BY <1>2, <1>8
  <2> HIDE DEF start
  <2>2. f[start(1)] = SubSeq(bs, 1, n)
    BY <2>0, <2>1
  <2> QED
    BY <1>3, <2>2
<1>10. SubSeq(bs, 1, n) = bs
  BY <1>2
<1> QED
  BY <1>9, <1>10, OneAtATimeDef DEF f

-----------------------------------------------------------------------------
(* The invariant.                                                          *)

\* It holds at first.
LEMMA PlanningInitially == PlanningInit => PlanningInv
<1> SUFFICES ASSUME PlanningInit PROVE PlanningInv
  OBVIOUS
<1>1. PICK n \in 0 .. MaxPending : questions \in [1 .. n -> Questions]
  BY DEF PlanningInit
<1>2. n \in Nat
  BY PlanningAssumption
<1>3. questions \in Seq(Questions)
  BY <1>1, <1>2
<1>4. OfAll(order)
  BY DEF PlanningInit, PathOrder, OfAll, ToSet
<1>5. stage = "measuring"
  BY DEF PlanningInit
<1> QED
  BY <1>3, <1>4, <1>5 DEF PlanningInv, Ordered

\* A step that keeps the questions and their order.
LEMMA OrderKept ==
  ASSUME PlanningInv, UNCHANGED <<questions, order>>
  PROVE  /\ Ordered /\ Ordered' /\ Count' = Count /\ Count \in Nat
         /\ \A bs : ClosedSoFar(bs)' = ClosedSoFar(bs)
         /\ \A bs, start : ClosedFrom(bs, start)' = ClosedFrom(bs, start)
         /\ (\A p \in 1 .. Count : ExactlyFits(Single(p)))' = (\A p \in 1 .. Count : ExactlyFits(Single(p)))
  BY SameMeasures, SameClosing, CountType DEF PlanningInv

\* What is closed after a step is known by its batches.
LEMMA ClosingAfter ==
  ASSUME UNCHANGED <<questions, order>>, NEW bs, NEW ps, batches' = bs, pending' = ps
  PROVE  /\ After(batches)' = After(bs) /\ ClosedSoFar(batches)' = ClosedSoFar(bs)
         /\ ClosedFrom(pending, After(batches))' = ClosedFrom(ps, After(bs))
<1>1. After(batches)' = After(bs)
  BY DEF After
<1>2. Covering(batches, 1, After(batches) - 1)' = Covering(bs, 1, After(bs) - 1)
  BY <1>1, SameMeasures DEF Covering
<1>3. (\A k \in DOMAIN batches : batches[k] = NextBatch(batches[k].first))'
        = \A k \in DOMAIN bs : bs[k] = NextBatch(bs[k].first)
  BY SameMeasures
<1>4. ClosedSoFar(batches)' = ClosedSoFar(bs)
  BY <1>2, <1>3 DEF ClosedSoFar
<1>5. Covering(pending, After(batches), Count)' = Covering(ps, After(bs), Count)
  BY <1>1, SameMeasures DEF Covering
<1>6. (\A k \in DOMAIN pending : ClosedBatch(pending[k]))' = \A k \in DOMAIN ps : ClosedBatch(ps[k])
  BY SameMeasures DEF ClosedBatch
<1> QED
  BY <1>1, <1>4, <1>5, <1>6 DEF ClosedFrom

\* The search or the command ends: nothing is said of its batches.
LEMMA RefusedKeeps ==
  ASSUME PlanningInv, NEW code, Refused(code)
  PROVE  PlanningInv'
<1>1. Ordered' /\ stage' = "refused"
  BY OrderKept DEF Refused
<1> QED
  BY <1>1 DEF PlanningInv

\* A step that changes neither the batches nor what is left to close.
LEMMA PlanKept ==
  ASSUME PlanningInv, UNCHANGED <<questions, order, batches>>, stage' \in {"planning", "ready"},
         stage \in {"closing", "planning", "ready"}, After(batches) = Count + 1
  PROVE  PlanningInv'
<1>1. ClosedSoFar(batches)' /\ (\A p \in 1 .. Count : ExactlyFits(Single(p)))'
  <2>1. ClosedSoFar(batches) /\ (\A p \in 1 .. Count : ExactlyFits(Single(p)))
    BY DEF PlanningInv
  <2>2. ClosedSoFar(batches)' = ClosedSoFar(batches)
    <3>1. batches' = batches /\ UNCHANGED <<questions, order>>
      OBVIOUS
    <3>2. Covering(batches, 1, After(batches) - 1)' = Covering(batches, 1, After(batches) - 1)
      BY <3>1, SameMeasures DEF Covering, After
    <3> QED
      BY <3>1, <3>2, SameMeasures DEF ClosedSoFar
  <2> QED
    BY <2>1, <2>2, OrderKept
<1>2. After(batches)' = Count' + 1
  BY OrderKept DEF After
<1> QED
  BY <1>1, <1>2, OrderKept DEF PlanningInv

\* Closing starts from nothing.
LEMMA MeasureSinglesKeeps == ASSUME PlanningInv, MeasureSingles PROVE PlanningInv'
<1> DEFINE singles == [p \in 1 .. Count |-> Single(p)]
<1>1. CASE FALSE \notin ToSet(Measures(singles))
  <2>1. /\ pending' = CloseFrom(1, 1) /\ stage' = "closing" /\ batches' = <<>> /\ UNCHANGED <<questions, order>>
    BY <1>1 DEF MeasureSingles
  <2>2. Ordered /\ Ordered' /\ Count \in Nat /\ Count' = Count
    BY <2>1, OrderKept
  <2>3. \A p \in 1 .. Count : ExactlyFits(Single(p))
    <3>1. ASSUME NEW p \in 1 .. Count, ~ExactlyFits(Single(p)) PROVE FALSE
      <4>1. DOMAIN singles = 1 .. Count /\ singles[p] = Single(p)
        OBVIOUS
      <4>2. DOMAIN Measures(singles) = 1 .. Count /\ Measures(singles)[p] = ExactlyFits(Single(p))
        BY <4>1 DEF Measures
      <4>3. Measures(singles)[p] = FALSE
        <5>1. ExactlyFits(Single(p)) \in BOOLEAN
          BY DEF ExactlyFits
        <5> QED
          BY <3>1, <4>2, <5>1
      <4> HIDE DEF singles
      <4> QED
        BY <1>1, <4>2, <4>3 DEF ToSet
    <3> QED
      BY <3>1
  <2>4. ClosedFrom(CloseFrom(1, 1), 1)
    <3> DEFINE one == 1
    <3>1. one \in 1 .. Count + 1 /\ one \in one .. Count + 1
      BY <2>2
    <3> HIDE DEF one
    <3>2. ClosedFrom(CloseFrom(one, one), one)
      BY <2>2, <3>1, CloseFromCovers
    <3> QED
      BY <3>2 DEF one
  <2>5. After(<<>>) = 1 /\ ClosedSoFar(<<>>)
    BY DEF After, ClosedSoFar, Covering
  <2>6. ClosedSoFar(batches)' /\ ClosedFrom(pending, After(batches))'
    <3> DEFINE ps == CloseFrom(1, 1)
    <3> HIDE DEF ps
    <3>1. pending' = ps /\ batches' = <<>> /\ ClosedFrom(ps, After(<<>>))
      BY <2>1, <2>4, <2>5 DEF ps
    <3> QED
      BY <2>1, <2>5, <3>1, ClosingAfter
  <2>7. (\A p \in 1 .. Count : ExactlyFits(Single(p)))'
    BY <2>1, <2>3, OrderKept
  <2> QED
    BY <2>1, <2>2, <2>6, <2>7 DEF PlanningInv
<1>2. CASE ~(FALSE \notin ToSet(Measures(singles)))
  <2>1. Refused("INVALID_REQUEST")
    BY <1>2 DEF MeasureSingles
  <2> QED
    BY <2>1, RefusedKeeps
<1> QED
  BY <1>1, <1>2

\* The measures are taken, all or as far as the first that does not fit.
LEMMA TakeMeasuresKeeps == ASSUME PlanningInv, TakeMeasures PROVE PlanningInv'
<1> DEFINE bad == {k \in DOMAIN pending : ~Accepted(pending[k], Measures(pending)[k])}
           m == Min(bad)
<1>1. UNCHANGED <<questions, order, stage>> /\ stage = "closing"
  BY DEF TakeMeasures
<1>2. /\ Ordered /\ ClosedSoFar(batches) /\ ClosedFrom(pending, After(batches))
      /\ \A p \in 1 .. Count : ExactlyFits(Single(p))
  BY <1>1 DEF PlanningInv
<1>3. pending \in Seq(Spans) /\ DOMAIN pending \subseteq Nat /\ bad \subseteq Nat
  <2>1. pending \in Seq(Spans)
    BY <1>2 DEF ClosedFrom, Covering
  <2> QED
    BY <2>1
<1>4. \A k \in DOMAIN pending : k \in bad <=> ~Accepted(pending[k], ExactlyFits(pending[k]))
  BY DEF Measures
<1>5. Ordered' /\ (\A p \in 1 .. Count : ExactlyFits(Single(p)))' /\ Count' = Count /\ Count \in Nat
  BY <1>1, <1>2, OrderKept
<1>6. CASE bad = {}
  <2>1. batches' = batches \o pending /\ pending' = <<>>
    BY <1>6 DEF TakeMeasures
  <2>2. ClosedSoFar(batches \o pending) /\ After(batches \o pending) = Count + 1
    BY <1>2, <1>4, <1>6, TakeAll
  <2>3. ClosedFrom(<<>>, After(batches \o pending))
    <3>1. Covering(<<>>, Count + 1, Count)
      BY <1>5 DEF Covering
    <3> QED
      BY <2>2, <3>1 DEF ClosedFrom
  <2>4. ClosedSoFar(batches)' /\ ClosedFrom(pending, After(batches))'
    <3> DEFINE bs == batches \o pending
    <3> HIDE DEF bs
    <3>1. batches' = bs /\ pending' = <<>> /\ ClosedSoFar(bs) /\ ClosedFrom(<<>>, After(bs))
      BY <2>1, <2>2, <2>3 DEF bs
    <3> QED
      BY <1>1, <3>1, ClosingAfter
  <2> QED
    BY <1>1, <1>5, <2>4 DEF PlanningInv
<1>7. CASE bad # {}
  <2> DEFINE bs == Append(batches \o SubSeq(pending, 1, m - 1), Shed(pending[m]))
             ps == Reclosed(pending[m])
  <2>1. batches' = bs /\ pending' = ps
    BY <1>7 DEF TakeMeasures
  <2>2. m \in bad /\ \A k \in bad : m <= k
    <3> HIDE DEF bad
    <3> QED
      BY <1>3, <1>7, MinIs
  <2> HIDE DEF m
  <2>3. /\ m \in DOMAIN pending /\ ~Accepted(pending[m], ExactlyFits(pending[m]))
        /\ \A j \in DOMAIN pending : j < m => Accepted(pending[j], ExactlyFits(pending[j]))
    <3>1. ASSUME NEW j \in DOMAIN pending, j < m PROVE j \notin bad
      <4>1. j \in Nat /\ m \in Nat
        BY <1>3, <2>2
      <4> HIDE DEF bad
      <4> QED
        BY <2>2, <3>1, <4>1
    <3> QED
      BY <1>4, <2>2, <3>1
  <2>4. ClosedSoFar(bs) /\ ClosedFrom(ps, After(bs))
    <3> HIDE DEF bad
    <3> QED
      BY <1>2, <2>3, TakeSome
  <2> HIDE DEF bs, ps, bad
  <2>5. ClosedSoFar(batches)' /\ ClosedFrom(pending, After(batches))'
    BY <1>1, <2>1, <2>4, ClosingAfter
  <2> QED
    BY <1>1, <1>5, <2>5 DEF PlanningInv
<1> QED
  BY <1>6, <1>7

\* Nothing is left to close: the batches take all.
LEMMA ClosedKeeps == ASSUME PlanningInv, Closed PROVE PlanningInv'
<1>1. /\ stage = "closing" /\ pending = <<>> /\ stage' = "planning" /\ UNCHANGED <<questions, order, batches>>
  BY DEF Closed
<1>2. Ordered /\ ClosedSoFar(batches) /\ Covering(<<>>, After(batches), Count)
  BY <1>1 DEF PlanningInv, ClosedFrom
<1>3. After(batches) = Count + 1
  <2>1. Count \in Nat /\ Count = After(batches) - 1
    BY <1>2, CountType DEF Covering
  <2>2. After(batches) \in Int
    <3>1. batches \in Seq(Spans)
      BY <1>2 DEF ClosedSoFar, Covering
    <3>2. batches # <<>> => batches[Len(batches)] \in Spans
      BY <3>1
    <3> QED
      BY <2>1, <3>2 DEF After, Spans
  <2> QED
    BY <2>1, <2>2
<1> QED
  BY <1>1, <1>3, PlanKept

\* A new order is an order of all the fragments.
LEMMA PrioritizeKeeps == ASSUME PlanningInv, Prioritize PROVE PlanningInv'
<1>1. Count \in Nat /\ questions \in Seq(Questions)
  BY CountType DEF PlanningInv, Ordered
<1>2. PICK scores \in [1 .. Count -> 1 .. Count], reserve \in Reserves :
        order' = PrioritizeFragments(scores, reserve)
  BY DEF Prioritize
<1>3. OfAll(PrioritizeFragments(scores, reserve))
  BY <1>1, PrioritizedIsOrder
<1>4. questions' = questions /\ stage' = "measuring" /\ Count' = Count
  BY DEF Prioritize, Count
<1>5. OfAll(order)'
  BY <1>2, <1>3, <1>4 DEF OfAll
<1>6. Ordered'
  BY <1>1, <1>4, <1>5 DEF Ordered
<1> QED
  BY <1>4, <1>6 DEF PlanningInv

\* Every step keeps it.
LEMMA PlanningStep == PlanningInv /\ [PlanningNext]_planningVars => PlanningInv'
<1> SUFFICES ASSUME PlanningInv, [PlanningNext]_planningVars PROVE PlanningInv'
  OBVIOUS
<1>1. CASE MeasureSingles
  BY <1>1, MeasureSinglesKeeps
<1>2. CASE MeasureAborts
  BY <1>2, RefusedKeeps DEF MeasureAborts
<1>3. CASE TakeMeasures
  BY <1>3, TakeMeasuresKeeps
<1>4. CASE Closed
  BY <1>4, ClosedKeeps
<1>5. CASE Unpriced
  BY <1>5, RefusedKeeps DEF Unpriced
<1>6. CASE PlanScan
  <2>1. stage = "planning" /\ stage' = "ready" /\ UNCHANGED <<questions, order, batches>>
    BY <1>6 DEF PlanScan
  <2>2. After(batches) = Count + 1
    BY <2>1 DEF PlanningInv
  <2> QED
    BY <2>1, <2>2, PlanKept
<1>7. CASE Prioritize
  BY <1>7, PrioritizeKeeps
<1>8. CASE InspectScope
  <2>1. stage' = "inspected" /\ UNCHANGED <<questions, order>>
    BY <1>8 DEF InspectScope
  <2>2. Ordered'
    BY <2>1, OrderKept
  <2> QED
    BY <2>1, <2>2 DEF PlanningInv
<1>9. CASE UNCHANGED planningVars
  <2>1. UNCHANGED <<questions, order, stage, batches, pending>>
    BY <1>9 DEF planningVars
  <2>2. ClosedSoFar(batches)' = ClosedSoFar(batches) /\ After(batches)' = After(batches)
        /\ ClosedFrom(pending, After(batches))' = ClosedFrom(pending, After(batches))
    BY <2>1, ClosingAfter
  <2> QED
    BY <2>1, <2>2, OrderKept DEF PlanningInv
<1> QED
  BY <1>1, <1>2, <1>3, <1>4, <1>5, <1>6, <1>7, <1>8, <1>9 DEF PlanningNext

-----------------------------------------------------------------------------
(* The theorems.                                                           *)

\* The final batches are closed as closing one at a time would, and what is closed on
\* the estimate takes what is left, at every step of batchingSteps.
THEOREM PlanningInvariant == PlanningSpec => []PlanningInv
<1>1. PlanningInit => PlanningInv
  BY PlanningInitially
<1>2. PlanningInv /\ [PlanningNext]_planningVars => PlanningInv'
  BY PlanningStep
<1> QED
  BY <1>1, <1>2, PTL DEF PlanningSpec

\* What it says of a plan.
LEMMA InvGivesClosedInTurn == PlanningInv => ClosedInTurn
<1> SUFFICES ASSUME PlanningInv, stage \in {"planning", "ready"}
             PROVE  /\ batches = OneAtATime /\ ToSet(order) = 1 .. Count
                    /\ \A k \in DOMAIN batches : ExactlyFits(batches[k])
  BY DEF ClosedInTurn
<1>1. /\ Ordered /\ ClosedSoFar(batches) /\ After(batches) = Count + 1
      /\ \A p \in 1 .. Count : ExactlyFits(Single(p))
  BY DEF PlanningInv
<1>2. batches = OneAtATime
  BY <1>1, OneAtATimeIs
<1>3. ToSet(order) = 1 .. Count
  BY <1>1 DEF Ordered, OfAll
<1>4. ASSUME NEW k \in DOMAIN batches PROVE ExactlyFits(batches[k])
  <2>1. batches[k] \in Spans /\ batches[k] = NextBatch(batches[k].first)
    BY <1>1 DEF ClosedSoFar, Covering
  <2> DEFINE i == batches[k].first
  <2>2. i \in 1 .. Count
    BY <2>1 DEF Spans
  <2> HIDE DEF i
  <2>3. batches[k] = NextBatch(i)
    BY <2>1 DEF i
  <2>4. NextBatch(i) = Interval(i, NextBatch(i).last) /\ (NextBatch(i).last = i \/ ExactlyFits(NextBatch(i)))
    BY <1>1, <2>2, NextBatchIs
  <2>5. CASE NextBatch(i).last = i
    <3>1. NextBatch(i) = Single(i)
      BY <2>4, <2>5 DEF Single
    <3> QED
      BY <1>1, <2>2, <2>3, <3>1
  <2>6. CASE NextBatch(i).last # i
    BY <2>3, <2>4, <2>6
  <2> QED
    BY <2>5, <2>6
<1> QED
  BY <1>2, <1>3, <1>4

\* However the measures come in, the batches are those of "closing them one at a time"
\* (planning.ts:229), of an order that has every fragment, and each fits the limits.
THEOREM BatchesAreInTurn == PlanningSpec => []ClosedInTurn
<1>1. PlanningInv => ClosedInTurn
  BY InvGivesClosedInTurn
<1> QED
  BY <1>1, PlanningInvariant, PTL

-----------------------------------------------------------------------------
(* What is sent.                                                           *)

\* A sequence as far as k, and one more.
LEMMA PartIs ==
  ASSUME NEW S, NEW s \in Seq(S), NEW k \in 0 .. Len(s)
  PROVE  /\ SubSeq(s, 1, k) \in Seq(S) /\ Len(SubSeq(s, 1, k)) = k
         /\ \A j \in 1 .. k : SubSeq(s, 1, k)[j] = s[j]
<1>1. \A j \in 1 .. k : j \in 1 .. Len(s)
  OBVIOUS
<1> QED
  BY <1>1

\* A part, and the element after it.
LEMMA PartMore ==
  ASSUME NEW S, NEW s \in Seq(S), NEW k \in 1 .. Len(s)
  PROVE  Append(SubSeq(s, 1, k - 1), s[k]) = SubSeq(s, 1, k)
<1> DEFINE p == SubSeq(s, 1, k - 1)
           q == SubSeq(s, 1, k)
           a == Append(p, s[k])
<1>1. k - 1 \in 0 .. Len(s) /\ k \in 0 .. Len(s) /\ s[k] \in S /\ k - 1 + 1 = k
  OBVIOUS
<1>2. /\ p \in Seq(S) /\ Len(p) = k - 1 /\ \A j \in 1 .. k - 1 : p[j] = s[j]
      /\ q \in Seq(S) /\ Len(q) = k /\ \A j \in 1 .. k : q[j] = s[j]
  BY <1>1, PartIs
<1> HIDE DEF p, q
<1>3. a \in Seq(S) /\ Len(a) = k /\ a[k] = s[k] /\ \A j \in 1 .. k - 1 : a[j] = s[j]
  <2>1. a \in Seq(S) /\ Len(a) = Len(p) + 1 /\ a[Len(p) + 1] = s[k] /\ \A j \in 1 .. Len(p) : a[j] = p[j]
    BY <1>1, <1>2
  <2> HIDE DEF a
  <2> QED
    BY <1>1, <1>2, <2>1
<1> HIDE DEF a
<1>4. \A j \in 1 .. k : a[j] = q[j]
  <2>1. ASSUME NEW j \in 1 .. k PROVE a[j] = q[j]
    <3>1. j = k \/ j \in 1 .. k - 1
      OBVIOUS
    <3> QED
      BY <1>2, <1>3, <3>1
  <2> QED
    BY <2>1
<1>5. a = q
  BY <1>2, <1>3, <1>4, SeqEqual
<1> QED
  BY <1>5 DEF a, p, q

\* The head of a batch is a batch.
LEMMA HeadIs ==
  ASSUME Count \in Nat, NEW b \in Spans, NEW n \in 1 .. Size(b)
  PROVE  HeadOf(b, n) \in Spans
<1>1. /\ b.first \in 1 .. Count /\ b.last \in 1 .. Count /\ b.first <= b.last /\ n \in 1 .. b.last - b.first + 1
  BY DEF Spans, Size
<1> QED
  BY <1>1 DEF HeadOf, Interval, Spans

Ranges == [low : Int, high : Int]

\* The bisection of a batch: what is known after each step.
Bisected(b, f) ==
  f = [n \in 0 .. Size(b) |-> IF n = 0 THEN [low |-> 0, high |-> Size(b) - 1] ELSE Halved(b, f[n - 1])]

\* The answer is between low, which fits, and high, above which nothing does.
Between(b, range, n) ==
  /\ range \in Ranges /\ 0 <= range.low /\ range.low <= range.high /\ range.high <= Size(b) - 1
  /\ range.low # 0 => Fits(Admitted, HeadOf(b, range.low))
  /\ range.high # Size(b) - 1 => ~Fits(Admitted, HeadOf(b, range.high + 1))
  /\ range.low = range.high \/ range.high - range.low <= Size(b) - 1 - n

\* A step of the bisection keeps a range.
LEMMA HalvedTyped ==
  ASSUME NEW b, NEW range \in Ranges
  PROVE  Halved(b, range) \in Ranges
<1>1. range.low \in Int /\ range.high \in Int
  BY DEF Ranges
<1>2. (range.low + range.high + 1) \div 2 \in Int
  BY <1>1
<1> DEFINE m == (range.low + range.high + 1) \div 2
<1> HIDE DEF m
<1>3. m \in Int /\ m - 1 \in Int
  BY <1>2 DEF m
<1>4. [range EXCEPT !.low = m] \in Ranges /\ [range EXCEPT !.high = m - 1] \in Ranges
  BY <1>3 DEF Ranges
<1>5. Halved(b, range) = IF range.low >= range.high THEN range
                         ELSE IF Fits(Admitted, HeadOf(b, m)) THEN [range EXCEPT !.low = m]
                         ELSE [range EXCEPT !.high = m - 1]
  BY DEF Halved, m
<1> QED
  BY <1>4, <1>5

\* And what is known of it.
LEMMA HalvedKeeps ==
  ASSUME NEW b, Size(b) \in Nat, NEW n \in Nat, NEW range, Between(b, range, n)
  PROVE  Between(b, Halved(b, range), n + 1)
<1> DEFINE m == (range.low + range.high + 1) \div 2
           next == Halved(b, range)
<1>1. /\ range.low \in Int /\ range.high \in Int /\ range \in Ranges
      /\ 0 <= range.low /\ range.low <= range.high /\ range.high <= Size(b) - 1
  BY DEF Between, Ranges
<1>2. next \in Ranges
  BY <1>1, HalvedTyped
<1>3. CASE range.low = range.high
  <2>1. next = range
    BY <1>1, <1>3 DEF Halved
  <2> QED
    BY <1>3, <2>1 DEF Between
<1>4. CASE range.low # range.high
  <2>1. m \in Int /\ range.low < m /\ m <= range.high
    BY <1>1, <1>4
  <2> HIDE DEF m
  <2>2. next = IF Fits(Admitted, HeadOf(b, m)) THEN [range EXCEPT !.low = m] ELSE [range EXCEPT !.high = m - 1]
    BY <1>1, <1>4 DEF Halved, m
  <2>3. range.high - range.low <= Size(b) - 1 - n
    BY <1>4 DEF Between
  <2>4. CASE Fits(Admitted, HeadOf(b, m))
    <3>1. next.low = m /\ next.high = range.high
      BY <1>1, <2>2, <2>4 DEF Ranges
    <3> HIDE DEF next
    <3>2. range.high - m <= Size(b) - 1 - (n + 1)
      BY <1>1, <2>1, <2>3
    <3>3. range.high # Size(b) - 1 => ~Fits(Admitted, HeadOf(b, range.high + 1))
      BY DEF Between
    <3>4. Between(b, next, n + 1)
      BY <1>1, <1>2, <2>1, <2>4, <3>1, <3>2, <3>3 DEF Between
    <3> QED
      BY <3>4 DEF next
  <2>5. CASE ~Fits(Admitted, HeadOf(b, m))
    <3>1. next.low = range.low /\ next.high = m - 1
      BY <1>1, <2>2, <2>5 DEF Ranges
    <3> HIDE DEF next
    <3>2. m - 1 - range.low <= Size(b) - 1 - (n + 1) /\ m - 1 + 1 = m /\ range.low <= m - 1 /\ m - 1 <= Size(b) - 1
      BY <1>1, <2>1, <2>3
    <3>3. range.low # 0 => Fits(Admitted, HeadOf(b, range.low))
      BY DEF Between
    <3>4. Between(b, next, n + 1)
      BY <1>1, <1>2, <2>1, <2>5, <3>1, <3>2, <3>3 DEF Between
    <3> QED
      BY <3>4 DEF next
  <2> QED
    BY <2>4, <2>5
<1> QED
  BY <1>3, <1>4

\* There is such a recursion.
LEMMA BisectedExists ==
  ASSUME NEW b, Size(b) \in Nat
  PROVE  \E f : Bisected(b, f)
<1> DEFINE base == [low |-> 0, high |-> Size(b) - 1]
           step == [x \in Ranges \X (0 + 1 .. Size(b)) |-> Halved(b, x[1])]
           zero == 0
           size == Size(b)
<1>1. base \in Ranges /\ zero \in Int /\ size \in Int /\ zero <= size
  BY DEF Ranges
<1>2. step \in StepsOver(Ranges, zero, size)
  <2>1. step \in [Ranges \X (0 + 1 .. Size(b)) -> Ranges]
    BY HalvedTyped
  <2> HIDE DEF step
  <2> QED
    BY <2>1 DEF StepsOver
<1>3. Solutions(Ranges, zero, size, base, step) # {}
  <2> HIDE DEF base, step, zero, size
  <2> QED
    BY <1>1, <1>2, Recursion
<1>4. PICK f \in [0 .. Size(b) -> Ranges] : f[0] = base /\ \A n \in 1 .. Size(b) : f[n] = step[<<f[n - 1], n>>]
  <2> HIDE DEF base, step
  <2> QED
    BY <1>3 DEF Solutions
<1>5. ASSUME NEW n \in 0 .. Size(b) PROVE f[n] = IF n = 0 THEN base ELSE Halved(b, f[n - 1])
  <2>1. CASE n = 0
    BY <1>4, <2>1
  <2>2. CASE n # 0
    <3>1. n \in 1 .. Size(b) /\ n - 1 \in 0 .. Size(b)
      BY <2>2
    <3>2. f[n - 1] \in Ranges
      BY <1>4, <3>1
    <3>3. f[n] = step[<<f[n - 1], n>>]
      <4> HIDE DEF step
      <4> QED
        BY <1>4, <3>1
    <3>4. n \in 0 + 1 .. Size(b)
      BY <3>1
    <3>5. step[<<f[n - 1], n>>] = Halved(b, f[n - 1])
      <4> DEFINE r == f[n - 1]
      <4> HIDE DEF r
      <4>1. r \in Ranges
        BY <3>2 DEF r
      <4>2. step[<<r, n>>] = Halved(b, r)
        BY <3>4, <4>1
      <4> QED
        BY <4>2 DEF r
    <3> HIDE DEF step, base
    <3> QED
      BY <2>2, <3>3, <3>5
  <2> QED
    BY <2>1, <2>2
<1> HIDE DEF step
<1>6. f = [n \in 0 .. Size(b) |-> IF n = 0 THEN base ELSE Halved(b, f[n - 1])]
  <2> HIDE DEF base
  <2> QED
    BY <1>4, <1>5
<1> QED
  BY <1>6 DEF Bisected

\* HeadLength, by the recursion that computes it.
LEMMA HeadLengthDef ==
  ASSUME NEW b
  PROVE  HeadLength(b) = LET f == CHOOSE f : Bisected(b, f) IN f[Size(b)].low
BY DEF HeadLength, Bisected

\* The bisection finds a head that fits where one question more does not, though
\* whether a head fits need not be monotone in its length.
LEMMA HeadLengthIs ==
  ASSUME NEW b, Size(b) \in Nat, Size(b) >= 1
  PROVE  /\ HeadLength(b) \in 0 .. Size(b) - 1
         /\ HeadLength(b) # 0 => Fits(Admitted, HeadOf(b, HeadLength(b)))
         /\ HeadLength(b) + 1 < Size(b) => ~Fits(Admitted, HeadOf(b, HeadLength(b) + 1))
<1> DEFINE f == CHOOSE f : Bisected(b, f)
<1>1. Bisected(b, f)
  BY BisectedExists
<1> HIDE DEF f
<1>2. /\ f[0] = [low |-> 0, high |-> Size(b) - 1]
      /\ \A n \in 0 .. Size(b) : n # 0 => f[n] = Halved(b, f[n - 1])
  BY <1>1 DEF Bisected
<1> DEFINE N == {n \in Nat : n <= Size(b) => Between(b, f[n], n)}
<1>3. 0 \in N
  <2>1. f[0] \in Ranges /\ f[0].low = 0 /\ f[0].high = Size(b) - 1
    BY <1>2 DEF Ranges
  <2>2. Between(b, f[0], 0)
    BY <2>1 DEF Between
  <2> QED
    BY <2>2
<1>4. ASSUME NEW n \in N PROVE n + 1 \in N
  <2> SUFFICES ASSUME n + 1 <= Size(b) PROVE Between(b, f[n + 1], n + 1)
    BY <1>4
  <2>1. n \in Nat /\ n <= Size(b) /\ n + 1 \in 0 .. Size(b) /\ n + 1 # 0 /\ n + 1 - 1 = n
    BY <1>4
  <2>2. Between(b, f[n], n)
    BY <1>4, <2>1
  <2>3. f[n + 1] = Halved(b, f[n])
    BY <1>2, <2>1
  <2> QED
    BY <2>1, <2>2, <2>3, HalvedKeeps
<1>5. N = Nat
  <2>1. N \subseteq Nat
    OBVIOUS
  <2> HIDE DEF N
  <2> QED
    BY <1>3, <1>4, <2>1, NaturalInduction
<1> DEFINE last == f[Size(b)]
<1>6. Between(b, last, Size(b))
  <2>1. Size(b) \in N
    BY <1>5
  <2> QED
    BY <2>1
<1> HIDE DEF last
<1>7. last.low \in Int /\ last.low = last.high /\ last.low \in 0 .. Size(b) - 1
  BY <1>6 DEF Between, Ranges
<1>8. HeadLength(b) = last.low
  BY HeadLengthDef DEF f, last
<1>9. last.low + 1 < Size(b) => last.high # Size(b) - 1
  BY <1>7
<1> QED
  BY <1>6, <1>7, <1>8, <1>9 DEF Between

\* How far the batches are admitted.
LEMMA AdmittedIs ==
  ASSUME batches \in Seq(Spans)
  PROVE  \E k \in 0 .. Len(batches) :
           /\ Admitted = SubSeq(batches, 1, k)
           /\ k # 0 => Fits(SubSeq(batches, 1, k - 1), batches[k])
           /\ k < Len(batches) => ~Fits(SubSeq(batches, 1, k), batches[k + 1])
<1> DEFINE T == {k \in 0 .. Len(batches) : \A j \in 1 .. k : Fits(SubSeq(batches, 1, j - 1), batches[j])}
           n == Len(batches)
           k == Max(T)
<1>1. n \in Int /\ n \in Nat
  OBVIOUS
<1>2. T # {} /\ \A x \in T : x \in Int /\ x <= n
  <2>1. 0 \in T
    BY <1>1
  <2> QED
    BY <1>1, <2>1
<1>3. k \in T /\ \A x \in T : x <= k
  <2> HIDE DEF T, n
  <2> QED
    BY <1>1, <1>2, MaxIs
<1>4. Admitted = SubSeq(batches, 1, k)
  BY DEF Admitted
<1> HIDE DEF k
<1>5. k \in 0 .. Len(batches) /\ \A j \in 1 .. k : Fits(SubSeq(batches, 1, j - 1), batches[j])
  BY <1>3
<1>6. k # 0 => Fits(SubSeq(batches, 1, k - 1), batches[k])
  BY <1>1, <1>5
<1>7. ASSUME k < Len(batches), Fits(SubSeq(batches, 1, k), batches[k + 1]) PROVE FALSE
  <2>1. k + 1 \in 0 .. Len(batches) /\ k + 1 - 1 = k /\ ~(k + 1 <= k)
    BY <1>1, <1>5, <1>7
  <2>2. \A j \in 1 .. k + 1 : Fits(SubSeq(batches, 1, j - 1), batches[j])
    <3>1. ASSUME NEW j \in 1 .. k + 1 PROVE Fits(SubSeq(batches, 1, j - 1), batches[j])
      <4>1. j \in 1 .. k \/ j = k + 1
        BY <1>5
      <4> QED
        BY <1>5, <1>7, <2>1, <4>1
    <3> QED
      BY <3>1
  <2>3. k + 1 \in T
    BY <2>1, <2>2
  <2> QED
    BY <1>3, <2>1, <2>3
<1> QED
  BY <1>4, <1>5, <1>6, <1>7

\* IsLongest, of any batches.
LongestOf(bs) ==
  \E k \in 0 .. Len(batches) : \E h \in 0 .. (IF k < Len(batches) THEN Size(batches[k + 1]) - 1 ELSE 0) :
    /\ bs = Prefix(k, h)
    /\ bs # <<>> => WithinCaps(Total(bs))
    /\ h > 0 => AllowPartial
    /\ k < Len(batches) =>
         /\ ~WithinCaps(Total(Prefix(k + 1, 0)))
         /\ AllowPartial /\ h + 1 < Size(batches[k + 1]) => ~WithinCaps(Total(Prefix(k, h + 1)))

\* What planScan sends is the longest leading part that fits.
LEMMA SentIsLongest ==
  ASSUME Count \in Nat, batches \in Seq(Spans)
  PROVE  LongestOf(Admitted \o HeadSent) /\ Admitted \o HeadSent \in Seq(Spans)
<1> DEFINE n == Len(batches)
           sent == Admitted \o HeadSent
<1>1. PICK k \in 0 .. n :
        /\ Admitted = SubSeq(batches, 1, k)
        /\ k # 0 => Fits(SubSeq(batches, 1, k - 1), batches[k])
        /\ k < n => ~Fits(SubSeq(batches, 1, k), batches[k + 1])
  BY AdmittedIs
<1> DEFINE part == SubSeq(batches, 1, k)
           b == batches[k + 1]
           h == IF k = n \/ ~AllowPartial THEN 0 ELSE HeadLength(b)
<1>2. part \in Seq(Spans) /\ Len(part) = k /\ n \in Nat /\ k \in Nat /\ k <= n
  BY PartIs
<1>3. k < n => b \in Spans /\ Size(b) \in Nat /\ Size(b) >= 1 /\ k + 1 \in 1 .. n /\ k # n
  <2>1. ASSUME k < n PROVE b \in Spans /\ k + 1 \in 1 .. n
    BY <1>2, <2>1
  <2>2. b \in Spans => Size(b) \in Nat /\ Size(b) >= 1
    BY DEF Spans, Size
  <2> HIDE DEF b, n
  <2> QED
    BY <2>1, <2>2
<1>4. h # 0 => /\ k < n /\ AllowPartial /\ h = HeadLength(b) /\ h \in 1 .. Size(b) - 1 /\ h \in 1 .. Size(b)
               /\ Fits(Admitted, HeadOf(b, h)) /\ HeadOf(b, h) \in Spans
  <2> SUFFICES ASSUME h # 0
               PROVE  /\ k < n /\ AllowPartial /\ h = HeadLength(b) /\ h \in 1 .. Size(b) - 1 /\ h \in 1 .. Size(b)
                      /\ Fits(Admitted, HeadOf(b, h)) /\ HeadOf(b, h) \in Spans
    OBVIOUS
  <2>1. k < n /\ AllowPartial /\ h = HeadLength(b)
    BY <1>2
  <2> HIDE DEF h, b, n
  <2>2. h \in 0 .. Size(b) - 1 /\ Fits(Admitted, HeadOf(b, h))
    BY <1>3, <2>1, HeadLengthIs
  <2>3. h \in 1 .. Size(b) - 1 /\ h \in 1 .. Size(b)
    BY <1>3, <2>1, <2>2
  <2>4. HeadOf(b, h) \in Spans
    BY <1>3, <2>1, <2>3, HeadIs
  <2> QED
    BY <2>1, <2>2, <2>3, <2>4
<1>5. h \in 0 .. (IF k < n THEN Size(b) - 1 ELSE 0)
  <2>1. CASE h = 0
    <3> HIDE DEF h, b, n
    <3> QED
      BY <2>1, <1>3
  <2>2. CASE h # 0
    <3> HIDE DEF h, b, n
    <3> QED
      BY <2>2, <1>3, <1>4
  <2> QED
    BY <2>1, <2>2
<1>6. Len(Admitted) = k
  BY <1>1, <1>2
<1>7. HeadSent = IF h = 0 THEN <<>> ELSE <<HeadOf(b, h)>>
  BY <1>6 DEF HeadSent
<1>8. sent = Prefix(k, h)
  BY <1>1, <1>7 DEF Prefix
<1>9. h = 0 => sent = part
  BY <1>1, <1>2, <1>7
<1>10. h # 0 => sent = Append(Admitted, HeadOf(b, h)) /\ sent \in Seq(Spans)
  <2> SUFFICES ASSUME h # 0 PROVE sent = Append(Admitted, HeadOf(b, h)) /\ sent \in Seq(Spans)
    OBVIOUS
  <2>1. sent = Admitted \o <<HeadOf(b, h)>> /\ HeadOf(b, h) \in Spans /\ Admitted \in Seq(Spans)
    BY <1>1, <1>2, <1>4, <1>7
  <2> DEFINE e == HeadOf(b, h)
  <2> HIDE DEF e
  <2>2. Admitted \o <<e>> = Append(Admitted, e) /\ Append(Admitted, e) \in Seq(Spans)
    BY <2>1 DEF e
  <2> QED
    BY <2>1, <2>2 DEF e
<1>11. sent # <<>> => WithinCaps(Total(sent))
  <2>1. CASE h # 0
    BY <1>4, <1>10, <2>1 DEF Fits
  <2>2. CASE h = 0
    <3> SUFFICES ASSUME sent # <<>> PROVE WithinCaps(Total(sent))
      OBVIOUS
    <3>1. sent = part
      BY <1>9, <2>2
    <3>2. k \in 1 .. n
      <4>1. k = 0 => part = <<>>
        BY <1>2
      <4> HIDE DEF part, sent, n
      <4> QED
        BY <1>2, <3>1, <4>1
    <3>3. Append(SubSeq(batches, 1, k - 1), batches[k]) = part
      BY <3>2, PartMore
    <3>4. Fits(SubSeq(batches, 1, k - 1), batches[k])
      BY <1>1, <3>2
    <3> HIDE DEF part, sent
    <3>5. WithinCaps(Total(part))
      BY <3>3, <3>4 DEF Fits
    <3> QED
      BY <3>1, <3>5
  <2> QED
    BY <2>1, <2>2
<1>12. ASSUME k < n PROVE ~WithinCaps(Total(Prefix(k + 1, 0)))
  <2>1. Append(part, b) = SubSeq(batches, 1, k + 1)
    <3> DEFINE j == k + 1
    <3>1. j \in 1 .. n /\ j - 1 = k
      BY <1>2, <1>12
    <3> HIDE DEF j
    <3>2. Append(SubSeq(batches, 1, j - 1), batches[j]) = SubSeq(batches, 1, j)
      BY <3>1, PartMore
    <3> QED
      BY <3>1, <3>2 DEF j
  <2>2. Prefix(k + 1, 0) = SubSeq(batches, 1, k + 1)
    <3>1. SubSeq(batches, 1, k + 1) \in Seq(Spans)
      BY <1>2, <1>12, PartIs
    <3>2. Prefix(k + 1, 0) = SubSeq(batches, 1, k + 1) \o <<>>
      BY DEF Prefix
    <3> QED
      BY <3>1, <3>2
  <2>3. ~Fits(part, b)
    BY <1>1, <1>12
  <2> QED
    BY <2>1, <2>2, <2>3 DEF Fits
<1>13. ASSUME k < n, AllowPartial, h + 1 < Size(b) PROVE ~WithinCaps(Total(Prefix(k, h + 1)))
  <2>1. h = HeadLength(b) /\ b \in Spans /\ Size(b) \in Nat /\ Size(b) >= 1
    BY <1>3, <1>13
  <2> HIDE DEF h, b, n
  <2>2. ~Fits(Admitted, HeadOf(b, h + 1)) /\ h \in 0 .. Size(b) - 1
    BY <1>13, <2>1, HeadLengthIs
  <2>3. h + 1 # 0 /\ h + 1 \in 1 .. Size(b)
    BY <2>1, <2>2
  <2>4. Prefix(k, h + 1) = part \o <<HeadOf(b, h + 1)>>
    BY <2>3 DEF Prefix, b
  <2>5. HeadOf(b, h + 1) \in Spans
    BY <2>1, <2>3, HeadIs
  <2> DEFINE e == HeadOf(b, h + 1)
  <2> HIDE DEF e, part
  <2>6. part \o <<e>> = Append(part, e)
    BY <1>2, <2>5 DEF e
  <2> QED
    BY <1>1, <2>2, <2>4, <2>6 DEF Fits, e, part
<1>14. sent \in Seq(Spans)
  BY <1>2, <1>9, <1>10
<1>15. h > 0 => AllowPartial
  <2>1. h > 0 => h # 0
    OBVIOUS
  <2> QED
    BY <1>4, <2>1
<1>16. LongestOf(sent)
  <2> HIDE DEF sent, h, part
  <2> QED
    BY <1>5, <1>8, <1>11, <1>12, <1>13, <1>15 DEF LongestOf
<1> QED
  BY <1>14, <1>16

-----------------------------------------------------------------------------
(* What the batches need, and what the caps allow.                         *)

\* The measure of a batch is a natural.
LEMMA BatchTyped ==
  ASSUME Ordered, NEW b \in Spans
  PROVE  ExactTokens(b) \in Nat /\ ExactBytes(b) \in Nat
<1> DEFINE f == [p \in Positions(b) |-> At(p).tokens + IF p = b.first THEN 0 ELSE At(p).joined]
           g == [p \in Positions(b) |-> At(p).bytes]
<1>1. Positions(b) = b.first .. b.last /\ b.first \in Int /\ b.last \in Int /\ b.first .. b.last \subseteq 1 .. Count
  BY SpanIs, CountType DEF Positions
<1>2. \A p \in Positions(b) : f[p] \in Nat /\ g[p] \in Nat
  <2>1. ASSUME NEW p \in Positions(b) PROVE f[p] \in Nat /\ g[p] \in Nat
    <3>1. p \in 1 .. Count
      BY <1>1
    <3>2. /\ At(p).tokens \in Nat /\ At(p).bytes \in Nat
          /\ At(p).joined \in Int /\ At(p).tokens + At(p).joined >= 0
      BY <3>1, QuestionAt
    <3>3. At(p).tokens + (IF p = b.first THEN 0 ELSE At(p).joined) \in Nat
      BY <3>2
    <3> QED
      BY <3>2, <3>3
  <2> QED
    BY <2>1
<1>3. IsFiniteSet(Positions(b))
  BY <1>1, FS_Interval
<1>4. SumFunctionOnSet(f, Positions(b)) \in Nat /\ SumFunctionOnSet(g, Positions(b)) \in Nat
  <2> HIDE DEF f, g
  <2> QED
    BY <1>2, <1>3, SumType
<1> QED
  BY <1>4, ConstantsAre DEF ExactTokens, ExactBytes

\* So are the totals of several.
LEMMA TotalTyped ==
  ASSUME Ordered, NEW bs \in Seq(Spans)
  PROVE  Total(bs).requests \in Nat /\ Total(bs).tokens \in Nat /\ Total(bs).bytes \in Nat
<1> DEFINE f == [k \in DOMAIN bs |-> ExactTokens(bs[k])]
           g == [k \in DOMAIN bs |-> ExactBytes(bs[k])]
<1>1. DOMAIN bs = 1 .. Len(bs) /\ Len(bs) \in Nat
  OBVIOUS
<1>2. \A k \in DOMAIN bs : bs[k] \in Spans
  OBVIOUS
<1>3. \A k \in DOMAIN bs : f[k] \in Nat /\ g[k] \in Nat
  BY <1>2, BatchTyped
<1>4. IsFiniteSet(DOMAIN bs) /\ DOMAIN f = DOMAIN bs /\ DOMAIN g = DOMAIN bs
  BY <1>1, FS_Interval
<1>5. SumFunctionOnSet(f, DOMAIN bs) \in Nat /\ SumFunctionOnSet(g, DOMAIN bs) \in Nat
  <2> HIDE DEF f, g
  <2> QED
    BY <1>3, <1>4, SumType
<1>6. SumFunction(f) \in Nat /\ SumFunction(g) \in Nat
  BY <1>4, <1>5 DEF SumFunction
<1> QED
  BY <1>1, <1>6 DEF Total

\* What was asked of the search.
Asked ==
  /\ options.caps \in CapChoices /\ options.price \in Prices /\ options.request \in Requests
  /\ options.prepared \in Preparations
  /\ options.command = "inspect" => options.request = [partial |-> FALSE, budget |-> <<>>]

\* What is assumed of the caps and the budget.
LEMMA LimitsAre ==
  ASSUME Asked
  PROVE  /\ \A cap \in DOMAIN options.caps : options.caps[cap] \in Nat /\ cap \in PlanCaps \cup SourceCaps
         /\ \A cap \in DOMAIN Budget : Budget[cap] \in Nat /\ cap \in PlanCaps \cup SourceCaps
<1>1. \A cap \in DOMAIN options.caps : options.caps[cap] \in Nat /\ cap \in PlanCaps \cup SourceCaps
  BY PlanningAssumption DEF Asked
<1>2. /\ \A limit \in DOMAIN options.request.budget : options.request.budget[limit] \in Nat
      /\ DOMAIN options.request.budget \subseteq BudgetCaps \cup {"time"}
  BY PlanningAssumption DEF Asked
<1>3. DOMAIN Budget = DOMAIN options.request.budget \ {"time"}
  BY DEF Budget, Restrict
<1>4. \A cap \in DOMAIN Budget : Budget[cap] = options.request.budget[cap]
  BY DEF Budget, Restrict
<1>5. BudgetCaps \subseteq PlanCaps
  BY DEF BudgetCaps, PlanCaps
<1> QED
  BY <1>1, <1>2, <1>3, <1>4, <1>5

\* A cap of both is the lower of the two.
LEMMA EnabledAre ==
  ASSUME Asked
  PROVE  /\ DOMAIN EnabledCaps = DOMAIN options.caps \cup DOMAIN Budget
         /\ \A cap \in DOMAIN EnabledCaps : EnabledCaps[cap] \in Nat /\ cap \in PlanCaps \cup SourceCaps
         /\ \A cap \in DOMAIN options.caps : EnabledCaps[cap] <= options.caps[cap]
         /\ \A cap \in DOMAIN Budget : EnabledCaps[cap] <= Budget[cap]
<1> DEFINE of(f, cap) == IF cap \in DOMAIN f THEN {f[cap]} ELSE {}
           both(cap) == of(options.caps, cap) \cup of(Budget, cap)
<1>1. DOMAIN EnabledCaps = DOMAIN options.caps \cup DOMAIN Budget
  BY DEF EnabledCaps
<1>2. \A cap \in DOMAIN EnabledCaps : EnabledCaps[cap] = Min(both(cap))
  BY DEF EnabledCaps
<1>3. ASSUME NEW cap \in DOMAIN EnabledCaps
      PROVE  Min(both(cap)) \in Nat /\ \A x \in both(cap) : Min(both(cap)) <= x
  <2>1. both(cap) \subseteq Nat /\ both(cap) # {}
    BY <1>1, LimitsAre
  <2> HIDE DEF both
  <2> QED
    BY <2>1, MinIs
<1>4. /\ \A cap \in DOMAIN options.caps : options.caps[cap] \in both(cap)
      /\ \A cap \in DOMAIN Budget : Budget[cap] \in both(cap)
  OBVIOUS
<1> HIDE DEF both
<1> QED
  BY <1>1, <1>2, <1>3, <1>4, LimitsAre

\* The cost of tokens that have a price.
LEMMA CostTyped ==
  ASSUME NEW tokens \in Nat, options.price \in Nat
  PROVE  Cost(tokens) \in Nat
<1>1. options.price # None /\ PriceUnit \in Nat \ {0}
  BY PlanningAssumption
<1> DEFINE m == tokens * options.price
           n == m + PriceUnit - 1
<1>2. m \in Nat
  BY SMT
<1> HIDE DEF m
<1>3. n \in Nat
  BY <1>1, <1>2
<1> HIDE DEF n
<1>4. n \div PriceUnit \in Nat
  BY <1>1, <1>3
<1>5. Cost(tokens) = n \div PriceUnit
  BY <1>1 DEF Cost, n, m
<1> QED
  BY <1>4, <1>5

\* What batches need of a cap, but of a cost cap without a price.
LEMMA NeedTyped ==
  ASSUME Asked, Ordered, NEW bs \in Seq(Spans), NEW cap \in PlanCaps \cup SourceCaps,
         options.price = None => cap # "estimated_cost_usd"
  PROVE  Need(cap, Total(bs)) \in Nat
<1>1. /\ options.prepared.hits \in Nat /\ options.prepared.files \in Nat /\ options.prepared.bytes \in Nat
      /\ options.price = None \/ options.price \in Nat
  BY PlanningAssumption DEF Asked
<1>2. Total(bs).requests \in Nat /\ Total(bs).tokens \in Nat /\ Total(bs).bytes \in Nat
  BY TotalTyped
<1>3. cap = "estimated_cost_usd" => Cost(Total(bs).tokens) \in Nat
  BY <1>1, <1>2, CostTyped
<1>4. Count + Hits \in Nat
  BY <1>1, CountType DEF Hits
<1>5. /\ cap \in {"request_attempts", "transmitted_bytes", "estimated_input_tokens", "estimated_cost_usd",
                  "prepared_source_bytes", "candidate_files", "fragments"}
  BY DEF PlanCaps, SourceCaps
<1> DEFINE total == Total(bs)
<1> HIDE DEF total
<1>6. Need(cap, total) \in {total.requests, total.bytes, total.tokens, Cost(total.tokens),
                            options.prepared.bytes, options.prepared.files, Count + Hits}
      /\ (cap # "estimated_cost_usd" => Need(cap, total) \in {total.requests, total.bytes, total.tokens,
                            options.prepared.bytes, options.prepared.files, Count + Hits})
      /\ (cap = "estimated_cost_usd" => Need(cap, total) = Cost(total.tokens))
  BY <1>5 DEF Need
<1> QED
  BY <1>1, <1>2, <1>3, <1>4, <1>6 DEF total

\* What is within the enabled caps is within the operator's and the call's.
LEMMA WithinCapsIsEvery ==
  ASSUME Asked, Ordered, NEW bs \in Seq(Spans), WithinCaps(Total(bs)),
         options.price = None => "estimated_cost_usd" \notin DOMAIN EnabledCaps
  PROVE  WithinEvery(Total(bs))
<1>1. ASSUME NEW cap \in DOMAIN EnabledCaps
      PROVE  Need(cap, Total(bs)) \in Nat /\ EnabledCaps[cap] \in Nat /\ Need(cap, Total(bs)) <= EnabledCaps[cap]
  <2>1. EnabledCaps[cap] \in Nat /\ cap \in PlanCaps \cup SourceCaps
    BY EnabledAre
  <2>2. Need(cap, Total(bs)) \in Nat
    BY <2>1, NeedTyped
  <2>3. ~(Need(cap, Total(bs)) > EnabledCaps[cap])
    BY DEF WithinCaps, Exceeded
  <2> QED
    BY <2>1, <2>2, <2>3
<1>2. ASSUME NEW cap \in DOMAIN options.caps PROVE Need(cap, Total(bs)) <= options.caps[cap]
  <2>1. /\ cap \in DOMAIN EnabledCaps /\ EnabledCaps[cap] <= options.caps[cap] /\ options.caps[cap] \in Nat
    BY EnabledAre, LimitsAre
  <2> QED
    BY <1>1, <2>1
<1>3. ASSUME NEW cap \in DOMAIN Budget PROVE Need(cap, Total(bs)) <= Budget[cap]
  <2>1. /\ cap \in DOMAIN EnabledCaps /\ EnabledCaps[cap] <= Budget[cap] /\ Budget[cap] \in Nat
    BY EnabledAre, LimitsAre
  <2> QED
    BY <1>1, <2>1
<1> QED
  BY <1>2, <1>3 DEF WithinEvery

-----------------------------------------------------------------------------
(* What is told of the plan.                                               *)

\* What is told of a plan depends on what was asked and on the batches.
LEMMA SamePlan ==
  ASSUME UNCHANGED <<questions, options, order, batches>>
  PROVE  /\ \A bs : LongestOf(bs)' = LongestOf(bs)
         /\ Rejected' = Rejected /\ Overrun' = Overrun /\ Estimates' = Estimates /\ EnabledCaps' = EnabledCaps
         /\ Exceeded(Total(batches))' = Exceeded(Total(batches)) /\ Notes' = Notes
         /\ TotalFragments' = TotalFragments /\ Spans' = Spans
<1>1. \A bs : Total(bs)' = Total(bs)
  <2>1. \A bs : [k \in DOMAIN bs |-> ExactTokens(bs[k])]' = [k \in DOMAIN bs |-> ExactTokens(bs[k])]
    BY SameMeasures
  <2>2. \A bs : [k \in DOMAIN bs |-> ExactBytes(bs[k])]' = [k \in DOMAIN bs |-> ExactBytes(bs[k])]
    BY SameMeasures
  <2> QED
    BY <2>1, <2>2 DEF Total
<1>2. Count' = Count /\ Hits' = Hits /\ AllowPartial' = AllowPartial /\ Spans' = Spans
  BY SameMeasures DEF Hits, AllowPartial
<1>3. EnabledCaps' = EnabledCaps
  BY DEF EnabledCaps, Budget, Restrict
<1>4. \A tokens : Cost(tokens)' = Cost(tokens)
  BY DEF Cost
<1>5. \A cap, total : Need(cap, total)' = Need(cap, total)
  BY <1>2, <1>4 DEF Need
<1>6. \A total : Exceeded(total)' = Exceeded(total)
  BY <1>3, <1>5 DEF Exceeded
<1>7. \A total : WithinCaps(total)' = WithinCaps(total)
  BY <1>6 DEF WithinCaps
<1>8. Total(batches)' = Total(batches)
  <2>1. [k \in DOMAIN batches |-> ExactTokens(batches[k])]' = [k \in DOMAIN batches |-> ExactTokens(batches[k])]
    BY SameMeasures
  <2>2. [k \in DOMAIN batches |-> ExactBytes(batches[k])]' = [k \in DOMAIN batches |-> ExactBytes(batches[k])]
    BY SameMeasures
  <2> QED
    BY <2>1, <2>2 DEF Total
<1>9. Exceeded(Total(batches))' = Exceeded(Total(batches))
  BY <1>3, <1>5, <1>8 DEF Exceeded
<1>10. Overrun' = Overrun /\ Rejected' = Rejected
  BY <1>2, <1>9 DEF Overrun, Rejected, WithinCaps
<1>11. Cost(Total(batches).tokens)' = Cost(Total(batches).tokens)
  BY <1>8 DEF Cost
<1>12. [cap \in DOMAIN EnabledCaps |-> Need(cap, Total(batches))]' = [cap \in DOMAIN EnabledCaps |-> Need(cap, Total(batches))]
  BY <1>2, <1>3, <1>8, <1>11 DEF Need
<1>13. Estimates' = Estimates
  BY <1>2, <1>8, <1>11, <1>12 DEF Estimates
<1>14. Notes' = Notes /\ TotalFragments' = TotalFragments
  BY <1>2, <1>10 DEF Notes, Limited, TotalFragments
<1>15. \A k, h : Prefix(k, h)' = Prefix(k, h)
  BY DEF Prefix, HeadOf, Interval
<1>16. \A bs : LongestOf(bs)' = LongestOf(bs)
  <2>1. \A k, h : WithinCaps(Total(Prefix(k, h)))' = WithinCaps(Total(Prefix(k, h)))
    BY <1>1, <1>7, <1>15
  <2>2. \A bs : WithinCaps(Total(bs))' = WithinCaps(Total(bs))
    BY <1>1, <1>7
  <2> QED
    BY <1>2, <1>15, <2>1, <2>2 DEF LongestOf, Size
<1> QED
  BY <1>2, <1>3, <1>9, <1>10, <1>13, <1>14, <1>16

\* The plan told is the plan made.
PlanInv ==
  /\ PlanningInv /\ Asked
  /\ stage = "ready" =>
       /\ options.price = None => "estimated_cost_usd" \notin DOMAIN EnabledCaps
       /\ plan.rejected = Rejected /\ plan.report = Estimates
       /\ IF Rejected THEN plan.batches = <<>> ELSE LongestOf(plan.batches) /\ plan.batches \in Seq(Spans)
  /\ stage = "inspected" =>
       /\ options.command = "inspect" /\ plan.total = TotalFragments
       /\ plan.exceeded = Exceeded(Total(batches)) /\ plan.notes = Notes

\* It holds at first.
LEMMA PlanInitially == PlanningInit => PlanInv
<1> SUFFICES ASSUME PlanningInit PROVE PlanInv
  OBVIOUS
<1>1. PlanningInv
  BY PlanningInitially
<1>2. Asked
  BY DEF PlanningInit, Prepares, Asked
<1>3. stage = "measuring"
  BY DEF PlanningInit
<1> QED
  BY <1>1, <1>2, <1>3 DEF PlanInv

\* What planScan answers.
LEMMA PlanScanTells ==
  ASSUME PlanInv, PlanScan
  PROVE  /\ options.price = None => "estimated_cost_usd" \notin DOMAIN EnabledCaps
         /\ plan'.rejected = Rejected /\ plan'.report = Estimates
         /\ IF Rejected THEN plan'.batches = <<>> ELSE LongestOf(plan'.batches) /\ plan'.batches \in Seq(Spans)
<1> DEFINE sent == Admitted \o HeadSent
<1>1. plan' = [rejected |-> Rejected, batches |-> IF Rejected THEN <<>> ELSE sent,
               capReached |-> Len(sent) < Len(batches), report |-> Estimates]
  BY DEF PlanScan
<1>2. Count \in Nat /\ batches \in Seq(Spans)
  <2>1. Ordered /\ ClosedSoFar(batches)
    BY DEF PlanInv, PlanningInv, PlanScan
  <2> QED
    BY <2>1, CountType DEF ClosedSoFar, Covering
<1>3. LongestOf(sent) /\ sent \in Seq(Spans)
  BY <1>2, SentIsLongest
<1>4. options.price = None => "estimated_cost_usd" \notin DOMAIN EnabledCaps
  BY DEF PlanScan
<1> HIDE DEF sent
<1>5. plan'.rejected = Rejected /\ plan'.report = Estimates /\ plan'.batches = IF Rejected THEN <<>> ELSE sent
  BY <1>1
<1> QED
  BY <1>3, <1>4, <1>5

\* Every step keeps it.
LEMMA PlanStep == PlanInv /\ [PlanningNext]_planningVars => PlanInv'
<1> SUFFICES ASSUME PlanInv, [PlanningNext]_planningVars PROVE PlanInv'
  OBVIOUS
<1>1. PlanningInv'
  BY PlanningStep DEF PlanInv
<1>2. options' = options
  <2>1. CASE MeasureSingles
    BY <2>1 DEF MeasureSingles, Refused
  <2>2. CASE MeasureAborts \/ Unpriced
    BY <2>2 DEF MeasureAborts, Unpriced, Refused
  <2>3. CASE TakeMeasures
    BY <2>3 DEF TakeMeasures
  <2>4. CASE Closed \/ Prioritize
    BY <2>4 DEF Closed, Prioritize
  <2>5. CASE PlanScan \/ InspectScope
    BY <2>5 DEF PlanScan, InspectScope
  <2>6. CASE UNCHANGED planningVars
    BY <2>6 DEF planningVars
  <2> QED
    BY <2>1, <2>2, <2>3, <2>4, <2>5, <2>6 DEF PlanningNext
<1>3. Asked'
  BY <1>2 DEF PlanInv, Asked
<1>4. CASE PlanScan
  <2>1. UNCHANGED <<questions, options, order, batches>> /\ stage' = "ready"
    BY <1>4 DEF PlanScan
  <2>2. PICK p : p = plan'
    OBVIOUS
  <2>3. /\ options.price = None => "estimated_cost_usd" \notin DOMAIN EnabledCaps
        /\ p.rejected = Rejected /\ p.report = Estimates
        /\ IF Rejected THEN p.batches = <<>> ELSE LongestOf(p.batches) /\ p.batches \in Seq(Spans)
    BY <1>4, <2>2, PlanScanTells
  <2>4. LongestOf(plan.batches)' = LongestOf(p.batches)
    BY <2>1, <2>2, SamePlan
  <2> QED
    BY <1>1, <1>3, <2>1, <2>2, <2>3, <2>4, SamePlan DEF PlanInv
<1>5. CASE InspectScope
  <2>1. UNCHANGED <<questions, options, order, batches>> /\ stage' = "inspected" /\ options.command = "inspect"
        /\ plan'.total = TotalFragments /\ plan'.exceeded = Exceeded(Total(batches)) /\ plan'.notes = Notes
    BY <1>5 DEF InspectScope
  <2> QED
    BY <1>1, <1>3, <2>1, SamePlan DEF PlanInv
<1>6. CASE UNCHANGED planningVars
  <2>1. UNCHANGED <<questions, options, order, batches, stage, plan>>
    BY <1>6 DEF planningVars
  <2>2. LongestOf(plan.batches)' = LongestOf(plan.batches)
    BY <2>1, SamePlan
  <2> QED
    BY <1>1, <1>3, <2>1, <2>2, SamePlan DEF PlanInv
<1>7. CASE MeasureSingles \/ MeasureAborts \/ TakeMeasures \/ Closed \/ Unpriced \/ Prioritize
  <2>1. stage' \notin {"ready", "inspected"}
    <3>1. CASE MeasureSingles
      BY <3>1 DEF MeasureSingles, Refused
    <3>2. CASE MeasureAborts \/ Unpriced
      BY <3>2 DEF MeasureAborts, Unpriced, Refused
    <3>3. CASE TakeMeasures
      <4>1. stage = "closing" /\ stage' = stage
        BY <3>3 DEF TakeMeasures
      <4> QED
        BY <4>1
    <3>4. CASE Closed
      BY <3>4 DEF Closed
    <3>5. CASE Prioritize
      BY <3>5 DEF Prioritize
    <3> QED
      BY <1>7, <3>1, <3>2, <3>3, <3>4, <3>5
  <2> QED
    BY <1>1, <1>3, <2>1 DEF PlanInv
<1> QED
  BY <1>4, <1>5, <1>6, <1>7 DEF PlanningNext

\* What is sent is the longest part, within every limit.
LEMMA LongestIsEvery ==
  ASSUME PlanInv
  PROVE  IsLongestPrefix
<1> SUFFICES ASSUME stage = "ready"
             PROVE  IF plan.rejected THEN plan.batches = <<>>
                    ELSE IsLongest /\ (plan.batches # <<>> => WithinEvery(Total(plan.batches)))
  BY DEF IsLongestPrefix
<1>1. /\ Asked /\ plan.rejected = Rejected
      /\ options.price = None => "estimated_cost_usd" \notin DOMAIN EnabledCaps
      /\ IF Rejected THEN plan.batches = <<>> ELSE LongestOf(plan.batches) /\ plan.batches \in Seq(Spans)
  BY DEF PlanInv
<1>2. Ordered
  BY DEF PlanInv, PlanningInv
<1>3. CASE plan.rejected
  BY <1>1, <1>3
<1>4. CASE ~plan.rejected
  <2> DEFINE bs == plan.batches
  <2>1. LongestOf(bs) /\ bs \in Seq(Spans)
    BY <1>1, <1>4
  <2>2. IsLongest
    BY <2>1 DEF IsLongest, LongestOf
  <2>3. bs # <<>> => WithinCaps(Total(bs))
    BY <2>1 DEF LongestOf
  <2>4. bs # <<>> => WithinEvery(Total(bs))
    <3> HIDE DEF bs
    <3> QED
      BY <1>1, <1>2, <2>1, <2>3, WithinCapsIsEvery
  <2> QED
    BY <1>4, <2>2, <2>4
<1> QED
  BY <1>3, <1>4

\* What the preflight says of the totals.
LEMMA PreflightIsTrue ==
  ASSUME PlanInv, stage = "ready"
  PROVE  CheckPreflight \/ (SearchRejected /\ (~options.prepared.inventory \/ EnabledCaps = <<>>))
<1> DEFINE total == Total(batches)
           required == [cap \in DOMAIN EnabledCaps |-> Need(cap, total)]
<1>1. /\ Asked /\ Ordered /\ plan.rejected = Rejected /\ plan.report = Estimates /\ batches \in Seq(Spans)
      /\ options.price = None => "estimated_cost_usd" \notin DOMAIN EnabledCaps
  BY DEF PlanInv, PlanningInv, ClosedSoFar, Covering
<1>2. None \notin Nat
  BY PlanningAssumption
<1>3. Count \in Nat /\ Hits \in Nat /\ total.tokens \in Nat /\ total.requests \in Nat
  <2>1. Hits \in Nat
    BY <1>1, PlanningAssumption DEF Asked, Hits
  <2> QED
    BY <1>1, <2>1, CountType, TotalTyped
<1>4. ASSUME NEW cap \in DOMAIN EnabledCaps PROVE Need(cap, total) \in Nat /\ EnabledCaps[cap] \in Nat
  <2>1. EnabledCaps[cap] \in Nat /\ cap \in PlanCaps \cup SourceCaps
    BY <1>1, EnabledAre
  <2> HIDE DEF total
  <2>2. Need(cap, Total(batches)) \in Nat
    BY <1>1, <2>1, NeedTyped
  <2> QED
    BY <2>1, <2>2 DEF total
<1> HIDE DEF total
<1>5. Estimates = [remote |-> Count, hits |-> Hits, tokens |-> total.tokens, cost |-> Cost(total.tokens),
                   requests |-> total.requests, required |-> required]
  BY DEF Estimates, total
<1>6. CASE options.prepared.complete
  <2>1. TotalFragments = Count + Hits /\ TotalFragments # None /\ ~Limited
    BY <1>2, <1>3, <1>6 DEF TotalFragments, Limited
  <2>2. /\ Preflight.remote = Count /\ Preflight.hits = Hits /\ Preflight.tokens = total.tokens
        /\ Preflight.cost = Cost(total.tokens) /\ Preflight.requests = total.requests
        /\ Preflight.required = required
    BY <1>1, <1>5, <2>1 DEF Preflight
  <2>3. \A cap \in DOMAIN required : required[cap] = Need(cap, total) /\ required[cap] # None
    BY <1>2, <1>4
  <2>4. /\ "fragments" \in DOMAIN required => required["fragments"] = TotalFragments
        /\ "request_attempts" \in DOMAIN required => required["request_attempts"] = total.requests
        /\ "estimated_input_tokens" \in DOMAIN required => required["estimated_input_tokens"] = total.tokens
        /\ "estimated_cost_usd" \in DOMAIN required => required["estimated_cost_usd"] = Cost(total.tokens)
    BY <2>1 DEF Need
  <2>5. SearchRejected => \E cap \in DOMAIN required : required[cap] > EnabledCaps[cap]
    BY <1>1, <2>1 DEF SearchRejected, Rejected, Overrun, WithinCaps, Exceeded, total
  <2> HIDE DEF required
  <2>6. None \notin {Preflight.remote, Preflight.tokens, Preflight.requests}
    BY <1>2, <1>3, <2>2
  <2>7. CheckPreflight
    BY <2>1, <2>2, <2>3, <2>4, <2>5, <2>6 DEF CheckPreflight
  <2> QED
    BY <2>7
<1>7. CASE ~options.prepared.complete
  <2>1. TotalFragments = None
    BY <1>7 DEF TotalFragments
  <2>2. /\ Preflight.remote = None /\ Preflight.tokens = None /\ Preflight.cost = None /\ Preflight.requests = None
        /\ Preflight.required = [cap \in DOMAIN EnabledCaps |-> None]
    BY <2>1 DEF Preflight
  <2> DEFINE unknown == [cap \in DOMAIN EnabledCaps |-> None]
  <2>3. DOMAIN unknown = DOMAIN EnabledCaps /\ \A cap \in DOMAIN unknown : unknown[cap] = None
    OBVIOUS
  <2>4. CASE SearchRejected /\ (~options.prepared.inventory \/ EnabledCaps = <<>>)
    BY <2>4
  <2>5. CASE ~(SearchRejected /\ (~options.prepared.inventory \/ EnabledCaps = <<>>))
    <3>1. SearchRejected => Limited /\ \E cap \in DOMAIN unknown : TRUE
      <4>1. EnabledCaps = [cap \in DOMAIN EnabledCaps |-> EnabledCaps[cap]]
        BY DEF EnabledCaps
      <4>2. DOMAIN EnabledCaps = {} => EnabledCaps = <<>>
        BY <4>1
      <4> QED
        BY <1>7, <2>3, <2>5, <4>2 DEF Limited
    <3> HIDE DEF unknown
    <3>2. CheckPreflight
      BY <2>1, <2>2, <2>3, <3>1 DEF CheckPreflight, unknown
    <3> QED
      BY <3>2
  <2> QED
    BY <2>4, <2>5
<1> QED
  BY <1>6, <1>7

\* What `inspect` notes is what a search would be refused for.
LEMMA InspectIsTrue ==
  ASSUME PlanInv, stage = "inspected"
  PROVE  /\ (Rejected \/ (Limited /\ ~AllowPartial)) <=> plan.notes \cap {"exceeded", "limit"} # {}
         /\ plan.total # None <=> plan.notes \cap {"inventory", "limit"} = {}
         /\ (plan.exceeded # {}) = ("exceeded" \in plan.notes)
<1>1. /\ Asked /\ Ordered /\ options.request = [partial |-> FALSE, budget |-> <<>>]
      /\ plan.total = TotalFragments /\ plan.exceeded = Exceeded(Total(batches)) /\ plan.notes = Notes
  BY DEF PlanInv, PlanningInv, Asked
<1>2. ~AllowPartial
  <2>1. options.request.partial = FALSE /\ DOMAIN options.request.budget = {}
    BY <1>1
  <2> QED
    BY <2>1 DEF AllowPartial
<1>3. /\ "exceeded" \in Notes <=> Overrun
      /\ "limit" \in Notes <=> Limited
      /\ "inventory" \in Notes <=> ~options.prepared.inventory
  BY DEF Notes
<1>4. Overrun <=> Exceeded(Total(batches)) # {}
  BY DEF Overrun, WithinCaps
<1>5. TotalFragments # None <=> options.prepared.complete
  <2>1. Count + Hits \in Nat /\ None \notin Nat
    BY <1>1, CountType, PlanningAssumption DEF Asked, Hits
  <2> QED
    BY <2>1 DEF TotalFragments
<1>6. options.prepared.complete => options.prepared.inventory
  BY <1>1, PlanningAssumption DEF Asked
<1>7. (Rejected \/ (Limited /\ ~AllowPartial)) <=> plan.notes \cap {"exceeded", "limit"} # {}
  BY <1>1, <1>2, <1>3 DEF Rejected
<1>8. plan.total # None <=> plan.notes \cap {"inventory", "limit"} = {}
  BY <1>1, <1>3, <1>5, <1>6 DEF Limited
<1>9. (plan.exceeded # {}) = ("exceeded" \in plan.notes)
  BY <1>1, <1>3, <1>4
<1> QED
  BY <1>7, <1>8, <1>9

\* What is sent is the longest part of the plan that every cap and budget has room for,
\* and what the report or `inspect` tells of it is true, whatever the measures.
THEOREM PlansAreTrue == PlanningSpec => []PlanIsTrue
<1>1. PlanningInit => PlanInv
  BY PlanInitially
<1>2. PlanInv /\ [PlanningNext]_planningVars => PlanInv'
  BY PlanStep
<1>3. PlanInv => PlanIsTrue
  BY LongestIsEvery, PreflightIsTrue, InspectIsTrue DEF PlanIsTrue
<1> QED
  BY <1>1, <1>2, <1>3, PTL DEF PlanningSpec
=============================================================================
