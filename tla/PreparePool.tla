------------------------------ MODULE PreparePool ------------------------------
(***************************************************************************)
(* The asynchronous worker pool of src/source/prepare-pool.ts, its workers *)
(* (src/source/prepare-worker.ts) and its two callers: the preparation     *)
(* loop of src/source/prepare.ts, which hands files to the pool ahead of   *)
(* their turn, and countTokensWithAsync, which waits under a signal.       *)
(*                                                                         *)
(* A step is the code between two returns to the event loop of the main    *)
(* thread, or one message of a worker.  Callers come one after the other   *)
(* and share the pool, each under a lease; a pool nobody holds is closed    *)
(* when it has been idle long enough, and the next caller starts another.  *)
(*                                                                         *)
(* Tickets are counted up and a port delivers in order, so that what waits *)
(* at a port is the set of its tickets, and the least of them comes next.  *)
(***************************************************************************)
EXTENDS Integers, Sequences, FiniteSets, SequencesExt

CONSTANTS
  NumSlots,    \* threads of the pool
  NumFiles,    \* files of one preparation
  NumChunks,   \* chunks of one token count
  MaxTickets,  \* bound: no caller starts when this many tickets may be passed
  MayFail,     \* slots whose worker may die
  MayStop      \* whether a preparation may be stopped, or hit a limit, at a
               \* file's turn

Slots   == 1 .. NumSlots
Tickets == 0 .. MaxTickets - 1
NoJob   == MaxTickets

ASSUME PoolAssumption ==
  /\ NumSlots \in Nat \ {0} /\ NumFiles \in Nat \ {0} /\ NumChunks \in Nat \ {0}
  /\ MaxTickets \in Nat
  /\ MayFail \subseteq Slots /\ MayStop \in BOOLEAN

VARIABLES
  pool,     \* the PreparePool object
  idle,     \* the timer that closes the shared pool is armed
  inbox,    \* per slot: tickets posted to the worker
  outbox,   \* per slot: the result of each ticket replied to, still to be received
  alive,    \* per slot: the thread runs
  exits,    \* per slot: 'error' and 'exit' events not yet handled
  phase,    \* what the caller does
  left,     \* files it has not read yet
  ahead,    \* the jobs of the files read ahead, NoJob for none
  current,  \* the job of the file whose turn it is
  misrouted,\* history: tickets given to a slot known to have failed
  cut       \* history: tickets of files at whose turn a preparation was stopped

workerVars == <<inbox, outbox, alive, exits>>
callerVars == <<phase, left, ahead, current, idle>>
history == <<misrouted, cut>>
vars == <<pool, workerVars, callerVars, history>>

-----------------------------------------------------------------------------
(* PreparePool: each operation maps the pool's state P to the next.        *)

Without(f, T) == [t \in DOMAIN f \ T |-> f[t]]
Put(f, T, result) == [t \in DOMAIN f \cup T |-> IF t \in T THEN result ELSE f[t]]

\* #settle, of the tickets T at once.
Settle(P, T, result) ==
  [P EXCEPT
     !.assigned  = Without(@, T),
     !.forgotten = @ \ T,
     !.waiters   = @ \ (T \ P.forgotten),
     !.resolved  = Put(@, (T \cap P.waiters) \ P.forgotten, result),
     !.results   = Put(@, T \ (P.forgotten \cup P.waiters), result)]

\* Mutant of FailSlot: only jobs already waited for are handed back.
FailWaiters(P, s) ==
  LET owed == {t \in P.waiters : P.assigned[t] = s}
  IN  Settle([P EXCEPT !.failed[s] = TRUE], owed, "failed")

\* The 'error' and 'exit' handlers: what the slot still owes has failed.
FailSlot(P, s) ==
  LET owed == {t \in DOMAIN P.assigned : P.assigned[t] = s}
  IN  Settle([P EXCEPT !.failed[s] = TRUE], owed, "failed")

\* Mutant of Wait: a result that is already held is not looked for.
WaitBlind(P, t) == [P EXCEPT !.waiters = @ \cup {t}]

\* wait
Wait(P, t) ==
  IF t \in DOMAIN P.results
  THEN [P EXCEPT !.results = Without(@, {t}), !.resolved = Put(@, {t}, P.results[t])]
  ELSE IF t \in DOMAIN P.assigned
  THEN [P EXCEPT !.waiters = @ \cup {t}]
  ELSE [P EXCEPT !.resolved = Put(@, {t}, "failed")]

\* Mutant of Forget: a result still to come is not remembered.
ForgetHeld(P, T) == [P EXCEPT !.results = Without(@, T)]

\* forget, of the tickets T.
Forget(P, T) ==
  [P EXCEPT !.results   = Without(@, T),
            !.forgotten = @ \cup ((T \cap DOMAIN P.assigned) \ DOMAIN P.results)]

\* The abort listener of wait, for the tickets T.
AbortWaits(P, T) ==
  Forget([P EXCEPT !.waiters = @ \ T, !.resolved = Put(@, T, "failed")], T)

Load(P, s) == P.queued[s] - P.consumed[s]

\* The load when ticket t is given out, those of route before it included.
LoadAt(P, route, t, s) ==
  Load(P, s) + Cardinality({u \in DOMAIN route : u < t /\ route[u] = s})

\* #leastLoaded: the next n tickets go, one after the other, to the first of the slots
\* with the smallest load.
Routes(P, n) ==
  {route \in [P.next .. P.next + n - 1 -> Slots] :
     \A t \in DOMAIN route, r \in Slots :
       LET s == route[t]
       IN  \/ LoadAt(P, route, t, s) < LoadAt(P, route, t, r)
           \/ LoadAt(P, route, t, s) = LoadAt(P, route, t, r) /\ s <= r}

\* The tickets of route that slot s is given.
GivenTo(s, route) == {t \in DOMAIN route : route[t] = s}

\* submit, submitCount, submitCounts; the messages are posted by Posted.
Submit(P, route) ==
  [P EXCEPT !.queued   = [s \in Slots |-> @[s] + Cardinality(GivenTo(s, route))],
            !.assigned = [t \in DOMAIN @ \cup DOMAIN route |->
                            IF t \in DOMAIN route THEN route[t] ELSE @[t]],
            !.next     = @ + Cardinality(DOMAIN route)]

\* What the workers see of it: a message to a dead worker disappears.
Posted(route) ==
  /\ inbox' = [s \in Slots |-> IF alive[s] THEN inbox[s] \cup GivenTo(s, route) ELSE inbox[s]]
  /\ misrouted' = misrouted \cup {t \in DOMAIN route : pool.failed[route[t]]}
  /\ UNCHANGED <<outbox, alive, exits, cut>>

-----------------------------------------------------------------------------
(* Workers.                                                                *)

\* A worker answers a job, with a result or with a failure it caught.
WorkerReplies(s) ==
  /\ alive[s] /\ inbox[s] # {}
  /\ \E result \in {"entry", "failed"} :
       outbox' = [outbox EXCEPT ![s] = Put(@, {Min(inbox[s])}, result)]
  /\ inbox' = [inbox EXCEPT ![s] = @ \ {Min(@)}]
  /\ UNCHANGED <<pool, alive, exits, callerVars, history>>

\* A worker dies: 'exit', after 'error' or not.
WorkerDies(s) ==
  /\ s \in MayFail /\ alive[s]
  /\ alive' = [alive EXCEPT ![s] = FALSE]
  /\ inbox' = [inbox EXCEPT ![s] = {}]
  /\ \E n \in {1, 2} : exits' = [exits EXCEPT ![s] = n]
  /\ UNCHANGED <<pool, outbox, callerVars, history>>

\* The main thread handles one of these events.
SlotFails(s) ==
  /\ exits[s] > 0
  /\ pool' = FailSlot(pool, s)
  /\ exits' = [exits EXCEPT ![s] = @ - 1]
  /\ UNCHANGED <<inbox, outbox, alive, callerVars, history>>

\* Mutant of Deliver: a forgotten reply is dropped before it is counted.
DeliverWanted(s) ==
  /\ DOMAIN outbox[s] # {}
  /\ LET t == Min(DOMAIN outbox[s])
         counted == IF t \in pool.forgotten THEN pool ELSE [pool EXCEPT !.consumed[s] = @ + 1]
     IN  /\ pool' = Settle(counted, {t}, outbox[s][t])
         /\ outbox' = [outbox EXCEPT ![s] = Without(@, {t})]
  /\ UNCHANGED <<inbox, alive, exits, callerVars, history>>

\* The main thread receives a reply.
Deliver(s) ==
  /\ DOMAIN outbox[s] # {}
  /\ LET t == Min(DOMAIN outbox[s])
     IN  /\ pool' = Settle([pool EXCEPT !.consumed[s] = @ + 1], {t}, outbox[s][t])
         /\ outbox' = [outbox EXCEPT ![s] = Without(@, {t})]
  /\ UNCHANGED <<inbox, alive, exits, callerVars, history>>

-----------------------------------------------------------------------------
(* Leases of the shared pool, acquirePool.                                 *)

EmptyMap == [t \in {} |-> NoJob]
NonePosted == [s \in Slots |-> {}]
NoneReplied == [s \in Slots |-> EmptyMap]

FreshPool ==
  [queued |-> [s \in Slots |-> 0], consumed |-> [s \in Slots |-> 0],
   failed |-> [s \in Slots |-> FALSE], next |-> 0,
   assigned |-> EmptyMap, results |-> EmptyMap, resolved |-> EmptyMap,
   waiters |-> {}, forgotten |-> {}]

\* The caller takes the pool; a timer that would close it is cleared.
Acquire == idle' = FALSE

\* The last user leaves: the timer starts.
Release == idle' = TRUE

\* close: the workers end, with all that they still owe.
Close ==
  /\ pool' = FreshPool
  /\ inbox' = NonePosted /\ outbox' = NoneReplied
  /\ alive' = [s \in Slots |-> TRUE] /\ exits' = [s \in Slots |-> 0]
  /\ misrouted' = {} /\ cut' = {}

\* Nobody took the pool in the meantime: it is closed, and the next caller starts
\* another.
CloseIdle ==
  /\ idle /\ phase = "idle"
  /\ Close
  /\ idle' = FALSE
  /\ UNCHANGED <<phase, left, ahead, current>>

-----------------------------------------------------------------------------
(* The preparation loop.                                                   *)

\* How many more files are read ahead.
Room == IF left < 2 * NumSlots - Len(ahead) THEN left ELSE 2 * NumSlots - Len(ahead)

Begin ==
  /\ phase = "idle" /\ pool.next + NumFiles <= MaxTickets
  /\ phase' = "loop" /\ left' = NumFiles
  /\ Acquire
  /\ UNCHANGED <<pool, workerVars, ahead, current, history>>

\* The jobs of the next files, one for each of the tickets T: a file that the cache
\* holds, or that could not be read, has none.
Jobs(T) ==
  {jobs \in [1 .. Room -> T \cup {NoJob}] :
     /\ T \subseteq ToSet(jobs)
     /\ \A i, j \in 1 .. Room : i < j /\ NoJob \notin {jobs[i], jobs[j]} => jobs[i] < jobs[j]}

\* readAhead, then the next file.
TakeTurn ==
  /\ phase = "loop" /\ left + Len(ahead) > 0
  /\ \E n \in 0 .. Room : \E route \in Routes(pool, n) : \E jobs \in Jobs(DOMAIN route) :
       /\ pool' = Submit(pool, route)
       /\ Posted(route)
       /\ current' = Head(ahead \o jobs)
       /\ ahead' = Tail(ahead \o jobs)
  /\ left' = left - Room
  /\ phase' = "turn"
  /\ UNCHANGED idle

\* The finally block.
Leave ==
  /\ pool' = Forget(pool, ToSet(ahead) \ {NoJob})
  /\ phase' = "idle" /\ left' = 0 /\ ahead' = <<>> /\ current' = NoJob
  /\ Release
  /\ UNCHANGED <<workerVars, misrouted>>

\* No file is left.
Done ==
  /\ phase = "loop" /\ left + Len(ahead) = 0
  /\ Leave
  /\ UNCHANGED cut

\* The search stopped, or a limit is reached, before the file is looked at.
StopAtTurn ==
  /\ phase = "turn" /\ MayStop
  /\ Leave
  /\ cut' = cut \cup ({current} \ {NoJob})

\* The file is prepared on this thread, or its job awaited.
GoOn ==
  /\ phase = "turn"
  /\ pool' = IF current = NoJob THEN pool ELSE Wait(pool, current)
  /\ phase' = IF current = NoJob THEN "loop" ELSE "waiting"
  /\ UNCHANGED <<workerVars, left, ahead, current, idle, history>>

\* The awaited result is there: on to the next file.
Resume ==
  /\ phase = "waiting" /\ current \in DOMAIN pool.resolved
  /\ phase' = "loop" /\ current' = NoJob
  /\ UNCHANGED <<pool, workerVars, left, ahead, idle, history>>

\* As Resume, but the file's fragments pass their limit.
StopAfterFile ==
  /\ phase = "waiting" /\ current \in DOMAIN pool.resolved
  /\ Leave
  /\ UNCHANGED cut

-----------------------------------------------------------------------------
(* countTokensWithAsync.                                                   *)

CountBegins ==
  /\ phase = "idle" /\ pool.next + NumChunks <= MaxTickets
  /\ \E route \in Routes(pool, NumChunks) :
       /\ pool' = [Submit(pool, route) EXCEPT !.waiters = @ \cup DOMAIN route]
       /\ Posted(route)
  /\ phase' = "counting"
  /\ Acquire
  /\ UNCHANGED <<left, ahead, current>>

\* Every chunk was counted, here or by a worker.
CountEnds ==
  /\ phase = "counting" /\ pool.waiters = {}
  /\ phase' = "idle"
  /\ Release
  /\ UNCHANGED <<pool, workerVars, left, ahead, current, history>>

\* The search's signal aborts every wait that is left.
CountAborts ==
  /\ phase = "counting" /\ pool.waiters # {}
  /\ pool' = AbortWaits(pool, pool.waiters)
  /\ phase' = "idle"
  /\ Release
  /\ UNCHANGED <<workerVars, left, ahead, current, history>>

-----------------------------------------------------------------------------
Init ==
  /\ pool = FreshPool
  /\ inbox = NonePosted /\ outbox = NoneReplied
  /\ alive = [s \in Slots |-> TRUE] /\ exits = [s \in Slots |-> 0]
  /\ phase = "idle" /\ left = 0 /\ ahead = <<>> /\ current = NoJob
  /\ idle = FALSE
  /\ misrouted = {} /\ cut = {}

Caller == TakeTurn \/ Done \/ GoOn \/ Resume

Next ==
  \/ \E s \in Slots : WorkerReplies(s) \/ WorkerDies(s) \/ SlotFails(s) \/ Deliver(s)
  \/ Begin \/ Caller \/ StopAtTurn \/ StopAfterFile
  \/ CountBegins \/ CountEnds \/ CountAborts \/ CloseIdle

Spec == Init /\ [][Next]_vars

\* Workers that live answer, messages and events arrive, callers go on.
FairSpec ==
  /\ Spec
  /\ \A s \in Slots : /\ WF_vars(WorkerReplies(s)) /\ WF_vars(SlotFails(s))
                      /\ WF_vars(Deliver(s))
  /\ WF_vars(Caller) /\ WF_vars(CountEnds)

-----------------------------------------------------------------------------
(* Properties.                                                             *)

InTransit(s) == inbox[s] \cup DOMAIN outbox[s]

\* What a slot that works is thought to owe is what it does owe, whatever was
\* forgotten or abandoned: the load that the choice of a slot goes by is real.
LoadIsReal ==
  \A s \in Slots : alive[s] =>
    /\ Load(pool, s) = Cardinality(inbox[s]) + Cardinality(DOMAIN outbox[s])
    /\ {t \in DOMAIN pool.assigned : pool.assigned[t] = s} = InTransit(s)

\* A job whose slot died is handed back, unless it was given to a slot that was
\* already known to have failed.
HandedBack ==
  \A t \in DOMAIN pool.assigned :
    LET s == pool.assigned[t]
    IN  t \in InTransit(s) \/ exits[s] > 0 \/ t \in misrouted

Quiet == phase = "idle" /\ \A s \in Slots : InTransit(s) = {}
Living == \A s \in Slots : alive[s]

\* Of all the ways a job can be given up, read ahead, awaited or counted, none but a
\* stop at its own file's turn leaves a result in the pool.
OnlyCutIsKept ==
  Quiet /\ Living =>
    DOMAIN pool.results \subseteq cut /\ pool.forgotten = {} /\ pool.waiters = {}

\* No result is awaited for ever, and every preparation and count ends, as long as the
\* workers live.
CallersEnd == phase # "idle" ~> phase = "idle" \/ ~Living

\* A preparation ends whatever its workers do: "A worker that fails hands its work back to
\* the caller" (src/source/prepare-pool.ts:16-17).
PreparationEnds == phase \in {"loop", "turn", "waiting"} ~> phase = "idle"
=============================================================================
