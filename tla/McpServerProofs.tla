---------------------------- MODULE McpServerProofs ----------------------------
(***************************************************************************)
(* Theorems of McpServer, for any requests, any ids they share, and any    *)
(* bound on the unread output: a cancelled call is silent, and the server  *)
(* implements SearchSlots.                                                 *)
(*                                                                         *)
(* Each operation of the scheduler keeps it well formed (WellFormed): the  *)
(* active calls are the one that runs and the one that waits, and the one  *)
(* that waits was not cancelled.  Moved is what any step of the server     *)
(* does to the calls and their replies; both theorems follow from it.      *)
(***************************************************************************)
EXTENDS McpServer, TLAPS

Kinds == Endings \cup {"duplicate", "busy"}

\* The calls that run or wait.
Calls(S) == {S.running, S.queued} \ {None}

Schedulers == [active   : UNION {[D -> Requests] : D \in SUBSET Ids},
               running  : Requests \cup {None},
               queued   : Requests \cup {None},
               draining : BOOLEAN,
               aborted  : SUBSET Requests,
               settled  : SUBSET Requests]

\* Each active call is active under its own id.
ActiveFits(S) ==
  /\ DOMAIN S.active = {IdOf[r] : r \in Calls(S)}
  /\ \A r \in Calls(S) : S.active[IdOf[r]] = r

WellFormed(S) ==
  /\ S \in Schedulers
  /\ ActiveFits(S)
  /\ S.queued # None => /\ S.running # None /\ S.running # S.queued
                        /\ S.queued \notin S.aborted /\ ~S.draining

\* The invariant: what was not read, or is still to be answered, has no reply.
Inv ==
  /\ WellFormed(calls)
  /\ received \subseteq Requests
  /\ replies \in [Requests -> Seq(Kinds)]
  /\ closed = calls.draining
  /\ Calls(calls) \cup calls.aborted \subseteq received
  /\ \A r \in Requests : r \notin received \/ r \in Calls(calls) => replies[r] = <<>>

\* T is S with perhaps some of its calls aborted, the queued one dropped, and closed.
Narrows(S, T) ==
  /\ T.running = S.running
  /\ T.queued \in {S.queued, None}
  /\ S.draining => T.draining
  /\ S.aborted \subseteq T.aborted /\ T.aborted \subseteq S.aborted \cup Calls(S)

\* The requests that the step reads.
News == received' \ received

\* What a step does: a call moves up only from the queue to run, a new call starts or
\* waits only while the server is open and the slot is free, and a reply is given to
\* the call that ran, or to one that is refused as it is read.
Moved ==
  /\ received \subseteq received'
  /\ calls.draining => calls'.draining
  /\ calls'.running \in {calls.running, calls.queued, None} \cup News
  /\ calls'.running \in News => ~calls.draining /\ calls.running = None
  /\ calls'.queued \in {calls.queued, None} \cup News
  /\ \A r \in Requests :
       \/ replies'[r] = replies[r]
       \/ /\ replies[r] = <<>> /\ r \notin calls.aborted
          /\ r \notin Calls(calls')
          /\ \E kind \in Kinds : replies'[r] = <<kind>>
          /\ \/ r = calls.running /\ replies'[r][1] \in Endings
             \/ r \in News /\ replies'[r][1] \notin Endings

-----------------------------------------------------------------------------
(* The operations of the scheduler.                                        *)

\* The queued call is dropped, or there is none.
LEMMA DropQueuedKeeps ==
  ASSUME NEW S \in Schedulers, ActiveFits(S),
         S.queued # None => S.running # None /\ S.running # S.queued
  PROVE  /\ WellFormed(DropQueued(S))
         /\ DropQueued(S).running = S.running /\ DropQueued(S).queued = None
         /\ DropQueued(S).draining = S.draining /\ DropQueued(S).aborted = S.aborted
  <1> DEFINE T == DropQueued(S)
  <1>1. CASE S.queued = None
    BY <1>1 DEF DropQueued, WellFormed
  <1>2. CASE S.queued # None
    <2>1. IdOf[S.running] # IdOf[S.queued] /\ IdOf[S.running] \in Ids /\ IdOf[S.queued] \in Ids
          /\ S.running \in Requests /\ S.queued \in Requests
      BY <1>2, McpAssumption DEF Schedulers, ActiveFits, Calls
    <2>2. T = [S EXCEPT !.queued = None, !.active = Without(S.active, IdOf[S.queued]),
                        !.settled = @ \cup {S.queued}]
      BY <1>2 DEF DropQueued
    <2>3. /\ T.queued = None /\ T.running = S.running /\ T.draining = S.draining
          /\ T.aborted = S.aborted /\ T.settled = S.settled \cup {S.queued}
          /\ T.active = Without(S.active, IdOf[S.queued])
      BY <2>2 DEF Schedulers
    <2>4. Calls(S) = {S.running, S.queued} /\ Calls(T) = {S.running}
      BY <1>2, <2>3 DEF Calls
    <2>5. ActiveFits(T)
      BY <2>1, <2>3, <2>4 DEF ActiveFits, Without
    <2>6. T.active \in [{IdOf[S.running]} -> Requests]
      BY <2>1, <2>3, <2>4 DEF ActiveFits, Without
    <2>7. T.active \in UNION {[D -> Requests] : D \in SUBSET Ids}
      BY <2>1, <2>6
    <2>8. T \in Schedulers
      BY <2>1, <2>2, <2>3, <2>7 DEF Schedulers
    <2> QED  BY <2>3, <2>5, <2>8 DEF WellFormed
  <1> QED  BY <1>1, <1>2

\* Aborting some of the active calls changes nothing else.
LEMMA AbortKeeps ==
  ASSUME NEW S, WellFormed(S), NEW A \in SUBSET Requests
  PROVE  LET T == [S EXCEPT !.aborted = @ \cup A]
         IN  /\ T \in Schedulers /\ ActiveFits(T)
             /\ T.running = S.running /\ T.queued = S.queued /\ T.active = S.active
             /\ T.draining = S.draining /\ T.aborted = S.aborted \cup A
  BY DEF WellFormed, Schedulers, ActiveFits, Calls

\* A cancellation of all calls drops the one that waits and aborts the one that runs.
LEMMA CancelAllKeeps ==
  ASSUME NEW S, WellFormed(S)
  PROVE  /\ WellFormed(CancelAll(S)) /\ Narrows(S, CancelAll(S))
         /\ CancelAll(S).draining = S.draining
  <1> DEFINE A == {S.active[i] : i \in DOMAIN S.active}
             T == [S EXCEPT !.aborted = @ \cup A]
  <1>1. A \subseteq Calls(S) /\ A \in SUBSET Requests
    BY DEF WellFormed, ActiveFits, Schedulers, Calls
  <1>2. /\ T \in Schedulers /\ ActiveFits(T)
        /\ T.running = S.running /\ T.queued = S.queued
        /\ T.draining = S.draining /\ T.aborted = S.aborted \cup A
    BY <1>1, AbortKeeps
  <1>3. CancelAll(S) = DropQueued(T)  BY DEF CancelAll
  <1> HIDE DEF T, A
  <1>4. T.queued # None => T.running # None /\ T.running # T.queued
    BY <1>2 DEF WellFormed
  <1>5. /\ WellFormed(DropQueued(T))
        /\ DropQueued(T).running = T.running /\ DropQueued(T).queued = None
        /\ DropQueued(T).draining = T.draining /\ DropQueued(T).aborted = T.aborted
    BY <1>2, <1>4, DropQueuedKeeps
  <1> QED  BY <1>1, <1>2, <1>3, <1>5 DEF Narrows

\* A cancellation of one call drops it if it waits, and aborts it if it runs.
LEMMA CancelKeeps ==
  ASSUME NEW S, WellFormed(S), NEW id
  PROVE  /\ WellFormed(Cancel(S, id)) /\ Narrows(S, Cancel(S, id))
         /\ Cancel(S, id).draining = S.draining
  <1>1. CASE id \notin DOMAIN S.active
    BY <1>1 DEF Cancel, Narrows, WellFormed, Schedulers
  <1>2. CASE id \in DOMAIN S.active
    <2> DEFINE r == S.active[id]
               T == [S EXCEPT !.aborted = @ \cup {r}]
    <2>1. r \in Calls(S) /\ {r} \in SUBSET Requests
      BY <1>2 DEF WellFormed, ActiveFits, Schedulers, Calls
    <2>2. /\ T \in Schedulers /\ ActiveFits(T)
          /\ T.running = S.running /\ T.queued = S.queued
          /\ T.draining = S.draining /\ T.aborted = S.aborted \cup {r}
      BY <2>1, AbortKeeps
    <2>3. Cancel(S, id) = IF S.queued = r THEN DropQueued(T) ELSE T
      BY <1>2 DEF Cancel
    <2> HIDE DEF T, r
    <2>4. T.queued # None => T.running # None /\ T.running # T.queued
      BY <2>2 DEF WellFormed
    <2>5. /\ WellFormed(DropQueued(T))
          /\ DropQueued(T).running = T.running /\ DropQueued(T).queued = None
          /\ DropQueued(T).draining = T.draining /\ DropQueued(T).aborted = T.aborted
      BY <2>2, <2>4, DropQueuedKeeps
    <2>6. S.queued # r => WellFormed(T)
      BY <2>2 DEF WellFormed
    <2> QED  BY <2>1, <2>2, <2>3, <2>5, <2>6 DEF Narrows
  <1> QED  BY <1>1, <1>2

\* A close drops the call that waits, and leaves the one that runs.
LEMMA DrainKeeps ==
  ASSUME NEW S, WellFormed(S)
  PROVE  /\ WellFormed(Drain(S)) /\ Narrows(S, Drain(S))
         /\ Drain(S).draining = TRUE /\ Drain(S).queued = None
  <1> DEFINE T == [S EXCEPT !.draining = TRUE]
  <1>1. /\ T \in Schedulers /\ ActiveFits(T)
        /\ T.running = S.running /\ T.queued = S.queued
        /\ T.draining = TRUE /\ T.aborted = S.aborted
    BY DEF WellFormed, Schedulers, ActiveFits, Calls
  <1>2. Drain(S) = DropQueued(T)  BY DEF Drain
  <1> HIDE DEF T
  <1>3. T.queued # None => T.running # None /\ T.running # T.queued
    BY <1>1 DEF WellFormed
  <1>4. /\ WellFormed(DropQueued(T))
        /\ DropQueued(T).running = T.running /\ DropQueued(T).queued = None
        /\ DropQueued(T).draining = T.draining /\ DropQueued(T).aborted = T.aborted
    BY <1>1, <1>3, DropQueuedKeeps
  <1> QED  BY <1>1, <1>2, <1>4 DEF Narrows

\* A new call runs if nothing does, and waits otherwise.
LEMMA SubmitKeeps ==
  ASSUME NEW S, WellFormed(S), ~S.draining, NEW r \in Requests,
         ~IdInUse(S, r), ~IsFull(S), r \notin S.aborted
  PROVE  /\ WellFormed(Submit(S, r))
         /\ Submit(S, r).draining = S.draining /\ Submit(S, r).aborted = S.aborted
         /\ \/ S.running = None /\ Submit(S, r).running = r /\ Submit(S, r).queued = S.queued
            \/ S.running # None /\ Submit(S, r).running = S.running /\ Submit(S, r).queued = r
  <1> DEFINE T == Submit(S, r)
             admitted == [i \in DOMAIN S.active \cup {IdOf[r]} |->
                            IF i = IdOf[r] THEN r ELSE S.active[i]]
  <1>1. IdOf[r] \in Ids /\ IdOf[r] \notin DOMAIN S.active /\ r # None
    BY McpAssumption DEF IdInUse
  <1>2. S.running = None \/ S.queued = None  BY DEF IsFull
  <1>3. /\ DOMAIN admitted = DOMAIN S.active \cup {IdOf[r]}
        /\ admitted[IdOf[r]] = r
        /\ \A i \in DOMAIN S.active : admitted[i] = S.active[i]
        /\ admitted \in UNION {[D -> Requests] : D \in SUBSET Ids}
    <2>1. \A i \in DOMAIN S.active : S.active[i] \in Requests /\ i \in Ids
      BY DEF WellFormed, Schedulers
    <2>2. DOMAIN S.active \cup {IdOf[r]} \in SUBSET Ids  BY <1>1, <2>1
    <2>3. admitted \in [DOMAIN S.active \cup {IdOf[r]} -> Requests]  BY <2>1
    <2> QED  BY <1>1, <2>2, <2>3
  <1>4. T = IF S.running = None THEN [S EXCEPT !.active = admitted, !.running = r]
                                ELSE [S EXCEPT !.active = admitted, !.queued = r]
    BY DEF Submit
  <1> HIDE DEF admitted
  <1>5. /\ T.active = admitted /\ T.draining = S.draining /\ T.aborted = S.aborted
        /\ \/ S.running = None /\ T.running = r /\ T.queued = S.queued
           \/ S.running # None /\ T.running = S.running /\ T.queued = r
    BY <1>4 DEF WellFormed, Schedulers
  <1>6. T \in Schedulers
    BY <1>3, <1>4 DEF WellFormed, Schedulers
  <1> HIDE DEF T
  <1>7. Calls(T) = Calls(S) \cup {r} /\ r \notin Calls(S)
    BY <1>1, <1>2, <1>5 DEF Calls, WellFormed, ActiveFits
  <1>8. ActiveFits(T)
    BY <1>1, <1>3, <1>5, <1>7 DEF WellFormed, ActiveFits
  <1>9. T.queued # None => /\ T.running # None /\ T.running # T.queued
                           /\ T.queued \notin T.aborted /\ ~T.draining
    BY <1>1, <1>2, <1>5, <1>7 DEF WellFormed, Calls
  <1> QED  BY <1>5, <1>6, <1>8, <1>9 DEF WellFormed, T

\* The call that ran is done, and the one that waited runs.
LEMMA CompleteKeeps ==
  ASSUME NEW S, WellFormed(S), NEW r \in Requests, S.running = r
  PROVE  /\ WellFormed(Complete(S, r))
         /\ Complete(S, r).running = S.queued /\ Complete(S, r).queued = None
         /\ Complete(S, r).draining = S.draining /\ Complete(S, r).aborted = S.aborted
  <1> DEFINE T == Complete(S, r)
  <1>1. r # None /\ r \in Calls(S)  BY McpAssumption DEF Calls
  <1>2. T = [S EXCEPT !.active = Without(S.active, IdOf[r]), !.settled = @ \cup {r},
                      !.running = S.queued, !.queued = None]
    BY DEF Complete, WellFormed, Schedulers
  <1>3. /\ T.queued = None /\ T.running = S.queued /\ T.draining = S.draining
        /\ T.aborted = S.aborted /\ T.active = Without(S.active, IdOf[r])
    BY <1>2 DEF WellFormed, Schedulers
  <1>4. S.queued # None => IdOf[S.queued] # IdOf[r]
    BY <1>1 DEF WellFormed, ActiveFits, Calls
  <1>5. ActiveFits(T)
    BY <1>1, <1>3, <1>4 DEF WellFormed, ActiveFits, Calls, Without
  <1>6. T.active \in UNION {[D -> Requests] : D \in SUBSET Ids}
    <2>1. \A i \in DOMAIN S.active : S.active[i] \in Requests /\ i \in Ids
      BY DEF WellFormed, Schedulers
    <2>2. DOMAIN S.active \ {IdOf[r]} \in SUBSET Ids  BY <2>1
    <2>3. T.active \in [DOMAIN S.active \ {IdOf[r]} -> Requests]  BY <1>3, <2>1 DEF Without
    <2> QED  BY <2>2, <2>3
  <1>7. T \in Schedulers
    <2>1. /\ S \in Schedulers /\ S.settled \cup {r} \in SUBSET Requests
          /\ S.queued \in Requests \cup {None} /\ None \in Requests \cup {None}
      BY DEF WellFormed, Schedulers
    <2>2. Without(S.active, IdOf[r]) \in UNION {[D -> Requests] : D \in SUBSET Ids}
      BY <1>3, <1>6
    <2> HIDE DEF T
    <2> QED  BY <1>2, <2>1, <2>2 DEF Schedulers
  <1> QED  BY <1>3, <1>5, <1>7 DEF WellFormed

-----------------------------------------------------------------------------
(* The steps of the server.                                                *)

\* What a tool answers is no refusal.
LEMMA EndingsAreKinds ==
  Endings \subseteq Kinds /\ "duplicate" \notin Endings /\ "busy" \notin Endings
  BY DEF Kinds, Endings, ToolResult

\* The calls are at most narrowed, and nothing is read or answered.
LEMMA NarrowingStep ==
  ASSUME Inv, WellFormed(calls'), Narrows(calls, calls'), closed' = calls'.draining,
         received \subseteq received', received' \subseteq Requests,
         News \cap (Calls(calls) \cup calls.aborted) = {}, replies' = replies
  PROVE  Inv' /\ Moved
  <1>1. Calls(calls') \subseteq Calls(calls)  BY DEF Narrows, Calls
  <1>2. Inv'
    BY <1>1 DEF Inv, Narrows
  <1>3. /\ calls'.running = calls.running /\ calls'.queued \in {calls.queued, None}
        /\ calls.draining => calls'.draining
    BY DEF Narrows
  <1>4. calls.running \notin News
    BY McpAssumption DEF Calls, News
  <1>5. Moved
    BY <1>3, <1>4 DEF Moved
  <1> QED  BY <1>2, <1>5

\* A line is read, and perhaps the input ends with it.
LEMMA LineStep ==
  ASSUME Inv, ~closed, ~abandoned, NEW m \in Lines, MayCome(m), ConsumeEffects(m),
         \/ calls' = Consumed(m) /\ closed' = closed
         \/ calls' = Drain(Consumed(m)) /\ closed' = TRUE
  PROVE  Inv' /\ Moved
  <1> DEFINE T == Consumed(m)
  <1>0. /\ WellFormed(calls) /\ calls.draining = FALSE /\ calls \in Schedulers
    BY DEF Inv, WellFormed, Schedulers
  <1>1. received' = received \cup (IF m.kind = "call" THEN {m.request} ELSE {})
    BY DEF ConsumeEffects
  <1>2. ASSUME WellFormed(T), T.draining = FALSE
        PROVE  /\ WellFormed(calls') /\ Narrows(T, calls') /\ closed' = calls'.draining
    <2>1. CASE calls' = T /\ closed' = closed
      BY <1>0, <1>2, <2>1 DEF Inv, Narrows
    <2>2. CASE calls' = Drain(T) /\ closed' = TRUE
      BY <1>2, <2>2, DrainKeeps
    <2> QED  BY <2>1, <2>2
  <1>3. CASE ~Admitted(m) /\ m.kind # "call"
    <2>1. WellFormed(T) /\ Narrows(calls, T) /\ T.draining = FALSE
      BY <1>0, <1>3, CancelKeeps, CancelAllKeeps DEF Consumed, AfterSending, Narrows
    <2>2. replies' = replies /\ received' = received
      BY <1>1, <1>3 DEF ConsumeEffects
    <2>3. Narrows(calls, calls')
      BY <1>2, <2>1 DEF Narrows, Calls
    <2> QED  BY <1>2, <2>1, <2>2, <2>3, NarrowingStep DEF News, Inv
  <1>4. CASE ~Admitted(m) /\ m.kind = "call"
    <2> DEFINE r == m.request
    <2>1. r \in Requests /\ r \notin received
      BY <1>4 DEF Lines, MayCome, Malformed, AnsweredAtOnce, Silent
    <2>2. WellFormed(T) /\ Narrows(calls, T) /\ T.draining = FALSE
      BY <1>0, <1>4, CancelAllKeeps DEF Consumed, AfterSending, Narrows
    <2>3. WellFormed(calls') /\ Narrows(calls, calls') /\ closed' = calls'.draining
      BY <1>2, <2>2 DEF Narrows, Calls
    <2>4. received' = received \cup {r} /\ News = {r}
      BY <1>1, <1>4, <2>1 DEF News
    <2>5. PICK k \in {"duplicate", "busy"} : replies' = [replies EXCEPT ![r] = Append(@, k)]
      BY <1>4 DEF ConsumeEffects, Replied, Refusal
    <2> HIDE DEF r
    <2>6. /\ replies[r] = <<>> /\ replies'[r] = <<k>> /\ k \in Kinds /\ k \notin Endings
          /\ \A q \in Requests \ {r} : replies'[q] = replies[q]
          /\ replies' \in [Requests -> Seq(Kinds)]
      <3>1. replies[r] = <<>>  BY <2>1 DEF Inv
      <3>2. Append(<<>>, k) = <<k>> /\ k \in Kinds /\ k \notin Endings
        BY EndingsAreKinds DEF Kinds
      <3>3. replies \in [Requests -> Seq(Kinds)]  BY DEF Inv
      <3>4. replies'[r] = <<k>> /\ \A q \in Requests \ {r} : replies'[q] = replies[q]
        BY <2>1, <2>5, <3>1, <3>2, <3>3
      <3>5. replies' = [replies EXCEPT ![r] = <<k>>]
        BY <2>5, <3>1, <3>2
      <3>6. <<k>> \in Seq(Kinds)  BY <3>2
      <3>7. replies' \in [Requests -> Seq(Kinds)]  BY <3>3, <3>5, <3>6
      <3> QED  BY <3>1, <3>2, <3>4, <3>7
    <2>7. Calls(calls') \subseteq Calls(calls) /\ r \notin Calls(calls) /\ r \notin calls.aborted
      BY <2>1, <2>3 DEF Narrows, Calls, Inv
    <2>8. Inv'
      <3>1. received' \subseteq Requests  BY <2>1, <2>4 DEF Inv
      <3>2. Calls(calls') \cup calls'.aborted \subseteq received'
        BY <2>3, <2>4, <2>7 DEF Inv, Narrows
      <3>3. \A q \in Requests : q \notin received' \/ q \in Calls(calls') => replies'[q] = <<>>
        BY <2>4, <2>6, <2>7 DEF Inv
      <3> QED  BY <2>3, <2>6, <3>1, <3>2, <3>3 DEF Inv
    <2>9. \A q \in Requests :
            \/ replies'[q] = replies[q]
            \/ /\ replies[q] = <<>> /\ q \notin calls.aborted
               /\ q \notin Calls(calls')
               /\ \E kind \in Kinds : replies'[q] = <<kind>>
               /\ q \in News /\ replies'[q][1] \notin Endings
      <3> SUFFICES ASSUME NEW q \in Requests, q = r
                   PROVE  /\ replies[q] = <<>> /\ q \notin calls.aborted
                          /\ q \notin Calls(calls')
                          /\ \E kind \in Kinds : replies'[q] = <<kind>>
                          /\ q \in News /\ replies'[q][1] \notin Endings
        BY <2>6
      <3> QED  BY <2>4, <2>6, <2>7
    <2>10. Moved
      <3>1. /\ calls'.running = calls.running /\ calls'.queued \in {calls.queued, None}
            /\ calls.draining => calls'.draining
        BY <2>3 DEF Narrows
      <3>2. calls.running \notin News
        BY <2>1, <2>4, <2>7, McpAssumption DEF Calls
      <3> QED  BY <2>4, <2>9, <3>1, <3>2 DEF Moved
    <2> QED  BY <2>8, <2>10
  <1>5. CASE Admitted(m)
    <2> DEFINE r == m.request
    <2>1. r \in Requests /\ r \notin received /\ m.kind = "call"
      BY <1>5 DEF Admitted, Lines, MayCome, Malformed, AnsweredAtOnce, Silent
    <2>2. r \notin Calls(calls) /\ r \notin calls.aborted /\ replies[r] = <<>> /\ r # None
      BY <2>1, McpAssumption DEF Inv
    <2>3. T = Submit(calls, r) /\ ~IdInUse(calls, r) /\ ~IsFull(calls)
      BY <1>5 DEF Consumed, Admitted
    <2>4. received' = received \cup {r} /\ News = {r} /\ replies' = replies
      BY <1>1, <1>5, <2>1 DEF News, ConsumeEffects
    <2> HIDE DEF r
    <2>5. /\ WellFormed(T) /\ T.draining = FALSE /\ T.aborted = calls.aborted
          /\ \/ calls.running = None /\ T.running = r /\ T.queued = calls.queued
             \/ calls.running # None /\ T.running = calls.running /\ T.queued = r
      BY <1>0, <2>1, <2>2, <2>3, SubmitKeeps
    <2> HIDE DEF T
    <2>6. WellFormed(calls') /\ Narrows(T, calls') /\ closed' = calls'.draining
      BY <1>2, <2>5
    <2>7. Calls(T) \subseteq Calls(calls) \cup {r} /\ Calls(calls') \subseteq Calls(T)
      BY <2>5, <2>6 DEF Calls, Narrows
    <2>8. Inv'
      BY <2>1, <2>2, <2>4, <2>5, <2>6, <2>7 DEF Inv, Narrows
    <2>9. Moved
      BY <1>0, <2>1, <2>2, <2>4, <2>5, <2>6 DEF Moved, Narrows, WellFormed, Calls
    <2> QED  BY <2>8, <2>9
  <1> QED  BY <1>3, <1>4, <1>5

\* The running search settles.
LEMMA SettlingStep ==
  ASSUME Inv, EngineSettles
  PROVE  Inv' /\ Moved
  <1>1. PICK r \in Requests, kind \in Endings :
          /\ calls.running = r
          /\ LET n == IF r \in calls.aborted THEN 0 ELSE 1
             IN  /\ IF n = 1 THEN Replied(r, kind) ELSE UNCHANGED replies
                 /\ calls' = Complete(AfterSending(calls, n), r)
          /\ UNCHANGED <<closed, received>>
    BY DEF EngineSettles
  <1>2. PICK n : calls' = Complete(AfterSending(calls, n), r)
    BY <1>1
  <1> DEFINE T == AfterSending(calls, n)
  <1>3. WellFormed(T) /\ Narrows(calls, T) /\ T.draining = calls.draining
    BY CancelAllKeeps DEF AfterSending, Inv, Narrows
  <1> HIDE DEF T
  <1>4. T.running = r  BY <1>1, <1>3 DEF Narrows
  <1>5. /\ WellFormed(calls') /\ calls'.running = T.queued /\ calls'.queued = None
        /\ calls'.draining = calls.draining /\ calls'.aborted = T.aborted
    BY <1>2, <1>3, <1>4, CompleteKeeps DEF T
  <1>6. r # None /\ r \in Calls(calls) /\ r \in received /\ replies[r] = <<>>
    BY <1>1, McpAssumption DEF Inv, Calls
  <1>7. /\ Calls(calls') \subseteq Calls(calls) /\ r \notin Calls(calls')
        /\ calls'.aborted \subseteq received
    BY <1>1, <1>3, <1>5, <1>6 DEF Calls, Narrows, Inv, WellFormed
  <1>8. News = {}  BY <1>1 DEF News
  <1>9. \/ replies' = replies
        \/ r \notin calls.aborted /\ replies' = [replies EXCEPT ![r] = Append(@, kind)]
    BY <1>1 DEF Replied
  <1>10. /\ replies' \in [Requests -> Seq(Kinds)]
         /\ \A q \in Requests \ {r} : replies'[q] = replies[q]
         /\ replies'[r] = replies[r] \/ (r \notin calls.aborted /\ replies'[r] = <<kind>>)
    <2>1. replies \in [Requests -> Seq(Kinds)]  BY DEF Inv
    <2>2. CASE replies' = replies
      BY <2>1, <2>2
    <2>3. CASE r \notin calls.aborted /\ replies' = [replies EXCEPT ![r] = Append(@, kind)]
      <3>1. Append(<<>>, kind) = <<kind>> /\ kind \in Kinds  BY EndingsAreKinds
      <3>2. replies' = [replies EXCEPT ![r] = <<kind>>]  BY <1>6, <2>3, <3>1
      <3>3. <<kind>> \in Seq(Kinds)  BY <3>1
      <3> QED  BY <2>1, <2>3, <3>2, <3>3
    <2> QED  BY <1>9, <2>2, <2>3
  <1>11. Inv'
    <2>1. received' = received /\ closed' = closed  BY <1>1
    <2>2. Calls(calls') \cup calls'.aborted \subseteq received'
      BY <1>7, <2>1 DEF Inv
    <2>3. \A q \in Requests : q \notin received' \/ q \in Calls(calls') => replies'[q] = <<>>
      BY <1>6, <1>7, <1>10, <2>1 DEF Inv
    <2> QED  BY <1>5, <1>10, <2>1, <2>2, <2>3 DEF Inv
  <1>12. \A q \in Requests :
           \/ replies'[q] = replies[q]
           \/ /\ replies[q] = <<>> /\ q \notin calls.aborted
              /\ q \notin Calls(calls')
              /\ \E k \in Kinds : replies'[q] = <<k>>
              /\ q = calls.running /\ replies'[q][1] \in Endings
    <2> SUFFICES ASSUME r \notin calls.aborted, replies'[r] = <<kind>>
                 PROVE  /\ \E k \in Kinds : replies'[r] = <<k>>
                        /\ replies'[r][1] \in Endings
      BY <1>1, <1>6, <1>7, <1>10
    <2> QED  BY EndingsAreKinds
  <1>13. Moved
    BY <1>1, <1>3, <1>5, <1>6, <1>8, <1>12 DEF Moved, Narrows, Inv, WellFormed, Calls
  <1> QED  BY <1>11, <1>13

\* What every step does.
LEMMA NextMoves == Inv /\ [Next]_vars => Inv' /\ Moved
  <1> SUFFICES ASSUME Inv, [Next]_vars PROVE Inv' /\ Moved  OBVIOUS
  <1>1. WellFormed(calls) /\ closed = calls.draining /\ received \subseteq Requests
    BY DEF Inv
  <1>2. Narrows(calls, calls)  BY DEF Narrows
  <1>3. CASE Receive \/ InputEnds
    BY <1>3, LineStep DEF Receive, InputEnds
  <1>4. CASE EngineSettles
    BY <1>4, SettlingStep
  <1>5. ASSUME received' = received, replies' = replies, closed' = closed,
               \/ calls' = calls
               \/ calls' = CancelAll(calls)
               \/ \E n : calls' = AfterSending(calls, n)
        PROVE  Inv' /\ Moved
    <2>1. WellFormed(calls') /\ Narrows(calls, calls') /\ calls'.draining = calls.draining
      BY <1>1, <1>2, <1>5, CancelAllKeeps DEF AfterSending
    <2> QED  BY <1>1, <1>5, <2>1, NarrowingStep DEF News
  <1>6. CASE InputDestroyed
    <2>1. WellFormed(calls') /\ Narrows(calls, calls') /\ calls'.draining = TRUE
      BY <1>1, <1>6, DrainKeeps DEF InputDestroyed
    <2> QED  BY <1>1, <1>6, <2>1, NarrowingStep DEF InputDestroyed, historyVars, News
  <1>7. CASE Progress
    BY <1>5, <1>7 DEF Progress, historyVars
  <1>8. CASE ClientReads \/ Resolves
    BY <1>5, <1>8 DEF ClientReads, Resolves, historyVars
  <1>9. CASE OutputFails \/ GraceExpires
    BY <1>5, <1>9 DEF OutputFails, GraceExpires, historyVars
  <1>10. CASE Stopped \/ UNCHANGED vars
    BY <1>5, <1>10 DEF Stopped, vars, historyVars, serverVars
  <1> QED  BY <1>3, <1>4, <1>6, <1>7, <1>8, <1>9, <1>10 DEF Next

\* No request is read, and none answered, at first.
LEMMA InitHolds == Init => Inv
  <1> SUFFICES ASSUME Init PROVE Inv  OBVIOUS
  <1>1. /\ calls.running = None /\ calls.queued = None /\ calls.draining = FALSE
        /\ calls.aborted = {} /\ DOMAIN calls.active = {}
    BY DEF Init
  <1>2. calls \in Schedulers
    <2>1. [i \in {} |-> None] \in [{} -> Requests]  OBVIOUS
    <2>2. [i \in {} |-> None] \in UNION {[D -> Requests] : D \in SUBSET Ids}  BY <2>1
    <2> QED  BY <2>2 DEF Init, Schedulers
  <1>3. Calls(calls) = {}  BY <1>1 DEF Calls
  <1>4. WellFormed(calls)  BY <1>1, <1>2, <1>3 DEF WellFormed, ActiveFits
  <1>5. \A r \in Requests : replies[r] = <<>>  BY DEF Init
  <1>6. replies \in [Requests -> Seq(Kinds)]  BY DEF Init
  <1> QED  BY <1>1, <1>3, <1>4, <1>5, <1>6 DEF Init, Inv

\* The invariant holds in every reachable state.
THEOREM Invariance == Spec => []Inv
  BY InitHolds, NextMoves, PTL DEF Spec

-----------------------------------------------------------------------------
(* What follows.                                                           *)

\* A cancelled call never produces a later answer nor starts if it was waiting, and no
\* call is answered twice.
THEOREM TheCancelledAreSilent == Spec => CancelledIsSilent
  <1> DEFINE Silence ==
        /\ \A r \in Requests :
             replies'[r] # replies[r] => r \notin calls.aborted /\ replies[r] = <<>>
        /\ calls'.running \in calls.aborted => calls'.running = calls.running
  <1>1. Inv /\ Moved => Silence
    <2> SUFFICES ASSUME Inv, Moved PROVE Silence  OBVIOUS
    <2>1. calls.aborted \subseteq received /\ None \notin calls.aborted
      BY McpAssumption DEF Inv
    <2>2. calls'.running \in calls.aborted => calls'.running = calls.running
      BY <2>1 DEF Moved, News, Inv, WellFormed
    <2> QED  BY <2>2 DEF Moved
  <1>2. Inv /\ [Next]_vars => [Silence]_vars
    BY <1>1, NextMoves
  <1> QED  BY <1>2, Invariance, PTL DEF Spec, CancelledIsSilent

-----------------------------------------------------------------------------
(* The refinement of SearchSlots.                                          *)

\* What the phase of a request says of the calls and of its reply.
PhasesFit ==
  \A r \in Requests :
    /\ Phase(r) \in Slots!Phases
    /\ Phase(r) = "new" <=> r \notin received
    /\ Phase(r) = "running" <=> calls.running = r
    /\ Phase(r) = "waiting" <=> calls.queued = r
    /\ Phase(r) = "answered" => replies[r] # <<>> /\ replies[r][1] \in Endings

\* The phases are the calls and the replies seen from outside.
LEMMA PhasesDoFit == Inv => PhasesFit
  <1> SUFFICES ASSUME Inv, NEW r \in Requests
               PROVE  /\ Phase(r) \in Slots!Phases
                      /\ Phase(r) = "new" <=> r \notin received
                      /\ Phase(r) = "running" <=> calls.running = r
                      /\ Phase(r) = "waiting" <=> calls.queued = r
                      /\ Phase(r) = "answered" => replies[r] # <<>> /\ replies[r][1] \in Endings
    BY DEF PhasesFit
  <1>1. r # None  BY McpAssumption
  <1>2. r \in Calls(calls) => r \in received  BY DEF Inv
  <1>3. calls.running = r => calls.queued # r
    BY <1>1 DEF Inv, WellFormed
  <1> QED  BY <1>1, <1>2, <1>3 DEF Phase, Slots!Phases, Calls

\* A request moves as SearchSlots lets it.
LEMMA EachMoves ==
  ASSUME Inv, Inv', PhasesFit, PhasesFit', Moved, NEW r \in Requests
  PROVE  <<Phase(r), Phase(r)'>> \in Slots!Moves
  <1>1. /\ r # None /\ (r \in News <=> r \notin received /\ r \in received')
        /\ r \in received => r \in received'
    BY McpAssumption DEF Moved, News
  <1>2. /\ Phase(r) \in Slots!Phases /\ Phase(r)' \in Slots!Phases
        /\ Phase(r) = "new" <=> r \notin received
        /\ Phase(r) = "running" <=> calls.running = r
        /\ Phase(r) = "waiting" <=> calls.queued = r
        /\ Phase(r)' = "running" <=> calls'.running = r
        /\ Phase(r)' = "waiting" <=> calls'.queued = r
        /\ Phase(r)' = "answered" => replies'[r] # <<>> /\ replies'[r][1] \in Endings
    BY DEF PhasesFit
  <1>3. /\ r \in {calls.running, calls.queued} => r \in received /\ replies[r] = <<>>
        /\ calls.running = r => calls.queued # r
    BY <1>1 DEF Inv, WellFormed, Calls
  <1>4. /\ calls'.running = r => r \in {calls.running, calls.queued} \/ r \in News
        /\ calls'.queued = r => r = calls.queued \/ r \in News
    BY <1>1 DEF Moved
  <1>5. \/ replies'[r] = replies[r]
        \/ /\ replies[r] = <<>> /\ replies'[r] # <<>>
           /\ \/ r = calls.running /\ replies'[r][1] \in Endings
              \/ r \in News /\ replies'[r][1] \notin Endings
    BY DEF Moved
  <1>6. CASE Phase(r) = "new"
    <2>1. r \notin received /\ replies[r] = <<>> /\ r # calls.running
      BY <1>2, <1>3, <1>6 DEF Inv
    <2>2. Phase(r)' # "answered"
      BY <1>2, <1>5, <2>1
    <2> QED  BY <1>2, <1>6, <2>2 DEF Slots!Moves, Slots!Phases
  <1>7. CASE Phase(r) = "waiting"
    <2>1. r \in received /\ r \in received' /\ r # calls.running /\ replies[r] = <<>>
      BY <1>1, <1>2, <1>3, <1>7
    <2>2. replies'[r] = <<>>  BY <1>1, <1>5, <2>1
    <2>3. Phase(r)' \in {"running", "waiting", "silent"}
      BY <2>1, <2>2 DEF Phase
    <2> QED  BY <1>7, <2>3 DEF Slots!Moves, Slots!Phases
  <1>8. CASE Phase(r) = "running"
    <2>1. r \in received /\ r \in received' /\ r # calls.queued /\ replies[r] = <<>>
      BY <1>1, <1>2, <1>3, <1>8
    <2>2. calls'.queued # r /\ r \notin News  BY <1>1, <1>4, <2>1
    <2>3. replies'[r] = <<>> \/ replies'[r][1] \in Endings
      BY <1>5, <2>1, <2>2
    <2>4. Phase(r)' \in {"running", "silent", "answered"}
      BY <2>1, <2>2, <2>3 DEF Phase
    <2> QED  BY <1>8, <2>4 DEF Slots!Moves, Slots!Phases
  <1>9. CASE Phase(r) \in {"silent", "answered", "refused"}
    <2>1. r \in received /\ r \in received' /\ r # calls.running /\ r # calls.queued
      BY <1>1, <1>2, <1>9
    <2>2. calls'.running # r /\ calls'.queued # r /\ replies'[r] = replies[r]
      BY <1>1, <1>4, <1>5, <2>1
    <2>3. Phase(r)' = Phase(r)
      BY <2>1, <2>2 DEF Phase
    <2> QED  BY <1>2, <2>3 DEF Slots!Moves
  <1> QED  BY <1>2, <1>6, <1>7, <1>8, <1>9 DEF Slots!Phases

\* The slots fill up as SearchSlots lets them.
LEMMA StepRefines ==
  ASSUME Inv, Inv', PhasesFit, PhasesFit', Moved
  PROVE  Slots!Next
  <1>1. (~calls'.draining) \in BOOLEAN /\ (~calls'.draining => ~calls.draining)
    BY DEF Moved
  <1>2. [r \in Requests |-> Phase(r)]' \in [Requests -> Slots!Phases]
    BY DEF PhasesFit
  <1>3. \A r \in Requests : <<Phase(r), Phase(r)'>> \in Slots!Moves
    BY EachMoves
  <1>4. \A q, r \in Requests :
          Phase(q)' = Phase(r)' /\ Phase(r)' \in {"running", "waiting"} => q = r
    BY DEF PhasesFit
  <1>5. /\ Slots!In("running") = {r \in Requests : calls.running = r}
        /\ Slots!In("waiting") = {r \in Requests : calls.queued = r}
        /\ Slots!In("new") = {r \in Requests : r \notin received}
    BY DEF PhasesFit, Slots!In
  <1>6. /\ Slots!In("running")' = {r \in Requests : calls'.running = r}
        /\ Slots!In("waiting")' = {r \in Requests : calls'.queued = r}
    BY DEF PhasesFit, Slots!In
  <1>7. Slots!In("waiting")' # {} => Slots!In("running")' # {} /\ ~calls'.draining
    <2>1. ASSUME NEW r \in Requests, calls'.queued = r
          PROVE  calls'.running \in Requests /\ ~calls'.draining
      BY <2>1, McpAssumption DEF Inv, WellFormed, Schedulers
    <2> QED  BY <1>6, <2>1
  <1>8. Slots!In("running")' \subseteq Slots!In("running") \/ ~calls.draining
    <2> SUFFICES ASSUME NEW r \in Requests, calls'.running = r, calls.draining
                 PROVE  calls.running = r
      BY <1>5, <1>6
    <2>1. calls.queued = None /\ r # None  BY McpAssumption DEF Inv, WellFormed
    <2> QED  BY <2>1 DEF Moved
  <1>9. Slots!In("waiting") # {} => Slots!In("running")' \cap Slots!In("new") = {}
    <2> SUFFICES ASSUME NEW q \in Requests, calls.queued = q,
                        NEW r \in Requests, calls'.running = r, r \notin received
                 PROVE  FALSE
      BY <1>5, <1>6
    <2>1. q # None /\ r # None  BY McpAssumption
    <2>2. r \in News  BY <2>1 DEF Inv, Calls, News
    <2>3. calls.running # None  BY <2>1 DEF Inv, WellFormed
    <2> QED  BY <2>2, <2>3 DEF Moved
  <1> QED  BY <1>1, <1>2, <1>3, <1>4, <1>7, <1>8, <1>9 DEF Slots!Next

\* The server implements its promise: one search runs, one waits, the others are
\* refused, none is answered twice, and none starts once the input closed.
THEOREM ServerImplementsSlots == Spec => ImplementsSlots
  <1>1. Init => Slots!Init
    BY DEF Init, Slots!Init, Phase
  <1>2. Inv /\ Inv' /\ [Next]_vars => [Slots!Next]_(Slots!vars)
    <2>1. Inv' => PhasesFit'  BY PhasesDoFit, PTL
    <2>2. ASSUME Inv, Inv', [Next]_vars PROVE Slots!Next
      BY <2>1, <2>2, NextMoves, PhasesDoFit, StepRefines
    <2> QED  BY <2>2
  <1> QED  BY <1>1, <1>2, Invariance, PTL DEF Spec, ImplementsSlots, Slots!Spec

=============================================================================
