------------------------------- MODULE McpServer -------------------------------
(***************************************************************************)
(* The stdio MCP server of src/mcp.ts and its call scheduler,              *)
(* src/mcp-calls.ts: the admission, cancellation and answering of tool     *)
(* calls, the bound on unread output, and the shutdown.                    *)
(*                                                                         *)
(* A step is one macrotask and the promise callbacks it drains: a line     *)
(* read from the client, an engine promise that settles, a timer, a stream *)
(* event.  The engine is external: a search settles in its own time.       *)
(***************************************************************************)
EXTENDS Naturals, Sequences, FiniteSets

CONSTANTS
  Requests,    \* the tools/call requests the client may send, once each
  Ids,         \* JSON-RPC ids
  IdOf,        \* the id of each request; a client may use one twice
  None,        \* no call
  MaxPending   \* MAX_PENDING_OUTPUT_BYTES, in messages

ASSUME McpAssumption ==
  /\ IdOf \in [Requests -> Ids]
  /\ None \notin Requests
  /\ MaxPending \in Nat

VARIABLES
  calls,      \* the state of createCallScheduler, and its calls' controllers
  inFlight,   \* calls whose tracked promise is pending
  pending,    \* output.writableLength, in messages
  abandoned,  \* the client stopped reading or the stream broke
  closed,     \* the input ended and the queue was drained
  graceOver,  \* the grace period after that is over
  resolved,   \* the promise of runMcpServer settled
  received,   \* history: the requests read so far
  replies     \* history: what was answered to each request

serverVars  == <<pending, abandoned, closed, graceOver, resolved>>
historyVars == <<received, replies>>
vars == <<calls, inFlight, serverVars, historyVars>>

-----------------------------------------------------------------------------
(* createCallScheduler: each operation maps the scheduler's state S to the *)
(* state it leaves.                                                        *)

IdInUse(S, r) == IdOf[r] \in DOMAIN S.active

IsFull(S) == S.running # None /\ S.queued # None

Without(f, x) == [y \in DOMAIN f \ {x} |-> f[y]]

\* dropQueued: the queued call settles without running.
DropQueued(S) ==
  IF S.queued = None THEN S
  ELSE [S EXCEPT !.queued = None,
                 !.active = Without(S.active, IdOf[S.queued]),
                 !.settled = @ \cup {S.queued}]

\* Mutant of Complete: the queued call is left for the next submission.
CompleteOnly(S, r) ==
  [S EXCEPT !.active  = Without(S.active, IdOf[r]),
            !.settled = @ \cup {r},
            !.running = None]

\* execute, from its finally block on: the next call starts in the same step.
Complete(S, r) ==
  [S EXCEPT !.active  = Without(S.active, IdOf[r]),
            !.settled = @ \cup {r},
            !.running = S.queued,
            !.queued  = None]

Submit(S, r) ==
  IF S.draining THEN [S EXCEPT !.settled = @ \cup {r}]
  ELSE LET admitted == [i \in DOMAIN S.active \cup {IdOf[r]} |->
                          IF i = IdOf[r] THEN r ELSE S.active[i]]
       IN  IF S.running = None THEN [S EXCEPT !.active = admitted, !.running = r]
                               ELSE [S EXCEPT !.active = admitted, !.queued = r]

Cancel(S, id) ==
  IF id \notin DOMAIN S.active THEN S
  ELSE LET aborted == [S EXCEPT !.aborted = @ \cup {S.active[id]}]
       IN  IF S.queued = S.active[id] THEN DropQueued(aborted) ELSE aborted

\* Mutant of CancelAll: what runs is left to finish.
CancelQueued(S) == DropQueued(S)

CancelAll(S) ==
  DropQueued([S EXCEPT !.aborted = @ \cup {S.active[i] : i \in DOMAIN S.active}])

\* Mutant of Drain: submissions are refused, the queue is kept.
DrainSubmissions(S) == [S EXCEPT !.draining = TRUE]

Drain(S) == DropQueued([S EXCEPT !.draining = TRUE])

-----------------------------------------------------------------------------
(* Output.                                                                 *)

\* Writing n messages (none or one) leaves more unread than is allowed.
Overflows(n) == ~abandoned /\ pending + n > MaxPending

\* send: n messages are written, and an overflow abandons the client.
Written(n) == /\ pending' = IF abandoned THEN pending ELSE pending + n
              /\ abandoned' = (abandoned \/ Overflows(n))

\* The calls after the n messages were sent: abandon cancels them all.
AfterSending(S, n) == IF Overflows(n) THEN CancelAll(S) ELSE S

\* A reply to request r is written, unless the client was abandoned.
Replied(r, kind) ==
  replies' = IF abandoned THEN replies
             ELSE [replies EXCEPT ![r] = Append(@, kind)]

\* The promises that the scheduler's new state settles.
Settle == inFlight' = inFlight \ calls'.settled

-----------------------------------------------------------------------------
(* Lines from the client: a call, a cancellation, anything that is         *)
(* answered at once, anything that is not answered.                        *)

\* Lines that no request, or no valid one, can be made of: an id that is no id, a
\* message too large.
Malformed == {"unparsable", "invalid", "oversized"}

\* Methods that are answered in the step that reads them, a call of no tool included.
AnsweredAtOnce == {"initialize", "ping", "tools/list", "unsupported", "unknown tool"}

\* Notifications, a request without an id, an empty line.
Silent == {"notification", "no id", "blank"}

Lines == [kind : {"call"}, request : Requests] \cup
         [kind : {"cancel"}, id : Ids] \cup
         [kind : Malformed \cup AnsweredAtOnce \cup Silent]

\* A line that may still come: each request is one line.
MayCome(m) == m.kind = "call" => m.request \notin received

Admitted(m) == m.kind = "call" /\ ~IdInUse(calls, m.request) /\ ~IsFull(calls)

Refusal(r) == IF IdInUse(calls, r) THEN "duplicate" ELSE "busy"

\* The messages that a line is answered with at once.
RepliesTo(m) ==
  IF m.kind \in Malformed \cup AnsweredAtOnce \/ (m.kind = "call" /\ ~Admitted(m)) THEN 1 ELSE 0

\* consume, without the drain that may follow: the scheduler's next state.
Consumed(m) ==
  IF Admitted(m) THEN Submit(calls, m.request)
  ELSE IF m.kind = "cancel" THEN Cancel(calls, m.id)
  ELSE AfterSending(calls, RepliesTo(m))

\* consume, but for the scheduler: what is written and tracked.
ConsumeEffects(m) ==
  /\ Written(RepliesTo(m))
  /\ received' = received \cup (IF m.kind = "call" THEN {m.request} ELSE {})
  /\ inFlight' = (inFlight \cup (IF Admitted(m) THEN {m.request} ELSE {}))
                 \ calls'.settled
  /\ IF m.kind = "call" /\ ~Admitted(m) THEN Replied(m.request, Refusal(m.request))
                                        ELSE UNCHANGED replies

\* One line of a chunk.
Receive ==
  \E m \in Lines :
    /\ ~closed /\ ~abandoned /\ MayCome(m)
    /\ calls' = Consumed(m)
    /\ ConsumeEffects(m)
    /\ UNCHANGED <<closed, graceOver, resolved>>

\* The client closes its input, perhaps on an unterminated last line.
InputEnds ==
  \E m \in Lines :
    /\ ~closed /\ ~abandoned /\ MayCome(m)
    /\ calls' = Drain(Consumed(m))
    /\ ConsumeEffects(m)
    /\ closed' = TRUE
    /\ UNCHANGED <<graceOver, resolved>>

\* The input destroyed by abandon closes.
InputDestroyed ==
  /\ ~closed /\ abandoned
  /\ calls' = Drain(calls)
  /\ Settle
  /\ closed' = TRUE
  /\ UNCHANGED <<pending, abandoned, graceOver, resolved, historyVars>>

-----------------------------------------------------------------------------
(* The engine, the client's end of the output, and the timer.              *)

Outcomes == {"complete", "partial", "rejected", "error"}

\* toolResult, manyToolResult: one question or several, an error when all of them failed.
ToolResult(outcomes) ==
  IF outcomes \subseteq {"rejected", "error"} THEN "isError" ELSE "result"

\* A search throws, or ends with the outcomes of its questions.
Endings == {"failure"} \cup {ToolResult(S) : S \in SUBSET Outcomes \ {{}}}

\* Mutant of EngineSettles: the answer does not look at the abort.
EngineSettlesAnyway ==
  \E r \in Requests, kind \in Endings :
    /\ calls.running = r
    /\ Written(1)
    /\ Replied(r, kind)
    /\ calls' = Complete(AfterSending(calls, 1), r)
    /\ Settle
    /\ UNCHANGED <<closed, graceOver, resolved, received>>

\* The running search settles, with an outcome or by throwing: its answer is
\* sent unless it was aborted, and the scheduler goes on.
EngineSettles ==
  \E r \in Requests, kind \in Endings :
    /\ calls.running = r
    /\ LET n == IF r \in calls.aborted THEN 0 ELSE 1
       IN  /\ Written(n)
           /\ IF n = 1 THEN Replied(r, kind) ELSE UNCHANGED replies
           /\ calls' = Complete(AfterSending(calls, n), r)
    /\ Settle
    /\ UNCHANGED <<closed, graceOver, resolved, received>>

\* The running search notifies its progress.
Progress ==
  /\ calls.running # None /\ ~abandoned
  /\ Written(1)
  /\ calls' = AfterSending(calls, 1)
  /\ Settle
  /\ UNCHANGED <<closed, graceOver, resolved, historyVars>>

\* The client reads a message.
ClientReads ==
  /\ pending > 0
  /\ pending' = pending - 1
  /\ UNCHANGED <<calls, inFlight, abandoned, closed, graceOver, resolved, historyVars>>

\* The output stream fails.
OutputFails ==
  /\ ~abandoned /\ ~resolved
  /\ abandoned' = TRUE
  /\ calls' = CancelAll(calls)
  /\ Settle
  /\ UNCHANGED <<pending, closed, graceOver, resolved, historyVars>>

\* MCP_CLOSE_GRACE_MS after the close, what still runs is cancelled.
GraceExpires ==
  /\ closed /\ ~resolved /\ ~graceOver
  /\ graceOver' = TRUE
  /\ calls' = CancelAll(calls)
  /\ Settle
  /\ UNCHANGED <<pending, abandoned, closed, resolved, historyVars>>

\* Every tracked promise settled: the server's own promise resolves.
Resolves ==
  /\ closed /\ ~resolved /\ inFlight = {}
  /\ resolved' = TRUE
  /\ UNCHANGED <<calls, inFlight, pending, abandoned, closed, graceOver, historyVars>>

Stopped == resolved /\ UNCHANGED vars

Init ==
  /\ calls = [active |-> [i \in {} |-> None], running |-> None, queued |-> None,
              draining |-> FALSE, aborted |-> {}, settled |-> {}]
  /\ inFlight = {} /\ pending = 0
  /\ abandoned = FALSE /\ closed = FALSE /\ graceOver = FALSE /\ resolved = FALSE
  /\ received = {}
  /\ replies = [r \in Requests |-> <<>>]

Next ==
  \/ Receive \/ InputEnds \/ InputDestroyed
  \/ EngineSettles \/ Progress
  \/ ClientReads \/ OutputFails
  \/ GraceExpires \/ Resolves \/ Stopped

Spec == Init /\ [][Next]_vars

\* Timers and stream events come.  An aborted search settles; nothing is
\* assumed of the others.
Fairness ==
  /\ WF_vars(InputDestroyed) /\ WF_vars(GraceExpires) /\ WF_vars(Resolves)
  /\ WF_vars(calls.running \in calls.aborted /\ EngineSettles)

FairSpec == Spec /\ Fairness

-----------------------------------------------------------------------------
(* Properties.                                                             *)

\* A cancelled call never produces a later answer (src/mcp.ts:21) nor starts if
\* it was waiting (src/mcp-calls.ts:25), and no call is answered twice.
CancelledIsSilent ==
  [][/\ \A r \in Requests :
          replies'[r] # replies[r] => r \notin calls.aborted /\ replies[r] = <<>>
     /\ calls'.running \in calls.aborted => calls'.running = calls.running]_vars

\* Every admitted call is answered, unless it is cancelled or the server closes,
\* if every search settles, by its deadline at the latest.
EveryCallAnswered ==
  WF_vars(EngineSettles) =>
    \A r \in Requests :
      r \in inFlight ~> replies[r] # <<>> \/ r \in calls.aborted \/ closed

\* Closing the input, or not reading the output, ends the server (src/mcp.ts:22-25).
CloseTerminates == closed \/ abandoned ~> resolved

-----------------------------------------------------------------------------
(* The refinement of SearchSlots.                                          *)

Phase(r) ==
  IF r \notin received THEN "new"
  ELSE IF calls.running = r THEN "running"
  ELSE IF calls.queued = r THEN "waiting"
  ELSE IF replies[r] = <<>> THEN "silent"
  ELSE IF replies[r][1] \in Endings THEN "answered" ELSE "refused"

Slots == INSTANCE SearchSlots WITH
  phase <- [r \in Requests |-> Phase(r)], open <- ~calls.draining

\* One search runs, one waits, the others are refused, and none starts once the
\* input closed.
ImplementsSlots == Slots!Spec
=============================================================================
