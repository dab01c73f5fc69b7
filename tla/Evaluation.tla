------------------------------ MODULE Evaluation ------------------------------
(***************************************************************************)
(* The remote evaluation of one search: runEvaluations of                  *)
(* src/evaluation/scheduler.ts, driven by the handlers that src/engine.ts  *)
(* gives it (admission, score collection, usage settlement), under the     *)
(* deadline and the client cancellation of SearchContext                   *)
(* (src/lifecycle.ts), up to the stop reasons of the final report.  What   *)
(* an attempt brings back is computed in ProviderExchange.                 *)
(*                                                                         *)
(* A step is the code between two awaits.  Workers are the promises that   *)
(* runEvaluations starts; they share the cursor, the terminal flag, the    *)
(* cool-down and the usage account, and the clock may move between any two *)
(* steps.  Time is in ticks and stops mattering at the deadline.           *)
(***************************************************************************)
EXTENDS ProviderExchange, FiniteSets

CONSTANTS
  Workers,        \* the worker promises, min(max(1, concurrency), batches)
  NumBatches,     \* batches of the admitted plan, in plan order
  MaxRetries,     \* retry.max_retries
  BaseDelay,      \* retry.base_delay_ms, in ticks
  MaxDelay,       \* retry.max_delay_ms, in ticks
  RetryAmbiguous, \* retry.retry_ambiguous
  RetryAfters,    \* Retry-After values the provider sends, 0 when it sends none
  Deadline,       \* tick at which the search deadline expires
  MaxWeight,      \* provider limit on the tokens and the bytes of one batch
  BatchTokens,    \* estimated input tokens of each batch, at least 1
  BatchBytes,     \* serialized bytes of each batch
  ReportedTokens, \* input tokens an answer may report
  EnabledCaps,    \* the enabled scan caps: a function from cap names
  Price,          \* price of PriceUnit tokens, in cost units
  PriceUnit       \* TOKENS_PER_PRICE_UNIT

Batches  == 1 .. NumBatches
Attempts == 0 .. MaxRetries
NoBatch  == 0

CapNames == {"request_attempts", "transmitted_bytes",
             "estimated_input_tokens", "estimated_cost_usd"}

ASSUME EvaluationAssumption ==
  /\ IsFiniteSet(Workers) /\ Workers # {}
  /\ NumBatches \in Nat \ {0}
  /\ MaxRetries \in Nat
  /\ BaseDelay \in Nat /\ MaxDelay \in Nat
  /\ RetryAmbiguous \in BOOLEAN
  /\ RetryAfters \subseteq Nat
  /\ Deadline \in Nat
  /\ MaxWeight \in Nat
  /\ BatchTokens \in [Batches -> 1 .. MaxWeight]
  /\ BatchBytes \in [Batches -> 0 .. MaxWeight]
  /\ ReportedTokens \subseteq Nat
  /\ \E D \in SUBSET CapNames : EnabledCaps \in [D -> Nat]
  /\ Price \in Nat /\ PriceUnit \in Nat \ {0}

VARIABLES
  \* SearchContext
  now,            \* clock.nowMs, counted from the start of the search
  stop,           \* #stop: "none", "deadline" or "client_cancelled"
  stopReasons,    \* #stopReasons
  \* shared by the workers of runEvaluations
  next,           \* index of the next batch no worker has taken
  terminal,       \* no further dispatch
  aborted,        \* controller.signal: a worker threw
  cooldownUntil,  \* shared rate-limit pause
  \* each worker
  pc,             \* "pausing", "ready", "inflight" or "done"
  batch,          \* the batch it holds, NoBatch between batches
  attempt,        \* the attempt it is at
  until,          \* what its pause waits for
  \* the engine
  usage,          \* UsageAccount
  scores,         \* per batch: "none", "partial" or "full"
  outcome,        \* "running", "reported" or "rejected"
  \* history, read by no action
  ledger          \* what became of each attempt of each batch

contextVars == <<now, stop, stopReasons>>
sharedVars  == <<next, terminal, aborted, cooldownUntil>>
workerVars  == <<pc, batch, attempt, until>>
engineVars  == <<usage, scores, outcome>>
vars == <<contextVars, sharedVars, workerVars, engineVars, ledger>>

-----------------------------------------------------------------------------
(* The failures of an attempt.                                             *)

\* The failure the scheduler makes of an aborted wait.
AbortFailure == Failure("PROVIDER_UNAVAILABLE", NoStatus, FALSE, TRUE)

Fatal(f) ==
  \/ f.code \in {"PROVIDER_AUTH", "PROVIDER_QUOTA"}
  \/ f.status \in 400 .. 499 /\ f.status # 429

-----------------------------------------------------------------------------
(* SearchContext.                                                          *)

\* What `stop` answers: reading it is also what notices an expired deadline.
ObservedStop == IF stop = "none" /\ now >= Deadline THEN "deadline" ELSE stop

CanStartWork == ObservedStop = "none"

ReasonOf(s) == IF s = "deadline" THEN {"DEADLINE"}
               ELSE IF s = "client_cancelled" THEN {"CANCELLED"}
               ELSE {}

\* The context once `s` was read off it and the reasons `R` were added to it.
Note(s, R) == /\ stop' = s
              /\ stopReasons' = stopReasons \cup ReasonOf(s) \cup R

\* The clock.
Tick ==
  /\ outcome = "running" /\ now < Deadline
  /\ now' = now + 1
  /\ UNCHANGED <<stop, stopReasons, sharedVars, workerVars, engineVars, ledger>>

\* The sleep that the constructor starts comes due.
DeadlineTimer ==
  /\ outcome = "running" /\ stop = "none" /\ now >= Deadline
  /\ Note("deadline", {})
  /\ UNCHANGED <<now, sharedVars, workerVars, engineVars, ledger>>

\* cancel(), or the client's own signal.
ClientCancel ==
  /\ outcome = "running" /\ stop = "none"
  /\ Note("client_cancelled", {})
  /\ UNCHANGED <<now, sharedVars, workerVars, engineVars, ledger>>

-----------------------------------------------------------------------------
(* The usage account.                                                      *)

Cost(tokens) == (tokens * Price + PriceUnit - 1) \div PriceUnit

Over(cap, amount) == cap \in DOMAIN EnabledCaps /\ amount > EnabledCaps[cap]

\* Mutant of ExceedsEnabledCaps: tokens in flight are not counted.
ExceedsSettledCaps(b) ==
  LET projected == usage.known + BatchTokens[b]
  IN  \/ Over("request_attempts", usage.attempts + 1)
      \/ Over("transmitted_bytes", usage.bytes + BatchBytes[b])
      \/ Over("estimated_input_tokens", projected)
      \/ Over("estimated_cost_usd", Cost(projected))

\* One more batch would pass a cap, what is in flight included.
ExceedsEnabledCaps(b) ==
  LET projected == usage.known + usage.reserved + BatchTokens[b]
  IN  \/ Over("request_attempts", usage.attempts + 1)
      \/ Over("transmitted_bytes", usage.bytes + BatchBytes[b])
      \/ Over("estimated_input_tokens", projected)
      \/ Over("estimated_cost_usd", Cost(projected))

\* The reservation of one more attempt, made before the provider is awaited.
Reserve(b) == [usage EXCEPT !.attempts = @ + 1,
                            !.bytes    = @ + BatchBytes[b],
                            !.reserved = @ + BatchTokens[b]]

\* Mutant of Settle: what is released is what was reported.
SettleReported(b, tokens) == [usage EXCEPT !.reserved = @ - tokens,
                                           !.known    = @ + tokens]

\* A reported usage replaces its reservation.
Settle(b, tokens) == [usage EXCEPT !.reserved = @ - BatchTokens[b],
                                   !.known    = @ + tokens]

\* An unreported usage leaves the reservation standing.
Unresolved == [usage EXCEPT !.unknown = @ + 1]

Overrun(u) == \/ Over("estimated_input_tokens", u.known + u.reserved)
              \/ Over("estimated_cost_usd", Cost(u.known + u.reserved))

-----------------------------------------------------------------------------
(* Workers.                                                                *)

\* The worker leaves for good.
Leave(w) == pc' = [pc EXCEPT ![w] = "done"]

\* Back at the head of the worker's loop, with no batch.
NextBatch(w) ==
  /\ pc' = [pc EXCEPT ![w] = IF next < NumBatches THEN "pausing" ELSE "done"]
  /\ batch' = [batch EXCEPT ![w] = NoBatch]
  /\ attempt' = [attempt EXCEPT ![w] = 0]
  /\ until' = [until EXCEPT ![w] = 0]

\* pauseUntil returns true: its own wait and the shared cool-down are over.
PauseOver(w) ==
  /\ pc[w] = "pausing"
  /\ ~terminal /\ CanStartWork
  /\ until[w] <= now /\ cooldownUntil <= now
  /\ pc' = [pc EXCEPT ![w] = "ready"]
  /\ UNCHANGED <<contextVars, sharedVars, batch, attempt, until, engineVars,
                 ledger>>

\* pauseUntil returns false: the worker returns.
PauseAbandoned(w) ==
  /\ pc[w] = "pausing"
  /\ terminal \/ ~CanStartWork
  /\ Note(IF terminal THEN stop ELSE ObservedStop, {})
  /\ Leave(w)
  /\ UNCHANGED <<now, sharedVars, batch, attempt, until, engineVars, ledger>>

\* The batch a ready worker goes on with: the one it holds or the next one.
BatchInHand(w) == IF batch[w] = NoBatch THEN next + 1 ELSE batch[w]

TakeBatch(w) ==
  /\ next' = IF batch[w] = NoBatch THEN next + 1 ELSE next
  /\ batch' = [batch EXCEPT ![w] = BatchInHand(w)]

\* Every batch was taken while the worker waited: batches[next++] is undefined.
NothingLeft(w) ==
  /\ pc[w] = "ready" /\ BatchInHand(w) > NumBatches
  /\ next' = next + 1
  /\ Leave(w)
  /\ UNCHANGED <<contextVars, terminal, aborted, cooldownUntil, batch, attempt,
                 until, engineVars, ledger>>

\* The search stopped, or another worker ended it, since the pause.
StandDown(w) ==
  /\ pc[w] = "ready" /\ BatchInHand(w) <= NumBatches
  /\ terminal \/ ~CanStartWork \/ aborted
  /\ Note(IF terminal THEN stop ELSE ObservedStop, {})
  /\ TakeBatch(w)
  /\ Leave(w)
  /\ UNCHANGED <<now, terminal, aborted, cooldownUntil, attempt, until,
                 engineVars, ledger>>

\* Mutant of Admitting: the checks of the pause are not repeated after it.
AdmittingUnchecked(w) ==
  /\ pc[w] = "ready" /\ BatchInHand(w) <= NumBatches
  /\ ~aborted

\* A ready worker that may still start work holds a batch to admit.
Admitting(w) ==
  /\ pc[w] = "ready" /\ BatchInHand(w) <= NumBatches
  /\ ~terminal /\ CanStartWork /\ ~aborted

\* The root or a source file of the batch changed: onDispatch throws, the
\* worker rejects, and runEvaluations aborts what the others have in flight.
AdmissionThrows(w) ==
  /\ Admitting(w)
  /\ terminal' = TRUE /\ aborted' = TRUE
  /\ TakeBatch(w)
  /\ Leave(w)
  /\ UNCHANGED <<contextVars, cooldownUntil, attempt, until, engineVars, ledger>>

\* An enabled cap has no room for the batch: nobody dispatches any more.
CapReached(w) ==
  /\ Admitting(w) /\ ExceedsEnabledCaps(BatchInHand(w))
  /\ Note(stop, {"SCAN_CAP_REACHED"})
  /\ terminal' = TRUE
  /\ TakeBatch(w)
  /\ Leave(w)
  /\ UNCHANGED <<now, aborted, cooldownUntil, attempt, until, engineVars, ledger>>

\* The deadline passed during the synchronous checks of the admission.
DeadlineInAdmission(w) ==
  /\ Admitting(w) /\ ~ExceedsEnabledCaps(BatchInHand(w))
  /\ now' = Deadline
  /\ Note("deadline", {})
  /\ terminal' = TRUE
  /\ TakeBatch(w)
  /\ Leave(w)
  /\ UNCHANGED <<aborted, cooldownUntil, attempt, until, engineVars, ledger>>

\* The batch is admitted, its attempt reserved and sent.
Dispatch(w) ==
  /\ Admitting(w) /\ ~ExceedsEnabledCaps(BatchInHand(w))
  /\ usage' = Reserve(BatchInHand(w))
  /\ TakeBatch(w)
  /\ pc' = [pc EXCEPT ![w] = "inflight"]
  /\ ledger' = [ledger EXCEPT ![<<BatchInHand(w), attempt[w]>>] = "inflight"]
  /\ UNCHANGED <<contextVars, terminal, aborted, cooldownUntil, attempt, until,
                 scores, outcome>>

-----------------------------------------------------------------------------
(* What comes back.                                                        *)

Backoff(a) == IF BaseDelay * 2^a < MaxDelay THEN BaseDelay * 2^a ELSE MaxDelay

\* The jittered back-offs of attempt a: half to all of it, rounded up.
Jittered(a) == {d \in 0 .. Backoff(a) : 2 * d >= Backoff(a)}

Longer(x, y) == IF x > y THEN x ELSE y

\* Mutant of WillRetry: an ambiguous failure is retried like any other.
WillRetryAmbiguous(w, f, cancelled) ==
  /\ ~terminal /\ ~Fatal(f) /\ CanStartWork
  /\ ~cancelled
  /\ attempt[w] < MaxRetries
  /\ f.retryable

\* A refused attempt may be repeated.
WillRetry(w, f, cancelled) ==
  /\ ~terminal /\ ~Fatal(f) /\ CanStartWork
  /\ ~cancelled
  /\ attempt[w] < MaxRetries
  /\ f.retryable
  /\ f.ambiguous => RetryAmbiguous

\* Mutant of CooldownAfter: the last rate limit wins.
LatestCooldown(f, delay) ==
  IF f.code = "PROVIDER_RATE_LIMIT" THEN now + delay ELSE cooldownUntil

\* A rate limit pauses every worker; a pause is never shortened.
CooldownAfter(f, delay) ==
  IF f.code = "PROVIDER_RATE_LIMIT" THEN Longer(cooldownUntil, now + delay)
                                    ELSE cooldownUntil

\* Mutant of FailureReasons: a retryable failure counts as retried.
ReasonsUnlessRetryable(w, f, cancelled) ==
  {"USAGE_UNKNOWN"} \cup IF f.retryable \/ cancelled THEN {} ELSE {f.code}

\* What onFailure adds to the stop reasons: the code of an attempt that was
\* the batch's last, unless the search itself was stopped.
FailureReasons(w, f, cancelled) ==
  {"USAGE_UNKNOWN"} \cup
  IF WillRetry(w, f, cancelled) \/ (cancelled /\ ObservedStop # "none")
  THEN {} ELSE {f.code}

\* The catch block: an attempt failed with f, to be repeated after delay if at
\* all.  Its reservation stands and its usage is unknown.  `billed` is what the
\* code cannot know: whether the provider may have evaluated the attempt.
HandleFailure(w, f, billed, cancelled, delay) ==
  LET unread == terminal \/ Fatal(f)
  IN
  /\ Note(IF unread /\ ~cancelled THEN stop ELSE ObservedStop,
          FailureReasons(w, f, cancelled))
  /\ terminal' = (terminal \/ Fatal(f))
  /\ cooldownUntil' = CooldownAfter(f, delay)
  /\ usage' = Unresolved
  /\ ledger' = [ledger EXCEPT ![<<batch[w], attempt[w]>>] =
                  IF billed THEN "ambiguous" ELSE "refused"]
  /\ IF WillRetry(w, f, cancelled)
     THEN /\ pc' = [pc EXCEPT ![w] = "pausing"]
          /\ attempt' = [attempt EXCEPT ![w] = @ + 1]
          /\ until' = [until EXCEPT ![w] = now + delay]
          /\ UNCHANGED batch
     ELSE NextBatch(w)
  /\ UNCHANGED <<now, next, aborted, scores, outcome>>

\* The provider refuses the attempt, or the exchange breaks.
ProviderFails(w) ==
  /\ pc[w] = "inflight"
  /\ \E e \in Failures, j \in Jittered(attempt[w]), ra \in RetryAfters :
       HandleFailure(w, e.failure, e.billed, FALSE, Longer(j, ra))

\* Mutant of Abandon: the wait follows the scheduler's own signal only.
AbandonOnThrow(w) ==
  /\ pc[w] = "inflight" /\ aborted
  /\ HandleFailure(w, AbortFailure, TRUE, TRUE, 0)

\* The wait is abandoned because the search stopped or another worker threw.
Abandon(w) ==
  /\ pc[w] = "inflight" /\ (stop # "none" \/ aborted)
  /\ HandleFailure(w, AbortFailure, TRUE, TRUE, 0)

\* An answer after the deadline, before its timer ran: no score is accepted.
LateAnswer(w) ==
  /\ pc[w] = "inflight" /\ stop = "none" /\ ~CanStartWork
  /\ HandleFailure(w, AbortFailure, TRUE, TRUE, 0)

\* An answer in time: onScores collects the scores and settles the usage.
Answer(w, e, u, resolution, reasons) ==
  /\ pc[w] = "inflight" /\ CanStartWork /\ ~aborted
  /\ scores' = [scores EXCEPT ![batch[w]] = IF e.whole THEN "full" ELSE "partial"]
  /\ usage' = u
  /\ ledger' = [ledger EXCEPT ![<<batch[w], attempt[w]>>] = resolution]
  /\ Note(stop, reasons \cup IF e.clean THEN {} ELSE {"INVALID_PROVIDER_RESPONSE"})
  /\ NextBatch(w)
  /\ UNCHANGED <<now, sharedVars, outcome>>

AnswerWithUsage(w) ==
  \E e \in Evaluations, t \in ReportedTokens :
    LET u == Settle(batch[w], t)
    IN  /\ e.counted
        /\ Answer(w, e, u, "known", IF Overrun(u) THEN {"ESTIMATE_OVERRUN"} ELSE {})

AnswerWithoutUsage(w) ==
  \E e \in Evaluations :
    /\ ~e.counted
    /\ Answer(w, e, Unresolved, "unreported", {"USAGE_UNKNOWN"})

-----------------------------------------------------------------------------
(* The end of the evaluation.                                              *)

Unevaluated == {b \in Batches : scores[b] # "full"}

\* Promise.all rejects: the search answers an error, without a usage account,
\* while other workers may still be unwinding.
Reject ==
  /\ outcome = "running" /\ aborted
  /\ outcome' = "rejected"
  /\ UNCHANGED <<contextVars, sharedVars, workerVars, usage, scores, ledger>>

\* Every worker returned: the report's stop reasons are completed.
Report ==
  /\ outcome = "running" /\ ~aborted
  /\ \A w \in Workers : pc[w] = "done"
  /\ Note(ObservedStop,
          IF /\ Unevaluated # {} /\ CanStartWork
             /\ "SCAN_CAP_REACHED" \notin stopReasons
          THEN {"PROVIDER_UNAVAILABLE"} ELSE {})
  /\ outcome' = "reported"
  /\ UNCHANGED <<now, sharedVars, workerVars, usage, scores, ledger>>

\* Nothing is left to run.
Finished ==
  /\ outcome # "running" /\ \A w \in Workers : pc[w] = "done"
  /\ UNCHANGED vars

-----------------------------------------------------------------------------
\* The reasons set before the evaluation: the plan may have kept only the
\* prefix of the batches that fits the caps.
Init ==
  /\ now = 0 /\ stop = "none"
  /\ stopReasons \in {{}, {"SCAN_CAP_REACHED"}}
  /\ next = 0 /\ terminal = FALSE /\ aborted = FALSE /\ cooldownUntil = 0
  /\ pc = [w \in Workers |-> "pausing"]
  /\ batch = [w \in Workers |-> NoBatch]
  /\ attempt = [w \in Workers |-> 0]
  /\ until = [w \in Workers |-> 0]
  /\ usage = [attempts |-> 0, known |-> 0, reserved |-> 0, unknown |-> 0,
              bytes |-> 0]
  /\ scores = [b \in Batches |-> "none"]
  /\ outcome = "running"
  /\ ledger = [k \in Batches \X Attempts |-> "none"]

\* What a worker does of its own accord; the rest waits for the provider.
Proceed(w) ==
  \/ PauseOver(w) \/ PauseAbandoned(w)
  \/ NothingLeft(w) \/ StandDown(w)
  \/ AdmissionThrows(w) \/ CapReached(w) \/ DeadlineInAdmission(w) \/ Dispatch(w)

Receive(w) ==
  \/ ProviderFails(w) \/ LateAnswer(w)
  \/ AnswerWithUsage(w) \/ AnswerWithoutUsage(w)

Next ==
  \/ Tick \/ DeadlineTimer \/ ClientCancel
  \/ \E w \in Workers : Proceed(w) \/ Abandon(w) \/ Receive(w)
  \/ Reject \/ Report \/ Finished

\* Timers fire, runnable promises run.  Nothing obliges the provider to answer.
Fairness ==
  /\ WF_vars(Tick) /\ WF_vars(DeadlineTimer)
  /\ \A w \in Workers : WF_vars(Proceed(w)) /\ WF_vars(Abandon(w))
  /\ WF_vars(Reject) /\ WF_vars(Report)

Spec == Init /\ [][Next]_vars

FairSpec == Spec /\ Fairness
-----------------------------------------------------------------------------
(* Properties.                                                             *)

UsageType == [attempts : Nat, known : Nat, reserved : Nat, unknown : Nat,
              bytes : Nat]

StopReasons == FailureCodes \cup {"SCAN_CAP_REACHED", "USAGE_UNKNOWN",
                                  "ESTIMATE_OVERRUN", "DEADLINE", "CANCELLED"}

Resolutions == {"none", "inflight", "known", "unreported", "refused", "ambiguous"}

\* The types of the variables; the settled reservations never drive the
\* reserved tokens of the usage account below zero.
TypeOK ==
  /\ now \in 0 .. Deadline
  /\ stop \in {"none", "deadline", "client_cancelled"}
  /\ stopReasons \subseteq StopReasons
  /\ next \in Nat
  /\ terminal \in BOOLEAN /\ aborted \in BOOLEAN
  /\ cooldownUntil \in Nat
  /\ pc \in [Workers -> {"pausing", "ready", "inflight", "done"}]
  /\ batch \in [Workers -> Batches \cup {NoBatch}]
  /\ attempt \in [Workers -> Attempts]
  /\ until \in [Workers -> Nat]
  /\ usage \in UsageType
  /\ scores \in [Batches -> {"none", "partial", "full"}]
  /\ outcome \in {"running", "reported", "rejected"}
  /\ ledger \in [Batches \X Attempts -> Resolutions]

\* The attempts whose history is in R.
AttemptsIn(R) == {k \in Batches \X Attempts : ledger[k] \in R}

\* The sum of W over the batches of the attempts K, counted in units.
Weight(K, W) == Cardinality({x \in K \X (1 .. MaxWeight) : x[2] <= W[x[1][1]]})

SentAttempts       == AttemptsIn(Resolutions \ {"none"})
UnresolvedAttempts == AttemptsIn({"unreported", "refused", "ambiguous"})
HeldAttempts       == AttemptsIn({"inflight", "unreported", "refused", "ambiguous"})

\* The usage account of the report is exact: every attempt ever sent is in it
\* once with its bytes, an attempt has unknown usage iff it failed or answered
\* without usage, and the tokens held back are those of the attempts still in
\* flight or without known usage, whatever order the workers settle in.
AccountMatchesLedger ==
  /\ usage.attempts = Cardinality(SentAttempts)
  /\ usage.bytes = Weight(SentAttempts, BatchBytes)
  /\ usage.unknown = Cardinality(UnresolvedAttempts)
  /\ usage.reserved = Weight(HeldAttempts, BatchTokens)

\* Concurrent workers never take the search past an enabled cap: attempts and
\* bytes stay within theirs, and tokens or cost beyond theirs come only from
\* usage the provider reported above its estimate, which the report flags.
CapsHold ==
  /\ ~Over("request_attempts", usage.attempts)
  /\ ~Over("transmitted_bytes", usage.bytes)
  /\ Overrun(usage) => "ESTIMATE_OVERRUN" \in stopReasons

\* An attempt the provider may have billed is not repeated: after an answer,
\* or an ambiguous failure unless retry_ambiguous is set, the batch is never
\* sent again, by any worker.
BilledIsNotRepeated ==
  \A b \in Batches, a1, a2 \in Attempts :
    /\ ledger[<<b, a1>>] \in {"known", "unreported"}
         \cup IF RetryAmbiguous THEN {} ELSE {"ambiguous"}
    /\ a1 < a2
    => ledger[<<b, a2>>] = "none"

\* The cross-checks that the report's usage must pass (checkUsage).
UsageAgrees ==
  /\ usage.unknown <= usage.attempts
  /\ usage.unknown <= usage.reserved
  /\ usage.unknown = 0 => usage.reserved = 0
  /\ usage.unknown = usage.attempts => usage.known = 0
  /\ usage.unknown > 0 => "USAGE_UNKNOWN" \in stopReasons
  /\ (\E b \in Batches : scores[b] # "none") => usage.attempts > 0
  /\ usage.attempts = 0 => usage.known + usage.reserved = 0 /\ usage.bytes = 0

\* Once every worker has returned, a batch without all its scores is explained
\* by a stop reason that some worker gave, before the report adds its own; and a
\* provider failure is reported only when it cost a score: a refused attempt whose
\* batch a later attempt evaluated leaves no failure code behind (an invalid answer
\* is reported for what it adds, too).  And the usage that goes into the report passes
\* its cross-checks, attempts that were still in flight when the search stopped included.
LossIsExplained ==
  /\ (/\ \A w \in Workers : pc[w] = "done"
      /\ ~aborted /\ Unevaluated # {})
     => stopReasons \cap (FailureCodes \cup {"SCAN_CAP_REACHED", "DEADLINE", "CANCELLED"}) # {}
  /\ stopReasons \cap (FailureCodes \ {"INVALID_PROVIDER_RESPONSE"}) # {} => Unevaluated # {}
  /\ outcome = "reported" => UsageAgrees

\* Nothing is sent once a worker ended the evaluation or the search stopped,
\* deadline not yet noticed included, and no score is taken from an answer
\* that comes after the stop, even from a provider that ignores the abort.
StopIsQuiet ==
  /\ terminal \/ aborted \/ ~CanStartWork => usage'.attempts = usage.attempts
  /\ aborted \/ ~CanStartWork => scores' = scores

QuietAfterStop == [][StopIsQuiet]_vars

\* Rate limits hold for every worker: a pause is never shortened, no worker
\* becomes ready during it, and a refused batch is sent again only after its
\* own back-off.
PausesAreKept ==
  /\ cooldownUntil' >= cooldownUntil
  /\ \A w \in Workers :
       /\ pc[w] # "ready" /\ pc'[w] = "ready" => now >= cooldownUntil
       /\ pc[w] # "inflight" /\ pc'[w] = "inflight" => now >= until[w]

RateLimitHolds == [][PausesAreKept]_vars

\* The evaluation ends, whatever the provider does: the deadline detaches the
\* workers from a provider that never answers.
Terminates == <>(outcome # "running" /\ \A w \in Workers : pc[w] = "done")

\* The attempts after which a batch is never sent again.
Final == {"known", "unreported"} \cup IF RetryAmbiguous THEN {} ELSE {"ambiguous"}

Untouched(b, a) == \A later \in Attempts : later >= a => ledger[<<b, later>>] = "none"

\* No two workers hold the same batch.
OneOwner == \A v, w \in Workers :
  v # w /\ batch[v] # NoBatch => batch[v] # batch[w]

\* What is held was taken, and what was not taken was not sent.
TakenInOrder ==
  /\ \A w \in Workers : batch[w] <= next
  /\ \A b \in Batches : b > next => Untouched(b, 0)

\* The attempt a waiting worker is at is new; the one in flight is its last.
AttemptIsNew == \A w \in Workers :
  /\ pc[w] \in {"pausing", "ready"} /\ batch[w] # NoBatch
     => Untouched(batch[w], attempt[w])
  /\ pc[w] = "inflight" =>
       /\ batch[w] # NoBatch
       /\ ledger[<<batch[w], attempt[w]>>] = "inflight"
       /\ Untouched(batch[w], attempt[w] + 1)

\* A batch that may have been billed is closed: no worker holds it to send it.
BilledIsClosed == \A b \in Batches, a \in Attempts :
  ledger[<<b, a>>] \in Final =>
    /\ Untouched(b, a + 1)
    /\ \A w \in Workers : batch[w] # b

\* A worker is ready only once its own pause is over.
ReadyHasWaited == \A w \in Workers : pc[w] = "ready" => until[w] <= now

\* The strengthening of the invariants above that every step preserves.  What
\* makes the account exact is that a batch has one owner at a time, and that
\* the owner's current attempt is new when it is sent.
IInv ==
  /\ TypeOK
  /\ AccountMatchesLedger
  /\ CapsHold
  /\ OneOwner
  /\ TakenInOrder
  /\ AttemptIsNew
  /\ BilledIsClosed
  /\ ReadyHasWaited

=============================================================================
