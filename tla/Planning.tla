------------------------------- MODULE Planning -------------------------------
(***************************************************************************)
(* What a search sends, in which batches: batchingSteps and planScan of    *)
(* src/planning.ts, driven by SearchEngine.#run (src/engine.ts), with the  *)
(* order of a partial scan of src/priority.ts and the exact measure of     *)
(* src/evaluation/policy.ts; the budgets of a call and the preflight of    *)
(* its report (src/contracts.ts); and the command `inspect`                *)
(* (src/inspect.ts), which makes the same plan and sends nothing.          *)
(*                                                                         *)
(* A step is the code between two requests for exact measures, which are   *)
(* awaited from the worker pool.  A question is [tokens, bytes, joined]:   *)
(* what it adds to a body on its own, and what the tokenizer adds or saves *)
(* where it follows another one.  A batch is the interval of positions of  *)
(* `order` that it takes.                                                  *)
(***************************************************************************)
EXTENDS Integers, SequencesExt

CONSTANTS
  Questions,      \* what the pending fragments may be: [tokens, bytes, joined]
  MaxPending,     \* bound on the number of pending fragments
  StateTokens, StateBytes, EnvelopeBytes,  \* what every body has besides questions
  TokenBudget, MaxItems, MaxBytes,  \* limits.totalTokens * headroomRatio, maxItems, maxRequestBytes
  MaxQuestion,    \* limits.perQuestionTokens * headroomRatio
  CapChoices,     \* the caps an operator may enable: functions from cap names
  Requests,       \* what a call may ask: [partial, budget]
  Preparations,   \* how a preparation may end: [hits, files, bytes, inventory, complete, unreadable, fallbacks]
  Prices,         \* prices of PriceUnit tokens, None without a pricing record
  PriceUnit,      \* TOKENS_PER_PRICE_UNIT
  Reserves,       \* shares of positions kept for the sweep: <<numerator, denominator>>
  None

PlanCaps   == {"request_attempts", "transmitted_bytes", "estimated_input_tokens", "estimated_cost_usd"}
SourceCaps == {"prepared_source_bytes", "candidate_files", "fragments"}
BudgetCaps == {"estimated_input_tokens", "estimated_cost_usd"}

ASSUME PlanningAssumption ==
  /\ \A q \in Questions : /\ q.tokens \in Nat \ {0} /\ q.bytes \in Nat \ {0}
                          /\ q.joined \in Int /\ q.tokens + q.joined >= 0
  /\ {StateTokens, StateBytes, EnvelopeBytes, TokenBudget, MaxBytes, MaxQuestion, MaxPending} \subseteq Nat
  /\ EnvelopeBytes >= StateBytes /\ MaxItems \in Nat \ {0} /\ PriceUnit \in Nat \ {0}
  /\ \A c \in CapChoices : DOMAIN c \subseteq PlanCaps \cup SourceCaps /\ \A cap \in DOMAIN c : c[cap] \in Nat
  /\ \A r \in Requests : /\ r.partial \in BOOLEAN \cup {None} /\ DOMAIN r.budget \subseteq BudgetCaps \cup {"time"}
                         /\ \A limit \in DOMAIN r.budget : r.budget[limit] \in Nat
  /\ \A p \in Preparations : /\ p.hits \in Nat /\ p.files \in Nat /\ p.bytes \in Nat
                             /\ p.complete => p.inventory /\ p.unreadable = 0
  /\ Prices \subseteq Nat \cup {None} /\ None \notin Nat

VARIABLES
  questions,  \* the pending fragments in path order, fixed
  options,    \* the command, the caps, the price, the request, how preparation ended
  stage,      \* "measuring", "closing", "planning", "ready", "inspected" or "refused"
  order,      \* the order of this plan: positions of `questions`
  prioritized, \* whether this plan is in priority order
  pending,    \* batches closed on the estimate, not yet measured
  batches,    \* batches that are final
  plan        \* what planScan or `inspect` answered, None before

planningVars == <<questions, options, stage, order, prioritized, pending, batches, plan>>

Count == Len(questions)
At(p) == questions[order[p]]

-----------------------------------------------------------------------------
(* The request, and the caps it lowers.                                    *)

Hits == options.prepared.hits

\* A caller who names a budget accepts the partial result it may produce.
AllowPartial ==
  IF options.request.partial # None THEN options.request.partial ELSE DOMAIN options.request.budget # {}

Budget == Restrict(options.request.budget, DOMAIN options.request.budget \ {"time"})

\* Mutant of EnabledCaps: a budget replaces the operator's cap.
ReplacedCaps == Budget @@ options.caps

\* withRequestBudget: a budget lowers a cap, and never raises it.
EnabledCaps ==
  LET of(f, cap) == IF cap \in DOMAIN f THEN {f[cap]} ELSE {}
  IN  [cap \in DOMAIN options.caps \cup DOMAIN Budget |-> Min(of(options.caps, cap) \cup of(Budget, cap))]

-----------------------------------------------------------------------------
(* Measures.                                                               *)

Interval(first, last) == [first |-> first, last |-> last]
Positions(b)          == b.first .. b.last
Size(b)               == b.last - b.first + 1

\* The wire body of a batch, counted as a whole.
ExactTokens(b) ==
  StateTokens + SumFunctionOnSet([p \in Positions(b) |-> At(p).tokens + IF p = b.first THEN 0 ELSE At(p).joined],
                                 Positions(b))
ExactBytes(b) == EnvelopeBytes + SumFunctionOnSet([p \in Positions(b) |-> At(p).bytes], Positions(b))

ExactlyFits(b) ==
  /\ ExactBytes(b) <= MaxBytes /\ Size(b) <= MaxItems /\ ExactTokens(b) <= TokenBudget
  /\ \A p \in Positions(b) :
       \/ StateBytes + At(p).bytes <= MaxQuestion
       \/ StateTokens + At(p).tokens <= MaxQuestion

\* measureSerializedBodies: the exact measure of each body, in the order of the bodies.
Measures(bs) == [k \in DOMAIN bs |-> ExactlyFits(bs[k])]

Single(p) == Interval(p, p)

\* What the estimate counts for one more question: its own body less the state.
AddedTokens(p) == ExactTokens(Single(p)) - StateTokens
AddedBytes(p)  == ExactBytes(Single(p)) - StateBytes

-----------------------------------------------------------------------------
(* Closing batches on the estimate.                                        *)

\* The estimate of a body: the sum of what its questions add, the state counted once.
EstimatedTokens(b) == StateTokens + SumFunctionOnSet([p \in Positions(b) |-> AddedTokens(p)], Positions(b))
EstimatedBytes(b)  == StateBytes + SumFunctionOnSet([p \in Positions(b) |-> AddedBytes(p)], Positions(b))

\* A batch being filled, with the estimate of its body.
Filling(b) == [closed |-> <<>>, first |-> b.first, tokens |-> EstimatedTokens(b), bytes |-> EstimatedBytes(b)]

Grown(f, p) == [f EXCEPT !.tokens = @ + AddedTokens(p), !.bytes = @ + AddedBytes(p)]

TooLarge(f, p) == \/ p - f.first + 1 > MaxItems
                  \/ Grown(f, p).tokens > TokenBudget
                  \/ Grown(f, p).bytes > MaxBytes

Fill(f, p) ==
  IF p > f.first /\ TooLarge(f, p)
  THEN [Filling(Single(p)) EXCEPT !.closed = Append(f.closed, Interval(f.first, p - 1))]
  ELSE Grown(f, p)

\* closeFrom: the questions from `start` to just before `from` are carried together.
CloseFrom(start, from) ==
  LET filled[p \in from - 1 .. Count] ==
        IF p < from THEN Filling(Interval(start, p)) ELSE Fill(filled[p - 1], p)
  IN  IF start > Count THEN <<>> ELSE Append(filled[Count].closed, Interval(filled[Count].first, Count))

Refused(code) ==
  /\ stage' = "refused" /\ plan' = [error |-> code]
  /\ UNCHANGED <<questions, options, order, prioritized, batches>>

\* Every question is measured on its own: one that does not fit alone ends the search.
MeasureSingles ==
  /\ stage = "measuring"
  /\ IF FALSE \notin ToSet(Measures([p \in 1 .. Count |-> Single(p)]))
     THEN /\ pending' = CloseFrom(1, 1) /\ stage' = "closing" /\ batches' = <<>>
          /\ UNCHANGED <<questions, options, order, prioritized, plan>>
     ELSE Refused("INVALID_REQUEST") /\ UNCHANGED pending

\* The awaited measure is aborted by the search's stop.  Questions are measured alone
\* only once.  `inspect` waits for nothing.
MeasureAborts ==
  /\ options.command = "search"
  /\ stage = "closing" \/ (stage = "measuring" /\ ~prioritized)
  /\ Refused("CANCELLED") /\ pending' = <<>>

Accepted(b, fits) == fits \/ Size(b) = 1

\* The part of a batch left once its tail is shed.
Shed(b) ==
  LET fitting == {last \in b.first .. b.last - 1 : last = b.first \/ ExactlyFits(Interval(b.first, last))}
  IN  Interval(b.first, Max(fitting))

\* Mutant of Reclosed: the questions shed are not carried.
ReclosedAfter(b) == CloseFrom(b.last + 1, b.last + 1)

\* The batches after b, closed again from the tail it sheds.
Reclosed(b) == CloseFrom(Shed(b).last + 1, b.last + 1)

\* The exact measures of the closed batches are in: those up to the first that does
\* not fit are final, that one sheds its tail, and what follows is closed again.
TakeMeasures ==
  /\ stage = "closing" /\ pending # <<>>
  /\ LET measures == Measures(pending)
         bad == {k \in DOMAIN pending : ~Accepted(pending[k], measures[k])}
         k   == Min(bad)
     IN  IF bad = {}
         THEN batches' = batches \o pending /\ pending' = <<>>
         ELSE /\ batches' = Append(batches \o SubSeq(pending, 1, k - 1), Shed(pending[k]))
              /\ pending' = Reclosed(pending[k])
  /\ UNCHANGED <<questions, options, stage, order, prioritized, plan>>

Closed ==
  /\ stage = "closing" /\ pending = <<>> /\ stage' = "planning"
  /\ UNCHANGED <<questions, options, order, prioritized, pending, batches, plan>>

-----------------------------------------------------------------------------
(* planScan.                                                               *)

Total(bs) == [requests |-> Len(bs),
              tokens |-> SumFunction([k \in DOMAIN bs |-> ExactTokens(bs[k])]),
              bytes  |-> SumFunction([k \in DOMAIN bs |-> ExactBytes(bs[k])])]

Cost(tokens) ==
  IF options.price = None THEN None ELSE (tokens * options.price + PriceUnit - 1) \div PriceUnit

\* What the batches need of the cap.
Need(cap, total) ==
  CASE cap = "request_attempts"       -> total.requests
    [] cap = "transmitted_bytes"      -> total.bytes
    [] cap = "estimated_input_tokens" -> total.tokens
    [] cap = "estimated_cost_usd"     -> Cost(total.tokens)
    [] cap = "prepared_source_bytes"  -> options.prepared.bytes
    [] cap = "candidate_files"        -> options.prepared.files
    [] cap = "fragments"              -> Count + Hits

Exceeded(total)   == {cap \in DOMAIN EnabledCaps : Need(cap, total) > EnabledCaps[cap]}
WithinCaps(total) == Exceeded(total) = {}

\* Mutant of Fits: each batch is compared with the caps alone.
FitsAlone(admitted, b) == WithinCaps(Total(<<b>>))

Fits(admitted, b) == WithinCaps(Total(Append(admitted, b)))

\* The whole batches admitted before the first that does not fit.
Admitted ==
  LET fit == {k \in 0 .. Len(batches) : \A j \in 1 .. k : Fits(SubSeq(batches, 1, j - 1), batches[j])}
  IN  SubSeq(batches, 1, Max(fit))

HeadOf(b, n) == Interval(b.first, b.first + n - 1)

\* A step of the bisection, which ends where low = high.
Halved(b, range) ==
  LET middle == (range.low + range.high + 1) \div 2
  IN  IF range.low >= range.high THEN range
      ELSE IF Fits(Admitted, HeadOf(b, middle)) THEN [range EXCEPT !.low = middle]
      ELSE [range EXCEPT !.high = middle - 1]

\* How much of the first batch left out still fits: the bisection takes fewer steps
\* than the batch has questions.
HeadLength(b) ==
  LET range[n \in 0 .. Size(b)] ==
        IF n = 0 THEN [low |-> 0, high |-> Size(b) - 1] ELSE Halved(b, range[n - 1])
  IN  range[Size(b)].low

\* An allowed partial scan still sends the head of the first batch left out.
HeadSent ==
  IF Len(Admitted) = Len(batches) \/ ~AllowPartial THEN <<>>
  ELSE LET b == batches[Len(Admitted) + 1]
       IN  IF HeadLength(b) = 0 THEN <<>> ELSE <<HeadOf(b, HeadLength(b))>>

Overrun  == ~WithinCaps(Total(batches))
Rejected == Overrun /\ ~AllowPartial

Estimates ==
  LET total == Total(batches) IN
  [remote |-> Count, hits |-> Hits, tokens |-> total.tokens, cost |-> Cost(total.tokens),
   requests |-> total.requests, required |-> [cap \in DOMAIN EnabledCaps |-> Need(cap, total)]]

\* A cost budget needs a price.  An operator's cost cap has one, by its configuration.
Unpriced ==
  /\ stage = "planning" /\ ~prioritized
  /\ options.price = None /\ "estimated_cost_usd" \in DOMAIN options.request.budget
  /\ Refused("INVALID_REQUEST") /\ UNCHANGED pending

PlanScan ==
  /\ stage = "planning" /\ options.command = "search"
  /\ options.price = None => "estimated_cost_usd" \notin DOMAIN EnabledCaps
  /\ \E sent \in {Admitted \o HeadSent} :
       plan' = [rejected |-> Rejected, batches |-> IF Rejected THEN <<>> ELSE sent,
                capReached |-> Len(sent) < Len(batches), report |-> Estimates]
  /\ stage' = "ready"
  /\ UNCHANGED <<questions, options, order, prioritized, pending, batches>>

-----------------------------------------------------------------------------
(* What is told of the plan: the preflight of a report, and `inspect`.     *)

\* Mutant of TotalFragments: a file that could not be read is left out of the total.
TotalReadable == IF options.prepared.inventory THEN Count + Hits ELSE None

\* The total is known only if everything was prepared.
TotalFragments == IF options.prepared.complete THEN Count + Hits ELSE None

\* The stop reason PREPARATION_LIMIT.
Limited == options.prepared.inventory /\ ~options.prepared.complete

\* The search ends here, as one that exceeds its scan budget.
SearchRejected == plan.rejected \/ (Limited /\ ~AllowPartial)

\* Of a preparation that is not complete, the estimates are not told.
Preflight ==
  IF TotalFragments # None THEN plan.report
  ELSE [remote |-> None, hits |-> plan.report.hits, tokens |-> None, cost |-> None, requests |-> None,
        required |-> [cap \in DOMAIN EnabledCaps |-> None]]

Notes ==
  LET p == options.prepared IN
  (IF p.inventory THEN {} ELSE {"inventory"}) \cup (IF Limited THEN {"limit"} ELSE {}) \cup
  (IF p.unreadable > 0 THEN {"unreadable"} ELSE {}) \cup (IF p.fallbacks > 0 THEN {"fallbacks"} ELSE {}) \cup
  (IF Overrun THEN {"exceeded"} ELSE {})

\* The command's caps are the operator's, and nothing is taken from a cache.
InspectScope ==
  /\ stage = "planning" /\ options.command = "inspect"
  /\ plan' = [total |-> TotalFragments, estimates |-> Estimates, exceeded |-> Exceeded(Total(batches)), notes |-> Notes]
  /\ stage' = "inspected"
  /\ UNCHANGED <<questions, options, order, prioritized, pending, batches>>

-----------------------------------------------------------------------------
(* The order of a partial scan.                                            *)

FirstFree(source, from, taken) ==
  LET free == {i \in from .. Len(source) : source[i] \notin taken}
  IN  IF free = {} THEN Len(source) + 1 ELSE Min(free)

Reserved(slot, reserve) ==
  ((slot + 1) * reserve[1]) \div reserve[2] > (slot * reserve[1]) \div reserve[2]

\* One position: the next unvisited candidate of the sweep or of the ranking.
Place(o, slot, ranked, sweep, reserve) ==
  LET reserved == Reserved(slot, reserve)
      source   == IF reserved THEN sweep ELSE ranked
      i        == FirstFree(source, IF reserved THEN o.s ELSE o.r, ToSet(o.out))
  IN  [out |-> Append(o.out, source[i]),
       r |-> IF reserved THEN o.r ELSE i, s |-> IF reserved THEN i ELSE o.s]

Interleaved(ranked, sweep, reserve) ==
  IF reserve[1] = 0 THEN ranked
  ELSE LET placed[n \in 0 .. Len(ranked)] ==
             IF n = 0 THEN [out |-> <<>>, r |-> 1, s |-> 1]
             ELSE Place(placed[n - 1], n - 1, ranked, sweep, reserve)
       IN  placed[Len(ranked)].out

PathOrder == [p \in 1 .. Count |-> p]

\* The highest score first, and those with the same in path order.
Rank(scores, p) ==
  Cardinality({q \in 1 .. Count : scores[q] > scores[p] \/ (scores[q] = scores[p] /\ q <= p)})
Ranked(scores) == [n \in 1 .. Count |-> CHOOSE p \in 1 .. Count : Rank(scores, p) = n]

PrioritizeFragments(scores, reserve) == Interleaved(Ranked(scores), PathOrder, reserve)

\* A cap cut an allowed partial scan: the batches are made again in priority order.
\* The scores are of the texts, names and labels, which the plan does not see.
Prioritize ==
  /\ stage = "ready" /\ ~prioritized
  /\ plan.capReached /\ ~plan.rejected /\ AllowPartial
  /\ order' \in {PrioritizeFragments(scores, reserve) :
                     scores \in [1 .. Count -> 1 .. Count], reserve \in Reserves}
  /\ prioritized' = TRUE
  /\ stage' = "measuring"
  /\ UNCHANGED <<questions, options, pending, batches, plan>>

-----------------------------------------------------------------------------
\* Preparation stays within its own caps, and a cost cap is configured with a price.
Prepares(o) ==
  /\ \A cap \in SourceCaps \cap DOMAIN o.caps :
       o.caps[cap] >= CASE cap = "fragments" -> Count + o.prepared.hits
                        [] cap = "candidate_files" -> o.prepared.files
                        [] cap = "prepared_source_bytes" -> o.prepared.bytes
  /\ "estimated_cost_usd" \in DOMAIN o.caps => o.price # None
  /\ o.command = "inspect" => o.prepared.hits = 0 /\ o.request = [partial |-> FALSE, budget |-> <<>>]

PlanningInit ==
  /\ \E n \in 0 .. MaxPending : questions \in [1 .. n -> Questions]
  /\ options \in [command : {"search", "inspect"}, caps : CapChoices, price : Prices,
                  request : Requests, prepared : Preparations]
  /\ Prepares(options)
  /\ stage = "measuring" /\ order = PathOrder /\ prioritized = FALSE
  /\ pending = <<>> /\ batches = <<>> /\ plan = None

PlanningNext == MeasureSingles \/ MeasureAborts \/ TakeMeasures \/ Closed \/ Unpriced \/ PlanScan
                \/ Prioritize \/ InspectScope

PlanningSpec == PlanningInit /\ [][PlanningNext]_planningVars

-----------------------------------------------------------------------------
(* Properties.                                                             *)

EstimateFits(b) == Size(b) <= MaxItems /\ EstimatedTokens(b) <= TokenBudget /\ EstimatedBytes(b) <= MaxBytes

\* Closing one batch at a time: the longest interval the estimate admits, shortened
\* until its exact measure fits.
NextBatch(i) ==
  LET end == Max({e \in i .. Count : e = i \/ EstimateFits(Interval(i, e))})
  IN  Interval(i, Max({e \in i .. end : e = i \/ ExactlyFits(Interval(i, e))}))

OneAtATime ==
  LET from[i \in 1 .. Count + 1] ==
        IF i > Count THEN <<>> ELSE <<NextBatch(i)>> \o from[NextBatch(i).last + 1]
  IN  from[1]

\* The batches measured in parallel, with every restart from a tail that was shed, are
\* those of "closing them one at a time" (planning.ts:229): so every fragment is in one
\* batch, in path order or in an order of priority that excludes none (priority.ts:5),
\* and every batch fits the provider's limits.
ClosedInTurn ==
  stage \in {"planning", "ready"} =>
    /\ batches = OneAtATime /\ ToSet(order) = 1 .. Count
    /\ \A k \in DOMAIN batches : ExactlyFits(batches[k])

\* The first k batches, and the first h questions of the next one.
Prefix(k, h) ==
  SubSeq(batches, 1, k) \o
  IF h = 0 THEN <<>> ELSE <<HeadOf(batches[k + 1], h)>>

\* What is sent is the longest leading part of the plan that the caps have room for
\* (planning.ts:127, 156): no prefix, whole batches or the head of one more in a partial
\* scan, fits and sends more.
IsLongest ==
  \E k \in 0 .. Len(batches) : \E h \in 0 .. (IF k < Len(batches) THEN Size(batches[k + 1]) - 1 ELSE 0) :
    /\ plan.batches = Prefix(k, h)
    /\ plan.batches # <<>> => WithinCaps(Total(plan.batches))
    /\ h > 0 => AllowPartial
    /\ k < Len(batches) =>
         /\ ~WithinCaps(Total(Prefix(k + 1, 0)))
         /\ AllowPartial /\ h + 1 < Size(batches[k + 1]) => ~WithinCaps(Total(Prefix(k, h + 1)))

\* A budget of a call bounds its scan together with every cap of the operator, and
\* raises none (contracts.ts:140).
WithinEvery(total) ==
  \A limits \in {options.caps, Budget} : \A cap \in DOMAIN limits : Need(cap, total) <= limits[cap]

IsLongestPrefix ==
  stage = "ready" =>
    IF plan.rejected THEN plan.batches = <<>>
    ELSE IsLongest /\ (plan.batches # <<>> => WithinEvery(Total(plan.batches)))

\* checkPreflight: the cross-checks of the preflight of a report.
CheckPreflight ==
  LET p    == Preflight
      told == [fragments |-> TotalFragments, request_attempts |-> p.requests,
               estimated_input_tokens |-> p.tokens, estimated_cost_usd |-> p.cost]
  IN
  /\ IF TotalFragments # None
       THEN /\ None \notin {p.remote, p.tokens, p.requests} /\ p.remote + p.hits = TotalFragments
            /\ \A cap \in DOMAIN p.required : p.required[cap] # None
       ELSE p.remote = None
  /\ \A cap \in DOMAIN told \cap DOMAIN p.required : p.required[cap] = told[cap]
  /\ SearchRejected => \E cap \in DOMAIN p.required :
       IF p.required[cap] = None THEN Limited ELSE p.required[cap] > EnabledCaps[cap]

\* What is sent is the longest leading part of the plan that the caps and the budgets
\* leave room for, and nothing if it is rejected; what is told of it is true.  The
\* preflight of a report is consistent with its totals and names why it was rejected,
\* but where nothing can: the inventory is incomplete, or no cap is enabled and a file
\* could not be read.  And `inspect` foretells what a first search that asks for all
\* does: refused if and only if it notes a cap exceeded or a preparation cut short, and
\* a total only where nothing is noted that keeps it unknown.
PlanIsTrue ==
  /\ IsLongestPrefix
  /\ stage = "ready" =>
       \/ CheckPreflight
       \/ SearchRejected /\ (~options.prepared.inventory \/ EnabledCaps = <<>>)
  /\ stage = "inspected" =>
       /\ (Rejected \/ (Limited /\ ~AllowPartial)) <=> plan.notes \cap {"exceeded", "limit"} # {}
       /\ plan.total # None <=> plan.notes \cap {"inventory", "limit"} = {}
       /\ (plan.exceeded # {}) = ("exceeded" \in plan.notes)
=============================================================================
