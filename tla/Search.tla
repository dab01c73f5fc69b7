--------------------------------- MODULE Search ---------------------------------
(***************************************************************************)
(* One search of the engine (src/engine.ts), from the request to the       *)
(* report: preparation, cached scores, the plan, evaluation, selection,    *)
(* the check that files have not changed, and the report that must satisfy *)
(* its contract (src/contracts.ts) and the response budget.  Searches may  *)
(* be continued with the token of a report.  Files may change at any time. *)
(*                                                                         *)
(* The evaluation itself is the module Evaluation; here it gives every     *)
(* planned fragment a score or a reason.  Usage is accounted for there.    *)
(***************************************************************************)
EXTENDS Selection

CONSTANTS
  Contents,      \* contents a file can have
  Disks,         \* what the files may hold at first
  Answers,       \* scores the provider may give each fragment
  Failures,      \* reasons for a fragment to have no score
  Threshold,
  Budget,        \* tokens of a response
  ReportSizes,   \* tokens a report can take, with no excerpt
  KeySize,       \* tokens of a fragment in a continuation token
  MaxDelivered,  \* fragments a continuation token can hold
  Past,          \* what a caller may have been given before, and holds a token of
  Preparations,  \* what earlier questions of the same call may have left prepared
  None,
  MaxSearches    \* bound: searches

ASSUME SearchAssumption ==
  /\ Answers \in [Fragments -> SUBSET (Nat \ {0})]
  /\ ReportSizes \subseteq Nat /\ KeySize \in Nat /\ MaxDelivered \in Nat
  /\ Budget \in Nat /\ MaxSearches \in Nat /\ Threshold \in Nat
  /\ Failures \subseteq {"INVALID_PROVIDER_RESPONSE", "PROVIDER_AUTH", "PROVIDER_UNAVAILABLE"}
  /\ Past \subseteq SUBSET (Fragments \X Contents)
  /\ Disks \subseteq [Files -> Contents]
  /\ \A t \in Past : \A k \in t : \E s \in Answers[k[1]] : s >= Threshold
  /\ \A p \in Preparations :
       /\ p.snap \in [Files -> Contents \cup {None}]
       /\ p.prepared \in [inventory : BOOLEAN, complete : BOOLEAN, unreadable : Nat]
       /\ p.prepared.complete => p.prepared.unreadable = 0
  /\ None \notin Nat /\ None \notin Contents /\ None \notin {"fresh", "stale"} /\ IsFiniteSet(Fragments)

VARIABLES
  disk,      \* what each file holds
  cached,    \* score of each fragment with each contents, 0 if there is none
  offered,   \* the continuation token the caller has
  given,     \* history: fragments delivered to the caller since the first search
  searches,  \* searches begun
  request,   \* whether a partial scan is allowed, caps are enabled, and the token
  pc,        \* where the search is
  left,      \* files to prepare
  snap,      \* what was read of each file
  prepared,  \* whether the inventory and the preparation are complete, files unreadable
  stop,      \* the deadline or the client's cancellation
  reasons,   \* stop reasons
  plan,      \* whether it was rejected, exceeds a cap, or stops at one
  todo,      \* planned fragments without an answer
  score,     \* the score of each fragment, 0 if there is none
  verdict,   \* what was found when a file was read again
  round,     \* rounds of selection and check
  queue,     \* candidates not yet offered
  chosen,    \* ranges chosen
  used,      \* tokens they use
  policy,    \* the selection policy, None when it is not in use
  plans,     \* what it would do to choose each candidate, None if it is to be computed
  bare,      \* tokens of the report with no excerpt
  kept,      \* ranges not removed from the response
  ended,     \* whether the continuation was given up
  result     \* the outcome

vars == <<disk, cached, offered, given, searches, request, pc, left, snap, prepared, stop,
          reasons, plan, todo, score, verdict, round, queue, chosen, used, policy,
          plans, bare, kept, ended, result>>

walk      == <<queue, chosen, used, policy, plans>>
answer    == <<bare, kept, ended, result>>
selection == <<walk, verdict, round, answer>>
scoring   == <<plan, todo, score>>
caller    == <<offered, given, searches, request>>
source    == <<left, snap, prepared>>

Is(l) == pc = l
Goto(l) == pc' = l

NoPlans == [f \in Fragments |-> None]

Stops == {"DEADLINE", "CANCELLED"}

-----------------------------------------------------------------------------
Prepared   == {f \in Fragments : snap[f.file] # None}
Scored     == {f \in Prepared : score[f] # 0}
Above      == {f \in Scored : score[f] >= Threshold}
Key(f)     == <<f, snap[f.file]>>
Before     == {f \in Above : Key(f) \in request.token}
Qualifying == Above \ Before
Stale      == {x \in Files : verdict[x] = "stale"}
StaleOnes  == {f \in Qualifying : f.file \in Stale}
Read       == {x \in Files : snap[x] # None}
Unchecked  == {x \in {r.file : r \in chosen} : verdict[x] = None}

-----------------------------------------------------------------------------
(* Failures: outcomes that are errors (errorCodeOf, createSearchError).    *)

\* An error of the configuration, the credential or the provider has its own code.
ErrorCodeOf(cause) ==
  CASE cause = "request"         -> "INVALID_REQUEST"
    [] cause = "response budget" -> "RESPONSE_BUDGET_TOO_SMALL"
    [] cause = "path"            -> "UNAUTHORIZED_SCOPE"
    [] cause = "abort"           -> "CANCELLED"
    [] OTHER                     -> cause

CredentialErrors == {"REMOTE_DISABLED", "CREDENTIAL_MISSING"}

\* ERROR_DEFINITIONS: status and advice belong to the code.
Retried == {"BUSY", "PROVIDER_RATE_LIMIT", "PROVIDER_UNAVAILABLE"}
Refusals == CredentialErrors \cup
  {"INVALID_REQUEST", "INVALID_CONFIG", "UNAUTHORIZED_SCOPE", "BUSY", "SCOPE_EXCEEDS_SCAN_BUDGET",
   "RESPONSE_BUDGET_TOO_SMALL"}

SearchError(code) ==
  [error |-> code, status |-> IF code \in Refusals THEN "rejected" ELSE "error", retryable |-> code \in Retried]

Fails(cause) ==
  /\ result' = SearchError(ErrorCodeOf(cause))
  /\ Goto("done")

-----------------------------------------------------------------------------
(* The request, the inventory and the preparation.                         *)

\* A file is read when it is prepared, and when it is checked.  It may change at any
\* time, but a change is the same whenever it is made between two reads of the file:
\* here, between two searches or at the check.
ToBeRead ==
  IF Is("check") THEN Unchecked ELSE IF Is("done") /\ searches < MaxSearches THEN Files ELSE {}

Edit(x, c) ==
  /\ x \in ToBeRead /\ c # disk[x]
  /\ disk' = [disk EXCEPT ![x] = c]
  /\ UNCHANGED <<cached, caller, pc, source, stop, reasons, scoring, selection>>

\* The client cancels only between two tasks.  From the selection on there is one task,
\* and the clock is read at the report.
Stop(k) ==
  /\ pc \in {"inventory", "prepare", "measure", "evaluate"} \/ (Is("report") /\ k = "DEADLINE")
  /\ stop = None
  /\ stop' = k /\ reasons' = reasons \cup {k}
  /\ UNCHANGED <<disk, cached, caller, pc, source, scoring, selection>>

Ask(partial, capped, token) ==
  /\ pc \in {"idle", "done"} /\ searches < MaxSearches
  /\ token = {} \/ token = offered
  /\ searches' = searches + 1
  /\ request' = [partial |-> partial, capped |-> capped, token |-> token]
  /\ offered' = token /\ given' = IF token = {} THEN {} ELSE given
  /\ left' = {} /\ snap' = [x \in Files |-> None]
  /\ prepared' = [inventory |-> TRUE, complete |-> TRUE, unreadable |-> 0]
  /\ stop' = None /\ reasons' = {}
  /\ plan' = [rejected |-> FALSE, overrun |-> FALSE, capReached |-> FALSE]
  /\ todo' = {} /\ score' = [f \in Fragments |-> 0]
  /\ verdict' = [x \in Files |-> None] /\ round' = 0
  /\ queue' = {} /\ chosen' = {} /\ used' = 0 /\ policy' = None /\ plans' = NoPlans
  /\ bare' = 0 /\ kept' = {} /\ ended' = FALSE /\ result' = None
  /\ Goto("inventory")
  /\ UNCHANGED <<disk, cached>>

failing == <<disk, cached, caller, source, stop, reasons, scoring, walk, verdict, round,
             bare, kept, ended>>

\* Before any work: a request that is not valid, a response budget that the report alone
\* exceeds, no leave to send anything, no credential.
Refuse(cause) == Is("inventory") /\ Fails(cause) /\ UNCHANGED failing

\* A scope that was prepared for an earlier question of the same call is not prepared
\* again, but when it was cut short in an order of priority of that question.
ReusePreparation(p) ==
  /\ Is("inventory")
  /\ p.prepared.complete \/ ~request.partial
  /\ snap' = p.snap /\ prepared' = p.prepared
  /\ Goto("prepare")
  /\ UNCHANGED <<disk, cached, caller, left, stop, reasons, scoring, selection>>

\* The files a search looks at, those of the tree if it is complete: what preparation
\* excludes by its content is left out here.
Inventory(L, ok) ==
  /\ Is("inventory")
  /\ left' = L
  /\ prepared' = [inventory |-> ok, complete |-> ok, unreadable |-> 0]
  /\ Goto("prepare")
  /\ UNCHANGED <<disk, cached, caller, snap, stop, reasons, scoring, selection>>

PrepareFile(x) ==
  /\ Is("prepare") /\ x \in left /\ stop = None
  /\ left' = left \ {x}
  /\ snap' = [snap EXCEPT ![x] = disk[x]]
  /\ UNCHANGED <<disk, cached, caller, pc, prepared, stop, reasons, scoring, selection>>

\* The file changed or vanished, or cannot be opened.
FileUnreadable(x) ==
  /\ Is("prepare") /\ x \in left /\ stop = None
  /\ left' = left \ {x}
  /\ prepared' = [prepared EXCEPT !.complete = FALSE, !.unreadable = @ + 1]
  /\ UNCHANGED <<disk, cached, caller, pc, snap, stop, reasons, scoring, selection>>

\* The search was stopped, or a cap on preparation is reached.
StopPreparing ==
  /\ Is("prepare") /\ left # {} /\ (stop # None \/ request.capped)
  /\ left' = {}
  /\ prepared' = [prepared EXCEPT !.complete = FALSE]
  /\ UNCHANGED <<disk, cached, caller, pc, snap, stop, reasons, scoring, selection>>

\* The root is not the directory it was, or the token is of another search, or scores
\* are not cached.
PreparationRefused(cause) ==
  /\ Is("prepare") /\ left = {}
  /\ cause = "request" => request.token # {}
  /\ Fails(cause) /\ UNCHANGED failing

RecordPreparation ==
  IF ~prepared.inventory THEN {"INVENTORY_INCOMPLETE"}
  ELSE IF ~prepared.complete THEN {"PREPARATION_LIMIT"} ELSE {}

\* #lookupCachedScores: hits are the scores still cached.
PreparationEnds(hits) ==
  /\ Is("prepare") /\ left = {}
  /\ hits \subseteq {f \in Prepared : cached[Key(f)] # 0}
  /\ reasons' = reasons \cup RecordPreparation
  /\ score' = [f \in Fragments |-> IF f \in hits THEN cached[Key(f)] ELSE 0]
  /\ Goto("measure")
  /\ UNCHANGED <<disk, cached, caller, source, stop, plan, todo, selection>>

\* Counting tokens on the pool is abandoned when the search is stopped.
MeasureAborts ==
  /\ Is("measure") /\ stop # None
  /\ Fails("abort")
  /\ UNCHANGED failing

-----------------------------------------------------------------------------
(* The plan and its evaluation.                                            *)

Pending == Prepared \ Scored

\* Whether work of which a part is sent counts as stopped at a cap: the batches sent
\* are fewer than the batches there are, which they are not when the head of the last
\* one is sent.
StopsAtCap(sent, lastCut) == ~(lastCut /\ sent # {})

\* Nothing exceeds a cap, or a part of what is pending is sent.  Without leave for a
\* part the search is rejected, as it is when it could not prepare everything.
Plan(sent, lastCut) ==
  LET over == sent # Pending
      limited == "PREPARATION_LIMIT" \in reasons
      rejected == ~request.partial /\ (over \/ limited)
      atCap == over /\ StopsAtCap(sent, lastCut)
  IN
  /\ Is("measure")
  /\ sent \subseteq Pending /\ (over => request.capped)
  /\ plan' = [rejected |-> rejected, overrun |-> over, capReached |-> atCap]
  /\ reasons' = reasons \cup (IF rejected THEN {"SCOPE_EXCEEDS_SCAN_BUDGET"}
                              ELSE IF atCap THEN {"SCAN_CAP_REACHED"} ELSE {})
  /\ score' = IF rejected THEN [f \in Fragments |-> 0] ELSE score
  /\ todo' = IF rejected THEN {} ELSE sent
  /\ Goto(IF rejected THEN "select" ELSE "evaluate")
  /\ UNCHANGED <<disk, cached, caller, source, stop, selection>>

\* A score.  The usage of a failed attempt before it is unknown.
Answer(f, s, usage) ==
  /\ Is("evaluate") /\ f \in todo /\ stop = None
  /\ score' = [score EXCEPT ![f] = s]
  /\ cached' = [cached EXCEPT ![Key(f)] = s]
  /\ todo' = todo \ {f}
  /\ reasons' = reasons \cup usage
  /\ UNCHANGED <<disk, caller, pc, source, stop, plan, selection>>

\* No valid answer for a fragment, or a failure that is not retried.
NoAnswer(f, code) ==
  /\ Is("evaluate") /\ f \in todo /\ stop = None
  /\ reasons' = reasons \cup
       (IF code = "INVALID_PROVIDER_RESPONSE" THEN {code} ELSE {code, "USAGE_UNKNOWN"})
  /\ todo' = IF code = "PROVIDER_AUTH" THEN {} ELSE todo \ {f}
  /\ UNCHANGED <<disk, cached, caller, pc, source, stop, plan, score, selection>>

\* A batch does not fit under a cap: attempts used more than was planned, by a retry
\* or not.
CapInAdmission(retried) ==
  /\ Is("evaluate") /\ todo # {} /\ stop = None /\ request.capped
  /\ reasons' = reasons \cup {"SCAN_CAP_REACHED"}
                        \cup (IF retried THEN {"USAGE_UNKNOWN"} ELSE {})
  /\ todo' = {}
  /\ UNCHANGED <<disk, cached, caller, pc, source, stop, plan, score, selection>>

\* A file is no regular file any more when a batch is about to be sent.
AdmissionRefused ==
  /\ Is("evaluate") /\ todo # {} /\ stop = None
  /\ Fails("path")
  /\ UNCHANGED failing

\* Attempts under way when the search was stopped are abandoned.
EvaluationEnds(abandoned) ==
  /\ Is("evaluate") /\ (todo = {} \/ stop # None)
  /\ abandoned => todo # {}
  /\ reasons' = reasons \cup (IF abandoned THEN {"USAGE_UNKNOWN"} ELSE {})
  /\ todo' = {}
  /\ Goto("select")
  /\ UNCHANGED <<disk, cached, caller, source, stop, plan, score, selection>>

-----------------------------------------------------------------------------
(* Selection, and the check that its files have not changed.               *)

WalkOn == Goto(IF queue' = {} THEN "check" ELSE "walk")

\* The policy is the operator's, the same in every round.
BeginSelection(configured) ==
  /\ Is("select")
  /\ policy' = IF policy = None THEN configured ELSE policy
  /\ queue' = {f \in Distinct(Qualifying, score) : f.file \notin Stale}
  /\ chosen' = {} /\ used' = 0
  /\ WalkOn
  /\ UNCHANGED <<disk, cached, caller, source, stop, reasons, scoring, verdict, round,
                 plans, answer>>

Offer(f) ==
  LET a == Admission(chosen, used, f, score)
  IN
  /\ Is("walk") /\ policy = "relevance" /\ f \in queue
  /\ \A g \in queue \ {f} : Better(f, g, score)
  /\ queue' = queue \ {f}
  /\ IF Fits(used, a)
       THEN chosen' = Committed(chosen, a) /\ used' = used + a.delta
       ELSE UNCHANGED <<chosen, used>>
  /\ WalkOn
  /\ UNCHANGED <<disk, cached, caller, source, stop, reasons, scoring, verdict, round,
                 policy, plans, answer>>

Planned == [f \in Fragments |->
              IF f \in queue /\ plans[f] = None THEN Offered(chosen, f, Own(f), score) ELSE plans[f]]

\* Mutant of Replanned: only the plan of what was chosen is dropped.
ReplannedNone(f, P) == P

\* A commit changes the plans of the candidates of its file.
Replanned(f, P) == [g \in Fragments |-> IF g.file = f.file THEN None ELSE P[g]]

\* selectGreedy: what is worth most is chosen among the candidates that fit.  Their worth
\* is of the texts, and not looked at here.
Pick(f) ==
  /\ Is("walk") /\ policy = "greedy" /\ f \in queue
  /\ \E P \in {Planned} :
       /\ Fits(used, P[f])
       /\ chosen' = Committed(chosen, P[f]) /\ used' = used + P[f].delta
       /\ queue' = queue \ {f}
       /\ plans' = [g \in Fragments |-> IF g \in queue' THEN Replanned(f, P)[g] ELSE None]
  /\ WalkOn
  /\ UNCHANGED <<disk, cached, caller, source, stop, reasons, scoring, verdict, round, policy, answer>>

PicksEnd ==
  /\ Is("walk") /\ policy = "greedy"
  /\ \A f \in queue : ~Fits(used, Planned[f])
  /\ queue' = {} /\ plans' = NoPlans
  /\ Goto("check")
  /\ UNCHANGED <<disk, cached, caller, source, stop, reasons, scoring, verdict, round,
                 chosen, used, policy, answer>>

\* Mutant of Rounds: what is chosen after the first check is not checked.
OneRound == 1

Rounds == Cardinality(Read) + 1

CheckFile(x) ==
  /\ Is("check") /\ round < Rounds /\ x \in Unchecked
  /\ verdict' = [verdict EXCEPT ![x] = IF disk[x] = snap[x] THEN "fresh" ELSE "stale"]
  /\ UNCHANGED <<disk, cached, caller, pc, source, stop, reasons, scoring, walk, round,
                 answer>>

\* Every range is of a file found unchanged, or the selection is made again.  What is
\* selected after the last round is not checked.
CheckEnds ==
  LET again == round < Rounds /\ \E r \in chosen : r.file \in Stale
  IN
  /\ Is("check") /\ (round < Rounds => Unchecked = {})
  /\ reasons' = reasons \cup (IF again THEN {"SOURCE_CHANGED"} ELSE {})
  /\ round' = round + 1
  /\ policy' = IF again THEN policy ELSE None
  /\ Goto(IF again THEN "select" ELSE "report")
  /\ UNCHANGED <<disk, cached, caller, source, stop, scoring, queue, chosen, used, plans, verdict, answer>>

-----------------------------------------------------------------------------
(* The report.                                                             *)

NotEvaluated == Prepared \ Scored

\* Work that was lost for no reason known is a failure of the provider, and then the
\* clock is read once more.
BeginReport(size, late) ==
  LET silent == /\ NotEvaluated # {} /\ stop = None
                /\ ~plan.capReached /\ ~plan.rejected /\ "SCAN_CAP_REACHED" \notin reasons
  IN
  /\ Is("report") /\ (late => silent)
  /\ reasons' = reasons \cup (IF silent THEN {"PROVIDER_UNAVAILABLE"} ELSE {})
                        \cup (IF late THEN {"DEADLINE"} ELSE {})
  /\ stop' = IF late THEN "DEADLINE" ELSE stop
  /\ bare' = size
  /\ kept' = IF plan.rejected THEN {} ELSE chosen
  /\ Goto("render")
  /\ UNCHANGED <<disk, cached, caller, source, scoring, walk, verdict, round, ended, result>>

Represented(R) ==
  {f \in Qualifying : f.file \notin Stale /\ \E r \in R : Covers(r, f)}

\* Mutant of Delivered: what was chosen, whatever was removed.
DeliveredChosen(R) == request.token \cup {Key(f) : f \in {g \in Qualifying :
                        \E r \in chosen : Covers(r, g)}}

Delivered(R) == request.token \cup {Key(f) : f \in {g \in Qualifying :
                  \E r \in R : Covers(r, g)}}

\* No total is known when something was not prepared.
Total == IF prepared.complete THEN Cardinality(Prepared) ELSE None

Fatal == {"PROVIDER_AUTH", "PROVIDER_UNAVAILABLE", "INVALID_PROVIDER_RESPONSE", "CANCELLED"}
Harmless == {"USAGE_UNKNOWN"}

FullyScanned ==
  /\ ~plan.rejected /\ Total # None /\ NotEvaluated = {}
  /\ prepared.unreadable = 0 /\ Stale = {}
  /\ reasons \subseteq Harmless

Status ==
  IF plan.rejected THEN "rejected"
  ELSE IF FullyScanned THEN "complete"
  ELSE IF Scored = {} /\ reasons \cap Fatal # {} THEN "error" ELSE "partial"

\* Mutant of Omitted: what was delivered before counts again.
OmittedAgain(R) == Cardinality(Above) - Cardinality(Represented(R)) - Cardinality(StaleOnes)

\* Fragments left out for want of room.
Omitted(R) ==
  Cardinality(Above) - Cardinality(Represented(R)) - Cardinality(StaleOnes)
    - Cardinality(Before)

Outcome(R) ==
  IF plan.rejected THEN "preflight_rejected"
  ELSE IF R # {} THEN "selected"
  ELSE IF prepared.complete /\ Total = 0 THEN "no_eligible_content"
  ELSE IF Scored = {} THEN "no_successful_evaluation"
  ELSE IF Above = {} THEN "no_score_above_threshold"
  ELSE IF StaleOnes # {} /\ Cardinality(StaleOnes) = Cardinality(Above) THEN "no_fresh_excerpt"
  ELSE "no_excerpt_fits"

NextToken(R) ==
  IF /\ ~ended /\ Status \in {"partial", "complete"}
     /\ NotEvaluated # {} \/ Omitted(R) > 0
     /\ Cardinality(Delivered(R)) <= MaxDelivered
    THEN Delivered(R) ELSE None

Report(R) ==
  [status |-> Status, excerpts |-> R, fully |-> FullyScanned, total |-> Total,
   evaluated |-> Cardinality(Scored), notEvaluated |-> Cardinality(NotEvaluated),
   below |-> Cardinality(Scored \ Above), above |-> Cardinality(Above),
   represented |-> Cardinality(Represented(R)), omitted |-> Max({0, Omitted(R)}),
   stale |-> Cardinality(StaleOnes), before |-> Cardinality(Before),
   changed |-> Cardinality(Stale), unreadable |-> prepared.unreadable,
   outcome |-> Outcome(R), reasons |-> reasons, next |-> NextToken(R)]

(* The contract of a report (validateResult), but for its usage.           *)

CountsAgree(v) ==
  /\ v.evaluated = v.below + v.above
  /\ v.above = v.represented + v.omitted + v.stale + v.before
  /\ v.total # None => v.total = v.evaluated + v.notEvaluated /\ prepared.complete
  /\ v.unreadable > 0 => v.total = None
  /\ v.changed <= Cardinality(Read)
  /\ v.evaluated + v.notEvaluated > 0 => Read # {}
  /\ v.stale > 0 => v.changed > 0
  /\ v.changed > 0 => "SOURCE_CHANGED" \in v.reasons
  /\ Cardinality(v.excerpts) <= v.represented
  /\ v.represented = 0 <=> v.excerpts = {}

StatusAgrees(v) ==
  /\ v.fully => v.total # None /\ v.notEvaluated = 0 /\ v.unreadable = 0 /\ v.changed = 0
  /\ v.status = "complete" <=> v.fully
  /\ IF v.status = "complete" THEN v.reasons \subseteq Harmless ELSE v.reasons # {}
  /\ v.status = "error" => v.evaluated = 0 /\ v.reasons \cap Fatal # {}
  /\ v.status = "partial" /\ v.evaluated = 0 =>
       /\ "PROVIDER_AUTH" \notin v.reasons
       /\ \/ v.reasons \cap {"PROVIDER_UNAVAILABLE", "INVALID_PROVIDER_RESPONSE"} = {}
          \/ v.reasons \cap {"DEADLINE", "CANCELLED", "SCAN_CAP_REACHED", "PREPARATION_LIMIT"} # {}

OutcomeAgrees(v) ==
  v.outcome =
    IF v.status = "rejected" THEN "preflight_rejected"
    ELSE IF v.excerpts # {} THEN "selected"
    ELSE IF prepared.complete /\ v.total = 0 THEN "no_eligible_content"
    ELSE IF v.evaluated = 0 THEN "no_successful_evaluation"
    ELSE IF v.above = 0 THEN "no_score_above_threshold"
    ELSE IF v.stale = v.above THEN "no_fresh_excerpt" ELSE "no_excerpt_fits"

\* A rejection names a cap that is enabled, and exceeded or unknown.
RejectionAgrees(v) ==
  v.status = "rejected" =>
    /\ v.evaluated = 0 /\ "SCOPE_EXCEEDS_SCAN_BUDGET" \in v.reasons
    /\ request.capped
    /\ IF v.total = None THEN "PREPARATION_LIMIT" \in v.reasons ELSE plan.overrun

\* Ranges are above the threshold, each returned once, of files that were prepared.
ExcerptsAgree(v) ==
  /\ \A r \in v.excerpts : r.score >= Threshold
  /\ \A q, r \in v.excerpts : <<q.file, q.first, q.last>> = <<r.file, r.first, r.last>> => q = r
  /\ Cardinality({r.file : r \in v.excerpts}) <= Cardinality(Read)

Valid(v) ==
  CountsAgree(v) /\ StatusAgrees(v) /\ OutcomeAgrees(v) /\ ExcerptsAgree(v) /\ RejectionAgrees(v)

\* Tokens of the whole response.
Measured(v) ==
  bare + Prices(v.excerpts) + (IF v.next = None THEN 0 ELSE KeySize * Cardinality(v.next))

\* The lowest score, and of these the last place.
Victim(R, r) ==
  \A q \in R \ {r} :
    \/ r.score < q.score
    \/ r.score = q.score /\ r.file > q.file
    \/ r.score = q.score /\ r.file = q.file /\ r.first > q.first

reported == <<disk, cached, searches, request, source, stop, reasons, scoring, walk, verdict,
              round, bare>>

\* A report that violates its contract is not returned: the search throws.
Throw(v) ==
  /\ ~Valid(v)
  /\ Goto("threw")
  /\ UNCHANGED <<reported, offered, given, kept, ended, result>>

Return(v) ==
  /\ Valid(v) /\ Measured(v) <= Budget
  /\ result' = v
  /\ offered' = IF v.next = None THEN {} ELSE v.next
  /\ given' = given \cup {Key(f) : f \in Represented(kept)}
  /\ Goto("done")
  /\ UNCHANGED <<reported, kept, ended>>

TooLong(v) == Valid(v) /\ Measured(v) > Budget

RemoveRange(v, r) ==
  /\ TooLong(v)
  /\ r \in kept /\ Victim(kept, r)
  /\ kept' = kept \ {r}
  /\ UNCHANGED <<reported, offered, given, pc, ended, result>>

\* Mutant of EndContinuation: the report is made again as it was.
EndNothing(v) == TooLong(v) /\ kept = {} /\ v.next # None /\ UNCHANGED vars

\* Nothing is left to remove but the continuation.
EndContinuation(v) ==
  /\ TooLong(v)
  /\ kept = {} /\ v.next # None
  /\ ended' = TRUE
  /\ UNCHANGED <<reported, offered, given, pc, kept, result>>

TooSmall(v) ==
  /\ TooLong(v)
  /\ kept = {} /\ v.next = None
  /\ Fails("response budget")
  /\ UNCHANGED <<reported, offered, given, kept, ended>>

-----------------------------------------------------------------------------
\* A caller may hold a token from before, and the scores it was earned with are cached.
Init ==
  /\ disk \in Disks
  /\ given \in Past /\ offered = given /\ searches = 0
  /\ cached = [k \in Fragments \X Contents |->
                 IF k \in given THEN CHOOSE s \in Answers[k[1]] : s >= Threshold ELSE 0]
  /\ request = [partial |-> FALSE, capped |-> FALSE, token |-> {}]
  /\ pc = "idle" /\ left = {} /\ snap = [x \in Files |-> None]
  /\ prepared = [inventory |-> TRUE, complete |-> TRUE, unreadable |-> 0]
  /\ stop = None /\ reasons = {}
  /\ plan = [rejected |-> FALSE, overrun |-> FALSE, capReached |-> FALSE]
  /\ todo = {} /\ score = [f \in Fragments |-> 0]
  /\ verdict = [x \in Files |-> None] /\ round = 0
  /\ queue = {} /\ chosen = {} /\ used = 0 /\ policy = None /\ plans = NoPlans
  /\ bare = 0 /\ kept = {} /\ ended = FALSE /\ result = None

\* Steps of the search, once the inventory has begun.
Prepares ==
  \/ \E cause \in {"request", "response budget"} \cup CredentialErrors : Refuse(cause)
  \/ \E p \in Preparations : ReusePreparation(p)
  \/ \E L \in SUBSET Files, ok \in BOOLEAN : Inventory(L, ok)
  \/ \E x \in Files : PrepareFile(x) \/ FileUnreadable(x)
  \/ StopPreparing
  \/ \E cause \in {"path", "request"} : PreparationRefused(cause)
  \/ \E hits \in SUBSET Fragments : PreparationEnds(hits)
  \/ MeasureAborts

Evaluates ==
  \/ \E sent \in SUBSET Fragments, lastCut \in BOOLEAN : Plan(sent, lastCut)
  \/ \E f \in Fragments : \E s \in Answers[f], usage \in {{}, {"USAGE_UNKNOWN"}} :
       Answer(f, s, usage)
  \/ \E f \in Fragments, code \in Failures : NoAnswer(f, code)
  \/ \E retried \in BOOLEAN : CapInAdmission(retried)
  \/ AdmissionRefused
  \/ \E abandoned \in BOOLEAN : EvaluationEnds(abandoned)

Selects ==
  \/ \E configured \in {"relevance", "greedy"} : BeginSelection(configured)
  \/ \E f \in Fragments : Offer(f) \/ Pick(f)
  \/ PicksEnd
  \/ \E x \in Files : CheckFile(x)
  \/ CheckEnds

Renders ==
  \/ \E size \in ReportSizes, late \in BOOLEAN : BeginReport(size, late)
  \/ /\ Is("render")
     /\ \E v \in {Report(kept)} :
          \/ Throw(v)
          \/ Return(v)
          \/ \E r \in kept : RemoveRange(v, r)
          \/ EndContinuation(v)
          \/ TooSmall(v)

Steps == Prepares \/ Evaluates \/ Selects \/ Renders

Next ==
  \/ \E x \in Files, c \in Contents : Edit(x, c)
  \/ \E k \in Stops : Stop(k)
  \/ \E partial, capped \in BOOLEAN, token \in {{}, offered} : Ask(partial, capped, token)
  \/ Steps

\* A search goes on: the process runs, and an attempt ends by its own time limit.
Fairness == WF_vars(Steps)

Spec == Init /\ [][Next]_vars /\ Fairness

-----------------------------------------------------------------------------
\* A report is made from counters kept in five places, and its contract relates them:
\* terminal categories of fragments, status, reasons, outcome.  Whatever was cached,
\* lost, stopped, capped, changed or removed, only a report of a rejected search can
\* violate it, and make search() throw (validateResult).
ReportsBalance == pc = "threw" => plan.rejected

\* Every excerpt returned is of a file that was read again after the scores were known
\* and holds what was scored, however often files change while ranges are chosen
\* anew (selectFresh, one revalidation per file).
NoStaleEvidence ==
  pc \in {"report", "render", "done"} =>
    \A r \in chosen : verdict[r.file] = "fresh"

\* The running total of tokens is the price of the ranges chosen, through every merge,
\* and is never more than there is; and two ranges of a file always have a line
\* between them, so that no line is returned, or paid for, twice (RangeSet).
ChosenFits ==
  /\ used = Prices(chosen) /\ used <= Available
  /\ \A q, r \in chosen :
       q.file = r.file => q = r \/ q.last + 1 < r.first \/ r.last + 1 < q.first

\* A token holds what the caller was given in all the searches of a chain: nothing that
\* a later removal for the response budget took out, and nothing less (deliveredAfter).
TokenIsExact == offered # {} => offered = given

\* A search that has begun is answered, or throws, though files never stop changing
\* (freshness.ts: one revalidation attempt per file keeps it from looping).
SearchEnds == pc = "inventory" ~> pc \in {"done", "threw"}

=============================================================================
