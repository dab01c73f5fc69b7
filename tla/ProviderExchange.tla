--------------------------- MODULE ProviderExchange ---------------------------
(***************************************************************************)
(* One attempt at the provider, from what comes back over HTTP to what the *)
(* scheduler is told: boundedFetch and fetchTransport                      *)
(* (src/evaluation/http.ts), evaluateDecisionRequest of the direct and     *)
(* OpenRouter adapters (src/evaluation/jev.ts), and the gateway's own      *)
(* fetch, error classification and normalizer                              *)
(* (src/evaluation/vercel-gateway.ts).                                     *)
(*                                                                         *)
(* A reply is what the provider and the network make of an attempt; the    *)
(* texts, probabilities and counts in it are reduced to what the adapters  *)
(* tell apart.  Status 0 stands for null, 200 for every success.           *)
(***************************************************************************)
EXTENDS Integers, Sequences

CONSTANTS
  Adapter,      \* config.provider.adapter
  Statuses,     \* the statuses of refusals the provider may answer
  CauseDepths,  \* how deep in its chain of causes an SDK error has the status
  QuestionKeys, \* questionKeys of a batch
  Unasked,      \* keys of answers nobody asked for
  MaxAnswers    \* bound on the answers of one reply

NoStatus == 0
Success  == 200

ASSUME ExchangeAssumption ==
  /\ Adapter \in {"typesafe-direct", "openrouter", "vercel-ai-gateway"}
  /\ Statuses \subseteq 300 .. 599
  /\ CauseDepths \subseteq Nat \ {0}
  /\ QuestionKeys # {} /\ QuestionKeys \cap Unasked = {}
  /\ MaxAnswers \in Nat

-----------------------------------------------------------------------------
(* Attempts that end without an answer map.                                *)

Failure(code, status, retryable, ambiguous) ==
  [code |-> code, status |-> status, retryable |-> retryable,
   ambiguous |-> ambiguous]

FailureCodes == {"PROVIDER_AUTH", "PROVIDER_QUOTA", "PROVIDER_RATE_LIMIT",
                 "PROVIDER_UNAVAILABLE", "INVALID_PROVIDER_RESPONSE"}

Unreceivable == {"cut_off", "too_long", "ill_encoded"}
Unparsable   == {"not_json", "no_answer_map"}

\* `lost`: the connection fails before a status is read.
Replies == [lost : BOOLEAN, status : Statuses \cup {Success},
            body : {"answers"} \cup Unreceivable \cup Unparsable]

Failed(r) == r.lost \/ r.status # Success \/ r.body # "answers"

\* The provider may have evaluated, and billed, an attempt it did not refuse.
MayBeBilled(r) == r.lost \/ r.status = Success \/ r.status >= 500

\* The status the caller gets, NoStatus when the bounded read throws.  The body of a
\* refusal is not read.
BoundedFetch(r) ==
  IF r.lost \/ (r.status = Success /\ r.body \in Unreceivable) THEN NoStatus ELSE r.status

\* A status that leaves open whether the request was evaluated.
Unavailable(status) == status >= 500

\* The families both adapters have in common.
FamilyOf(status, other) ==
  IF status \in {401, 403} THEN "PROVIDER_AUTH"
  ELSE IF status \in {402, 409} THEN "PROVIDER_QUOTA"
  ELSE IF status = 429 THEN "PROVIDER_RATE_LIMIT"
  ELSE IF Unavailable(status) THEN "PROVIDER_UNAVAILABLE"
  ELSE other

Refused == {401, 402, 403, 409, 429}

Retryable(status) == status = 429 \/ Unavailable(status)

\* Mutant of ClassifyStatus: an unavailable provider is taken for one that refused.
ClassifyRefused(status) ==
  Failure(FamilyOf(status, "INVALID_PROVIDER_RESPONSE"), status, Retryable(status), FALSE)

ClassifyStatus(status) ==
  Failure(FamilyOf(status, IF status \in 300 .. 399 THEN "PROVIDER_UNAVAILABLE"
                                                    ELSE "INVALID_PROVIDER_RESPONSE"),
          status, Retryable(status), Unavailable(status))

DecisionFailure(r) ==
  IF BoundedFetch(r) = NoStatus THEN Failure("PROVIDER_UNAVAILABLE", NoStatus, FALSE, TRUE)
  ELSE IF BoundedFetch(r) = Success THEN Failure("INVALID_PROVIDER_RESPONSE", NoStatus, FALSE, TRUE)
  ELSE ClassifyStatus(r.status)

\* The SDK wraps what the fetch answers or throws; the status is looked for in four causes.
StatusFromError(r, depth) == IF depth <= 4 THEN BoundedFetch(r) ELSE NoStatus

ClassifyGatewayError(status) ==
  Failure(FamilyOf(status, "PROVIDER_UNAVAILABLE"), status, Retryable(status),
          status \notin Refused)

FailureOf(r, depth) ==
  IF Adapter = "vercel-ai-gateway" THEN ClassifyGatewayError(StatusFromError(r, depth))
                                   ELSE DecisionFailure(r)

\* What the scheduler may be told of a failed attempt, and whether it may be billed.
Failures == {[failure |-> FailureOf(r, d), billed |-> MayBeBilled(r)] :
               r \in {reply \in Replies : Failed(reply)}, d \in CauseDepths}

-----------------------------------------------------------------------------
(* Attempts that end with an answer map.  An answer is a key of the map in *)
(* the text, in its order; `again` says that a field of it is repeated.    *)

Answers == [key : QuestionKeys \cup Unasked, value : {"score", "out_of_range", "wrong_type"},
            again : BOOLEAN]

\* `twice`: a top-level key `answers` or `model` is repeated.
Bodies == [answers : UNION {[1 .. n -> Answers] : n \in 0 .. MaxAnswers},
           twice : BOOLEAN, usage : {"count", "no_count", "repeated"}]

Positions(b, k) == {i \in DOMAIN b.answers : b.answers[i].key = k}

Answered(b) == {b.answers[i].key : i \in DOMAIN b.answers}

\* JSON.parse keeps the last of the values of a key.
Parsed(b, k) == b.answers[CHOOSE i \in Positions(b, k) : \A j \in Positions(b, k) : j <= i].value

\* inspectResponseKeys: the questions answered more than once in the raw text.
Duplicates(b) ==
  {k \in QuestionKeys :
     \/ b.twice
     \/ \E i, j \in Positions(b, k) : i # j
     \/ \E i \in Positions(b, k) : b.answers[i].again}

\* normalizeResponse.
DecisionScores(b) == {k \in (QuestionKeys \cap Answered(b)) \ Duplicates(b) : Parsed(b, k) = "score"}

\* gatewayFetch: duplicates are dropped, an answer of another type becomes a sentinel.
Associations(b) == [k \in Answered(b) \ Duplicates(b) |->
                      IF Parsed(b, k) = "wrong_type" THEN "choice" ELSE Parsed(b, k)]

\* normalizeGatewayResult.
GatewayScores(b) == {k \in QuestionKeys \cap DOMAIN Associations(b) : Associations(b)[k] = "score"}

Scores(b) == IF Adapter = "vercel-ai-gateway" THEN GatewayScores(b) ELSE DecisionScores(b)

\* The ids of `invalid`: questions without a score and answers nobody asked for.
Invalid(b) == (QuestionKeys \ Scores(b)) \cup (Answered(b) \ QuestionKeys)

\* What the scheduler may be told of an answered attempt: whether the batch is scored
\* whole, whether nothing is invalid, and whether the usage is known.
Evaluations == {[whole |-> Scores(b) = QuestionKeys, clean |-> Invalid(b) = {}, counted |-> b.usage = "count"] :
                  b \in Bodies}
=============================================================================
