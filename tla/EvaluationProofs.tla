--------------------------- MODULE EvaluationProofs ---------------------------
(***************************************************************************)
(* The invariants of Evaluation, for any number of workers, batches and    *)
(* attempts, any caps, any retry policy and any failures.                  *)
(*                                                                         *)
(* The first part is about ProviderExchange, what the adapters promise the *)
(* scheduler for every reply: a failure that may be repeated although the  *)
(* provider may have billed it is marked ambiguous, and a score is the     *)
(* only answer to its question.                                            *)
(*                                                                         *)
(* The account is a cardinality over the history: its lemmas say what one  *)
(* more attempt, and one attempt less, do to it.  One lemma per kind of    *)
(* step then shows that IInv is preserved.  The last part is about what    *)
(* the end says: EInv, that nothing is lost and no reason untold, rests on *)
(* IInv.                                                                   *)
(***************************************************************************)
EXTENDS Evaluation, FiniteSetTheorems, TLAPS

-----------------------------------------------------------------------------
(* The exchange.                                                           *)

\* What a failure is made of.
IsFailure(f) == /\ f.code \in FailureCodes
                /\ f.retryable \in BOOLEAN /\ f.ambiguous \in BOOLEAN

\* Every failure that an adapter builds has the fields of a ProviderError.
LEMMA FailureBuilt ==
  \A c \in FailureCodes, s \in Int, r, a \in BOOLEAN :
    IsFailure(Failure(c, s, r, a)) /\ Failure(c, s, r, a).ambiguous = a
BY DEF IsFailure, Failure

\* The code of a status is one of the stable families.
LEMMA FamilyType ==
  ASSUME NEW s \in Int, NEW other \in FailureCodes
  PROVE  FamilyOf(s, other) \in FailureCodes
BY DEF FamilyOf, FailureCodes

\* classifyStatus: what it calls unavailable, but not a redirect, is ambiguous.
LEMMA StatusClassified ==
  ASSUME NEW s \in Int
  PROVE  /\ IsFailure(ClassifyStatus(s))
         /\ Unavailable(s) => ClassifyStatus(s).ambiguous
<1> DEFINE other == IF s \in 300 .. 399 THEN "PROVIDER_UNAVAILABLE" ELSE "INVALID_PROVIDER_RESPONSE"
<1>1. other \in FailureCodes
  BY DEF FailureCodes
<1>2. FamilyOf(s, other) \in FailureCodes /\ Retryable(s) \in BOOLEAN /\ Unavailable(s) \in BOOLEAN
  BY <1>1, FamilyType DEF Retryable, Unavailable
<1>3. ClassifyStatus(s) = Failure(FamilyOf(s, other), s, Retryable(s), Unavailable(s))
  BY DEF ClassifyStatus
<1> HIDE DEF other
<1> QED
  BY <1>2, <1>3, FailureBuilt

\* classifyGatewayError: the same families, and ambiguous whenever in doubt.
LEMMA GatewayErrorClassified ==
  ASSUME NEW s \in Int
  PROVE  /\ IsFailure(ClassifyGatewayError(s))
         /\ s \in {NoStatus, Success} \/ s >= 500 => ClassifyGatewayError(s).ambiguous
<1>1. /\ FamilyOf(s, "PROVIDER_UNAVAILABLE") \in FailureCodes
      /\ Retryable(s) \in BOOLEAN /\ (s \notin Refused) \in BOOLEAN
  BY FamilyType DEF Retryable, Unavailable, FailureCodes
<1>2. s \in {NoStatus, Success} \/ s >= 500 => s \notin Refused
  BY DEF Refused, NoStatus, Success
<1> QED
  BY <1>1, <1>2, FailureBuilt DEF ClassifyGatewayError

\* Every failure of an attempt the provider may have billed is ambiguous, whatever the
\* adapter, the status, the part of the body that arrived and the depth of the SDK's
\* error (evaluateDecisionRequest, classifyGatewayError).
THEOREM BilledIsAmbiguous ==
  ASSUME NEW e \in Failures
  PROVE  /\ IsFailure(e.failure) /\ e.billed \in BOOLEAN
         /\ e.billed => e.failure.ambiguous
<1>1. PICK r \in {reply \in Replies : Failed(reply)}, d \in CauseDepths :
        e = [failure |-> FailureOf(r, d), billed |-> MayBeBilled(r)]
  BY DEF Failures
<1>2. r.lost \in BOOLEAN /\ r.status \in Statuses \cup {Success}
  BY <1>1 DEF Replies
<1>0. r.status \in Int
  <2>1. \A s \in Statuses : s \in Int
    BY ExchangeAssumption
  <2> QED
    BY <1>2, <2>1 DEF Success
<1>3. e.billed \in BOOLEAN
  BY <1>1 DEF MayBeBilled
<1>4. ASSUME Adapter = "vercel-ai-gateway"
      PROVE  IsFailure(e.failure) /\ (e.billed => e.failure.ambiguous)
  <2>1. e.failure = ClassifyGatewayError(StatusFromError(r, d))
    BY <1>1, <1>4 DEF FailureOf
  <2>2. e.billed => StatusFromError(r, d) \in {NoStatus, Success} \/ StatusFromError(r, d) >= 500
    BY <1>0, <1>1, <1>2 DEF StatusFromError, BoundedFetch, MayBeBilled, NoStatus, Success
  <2>3. StatusFromError(r, d) \in Int
    BY <1>0 DEF StatusFromError, BoundedFetch, NoStatus
  <2> QED
    BY <2>1, <2>2, <2>3, GatewayErrorClassified
<1>5. ASSUME Adapter # "vercel-ai-gateway"
      PROVE  IsFailure(e.failure) /\ (e.billed => e.failure.ambiguous)
  <2>1. e.failure = DecisionFailure(r)
    BY <1>1, <1>5 DEF FailureOf
  <2>2. CASE BoundedFetch(r) = NoStatus
    <3>1. e.failure = Failure("PROVIDER_UNAVAILABLE", NoStatus, FALSE, TRUE)
      BY <2>1, <2>2 DEF DecisionFailure
    <3> QED
      BY <3>1 DEF IsFailure, Failure, FailureCodes
  <2>3. CASE BoundedFetch(r) = Success
    <3>1. e.failure = Failure("INVALID_PROVIDER_RESPONSE", NoStatus, FALSE, TRUE)
      BY <2>1, <2>3 DEF DecisionFailure, NoStatus, Success
    <3> QED
      BY <3>1 DEF IsFailure, Failure, FailureCodes
  <2>4. CASE BoundedFetch(r) \notin {NoStatus, Success}
    <3>1. e.failure = ClassifyStatus(r.status)
      BY <2>1, <2>4 DEF DecisionFailure
    <3>2. r.status # Success /\ ~r.lost
      BY <1>2, <2>4 DEF BoundedFetch
    <3>3. e.billed => Unavailable(r.status)
      BY <1>1, <3>2 DEF MayBeBilled, Unavailable
    <3> QED
      BY <1>0, <3>1, <3>3, StatusClassified
  <2> QED
    BY <2>2, <2>3, <2>4
<1> QED
  BY <1>3, <1>4, <1>5

\* A score the scheduler is given is the value of the one answer that the text has to
\* its question, in range and stated once, whatever else is in the text: an answer
\* that is repeated, in it or around it, scores nothing ("a repeated key makes that
\* answer unusable", jev.ts:218).
THEOREM ScoreIsTheSoleAnswer ==
  ASSUME NEW b \in Bodies, NEW k \in Scores(b)
  PROVE  /\ k \in QuestionKeys /\ ~b.twice
         /\ \E i \in DOMAIN b.answers :
              /\ b.answers[i].key = k /\ b.answers[i].value = "score" /\ ~b.answers[i].again
              /\ \A j \in DOMAIN b.answers : b.answers[j].key = k => j = i
<1>1. /\ k \in QuestionKeys \cap Answered(b) /\ k \notin Duplicates(b)
      /\ Parsed(b, k) = "score"
  <2>1. CASE Adapter = "vercel-ai-gateway"
    <3>1. k \in QuestionKeys /\ k \in DOMAIN Associations(b) /\ Associations(b)[k] = "score"
      BY <2>1 DEF Scores, GatewayScores
    <3>2. k \in Answered(b) \ Duplicates(b)
      BY <3>1 DEF Associations
    <3>3. Associations(b)[k] = IF Parsed(b, k) = "wrong_type" THEN "choice" ELSE Parsed(b, k)
      BY <3>2 DEF Associations
    <3> QED
      BY <3>1, <3>2, <3>3
  <2>2. CASE Adapter # "vercel-ai-gateway"
    BY <2>2 DEF Scores, DecisionScores
  <2> QED
    BY <2>1, <2>2
<1>2. /\ ~b.twice
      /\ \A i, j \in Positions(b, k) : i = j
      /\ \A i \in Positions(b, k) : ~b.answers[i].again
  BY <1>1 DEF Duplicates
<1>3. PICK i \in DOMAIN b.answers : b.answers[i].key = k
  BY <1>1 DEF Answered
<1>4. i \in Positions(b, k) /\ \A j \in Positions(b, k) : j = i
  BY <1>2, <1>3 DEF Positions
<1>5. i \in Nat
  <2>1. PICK n \in 0 .. MaxAnswers : b.answers \in [1 .. n -> Answers]
    BY DEF Bodies
  <2> QED
    BY <1>3, <2>1
<1>6. Parsed(b, k) = b.answers[i].value
  <2>1. \A m \in Positions(b, k) : (\A j \in Positions(b, k) : j <= m) => m = i
    BY <1>4
  <2>2. \E m \in Positions(b, k) : \A j \in Positions(b, k) : j <= m
    BY <1>4, <1>5
  <2>3. (CHOOSE m \in Positions(b, k) : \A j \in Positions(b, k) : j <= m) = i
    BY <2>1, <2>2
  <2> QED
    BY <2>3 DEF Parsed
<1>7. \A j \in DOMAIN b.answers : b.answers[j].key = k => j = i
  BY <1>4 DEF Positions
<1> QED
  BY <1>1, <1>2, <1>3, <1>4, <1>6, <1>7

-----------------------------------------------------------------------------
(* The account.                                                            *)

Keys == Batches \X Attempts

Units(K, W) == {x \in K \X (1 .. MaxWeight) : x[2] <= W[x[1][1]]}

-----------------------------------------------------------------------------
(* The attempts of a plan, and their weight.                               *)

\* The plan has finitely many attempts, hence so does any part of its history.
LEMMA KeysFinite ==
  /\ IsFiniteSet(Keys)
  /\ \A K \in SUBSET Keys : IsFiniteSet(K) /\ Cardinality(K) \in Nat
<1>1. IsFiniteSet(Batches) /\ IsFiniteSet(Attempts)
  BY FS_Interval, EvaluationAssumption DEF Batches, Attempts
<1>2. IsFiniteSet(Keys)
  BY <1>1, FS_Product DEF Keys
<1> QED
  BY <1>2, FS_Subset, FS_CardinalityType

\* The units of one attempt are an interval.
LEMMA IntervalSize ==
  ASSUME NEW n \in Nat
  PROVE  IsFiniteSet(1 .. n) /\ Cardinality(1 .. n) = n
<1>1. /\ IsFiniteSet(1 .. n)
      /\ Cardinality(1 .. n) = IF 1 > n THEN 0 ELSE n - 1 + 1
  BY FS_Interval
<1> QED
  BY <1>1

\* Every attempt weighs what its batch weighs.
LEMMA WeightOfOne ==
  ASSUME NEW k \in Keys, NEW W \in [Batches -> 0 .. MaxWeight]
  PROVE  IsFiniteSet(Units({k}, W)) /\ Cardinality(Units({k}, W)) = W[k[1]]
<1>1. W[k[1]] \in 0 .. MaxWeight /\ MaxWeight \in Nat
  BY EvaluationAssumption DEF Keys
<1>2. Units({k}, W) = {k} \X (1 .. W[k[1]])
  BY <1>1 DEF Units
<1>3. IsFiniteSet({k}) /\ Cardinality({k}) = 1
  BY FS_Singleton
<1>4. W[k[1]] \in Nat
  BY <1>1
<1>5. IsFiniteSet(1 .. W[k[1]]) /\ Cardinality(1 .. W[k[1]]) = W[k[1]]
  BY <1>4, IntervalSize
<1>6. /\ IsFiniteSet({k} \X (1 .. W[k[1]]))
      /\ Cardinality({k} \X (1 .. W[k[1]])) = Cardinality({k}) * Cardinality(1 .. W[k[1]])
  BY <1>3, <1>5, FS_Product
<1>7. 1 * W[k[1]] = W[k[1]]
  BY <1>4
<1> QED
  BY <1>2, <1>3, <1>5, <1>6, <1>7

\* The units of a set of attempts can be counted.
LEMMA UnitsFinite ==
  ASSUME NEW K \in SUBSET Keys, NEW W
  PROVE  IsFiniteSet(Units(K, W)) /\ Cardinality(Units(K, W)) \in Nat
<1>1. IsFiniteSet(K) /\ IsFiniteSet(1 .. MaxWeight)
  BY KeysFinite, FS_Interval, EvaluationAssumption
<1>2. IsFiniteSet(K \X (1 .. MaxWeight))
  BY <1>1, FS_Product
<1>3. Units(K, W) \in SUBSET (K \X (1 .. MaxWeight))
  BY DEF Units
<1> QED
  BY <1>2, <1>3, FS_Subset, FS_CardinalityType

\* One more attempt adds the weight of its batch.
LEMMA WeightAdd ==
  ASSUME NEW K \in SUBSET Keys, NEW k \in Keys, k \notin K,
         NEW W \in [Batches -> 0 .. MaxWeight]
  PROVE  /\ Weight(K, W) \in Nat
         /\ Weight(K \cup {k}, W) = Weight(K, W) + W[k[1]]
<1>1. Units(K \cup {k}, W) = Units(K, W) \cup Units({k}, W)
  BY DEF Units
<1>2. Units(K, W) \cap Units({k}, W) = {}
  BY DEF Units
<1>3. /\ IsFiniteSet(Units(K, W)) /\ Cardinality(Units(K, W)) \in Nat
      /\ IsFiniteSet(Units({k}, W)) /\ Cardinality(Units({k}, W)) = W[k[1]]
  BY UnitsFinite, WeightOfOne
<1>4. Cardinality(Units(K \cup {k}, W))
        = Cardinality(Units(K, W)) + Cardinality(Units({k}, W))
          - Cardinality(Units(K, W) \cap Units({k}, W))
  BY <1>1, <1>3, FS_Union
<1>5. Cardinality(Units(K, W) \cap Units({k}, W)) = 0
  BY <1>2, FS_EmptySet
<1>6. W[k[1]] \in Int
  BY EvaluationAssumption DEF Keys
<1>7. Cardinality(Units(K \cup {k}, W)) = Cardinality(Units(K, W)) + W[k[1]]
  BY <1>3, <1>4, <1>5, <1>6
<1> QED
  BY <1>3, <1>7 DEF Weight, Units

\* One attempt less takes the weight of its batch away, and never more than
\* there is.
LEMMA WeightRemove ==
  ASSUME NEW K \in SUBSET Keys, NEW k \in K,
         NEW W \in [Batches -> 0 .. MaxWeight]
  PROVE  /\ Weight(K \ {k}, W) \in Nat
         /\ Weight(K \ {k}, W) = Weight(K, W) - W[k[1]]
<1>1. K \ {k} \in SUBSET Keys /\ k \in Keys /\ k \notin K \ {k}
  OBVIOUS
<1>2. K = (K \ {k}) \cup {k}
  OBVIOUS
<1>3. /\ Weight(K \ {k}, W) \in Nat
      /\ Weight((K \ {k}) \cup {k}, W) = Weight(K \ {k}, W) + W[k[1]]
  BY <1>1, WeightAdd
<1>4. W[k[1]] \in Int
  BY EvaluationAssumption DEF Keys
<1>5. Weight(K, W) = Weight(K \ {k}, W) + W[k[1]]
  BY <1>2, <1>3
<1> QED
  BY <1>3, <1>4, <1>5

\* Attempts whose batches weigh at least one unit weigh no less than there are attempts.
LEMMA WeightOfAll ==
  ASSUME NEW K \in SUBSET Keys, NEW W \in [Batches -> 1 .. MaxWeight]
  PROVE  Cardinality(K) <= Weight(K, W)
<1> DEFINE first == [k \in K |-> <<k, 1>>]
<1>1. \A k \in K : W[k[1]] \in 1 .. MaxWeight
  BY DEF Keys
<1>2. \A k \in K : <<k, 1>> \in Units(K, W)
  BY <1>1, EvaluationAssumption DEF Units
<1>3. first \in Injection(K, Units(K, W))
  BY <1>2 DEF Injection, IsInjective
<1> HIDE DEF first
<1>4. IsFiniteSet(Units(K, W))
  BY UnitsFinite
<1>5. Cardinality(K) <= Cardinality(Units(K, W))
  BY <1>3, <1>4, FS_Injection
<1> QED
  BY <1>5 DEF Weight, Units

-----------------------------------------------------------------------------
(* The history and the account.                                            *)

\* A reservation keeps the account an account, one field at a time.
LEMMA ReserveType ==
  ASSUME usage \in UsageType, NEW b \in Batches
  PROVE  /\ Reserve(b) \in UsageType
         /\ Reserve(b).attempts = usage.attempts + 1
         /\ Reserve(b).bytes = usage.bytes + BatchBytes[b]
         /\ Reserve(b).reserved = usage.reserved + BatchTokens[b]
         /\ Reserve(b).known = usage.known
         /\ Reserve(b).unknown = usage.unknown
<1> DEFINE counted  == [usage EXCEPT !.attempts = @ + 1]
           sized    == [counted EXCEPT !.bytes = @ + BatchBytes[b]]
           reserved == [sized EXCEPT !.reserved = @ + BatchTokens[b]]
<1>1. Reserve(b) = reserved
  BY DEF Reserve
<1>2. BatchBytes[b] \in Nat /\ BatchTokens[b] \in Nat
  BY EvaluationAssumption
<1>3. /\ counted \in UsageType
      /\ counted.attempts = usage.attempts + 1 /\ counted.bytes = usage.bytes
      /\ counted.reserved = usage.reserved
      /\ counted.known = usage.known /\ counted.unknown = usage.unknown
  BY DEF UsageType
<1> HIDE DEF counted
<1>4. /\ sized \in UsageType
      /\ sized.attempts = usage.attempts + 1
      /\ sized.bytes = usage.bytes + BatchBytes[b]
      /\ sized.reserved = usage.reserved
      /\ sized.known = usage.known /\ sized.unknown = usage.unknown
  BY <1>2, <1>3 DEF UsageType
<1> HIDE DEF sized
<1>5. /\ reserved \in UsageType
      /\ reserved.attempts = usage.attempts + 1
      /\ reserved.bytes = usage.bytes + BatchBytes[b]
      /\ reserved.reserved = usage.reserved + BatchTokens[b]
      /\ reserved.known = usage.known /\ reserved.unknown = usage.unknown
  BY <1>2, <1>4 DEF UsageType
<1> HIDE DEF reserved
<1> QED
  BY <1>1, <1>5

\* So does a settlement that releases no more than is reserved.
LEMMA SettleType ==
  ASSUME usage \in UsageType, NEW b \in Batches, NEW t \in Nat,
         usage.reserved - BatchTokens[b] \in Nat
  PROVE  /\ Settle(b, t) \in UsageType
         /\ Settle(b, t).attempts = usage.attempts
         /\ Settle(b, t).bytes = usage.bytes
         /\ Settle(b, t).reserved = usage.reserved - BatchTokens[b]
         /\ Settle(b, t).unknown = usage.unknown
<1> DEFINE released == [usage EXCEPT !.reserved = @ - BatchTokens[b]]
           settled  == [released EXCEPT !.known = @ + t]
<1>1. Settle(b, t) = settled
  BY DEF Settle
<1>2. /\ released \in UsageType
      /\ released.reserved = usage.reserved - BatchTokens[b]
      /\ released.attempts = usage.attempts /\ released.bytes = usage.bytes
      /\ released.unknown = usage.unknown
  BY DEF UsageType
<1> HIDE DEF released
<1>3. /\ settled \in UsageType
      /\ settled.reserved = usage.reserved - BatchTokens[b]
      /\ settled.attempts = usage.attempts /\ settled.bytes = usage.bytes
      /\ settled.unknown = usage.unknown
  BY <1>2 DEF UsageType
<1> HIDE DEF settled
<1> QED
  BY <1>1, <1>3

\* An unused attempt is sent: it is counted, weighed and held back.
LEMMA AccountOfSending ==
  ASSUME TypeOK, AccountMatchesLedger,
         NEW k \in Keys, ledger[k] = "none",
         ledger' = [ledger EXCEPT ![k] = "inflight"],
         usage' = Reserve(k[1])
  PROVE  AccountMatchesLedger' /\ usage' \in UsageType
<1>1. ledger \in [Keys -> Resolutions] /\ "inflight" \in Resolutions
  BY DEF TypeOK, Keys, Resolutions
<1>2. /\ SentAttempts \in SUBSET Keys /\ k \notin SentAttempts
      /\ SentAttempts' = SentAttempts \cup {k}
  BY <1>1 DEF SentAttempts, AttemptsIn, Keys, Resolutions
<1>3. UnresolvedAttempts' = UnresolvedAttempts
  BY <1>1 DEF UnresolvedAttempts, AttemptsIn, Keys
<1>4. /\ HeldAttempts \in SUBSET Keys /\ k \notin HeldAttempts
      /\ HeldAttempts' = HeldAttempts \cup {k}
  BY <1>1 DEF HeldAttempts, AttemptsIn, Keys
<1>5. /\ BatchBytes \in [Batches -> 0 .. MaxWeight]
      /\ BatchTokens \in [Batches -> 0 .. MaxWeight]
      /\ BatchBytes[k[1]] \in Nat /\ BatchTokens[k[1]] \in Nat
  BY EvaluationAssumption DEF Keys
<1>6. Cardinality(SentAttempts') = Cardinality(SentAttempts) + 1
  BY <1>2, KeysFinite, FS_AddElement
<1>7. Weight(SentAttempts', BatchBytes)
        = Weight(SentAttempts, BatchBytes) + BatchBytes[k[1]]
  BY <1>2, <1>5, WeightAdd
<1>8. Weight(HeldAttempts', BatchTokens)
        = Weight(HeldAttempts, BatchTokens) + BatchTokens[k[1]]
  BY <1>4, <1>5, WeightAdd
<1>9. /\ usage'.attempts = usage.attempts + 1
      /\ usage'.bytes = usage.bytes + BatchBytes[k[1]]
      /\ usage'.unknown = usage.unknown
      /\ usage'.reserved = usage.reserved + BatchTokens[k[1]]
      /\ usage' \in UsageType
  BY ReserveType DEF TypeOK, Keys
<1>10. usage'.unknown = Cardinality(UnresolvedAttempts)'
  BY <1>3, <1>9 DEF AccountMatchesLedger
<1>11. /\ usage'.attempts = Cardinality(SentAttempts')
       /\ usage'.bytes = Weight(SentAttempts', BatchBytes)
       /\ usage'.reserved = Weight(HeldAttempts', BatchTokens)
  BY <1>6, <1>7, <1>8, <1>9 DEF AccountMatchesLedger
<1> QED
  BY <1>9, <1>10, <1>11 DEF AccountMatchesLedger, Weight

\* An attempt in flight ends without usage: it becomes unknown, and what it
\* holds back stays held back.
LEMMA AccountOfLosing ==
  ASSUME TypeOK, AccountMatchesLedger,
         NEW k \in Keys, ledger[k] = "inflight",
         NEW r \in {"unreported", "refused", "ambiguous"},
         ledger' = [ledger EXCEPT ![k] = r],
         usage' = Unresolved
  PROVE  AccountMatchesLedger' /\ usage' \in UsageType
<1>1. ledger \in [Keys -> Resolutions] /\ r \in Resolutions
  BY DEF TypeOK, Keys, Resolutions
<1>2. SentAttempts' = SentAttempts
  BY <1>1 DEF SentAttempts, AttemptsIn, Keys, Resolutions
<1>3. /\ UnresolvedAttempts \in SUBSET Keys /\ k \notin UnresolvedAttempts
      /\ UnresolvedAttempts' = UnresolvedAttempts \cup {k}
  BY <1>1 DEF UnresolvedAttempts, AttemptsIn, Keys
<1>4. HeldAttempts' = HeldAttempts
  BY <1>1 DEF HeldAttempts, AttemptsIn, Keys
<1>5. Cardinality(UnresolvedAttempts') = Cardinality(UnresolvedAttempts) + 1
  BY <1>3, KeysFinite, FS_AddElement
<1>6. /\ usage'.attempts = usage.attempts /\ usage'.bytes = usage.bytes
      /\ usage'.unknown = usage.unknown + 1
      /\ usage'.reserved = usage.reserved
      /\ usage' \in UsageType
  BY DEF TypeOK, UsageType, Unresolved
<1>7. usage'.unknown = Cardinality(UnresolvedAttempts')
  BY <1>5, <1>6 DEF AccountMatchesLedger
<1> QED
  BY <1>2, <1>4, <1>6, <1>7 DEF AccountMatchesLedger, Weight

\* An attempt in flight reports its usage: its reservation is in the reserved
\* tokens, and is taken out of them.
LEMMA AccountOfSettling ==
  ASSUME TypeOK, AccountMatchesLedger,
         NEW k \in Keys, ledger[k] = "inflight",
         NEW tokens \in Nat,
         ledger' = [ledger EXCEPT ![k] = "known"],
         usage' = Settle(k[1], tokens)
  PROVE  AccountMatchesLedger' /\ usage' \in UsageType
<1>1. ledger \in [Keys -> Resolutions] /\ "known" \in Resolutions
  BY DEF TypeOK, Keys, Resolutions
<1>2. SentAttempts' = SentAttempts
  BY <1>1 DEF SentAttempts, AttemptsIn, Keys, Resolutions
<1>3. UnresolvedAttempts' = UnresolvedAttempts
  BY <1>1 DEF UnresolvedAttempts, AttemptsIn, Keys
<1>4. /\ HeldAttempts \in SUBSET Keys /\ k \in HeldAttempts
      /\ HeldAttempts' = HeldAttempts \ {k}
  BY <1>1 DEF HeldAttempts, AttemptsIn, Keys
<1>5. BatchTokens \in [Batches -> 0 .. MaxWeight] /\ BatchTokens[k[1]] \in Nat
  BY EvaluationAssumption DEF Keys
<1>6. /\ Weight(HeldAttempts', BatchTokens) \in Nat
      /\ Weight(HeldAttempts', BatchTokens)
           = Weight(HeldAttempts, BatchTokens) - BatchTokens[k[1]]
  BY <1>4, <1>5, WeightRemove
<1>7. /\ usage.reserved - BatchTokens[k[1]] = Weight(HeldAttempts', BatchTokens)
      /\ usage.reserved - BatchTokens[k[1]] \in Nat
  BY <1>6 DEF AccountMatchesLedger
<1>8. /\ usage' \in UsageType
      /\ usage'.reserved = usage.reserved - BatchTokens[k[1]]
      /\ usage'.attempts = usage.attempts /\ usage'.bytes = usage.bytes
      /\ usage'.unknown = usage.unknown
  BY <1>7, SettleType DEF TypeOK, Keys
<1> QED
  BY <1>2, <1>3, <1>7, <1>8 DEF AccountMatchesLedger, Weight

-----------------------------------------------------------------------------
(* Steps that send nothing and settle nothing.                             *)

\* The batch a ready worker goes on with is its own, open, and new at the
\* attempt the worker is at.
LEMMA BatchInHandIsOpen ==
  ASSUME IInv, NEW w \in Workers, pc[w] = "ready", BatchInHand(w) <= NumBatches
  PROVE  /\ BatchInHand(w) \in Batches
         /\ Untouched(BatchInHand(w), attempt[w])
         /\ \A a \in Attempts : ledger[<<BatchInHand(w), a>>] \notin Final
         /\ \A v \in Workers \ {w} : batch[v] # BatchInHand(w)
         /\ TakeBatch(w) => /\ BatchInHand(w) <= next' /\ next <= next'
                            /\ next' \in Nat
                            /\ batch' = [batch EXCEPT ![w] = BatchInHand(w)]
<1>1. /\ NumBatches \in Nat /\ next \in Nat /\ batch[w] \in Batches \cup {NoBatch}
      /\ batch[w] <= next /\ attempt[w] \in Attempts
  BY EvaluationAssumption DEF IInv, TypeOK, TakenInOrder
<1>2. BatchInHand(w) \in Batches
  BY <1>1 DEF BatchInHand, Batches, NoBatch
<1>3. CASE batch[w] = NoBatch
  <2>1. BatchInHand(w) = next + 1
    BY <1>3 DEF BatchInHand
  <2>2. \A a \in Attempts : ledger[<<BatchInHand(w), a>>] = "none"
    BY <1>1, <1>2, <2>1 DEF IInv, TakenInOrder, Untouched, Attempts
  <2>3. \A v \in Workers : batch[v] # BatchInHand(w)
    BY <1>1, <1>2, <2>1 DEF IInv, TakenInOrder, TypeOK, Batches, NoBatch
  <2> QED
    BY <1>1, <1>2, <1>3, <2>1, <2>2, <2>3 DEF Untouched, Final, TakeBatch
<1>4. CASE batch[w] # NoBatch
  <2>1. BatchInHand(w) = batch[w]
    BY <1>4 DEF BatchInHand
  <2>2. Untouched(batch[w], attempt[w])
    BY <1>4 DEF IInv, AttemptIsNew
  <2>3. \A a \in Attempts : ledger[<<BatchInHand(w), a>>] \notin Final
    BY <1>2, <2>1 DEF IInv, BilledIsClosed
  <2>4. \A v \in Workers \ {w} : batch[v] # BatchInHand(w)
    BY <1>4, <2>1 DEF IInv, OneOwner
  <2> QED
    BY <1>1, <1>2, <1>4, <2>1, <2>2, <2>3, <2>4 DEF TakeBatch
<1> QED
  BY <1>3, <1>4

\* The account and the caps only depend on the usage, the history, and the
\* reasons given so far.
LEMMA AccountKept ==
  ASSUME IInv, UNCHANGED <<usage, ledger>>, stopReasons \subseteq stopReasons'
  PROVE  AccountMatchesLedger' /\ CapsHold'
<1>1. AccountMatchesLedger'
  BY DEF IInv, AccountMatchesLedger, SentAttempts, UnresolvedAttempts,
         HeldAttempts, AttemptsIn, Weight
<1>2. CapsHold'
  BY DEF IInv, CapsHold, Overrun, Over, Cost
<1> QED
  BY <1>1, <1>2

\* Reading the stop adds known reasons and takes none away.
LEMMA NoteType ==
  ASSUME TypeOK, NEW s \in {"none", "deadline", "client_cancelled"},
         NEW R \in SUBSET StopReasons, Note(s, R)
  PROVE  /\ stop' \in {"none", "deadline", "client_cancelled"}
         /\ stopReasons' \subseteq StopReasons
         /\ stopReasons \subseteq stopReasons'
BY DEF TypeOK, Note, ReasonOf, StopReasons

\* The clock, the client and the report change nothing the invariant relates.
LEMMA ContextStep ==
  ASSUME IInv, TypeOK', UNCHANGED <<next, pc, batch, attempt, until, usage, ledger>>,
         stopReasons \subseteq stopReasons', now <= now'
  PROVE  IInv'
<1>1. AccountMatchesLedger' /\ CapsHold'
  BY AccountKept
<1>2. ReadyHasWaited'
  BY DEF IInv, TypeOK, ReadyHasWaited
<1>3. OneOwner' /\ TakenInOrder' /\ AttemptIsNew' /\ BilledIsClosed'
  BY DEF IInv, OneOwner, TakenInOrder, AttemptIsNew, BilledIsClosed, Untouched
<1> QED
  BY <1>1, <1>2, <1>3 DEF IInv

\* A worker becomes ready after its pause, or leaves, with or without taking
\* a batch.
LEMMA WorkerStep ==
  ASSUME IInv, TypeOK', NEW w \in Workers, NEW p \in {"ready", "done"},
         pc' = [pc EXCEPT ![w] = p],
         p = "ready" => pc[w] = "pausing" /\ until[w] <= now /\ batch' = batch,
         \/ batch' = batch /\ next' \in {next, next + 1}
         \/ pc[w] = "ready" /\ BatchInHand(w) <= NumBatches /\ TakeBatch(w),
         UNCHANGED <<attempt, until, usage, ledger>>,
         stopReasons \subseteq stopReasons', now <= now'
  PROVE  IInv'
<1>1. AccountMatchesLedger' /\ CapsHold'
  BY AccountKept
<1>2. /\ \A v \in Workers \ {w} : pc'[v] = pc[v] /\ batch'[v] = batch[v]
      /\ next' \in Nat /\ next <= next'
      /\ \/ batch'[w] = batch[w]
         \/ /\ p = "done" /\ batch'[w] \in Batches /\ batch'[w] <= next'
            /\ \A a \in Attempts : ledger[<<batch'[w], a>>] \notin Final
            /\ \A v \in Workers \ {w} : batch[v] # batch'[w]
  BY BatchInHandIsOpen DEF IInv, TypeOK
<1>3. pc'[w] = p
  BY DEF IInv, TypeOK
<1>4. OneOwner'
  BY <1>2 DEF IInv, OneOwner
<1>5. TakenInOrder'
  <2>1. \A v \in Workers : batch[v] \in Nat /\ batch[v] <= next
    BY EvaluationAssumption DEF IInv, TypeOK, TakenInOrder, Batches, NoBatch
  <2>2. \A v \in Workers : batch'[v] <= next'
    BY <1>2, <2>1 DEF IInv, TypeOK
  <2>3. \A b \in Batches : b > next' => Untouched(b, 0)'
    BY <1>2 DEF IInv, TypeOK, TakenInOrder, Untouched, Batches
  <2> QED
    BY <2>2, <2>3 DEF TakenInOrder
<1>6. AttemptIsNew'
  BY <1>2, <1>3 DEF IInv, AttemptIsNew, Untouched
<1>7. BilledIsClosed'
  BY <1>2 DEF IInv, BilledIsClosed, Untouched
<1>8. ReadyHasWaited'
  BY <1>2, <1>3 DEF IInv, TypeOK, ReadyHasWaited
<1> QED
  BY <1>1, <1>4, <1>5, <1>6, <1>7, <1>8 DEF IInv

-----------------------------------------------------------------------------
(* Steps that send or settle.                                              *)

\* The failure of an aborted wait.
LEMMA AbortFailureType == IsFailure(AbortFailure) /\ AbortFailure.ambiguous
BY DEF AbortFailure, IsFailure, Failure, FailureCodes

\* Sending the attempt of an admitted batch.
LEMMA DispatchStep ==
  ASSUME IInv, NEW w \in Workers, Dispatch(w)
  PROVE  IInv'
<1>0. PICK b, n : b = BatchInHand(w) /\ n = attempt[w]
  OBVIOUS
<1> DEFINE k == <<b, n>>
<1>1. /\ pc[w] = "ready" /\ b <= NumBatches /\ TakeBatch(w)
      /\ ~ExceedsEnabledCaps(b)
      /\ usage' = Reserve(b)
      /\ pc' = [pc EXCEPT ![w] = "inflight"]
      /\ ledger' = [ledger EXCEPT ![k] = "inflight"]
      /\ UNCHANGED <<now, stop, stopReasons, terminal, aborted, cooldownUntil,
                     attempt, until, scores, outcome>>
  BY <1>0 DEF Dispatch, Admitting, contextVars
<1>2. /\ b \in Batches /\ Untouched(b, n)
      /\ \A a \in Attempts : ledger[<<b, a>>] \notin Final
      /\ \A v \in Workers \ {w} : batch[v] # b
      /\ b <= next' /\ next <= next' /\ next' \in Nat
      /\ batch' = [batch EXCEPT ![w] = b]
  BY <1>0, <1>1, BatchInHandIsOpen
<1>3. /\ n \in Attempts /\ k \in Keys /\ k[1] = b
      /\ ledger[k] = "none" /\ n \in Nat /\ b # NoBatch
  BY <1>0, <1>2, EvaluationAssumption
  DEF IInv, TypeOK, Keys, Untouched, Attempts, Batches, NoBatch
<1>4. AccountMatchesLedger' /\ usage' \in UsageType
  BY <1>1, <1>3, AccountOfSending DEF IInv
<1> HIDE DEF k
<1>5. TypeOK'
  BY <1>1, <1>2, <1>3, <1>4 DEF IInv, TypeOK, Resolutions, Keys
<1>6. CapsHold'
  <2>1. usage \in UsageType
    BY DEF IInv, TypeOK
  <2>2. /\ usage'.attempts = usage.attempts + 1
        /\ usage'.bytes = usage.bytes + BatchBytes[b]
        /\ usage'.known + usage'.reserved
             = usage.known + usage.reserved + BatchTokens[b]
    BY <1>1, <1>2, <2>1, ReserveType, EvaluationAssumption DEF UsageType
  <2> QED
    BY <1>1, <2>2 DEF ExceedsEnabledCaps, CapsHold, Overrun, Over
<1>7. OneOwner'
  BY <1>2 DEF IInv, TypeOK, OneOwner
<1>8. TakenInOrder'
  <2>1. \A v \in Workers : batch[v] \in Nat /\ batch[v] <= next
    BY EvaluationAssumption DEF IInv, TypeOK, TakenInOrder, Batches, NoBatch
  <2>2. \A v \in Workers : batch'[v] <= next'
    BY <1>2, <2>1 DEF IInv, TypeOK
  <2>3. \A c \in Batches : c > next' => Untouched(c, 0)'
    BY <1>1, <1>2 DEF IInv, TypeOK, TakenInOrder, Untouched, Batches, k
  <2> QED
    BY <2>2, <2>3 DEF TakenInOrder
<1>9. AttemptIsNew'
  <2>1. ASSUME NEW v \in Workers \ {w}
        PROVE  /\ pc'[v] = pc[v] /\ batch'[v] = batch[v] /\ batch[v] # b
               /\ attempt'[v] = attempt[v]
               /\ \A a \in Attempts : ledger'[<<batch[v], a>>] = ledger[<<batch[v], a>>]
    BY <1>1, <1>2 DEF IInv, TypeOK, k
  <2>2. /\ pc'[w] = "inflight" /\ batch'[w] = b /\ attempt'[w] = n
        /\ ledger'[<<b, n>>] = "inflight"
    BY <1>0, <1>1, <1>2, <1>3 DEF IInv, TypeOK, Keys, k
  <2>3. \A a \in Attempts : a >= n + 1 => ledger'[<<b, a>>] = "none"
    BY <1>1, <1>2, <1>3 DEF Untouched, Attempts, k
  <2>4. ASSUME NEW v \in Workers \ {w}
        PROVE  AttemptIsNew!(v)'
    BY <2>1 DEF IInv, AttemptIsNew, Untouched, TypeOK
  <2>5. AttemptIsNew!(w)'
    BY <1>3, <2>2, <2>3 DEF AttemptIsNew, Untouched
  <2> QED
    BY <2>4, <2>5 DEF AttemptIsNew
<1>10. BilledIsClosed'
  BY <1>1, <1>2 DEF IInv, TypeOK, BilledIsClosed, Untouched, Final, k
<1>11. ReadyHasWaited'
  BY <1>1 DEF IInv, TypeOK, ReadyHasWaited
<1> QED
  BY <1>4, <1>5, <1>6, <1>7, <1>8, <1>9, <1>10, <1>11 DEF IInv

\* What happens to the worker w and its attempt <<b, n>> in flight when that
\* attempt ends as r: the worker keeps the batch for the next attempt, which
\* only an attempt that is not final allows, or lets it go.
LEMMA ResolutionStep ==
  ASSUME IInv, TypeOK', AccountMatchesLedger', CapsHold',
         NEW w \in Workers, pc[w] = "inflight",
         NEW b, b = batch[w], NEW n, n = attempt[w],
         NEW r \in Resolutions \ {"none", "inflight"},
         ledger' = [ledger EXCEPT ![<<b, n>>] = r],
         pc'[w] \in {"pausing", "done"},
         \A v \in Workers \ {w} :
           pc'[v] = pc[v] /\ batch'[v] = batch[v] /\ attempt'[v] = attempt[v]
                         /\ until'[v] = until[v],
         \/ batch'[w] = NoBatch
         \/ batch'[w] = b /\ attempt'[w] = n + 1 /\ r \notin Final,
         next' = next, now' = now
  PROVE  IInv'
<1>1. /\ b \in Batches /\ n \in Attempts /\ n \in Nat /\ <<b, n>> \in Keys
      /\ b <= next /\ ledger[<<b, n>>] = "inflight"
      /\ \A a \in Attempts : a >= n + 1 => ledger[<<b, a>>] = "none"
      /\ \A v \in Workers \ {w} : batch[v] # b
  <2>1. b \in Batches /\ n \in Attempts /\ b <= next /\ b # NoBatch
    BY DEF IInv, TypeOK, AttemptIsNew, TakenInOrder
  <2>2. ledger[<<b, n>>] = "inflight" /\ Untouched(b, n + 1)
    BY DEF IInv, AttemptIsNew
  <2>3. \A v \in Workers \ {w} : batch[v] # b
    BY <2>1 DEF IInv, OneOwner
  <2> QED
    BY <2>1, <2>2, <2>3 DEF Untouched, Attempts, Keys
<1>2. /\ ledger'[<<b, n>>] = r
      /\ \A c \in Batches, a \in Attempts :
           c # b \/ a # n => ledger'[<<c, a>>] = ledger[<<c, a>>]
  BY <1>1 DEF IInv, TypeOK, Keys
<1>3. OneOwner'
  BY <1>1 DEF IInv, OneOwner
<1>4. TakenInOrder'
  <2>1. \A v \in Workers : batch'[v] <= next'
    BY <1>1 DEF IInv, TypeOK, TakenInOrder, NoBatch
  <2>2. \A c \in Batches : c > next' => \A a \in Attempts : a >= 0 => ledger'[<<c, a>>] = "none"
    BY <1>1, <1>2 DEF IInv, TypeOK, TakenInOrder, Untouched, Batches
  <2> QED
    BY <2>1, <2>2 DEF TakenInOrder, Untouched
<1>5. AttemptIsNew'
  <2>1. ASSUME NEW v \in Workers \ {w}
        PROVE  AttemptIsNew!(v)'
    <3>1. \A a \in Attempts : batch[v] \in Batches => ledger'[<<batch[v], a>>] = ledger[<<batch[v], a>>]
      BY <1>1, <1>2
    <3>2. batch[v] # NoBatch => batch[v] \in Batches
      BY DEF IInv, TypeOK
    <3> QED
      BY <3>1, <3>2 DEF IInv, AttemptIsNew, Untouched, TypeOK
  <2>2. AttemptIsNew!(w)'
    BY <1>1, <1>2 DEF AttemptIsNew, Untouched, Attempts
  <2> QED
    BY <2>1, <2>2 DEF AttemptIsNew
<1>6. BilledIsClosed'
  <2>1. ASSUME NEW c \in Batches, NEW a \in Attempts, ledger'[<<c, a>>] \in Final
        PROVE  /\ \A later \in Attempts : later >= a + 1 => ledger'[<<c, later>>] = "none"
               /\ \A v \in Workers : batch'[v] # c
    <3>1. CASE c = b /\ a = n
      BY <1>1, <1>2, <2>1, <3>1 DEF Attempts, Batches, NoBatch
    <3>2. CASE ~(c = b /\ a = n)
      <4>1. /\ \A later \in Attempts : later >= a + 1 => ledger[<<c, later>>] = "none"
            /\ \A v \in Workers : batch[v] # c
        BY <1>2, <2>1, <3>2 DEF IInv, BilledIsClosed, Untouched
      <4>2. c # b
        BY <4>1
      <4> QED
        BY <1>2, <4>1, <4>2 DEF Batches, NoBatch
    <3> QED
      BY <3>1, <3>2
  <2> QED
    BY <2>1 DEF BilledIsClosed, Untouched
<1>7. ReadyHasWaited'
  BY DEF IInv, ReadyHasWaited
<1> QED
  BY <1>3, <1>4, <1>5, <1>6, <1>7 DEF IInv

\* Delays are natural numbers.
LEMMA DelayType ==
  ASSUME NEW a, NEW j \in Jittered(a), NEW ra \in RetryAfters
  PROVE  Longer(j, ra) \in Nat
<1>1. j \in Nat
  BY DEF Jittered
<1> QED
  BY <1>1, EvaluationAssumption DEF Longer

\* A failed attempt, retried or not.
LEMMA FailureStep ==
  ASSUME IInv, NEW w \in Workers, pc[w] = "inflight",
         NEW f, IsFailure(f), NEW billed \in BOOLEAN, billed => f.ambiguous,
         NEW cancelled \in BOOLEAN, NEW delay \in Nat,
         HandleFailure(w, f, billed, cancelled, delay)
  PROVE  IInv'
<1>0. PICK b, n : b = batch[w] /\ n = attempt[w]
  OBVIOUS
<1> DEFINE r == IF billed THEN "ambiguous" ELSE "refused"
<1>1. /\ usage' = Unresolved
      /\ ledger' = [ledger EXCEPT ![<<b, n>>] = r]
      /\ terminal' = (terminal \/ Fatal(f))
      /\ cooldownUntil' = CooldownAfter(f, delay)
      /\ UNCHANGED <<now, next, aborted, scores, outcome>>
  BY <1>0 DEF HandleFailure
<1>2. /\ r \in {"unreported", "refused", "ambiguous"}
      /\ r \in Resolutions \ {"none", "inflight"}
  BY DEF Resolutions
<1>3. TypeOK /\ b \in Batches /\ n \in Attempts /\ ledger[<<b, n>>] = "inflight"
  BY <1>0 DEF IInv, TypeOK, AttemptIsNew
<1>4. AccountMatchesLedger' /\ usage' \in UsageType
  <2>1. <<b, n>> \in Keys
    BY <1>3 DEF Keys
  <2> QED
    BY <1>1, <1>2, <1>3, <2>1, AccountOfLosing DEF IInv
<1>5. /\ stop' \in {"none", "deadline", "client_cancelled"}
      /\ stopReasons' \subseteq StopReasons /\ stopReasons \subseteq stopReasons'
  <2>1. ObservedStop \in {"none", "deadline", "client_cancelled"}
    BY <1>3 DEF TypeOK, ObservedStop
  <2>2. FailureReasons(w, f, cancelled) \in SUBSET StopReasons
    BY DEF FailureReasons, IsFailure, StopReasons
  <2>3. PICK st \in {"none", "deadline", "client_cancelled"} :
          Note(st, FailureReasons(w, f, cancelled))
    BY <1>3, <2>1 DEF HandleFailure, TypeOK
  <2> QED
    BY <1>3, <2>2, <2>3, NoteType
<1>6. \/ /\ WillRetry(w, f, cancelled)
         /\ pc' = [pc EXCEPT ![w] = "pausing"] /\ batch' = batch
         /\ attempt' = [attempt EXCEPT ![w] = n + 1]
         /\ until' = [until EXCEPT ![w] = now + delay]
      \/ NextBatch(w)
  BY <1>0 DEF HandleFailure
<1>7. terminal' \in BOOLEAN /\ cooldownUntil' \in Nat
  <2>1. now + delay \in Nat
    BY <1>3, EvaluationAssumption DEF TypeOK
  <2>2. cooldownUntil' \in Nat
    BY <1>1, <1>3, <2>1 DEF TypeOK, CooldownAfter, Longer
  <2>3. Fatal(f) \in BOOLEAN
    BY DEF Fatal
  <2> QED
    BY <1>1, <1>3, <2>2, <2>3 DEF TypeOK
<1>8. /\ pc' \in [Workers -> {"pausing", "ready", "inflight", "done"}]
      /\ batch' \in [Workers -> Batches \cup {NoBatch}]
      /\ attempt' \in [Workers -> Attempts]
      /\ until' \in [Workers -> Nat]
  <2>1. now + delay \in Nat
    BY <1>3, EvaluationAssumption DEF TypeOK
  <2>2. CASE NextBatch(w)
    BY <1>3, <2>2, EvaluationAssumption DEF TypeOK, NextBatch, Attempts
  <2>3. CASE /\ WillRetry(w, f, cancelled)
             /\ pc' = [pc EXCEPT ![w] = "pausing"] /\ batch' = batch
             /\ attempt' = [attempt EXCEPT ![w] = n + 1]
             /\ until' = [until EXCEPT ![w] = now + delay]
    <3>1. n + 1 \in Attempts
      BY <1>0, <1>3, <2>3, EvaluationAssumption DEF WillRetry, Attempts
    <3> QED
      BY <1>3, <2>1, <2>3, <3>1 DEF TypeOK
  <2> QED
    BY <1>6, <2>2, <2>3
<1>9. TypeOK'
  BY <1>1, <1>2, <1>3, <1>4, <1>5, <1>7, <1>8 DEF TypeOK
<1>10. CapsHold'
  <2>1. /\ usage'.attempts = usage.attempts /\ usage'.bytes = usage.bytes
        /\ usage'.known = usage.known /\ usage'.reserved = usage.reserved
    BY <1>1, <1>3 DEF TypeOK, UsageType, Unresolved
  <2> QED
    BY <1>5, <2>1 DEF IInv, CapsHold, Overrun, Over
<1>11. /\ pc'[w] \in {"pausing", "done"}
       /\ \A v \in Workers \ {w} :
            pc'[v] = pc[v] /\ batch'[v] = batch[v] /\ attempt'[v] = attempt[v]
                          /\ until'[v] = until[v]
       /\ \/ batch'[w] = NoBatch
          \/ batch'[w] = b /\ attempt'[w] = n + 1 /\ r \notin Final
  <2>1. WillRetry(w, f, cancelled) => r \notin Final
    BY DEF WillRetry, Final, IsFailure
  <2> QED
    BY <1>0, <1>3, <1>6, <2>1 DEF TypeOK, NextBatch
<1> HIDE DEF r
<1> QED
  BY <1>0, <1>1, <1>2, <1>4, <1>9, <1>10, <1>11, ResolutionStep

\* An answer in time, with or without its usage.
LEMMA AnswerStep ==
  ASSUME IInv, NEW w \in Workers, NEW e, NEW u,
         NEW r \in {"known", "unreported"}, NEW R \in SUBSET StopReasons,
         Answer(w, e, u, r, R),
         \/ /\ r = "unreported" /\ u = Unresolved
         \/ /\ r = "known" /\ \E t \in ReportedTokens : u = Settle(batch[w], t)
            /\ Overrun(u) => "ESTIMATE_OVERRUN" \in R
  PROVE  IInv'
<1>0. PICK b, n : b = batch[w] /\ n = attempt[w]
  OBVIOUS
<1>1. /\ pc[w] = "inflight"
      /\ usage' = u
      /\ ledger' = [ledger EXCEPT ![<<b, n>>] = r]
      /\ scores' = [scores EXCEPT ![b] = IF e.whole THEN "full" ELSE "partial"]
      /\ NextBatch(w)
      /\ Note(stop, R \cup IF e.clean THEN {} ELSE {"INVALID_PROVIDER_RESPONSE"})
      /\ UNCHANGED <<now, next, terminal, aborted, cooldownUntil, outcome>>
  BY <1>0 DEF Answer, sharedVars
<1>2. r \in Resolutions \ {"none", "inflight"} /\ r \in Final
  BY DEF Resolutions, Final
<1>3. TypeOK /\ b \in Batches /\ n \in Attempts /\ ledger[<<b, n>>] = "inflight"
      /\ <<b, n>> \in Keys
  BY <1>0, <1>1 DEF IInv, TypeOK, AttemptIsNew, Keys
<1>4. /\ stop' \in {"none", "deadline", "client_cancelled"}
      /\ stopReasons' \subseteq StopReasons /\ stopReasons \subseteq stopReasons'
      /\ R \subseteq stopReasons'
  <2>1. R \cup (IF e.clean THEN {} ELSE {"INVALID_PROVIDER_RESPONSE"}) \in SUBSET StopReasons
    BY DEF StopReasons, FailureCodes
  <2>2. stop \in {"none", "deadline", "client_cancelled"}
    BY <1>3 DEF TypeOK
  <2> QED
    BY <1>1, <1>3, <2>1, <2>2, NoteType DEF Note
<1>5. AccountMatchesLedger' /\ usage' \in UsageType /\ CapsHold'
  <2>1. CASE r = "unreported" /\ u = Unresolved
    <3>1. AccountMatchesLedger' /\ usage' \in UsageType
      BY <1>1, <1>3, <2>1, AccountOfLosing DEF IInv
    <3>2. /\ usage'.attempts = usage.attempts /\ usage'.bytes = usage.bytes
          /\ usage'.known = usage.known /\ usage'.reserved = usage.reserved
      BY <1>1, <1>3, <2>1 DEF TypeOK, UsageType, Unresolved
    <3> QED
      BY <1>4, <3>1, <3>2 DEF IInv, CapsHold, Overrun, Over
  <2>2. CASE /\ r = "known" /\ \E t \in ReportedTokens : u = Settle(batch[w], t)
             /\ Overrun(u) => "ESTIMATE_OVERRUN" \in R
    <3>1. PICK t \in ReportedTokens : u = Settle(b, t)
      BY <1>0, <2>2
    <3>2. t \in Nat
      BY EvaluationAssumption
    <3>3. AccountMatchesLedger' /\ usage' \in UsageType
      BY <1>1, <1>3, <2>2, <3>1, <3>2, AccountOfSettling DEF IInv
    <3>4. usage'.attempts = usage.attempts /\ usage'.bytes = usage.bytes
      BY <1>1, <1>3, <3>1 DEF TypeOK, UsageType, Settle
    <3>5. Overrun(usage)' => "ESTIMATE_OVERRUN" \in stopReasons'
      BY <1>1, <1>4, <2>2 DEF Overrun, Over, Cost
    <3> QED
      BY <3>3, <3>4, <3>5 DEF IInv, CapsHold, Over
  <2> QED
    BY <2>1, <2>2
<1>6. TypeOK'
  BY <1>1, <1>2, <1>3, <1>4, <1>5, EvaluationAssumption
  DEF TypeOK, NextBatch, Attempts
<1>7. /\ pc'[w] \in {"pausing", "done"} /\ batch'[w] = NoBatch
      /\ \A v \in Workers \ {w} :
           pc'[v] = pc[v] /\ batch'[v] = batch[v] /\ attempt'[v] = attempt[v]
                         /\ until'[v] = until[v]
  BY <1>1, <1>3 DEF TypeOK, NextBatch
<1> QED
  BY <1>0, <1>1, <1>2, <1>5, <1>6, <1>7, ResolutionStep

-----------------------------------------------------------------------------
(* The invariant.                                                          *)

\* Before anything is sent the account is empty and under every cap.
LEMMA InitIInv == Init => IInv
<1> SUFFICES ASSUME Init PROVE IInv
  OBVIOUS
<1>1. TypeOK
  <2>1. usage \in UsageType
    BY DEF Init, UsageType
  <2>2. stopReasons \subseteq StopReasons
    BY DEF Init, StopReasons
  <2>3. ledger \in [Batches \X Attempts -> Resolutions]
    BY DEF Init, Resolutions
  <2>4. attempt \in [Workers -> Attempts] /\ now \in 0 .. Deadline
    BY EvaluationAssumption DEF Init, Attempts
  <2> QED
    BY <2>1, <2>2, <2>3, <2>4 DEF Init, TypeOK, NoBatch
<1>2. AccountMatchesLedger
  <2>1. /\ SentAttempts = {} /\ UnresolvedAttempts = {} /\ HeldAttempts = {}
    BY DEF Init, SentAttempts, UnresolvedAttempts, HeldAttempts, AttemptsIn
  <2>2. Cardinality({}) = 0
    BY FS_EmptySet
  <2>3. \A W : {x \in {} \X (1 .. MaxWeight) : x[2] <= W[x[1][1]]} = {}
    OBVIOUS
  <2>4. \A W : Weight({}, W) = 0
    BY <2>2, <2>3 DEF Weight
  <2> QED
    BY <2>1, <2>2, <2>4 DEF Init, AccountMatchesLedger
<1>3. CapsHold
  <2>1. \A c \in DOMAIN EnabledCaps : EnabledCaps[c] \in Nat
    BY EvaluationAssumption
  <2>2. \A c : ~Over(c, 0)
    BY <2>1 DEF Over
  <2>3. Cost(0) = 0
    <3>1. 0 * Price + PriceUnit - 1 = PriceUnit - 1
      BY EvaluationAssumption
    <3>2. (PriceUnit - 1) \div PriceUnit = 0
      BY EvaluationAssumption
    <3> QED
      BY <3>1, <3>2 DEF Cost
  <2>4. usage.attempts = 0 /\ usage.bytes = 0 /\ usage.known + usage.reserved = 0
    BY DEF Init
  <2> QED
    BY <2>2, <2>3, <2>4 DEF CapsHold, Overrun
<1>4. OneOwner /\ TakenInOrder /\ AttemptIsNew /\ BilledIsClosed /\ ReadyHasWaited
  BY DEF Init, OneOwner, TakenInOrder, AttemptIsNew, BilledIsClosed, ReadyHasWaited,
         Untouched, Final, NoBatch
<1> QED
  BY <1>1, <1>2, <1>3, <1>4 DEF IInv

\* Every step preserves the invariant.
LEMMA NextIInv == IInv /\ [Next]_vars => IInv'
<1> SUFFICES ASSUME IInv, [Next]_vars PROVE IInv'
  OBVIOUS
<1>0. /\ TypeOK /\ Deadline \in Nat /\ now \in Nat
      /\ ObservedStop \in {"none", "deadline", "client_cancelled"}
  BY EvaluationAssumption DEF IInv, TypeOK, ObservedStop
<1>1. CASE Tick
  <2>1. TypeOK' /\ now <= now'
    BY <1>0, <1>1 DEF TypeOK, Tick, sharedVars, workerVars, engineVars
  <2> QED
    BY <1>1, <2>1, ContextStep DEF Tick, sharedVars, workerVars, engineVars
<1>2. CASE DeadlineTimer
  <2>1. TypeOK' /\ stopReasons \subseteq stopReasons' /\ now <= now'
    BY <1>0, <1>2, NoteType DEF TypeOK, DeadlineTimer, sharedVars, workerVars, engineVars
  <2> QED
    BY <1>2, <2>1, ContextStep DEF DeadlineTimer, sharedVars, workerVars, engineVars
<1>3. CASE ClientCancel
  <2>1. TypeOK' /\ stopReasons \subseteq stopReasons' /\ now <= now'
    BY <1>0, <1>3, NoteType DEF TypeOK, ClientCancel, sharedVars, workerVars, engineVars
  <2> QED
    BY <1>3, <2>1, ContextStep DEF ClientCancel, sharedVars, workerVars, engineVars
<1>4. CASE Reject
  <2>1. TypeOK' /\ stopReasons \subseteq stopReasons' /\ now <= now'
    BY <1>0, <1>4 DEF TypeOK, Reject, contextVars, sharedVars, workerVars
  <2> QED
    BY <1>4, <2>1, ContextStep DEF Reject, contextVars, sharedVars, workerVars
<1>5. CASE Report
  <2>1. PICK R \in SUBSET StopReasons : Note(ObservedStop, R)
    BY <1>5 DEF Report, StopReasons, FailureCodes
  <2>2. TypeOK' /\ stopReasons \subseteq stopReasons' /\ now <= now'
    BY <1>0, <1>5, <2>1, NoteType DEF TypeOK, Report, sharedVars, workerVars
  <2> QED
    BY <1>5, <2>2, ContextStep DEF Report, sharedVars, workerVars
<1>6. CASE Finished \/ UNCHANGED vars
  <2>1. TypeOK' /\ stopReasons \subseteq stopReasons' /\ now <= now'
    BY <1>0, <1>6
    DEF TypeOK, Finished, vars, contextVars, sharedVars, workerVars, engineVars
  <2> QED
    BY <1>6, <2>1, ContextStep
    DEF Finished, vars, contextVars, sharedVars, workerVars, engineVars
<1>7. ASSUME NEW w \in Workers, Proceed(w)
      PROVE  IInv'
  <2>1. CASE PauseOver(w)
    <3>1. TypeOK' /\ stopReasons \subseteq stopReasons' /\ now <= now'
      BY <1>0, <2>1 DEF TypeOK, PauseOver, contextVars, sharedVars, engineVars
    <3> QED
      BY <2>1, <3>1, WorkerStep DEF PauseOver, contextVars, sharedVars, engineVars
  <2>2. CASE PauseAbandoned(w)
    <3>1. TypeOK' /\ stopReasons \subseteq stopReasons' /\ now <= now'
      BY <1>0, <2>2, NoteType
      DEF TypeOK, PauseAbandoned, Leave, sharedVars, engineVars
    <3> QED
      BY <2>2, <3>1, WorkerStep DEF PauseAbandoned, Leave, sharedVars, engineVars
  <2>3. CASE NothingLeft(w)
    <3>1. TypeOK' /\ stopReasons \subseteq stopReasons' /\ now <= now'
      BY <1>0, <2>3 DEF TypeOK, NothingLeft, Leave, contextVars, engineVars
    <3> QED
      BY <2>3, <3>1, WorkerStep DEF NothingLeft, Leave, contextVars, engineVars
  <2>4. CASE pc[w] = "ready" /\ BatchInHand(w) <= NumBatches /\ TakeBatch(w) /\ Leave(w)
             /\ TypeOK' /\ UNCHANGED <<attempt, until, usage, ledger>>
             /\ stopReasons \subseteq stopReasons' /\ now <= now'
    BY <2>4, WorkerStep DEF Leave
  <2>5. ASSUME pc[w] = "ready", BatchInHand(w) <= NumBatches, TakeBatch(w)
        PROVE  next' \in Nat /\ batch' \in [Workers -> Batches \cup {NoBatch}]
    BY <1>0, <2>5, BatchInHandIsOpen DEF TypeOK
  <2>6. CASE StandDown(w)
    <3>1. TypeOK' /\ stopReasons \subseteq stopReasons' /\ now <= now'
      BY <1>0, <2>5, <2>6, NoteType DEF TypeOK, StandDown, Leave, engineVars
    <3> QED
      BY <2>4, <2>6, <3>1 DEF StandDown, engineVars
  <2>7. CASE AdmissionThrows(w)
    <3>1. TypeOK' /\ stopReasons \subseteq stopReasons' /\ now <= now'
      BY <1>0, <2>5, <2>7
      DEF TypeOK, AdmissionThrows, Admitting, Leave, contextVars, engineVars
    <3> QED
      BY <2>4, <2>7, <3>1 DEF AdmissionThrows, Admitting, contextVars, engineVars
  <2>8. CASE CapReached(w)
    <3>1. {"SCAN_CAP_REACHED"} \in SUBSET StopReasons
      BY DEF StopReasons
    <3>2. TypeOK' /\ stopReasons \subseteq stopReasons' /\ now <= now'
      BY <1>0, <2>5, <2>8, <3>1, NoteType
      DEF TypeOK, CapReached, Admitting, Leave, engineVars
    <3> QED
      BY <2>4, <2>8, <3>2 DEF CapReached, Admitting, engineVars
  <2>9. CASE DeadlineInAdmission(w)
    <3>1. TypeOK' /\ stopReasons \subseteq stopReasons' /\ now <= now'
      BY <1>0, <2>5, <2>9, NoteType
      DEF TypeOK, DeadlineInAdmission, Admitting, Leave, engineVars
    <3> QED
      BY <2>4, <2>9, <3>1 DEF DeadlineInAdmission, Admitting, engineVars
  <2> QED
    BY <1>7, <2>1, <2>2, <2>3, <2>6, <2>7, <2>8, <2>9, DispatchStep DEF Proceed
<1>8. ASSUME NEW w \in Workers, Abandon(w) \/ LateAnswer(w)
      PROVE  IInv'
  <2>1. IsFailure(AbortFailure)
    BY AbortFailureType
  <2> QED
    BY <1>8, <2>1, AbortFailureType, FailureStep DEF Abandon, LateAnswer
<1>9. ASSUME NEW w \in Workers, ProviderFails(w)
      PROVE  IInv'
  <2>1. PICK e \in Failures, j \in Jittered(attempt[w]), ra \in RetryAfters :
          HandleFailure(w, e.failure, e.billed, FALSE, Longer(j, ra))
    BY <1>9 DEF ProviderFails
  <2>2. IsFailure(e.failure) /\ e.billed \in BOOLEAN /\ (e.billed => e.failure.ambiguous)
    BY BilledIsAmbiguous
  <2>3. Longer(j, ra) \in Nat
    BY DelayType
  <2> QED
    BY <1>9, <2>1, <2>2, <2>3, FailureStep DEF ProviderFails
<1>10. ASSUME NEW w \in Workers, AnswerWithUsage(w)
       PROVE  IInv'
  <2>1. PICK e \in Evaluations, t \in ReportedTokens :
          Answer(w, e, Settle(batch[w], t), "known",
                 IF Overrun(Settle(batch[w], t)) THEN {"ESTIMATE_OVERRUN"} ELSE {})
    BY <1>10 DEF AnswerWithUsage
  <2>2. (IF Overrun(Settle(batch[w], t)) THEN {"ESTIMATE_OVERRUN"} ELSE {})
          \in SUBSET StopReasons
    BY DEF StopReasons
  <2> QED
    BY <2>1, <2>2, AnswerStep
<1>11. ASSUME NEW w \in Workers, AnswerWithoutUsage(w)
       PROVE  IInv'
  <2>1. {"USAGE_UNKNOWN"} \in SUBSET StopReasons
    BY DEF StopReasons
  <2> QED
    BY <1>11, <2>1, AnswerStep DEF AnswerWithoutUsage
<1> QED
  BY <1>1, <1>2, <1>3, <1>4, <1>5, <1>6, <1>7, <1>8, <1>9, <1>10, <1>11
  DEF Next, Receive

\* IInv holds in every reachable state.
THEOREM Invariance == Spec => []IInv
<1>1. Init => IInv
  BY InitIInv
<1>2. IInv /\ [Next]_vars => IInv'
  BY NextIInv
<1> QED
  BY <1>1, <1>2, PTL DEF Spec

-----------------------------------------------------------------------------
(* What follows.                                                           *)

\* The usage account of the report is exact.
THEOREM AccountExact == Spec => []AccountMatchesLedger
<1>1. IInv => AccountMatchesLedger
  BY DEF IInv
<1> QED
  BY <1>1, Invariance, PTL

\* No enabled cap is passed, but by usage reported above its estimate.
THEOREM CapsRespected == Spec => []CapsHold
<1>1. IInv => CapsHold
  BY DEF IInv
<1> QED
  BY <1>1, Invariance, PTL

\* The variables keep their types.
THEOREM TypeCorrect == Spec => []TypeOK
<1>1. IInv => TypeOK
  BY DEF IInv
<1> QED
  BY <1>1, Invariance, PTL

\* An attempt the provider may have billed is not repeated.
THEOREM NoBillingTwice == Spec => []BilledIsNotRepeated
<1>1. IInv => BilledIsNotRepeated
  BY EvaluationAssumption
  DEF IInv, BilledIsClosed, BilledIsNotRepeated, Untouched, Final, Attempts
<1> QED
  BY <1>1, Invariance, PTL

\* Nothing is sent and no score is taken after a stop.
THEOREM StopsAreQuiet == Spec => QuietAfterStop
<1>1. IInv /\ [Next]_vars => [StopIsQuiet]_vars
  <2> SUFFICES ASSUME TypeOK, Next PROVE StopIsQuiet
    BY DEF IInv
  <2>1. CASE Tick \/ DeadlineTimer \/ ClientCancel \/ Reject \/ Report \/ Finished
    BY <2>1 DEF Tick, DeadlineTimer, ClientCancel, Reject, Report, Finished,
                StopIsQuiet, engineVars, vars
  <2>2. ASSUME NEW w \in Workers, Proceed(w)
        PROVE  StopIsQuiet
    <3>1. CASE Dispatch(w)
      BY <3>1 DEF Dispatch, Admitting, StopIsQuiet
    <3>2. CASE ~Dispatch(w)
      BY <2>2, <3>2
      DEF Proceed, PauseOver, PauseAbandoned, NothingLeft, StandDown,
          AdmissionThrows, CapReached, DeadlineInAdmission, StopIsQuiet, engineVars
    <3> QED
      BY <3>1, <3>2
  <2>3. ASSUME NEW w \in Workers, NEW f, NEW b, NEW c, NEW d, HandleFailure(w, f, b, c, d)
        PROVE  StopIsQuiet
    BY <2>3 DEF HandleFailure, Unresolved, StopIsQuiet, TypeOK, UsageType
  <2>4. ASSUME NEW w \in Workers, Abandon(w) \/ Receive(w)
        PROVE  StopIsQuiet
    <3>1. CASE Abandon(w) \/ ProviderFails(w) \/ LateAnswer(w)
      BY <2>3, <3>1 DEF Abandon, ProviderFails, LateAnswer
    <3>2. CASE AnswerWithUsage(w)
      BY <3>2 DEF AnswerWithUsage, Answer, Settle, StopIsQuiet, TypeOK, UsageType
    <3>3. CASE AnswerWithoutUsage(w)
      BY <3>3 DEF AnswerWithoutUsage, Answer, Unresolved, StopIsQuiet, TypeOK, UsageType
    <3> QED
      BY <2>4, <3>1, <3>2, <3>3 DEF Receive
  <2> QED
    BY <2>1, <2>2, <2>4 DEF Next
<1> QED
  BY <1>1, Invariance, PTL DEF Spec, QuietAfterStop

\* Pauses are kept, and never shortened.
THEOREM PausesKept == Spec => RateLimitHolds
<1>1. IInv /\ [Next]_vars => [PausesAreKept]_vars
  <2> SUFFICES ASSUME IInv, Next PROVE PausesAreKept
    OBVIOUS
  <2>0. TypeOK /\ Deadline \in Nat /\ now \in Nat /\ cooldownUntil \in Nat
    BY EvaluationAssumption DEF IInv, TypeOK
  <2>1. CASE Tick \/ DeadlineTimer \/ ClientCancel \/ Reject \/ Report \/ Finished
    BY <2>0, <2>1
    DEF Tick, DeadlineTimer, ClientCancel, Reject, Report, Finished, PausesAreKept,
        sharedVars, workerVars, vars
  <2>2. ASSUME NEW w \in Workers, NEW p, pc' = [pc EXCEPT ![w] = p],
               cooldownUntil' = cooldownUntil,
               p = "done" \/ (p = "ready" /\ cooldownUntil <= now)
                          \/ (p = "inflight" /\ pc[w] = "ready")
        PROVE  PausesAreKept
    BY <2>0, <2>2 DEF IInv, TypeOK, ReadyHasWaited, PausesAreKept
  <2>3. ASSUME NEW w \in Workers, Proceed(w)
        PROVE  PausesAreKept
    BY <2>2, <2>3
    DEF Proceed, PauseOver, PauseAbandoned, NothingLeft, StandDown, AdmissionThrows,
        CapReached, DeadlineInAdmission, Dispatch, Admitting, Leave, sharedVars
  <2>4. ASSUME NEW w \in Workers, NEW p \in {"pausing", "done"},
               pc' = [pc EXCEPT ![w] = p], cooldownUntil' >= cooldownUntil
        PROVE  PausesAreKept
    BY <2>0, <2>4 DEF TypeOK, PausesAreKept
  <2>5. ASSUME NEW w \in Workers, NEW f, NEW b, NEW c, NEW d \in Nat, HandleFailure(w, f, b, c, d)
        PROVE  PausesAreKept
    <3>1. cooldownUntil' >= cooldownUntil
      BY <2>0, <2>5 DEF HandleFailure, CooldownAfter, Longer
    <3>2. \E p \in {"pausing", "done"} : pc' = [pc EXCEPT ![w] = p]
      BY <2>5 DEF HandleFailure, NextBatch
    <3> QED
      BY <2>4, <3>1, <3>2
  <2>6. ASSUME NEW w \in Workers, Abandon(w) \/ Receive(w)
        PROVE  PausesAreKept
    <3>1. CASE Abandon(w) \/ LateAnswer(w)
      BY <2>5, <3>1 DEF Abandon, LateAnswer
    <3>2. CASE ProviderFails(w)
      BY <2>5, <3>2, DelayType DEF ProviderFails
    <3>3. CASE AnswerWithUsage(w) \/ AnswerWithoutUsage(w)
      <4>1. cooldownUntil' = cooldownUntil
        BY <3>3 DEF AnswerWithUsage, AnswerWithoutUsage, Answer, sharedVars
      <4>2. \E p \in {"pausing", "done"} : pc' = [pc EXCEPT ![w] = p]
        BY <3>3 DEF AnswerWithUsage, AnswerWithoutUsage, Answer, NextBatch
      <4>3. cooldownUntil' >= cooldownUntil
        BY <2>0, <4>1
      <4> QED
        BY <2>4, <4>2, <4>3
    <3> QED
      BY <2>6, <3>1, <3>2, <3>3 DEF Receive
  <2> QED
    BY <2>1, <2>3, <2>6 DEF Next
<1> QED
  BY <1>1, Invariance, PTL DEF Spec, RateLimitHolds

-----------------------------------------------------------------------------
(* What is lost is explained.                                              *)

\* The stop reasons that explain a batch without all its scores, and those that are
\* given for nothing else.
Explanations == FailureCodes \cup {"SCAN_CAP_REACHED", "DEADLINE", "CANCELLED"}
Costly       == FailureCodes \ {"INVALID_PROVIDER_RESPONSE"}

Explained == stopReasons \cap Explanations # {}

\* No worker at work holds the batch.
LetGo(b) == \A w \in Workers : batch[w] = b => pc[w] = "done"

\* While nothing is explained and nobody threw, a batch without its scores is still to
\* be taken or in the hands of a worker, and workers leave for want of batches only.
NothingLost ==
  ~aborted /\ ~Explained =>
    /\ \A b \in Batches : scores[b] = "full" \/ b > next \/ ~LetGo(b)
    /\ \A w \in Workers : pc[w] = "done" => next >= NumBatches

\* Whoever ends the evaluation says why.
EndIsTold ==
  /\ terminal /\ ~aborted => Explained
  /\ stop # "none" => Explained

\* A batch has scores only once it was let go.
ScoredIsLetGo ==
  \A b \in Batches : (b > next \/ \E w \in Workers : batch[w] = b) => scores[b] = "none"

\* A provider failure is reported for a batch nobody will evaluate any more.
CodesCost ==
  stopReasons \cap Costly # {} =>
    \E b \in Unevaluated : (b <= next /\ LetGo(b)) \/ \A w \in Workers : pc[w] = "done"

\* What is in flight is in flight for a worker.
InFlightIsHeld == \A b \in Batches, a \in Attempts :
  ledger[<<b, a>>] = "inflight" =>
    \E w \in Workers : pc[w] = "inflight" /\ batch[w] = b /\ attempt[w] = a

\* What the account says besides its sums.
AccountTold ==
  /\ usage.known > 0 => \E k \in Keys : ledger[k] = "known"
  /\ usage.unknown > 0 => "USAGE_UNKNOWN" \in stopReasons
  /\ (\E b \in Batches : scores[b] # "none") => usage.attempts > 0
  /\ outcome = "reported" => \A w \in Workers : pc[w] = "done"

EInv == NothingLost /\ EndIsTold /\ ScoredIsLetGo /\ CodesCost /\ InFlightIsHeld /\ AccountTold

\* What reading the stop, with some more reasons, explains.
LEMMA NoteTold ==
  ASSUME TypeOK, NEW s, NEW R, Note(s, R), s \in {"none", "deadline", "client_cancelled"}
  PROVE  /\ stop' = s
         /\ Explained => Explained'
         /\ s # "none" => Explained'
         /\ R \cap Explanations # {} => Explained'
         /\ R \cap Costly = {} => stopReasons' \cap Costly = stopReasons \cap Costly
         /\ stopReasons \cup R \subseteq stopReasons'
<1>1. /\ stop' = s /\ stopReasons' = stopReasons \cup ReasonOf(s) \cup R
  BY DEF Note
<1>2. ReasonOf(s) \cap Costly = {} /\ (s # "none" => ReasonOf(s) \cap Explanations # {})
  BY DEF ReasonOf, Costly, Explanations, FailureCodes
<1> QED
  BY <1>1, <1>2 DEF Explained

\* The clock, the client, the timers and the end of the evaluation.
LEMMA ContextTold ==
  ASSUME IInv, EInv,
         UNCHANGED <<next, terminal, aborted, pc, batch, attempt, usage, scores, ledger>>,
         stopReasons \subseteq stopReasons',
         \/ stopReasons' \cap Costly = stopReasons \cap Costly
         \/ Unevaluated # {} /\ \A w \in Workers : pc[w] = "done",
         stop' # "none" => Explained',
         outcome' = "reported" => outcome = "reported" \/ \A w \in Workers : pc[w] = "done"
  PROVE  EInv'
<1>1. Explained => Explained'
  BY DEF Explained
<1>2. NothingLost' /\ EndIsTold'
  BY <1>1 DEF EInv, NothingLost, EndIsTold, LetGo
<1>3. ScoredIsLetGo' /\ InFlightIsHeld'
  BY DEF EInv, ScoredIsLetGo, InFlightIsHeld
<1>4. CodesCost'
  BY DEF EInv, CodesCost, LetGo, Unevaluated
<1>5. AccountTold'
  BY DEF EInv, AccountTold
<1> QED
  BY <1>2, <1>3, <1>4, <1>5 DEF EInv

\* A worker at work becomes ready or leaves, and if it leaves it says why, or nothing
\* was left to take.
LEMMA WorkerTold ==
  ASSUME IInv, EInv, NEW w \in Workers, NEW p \in {"ready", "done"},
         pc[w] \in {"pausing", "ready"},
         pc' = [pc EXCEPT ![w] = p],
         \/ batch' = batch /\ next' = next
         \/ batch' = batch /\ batch[w] = NoBatch /\ next >= NumBatches /\ next' = next + 1
         \/ pc[w] = "ready" /\ BatchInHand(w) <= NumBatches /\ TakeBatch(w) /\ p = "done",
         p = "ready" => batch' = batch /\ next' = next,
         \/ p = "ready" \/ aborted' \/ Explained'
         \/ batch[w] = NoBatch /\ batch' = batch /\ next' >= NumBatches,
         aborted => aborted', Explained => Explained',
         terminal' => terminal \/ aborted' \/ Explained',
         stop' # "none" => Explained',
         stopReasons \subseteq stopReasons', stopReasons' \cap Costly = stopReasons \cap Costly,
         UNCHANGED <<attempt, usage, scores, outcome, ledger>>
  PROVE  EInv'
<1>1. /\ NumBatches \in Nat /\ next \in Nat /\ batch[w] \in Batches \cup {NoBatch}
      /\ batch[w] <= next
  BY EvaluationAssumption DEF IInv, TypeOK, TakenInOrder
<1>2. /\ pc'[w] = p
      /\ \A v \in Workers \ {w} : pc'[v] = pc[v] /\ batch'[v] = batch[v]
      /\ next' \in {next, next + 1}
      /\ batch'[w] # batch[w] => batch[w] = NoBatch /\ batch'[w] = next + 1 /\ p = "done" /\ next' = next + 1
      /\ next' = next \/ batch'[w] # batch[w] \/ next >= NumBatches
  BY <1>1 DEF IInv, TypeOK, TakeBatch, BatchInHand
<1>3. NothingLost'
  <2> SUFFICES ASSUME ~aborted', ~Explained'
               PROVE  /\ \A b \in Batches : scores[b] = "full" \/ b > next' \/ ~LetGo(b)'
                      /\ \A v \in Workers : pc'[v] = "done" => next' >= NumBatches
    BY DEF NothingLost
  <2>1. /\ \A b \in Batches : scores[b] = "full" \/ b > next \/ ~LetGo(b)
        /\ \A v \in Workers : pc[v] = "done" => next >= NumBatches
    BY DEF EInv, NothingLost
  <2>2. batch' = batch /\ (p = "ready" \/ (batch[w] = NoBatch /\ next' >= NumBatches))
    OBVIOUS
  <2>3. \A v \in Workers : pc'[v] = "done" => next' >= NumBatches
    BY <1>1, <1>2, <2>1, <2>2
  <2>4. ASSUME NEW b \in Batches, scores[b] # "full", ~(b > next')
        PROVE  ~LetGo(b)'
    <3>1. ~(b > next)
      BY <1>1, <1>2, <2>2, <2>4 DEF Batches
    <3>2. PICK v \in Workers : batch[v] = b /\ pc[v] # "done"
      BY <2>1, <2>4, <3>1 DEF LetGo
    <3>3. b # NoBatch
      BY DEF Batches, NoBatch
    <3>4. batch'[v] = b /\ pc'[v] # "done"
      BY <1>2, <2>2, <3>2, <3>3
    <3> QED
      BY <3>4 DEF LetGo
  <2> QED
    BY <2>3, <2>4
<1>4. EndIsTold'
  BY DEF EInv, EndIsTold
<1>5. ScoredIsLetGo'
  BY <1>1, <1>2 DEF EInv, ScoredIsLetGo, Batches
<1>6. CodesCost'
  <2> SUFFICES ASSUME stopReasons \cap Costly # {}
               PROVE  \E b \in Unevaluated : b <= next' /\ LetGo(b)'
    BY DEF CodesCost, Unevaluated
  <2>1. PICK b \in Unevaluated : b <= next /\ LetGo(b)
    BY DEF EInv, CodesCost
  <2>2. b \in Batches /\ b \in Nat /\ b # NoBatch
    BY DEF Unevaluated, Batches, NoBatch
  <2>3. batch[w] # b
    BY <2>1 DEF LetGo
  <2>4. batch'[w] # b
    BY <1>1, <1>2, <2>1, <2>2, <2>3
  <2>5. LetGo(b)'
    BY <1>2, <2>1, <2>4 DEF LetGo
  <2> QED
    BY <1>1, <1>2, <2>1, <2>2, <2>5
<1>7. InFlightIsHeld'
  <2> SUFFICES ASSUME NEW b \in Batches, NEW a \in Attempts, ledger[<<b, a>>] = "inflight"
               PROVE  \E v \in Workers : pc'[v] = "inflight" /\ batch'[v] = b /\ attempt[v] = a
    BY DEF InFlightIsHeld
  <2>1. PICK v \in Workers : pc[v] = "inflight" /\ batch[v] = b /\ attempt[v] = a
    BY DEF EInv, InFlightIsHeld
  <2> QED
    BY <1>2, <2>1
<1>8. AccountTold'
  BY DEF EInv, AccountTold
<1> QED
  BY <1>3, <1>4, <1>5, <1>6, <1>7, <1>8 DEF EInv

\* The attempt of an admitted batch is sent.
LEMMA DispatchTold ==
  ASSUME IInv, EInv, NEW w \in Workers, Dispatch(w)
  PROVE  EInv'
<1>0. PICK b, n : b = BatchInHand(w) /\ n = attempt[w]
  OBVIOUS
<1>1. /\ pc[w] = "ready" /\ b <= NumBatches /\ TakeBatch(w)
      /\ pc' = [pc EXCEPT ![w] = "inflight"]
      /\ ledger' = [ledger EXCEPT ![<<b, n>>] = "inflight"]
      /\ usage' = Reserve(b)
      /\ UNCHANGED <<stop, stopReasons, terminal, aborted, attempt, scores, outcome>>
  BY <1>0 DEF Dispatch, Admitting, contextVars
<1>2. /\ NumBatches \in Nat /\ next \in Nat /\ batch[w] \in Batches \cup {NoBatch}
      /\ batch[w] <= next /\ b \in Batches /\ n \in Attempts /\ <<b, n>> \in Keys
      /\ ledger[<<b, n>>] = "none"
  <2>1. b \in Batches /\ n \in Attempts /\ Untouched(b, n)
    BY <1>0, <1>1, BatchInHandIsOpen DEF IInv, TypeOK
  <2>2. n >= n /\ ledger[<<b, n>>] = "none"
    BY <2>1 DEF Untouched, Attempts
  <2> QED
    BY <2>1, <2>2, EvaluationAssumption DEF IInv, TypeOK, TakenInOrder, Keys
<1>3. /\ pc'[w] = "inflight" /\ batch'[w] = b
      /\ \A v \in Workers \ {w} : pc'[v] = pc[v] /\ batch'[v] = batch[v]
      /\ next' \in {next, next + 1}
      /\ next' # next => batch[w] = NoBatch /\ b = next' /\ next' = next + 1
      /\ batch[w] # NoBatch => b = batch[w]
      /\ batch[w] = NoBatch => b = next + 1
  BY <1>0, <1>1 DEF IInv, TypeOK, TakeBatch, BatchInHand
<1>4. NothingLost'
  <2> SUFFICES ASSUME ~aborted, ~Explained
               PROVE  /\ \A c \in Batches : scores[c] = "full" \/ c > next' \/ ~LetGo(c)'
                      /\ \A v \in Workers : pc'[v] = "done" => next' >= NumBatches
    BY <1>1 DEF NothingLost, Explained
  <2>1. /\ \A c \in Batches : scores[c] = "full" \/ c > next \/ ~LetGo(c)
        /\ \A v \in Workers : pc[v] = "done" => next >= NumBatches
    BY DEF EInv, NothingLost
  <2>2. \A v \in Workers : pc'[v] = "done" => next' >= NumBatches
    BY <1>2, <1>3, <2>1
  <2>3. ASSUME NEW c \in Batches, scores[c] # "full", ~(c > next')
        PROVE  ~LetGo(c)'
    <3>1. CASE c = b
      BY <1>3, <3>1 DEF LetGo
    <3>2. CASE c # b
      <4>1. ~(c > next)
        BY <1>2, <1>3, <2>3, <3>2 DEF Batches
      <4>2. PICK v \in Workers : batch[v] = c /\ pc[v] # "done"
        BY <2>1, <2>3, <4>1 DEF LetGo
      <4>3. v # w
        BY <1>3, <3>2, <4>2 DEF Batches, NoBatch
      <4> QED
        BY <1>3, <4>2, <4>3 DEF LetGo
    <3> QED
      BY <3>1, <3>2
  <2> QED
    BY <2>2, <2>3
<1>5. EndIsTold'
  BY <1>1 DEF EInv, EndIsTold, Explained
<1>6. ScoredIsLetGo'
  <2>1. scores[b] = "none"
    BY <1>2, <1>3 DEF EInv, ScoredIsLetGo, Batches
  <2> QED
    BY <1>1, <1>2, <1>3, <2>1 DEF EInv, ScoredIsLetGo, Batches
<1>7. CodesCost'
  <2> SUFFICES ASSUME stopReasons \cap Costly # {}
               PROVE  \E c \in Unevaluated : c <= next' /\ LetGo(c)'
    BY <1>1 DEF CodesCost, Unevaluated
  <2>1. PICK c \in Unevaluated : c <= next /\ LetGo(c)
    BY <1>1 DEF EInv, CodesCost
  <2>2. c \in Batches /\ c \in Nat
    BY DEF Unevaluated, Batches
  <2>3. b # c
    BY <1>1, <1>2, <1>3, <2>1, <2>2 DEF LetGo
  <2>4. LetGo(c)'
    BY <1>3, <2>1, <2>3 DEF LetGo
  <2> QED
    BY <1>2, <1>3, <2>1, <2>2, <2>4
<1>8. InFlightIsHeld'
  <2> SUFFICES ASSUME NEW c \in Batches, NEW a \in Attempts, ledger'[<<c, a>>] = "inflight"
               PROVE  \E v \in Workers : pc'[v] = "inflight" /\ batch'[v] = c /\ attempt'[v] = a
    BY DEF InFlightIsHeld
  <2>1. CASE c = b /\ a = n
    BY <1>0, <1>1, <1>3, <2>1
  <2>2. CASE ~(c = b /\ a = n)
    <3>1. ledger[<<c, a>>] = "inflight"
      BY <1>1, <2>2 DEF IInv, TypeOK
    <3>2. PICK v \in Workers : pc[v] = "inflight" /\ batch[v] = c /\ attempt[v] = a
      BY <3>1 DEF EInv, InFlightIsHeld
    <3> QED
      BY <1>1, <1>3, <3>2
  <2> QED
    BY <2>1, <2>2
<1>9. AccountTold'
  <2>1. /\ usage'.known = usage.known /\ usage'.unknown = usage.unknown
        /\ usage'.attempts = usage.attempts + 1 /\ usage.attempts \in Nat
    BY <1>1 DEF Reserve, IInv, TypeOK, UsageType
  <2>2. (\E k \in Keys : ledger[k] = "known") => \E k \in Keys : ledger'[k] = "known"
    BY <1>1, <1>2 DEF IInv, TypeOK, Keys
  <2> QED
    BY <1>1, <2>1, <2>2 DEF EInv, AccountTold
<1> QED
  BY <1>4, <1>5, <1>6, <1>7, <1>8, <1>9 DEF EInv

\* The other workers stay as they are.
OthersStay(w) ==
  \A v \in Workers \ {w} : pc'[v] = pc[v] /\ batch'[v] = batch[v] /\ attempt'[v] = attempt[v]

\* What the end of the attempt <<b, n>> that the worker w has in flight leaves of the
\* other workers, and of what is in flight: every other attempt.
LEMMA AttemptEnds ==
  ASSUME IInv, EInv, NEW w \in Workers, pc[w] = "inflight",
         NEW r \in Resolutions \ {"none", "inflight"},
         NEW b, NEW n, b = batch[w] /\ n = attempt[w],
         ledger' = [ledger EXCEPT ![<<b, n>>] = r], OthersStay(w)
  PROVE  /\ b \in Batches /\ b # NoBatch /\ b \in Nat /\ b <= next /\ next \in Nat
         /\ scores[b] = "none"
         /\ \A v \in Workers \ {w} : batch[v] # b
         /\ usage.attempts > 0
         /\ \A k \in Keys : ledger[k] = "known" => ledger'[k] = "known"
         /\ r = "known" => \E k \in Keys : ledger'[k] = "known"
         /\ InFlightIsHeld'
<1>1. /\ b \in Batches /\ b # NoBatch /\ b \in Nat /\ b <= next /\ next \in Nat
      /\ n \in Attempts /\ <<b, n>> \in Keys /\ ledger[<<b, n>>] = "inflight"
  BY DEF IInv, TypeOK, TakenInOrder, AttemptIsNew, Batches, NoBatch, Keys
<1>2. scores[b] = "none" /\ \A v \in Workers \ {w} : batch[v] # b
  BY <1>1 DEF IInv, OneOwner, EInv, ScoredIsLetGo
<1>3. usage.attempts > 0
  <2>1. <<b, n>> \in SentAttempts /\ SentAttempts \in SUBSET Keys
    BY <1>1 DEF SentAttempts, AttemptsIn, Resolutions, Keys
  <2>2. IsFiniteSet(SentAttempts) /\ Cardinality(SentAttempts) \in Nat
    BY <2>1, KeysFinite
  <2>3. Cardinality(SentAttempts) # 0
    BY <2>1, <2>2, FS_EmptySet
  <2> QED
    BY <2>2, <2>3 DEF IInv, AccountMatchesLedger
<1>4. /\ \A k \in Keys : ledger[k] = "known" => ledger'[k] = "known"
      /\ r = "known" => \E k \in Keys : ledger'[k] = "known"
  BY <1>1 DEF IInv, TypeOK, Keys
<1>5. InFlightIsHeld'
  <2> SUFFICES ASSUME NEW c \in Batches, NEW a \in Attempts, ledger'[<<c, a>>] = "inflight"
               PROVE  \E v \in Workers : pc'[v] = "inflight" /\ batch'[v] = c /\ attempt'[v] = a
    BY DEF InFlightIsHeld
  <2>1. ledger[<<c, a>>] = "inflight" /\ ~(c = b /\ a = n)
    BY <1>1 DEF IInv, TypeOK, Keys
  <2>2. PICK v \in Workers : pc[v] = "inflight" /\ batch[v] = c /\ attempt[v] = a
    BY <2>1 DEF EInv, InFlightIsHeld
  <2>3. v # w
    BY <2>1, <2>2
  <2> QED
    BY <2>2, <2>3 DEF OthersStay
<1> QED
  BY <1>1, <1>2, <1>3, <1>4, <1>5

\* What the worker's return to the head of its loop leaves of what is not explained: the
\* batch it lets go has all its scores, or what it lost is explained.
LEMMA LetGoTold ==
  ASSUME IInv, EInv, NEW w \in Workers, pc[w] = "inflight", NEW b, b = batch[w],
         b \in Batches, NextBatch(w), next' = next, aborted' = aborted,
         scores'[b] = "full" \/ Explained',
         \A c \in Batches : c # b => scores'[c] = scores[c],
         Explained => Explained'
  PROVE  NothingLost'
<1>1. /\ pc'[w] = "done" => next >= NumBatches
      /\ \A v \in Workers \ {w} : pc'[v] = pc[v] /\ batch'[v] = batch[v]
  BY EvaluationAssumption DEF NextBatch, IInv, TypeOK
<1> SUFFICES ASSUME ~aborted, ~Explained'
             PROVE  /\ \A c \in Batches : scores'[c] = "full" \/ c > next \/ ~LetGo(c)'
                    /\ \A v \in Workers : pc'[v] = "done" => next >= NumBatches
  BY DEF NothingLost
<1>2. /\ \A c \in Batches : scores[c] = "full" \/ c > next \/ ~LetGo(c)
      /\ \A v \in Workers : pc[v] = "done" => next >= NumBatches
  BY DEF EInv, NothingLost
<1>3. ASSUME NEW c \in Batches, scores'[c] # "full", ~(c > next)
      PROVE  ~LetGo(c)'
  <2>1. c # b /\ scores[c] # "full"
    BY <1>3
  <2>2. PICK v \in Workers : batch[v] = c /\ pc[v] # "done"
    BY <1>2, <1>3, <2>1 DEF LetGo
  <2>3. v # w
    BY <2>1, <2>2
  <2> QED
    BY <1>1, <2>2, <2>3 DEF LetGo
<1> QED
  BY <1>1, <1>2, <1>3

\* A failed attempt: its batch goes on, or its loss is explained.
LEMMA FailureTold ==
  ASSUME IInv, EInv, NEW w \in Workers, pc[w] = "inflight",
         NEW f, IsFailure(f), NEW billed \in BOOLEAN, NEW cancelled \in BOOLEAN, NEW delay,
         HandleFailure(w, f, billed, cancelled, delay)
  PROVE  EInv'
<1>0. PICK b, n : b = batch[w] /\ n = attempt[w]
  OBVIOUS
<1> DEFINE r == IF billed THEN "ambiguous" ELSE "refused"
           F == FailureReasons(w, f, cancelled)
<1>1. /\ usage' = Unresolved
      /\ ledger' = [ledger EXCEPT ![<<b, n>>] = r]
      /\ terminal' = (terminal \/ Fatal(f))
      /\ UNCHANGED <<next, aborted, scores, outcome>>
  BY <1>0 DEF HandleFailure
<1>2. r \in Resolutions \ {"none", "inflight"}
  BY DEF Resolutions
<1>3. PICK s \in {"none", "deadline", "client_cancelled"} :
        /\ Note(s, F)
        /\ cancelled => s = ObservedStop
  BY DEF HandleFailure, IInv, TypeOK, ObservedStop
<1>4. /\ stop' = s
      /\ Explained => Explained'
      /\ s # "none" => Explained'
      /\ F \cap Explanations # {} => Explained'
      /\ F \cap Costly = {} => stopReasons' \cap Costly = stopReasons \cap Costly
      /\ stopReasons \cup F \subseteq stopReasons'
  BY <1>3, NoteTold DEF IInv
<1>5. /\ WillRetry(w, f, cancelled) => F = {"USAGE_UNKNOWN"} /\ ~Fatal(f)
      /\ ~WillRetry(w, f, cancelled) => f.code \in F \/ (cancelled /\ ObservedStop # "none")
      /\ "USAGE_UNKNOWN" \in F
  BY DEF FailureReasons, WillRetry
<1>6. f.code \in Explanations /\ "USAGE_UNKNOWN" \notin Costly
  BY DEF IsFailure, Explanations, Costly, FailureCodes
<1>7. ~WillRetry(w, f, cancelled) => Explained'
  BY <1>3, <1>4, <1>5, <1>6
<1> HIDE DEF r, F
<1>8. \/ /\ WillRetry(w, f, cancelled)
         /\ pc' = [pc EXCEPT ![w] = "pausing"] /\ batch' = batch
         /\ attempt' = [attempt EXCEPT ![w] = n + 1]
      \/ NextBatch(w) /\ ~WillRetry(w, f, cancelled)
  BY <1>0 DEF HandleFailure
<1>9. \A v \in Workers \ {w} :
        pc'[v] = pc[v] /\ batch'[v] = batch[v] /\ attempt'[v] = attempt[v]
  BY <1>8 DEF IInv, TypeOK, NextBatch
<1>10. /\ b \in Batches /\ b # NoBatch /\ b \in Nat /\ b <= next /\ next \in Nat
       /\ scores[b] = "none"
       /\ \A v \in Workers \ {w} : batch[v] # b
       /\ usage.attempts > 0
       /\ \A k \in Keys : ledger[k] = "known" => ledger'[k] = "known"
       /\ InFlightIsHeld'
  <2>1. OthersStay(w)
    BY <1>9 DEF OthersStay
  <2> QED
    BY <1>0, <1>1, <1>2, <2>1, AttemptEnds
<1>11. NothingLost'
  <2>1. CASE NextBatch(w) /\ ~WillRetry(w, f, cancelled)
    BY <1>0, <1>1, <1>4, <1>7, <1>10, <2>1, LetGoTold
  <2>2. CASE WillRetry(w, f, cancelled) /\ pc' = [pc EXCEPT ![w] = "pausing"] /\ batch' = batch
    <3>1. pc'[w] = "pausing" /\ \A v \in Workers : pc'[v] = "done" <=> pc[v] = "done"
      BY <2>2 DEF IInv, TypeOK
    <3> QED
      BY <1>1, <1>4, <2>2, <3>1 DEF EInv, NothingLost, LetGo
  <2> QED
    BY <1>8, <2>1, <2>2
<1>12. EndIsTold'
  BY <1>1, <1>4, <1>5, <1>7 DEF EInv, EndIsTold
<1>13. ScoredIsLetGo'
  <2>1. batch'[w] \in {NoBatch, b}
    BY <1>0, <1>8 DEF IInv, TypeOK, NextBatch
  <2> QED
    BY <1>1, <1>9, <1>10, <2>1 DEF EInv, ScoredIsLetGo, Batches, NoBatch
<1>14. CodesCost'
  <2> SUFFICES ASSUME stopReasons' \cap Costly # {}
               PROVE  \E c \in Unevaluated : c <= next /\ LetGo(c)'
    BY <1>1 DEF CodesCost, Unevaluated
  <2>1. CASE F \cap Costly # {}
    <3>1. NextBatch(w)
      BY <1>5, <1>6, <1>8, <2>1
    <3>2. batch'[w] = NoBatch
      BY <3>1 DEF NextBatch, IInv, TypeOK
    <3>3. LetGo(b)'
      BY <1>9, <1>10, <3>2 DEF LetGo
    <3> QED
      BY <1>10, <3>3 DEF Unevaluated
  <2>2. CASE F \cap Costly = {}
    <3>1. PICK c \in Unevaluated : c <= next /\ LetGo(c)
      BY <1>4, <2>2 DEF EInv, CodesCost
    <3>2. c # b /\ c \in Batches
      BY <1>0, <3>1 DEF LetGo, Unevaluated
    <3>3. batch'[w] # c
      BY <1>0, <1>8, <3>2 DEF IInv, TypeOK, NextBatch, Batches, NoBatch
    <3>4. LetGo(c)'
      BY <1>9, <3>1, <3>3 DEF LetGo
    <3> QED
      BY <3>1, <3>4
  <2> QED
    BY <2>1, <2>2
<1>15. AccountTold'
  <2>1. usage'.known = usage.known /\ usage'.attempts = usage.attempts
    BY <1>1 DEF Unresolved, IInv, TypeOK, UsageType
  <2>2. "USAGE_UNKNOWN" \in stopReasons'
    BY <1>4, <1>5
  <2>3. outcome # "reported"
    BY DEF EInv, AccountTold
  <2> QED
    BY <1>1, <1>10, <2>1, <2>2, <2>3 DEF EInv, AccountTold
<1> QED
  BY <1>10, <1>11, <1>12, <1>13, <1>14, <1>15 DEF EInv

\* An answer with every score is clean of nothing it lacks.
LEMMA PartialIsNotClean ==
  ASSUME NEW e \in Evaluations
  PROVE  e.clean => e.whole
<1>1. PICK d \in Bodies : e = [whole |-> Scores(d) = QuestionKeys, clean |-> Invalid(d) = {},
                               counted |-> d.usage = "count"]
  BY DEF Evaluations
<1>2. Scores(d) \subseteq QuestionKeys
  BY DEF Scores, GatewayScores, DecisionScores
<1> QED
  BY <1>1, <1>2 DEF Invalid

\* An answer in time: its batch is scored, or its loss is explained.
LEMMA AnswerTold ==
  ASSUME IInv, EInv, NEW w \in Workers, NEW e \in Evaluations, NEW u,
         NEW r \in {"known", "unreported"}, NEW R, R \cap Costly = {},
         Answer(w, e, u, r, R),
         u.attempts = usage.attempts,
         u.unknown = usage.unknown \/ "USAGE_UNKNOWN" \in R,
         r = "known" \/ u.known = usage.known
  PROVE  EInv'
<1>0. PICK b, n : b = batch[w] /\ n = attempt[w]
  OBVIOUS
<1> DEFINE Q == R \cup IF e.clean THEN {} ELSE {"INVALID_PROVIDER_RESPONSE"}
<1>1. /\ pc[w] = "inflight"
      /\ usage' = u
      /\ ledger' = [ledger EXCEPT ![<<b, n>>] = r]
      /\ scores' = [scores EXCEPT ![b] = IF e.whole THEN "full" ELSE "partial"]
      /\ NextBatch(w)
      /\ Note(stop, Q)
      /\ UNCHANGED <<next, terminal, aborted, outcome>>
  BY <1>0 DEF Answer, sharedVars
<1>2. r \in Resolutions \ {"none", "inflight"}
  BY DEF Resolutions
<1>3. Q \cap Costly = {} /\ (~e.clean => Q \cap Explanations # {}) /\ R \subseteq Q
  BY DEF Costly, Explanations, FailureCodes
<1> HIDE DEF Q
<1>4. /\ stop' = stop
      /\ Explained => Explained'
      /\ Q \cap Explanations # {} => Explained'
      /\ stopReasons' \cap Costly = stopReasons \cap Costly
      /\ stopReasons \cup Q \subseteq stopReasons'
  BY <1>1, <1>3, NoteTold DEF IInv, TypeOK
<1>5. /\ batch'[w] = NoBatch
      /\ \A v \in Workers \ {w} :
           pc'[v] = pc[v] /\ batch'[v] = batch[v] /\ attempt'[v] = attempt[v]
  BY <1>1 DEF IInv, TypeOK, NextBatch
<1>6. /\ b \in Batches /\ b # NoBatch /\ b \in Nat /\ b <= next /\ next \in Nat
      /\ \A v \in Workers \ {w} : batch[v] # b
      /\ usage.attempts > 0
      /\ \A k \in Keys : ledger[k] = "known" => ledger'[k] = "known"
      /\ r = "known" => \E k \in Keys : ledger'[k] = "known"
      /\ InFlightIsHeld'
  <2>1. OthersStay(w)
    BY <1>5 DEF OthersStay
  <2> QED
    BY <1>0, <1>1, <1>2, <2>1, AttemptEnds
<1>7. /\ scores'[b] = "full" \/ Explained'
      /\ \A c \in Batches : c # b => scores'[c] = scores[c]
  <2>1. scores \in [Batches -> {"none", "partial", "full"}]
    BY DEF IInv, TypeOK
  <2> QED
    BY <1>1, <1>3, <1>4, <1>6, <2>1, PartialIsNotClean
<1>8. NothingLost'
  BY <1>0, <1>1, <1>4, <1>6, <1>7, LetGoTold
<1>9. EndIsTold'
  BY <1>1, <1>4 DEF EInv, EndIsTold
<1>10. ScoredIsLetGo'
  BY <1>1, <1>5, <1>6, <1>7 DEF EInv, ScoredIsLetGo, Batches, NoBatch
<1>11. CodesCost'
  <2> SUFFICES ASSUME stopReasons' \cap Costly # {}
               PROVE  \E c \in Unevaluated' : c <= next /\ LetGo(c)'
    BY <1>1 DEF CodesCost
  <2>1. PICK c \in Unevaluated : c <= next /\ LetGo(c)
    BY <1>1, <1>4 DEF EInv, CodesCost
  <2>2. c # b /\ c \in Batches /\ c # NoBatch
    BY <1>0, <1>1, <2>1 DEF LetGo, Unevaluated, Batches, NoBatch
  <2>3. LetGo(c)' /\ c \in Unevaluated'
    BY <1>5, <1>7, <2>1, <2>2 DEF LetGo, Unevaluated
  <2> QED
    BY <2>1, <2>3
<1>12. AccountTold'
  <2>1. outcome # "reported"
    BY <1>1 DEF EInv, AccountTold
  <2>2. usage'.unknown > 0 => "USAGE_UNKNOWN" \in stopReasons'
    BY <1>1, <1>3, <1>4 DEF EInv, AccountTold
  <2>3. usage'.known > 0 => \E k \in Keys : ledger'[k] = "known"
    BY <1>1, <1>6 DEF EInv, AccountTold
  <2> QED
    BY <1>1, <1>6, <2>1, <2>2, <2>3 DEF AccountTold
<1> QED
  BY <1>6, <1>8, <1>9, <1>10, <1>11, <1>12 DEF EInv

\* Nothing is lost before anything is done.
LEMMA InitTold == Init => EInv
<1> SUFFICES ASSUME Init PROVE EInv
  OBVIOUS
<1>1. next = 0 /\ \A b \in Batches : b > next /\ b # NoBatch
  BY EvaluationAssumption DEF Init, Batches, NoBatch
<1>2. NothingLost /\ EndIsTold /\ ScoredIsLetGo
  BY <1>1 DEF Init, NothingLost, EndIsTold, ScoredIsLetGo
<1>3. stopReasons \cap Costly = {}
  BY DEF Init, Costly, FailureCodes
<1>4. CodesCost /\ InFlightIsHeld
  BY <1>3 DEF Init, CodesCost, InFlightIsHeld
<1>5. AccountTold
  BY DEF Init, AccountTold
<1> QED
  BY <1>2, <1>4, <1>5 DEF EInv

\* Every step of a worker of its own accord keeps what is lost explained.
LEMMA ProceedTold ==
  ASSUME IInv, EInv, NEW w \in Workers, Proceed(w)
  PROVE  EInv'
<1>0. /\ TypeOK /\ ObservedStop \in {"none", "deadline", "client_cancelled"}
      /\ NumBatches \in Nat /\ next \in Nat
      /\ batch[w] \in Nat /\ (batch[w] # NoBatch => batch[w] <= NumBatches)
  BY EvaluationAssumption DEF IInv, TypeOK, ObservedStop, Batches, NoBatch
<1>1. CASE PauseOver(w)
  <2>1. (Explained => Explained') /\ (stop' # "none" => Explained')
    BY <1>1 DEF PauseOver, contextVars, EInv, EndIsTold, Explained
  <2> QED
    BY <1>1, <2>1, WorkerTold DEF PauseOver, contextVars, sharedVars, engineVars
<1>2. ASSUME NEW s \in {"none", "deadline", "client_cancelled"}, Note(s, {})
      PROVE  /\ Explained => Explained'
             /\ stop' # "none" => Explained'
             /\ s # "none" => Explained'
             /\ stopReasons \subseteq stopReasons'
             /\ stopReasons' \cap Costly = stopReasons \cap Costly
  BY <1>0, <1>2, NoteTold
<1>3. CASE PauseAbandoned(w)
  <2>1. PICK s \in {"none", "deadline", "client_cancelled"} :
          Note(s, {}) /\ (terminal \/ s # "none")
    BY <1>0, <1>3 DEF PauseAbandoned, CanStartWork, TypeOK
  <2>2. aborted \/ Explained'
    BY <1>2, <2>1 DEF EInv, EndIsTold
  <2> QED
    BY <1>2, <1>3, <2>1, <2>2, WorkerTold DEF PauseAbandoned, Leave, sharedVars, engineVars
<1>4. CASE NothingLeft(w)
  <2>1. (Explained => Explained') /\ (stop' # "none" => Explained')
    BY <1>4 DEF NothingLeft, contextVars, EInv, EndIsTold, Explained
  <2>2. batch[w] = NoBatch /\ next >= NumBatches
    BY <1>0, <1>4 DEF NothingLeft, BatchInHand
  <2>3. next' = next + 1 /\ next' >= NumBatches
    BY <1>0, <1>4, <2>2 DEF NothingLeft
  <2> QED
    BY <1>4, <2>1, <2>2, <2>3, WorkerTold DEF NothingLeft, Leave, contextVars, engineVars
<1>5. CASE StandDown(w)
  <2>1. PICK s \in {"none", "deadline", "client_cancelled"} :
          Note(s, {}) /\ (terminal \/ aborted \/ s # "none")
    BY <1>0, <1>5 DEF StandDown, CanStartWork, TypeOK
  <2>2. aborted \/ Explained'
    BY <1>2, <2>1 DEF EInv, EndIsTold
  <2> QED
    BY <1>2, <1>5, <2>1, <2>2, WorkerTold DEF StandDown, Leave, engineVars
<1>6. CASE AdmissionThrows(w)
  <2>1. (Explained => Explained') /\ (stop' # "none" => Explained')
    BY <1>6 DEF AdmissionThrows, contextVars, EInv, EndIsTold, Explained
  <2> QED
    BY <1>6, <2>1, WorkerTold DEF AdmissionThrows, Admitting, Leave, contextVars, engineVars
<1>7. CASE CapReached(w)
  <2>1. {"SCAN_CAP_REACHED"} \cap Explanations # {} /\ {"SCAN_CAP_REACHED"} \cap Costly = {}
    BY DEF Explanations, Costly, FailureCodes
  <2>2. /\ Explained'
        /\ stopReasons \subseteq stopReasons' /\ stopReasons' \cap Costly = stopReasons \cap Costly
    BY <1>0, <1>7, <2>1, NoteTold DEF CapReached, TypeOK
  <2> QED
    BY <1>7, <2>2, WorkerTold DEF CapReached, Admitting, Leave, engineVars
<1>8. CASE DeadlineInAdmission(w)
  <2>1. /\ Explained'
        /\ stopReasons \subseteq stopReasons' /\ stopReasons' \cap Costly = stopReasons \cap Costly
    BY <1>2, <1>8 DEF DeadlineInAdmission
  <2> QED
    BY <1>8, <2>1, WorkerTold DEF DeadlineInAdmission, Admitting, Leave, engineVars
<1> QED
  BY <1>1, <1>3, <1>4, <1>5, <1>6, <1>7, <1>8, DispatchTold DEF Proceed

\* So does every answer, and every failure to give one.
LEMMA ReceiveTold ==
  ASSUME IInv, EInv, NEW w \in Workers, Abandon(w) \/ Receive(w)
  PROVE  EInv'
<1>0. TypeOK
  BY DEF IInv
<1>1. CASE Abandon(w) \/ LateAnswer(w)
  BY <1>1, AbortFailureType, FailureTold DEF Abandon, LateAnswer
<1>2. CASE ProviderFails(w)
  <2>1. PICK e \in Failures, j \in Jittered(attempt[w]), ra \in RetryAfters :
          HandleFailure(w, e.failure, e.billed, FALSE, Longer(j, ra))
    BY <1>2 DEF ProviderFails
  <2>2. IsFailure(e.failure) /\ e.billed \in BOOLEAN
    BY BilledIsAmbiguous
  <2> QED
    BY <1>2, <2>1, <2>2, FailureTold DEF ProviderFails
<1>3. CASE AnswerWithUsage(w)
  <2>1. PICK e \in Evaluations, t \in ReportedTokens :
          Answer(w, e, Settle(batch[w], t), "known",
                 IF Overrun(Settle(batch[w], t)) THEN {"ESTIMATE_OVERRUN"} ELSE {})
    BY <1>3 DEF AnswerWithUsage
  <2>2. (IF Overrun(Settle(batch[w], t)) THEN {"ESTIMATE_OVERRUN"} ELSE {}) \cap Costly = {}
    BY DEF Costly, FailureCodes
  <2>3. /\ Settle(batch[w], t).attempts = usage.attempts
        /\ Settle(batch[w], t).unknown = usage.unknown
    BY <1>0 DEF Settle, TypeOK, UsageType
  <2> QED
    BY <2>1, <2>2, <2>3, AnswerTold
<1>4. CASE AnswerWithoutUsage(w)
  <2>1. {"USAGE_UNKNOWN"} \cap Costly = {}
    BY DEF Costly, FailureCodes
  <2>2. Unresolved.attempts = usage.attempts /\ Unresolved.known = usage.known
    BY <1>0 DEF Unresolved, TypeOK, UsageType
  <2> QED
    BY <1>4, <2>1, <2>2, AnswerTold DEF AnswerWithoutUsage
<1> QED
  BY <1>1, <1>2, <1>3, <1>4 DEF Receive

\* And the clock, the client, and the end of the evaluation.
LEMMA NextTold == IInv /\ EInv /\ [Next]_vars => EInv'
<1> SUFFICES ASSUME IInv, EInv, [Next]_vars PROVE EInv'
  OBVIOUS
<1>0. TypeOK /\ ObservedStop \in {"none", "deadline", "client_cancelled"}
  BY DEF IInv, TypeOK, ObservedStop
<1>1. (stop' = stop /\ stopReasons' = stopReasons) => (stop' # "none" => Explained')
  BY DEF EInv, EndIsTold, Explained
<1>2. CASE Tick \/ Reject \/ Finished \/ UNCHANGED vars
  BY <1>1, <1>2, ContextTold
  DEF Tick, Reject, Finished, vars, contextVars, sharedVars, workerVars, engineVars
<1>3. CASE DeadlineTimer \/ ClientCancel
  <2>1. PICK s \in {"deadline", "client_cancelled"} : Note(s, {})
    BY <1>3 DEF DeadlineTimer, ClientCancel
  <2>2. /\ Explained' /\ stopReasons \subseteq stopReasons'
        /\ stopReasons' \cap Costly = stopReasons \cap Costly
    BY <1>0, <2>1, NoteTold
  <2> QED
    BY <1>3, <2>2, ContextTold DEF DeadlineTimer, ClientCancel, sharedVars, workerVars, engineVars
<1>4. CASE Report
  <2>1. PICK R : /\ Note(ObservedStop, R)
                 /\ R = {} \/ Unevaluated # {}
    BY <1>4 DEF Report
  <2>2. /\ stop' # "none" => Explained'
        /\ stopReasons \subseteq stopReasons'
        /\ R = {} => stopReasons' \cap Costly = stopReasons \cap Costly
    BY <1>0, <2>1, NoteTold
  <2> QED
    BY <1>4, <2>1, <2>2, ContextTold DEF Report, sharedVars, workerVars
<1> QED
  BY <1>2, <1>3, <1>4, ProceedTold, ReceiveTold DEF Next

\* The cross-checks of the account follow from what it counts: every attempt without
\* known usage weighs at least one token, and when nothing is in flight no other is held.
LEMMA AccountAgrees ==
  ASSUME IInv, EInv, outcome = "reported"
  PROVE  UsageAgrees
<1>1. /\ usage.attempts = Cardinality(SentAttempts)
      /\ usage.bytes = Weight(SentAttempts, BatchBytes)
      /\ usage.unknown = Cardinality(UnresolvedAttempts)
      /\ usage.reserved = Weight(HeldAttempts, BatchTokens)
      /\ usage \in UsageType
  BY DEF IInv, TypeOK, AccountMatchesLedger
<1>2. /\ SentAttempts \in SUBSET Keys /\ UnresolvedAttempts \subseteq SentAttempts
      /\ HeldAttempts = UnresolvedAttempts
  <2>1. \A b \in Batches, a \in Attempts : ledger[<<b, a>>] # "inflight"
    BY DEF EInv, InFlightIsHeld, AccountTold
  <2>2. \A k \in Keys : ledger[k] # "inflight"
    BY <2>1 DEF Keys
  <2> QED
    BY <2>2 DEF SentAttempts, UnresolvedAttempts, HeldAttempts, AttemptsIn, Keys, Resolutions
<1>3. /\ IsFiniteSet(SentAttempts) /\ IsFiniteSet(UnresolvedAttempts)
      /\ UnresolvedAttempts \in SUBSET Keys
      /\ Cardinality(SentAttempts) \in Nat /\ Cardinality(UnresolvedAttempts) \in Nat
      /\ Cardinality(UnresolvedAttempts) <= Cardinality(SentAttempts)
  BY <1>2, KeysFinite, FS_Subset
<1>4. /\ SentAttempts = {} => usage.bytes = 0 /\ usage.reserved = 0
      /\ UnresolvedAttempts = {} => usage.reserved = 0
  <2>1. \A W : {x \in {} \X (1 .. MaxWeight) : x[2] <= W[x[1][1]]} = {}
    OBVIOUS
  <2>2. \A W : Weight({}, W) = 0
    BY <2>1, FS_EmptySet DEF Weight
  <2> QED
    BY <1>1, <1>2, <2>2
<1>5. usage.unknown <= usage.reserved
  BY <1>1, <1>2, <1>3, WeightOfAll, EvaluationAssumption
<1>6. /\ usage.unknown = 0 => UnresolvedAttempts = {}
      /\ usage.attempts = 0 => SentAttempts = {}
  BY <1>1, <1>3, FS_EmptySet
<1>7. usage.known > 0 => usage.unknown < usage.attempts
  <2> SUFFICES ASSUME usage.known > 0 PROVE usage.unknown < usage.attempts
    OBVIOUS
  <2>1. PICK k \in Keys : ledger[k] = "known"
    BY DEF EInv, AccountTold
  <2>2. k \in SentAttempts /\ k \notin UnresolvedAttempts
    BY <2>1 DEF SentAttempts, UnresolvedAttempts, AttemptsIn, Resolutions, Keys
  <2>3. Cardinality(UnresolvedAttempts) # Cardinality(SentAttempts)
    BY <1>2, <1>3, <2>2, FS_Subset
  <2> QED
    BY <1>1, <1>3, <2>3
<1>8. usage.attempts = 0 => usage.known = 0
  BY <1>1, <1>3, <1>7 DEF UsageType
<1> QED
  BY <1>1, <1>3, <1>4, <1>5, <1>6, <1>7, <1>8 DEF UsageAgrees, UsageType, EInv, AccountTold

\* Whatever the workers, the provider, the clock and the client do, a batch without all
\* its scores is explained, a provider failure is reported only when it cost a score, and
\* the usage of a report passes its cross-checks.
THEOREM LossesAreExplained == Spec => []LossIsExplained
<1>1. Init => IInv /\ EInv
  BY InitIInv, InitTold
<1>2. IInv /\ EInv /\ [Next]_vars => (IInv /\ EInv)'
  BY NextIInv, NextTold
<1>3. IInv /\ EInv => LossIsExplained
  <2> SUFFICES ASSUME IInv, EInv PROVE LossIsExplained
    OBVIOUS
  <2>1. ASSUME \A w \in Workers : pc[w] = "done", ~aborted, Unevaluated # {}
        PROVE  Explained
    <3>1. Explained \/ (next >= NumBatches /\ next \in Nat /\ NumBatches \in Nat)
      BY <2>1, EvaluationAssumption DEF EInv, NothingLost, IInv, TypeOK
    <3> QED
      BY <2>1, <3>1 DEF EInv, NothingLost, LetGo, Unevaluated, Batches
  <2>2. stopReasons \cap Costly # {} => Unevaluated # {}
    BY DEF EInv, CodesCost
  <2> QED
    BY <2>1, <2>2, AccountAgrees DEF LossIsExplained, Explained, Explanations, Costly
<1> QED
  BY <1>1, <1>2, <1>3, PTL DEF Spec

=============================================================================
