------------------------------ MODULE SearchProofs ------------------------------
(***************************************************************************)
(* Proofs about Search, for any files, fragments, contents, costs and      *)
(* budgets: evidence is never stale, tokens are exact, what is chosen fits *)
(* the excerpt budget, and the report always satisfies its contract.       *)
(*                                                                         *)
(* Selection and check alternate, at most Rounds times.  Each round that   *)
(* is followed by another found a file stale that was not known to be, so  *)
(* that there are at least as many stale files as rounds (StagesFit); when *)
(* the rounds are used up there would be more stale files than files read. *)
(***************************************************************************)
EXTENDS Search, SumTheorems

Gathering == {"inventory", "prepare", "measure", "evaluate"}
Reporting == {"report", "render", "done"}

Origins == {r.file : r \in chosen}

\* What the files, the snapshots and the verdicts can be.
Verdicts ==
  /\ verdict \in [Files -> {None, "fresh", "stale"}]
  /\ disk \in [Files -> Contents] /\ snap \in [Files -> Contents \cup {None}]
  /\ round \in Nat

Untouched == chosen = {} /\ kept = {} /\ round = 0 /\ Stale = {}

\* What is known at each stage of what is chosen and what is stale.
StagesFit ==
  /\ pc \in Gathering \cup {"idle"} => Untouched
  /\ pc \in {"select", "walk", "check"} => Stale \subseteq Read
  /\ pc = "select" => Cardinality(Stale) >= round
  /\ pc = "walk" =>
       /\ Cardinality(Stale) >= round
       /\ Origins \subseteq Read \ Stale
       /\ queue \subseteq {f \in Qualifying : f.file \notin Stale}
  /\ pc = "check" =>
       /\ Origins \subseteq Read
       /\ Cardinality(Stale \ Origins) >= round
  /\ pc \in Reporting => \A r \in chosen : verdict[r.file] = "fresh"
  /\ pc \in {"render", "done"} => kept \subseteq chosen

\* While a search runs its caller has the token it gave, and was given what it holds.
TokenKept ==
  /\ TokenIsExact
  /\ pc \notin {"idle", "done"} => offered = request.token /\ given = request.token

\* A plan that was kept for a candidate is for its file.
PlansFit == \A f \in Fragments : plans[f] = None \/ plans[f].range.file = f.file

Inv == Verdicts /\ StagesFit /\ TokenKept /\ PlansFit

-----------------------------------------------------------------------------
LEMMA StaleFinite ==
  ASSUME Verdicts
  PROVE  /\ IsFiniteSet(Read) /\ IsFiniteSet(Stale)
         /\ Cardinality(Read) \in Nat /\ Cardinality(Stale) \in Nat
  <1>1. Read \subseteq Files /\ Stale \subseteq Files  BY DEF Read, Stale
  <1>2. IsFiniteSet(Files)  BY SelectionAssumption
  <1> QED  BY <1>1, <1>2, FS_Subset, FS_CardinalityType

\* Fewer rounds are used than files were read.
LEMMA RoundsSuffice ==
  ASSUME Verdicts, Stale \subseteq Read, Cardinality(Stale \ Origins) >= round
  PROVE  round < Rounds
  <1>1. Stale \ Origins \subseteq Read  OBVIOUS
  <1>2. Cardinality(Stale \ Origins) <= Cardinality(Read)
    BY <1>1, StaleFinite, FS_Subset
  <1>3. Cardinality(Stale \ Origins) \in Nat
    BY <1>1, StaleFinite, FS_Subset, FS_CardinalityType
  <1> QED  BY <1>2, <1>3, StaleFinite DEF Rounds, Verdicts

\* What is admitted for a fragment is a range of its file.
LEMMA AdmittedFile ==
  ASSUME NEW S, NEW u, NEW f, NEW sc
  PROVE  /\ Admission(S, u, f, sc).range.file = f.file
         /\ Admission(S, u, f, sc).near \subseteq S
  BY DEF Admission, Offered, Union, Near, Own

-----------------------------------------------------------------------------
LEMMA InitHolds == Init => Inv
  <1> SUFFICES ASSUME Init PROVE Inv  OBVIOUS
  <1>1. Stale = {}  BY SearchAssumption DEF Init, Stale
  <1>2. disk \in [Files -> Contents]  BY SearchAssumption DEF Init
  <1>3. PlansFit  BY DEF Init, NoPlans, PlansFit
  <1> QED  BY <1>1, <1>2, <1>3 DEF Init, Inv, Verdicts, StagesFit, Untouched, TokenKept, TokenIsExact,
    Gathering, Reporting

\* A request begins with nothing chosen, and its token is what the caller was given.
LEMMA AskKeeps ==
  ASSUME Inv, NEW partial, NEW capped, NEW token, Ask(partial, capped, token)
  PROVE  Inv'
  <1>1. Verdicts'  BY DEF Inv, Ask, Goto, Verdicts
  <1>2. Stale' = {}  BY SearchAssumption DEF Ask, Stale
  <1>3. StagesFit'  BY <1>2 DEF Ask, Goto, StagesFit, Untouched, Gathering, Reporting
  <1>4. TokenKept'  BY DEF Inv, Ask, Goto, TokenKept, TokenIsExact
  <1>5. PlansFit'  BY DEF Ask, NoPlans, PlansFit
  <1> QED  BY <1>1, <1>3, <1>4, <1>5 DEF Inv

\* Preparation, plan and evaluation choose nothing and check nothing.
unmade == <<verdict, round, chosen, kept, plans, caller>>

LEMMA EarlyKeeps ==
  ASSUME Inv, UNCHANGED unmade, pc \in Gathering,
         pc' \in Gathering \cup {"select", "done"},
         disk' \in [Files -> Contents], snap' \in [Files -> Contents \cup {None}]
  PROVE  Inv'
  <1> USE DEF unmade, caller
  <1>1. Untouched /\ Untouched'  BY DEF Inv, StagesFit, Untouched, Stale
  <1>2. Verdicts'  BY DEF Inv, Verdicts
  <1>3. Cardinality({}) = 0  BY FS_EmptySet
  <1>4. StagesFit'  BY <1>1, <1>3 DEF StagesFit, Untouched, Gathering, Reporting
  <1>5. TokenKept' /\ PlansFit'  BY DEF Inv, TokenKept, TokenIsExact, PlansFit, Gathering
  <1> QED  BY <1>2, <1>4, <1>5 DEF Inv

LEMMA PreparesKeeps ==
  ASSUME Inv, Prepares
  PROVE  Inv'
  <1> USE DEF Gathering, unmade, failing, caller, Is, Goto, source, scoring, selection, walk, answer
  <1>0. disk \in [Files -> Contents] /\ snap \in [Files -> Contents \cup {None}]
    BY DEF Inv, Verdicts
  <1>1. ASSUME NEW L, NEW ok, Inventory(L, ok) PROVE Inv'
    BY <1>0, <1>1, EarlyKeeps DEF Inventory
  <1>2. ASSUME NEW x \in Files, PrepareFile(x) PROVE Inv'
    <2>1. snap' \in [Files -> Contents \cup {None}]
      BY <1>0, <1>2 DEF PrepareFile
    <2> QED  BY <1>0, <2>1, <1>2, EarlyKeeps DEF PrepareFile
  <1>3. ASSUME NEW x \in Files, FileUnreadable(x) PROVE Inv'
    BY <1>0, <1>3, EarlyKeeps DEF FileUnreadable
  <1>4. CASE StopPreparing
    BY <1>0, <1>4, EarlyKeeps DEF StopPreparing
  <1>5. ASSUME NEW hits, PreparationEnds(hits) PROVE Inv'
    BY <1>0, <1>5, EarlyKeeps DEF PreparationEnds, RecordPreparation
  <1>6. CASE MeasureAborts
    BY <1>0, <1>6, EarlyKeeps DEF MeasureAborts, Fails
  <1>7. ASSUME NEW cause, Refuse(cause) PROVE Inv'
    BY <1>0, <1>7, EarlyKeeps DEF Refuse, Fails
  <1>8. ASSUME NEW p \in Preparations, ReusePreparation(p) PROVE Inv'
    <2>1. snap' \in [Files -> Contents \cup {None}]
      BY <1>8, SearchAssumption DEF ReusePreparation
    <2> QED  BY <1>0, <2>1, <1>8, EarlyKeeps DEF ReusePreparation
  <1>9. ASSUME NEW cause, PreparationRefused(cause) PROVE Inv'
    BY <1>0, <1>9, EarlyKeeps DEF PreparationRefused, Fails
  <1> QED  BY <1>1, <1>2, <1>3, <1>4, <1>5, <1>6, <1>7, <1>8, <1>9 DEF Prepares

LEMMA EvaluatesKeeps ==
  ASSUME Inv, Evaluates
  PROVE  Inv'
  <1> USE DEF Gathering, unmade, failing, caller, Is, Goto, source, scoring, selection, walk, answer
  <1>0. disk \in [Files -> Contents] /\ snap \in [Files -> Contents \cup {None}]
    BY DEF Inv, Verdicts
  <1>1. ASSUME NEW sent, NEW lastCut, Plan(sent, lastCut) PROVE Inv'
    BY <1>0, <1>1, EarlyKeeps DEF Plan
  <1>2. ASSUME NEW f, NEW sc, NEW u, Answer(f, sc, u) PROVE Inv'
    BY <1>0, <1>2, EarlyKeeps DEF Answer
  <1>3. ASSUME NEW f, NEW code, NoAnswer(f, code) PROVE Inv'
    BY <1>0, <1>3, EarlyKeeps DEF NoAnswer
  <1>4. ASSUME NEW retried, CapInAdmission(retried) PROVE Inv'
    BY <1>0, <1>4, EarlyKeeps DEF CapInAdmission
  <1>5. CASE AdmissionRefused
    BY <1>0, <1>5, EarlyKeeps DEF AdmissionRefused, Fails
  <1>6. ASSUME NEW abandoned, EvaluationEnds(abandoned) PROVE Inv'
    BY <1>0, <1>6, EarlyKeeps DEF EvaluationEnds
  <1> QED  BY <1>1, <1>2, <1>3, <1>4, <1>5, <1>6 DEF Evaluates

-----------------------------------------------------------------------------
LEMMA BeginSelectionKeeps ==
  ASSUME Inv, NEW configured, BeginSelection(configured)
  PROVE  Inv'
  <1> USE DEF BeginSelection, WalkOn, Goto, Is, caller, source, scoring, answer
  <1>1. Verdicts' /\ TokenKept' /\ PlansFit'  BY DEF Inv, Verdicts, TokenKept, TokenIsExact, PlansFit
  <1>2. Stale' = Stale /\ Read' = Read /\ Origins' = {} /\ Qualifying' = Qualifying
    BY DEF Stale, Read, Origins, Qualifying, Above, Scored, Prepared, Before, Key
  <1>3. Stale \subseteq Read /\ Cardinality(Stale) >= round /\ Stale \ {} = Stale
    BY DEF Inv, StagesFit
  <1>4. queue' \subseteq {f \in Qualifying : f.file \notin Stale}  BY DEF Distinct
  <1>5. StagesFit'  BY <1>2, <1>3, <1>4 DEF StagesFit, Gathering, Reporting
  <1> QED  BY <1>1, <1>5 DEF Inv

\* Both policies add to what is chosen a range of the file of a candidate.
LEMMA WalkKeeps ==
  ASSUME Inv, Is("walk"), NEW f \in queue, NEW a, a.range.file = f.file, PlansFit',
         chosen' = chosen \/ chosen' = Committed(chosen, a),
         queue' \subseteq queue, pc' \in {"walk", "check"},
         UNCHANGED <<disk, caller, source, scoring, verdict, round, kept>>
  PROVE  Inv'
  <1> USE DEF Is, caller, source, scoring
  <1>1. Verdicts' /\ TokenKept'  BY DEF Inv, Verdicts, TokenKept, TokenIsExact
  <1>2. Stale' = Stale /\ Read' = Read /\ Qualifying' = Qualifying
    BY DEF Stale, Read, Qualifying, Above, Scored, Prepared, Before, Key
  <1>3. /\ Stale \subseteq Read /\ Cardinality(Stale) >= round
        /\ Origins \subseteq Read \ Stale
        /\ queue \subseteq {g \in Qualifying : g.file \notin Stale}
    BY DEF Inv, StagesFit
  <1>4. f.file \in Read \ Stale
    <2>1. f \in Prepared /\ f.file \notin Stale
      BY <1>3 DEF Qualifying, Above, Scored
    <2> QED  BY <2>1, SelectionAssumption DEF Prepared, Read
  <1>5. Origins' \subseteq Origins \cup {f.file}
    <2>1. chosen' = chosen \/ chosen' = (chosen \ a.near) \cup {a.range}
      BY DEF Committed
    <2> QED  BY <2>1 DEF Origins
  <1>6. Origins' \subseteq Read \ Stale  BY <1>3, <1>4, <1>5
  <1>7. Stale \ Origins' = Stale  BY <1>6
  <1>8. StagesFit'
    BY <1>2, <1>3, <1>6, <1>7 DEF StagesFit, Gathering, Reporting
  <1> QED  BY <1>1, <1>8 DEF Inv

LEMMA OfferKeeps ==
  ASSUME Inv, NEW f, Offer(f)
  PROVE  Inv'
  <1> DEFINE a == Admission(chosen, used, f, score)
  <1>1. a.range.file = f.file  BY AdmittedFile
  <1>2. Is("walk") /\ f \in queue /\ queue' \subseteq queue  BY DEF Offer
  <1>3. chosen' = chosen \/ chosen' = Committed(chosen, a)  BY DEF Offer
  <1>4. pc' \in {"walk", "check"}  BY DEF Offer, WalkOn, Goto
  <1>5. UNCHANGED <<disk, caller, source, scoring, verdict, round, kept>>  BY DEF Offer, answer
  <1>6. PlansFit'  BY DEF Offer, Inv, PlansFit
  <1> HIDE DEF a
  <1> QED  BY <1>1, <1>2, <1>3, <1>4, <1>5, <1>6, WalkKeeps

\* What is planned for a candidate, now or before, is a range of its file.
LEMMA PlannedFile ==
  ASSUME PlansFit, NEW f \in Fragments
  PROVE  /\ Planned[f] = None \/ Planned[f].range.file = f.file
         /\ f \in queue => Planned[f].range.file = f.file
  <1>1. Planned[f] = IF f \in queue /\ plans[f] = None THEN Offered(chosen, f, Own(f), score) ELSE plans[f]
    BY DEF Planned
  <1>2. Offered(chosen, f, Own(f), score).range.file = f.file  BY DEF Offered, Union
  <1> QED  BY <1>1, <1>2 DEF PlansFit

LEMMA PickKeeps ==
  ASSUME Inv, NEW f \in Fragments, Pick(f)
  PROVE  Inv'
  <1> DEFINE a == Planned[f]
  <1>1. PlansFit  BY DEF Inv
  <1>2. Is("walk") /\ f \in queue /\ queue' \subseteq queue  BY DEF Pick
  <1>3. a.range.file = f.file  BY <1>1, <1>2, PlannedFile
  <1>4. chosen' = Committed(chosen, a)  BY DEF Pick
  <1>5. pc' \in {"walk", "check"}  BY DEF Pick, WalkOn, Goto
  <1>6. UNCHANGED <<disk, caller, source, scoring, verdict, round, kept>>  BY DEF Pick, answer
  <1>7. PlansFit'
    <2> SUFFICES ASSUME NEW g \in Fragments PROVE plans'[g] = None \/ plans'[g].range.file = g.file
      BY DEF PlansFit
    <2>1. plans' = [h \in Fragments |-> IF h \in queue' THEN Replanned(f, Planned)[h] ELSE None]
      BY DEF Pick
    <2>2. plans'[g] \in {None, Planned[g]}  BY <2>1 DEF Replanned
    <2> QED  BY <1>1, <2>2, PlannedFile
  <1> HIDE DEF a
  <1> QED  BY <1>2, <1>3, <1>4, <1>5, <1>6, <1>7, WalkKeeps

LEMMA PicksEndKeeps ==
  ASSUME Inv, PicksEnd
  PROVE  Inv'
  <1> USE DEF PicksEnd, Is, Goto, caller, source, scoring, answer
  <1>1. Verdicts' /\ TokenKept'  BY DEF Inv, Verdicts, TokenKept, TokenIsExact
  <1>2. PlansFit'  BY DEF NoPlans, PlansFit
  <1>3. Stale' = Stale /\ Read' = Read /\ Origins' = Origins  BY DEF Stale, Read, Origins
  <1>4. Stale \subseteq Read /\ Cardinality(Stale) >= round /\ Origins \subseteq Read \ Stale
    BY DEF Inv, StagesFit
  <1>5. Stale \ Origins = Stale  BY <1>4
  <1>6. StagesFit'  BY <1>3, <1>4, <1>5 DEF StagesFit, Gathering, Reporting
  <1> QED  BY <1>1, <1>2, <1>6 DEF Inv

\* A file checked is one that is chosen: the stale files not chosen stay as they are.
LEMMA CheckFileKeeps ==
  ASSUME Inv, NEW x \in Files, CheckFile(x)
  PROVE  Inv'
  <1> USE DEF CheckFile, Is, caller, source, scoring, walk, answer
  <1>1. Verdicts' /\ TokenKept' /\ PlansFit'  BY DEF Inv, Verdicts, TokenKept, TokenIsExact, PlansFit
  <1>2. x \in Origins  BY DEF Unchecked, Origins
  <1>3. Origins' = Origins /\ Read' = Read  BY DEF Origins, Read
  <1>4. Stale' \subseteq Stale \cup {x} /\ Stale' \ Origins = Stale \ Origins
    BY <1>2 DEF Inv, Verdicts, Stale
  <1>5. /\ Stale \subseteq Read /\ Origins \subseteq Read
        /\ Cardinality(Stale \ Origins) >= round
    BY DEF Inv, StagesFit
  <1>6. StagesFit'  BY <1>2, <1>3, <1>4, <1>5 DEF StagesFit, Gathering, Reporting
  <1> QED  BY <1>1, <1>6 DEF Inv

\* A further round has found one more stale file; without one, all are fresh.
LEMMA CheckEndsKeeps ==
  ASSUME Inv, CheckEnds
  PROVE  Inv'
  <1> USE DEF CheckEnds, Goto, Is, caller, source, scoring, walk, answer
  <1>1. Verdicts' /\ TokenKept' /\ PlansFit'  BY DEF Inv, Verdicts, TokenKept, TokenIsExact, PlansFit
  <1>2. Verdicts /\ round \in Nat  BY DEF Inv, Verdicts
  <1>3. Stale' = Stale /\ Read' = Read  BY DEF Stale, Read
  <1>4. /\ Stale \subseteq Read /\ Origins \subseteq Read
        /\ Cardinality(Stale \ Origins) >= round
    BY DEF Inv, StagesFit
  <1>5. round < Rounds  BY <1>2, <1>4, RoundsSuffice
  <1>6. CASE \E r \in chosen : r.file \in Stale
    <2>1. PICK r \in chosen : r.file \in Stale  BY <1>6
    <2>2. Stale \ Origins \subseteq Stale /\ r.file \notin Stale \ Origins
      BY <2>1 DEF Origins
    <2>3. /\ IsFiniteSet(Stale \ Origins)
          /\ Cardinality(Stale \ Origins) <= Cardinality(Stale)
          /\ Cardinality(Stale \ Origins) # Cardinality(Stale)
      BY <1>2, <2>1, <2>2, StaleFinite, FS_Subset
    <2>4. Cardinality(Stale \ Origins) \in Nat /\ Cardinality(Stale) \in Nat
      BY <1>2, <2>3, StaleFinite, FS_CardinalityType
    <2>5. Cardinality(Stale) >= round + 1  BY <1>2, <1>4, <2>3, <2>4
    <2>6. pc' = "select" /\ round' = round + 1  BY <1>5, <1>6
    <2>7. StagesFit'  BY <1>3, <1>4, <2>5, <2>6 DEF StagesFit, Gathering, Reporting
    <2> QED  BY <1>1, <2>7 DEF Inv
  <1>7. CASE ~ \E r \in chosen : r.file \in Stale
    <2>1. ASSUME NEW r \in chosen PROVE verdict[r.file] = "fresh"
      <3>1. verdict[r.file] # None  BY <1>5 DEF Unchecked
      <3>2. r.file \in Files  BY <1>4 DEF Origins, Read
      <3>3. verdict[r.file] # "stale"  BY <1>7, <3>2 DEF Stale
      <3> QED  BY <1>2, <3>1, <3>2, <3>3 DEF Verdicts
    <2>2. pc' = "report"  BY <1>7
    <2>3. StagesFit'  BY <2>1, <2>2 DEF StagesFit, Gathering, Reporting
    <2> QED  BY <1>1, <2>3 DEF Inv
  <1> QED  BY <1>6, <1>7

-----------------------------------------------------------------------------
LEMMA BeginReportKeeps ==
  ASSUME Inv, NEW size, NEW late, BeginReport(size, late)
  PROVE  Inv'
  <1> USE DEF BeginReport, Goto, Is, caller, source, scoring, walk
  <1>1. Verdicts' /\ TokenKept' /\ PlansFit'  BY DEF Inv, Verdicts, TokenKept, TokenIsExact, PlansFit
  <1>2. \A r \in chosen : verdict[r.file] = "fresh"  BY DEF Inv, StagesFit, Reporting
  <1>3. kept' \subseteq chosen /\ chosen' = chosen /\ pc' = "render"  OBVIOUS
  <1>4. StagesFit'  BY <1>2, <1>3 DEF StagesFit, Gathering, Reporting
  <1> QED  BY <1>1, <1>4 DEF Inv

\* What is returned is what the token says, as no range returned is of a stale file.
LEMMA ReturnKeeps ==
  ASSUME Inv, Is("render"), Return(Report(kept))
  PROVE  Inv'
  <1> USE DEF Return, Goto, Is, reported, source, scoring, walk
  <1>1. Verdicts'  BY DEF Inv, Verdicts
  <1>2. kept \subseteq chosen /\ \A r \in chosen : verdict[r.file] = "fresh"
    BY DEF Inv, StagesFit, Reporting
  <1>3. StagesFit'  BY <1>2 DEF StagesFit, Gathering, Reporting
  <1>4. Represented(kept) = {g \in Qualifying : \E r \in kept : Covers(r, g)}
    BY <1>2 DEF Represented, Covers, Stale
  <1>5. Delivered(kept) = request.token \cup {Key(f) : f \in Represented(kept)}
    BY <1>4 DEF Delivered
  <1>6. given = request.token  BY DEF Inv, TokenKept
  <1>7. given' = Delivered(kept)  BY <1>5, <1>6
  <1>8. offered' \in {{}, Delivered(kept)}
    <2>1. Report(kept).next = NextToken(kept)  BY DEF Report
    <2>2. NextToken(kept) \in {Delivered(kept), None}  BY DEF NextToken
    <2> QED  BY <2>1, <2>2
  <1>9. TokenKept' /\ PlansFit'  BY <1>7, <1>8 DEF TokenKept, TokenIsExact, Inv, PlansFit
  <1> QED  BY <1>1, <1>3, <1>9 DEF Inv

LEMMA RendersKeeps ==
  ASSUME Inv, Is("render"), NEW v, v = Report(kept),
         \/ Throw(v) \/ Return(v) \/ EndContinuation(v) \/ TooSmall(v)
         \/ \E r \in kept : RemoveRange(v, r)
  PROVE  Inv'
  <1> USE DEF Goto, Is, reported, source, scoring, walk
  <1>1. kept \subseteq chosen /\ \A r \in chosen : verdict[r.file] = "fresh"
    BY DEF Inv, StagesFit, Reporting
  <1>2. CASE Return(v)  BY <1>2, ReturnKeeps
  <1>3. CASE Throw(v)
    BY <1>1, <1>3 DEF Throw, Inv, PlansFit, Verdicts, StagesFit, TokenKept, TokenIsExact, Gathering, Reporting
  <1>4. CASE EndContinuation(v)
    BY <1>1, <1>4
    DEF EndContinuation, Inv, PlansFit, Verdicts, StagesFit, TokenKept, TokenIsExact, Gathering, Reporting
  <1>5. CASE TooSmall(v)
    BY <1>1, <1>5
    DEF TooSmall, Fails, Inv, PlansFit, Verdicts, StagesFit, TokenKept, TokenIsExact, Gathering, Reporting
  <1>6. ASSUME NEW r \in kept, RemoveRange(v, r) PROVE Inv'
    BY <1>1, <1>6
    DEF RemoveRange, Inv, PlansFit, Verdicts, StagesFit, TokenKept, TokenIsExact, Gathering, Reporting
  <1> QED  BY <1>2, <1>3, <1>4, <1>5, <1>6

\* Edits, stops and steps of no variable change nothing that Inv speaks of.
seen == <<verdict, snap, round, chosen, kept, queue, plans, score, pc, caller>>

LEMMA UnseenKeeps ==
  ASSUME Inv, UNCHANGED seen, disk' \in [Files -> Contents]
  PROVE  Inv'
  <1> USE DEF seen, caller
  <1>1. Verdicts' /\ TokenKept' /\ PlansFit'  BY DEF Inv, Verdicts, TokenKept, TokenIsExact, PlansFit
  <1>2. Stale' = Stale /\ Read' = Read /\ Origins' = Origins /\ Qualifying' = Qualifying
    BY DEF Stale, Read, Origins, Qualifying, Above, Scored, Prepared, Before, Key
  <1>3. StagesFit'  BY <1>2 DEF Inv, StagesFit, Untouched
  <1> QED  BY <1>1, <1>3 DEF Inv

LEMMA NextKeeps ==
  ASSUME Inv, [Next]_vars
  PROVE  Inv'
  <1>0. disk \in [Files -> Contents]  BY DEF Inv, Verdicts
  <1>1. ASSUME NEW x \in Files, NEW c \in Contents, Edit(x, c) PROVE Inv'
    <2>1. disk' \in [Files -> Contents]  BY <1>0, <1>1 DEF Edit
    <2> QED  BY <1>1, <2>1, UnseenKeeps
             DEF Edit, seen, source, scoring, selection, walk, answer
  <1>2. ASSUME NEW k \in Stops, Stop(k) PROVE Inv'
    BY <1>0, <1>2, UnseenKeeps DEF Stop, seen, source, scoring, selection, walk, answer
  <1>3. CASE UNCHANGED vars
    BY <1>0, <1>3, UnseenKeeps DEF vars, seen, caller
  <1>4. ASSUME NEW partial, NEW capped, NEW token, Ask(partial, capped, token) PROVE Inv'
    BY <1>4, AskKeeps
  <1>5. CASE Selects
    BY <1>5, BeginSelectionKeeps, OfferKeeps, PickKeeps, PicksEndKeeps, CheckFileKeeps, CheckEndsKeeps DEF Selects
  <1>6. CASE Renders
    BY <1>6, BeginReportKeeps, RendersKeeps DEF Renders
  <1> QED
    BY <1>1, <1>2, <1>3, <1>4, <1>5, <1>6, PreparesKeeps, EvaluatesKeeps DEF Next, Steps

-----------------------------------------------------------------------------
\* The invariant holds of every behaviour of a search, whoever changes files.
THEOREM Invariance == Spec => []Inv
  <1>1. Inv /\ [Next]_vars => Inv'  BY NextKeeps
  <1> QED  BY InitHolds, <1>1, PTL DEF Spec

\* No excerpt of a report is of a file that changed since its fragments were scored
\* (selectFresh), for any number of files and any edits: the rounds always suffice.
THEOREM EvidenceIsFresh == Spec => []NoStaleEvidence
  <1>1. Inv => NoStaleEvidence  BY DEF Inv, StagesFit, NoStaleEvidence, Reporting
  <1> QED  BY <1>1, Invariance, PTL

\* A token is exactly what its caller was given (deliveredAfter), in chains of any length.
THEOREM TokensAreExact == Spec => []TokenIsExact
  <1>1. Inv => TokenIsExact  BY DEF Inv, TokenKept
  <1> QED  BY <1>1, Invariance, PTL

-----------------------------------------------------------------------------
(* What is chosen fits.  A range that is committed is the union of the     *)
(* ranges it touches and of the lines offered, so that it touches no other *)
(* (Merged), and the price of the set changes by what was computed for the *)
(* offer: a candidate's plan may be old, but only ranges of other files    *)
(* have been committed since it was made (PlansTrue).                      *)

IsRange(r) == r.file \in Files /\ r.first \in Lines /\ r.last \in Lines /\ r.first <= r.last

Apart(q, r) == q.file = r.file => q = r \/ q.last + 1 < r.first \/ r.last + 1 < q.first

RangeSet(S) ==
  IsFiniteSet(S) /\ (\A r \in S : IsRange(r)) /\ \A q, r \in S : Apart(q, r)

PlansTrue ==
  \A f \in Fragments :
    \/ plans[f] = None
    \/ /\ pc = "walk" /\ policy = "greedy"
       /\ plans[f] = Offered(chosen, f, Own(f), score)

Fitting ==
  /\ RangeSet(chosen) /\ used = Prices(chosen) /\ used <= Available
  /\ PlansTrue

\* The least and the greatest of some lines are among them.
LEMMA MinOfLines ==
  ASSUME NEW S, S \subseteq Lines, S # {}
  PROVE  Min(S) \in S /\ \A y \in S : Min(S) <= y
  <1>1. \E x \in S : \A y \in S : x <= y
    <2>1. S \subseteq Nat  BY SelectionAssumption DEF Lines
    <2> QED  BY <2>1, LeastNatural
  <1> QED  BY <1>1 DEF Min

LEMMA MaxOfLines ==
  ASSUME NEW S, S \subseteq Lines, S # {}
  PROVE  Max(S) \in S /\ \A y \in S : Max(S) >= y
  <1> DEFINE T == {MaxLine - x : x \in S}
  <1>0. MaxLine \in Nat  BY SelectionAssumption
  <1>1. T \subseteq Nat /\ T # {}
    <2>1. \A x \in S : x \in Nat /\ x <= MaxLine  BY <1>0 DEF Lines
    <2>2. \A x \in S : MaxLine - x \in Nat  BY <1>0, <2>1
    <2> QED  BY <2>2
  <1> HIDE DEF T
  <1>2. PICK t \in T : \A u \in T : t <= u  BY <1>1, LeastNatural
  <1>3. PICK x \in S : t = MaxLine - x  BY DEF T
  <1>4. ASSUME NEW y \in S PROVE x >= y
    <2>1. MaxLine - x <= MaxLine - y  BY <1>2, <1>3 DEF T
    <2>2. x \in Int /\ y \in Int  BY DEF Lines
    <2> QED  BY <1>0, <2>1, <2>2
  <1> QED  BY <1>4 DEF Max

\* The union of the ranges touched and the lines offered.
LEMMA UnionSpans ==
  ASSUME NEW near, \A r \in near : IsRange(r), NEW f \in Fragments,
         NEW span \in Lines \X Lines, span[1] <= span[2], NEW sc
  PROVE  LET u == Union(near, f, span, sc)
         IN  /\ IsRange(u) /\ u.file = f.file /\ u.first <= span[1] /\ span[2] <= u.last
             /\ \A r \in near : u.first <= r.first /\ r.last <= u.last
             /\ u.first = span[1] \/ \E r \in near : u.first = r.first
             /\ u.last = span[2] \/ \E r \in near : u.last = r.last
  <1> DEFINE F == {span[1]} \cup {r.first : r \in near}
             L == {span[2]} \cup {r.last : r \in near}
             u == Union(near, f, span, sc)
  <1>1. F \subseteq Lines /\ L \subseteq Lines /\ F # {} /\ L # {}  BY DEF IsRange
  <1>2. span[1] \in F /\ span[2] \in L /\ \A r \in near : r.first \in F /\ r.last \in L
    OBVIOUS
  <1>3. \A x \in F : x = span[1] \/ \E r \in near : x = r.first  OBVIOUS
  <1>4. \A x \in L : x = span[2] \/ \E r \in near : x = r.last  OBVIOUS
  <1>5. u.file = f.file /\ u.first = Min(F) /\ u.last = Max(L)  BY DEF Union
  <1> HIDE DEF F, L, u
  <1>6. u.first \in F /\ \A y \in F : u.first <= y  BY <1>1, <1>5, MinOfLines
  <1>7. u.last \in L /\ \A y \in L : u.last >= y  BY <1>1, <1>5, MaxOfLines
  <1>8. u.first <= span[1] /\ span[2] <= u.last  BY <1>1, <1>2, <1>6, <1>7 DEF Lines
  <1>9. f.file \in Files  BY SelectionAssumption
  <1>10. u.first \in Lines /\ u.last \in Lines /\ u.first <= u.last
    <2>1. u.first \in Lines /\ u.last \in Lines  BY <1>1, <1>6, <1>7
    <2> QED  BY <1>8, <2>1 DEF Lines
  <1>11. \A r \in near : u.first <= r.first /\ r.last <= u.last
    BY <1>1, <1>2, <1>6, <1>7 DEF Lines
  <1> QED  BY <1>3, <1>4, <1>5, <1>6, <1>7, <1>8, <1>9, <1>10, <1>11 DEF IsRange, u

\* A range committed touches no other range.
LEMMA Merged ==
  ASSUME NEW S, RangeSet(S), NEW f \in Fragments,
         NEW span \in Lines \X Lines, span[1] <= span[2], NEW sc
  PROVE  LET a == Offered(S, f, span, sc)
         IN  /\ RangeSet(Committed(S, a))
             /\ a.range \notin S \ a.near
  <1> DEFINE near == Near(S, f, span)
             u == Union(near, f, span, sc)
             a == Offered(S, f, span, sc)
  <1>0. a.near = near /\ a.range = u  BY DEF Offered
  <1>1. near \subseteq S /\ \A r \in near : IsRange(r) /\ Touching(r, f.file, span)
    BY DEF Near, RangeSet
  <1>2. \A r \in S \ near : IsRange(r) /\ ~Touching(r, f.file, span)
    BY DEF Near, RangeSet
  <1>3. /\ IsRange(u) /\ u.file = f.file /\ u.first <= span[1] /\ span[2] <= u.last
        /\ u.first = span[1] \/ \E r \in near : u.first = r.first
        /\ u.last = span[2] \/ \E r \in near : u.last = r.last
    BY <1>1, UnionSpans
  <1>4. Committed(S, a) = (S \ near) \cup {u}  BY <1>0 DEF Committed
  <1> HIDE DEF near, u, a
  <1>5. ASSUME NEW r \in S \ near, r.file = u.file
        PROVE  r.last + 1 < u.first \/ u.last + 1 < r.first
    <2>1. IsRange(r) /\ IsRange(u) /\ \A q \in near : IsRange(q) /\ Apart(r, q) /\ r # q
      BY <1>1, <1>2, <1>3, <1>5 DEF RangeSet
    <2> USE DEF IsRange, Lines
    <2>2. CASE r.last + 1 < span[1]
      <3>1. CASE u.first = span[1]  BY <2>2, <3>1
      <3>2. ASSUME NEW q \in near, u.first = q.first PROVE r.last + 1 < u.first
        <4>1. q.file = r.file /\ span[1] <= q.last + 1  BY <1>1, <1>3, <1>5 DEF Touching
        <4>2. r.last + 1 < q.first \/ q.last + 1 < r.first  BY <2>1, <4>1 DEF Apart
        <4> QED  BY <2>1, <2>2, <3>2, <4>1, <4>2
      <3> QED  BY <1>3, <3>1, <3>2
    <2>3. CASE span[2] + 1 < r.first
      <3>1. CASE u.last = span[2]  BY <2>3, <3>1
      <3>2. ASSUME NEW q \in near, u.last = q.last PROVE u.last + 1 < r.first
        <4>1. q.file = r.file /\ q.first <= span[2] + 1  BY <1>1, <1>3, <1>5 DEF Touching
        <4>2. r.last + 1 < q.first \/ q.last + 1 < r.first  BY <2>1, <4>1 DEF Apart
        <4> QED  BY <2>1, <2>3, <3>2, <4>1, <4>2
      <3> QED  BY <1>3, <3>1, <3>2
    <2>4. r.last + 1 < span[1] \/ span[2] + 1 < r.first
      BY <1>2, <1>3, <1>5, <2>1 DEF Touching
    <2> QED  BY <2>2, <2>3, <2>4
  <1>6. u \notin S \ near
    <2> SUFFICES ASSUME u \in S \ near PROVE FALSE  OBVIOUS
    <2>1. u.last + 1 < u.first  BY <1>5
    <2> QED  BY <1>3, <2>1 DEF IsRange, Lines
  <1>7. RangeSet(Committed(S, a))
    <2>1. IsFiniteSet(Committed(S, a))
      <3>1. IsFiniteSet(S \ near)  BY FS_Subset DEF RangeSet
      <3> QED  BY <1>4, <3>1, FS_AddElement
    <2>2. \A r \in Committed(S, a) : IsRange(r)  BY <1>2, <1>3, <1>4
    <2>3. ASSUME NEW q \in Committed(S, a), NEW r \in Committed(S, a) PROVE Apart(q, r)
      <3>1. CASE q \in S \ near /\ r \in S \ near  BY <3>1 DEF RangeSet
      <3>2. CASE q = u /\ r = u  BY <3>2 DEF Apart
      <3>3. CASE q \in S \ near /\ r = u  BY <1>5, <3>3 DEF Apart
      <3>4. CASE q = u /\ r \in S \ near  BY <1>5, <3>4 DEF Apart
      <3> QED  BY <1>4, <3>1, <3>2, <3>3, <3>4
    <2> QED  BY <2>1, <2>2, <2>3 DEF RangeSet
  <1> QED  BY <1>0, <1>6, <1>7 DEF a

\* The price of a set of ranges, and of a set and a range more.
LEMMA PriceType ==
  ASSUME NEW S, RangeSet(S)
  PROVE  Prices(S) \in Nat /\ \A r \in S : Price(r) \in Nat
  <1> DEFINE p == [r \in S |-> Price(r)]
  <1>1. \A r \in S : p[r] \in Nat /\ Price(r) \in Nat
    BY SelectionAssumption DEF RangeSet, IsRange, Price
  <1> HIDE DEF p
  <1>2. SumFunctionOnSet(p, S) \in Nat  BY <1>1, SumType DEF RangeSet
  <1> QED  BY <1>1, <1>2 DEF Prices, p

LEMMA PricesUnion ==
  ASSUME NEW S, NEW R, IsFiniteSet(S), IsFiniteSet(R), S \cap R = {},
         \A r \in S \cup R : Price(r) \in Int
  PROVE  Prices(S \cup R) = Prices(S) + Prices(R)
  <1> DEFINE p == [r \in S \cup R |-> Price(r)]
             s == [r \in S |-> Price(r)]
             t == [r \in R |-> Price(r)]
  <1>1. /\ \A r \in S \cup R : p[r] \in Int
        /\ \A r \in S : p[r] = s[r] /\ p[r] \in Int
        /\ \A r \in R : p[r] = t[r] /\ p[r] \in Int
    OBVIOUS
  <1> HIDE DEF p, s, t
  <1>2. SumFunctionOnSet(p, S \cup R) = SumFunctionOnSet(p, S) + SumFunctionOnSet(p, R)
    BY <1>1, SumUnion
  <1>3. /\ SumFunctionOnSet(p, S) = SumFunctionOnSet(s, S)
        /\ SumFunctionOnSet(p, R) = SumFunctionOnSet(t, R)
    BY <1>1, SumAgree
  <1> QED  BY <1>2, <1>3 DEF Prices, p, s, t

LEMMA PriceOne == ASSUME NEW r, Price(r) \in Int PROVE Prices({r}) = Price(r)
  <1> DEFINE p == [x \in {r} |-> Price(x)]
  <1>1. IsFiniteSet({r}) /\ {r} \ {r} = {} /\ r \in {r}  BY FS_Singleton
  <1>2. p[r] = Price(r) /\ \A x \in {r} : p[x] \in Int  OBVIOUS
  <1> HIDE DEF p
  <1>3. SumFunctionOnSet(p, {r}) = p[r] + SumFunctionOnSet(p, {})
    BY <1>1, <1>2, SumRemove
  <1>4. SumFunctionOnSet(p, {r}) = Price(r)  BY <1>2, <1>3, SumEmpty
  <1> QED  BY <1>4 DEF Prices, p

\* The running total is kept by adding the change that was computed for the offer.
LEMMA Priced ==
  ASSUME NEW S, RangeSet(S), NEW f \in Fragments,
         NEW span \in Lines \X Lines, span[1] <= span[2], NEW sc
  PROVE  LET a == Offered(S, f, span, sc)
         IN  Prices(Committed(S, a)) = Prices(S) + a.delta /\ a.delta \in Int
  <1> DEFINE near == Near(S, f, span)
             u == Union(near, f, span, sc)
             a == Offered(S, f, span, sc)
  <1>0. a.near = near /\ a.range = u /\ a.delta = Price(u) - Prices(near)
    BY DEF Offered, Delta
  <1>1. near \subseteq S  BY DEF Near
  <1>2. Committed(S, a) = (S \ near) \cup {u}  BY <1>0 DEF Committed
  <1>3. RangeSet(Committed(S, a)) /\ u \notin S \ near
    <2> HIDE DEF near, u
    <2> QED  BY <1>0, Merged
  <1> HIDE DEF near, u, a
  <1>4. RangeSet(near) /\ RangeSet(S \ near)  BY <1>1, FS_Subset DEF RangeSet
  <1>5. /\ Prices(near) \in Nat /\ Prices(S \ near) \in Nat /\ Price(u) \in Nat
        /\ \A r \in S \cup {u} : Price(r) \in Int
    BY <1>2, <1>3, <1>4, PriceType
  <1>6. Prices(S) = Prices(near) + Prices(S \ near)
    <2>1. near \cup (S \ near) = S /\ near \cap (S \ near) = {}  BY <1>1
    <2>2. IsFiniteSet(near) /\ IsFiniteSet(S \ near)  BY <1>4 DEF RangeSet
    <2>3. \A r \in near \cup (S \ near) : Price(r) \in Int  BY <1>5, <2>1
    <2>4. Prices(near \cup (S \ near)) = Prices(near) + Prices(S \ near)
      BY <2>1, <2>2, <2>3, PricesUnion
    <2> QED  BY <2>1, <2>4
  <1>7. Prices((S \ near) \cup {u}) = Prices(S \ near) + Price(u)
    <2>1. IsFiniteSet(S \ near) /\ IsFiniteSet({u})  BY <1>4, FS_Singleton DEF RangeSet
    <2>2. (S \ near) \cap {u} = {}  BY <1>3
    <2>3. \A r \in (S \ near) \cup {u} : Price(r) \in Int  BY <1>5
    <2>4. Prices((S \ near) \cup {u}) = Prices(S \ near) + Prices({u})
      BY <2>1, <2>2, <2>3, PricesUnion
    <2> QED  BY <1>5, <2>4, PriceOne
  <1> QED  BY <1>0, <1>2, <1>5, <1>6, <1>7 DEF a

LEMMA NothingFits ==
  ASSUME chosen' = {}, used' = 0, \A f \in Fragments : plans'[f] = None
  PROVE  Fitting'
  <1>1. RangeSet({})  BY FS_EmptySet DEF RangeSet
  <1>2. Prices({}) = 0  BY SumEmpty DEF Prices
  <1>3. 0 <= Available  BY SelectionAssumption
  <1>4. PlansTrue'  BY DEF PlansTrue
  <1> QED  BY <1>1, <1>2, <1>3, <1>4 DEF Fitting

\* Outside a walk no plan is kept, and most steps choose nothing.
LEMMA NothingChosenFits ==
  ASSUME Fitting, pc # "walk" \/ UNCHANGED <<pc, policy, score>>, UNCHANGED <<chosen, used, plans>>
  PROVE  Fitting'
  <1>1. PlansTrue'  BY DEF Fitting, PlansTrue
  <1>2. RangeSet(chosen') /\ used' = Prices(chosen') /\ used' <= Available  BY DEF Fitting
  <1> QED  BY <1>1, <1>2 DEF Fitting

\* A fragment is offered with its own lines or those of its declaration.
LEMMA SpansOf ==
  ASSUME NEW f \in Fragments
  PROVE  /\ Own(f) \in Lines \X Lines /\ Own(f)[1] <= Own(f)[2]
         /\ f.whole \in Lines \X Lines /\ f.whole[1] <= f.whole[2]
  <1>1. /\ f.first \in Lines /\ f.last \in Lines /\ f.whole \in Lines \X Lines
        /\ f.whole[1] <= f.first /\ f.first <= f.last /\ f.last <= f.whole[2]
    BY SelectionAssumption
  <1>2. f.whole[1] \in Lines /\ f.whole[2] \in Lines  BY <1>1
  <1> QED  BY <1>1, <1>2 DEF Own, Lines

LEMMA CommitFits ==
  ASSUME Fitting, NEW f \in Fragments, NEW span \in Lines \X Lines, span[1] <= span[2],
         Fits(used, Offered(chosen, f, span, score)),
         chosen' = Committed(chosen, Offered(chosen, f, span, score)),
         used' = used + Offered(chosen, f, span, score).delta, PlansTrue'
  PROVE  Fitting'
  <1> DEFINE a == Offered(chosen, f, span, score)
  <1>1. RangeSet(chosen) /\ used = Prices(chosen)  BY DEF Fitting
  <1>2. RangeSet(Committed(chosen, a))  BY <1>1, Merged
  <1>3. Prices(Committed(chosen, a)) = Prices(chosen) + a.delta  BY <1>1, Priced
  <1>4. used + a.delta <= Available  BY DEF Fits
  <1> HIDE DEF a
  <1>5. chosen' = Committed(chosen, a) /\ used' = used + a.delta  BY DEF a
  <1> QED  BY <1>1, <1>2, <1>3, <1>4, <1>5 DEF Fitting

LEMMA OfferFits ==
  ASSUME Fitting, NEW f \in Fragments, Offer(f)
  PROVE  Fitting'
  <1> DEFINE a == Admission(chosen, used, f, score)
  <1>1. policy = "relevance" /\ UNCHANGED plans  BY DEF Offer
  <1>2. PlansTrue'  BY <1>1 DEF Fitting, PlansTrue
  <1>3. CASE Fits(used, a)
    <2>1. chosen' = Committed(chosen, a) /\ used' = used + a.delta  BY <1>3 DEF Offer
    <2>2. a = Offered(chosen, f, f.whole, score) \/ a = Offered(chosen, f, Own(f), score)
      BY DEF Admission
    <2> HIDE DEF a
    <2> QED  BY <1>2, <1>3, <2>1, <2>2, SpansOf, CommitFits
  <1>4. CASE ~Fits(used, a)
    <2>1. UNCHANGED <<chosen, used>>  BY <1>4 DEF Offer
    <2> QED  BY <1>2, <2>1 DEF Fitting
  <1> QED  BY <1>3, <1>4

\* What a plan would do does not depend on ranges of other files.
LEMMA PlanOfOtherFile ==
  ASSUME NEW S, NEW R, NEW g, NEW sc, NEW a,
         S = (R \ a.near) \cup {a.range}, \A r \in a.near \cup {a.range} : r.file # g.file
  PROVE  Offered(S, g, Own(g), sc) = Offered(R, g, Own(g), sc)
  <1>1. Near(S, g, Own(g)) = Near(R, g, Own(g))  BY DEF Near, Touching
  <1> QED  BY <1>1 DEF Offered

LEMMA PickFits ==
  ASSUME Fitting, NEW f \in Fragments, Pick(f)
  PROVE  Fitting'
  <1> DEFINE a == Offered(chosen, f, Own(f), score)
  <1>1. ASSUME NEW g \in Fragments
        PROVE  /\ g \in queue => Planned[g] = Offered(chosen, g, Own(g), score)
               /\ Planned[g] = None \/ Planned[g] = Offered(chosen, g, Own(g), score)
    BY DEF Planned, Fitting, PlansTrue
  <1>2. f \in queue /\ policy = "greedy" /\ pc = "walk" /\ UNCHANGED <<policy, score>>
    BY DEF Pick, Is, scoring
  <1>3. Planned[f] = a  BY <1>1, <1>2
  <1>4. Fits(used, a) /\ chosen' = Committed(chosen, a) /\ used' = used + a.delta
    BY <1>3 DEF Pick
  <1>5. a.range.file = f.file /\ \A r \in a.near : r.file = f.file
    BY DEF Offered, Union, Near, Touching
  <1>6. plans' = [g \in Fragments |-> IF g \in queue' THEN Replanned(f, Planned)[g] ELSE None]
    BY DEF Pick
  <1>7. pc' = IF queue' = {} THEN "check" ELSE "walk"  BY DEF Pick, WalkOn, Goto
  <1>8. PlansTrue'
    <2> SUFFICES ASSUME NEW g \in Fragments, plans'[g] # None
                 PROVE  /\ pc' = "walk" /\ policy' = "greedy"
                        /\ plans'[g] = Offered(chosen', g, Own(g), score')
      BY DEF PlansTrue
    <2>1. g \in queue' /\ plans'[g] = Replanned(f, Planned)[g]  BY <1>6
    <2>2. g.file # f.file /\ plans'[g] = Planned[g]  BY <2>1 DEF Replanned
    <2>3. plans'[g] = Offered(chosen, g, Own(g), score)  BY <1>1, <2>2
    <2>4. chosen' = (chosen \ a.near) \cup {a.range}  BY <1>4 DEF Committed
    <2> HIDE DEF a
    <2>5. Offered(chosen', g, Own(g), score) = Offered(chosen, g, Own(g), score)
      BY <1>5, <2>2, <2>4, PlanOfOtherFile
    <2> QED  BY <1>2, <1>7, <2>1, <2>3, <2>5
  <1> QED  BY <1>4, <1>8, SpansOf, CommitFits

LEMMA FittingHolds == Init => Fitting
  <1> SUFFICES ASSUME Init PROVE Fitting  OBVIOUS
  <1>1. RangeSet({}) /\ Prices({}) = 0 /\ 0 <= Available
    BY FS_EmptySet, SumEmpty, SelectionAssumption DEF RangeSet, Prices
  <1>2. PlansTrue  BY DEF Init, NoPlans, PlansTrue
  <1> QED  BY <1>1, <1>2 DEF Init, Fitting

LEMMA NextFits ==
  ASSUME Fitting, [Next]_vars
  PROVE  Fitting'
  <1> USE DEF Is, Goto, scoring, selection, walk, answer, failing, reported
  <1>1. ASSUME NEW x, NEW c, Edit(x, c) PROVE Fitting'
    BY <1>1, NothingChosenFits DEF Edit, ToBeRead
  <1>2. ASSUME NEW k, Stop(k) PROVE Fitting'
    BY <1>2, NothingChosenFits DEF Stop
  <1>3. CASE UNCHANGED vars  BY <1>3, NothingChosenFits DEF vars
  <1>4. ASSUME NEW partial, NEW capped, NEW token, Ask(partial, capped, token) PROVE Fitting'
    BY <1>4, NothingFits DEF Ask, NoPlans
  <1>5. CASE Prepares
    <2>1. pc # "walk" /\ UNCHANGED <<chosen, used, plans>>
      BY <1>5 DEF Prepares, Inventory, PrepareFile, FileUnreadable, StopPreparing, PreparationEnds,
         MeasureAborts, Refuse, ReusePreparation, PreparationRefused, Fails
    <2> QED  BY <2>1, NothingChosenFits
  <1>6. CASE Evaluates
    <2>1. pc # "walk" /\ UNCHANGED <<chosen, used, plans>>
      BY <1>6 DEF Evaluates, Plan, Answer, NoAnswer, CapInAdmission, AdmissionRefused,
         EvaluationEnds, Fails
    <2> QED  BY <2>1, NothingChosenFits
  <1>7. CASE Selects
    <2>1. ASSUME NEW configured, BeginSelection(configured) PROVE Fitting'
      <3>1. \A f \in Fragments : plans[f] = None  BY <2>1 DEF BeginSelection, Fitting, PlansTrue
      <3> QED  BY <2>1, <3>1, NothingFits DEF BeginSelection
    <2>2. CASE PicksEnd
      <3>1. PlansTrue'  BY <2>2 DEF PicksEnd, NoPlans, PlansTrue
      <3>2. UNCHANGED <<chosen, used>>  BY <2>2 DEF PicksEnd
      <3> QED  BY <3>1, <3>2 DEF Fitting
    <2>3. ASSUME NEW x, CheckFile(x) PROVE Fitting'
      BY <2>3, NothingChosenFits DEF CheckFile
    <2>4. CASE CheckEnds  BY <2>4, NothingChosenFits DEF CheckEnds
    <2> QED  BY <1>7, <2>1, <2>2, <2>3, <2>4, OfferFits, PickFits DEF Selects
  <1>8. CASE Renders
    <2>1. pc # "walk" /\ UNCHANGED <<chosen, used, plans>>
      BY <1>8 DEF Renders, BeginReport, Throw, Return, RemoveRange, EndContinuation, TooSmall, Fails
    <2> QED  BY <2>1, NothingChosenFits
  <1> QED
    BY <1>1, <1>2, <1>3, <1>4, <1>5, <1>6, <1>7, <1>8 DEF Next, Steps

\* The tokens counted while ranges are chosen and merged are their price, and fit; and
\* no line is in two ranges (RangeSet.commit, and plans kept between two picks).
THEOREM WhatIsChosenFits == Spec => []ChosenFits
  <1>1. Init => Fitting  BY FittingHolds
  <1>2. Fitting /\ [Next]_vars => Fitting'  BY NextFits
  <1>3. Fitting => ChosenFits  BY DEF Fitting, ChosenFits, RangeSet, Apart
  <1> QED  BY <1>1, <1>2, <1>3, PTL DEF Spec

-----------------------------------------------------------------------------
(* Reports balance.  Whatever is missing from a report was told when it    *)
(* was lost (Told): what was not prepared, a stop, a cap, a file found     *)
(* changed, and last of all an answer that never came.  The counts agree   *)
(* because what is chosen was earned: each range covers a fragment that    *)
(* qualifies, and no two cover the same one.                               *)

Selecting == {"select", "walk", "check", "report", "render"}
Planning  == {"measure", "evaluate"} \cup Selecting

Kinds ==
  /\ score \in [Fragments -> Nat] /\ cached \in [Fragments \X Contents -> Nat]
  /\ prepared \in [inventory : BOOLEAN, complete : BOOLEAN, unreadable : Nat]
  /\ prepared.complete => prepared.unreadable = 0

\* A loss of each kind has its reason.
IncompleteTold == pc \in Planning /\ ~prepared.complete => reasons # {}
StopTold       == stop # None => stop \in reasons
CapTold        == plan.capReached /\ ~plan.rejected => "SCAN_CAP_REACHED" \in reasons
SilenceTold    == pc = "render" /\ ~plan.rejected /\ NotEvaluated # {} => reasons # {}
ChangeTold ==
  /\ pc \in Selecting \ {"check"} /\ Stale # {} => "SOURCE_CHANGED" \in reasons
  /\ pc = "check" /\ Stale \ Origins # {} => "SOURCE_CHANGED" \in reasons
  /\ pc \in {"report", "render"} => Stale \subseteq Read

\* A range is of a fragment that qualifies, and has a score that does.
Earned ==
  \A r \in chosen : /\ r.score \in Nat /\ r.score >= Threshold
                    /\ \E f \in Qualifying : Covers(r, f)

Told ==
  /\ Kinds /\ IncompleteTold /\ StopTold /\ CapTold /\ SilenceTold /\ ChangeTold /\ Earned
  /\ pc = "threw" => plan.rejected

LEMMA EarlyTold ==
  ASSUME Inv, Told, pc \in Gathering, pc' \in Gathering \cup {"select", "done"},
         Kinds', reasons \subseteq reasons',
         UNCHANGED <<verdict, chosen, stop>>, IncompleteTold', CapTold'
  PROVE  Told'
  <1>1. chosen = {} /\ Stale = {}  BY DEF Inv, StagesFit, Untouched
  <1>2. Stale' = {} /\ Earned' /\ ChangeTold'  BY <1>1 DEF Stale, Earned, ChangeTold, Gathering
  <1>3. StopTold' /\ SilenceTold'  BY DEF Told, StopTold, SilenceTold, Gathering
  <1> QED  BY <1>2, <1>3 DEF Told, Gathering

\* Most of these steps lose nothing that is not told already.
LEMMA EarlyLosesNothing ==
  ASSUME Inv, Told, pc \in Gathering, pc' \in Gathering \cup {"select", "done"},
         pc' = "measure" => pc \in Planning, pc' \in {"evaluate", "select"} => pc \in Planning,
         score' \in [Fragments -> Nat], cached' \in [Fragments \X Contents -> Nat],
         reasons \subseteq reasons',
         UNCHANGED <<verdict, chosen, stop, plan, prepared>>
  PROVE  Told'
  <1>1. Kinds' /\ IncompleteTold' /\ CapTold'
    BY DEF Told, Kinds, IncompleteTold, CapTold, Planning, Selecting, Gathering
  <1> QED  BY <1>1, EarlyTold

LEMMA PreparesTold ==
  ASSUME Inv, Told, Prepares
  PROVE  Told'
  <1> USE DEF Gathering, Planning, Selecting, failing, Is, Goto, source, scoring, selection, walk, answer
  <1>0. score \in [Fragments -> Nat] /\ cached \in [Fragments \X Contents -> Nat]
        /\ prepared \in [inventory : BOOLEAN, complete : BOOLEAN, unreadable : Nat]
        /\ (prepared.complete => prepared.unreadable = 0)
    BY DEF Told, Kinds
  <1>1. ASSUME NEW L, NEW ok \in BOOLEAN, Inventory(L, ok) PROVE Told'
    <2>1. Kinds' /\ IncompleteTold' /\ CapTold'
      BY <1>0, <1>1 DEF Inventory, Kinds, IncompleteTold, Told, CapTold
    <2> QED  BY <1>1, <2>1, EarlyTold DEF Inventory
  <1>2. ASSUME NEW x \in Files, PrepareFile(x) PROVE Told'
    BY <1>0, <1>2, EarlyLosesNothing DEF PrepareFile
  <1>3. ASSUME NEW x \in Files, FileUnreadable(x) PROVE Told'
    <2>3. prepared' = [prepared EXCEPT !.complete = FALSE, !.unreadable = prepared.unreadable + 1]
          /\ UNCHANGED <<score, cached>>
      BY <1>3 DEF FileUnreadable
    <2>4. prepared' \in [inventory : BOOLEAN, complete : BOOLEAN, unreadable : Nat]
          /\ prepared'.complete = FALSE
      <3>1. prepared' = [inventory |-> prepared.inventory, complete |-> FALSE,
                         unreadable |-> prepared.unreadable + 1]
        BY <1>0, <2>3
      <3> QED  BY <1>0, <3>1
    <2>1. Kinds'  BY <1>0, <2>3, <2>4 DEF Kinds
    <2>2. IncompleteTold' /\ CapTold'  BY <1>3 DEF FileUnreadable, IncompleteTold, Told, CapTold
    <2> QED  BY <1>3, <2>1, <2>2, EarlyTold DEF FileUnreadable
  <1>4. CASE StopPreparing
    <2>1. Kinds'  BY <1>0, <1>4 DEF StopPreparing, Kinds
    <2>2. IncompleteTold' /\ CapTold'  BY <1>4 DEF StopPreparing, IncompleteTold, Told, CapTold
    <2> QED  BY <1>4, <2>1, <2>2, EarlyTold DEF StopPreparing
  <1>5. ASSUME NEW hits, PreparationEnds(hits) PROVE Told'
    <2>1. score' \in [Fragments -> Nat]
      <3>1. \A f \in hits : f \in Fragments /\ Key(f) \in Fragments \X Contents
        <4> SUFFICES ASSUME NEW f \in hits PROVE f \in Fragments /\ Key(f) \in Fragments \X Contents
          OBVIOUS
        <4>1. f \in Fragments /\ snap[f.file] # None  BY <1>5 DEF PreparationEnds, Prepared
        <4>2. f.file \in Files  BY <4>1, SelectionAssumption
        <4>3. snap[f.file] \in Contents  BY <4>1, <4>2 DEF Inv, Verdicts
        <4> QED  BY <4>1, <4>3 DEF Key
      <3>2. score' = [f \in Fragments |-> IF f \in hits THEN cached[Key(f)] ELSE 0]
        BY <1>5 DEF PreparationEnds
      <3> QED  BY <1>0, <3>1, <3>2
    <2>2. Kinds'  BY <1>0, <1>5, <2>1 DEF PreparationEnds, Kinds
    <2>3. IncompleteTold'  BY <1>5 DEF PreparationEnds, RecordPreparation, IncompleteTold
    <2>4. CapTold'  BY <1>5 DEF PreparationEnds, Told, CapTold
    <2> QED  BY <1>5, <2>2, <2>3, <2>4, EarlyTold DEF PreparationEnds
  <1>6. CASE MeasureAborts
    BY <1>0, <1>6, EarlyLosesNothing DEF MeasureAborts, Fails
  <1>7. ASSUME NEW cause, Refuse(cause) PROVE Told'
    BY <1>0, <1>7, EarlyLosesNothing DEF Refuse, Fails
  <1>8. ASSUME NEW p \in Preparations, ReusePreparation(p) PROVE Told'
    <2>1. Kinds'  BY <1>0, <1>8, SearchAssumption DEF ReusePreparation, Kinds
    <2>2. IncompleteTold' /\ CapTold'  BY <1>8 DEF ReusePreparation, IncompleteTold, Told, CapTold
    <2> QED  BY <1>8, <2>1, <2>2, EarlyTold DEF ReusePreparation
  <1>9. ASSUME NEW cause, PreparationRefused(cause) PROVE Told'
    BY <1>0, <1>9, EarlyLosesNothing DEF PreparationRefused, Fails
  <1> QED  BY <1>1, <1>2, <1>3, <1>4, <1>5, <1>6, <1>7, <1>8, <1>9 DEF Prepares

LEMMA EvaluatesTold ==
  ASSUME Inv, Told, Evaluates
  PROVE  Told'
  <1> USE DEF Gathering, Planning, Selecting, failing, Is, Goto, source, scoring, selection, walk, answer
  <1>0. score \in [Fragments -> Nat] /\ cached \in [Fragments \X Contents -> Nat]
    BY DEF Told, Kinds
  <1>1. ASSUME NEW sent, NEW lastCut, Plan(sent, lastCut) PROVE Told'
    <2>1. Kinds'  BY <1>0, <1>1 DEF Plan, Kinds, Told
    <2>2. IncompleteTold'  BY <1>1 DEF Plan, Told, IncompleteTold
    <2>3. CapTold'  BY <1>1 DEF Plan, CapTold
    <2>4. reasons \subseteq reasons' /\ pc = "measure" /\ pc' \in {"select", "evaluate"}
          /\ UNCHANGED <<verdict, chosen, stop>>
      BY <1>1 DEF Plan
    <2> QED  BY <2>1, <2>2, <2>3, <2>4, EarlyTold
  <1>2. ASSUME NEW f \in Fragments, NEW s \in Answers[f], NEW u, Answer(f, s, u) PROVE Told'
    <2>1. s \in Nat  BY SearchAssumption
    <2>2. score' \in [Fragments -> Nat] /\ cached' \in [Fragments \X Contents -> Nat]
      BY <1>0, <1>2, <2>1 DEF Answer
    <2> QED  BY <1>2, <2>2, EarlyLosesNothing DEF Answer
  <1>3. ASSUME NEW f, NEW code, NoAnswer(f, code) PROVE Told'
    BY <1>0, <1>3, EarlyLosesNothing DEF NoAnswer
  <1>4. ASSUME NEW retried, CapInAdmission(retried) PROVE Told'
    BY <1>0, <1>4, EarlyLosesNothing DEF CapInAdmission
  <1>5. CASE AdmissionRefused
    BY <1>0, <1>5, EarlyLosesNothing DEF AdmissionRefused, Fails
  <1>6. ASSUME NEW abandoned, EvaluationEnds(abandoned) PROVE Told'
    BY <1>0, <1>6, EarlyLosesNothing DEF EvaluationEnds
  <1> QED  BY <1>1, <1>2, <1>3, <1>4, <1>5, <1>6 DEF Evaluates

\* From the selection on nothing is prepared, planned or scored.
settled == <<snap, score, cached, request, prepared, plan>>

LEMMA LateTold ==
  ASSUME Told, pc \in Selecting, pc' \in Selecting \cup {"done", "threw"},
         pc' # "render" \/ pc = "render", pc' # "threw",
         reasons \subseteq reasons', UNCHANGED <<settled, stop>>, ChangeTold', Earned'
  PROVE  Told'
  <1> USE DEF settled
  <1>1. Kinds'  BY DEF Told, Kinds
  <1>2. IncompleteTold' /\ StopTold' /\ CapTold'
    BY DEF Told, IncompleteTold, StopTold, CapTold, Selecting, Planning
  <1>3. SilenceTold'  BY DEF Told, SilenceTold, NotEvaluated, Prepared, Scored
  <1> QED  BY <1>1, <1>2, <1>3 DEF Told

\* Of scores, the greatest is one of them and no less than any.
LEMMA MaxOfScores ==
  ASSUME NEW S, IsFiniteSet(S), \A r \in S : r.score \in Nat, NEW k \in Nat
  PROVE  /\ Max({k} \cup {r.score : r \in S}) \in Nat
         /\ Max({k} \cup {r.score : r \in S}) >= k
  <1> DEFINE All(A) == {k} \cup {r.score : r \in A}
             T == {A \in SUBSET S : \E m \in All(A) : \A y \in All(A) : m >= y}
  <1>0. \A A \in SUBSET S : All(A) \subseteq Nat  OBVIOUS
  <1>1. {} \in T
    <2>1. \A y \in All({}) : y = k  OBVIOUS
    <2>2. k \in All({})  OBVIOUS
    <2> QED  BY <2>1, <2>2
  <1>2. ASSUME NEW A \in T, NEW x \in S \ A PROVE A \cup {x} \in T
    <2>1. PICK m \in All(A) : \A y \in All(A) : m >= y  OBVIOUS
    <2>2. All(A \cup {x}) = All(A) \cup {x.score}  OBVIOUS
    <2>3. A \cup {x} \in SUBSET S /\ A \in SUBSET S  OBVIOUS
    <2>4. m \in Nat /\ x.score \in Nat  BY <1>0, <2>1, <2>3
    <2>5. All(A) \subseteq Nat  BY <1>0, <2>3
    <2> HIDE DEF All
    <2>6. CASE m >= x.score  BY <2>1, <2>2, <2>3, <2>6
    <2>7. CASE x.score >= m
      <3>1. \A y \in All(A) : x.score >= y  BY <2>1, <2>4, <2>5, <2>7
      <3>2. \A y \in All(A \cup {x}) : x.score >= y  BY <2>2, <2>4, <3>1
      <3>3. x.score \in All(A \cup {x})  BY <2>2
      <3> QED  BY <2>3, <3>2, <3>3
    <2> QED  BY <2>4, <2>6, <2>7
  <1>3. T \subseteq SUBSET S  OBVIOUS
  <1> HIDE DEF T
  <1>4. S \in T  BY <1>1, <1>2, <1>3, SetInduction
  <1>5. PICK m \in All(S) : \A y \in All(S) : m >= y  BY <1>4 DEF T
  <1>6. Max(All(S)) \in All(S) /\ \A y \in All(S) : Max(All(S)) >= y  BY <1>5 DEF Max
  <1>7. k \in All(S)  OBVIOUS
  <1> QED  BY <1>0, <1>6, <1>7

\* A range that is made larger is earned by the fragment it is made larger for.
LEMMA CommitEarns ==
  ASSUME Fitting, Told, NEW f \in Qualifying, NEW span \in Lines \X Lines,
         span[1] <= f.first, f.last <= span[2],
         chosen' = Committed(chosen, Offered(chosen, f, span, score)),
         UNCHANGED settled
  PROVE  Earned'
  <1> USE DEF settled
  <1> DEFINE near == Near(chosen, f, span)
             u == Union(near, f, span, score)
  <1>1. chosen' = (chosen \ near) \cup {u}  BY DEF Committed, Offered
  <1>2. f \in Fragments /\ score[f] \in Nat /\ score[f] >= Threshold
    BY DEF Qualifying, Above, Scored, Prepared, Told, Kinds
  <1>3. Qualifying' = Qualifying
    BY DEF Qualifying, Above, Scored, Prepared, Before, Key
  <1>4. \A r \in near : IsRange(r) /\ r.score \in Nat /\ r \in chosen
    BY DEF Near, Fitting, RangeSet, Told, Earned
  <1>5. IsFiniteSet(near)
    <2>1. near \in SUBSET chosen  BY DEF Near
    <2> QED  BY <2>1, FS_Subset DEF Fitting, RangeSet
  <1>6. u.score = Max({score[f]} \cup {r.score : r \in near})  BY DEF Union
  <1>7. span[1] <= span[2]
    <2>1. f.first \in Lines /\ f.last \in Lines /\ f.first <= f.last  BY <1>2, SelectionAssumption
    <2>2. span[1] \in Lines /\ span[2] \in Lines  OBVIOUS
    <2> QED  BY <2>1, <2>2 DEF Lines
  <1> HIDE DEF near
  <1>8. u.file = f.file /\ u.first <= span[1] /\ span[2] <= u.last /\ IsRange(u)
    BY <1>2, <1>4, <1>7, UnionSpans
  <1> HIDE DEF u
  <1>9. u.score \in Nat /\ u.score >= score[f]  BY <1>2, <1>4, <1>5, <1>6, MaxOfScores
  <1>10. u.score >= Threshold  BY <1>2, <1>9, SearchAssumption
  <1>11. Covers(u, f)
    <2>1. f.first \in Lines /\ f.last \in Lines  BY <1>2, SelectionAssumption
    <2>2. span[1] \in Lines /\ span[2] \in Lines  OBVIOUS
    <2> QED  BY <1>8, <2>1, <2>2 DEF Covers, IsRange, Lines
  <1> QED  BY <1>1, <1>3, <1>9, <1>10, <1>11 DEF Told, Earned

\* The walk: what was stale stays so, and nothing else is found.
LEMMA WalkTold ==
  ASSUME Inv, Inv', Told, pc = "walk", pc' \in {"walk", "check"}, Earned',
         UNCHANGED <<settled, verdict, stop, reasons>>
  PROVE  Told'
  <1>1. Stale' = Stale /\ Read' = Read  BY DEF Stale, Read, settled
  <1>2. ChangeTold'
    BY <1>1 DEF Told, ChangeTold, Selecting
  <1> QED  BY <1>2, LateTold DEF Selecting

\* What Pick commits is the offer of its candidate, as if it were computed now.
LEMMA PickedPlan ==
  ASSUME Fitting, NEW f \in Fragments, Pick(f)
  PROVE  chosen' = Committed(chosen, Offered(chosen, f, Own(f), score))
  <1>1. f \in queue  BY DEF Pick
  <1>2. Planned[f] = Offered(chosen, f, Own(f), score)
    BY <1>1 DEF Planned, Fitting, PlansTrue
  <1> QED  BY <1>2 DEF Pick

LEMMA SelectsTold ==
  ASSUME Inv, Inv', Fitting, Told, Selects
  PROVE  Told'
  <1> USE DEF Is, Goto, source, scoring, walk, answer, caller, settled, Selecting
  <1>1. ASSUME NEW configured, BeginSelection(configured) PROVE Told'
    <2>1. Stale' = Stale /\ Read' = Read  BY <1>1 DEF BeginSelection, Stale, Read
    <2>2. Earned'  BY <1>1 DEF BeginSelection, Earned
    <2>3. ChangeTold'  BY <1>1, <2>1 DEF BeginSelection, WalkOn, Told, ChangeTold
    <2> QED  BY <1>1, <2>2, <2>3, LateTold DEF BeginSelection, WalkOn
  <1>2. ASSUME NEW f \in Fragments, Offer(f) PROVE Told'
    <2>1. f \in Qualifying  BY <1>2 DEF Offer, Inv, StagesFit
    <2>2. f.whole[1] <= f.first /\ f.last <= f.whole[2] /\ f.first <= f.first /\ f.last <= f.last
      BY SelectionAssumption DEF Lines
    <2>3. Earned'
      <3>1. CASE UNCHANGED chosen
        BY <1>2, <3>1
        DEF Offer, Told, Earned, Qualifying, Above, Scored, Prepared, Before, Key
      <3>2. CASE chosen' = Committed(chosen, Admission(chosen, used, f, score))
        <4>1. \/ chosen' = Committed(chosen, Offered(chosen, f, f.whole, score))
              \/ chosen' = Committed(chosen, Offered(chosen, f, Own(f), score))
          BY <3>2 DEF Admission
        <4>2. Own(f)[1] = f.first /\ Own(f)[2] = f.last  BY DEF Own
        <4>3. UNCHANGED settled  BY <1>2 DEF Offer
        <4> QED  BY <2>1, <2>2, <4>1, <4>2, <4>3, SpansOf, CommitEarns
      <3> QED  BY <1>2, <3>1, <3>2 DEF Offer
    <2> QED  BY <1>2, <2>3, WalkTold DEF Offer, WalkOn
  <1>3. ASSUME NEW f \in Fragments, Pick(f) PROVE Told'
    <2>1. f \in Qualifying  BY <1>3 DEF Pick, Inv, StagesFit
    <2>2. Own(f)[1] = f.first /\ Own(f)[2] = f.last /\ f.first <= f.first /\ f.last <= f.last
      BY SelectionAssumption DEF Own, Lines
    <2>3. UNCHANGED settled  BY <1>3 DEF Pick
    <2>4. Earned'  BY <1>3, <2>1, <2>2, <2>3, PickedPlan, SpansOf, CommitEarns
    <2> QED  BY <1>3, <2>4, WalkTold DEF Pick, WalkOn
  <1>4. CASE PicksEnd
    <2>1. Earned'
      BY <1>4 DEF PicksEnd, Told, Earned, Qualifying, Above, Scored, Prepared, Before, Key
    <2> QED  BY <1>4, <2>1, WalkTold DEF PicksEnd
  <1>5. ASSUME NEW x \in Files, CheckFile(x) PROVE Told'
    <2>1. Earned'
      BY <1>5 DEF CheckFile, Told, Earned, Qualifying, Above, Scored, Prepared, Before, Key
    <2>2. x \in Origins  BY <1>5 DEF CheckFile, Unchecked, Origins
    <2>3. Stale' \ Origins' = Stale \ Origins
      BY <1>5, <2>2 DEF CheckFile, Inv, Verdicts, Stale, Origins
    <2>4. ChangeTold'  BY <1>5, <2>3 DEF CheckFile, Told, ChangeTold
    <2> QED  BY <1>5, <2>1, <2>4, LateTold DEF CheckFile
  <1>6. CASE CheckEnds
    <2> USE <1>6 DEF CheckEnds
    <2>1. Earned'
      BY DEF Told, Earned, Qualifying, Above, Scored, Prepared, Before, Key
    <2>2. Stale' = Stale /\ Read' = Read  BY DEF Stale, Read
    <2>3. Stale \subseteq Read /\ round < Rounds
      BY RoundsSuffice DEF Inv, StagesFit
    <2>4. CASE \E r \in chosen : r.file \in Stale
      <3>1. "SOURCE_CHANGED" \in reasons' /\ pc' = "select"  BY <2>3, <2>4
      <3>2. ChangeTold'  BY <3>1 DEF ChangeTold
      <3> QED  BY <2>1, <3>1, <3>2, LateTold
    <2>5. CASE ~ \E r \in chosen : r.file \in Stale
      <3>1. Stale \ Origins = Stale  BY <2>5 DEF Origins
      <3>2. pc' = "report" /\ reasons' = reasons  BY <2>5
      <3>3. ChangeTold'  BY <2>2, <2>3, <3>1, <3>2 DEF Told, ChangeTold
      <3> QED  BY <2>1, <3>2, <3>3, LateTold
    <2> QED  BY <2>4, <2>5
  <1> QED  BY <1>1, <1>2, <1>3, <1>4, <1>5, <1>6 DEF Selects

-----------------------------------------------------------------------------
(* A report of a search that was not rejected satisfies its contract.      *)

Ready == Inv /\ Fitting /\ Told /\ pc = "render" /\ ~plan.rejected

LEMMA Parts ==
  ASSUME NEW S, IsFiniteSet(S), NEW R \in SUBSET S
  PROVE  /\ IsFiniteSet(R) /\ Cardinality(R) \in Nat /\ Cardinality(S) \in Nat
         /\ Cardinality(S \ R) \in Nat
         /\ Cardinality(S) = Cardinality(R) + Cardinality(S \ R)
         /\ Cardinality(R) <= Cardinality(S)
         /\ Cardinality(S) = 0 <=> S = {}
  <1>1. IsFiniteSet(R) /\ IsFiniteSet(S \ R) /\ Cardinality(R) <= Cardinality(S)  BY FS_Subset
  <1>2. R \cup (S \ R) = S /\ R \cap (S \ R) = {}  OBVIOUS
  <1>3. Cardinality(R \cup (S \ R))
          = Cardinality(R) + Cardinality(S \ R) - Cardinality(R \cap (S \ R))
    BY <1>1, FS_Union
  <1>4. Cardinality({}) = 0  BY FS_EmptySet
  <1>5. Cardinality(R) \in Nat /\ Cardinality(S) \in Nat /\ Cardinality(S \ R) \in Nat
    BY <1>1, FS_CardinalityType
  <1>6. Cardinality(S) = Cardinality(R) + Cardinality(S \ R)
    <2>1. Cardinality(R \cup (S \ R)) = Cardinality(S)  BY <1>2
    <2>2. Cardinality(R \cap (S \ R)) = 0  BY <1>2, <1>4
    <2> QED  BY <1>3, <1>5, <2>1, <2>2
  <1>7. Cardinality(S) = 0 <=> S = {}  BY FS_EmptySet
  <1> QED  BY <1>1, <1>5, <1>6, <1>7

LEMMA FragmentsFinite ==
  /\ IsFiniteSet(Prepared) /\ IsFiniteSet(Scored) /\ IsFiniteSet(Above)
  /\ Scored \subseteq Prepared /\ Above \subseteq Scored /\ Before \subseteq Above
  /\ StaleOnes \subseteq Qualifying
  <1>1. /\ Scored \subseteq Prepared /\ Above \subseteq Scored /\ Before \subseteq Above
        /\ StaleOnes \subseteq Qualifying /\ Prepared \subseteq Fragments
    BY DEF Scored, Above, Before, StaleOnes, Prepared
  <1>2. IsFiniteSet(Fragments)  BY SearchAssumption
  <1>3. IsFiniteSet(Prepared)  BY <1>1, <1>2, FS_Subset
  <1>4. IsFiniteSet(Scored)  BY <1>1, <1>3, FS_Subset
  <1>5. IsFiniteSet(Above)  BY <1>1, <1>4, FS_Subset
  <1> QED  BY <1>1, <1>3, <1>4, <1>5

\* Each range returned covers a fragment that no other covers.
LEMMA RangesRepresent ==
  ASSUME Ready
  PROVE  /\ \A r \in kept : \E f \in Represented(kept) : Covers(r, f)
         /\ IsFiniteSet(kept) /\ Cardinality(kept) <= Cardinality(Represented(kept))
  <1>1. kept \subseteq chosen /\ \A r \in chosen : verdict[r.file] = "fresh"
    BY DEF Ready, Inv, StagesFit, Reporting
  <1>2. ASSUME NEW r \in kept PROVE \E f \in Represented(kept) : Covers(r, f)
    <2>1. PICK f \in Qualifying : Covers(r, f)  BY <1>1 DEF Ready, Told, Earned
    <2>2. f.file \notin Stale  BY <1>1, <2>1 DEF Covers, Stale
    <2> QED  BY <2>1, <2>2 DEF Represented
  <1>3. IsFiniteSet(Represented(kept))
    <2>1. Represented(kept) \subseteq Above  BY DEF Represented, Qualifying
    <2> QED  BY <2>1, FragmentsFinite, FS_Subset
  <1> DEFINE g == [r \in kept |-> CHOOSE f \in Represented(kept) : Covers(r, f)]
  <1>4. \A r \in kept : g[r] \in Represented(kept) /\ Covers(r, g[r])  BY <1>2
  <1>5. g \in [kept -> Represented(kept)]  BY <1>2
  <1> HIDE DEF g
  <1>6. ASSUME NEW q \in kept, NEW r \in kept, g[q] = g[r] PROVE q = r
    <2>1. Covers(q, g[q]) /\ Covers(r, g[q])  BY <1>4, <1>6
    <2>2. IsRange(q) /\ IsRange(r) /\ Apart(q, r)  BY <1>1 DEF Ready, Fitting, RangeSet
    <2>3. g[q] \in Fragments
      BY <1>4 DEF Represented, Qualifying, Above, Scored, Prepared
    <2>4. g[q].first \in Lines /\ g[q].last \in Lines /\ g[q].first <= g[q].last
      BY <2>3, SelectionAssumption
    <2> QED  BY <2>1, <2>2, <2>4 DEF Covers, Apart, IsRange, Lines
  <1>7. g \in Injection(kept, Represented(kept))
    <2>1. DOMAIN g = kept  BY <1>5
    <2> QED  BY <1>5, <1>6, <2>1 DEF Injection, IsInjective
  <1> QED  BY <1>2, <1>3, <1>7, FS_Injection

\* A fragment above the threshold was delivered before, is represented, is stale or is
\* omitted, and only one of these.
LEMMA OmittedIs ==
  ASSUME Ready
  PROVE  /\ Omitted(kept) \in Nat
         /\ Cardinality(Above) = Cardinality(Represented(kept)) + Omitted(kept)
                                 + Cardinality(StaleOnes) + Cardinality(Before)
         /\ Cardinality(Represented(kept)) \in Nat /\ Cardinality(StaleOnes) \in Nat
         /\ Cardinality(Before) \in Nat /\ Cardinality(Above) \in Nat
  <1> DEFINE R == Represented(kept)
             Q == Qualifying
  <1>1. IsFiniteSet(Above) /\ Before \in SUBSET Above /\ Q = Above \ Before
    BY FragmentsFinite DEF Qualifying
  <1>2. StaleOnes \in SUBSET Q /\ R \in SUBSET (Q \ StaleOnes)
    BY DEF StaleOnes, Represented
  <1> HIDE DEF R, Q
  <1>3. Cardinality(Above) = Cardinality(Before) + Cardinality(Q)
        /\ Cardinality(Before) \in Nat /\ Cardinality(Above) \in Nat /\ IsFiniteSet(Q)
    BY <1>1, Parts, FS_Subset
  <1>4. Cardinality(Q) = Cardinality(StaleOnes) + Cardinality(Q \ StaleOnes)
        /\ Cardinality(StaleOnes) \in Nat /\ IsFiniteSet(Q \ StaleOnes)
        /\ Cardinality(Q) \in Nat
    BY <1>2, <1>3, Parts, FS_Subset
  <1>5. Cardinality(Q \ StaleOnes) = Cardinality(R) + Cardinality((Q \ StaleOnes) \ R)
        /\ Cardinality(R) \in Nat /\ Cardinality((Q \ StaleOnes) \ R) \in Nat
    BY <1>2, <1>4, Parts
  <1>6. Omitted(kept) = Cardinality(Above) - Cardinality(R) - Cardinality(StaleOnes)
                          - Cardinality(Before)
    BY DEF Omitted, R
  <1>7. Omitted(kept) = Cardinality((Q \ StaleOnes) \ R)  BY <1>3, <1>4, <1>5, <1>6
  <1> QED  BY <1>3, <1>4, <1>5, <1>6, <1>7 DEF R

LEMMA MaxOfNatural == ASSUME NEW n \in Nat PROVE Max({0, n}) = n
  <1>1. n \in {0, n} /\ \A y \in {0, n} : n >= y  OBVIOUS
  <1>2. \A x \in {0, n} : (\A y \in {0, n} : x >= y) => x = n  OBVIOUS
  <1>3. Max({0, n}) \in {0, n} /\ \A y \in {0, n} : Max({0, n}) >= y  BY <1>1 DEF Max
  <1> QED  BY <1>2, <1>3

LEMMA CountsBalance ==
  ASSUME Ready
  PROVE  CountsAgree(Report(kept))
  <1> DEFINE v == Report(kept)
  <1>1. /\ v.excerpts = kept /\ v.evaluated = Cardinality(Scored)
        /\ v.notEvaluated = Cardinality(NotEvaluated) /\ v.below = Cardinality(Scored \ Above)
        /\ v.above = Cardinality(Above) /\ v.represented = Cardinality(Represented(kept))
        /\ v.omitted = Max({0, Omitted(kept)}) /\ v.stale = Cardinality(StaleOnes)
        /\ v.before = Cardinality(Before) /\ v.total = Total /\ v.changed = Cardinality(Stale)
        /\ v.unreadable = prepared.unreadable /\ v.reasons = reasons
    BY DEF Report
  <1> HIDE DEF v
  <1>2. v.evaluated = v.below + v.above
    BY <1>1, FragmentsFinite, Parts
  <1>3. v.above = v.represented + v.omitted + v.stale + v.before
    BY <1>1, OmittedIs, MaxOfNatural
  <1>4. v.total # None => v.total = v.evaluated + v.notEvaluated /\ prepared.complete
    <2>1. Scored \in SUBSET Prepared /\ IsFiniteSet(Prepared)  BY FragmentsFinite
    <2>2. Cardinality(Prepared) = Cardinality(Scored) + Cardinality(NotEvaluated)
      BY <2>1, Parts DEF NotEvaluated
    <2> QED  BY <1>1, <2>2 DEF Total
  <1>5. v.unreadable > 0 => v.total = None
    BY <1>1 DEF Ready, Told, Kinds, Total
  <1>6. v.changed <= Cardinality(Read) /\ (v.changed = 0 <=> Stale = {}) /\ v.changed \in Nat
    <2>1. Stale \in SUBSET Read /\ IsFiniteSet(Read) /\ IsFiniteSet(Stale)
          /\ Cardinality(Stale) \in Nat
      BY StaleFinite DEF Ready, Inv, Told, ChangeTold
    <2> QED  BY <1>1, <2>1, FS_Subset, FS_EmptySet
  <1>7. v.evaluated + v.notEvaluated > 0 => Read # {}
    <2>1. ASSUME Read = {} PROVE Prepared = {}
      BY <2>1, SelectionAssumption DEF Prepared, Read
    <2>2. ASSUME Prepared = {} PROVE v.evaluated = 0 /\ v.notEvaluated = 0
      BY <1>1, <2>2, FragmentsFinite, FS_EmptySet DEF NotEvaluated
    <2> QED  BY <2>1, <2>2
  <1>8. v.stale > 0 => v.changed > 0
    <2>1. ASSUME Stale = {} PROVE StaleOnes = {}  BY <2>1 DEF StaleOnes
    <2> QED  BY <1>1, <1>6, <2>1, FS_EmptySet
  <1>9. v.changed > 0 => "SOURCE_CHANGED" \in v.reasons
    <2>1. Stale # {} => "SOURCE_CHANGED" \in reasons
      BY DEF Ready, Told, ChangeTold, Selecting
    <2> QED  BY <1>1, <1>6, <2>1
  <1>10. Cardinality(v.excerpts) <= v.represented  BY <1>1, RangesRepresent
  <1>11. v.represented = 0 <=> v.excerpts = {}
    <2>1. kept = {} => Represented(kept) = {}  BY DEF Represented
    <2>2. kept # {} => Represented(kept) # {}  BY RangesRepresent
    <2>3. Represented(kept) \subseteq Above  BY DEF Represented, Qualifying
    <2>4. IsFiniteSet(Represented(kept))  BY <2>3, FragmentsFinite, FS_Subset
    <2> QED  BY <1>1, <2>1, <2>2, <2>4, FS_EmptySet
  <1>12. CountsAgree(v)
    BY <1>2, <1>3, <1>4, <1>5, <1>6, <1>7, <1>8, <1>9, <1>10, <1>11 DEF CountsAgree
  <1> QED  BY <1>12 DEF v

\* Whatever a report lacks, it gives a reason.
LEMMA StatusBalances ==
  ASSUME Ready
  PROVE  StatusAgrees(Report(kept))
  <1> DEFINE v == Report(kept)
  <1>1. /\ v.fully = FullyScanned /\ v.status = Status /\ v.reasons = reasons
        /\ v.total = Total /\ v.notEvaluated = Cardinality(NotEvaluated)
        /\ v.unreadable = prepared.unreadable /\ v.changed = Cardinality(Stale)
        /\ v.evaluated = Cardinality(Scored)
    BY DEF Report
  <1> HIDE DEF v
  <1>2. /\ v.status = "complete" <=> FullyScanned
        /\ v.status = "error" => Scored = {} /\ reasons \cap Fatal # {}
        /\ v.status = "partial" => Scored # {} \/ reasons \cap Fatal = {}
    BY <1>1 DEF Status, Ready
  <1>3. Cardinality({}) = 0 /\ (v.evaluated = 0 <=> Scored = {})
    BY <1>1, FS_EmptySet, FragmentsFinite
  <1>4. FullyScanned => v.total # None /\ v.notEvaluated = 0 /\ v.unreadable = 0 /\ v.changed = 0
    BY <1>1, <1>3 DEF FullyScanned
  <1>5. ~FullyScanned => reasons # {}
    <2> SUFFICES ASSUME reasons = {} PROVE FullyScanned  OBVIOUS
    <2>1. prepared.complete  BY DEF Ready, Told, IncompleteTold, Planning, Selecting
    <2>2. Total # None
      BY <2>1, FragmentsFinite, FS_CardinalityType, SearchAssumption DEF Total
    <2>3. NotEvaluated = {}  BY DEF Ready, Told, SilenceTold
    <2>4. prepared.unreadable = 0  BY <2>1 DEF Ready, Told, Kinds
    <2>5. Stale = {}  BY DEF Ready, Told, ChangeTold, Selecting
    <2> QED  BY <2>2, <2>3, <2>4, <2>5 DEF FullyScanned, Ready, Harmless
  <1>6. FullyScanned => reasons \subseteq Harmless  BY DEF FullyScanned
  <1>7. v.status = "partial" /\ v.evaluated = 0 => reasons \cap Fatal = {}  BY <1>2, <1>3
  <1>8. v.status = "partial" /\ v.evaluated = 0 =>
          /\ "PROVIDER_AUTH" \notin v.reasons
          /\ v.reasons \cap {"PROVIDER_UNAVAILABLE", "INVALID_PROVIDER_RESPONSE"} = {}
    BY <1>1, <1>7 DEF Fatal
  <1>9. IF v.status = "complete" THEN v.reasons \subseteq Harmless ELSE v.reasons # {}
    BY <1>1, <1>2, <1>5, <1>6
  <1>10. v.fully <=> FullyScanned  BY <1>1
  <1>11. StatusAgrees(v)
    BY <1>1, <1>2, <1>3, <1>4, <1>8, <1>9, <1>10 DEF StatusAgrees
  <1> QED  BY <1>11 DEF v

LEMMA OutcomeBalances ==
  ASSUME Ready
  PROVE  OutcomeAgrees(Report(kept)) /\ RejectionAgrees(Report(kept))
  <1> DEFINE v == Report(kept)
  <1>1. /\ v.status = Status /\ v.outcome = Outcome(kept) /\ v.excerpts = kept
        /\ v.total = Total /\ v.above = Cardinality(Above)
        /\ v.stale = Cardinality(StaleOnes) /\ v.evaluated = Cardinality(Scored)
    BY DEF Report
  <1> HIDE DEF v
  <1>2. v.status # "rejected" /\ ~plan.rejected  BY <1>1 DEF Status, Ready
  <1>3. (v.evaluated = 0 <=> Scored = {}) /\ (v.above = 0 <=> Above = {})
    BY <1>1, FragmentsFinite, FS_EmptySet
  <1>4. v.stale = 0 <=> StaleOnes = {}
    <2>1. StaleOnes \in SUBSET Above  BY DEF StaleOnes, Qualifying
    <2> QED  BY <1>1, <2>1, FragmentsFinite, FS_Subset, FS_EmptySet
  <1>5. v.above # 0 => (v.stale = v.above <=> StaleOnes # {} /\ v.stale = v.above)
    BY <1>4
  <1>6. OutcomeAgrees(v)
    BY <1>1, <1>2, <1>3, <1>5 DEF OutcomeAgrees, Outcome
  <1> QED  BY <1>2, <1>6 DEF RejectionAgrees, v

LEMMA ExcerptsBalance ==
  ASSUME Ready
  PROVE  ExcerptsAgree(Report(kept))
  <1> DEFINE v == Report(kept)
  <1>1. v.excerpts = kept  BY DEF Report
  <1> HIDE DEF v
  <1>2. kept \subseteq chosen  BY DEF Ready, Inv, StagesFit
  <1>3. \A r \in kept : r.score >= Threshold  BY <1>2 DEF Ready, Told, Earned
  <1>4. ASSUME NEW q \in kept, NEW r \in kept,
               <<q.file, q.first, q.last>> = <<r.file, r.first, r.last>>
        PROVE  q = r
    <2>1. IsRange(q) /\ IsRange(r) /\ Apart(q, r)
      BY <1>2 DEF Ready, Fitting, RangeSet
    <2>2. q.file = r.file /\ q.first = r.first /\ q.last = r.last  BY <1>4
    <2> QED  BY <2>1, <2>2 DEF Apart, IsRange, Lines
  <1>5. Cardinality({r.file : r \in kept}) <= Cardinality(Read)
    <2>1. \A r \in kept : r.file \in Read
      <3> SUFFICES ASSUME NEW r \in kept PROVE r.file \in Read  OBVIOUS
      <3>1. PICK f \in Qualifying : Covers(r, f)  BY <1>2 DEF Ready, Told, Earned
      <3>2. f \in Fragments /\ snap[f.file] # None /\ r.file = f.file
        BY <3>1 DEF Qualifying, Above, Scored, Prepared, Covers
      <3> QED  BY <3>2, SelectionAssumption DEF Read
    <2>2. {r.file : r \in kept} \in SUBSET Read  BY <2>1
    <2>3. IsFiniteSet(Read)  BY StaleFinite DEF Ready, Inv
    <2> QED  BY <2>2, <2>3, FS_Subset
  <1>6. ExcerptsAgree(v)  BY <1>1, <1>3, <1>4, <1>5 DEF ExcerptsAgree
  <1> QED  BY <1>6 DEF v

LEMMA ReportIsValid ==
  ASSUME Ready
  PROVE  Valid(Report(kept))
  BY CountsBalance, StatusBalances, OutcomeBalances, ExcerptsBalance DEF Valid

LEMMA RendersTold ==
  ASSUME Inv, Fitting, Told, Renders
  PROVE  Told'
  <1> USE DEF Is, Goto, source, scoring, walk, answer, caller, settled, Selecting, reported
  <1>1. ASSUME NEW size, NEW late, BeginReport(size, late) PROVE Told'
    <2> USE <1>1 DEF BeginReport
    <2>1. Qualifying' = Qualifying /\ Stale' = Stale /\ Read' = Read /\ NotEvaluated' = NotEvaluated
      BY DEF Qualifying, Above, Scored, Prepared, Before, Key, Stale, Read, NotEvaluated
    <2>2. Kinds' /\ Earned'  BY <2>1 DEF Told, Kinds, Earned
    <2>3. ChangeTold' /\ CapTold' /\ StopTold'
      BY <2>1 DEF Told, ChangeTold, CapTold, StopTold
    <2>4. IncompleteTold'  BY DEF Told, IncompleteTold, Planning
    <2>5. SilenceTold'
      <3> SUFFICES ASSUME ~plan.rejected, NotEvaluated # {} PROVE reasons' # {}
        BY <2>1 DEF SilenceTold
      <3> QED  BY DEF Told, StopTold, CapTold
    <2> QED  BY <2>2, <2>3, <2>4, <2>5 DEF Told
  <1>2. ASSUME pc = "render", UNCHANGED <<disk, cached, searches, request, source, stop, reasons,
                 scoring, walk, verdict, round>>,
               pc' \in {"render", "done"} \/ (pc' = "threw" /\ plan.rejected)
        PROVE  Told'
    <2>1. Qualifying' = Qualifying /\ Stale' = Stale /\ Read' = Read /\ NotEvaluated' = NotEvaluated
      BY <1>2 DEF Qualifying, Above, Scored, Prepared, Before, Key, Stale, Read, NotEvaluated
    <2>2. Kinds' /\ Earned' /\ ChangeTold'
      BY <1>2, <2>1 DEF Told, Kinds, Earned, ChangeTold
    <2>3. CapTold' /\ StopTold' /\ IncompleteTold' /\ SilenceTold'
      BY <1>2, <2>1 DEF Told, CapTold, StopTold, IncompleteTold, SilenceTold, Planning
    <2> QED  BY <1>2, <2>2, <2>3 DEF Told
  <1>3. ASSUME pc = "render", NEW v, v = Report(kept), Throw(v) PROVE Told'
    <2>1. plan.rejected  BY <1>3, ReportIsValid DEF Throw, Ready
    <2> QED  BY <1>2, <1>3, <2>1 DEF Throw
  <1>4. ASSUME pc = "render", NEW v, Return(v) \/ EndContinuation(v) \/ TooSmall(v)
                                     \/ \E r \in kept : RemoveRange(v, r)
        PROVE  Told'
    <2>1. UNCHANGED <<disk, cached, searches, request, source, stop, reasons, scoring, walk,
                      verdict, round>>
      BY <1>4 DEF Return, EndContinuation, TooSmall, RemoveRange, Fails
    <2>2. pc' \in {"render", "done"} \/ (pc' = "threw" /\ plan.rejected)
      BY <1>4 DEF Return, EndContinuation, TooSmall, RemoveRange, Fails
    <2>3. pc = "render"  BY <1>4
    <2> QED  BY <1>2, <2>1, <2>2, <2>3
  <1> QED  BY <1>1, <1>3, <1>4 DEF Renders

LEMMA NextTold ==
  ASSUME Inv, Inv', Fitting, Told, [Next]_vars
  PROVE  Told'
  <1> USE DEF source, scoring, selection, walk, answer, caller
  <1>1. ASSUME UNCHANGED <<cached, caller, pc, source, scoring, verdict, chosen>>,
               (stop' = stop /\ reasons' = reasons)
                 \/ (pc \in Gathering \cup {"report"} /\ stop' \in reasons' /\ reasons \subseteq reasons')
        PROVE  Told'
    <2>1. Qualifying' = Qualifying /\ Stale' = Stale /\ Read' = Read /\ Origins' = Origins
          /\ NotEvaluated' = NotEvaluated
      BY <1>1 DEF Qualifying, Above, Scored, Prepared, Before, Key, Stale, Read, NotEvaluated, Origins
    <2>2. Kinds' /\ Earned'  BY <1>1, <2>1 DEF Told, Kinds, Earned
    <2>3. ChangeTold'  BY <1>1, <2>1 DEF Told, ChangeTold, Gathering, Selecting
    <2>4. CapTold' /\ StopTold' /\ IncompleteTold' /\ SilenceTold'
      BY <1>1, <2>1 DEF Told, CapTold, StopTold, IncompleteTold, SilenceTold, Gathering
    <2> QED  BY <1>1, <2>2, <2>3, <2>4 DEF Told
  <1>2. ASSUME NEW x, NEW c, Edit(x, c) PROVE Told'
    <2>1. UNCHANGED <<cached, caller, pc, source, scoring, verdict, chosen>>
      BY <1>2 DEF Edit
    <2>2. (stop' = stop /\ reasons' = reasons)
            \/ (pc \in Gathering \cup {"report"} /\ stop' \in reasons' /\ reasons \subseteq reasons')
      BY <1>2 DEF Edit
    <2> QED  BY <1>1, <2>1, <2>2
  <1>3. ASSUME NEW k, Stop(k) PROVE Told'
    <2>1. UNCHANGED <<cached, caller, pc, source, scoring, verdict, chosen>>
          /\ pc \in Gathering \cup {"report"} /\ stop' \in reasons' /\ reasons \subseteq reasons'
      BY <1>3 DEF Stop, Is, Gathering
    <2> QED  BY <1>1, <2>1
  <1>4. CASE UNCHANGED vars
    <2>1. UNCHANGED <<cached, caller, pc, source, scoring, verdict, chosen>>
      BY <1>4 DEF vars
    <2>2. (stop' = stop /\ reasons' = reasons)
            \/ (pc \in Gathering \cup {"report"} /\ stop' \in reasons' /\ reasons \subseteq reasons')
      BY <1>4 DEF vars
    <2> QED  BY <1>1, <2>1, <2>2
  <1>5. ASSUME NEW partial, NEW capped, NEW token, Ask(partial, capped, token) PROVE Told'
    <2>1. Kinds' /\ Earned'  BY <1>5 DEF Ask, Told, Kinds, Earned
    <2>2. IncompleteTold' /\ StopTold' /\ CapTold' /\ SilenceTold' /\ ChangeTold'
      BY <1>5 DEF Ask, Goto, IncompleteTold, StopTold, CapTold, SilenceTold, ChangeTold, Planning, Selecting
    <2> QED  BY <1>5, <2>1, <2>2 DEF Ask, Goto, Told
  <1> QED
    BY <1>2, <1>3, <1>4, <1>5, PreparesTold, EvaluatesTold, SelectsTold, RendersTold DEF Next, Steps

LEMMA InitTold == Init => Told
  <1> SUFFICES ASSUME Init PROVE Told  OBVIOUS
  <1>1. cached \in [Fragments \X Contents -> Nat]
    <2> SUFFICES ASSUME NEW k \in Fragments \X Contents, k \in given
                 PROVE  (CHOOSE s \in Answers[k[1]] : s >= Threshold) \in Nat
      BY DEF Init
    <2>1. \E s \in Answers[k[1]] : s >= Threshold  BY SearchAssumption DEF Init
    <2>2. Answers[k[1]] \subseteq Nat  BY SearchAssumption
    <2> QED  BY <2>1, <2>2
  <1>2. Kinds /\ Earned  BY <1>1 DEF Init, Kinds, Earned
  <1>3. IncompleteTold /\ StopTold /\ CapTold /\ SilenceTold /\ ChangeTold
    BY DEF Init, IncompleteTold, StopTold, CapTold, SilenceTold, ChangeTold, Planning, Selecting
  <1> QED  BY <1>2, <1>3 DEF Init, Told

\* A search whose plan was not rejected never throws: its report satisfies the contract
\* of validateResult, whatever was lost, changed, stopped or removed.
THEOREM ReportsDoBalance == Spec => []ReportsBalance
  <1>1. Init => Inv /\ Fitting /\ Told
    BY InitHolds, FittingHolds, InitTold
  <1>2. Inv /\ Fitting /\ Told /\ [Next]_vars => (Inv /\ Fitting /\ Told)'
    BY NextKeeps, NextFits, NextTold
  <1>3. Told => ReportsBalance  BY DEF Told, ReportsBalance
  <1> QED  BY <1>1, <1>2, <1>3, PTL DEF Spec
=============================================================================
