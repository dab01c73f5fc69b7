----------------------------- MODULE SourceProofs -----------------------------
(***************************************************************************)
(* Theorems of SourceAccess, Preparation and Chunking.                     *)
(*                                                                         *)
(* SourceAccess, for any tree, any links and any number of writes: the     *)
(* loss of the root is final, and a read returns the whole of one version  *)
(* of one file, which the path inside the pinned root stood for during the *)
(* call unless directories were exchanged three times.                     *)
(*                                                                         *)
(* The chain is checked three times, and each time from the root down.     *)
(* Where the file was in its place while one of these checks passed over   *)
(* it, it was seen there; where it was not, a directory above it had been  *)
(* exchanged since that check began.  The counting (Counted) is of these.  *)
(*                                                                         *)
(* Preparation, for any tree, any ignore files and any scope: a complete   *)
(* preparation has met every file nobody touched, its counts fit, and on   *)
(* an undisturbed tree exactly the eligible files are prepared, in order.  *)
(*                                                                         *)
(* A file that is asked for is settled, or the next path on the way to it  *)
(* is still to come: in the scope, in a directory being walked, in the     *)
(* order, or read ahead (Covers and CompletenessKept).                     *)
(*                                                                         *)
(* Chunking, for any file, any tree and any limits: every line that is     *)
(* not blank is in a fragment, and every fragment keeps to the limits.     *)
(* What is planned, what may still grow and what is left to plan take the  *)
(* lines of the file in turn (Tiles and Plans); so do the ranges left to   *)
(* cut, and the fragments cover the lines before the next window           *)
(* (ChunkingInv).                                                          *)
(***************************************************************************)
EXTENDS SourceAccess, Preparation, Chunking, SumTheorems, SequenceTheorems, FiniteSetTheorems, TLAPS

\* Where the call is, the attribute check that may come first aside.
Where == IF at \in {"attributes", "waiting"} THEN next ELSE at

Opening == {"ancestors", "canonical", "confirm"}
Walk    == {"anchor", "lstat", "real", "again"}
Reading == {"open", "fstat", "size", "block", "fstatAfter", "lstatAfter"}
Listing == {"readdir", "listed"}
Places  == Opening \cup Walk \cup Reading \cup Listing \cup {"chain", "recheck"}

Types ==
  /\ windows \in BOOLEAN
  /\ child \in [Dirs -> Objects \cup {None}]
  /\ version \in [FileObjs -> Nat] /\ \A f \in FileObjs : version[f] \in DOMAIN Size[f]
  /\ swaps \in 0 .. MaxSwaps
  /\ at \in Places \cup {"idle", "attributes", "waiting"}
  /\ at \in {"attributes", "waiting"} => next \in Places
  /\ anchor \in Dirs \cup {None}
  /\ k \in 1 .. 3
  /\ after \in {"walked", "opened", "read", "listed"}
  /\ op \in {"none", "open", "read", "list"}
  /\ chain \in Seq(Objects \X Nat)
  /\ blocks \in Seq(Nat)
  /\ lost \in BOOLEAN /\ invalidated \in BOOLEAN

\* What is known at each place.
Placed ==
  /\ at = "idle" => op = "none"
  /\ at # "idle" /\ Where \in Opening => anchor = None /\ op = "open"
  /\ at # "idle" /\ Where \notin Opening => anchor \in Dirs /\ op \in {"read", "list"}
  /\ Where \in {"canonical", "confirm"} => Len(chain) = 1 /\ chain[1][1] \in Dirs
  /\ Where \in {"lstat", "real", "again"} => k \in 2 .. Depth
  /\ Where = "anchor" => chain = <<>>
  /\ Where = "lstat" => Len(chain) = k - 2
  /\ Where \in {"real", "again"} => Len(chain) = k - 1
  /\ Where = "chain" => k \in 1 .. Depth
  /\ Where \in {"chain"} \cup Reading \cup Listing => Len(chain) = Depth - 1
  /\ Where \in Walk \cup {"open"} => after = "walked"
  /\ Where \in Reading => op = "read"
  /\ Where \in Listing => op = "list"
  /\ Where = "fstat" => after = "walked"
  /\ Where \in {"size", "block", "fstatAfter"} => after = "opened"
  /\ Where = "lstatAfter" => after = "read"
  /\ op = "read" => after # "listed"
  /\ op = "list" => after \in {"walked", "listed"}

\* The root is invalidated by the check that finds it gone.
Final == lost => invalidated /\ anchor \in Dirs

\* The descriptor and what was read from it.
Held ==
  /\ Where \in Walk \cup {"open"} \cup Opening \cup {"idle"} => blocks = <<>>
  /\ Where = "chain" /\ after \in {"walked", "opened"} => blocks = <<>>
  /\ Where = "size" => blocks = <<>>
  /\ Where = "fstat" => blocks = <<>> /\ fd \in FileObjs \X Nat
  /\ \/ Where \in {"size", "block", "fstatAfter", "lstatAfter"}
     \/ Where = "chain" /\ op = "read" /\ after \in {"opened", "read"}
     => fd \in FileObjs \X Nat /\ fd = chain[2] /\ fd[2] <= version[fd[1]] /\ fd[2] \in DOMAIN Size[fd[1]]
  /\ Where \in {"block", "fstatAfter"} =>
       \A i \in 1 .. Len(blocks) : fd[2] <= blocks[i] /\ blocks[i] <= version[fd[1]]
  /\ Where = "lstatAfter" \/ (Where = "chain" /\ op = "read" /\ after = "read") =>
       blocks = [i \in 1 .. Size[fd[1]][fd[2]] |-> fd[2]]

Whole == result.kind = "bytes" =>
  result.blocks = [i \in 1 .. Size[result.file[1]][result.file[2]] |-> result.file[2]]

Inv == Types /\ Placed /\ Final /\ Held /\ Whole

-----------------------------------------------------------------------------
(* The counting.                                                           *)

\* What the walk found under the last name is what it still is, a file, and
\* was seen in its place.
Witnessed ==
  chain[2][1] \in FileObjs /\ Stat(chain[2][1]) = chain[2] => chain[2] \in seen

\* How many times the chain was checked.
Rounds == (IF after = "walked" THEN 0 ELSE IF after = "opened" THEN 1 ELSE 2)
          + (IF Where = "chain" THEN 0 ELSE 1)

\* The directories that the running check has passed are as it found them.
Holding == /\ k >= 2 => child[Top] = anchor
           /\ k >= 3 => child[anchor] \in Dirs

\* What the path stands for is seen while a read runs.
Watched == op = "read" => Current \subseteq seen

\* The walk of a read went through a directory, and what it then found is not
\* newer than what there is.
OnTheWalk ==
  /\ op = "read" /\ Len(chain) >= 1 => chain[1][1] \in Dirs
  /\ op = "read" /\ Len(chain) >= 2 => chain[2][2] <= Stat(chain[2][1])[2]

Counted ==
  op = "read" /\ Where \in {"chain"} \cup Reading =>
    Witnessed \/ swaps >= Rounds + (IF Where = "chain" /\ ~Holding THEN 1 ELSE 0)

Seen == result.kind = "bytes" => result.file \in seen

CountInv == Watched /\ OnTheWalk /\ Counted /\ Seen

-----------------------------------------------------------------------------
(* Where a step leads.                                                     *)

LEMMA InitHolds == Init => Inv
  <1> SUFFICES ASSUME Init PROVE Inv  OBVIOUS
  <1> USE DEF Init
  <1>1. Where = "idle"  BY DEF Where
  <1>2. \A f \in FileObjs : version[f] \in Nat /\ version[f] \in DOMAIN Size[f]  BY AccessAssumption
  <1>3. chain \in Seq(Objects \X Nat) /\ blocks \in Seq(Nat)  OBVIOUS
  <1>9. Types
    <2>1. child \in [Dirs -> Objects \cup {None}] /\ version \in [FileObjs -> Nat] /\ swaps \in 0 .. MaxSwaps
      BY AccessAssumption
    <2>2. windows \in BOOLEAN /\ lost \in BOOLEAN /\ invalidated \in BOOLEAN  OBVIOUS
    <2>3. /\ at \in Places \cup {"idle", "attributes", "waiting"} /\ k \in 1 .. 3
          /\ at \in {"attributes", "waiting"} => next \in Places
          /\ after \in {"walked", "opened", "read", "listed"}
          /\ op \in {"none", "open", "read", "list"} /\ anchor \in Dirs \cup {None}
      OBVIOUS
    <2> HIDE DEF Init
    <2> QED  BY <1>2, <1>3, <2>1, <2>2, <2>3 DEF Types
  <1>4. Placed  BY <1>1 DEF Placed, Opening, Walk, Reading, Listing
  <1>5. Held  BY <1>1 DEF Held, Opening, Walk, Reading
  <1>6. Final /\ Whole  BY DEF Final, Whole, Refused
  <1> QED  BY <1>9, <1>4, <1>5, <1>6 DEF Inv

\* The attribute check in between does not change where the call goes.
LEMMA GotoLeads ==
  ASSUME Types, NEW p \in Places, NEW n, NEW w, Goto(p, n, w), windows' = windows
  PROVE  /\ Where' = p /\ at' # "idle" /\ k' = n /\ after' = w
         /\ at' \in Places \cup {"idle", "attributes", "waiting"}
         /\ at' \in {"attributes", "waiting"} => next' \in Places
  BY DEF Goto, Where, Types, Places, Opening, Walk, Reading, Listing

\* A call that ends leaves nothing open.
LEMMA EndKeeps ==
  ASSUME Inv, NEW r, End(r), UNCHANGED envVars, lost' \in BOOLEAN, invalidated' \in BOOLEAN,
         lost' => invalidated' /\ anchor \in Dirs,
         r.kind = "bytes" => r.blocks = [i \in 1 .. Size[r.file[1]][r.file[2]] |-> r.file[2]]
  PROVE  Inv'
  <1> USE DEF End, envVars
  <1>1. at' = "idle" /\ Where' = "idle"  BY DEF Where
  <1>2. Types'  BY <1>1 DEF Inv, Types
  <1>3. Placed'  BY <1>1 DEF Placed, Opening, Walk, Reading, Listing
  <1>4. Held'  BY <1>1 DEF Held, Opening, Walk, Reading
  <1>5. Final' /\ Whole'  BY DEF Inv, Final, Whole
  <1> QED  BY <1>2, <1>3, <1>4, <1>5 DEF Inv

LEMMA RefusedKeeps ==
  ASSUME Inv, UNCHANGED envVars, lost' \in BOOLEAN, lost' => invalidated' /\ anchor \in Dirs,
         Refuse \/ RefuseAnchor
  PROVE  Inv'
  <1>1. End(Refused) /\ Refused.kind = "refused"  BY DEF Refuse, RefuseAnchor, Refused
  <1>2. invalidated' \in BOOLEAN  BY DEF Refuse, RefuseAnchor, Inv, Types
  <1> QED  BY <1>1, <1>2, EndKeeps

\* A refusal looks at the anchor first.
LEMMA RecheckKeeps ==
  ASSUME Inv, UNCHANGED envVars, at # "idle", Where \notin Opening, NEW n \in 1 .. 2,
         lost' \in BOOLEAN, lost' => invalidated, Recheck(n)
  PROVE  Inv'
  <1> USE DEF Recheck, Still, readVars, envVars
  <1>1. "recheck" \in Places  BY DEF Places
  <1>2. Where' = "recheck" /\ at' # "idle" /\ k' = n /\ after' = after
    BY <1>1, GotoLeads DEF Inv
  <1>3. Types'  BY <1>1, GotoLeads DEF Inv, Types
  <1>4. Placed'  BY <1>2 DEF Inv, Placed, Opening, Walk, Reading, Listing
  <1>5. Held'  BY <1>2 DEF Held, Opening, Walk, Reading
  <1>6. Final' /\ Whole'  BY DEF Inv, Final, Whole, Placed
  <1> QED  BY <1>3, <1>4, <1>5, <1>6 DEF Inv

-----------------------------------------------------------------------------
(* Opening the root.                                                       *)

LEMMA OpenKeeps ==
  ASSUME Inv, Open
  PROVE  Inv'
  <1> USE DEF Open, Quiet, Fixed, envVars, readVars
  <1>1. "ancestors" \in Places /\ windows' = windows  BY DEF Places, Opening
  <1>2. Where' = "ancestors" /\ at' # "idle" /\ k' = 1 /\ after' = "opened"
    BY <1>1, GotoLeads DEF Inv
  <1>3. Types'  BY <1>1, GotoLeads DEF Inv, Types
  <1>4. Placed'  BY <1>2 DEF Placed, Opening, Walk, Reading, Listing
  <1>5. Where = "idle"  BY DEF Where
  <1>6. Held'  BY <1>2, <1>5 DEF Inv, Held, Opening, Walk, Reading
  <1>7. Final' /\ Whole'  BY AccessAssumption DEF Inv, Final, Whole, Objects
  <1> QED  BY <1>3, <1>4, <1>6, <1>7 DEF Inv

LEMMA StatTyped ==
  ASSUME Types, NEW x \in Objects
  PROVE  Stat(x) \in Objects \X Nat /\ Stat(x)[1] = x
  BY DEF Stat, Types

LEMMA OpenStepKeeps ==
  ASSUME Inv, OpenStep
  PROVE  Inv'
  <1> USE DEF Quiet, Fixed, Still, envVars, readVars
  <1>0. /\ UNCHANGED envVars /\ lost' = lost /\ lost \in BOOLEAN
        /\ Where = at /\ at # "idle" /\ anchor = None /\ op = "open"
    BY DEF OpenStep, Inv, Types, Placed, Opening, Where
  <1>1. CASE Refuse
    <2>1. invalidated' = invalidated  BY <1>1 DEF Refuse
    <2> QED  BY <1>0, <1>1, <2>1, RefusedKeeps DEF Inv, Final
  <1>2. ASSUME NEW p \in {"canonical", "confirm"}, Goto(p, 1, after), Still, UNCHANGED <<fd, blocks>>,
               chain' \in Seq(Objects \X Nat), Len(chain') = 1, chain'[1][1] \in Dirs
        PROVE  Inv'
    <2>1. p \in Places  BY DEF Places, Opening
    <2>2. Where' = p /\ at' # "idle" /\ k' = 1 /\ after' = after
      BY <1>0, <1>2, <2>1, GotoLeads DEF Inv
    <2>3. Types'  BY <1>0, <1>2, <2>1, GotoLeads DEF Inv, Types
    <2>4. Placed'  BY <1>0, <1>2, <2>2 DEF Placed, Opening, Walk, Reading, Listing
    <2>5. Held'  BY <1>0, <1>2, <2>2 DEF Inv, Held, Opening, Walk, Reading, OpenStep
    <2>6. Final' /\ Whole'  BY <1>0, <1>2 DEF Inv, Final, Whole
    <2> QED  BY <2>3, <2>4, <2>5, <2>6 DEF Inv
  <1>3. ASSUME at = "ancestors", Entry(1) \in Dirs, Goto("canonical", 1, after), chain' = <<Stat(Entry(1))>>,
               Still, UNCHANGED <<fd, blocks>>
        PROVE  Inv'
    <2>1. Stat(Entry(1)) \in Objects \X Nat /\ Stat(Entry(1))[1] = Entry(1)
      BY <1>3, StatTyped DEF Objects, Inv
    <2> QED  BY <1>2, <1>3, <2>1
  <1>4. ASSUME at = "canonical", Goto("confirm", 1, after), Still, UNCHANGED readVars
        PROVE  Inv'
    BY <1>0, <1>2, <1>4 DEF Inv, Types, Placed
  <1>5. ASSUME at = "confirm", at' = "idle", op' = "none", anchor' = chain[1][1], chain' = <<>>, after' = "walked",
               UNCHANGED <<next, k, fd, blocks, result, invalidated>>
        PROVE  Inv'
    <2>1. Where' = "idle"  BY <1>5 DEF Where
    <2>2. anchor' \in Dirs  BY <1>0, <1>5 DEF Inv, Placed
    <2>3. Types'  BY <1>0, <1>5, <2>2 DEF Inv, Types
    <2>4. Placed'  BY <1>5, <2>1 DEF Placed, Opening, Walk, Reading, Listing
    <2>5. Held'  BY <1>0, <1>5, <2>1 DEF Inv, Held, Opening, Walk, Reading
    <2>6. Final' /\ Whole'  BY <1>0, <1>5, <2>2 DEF Inv, Final, Whole
    <2> QED  BY <2>3, <2>4, <2>5, <2>6 DEF Inv
  <1> QED  BY <1>1, <1>3, <1>4, <1>5 DEF OpenStep

-----------------------------------------------------------------------------
(* The walk.                                                               *)

\* What every step after the opening knows.
LEMMA Underway ==
  ASSUME Inv, at # "idle", Where \notin Opening
  PROVE  anchor \in Dirs /\ op \in {"read", "list"} /\ anchor # None
  BY AccessAssumption DEF Inv, Placed, Objects

LEMMA BeginKeeps ==
  ASSUME Inv, NEW o \in {"read", "list"}, Begin(o)
  PROVE  Inv'
  <1> USE DEF Begin
  <1>0. Where = "idle" /\ windows' = windows /\ 0 \in 0 .. MaxSwaps /\ at = "idle"
    BY AccessAssumption DEF Where
  <1>1. Final' /\ Whole'  BY DEF Inv, Final, Whole, Refused
  <1>2. CASE invalidated
    <2>1. Where' = "idle"  BY <1>2 DEF Where
    <2>2. Types'  BY <1>0, <1>2 DEF Inv, Types, helperVars
    <2>3. Placed'  BY <1>2, <2>1 DEF Inv, Placed, Opening, Walk, Reading, Listing
    <2>4. Held'  BY <1>0, <2>1 DEF Inv, Held, Opening, Walk, Reading
    <2> QED  BY <1>1, <2>2, <2>3, <2>4 DEF Inv
  <1>3. CASE ~invalidated
    <2>1. "anchor" \in Places  BY DEF Places, Walk
    <2>2. Where' = "anchor" /\ at' # "idle" /\ k' = 1 /\ after' = "walked"
      BY <1>0, <1>3, <2>1, GotoLeads DEF Inv
    <2>3. Types'  BY <1>0, <1>3, <2>1, GotoLeads DEF Inv, Types, helperVars
    <2>4. anchor \in Dirs  BY DEF Inv, Types
    <2>5. Placed'  BY <1>3, <2>2, <2>4 DEF Placed, Opening, Walk, Reading, Listing
    <2>6. Held'  BY <1>0, <2>2 DEF Inv, Held, Opening, Walk, Reading
    <2> QED  BY <1>1, <2>3, <2>5, <2>6 DEF Inv
  <1> QED  BY <1>2, <1>3

LEMMA CheckAnchorKeeps ==
  ASSUME Inv, CheckAnchor
  PROVE  Inv'
  <1> USE DEF CheckAnchor, Fixed, LookAtRoot
  <1>0. /\ at # "idle" /\ Where = "anchor" /\ Where \notin Opening /\ UNCHANGED envVars
        /\ windows' = windows /\ lost' \in BOOLEAN
    BY DEF Where, Opening, envVars, Inv, Types
  <1>1. CASE RefuseAnchor
    BY <1>0, <1>1, Underway, RefusedKeeps DEF RefuseAnchor
  <1>2. ASSUME SameObject(anchor, 1), Goto("lstat", 2, after), Still, UNCHANGED readVars
        PROVE  Inv'
    <2> USE DEF Still, readVars, envVars
    <2>1. "lstat" \in Places  BY DEF Places, Walk
    <2>2. Where' = "lstat" /\ at' # "idle" /\ k' = 2 /\ after' = after
      BY <1>0, <1>2, <2>1, GotoLeads DEF Inv
    <2>3. Types'  BY <1>0, <1>2, <2>1, GotoLeads DEF Inv, Types
    <2>4. Placed'  BY <1>0, <1>2, <2>2, Underway DEF Inv, Placed, Opening, Walk, Reading, Listing, Depth
    <2>5. Held'  BY <1>0, <1>2, <2>2 DEF Inv, Held, Opening, Walk, Reading
    <2>6. Final' /\ Whole'  BY <1>2 DEF Inv, Final, Whole
    <2> QED  BY <2>3, <2>4, <2>5, <2>6 DEF Inv
  <1> QED  BY <1>1, <1>2

LEMMA LstatKeeps ==
  ASSUME Inv, Lstat
  PROVE  Inv'
  <1> USE DEF Lstat, Quiet, Fixed
  <1>0. /\ at # "idle" /\ Where = "lstat" /\ Where \notin Opening /\ UNCHANGED envVars
        /\ windows' = windows /\ lost' \in BOOLEAN /\ lost' = lost
    BY DEF Where, Opening, envVars, Inv, Types, LookAtRoot
  <1>1. ASSUME Recheck(1) PROVE Inv'
    BY <1>0, <1>1, RecheckKeeps DEF Inv, Final
  <1>2. ASSUME Entry(k) \in Dirs \/ (k = Depth /\ Entry(k) \in FileObjs), at' = "real",
               chain' = Append(chain, Stat(Entry(k))), Still, UNCHANGED <<next, k, after, fd, blocks>>
        PROVE  Inv'
    <2>0. Stat(Entry(k)) \in Objects \X Nat  BY <1>2, StatTyped DEF Inv, Objects
    <2> USE DEF Still, readVars, envVars
    <2>1. Where' = "real" /\ at' # "idle"  BY <1>0, <1>2 DEF Where
    <2>2. Types'  BY <1>0, <1>2, <2>0 DEF Inv, Types, Places, Walk, Reading, Listing
    <2>3. Placed'  BY <1>0, <1>2, <2>1, Underway DEF Inv, Placed, Types, Opening, Walk, Reading, Listing, Depth
    <2>4. Held'  BY <1>0, <1>2, <2>1 DEF Inv, Held, Opening, Walk, Reading
    <2>5. Final' /\ Whole'  BY <1>0, <1>2 DEF Inv, Final, Whole
    <2> QED  BY <2>2, <2>3, <2>4, <2>5 DEF Inv
  <1> QED  BY <1>1, <1>2

LEMMA RealpathKeeps ==
  ASSUME Inv, Realpath
  PROVE  Inv'
  <1> USE DEF Realpath, Quiet, Fixed
  <1>0. /\ at # "idle" /\ Where = "real" /\ Where \notin Opening /\ UNCHANGED envVars
        /\ windows' = windows /\ lost' \in BOOLEAN /\ lost' = lost
    BY DEF Where, Opening, envVars, Inv, Types, LookAtRoot
  <1>1. ASSUME Recheck(1) PROVE Inv'
    BY <1>0, <1>1, RecheckKeeps DEF Inv, Final
  <1>2. ASSUME at' = "again", Still, UNCHANGED <<next, k, after, readVars>>
        PROVE  Inv'
    <2> USE DEF Still, readVars, envVars
    <2>1. Where' = "again" /\ at' # "idle"  BY <1>0, <1>2 DEF Where
    <2>2. Types'  BY <1>0, <1>2 DEF Inv, Types, Places, Walk, Reading, Listing
    <2>3. Placed'  BY <1>0, <1>2, <2>1, Underway DEF Inv, Placed, Types, Opening, Walk, Reading, Listing, Depth
    <2>4. Held'  BY <1>0, <1>2, <2>1 DEF Inv, Held, Opening, Walk, Reading
    <2>5. Final' /\ Whole'  BY <1>0, <1>2 DEF Inv, Final, Whole
    <2> QED  BY <2>2, <2>3, <2>4, <2>5 DEF Inv
  <1> QED  BY <1>1, <1>2

LEMMA LstatAgainKeeps ==
  ASSUME Inv, LstatAgain
  PROVE  Inv'
  <1> USE DEF LstatAgain, Quiet, Fixed
  <1>0. /\ at # "idle" /\ Where = "again" /\ Where \notin Opening /\ UNCHANGED envVars
        /\ windows' = windows /\ lost' \in BOOLEAN /\ lost' = lost
    BY DEF Where, Opening, envVars, Inv, Types, LookAtRoot
  <1>1. ASSUME Recheck(1) PROVE Inv'
    BY <1>0, <1>1, RecheckKeeps DEF Inv, Final
  <1>2. ASSUME k < Depth, at' = "lstat", k' = k + 1, Still, UNCHANGED <<next, after, readVars>>
        PROVE  Inv'
    <2> USE DEF Still, readVars, envVars
    <2>1. Where' = "lstat" /\ at' # "idle"  BY <1>0, <1>2 DEF Where
    <2>2. Types'  BY <1>0, <1>2 DEF Inv, Types, Places, Walk, Reading, Listing, Placed, Depth
    <2>3. Placed'  BY <1>0, <1>2, <2>1, Underway DEF Inv, Placed, Types, Opening, Walk, Reading, Listing, Depth
    <2>4. Held'  BY <1>0, <1>2, <2>1 DEF Inv, Held, Opening, Walk, Reading
    <2>5. Final' /\ Whole'  BY <1>0, <1>2 DEF Inv, Final, Whole
    <2> QED  BY <2>2, <2>3, <2>4, <2>5 DEF Inv
  <1>3. ASSUME ~(k < Depth), Goto("chain", 1, after), Still, UNCHANGED readVars
        PROVE  Inv'
    <2> USE DEF Still, readVars, envVars
    <2>1. "chain" \in Places  BY DEF Places, Walk, Reading, Listing
    <2>2. Where' = "chain" /\ at' # "idle" /\ k' = 1 /\ after' = after
      BY <1>0, <1>3, <2>1, GotoLeads DEF Inv
    <2>3. Types'  BY <1>0, <1>3, <2>1, GotoLeads DEF Inv, Types
    <2>4. Placed'  BY <1>0, <1>3, <2>2, Underway DEF Inv, Placed, Opening, Walk, Reading, Listing, Depth
    <2>5. Held'  BY <1>0, <1>3, <2>2 DEF Inv, Held, Opening, Walk, Reading, Placed
    <2>6. Final' /\ Whole'  BY <1>0, <1>3 DEF Inv, Final, Whole
    <2> QED  BY <2>3, <2>4, <2>5, <2>6 DEF Inv
  <1> QED  BY <1>1, <1>2, <1>3

LEMMA CheckChainKeeps ==
  ASSUME Inv, CheckChain
  PROVE  Inv'
  <1> USE DEF CheckChain, Fixed
  <1>0. /\ at # "idle" /\ Where = "chain" /\ Where \notin Opening /\ UNCHANGED envVars
        /\ windows' = windows /\ lost' \in BOOLEAN
    BY DEF Where, Opening, envVars, Inv, Types, LookAtRoot
  <1>1. ASSUME Recheck(IF after = "walked" THEN 2 ELSE 1), lost' = lost PROVE Inv'
    BY <1>0, <1>1, RecheckKeeps DEF Inv, Final
  <1>2. CASE RefuseAnchor
    BY <1>0, <1>2, Underway, RefusedKeeps DEF RefuseAnchor
  <1>3. CASE ~SameObject(IF k = 1 THEN anchor ELSE chain[k - 1][1], k)
    BY <1>1, <1>2, <1>3
  <1>4. ASSUME lost' = lost, k < Depth, k' = k + 1, Still, UNCHANGED <<at, next, after, readVars>>
        PROVE  Inv'
    <2> USE DEF Still, readVars, envVars
    <2>1. Where' = "chain" /\ at' # "idle"  BY <1>0, <1>4 DEF Where, Inv, Types
    <2>2. Types'  BY <1>0, <1>4 DEF Inv, Types, Places, Walk, Reading, Listing, Placed, Depth
    <2>3. Placed'  BY <1>0, <1>4, <2>1, Underway DEF Inv, Placed, Types, Opening, Walk, Reading, Listing, Depth
    <2>4. Held'  BY <1>0, <1>4, <2>1 DEF Inv, Held, Opening, Walk, Reading
    <2>5. Final' /\ Whole'  BY <1>0, <1>4 DEF Inv, Final, Whole
    <2> QED  BY <2>2, <2>3, <2>4, <2>5 DEF Inv
  <1>5. ASSUME lost' = lost, k = Depth, at' = AfterChain, Still, UNCHANGED <<next, k, after, readVars>>
        PROVE  Inv'
    <2> USE DEF Still, readVars, envVars
    <2>1. \/ op = "list" /\ after = "walked" /\ at' = "readdir"
          \/ op = "list" /\ after = "listed" /\ at' = "listed"
          \/ op = "read" /\ after = "walked" /\ at' = "open"
          \/ op = "read" /\ after = "opened" /\ at' = "size"
          \/ op = "read" /\ after = "read" /\ at' = "lstatAfter"
      BY <1>0, <1>5, Underway DEF Inv, Types, Placed, AfterChain
    <2>2. Where' = at'  BY <2>1 DEF Where
    <2>3. Types'  BY <1>0, <1>5, <2>1 DEF Inv, Types, Places, Reading, Listing
    <2>4. Placed'  BY <1>0, <1>5, <2>1, <2>2, Underway DEF Inv, Placed, Opening, Walk, Reading, Listing, Depth
    <2>5. Held'  BY <1>0, <1>5, <2>1, <2>2 DEF Inv, Held, Opening, Walk, Reading
    <2>6. Final' /\ Whole'  BY <1>0, <1>5 DEF Inv, Final, Whole
    <2> QED  BY <2>3, <2>4, <2>5, <2>6 DEF Inv
  <1>6. CASE SameObject(IF k = 1 THEN anchor ELSE chain[k - 1][1], k)
    <2>1. lost' = lost  BY <1>0, <1>6 DEF LookAtRoot, Inv, Types
    <2>2. k < Depth \/ k = Depth  BY <1>0 DEF Inv, Placed, Depth, Types
    <2> QED  BY <1>4, <1>5, <1>6, <2>1, <2>2
  <1> QED  BY <1>3, <1>6

LEMMA CheckedCatchKeeps ==
  ASSUME Inv, CheckedCatch
  PROVE  Inv'
  <1> USE DEF CheckedCatch, Fixed
  <1>0. /\ at # "idle" /\ Where = "recheck" /\ Where \notin Opening /\ UNCHANGED envVars
        /\ windows' = windows /\ lost' \in BOOLEAN
    BY DEF Where, Opening, envVars, Inv, Types, LookAtRoot
  <1>1. CASE RefuseAnchor
    BY <1>0, <1>1, Underway, RefusedKeeps DEF RefuseAnchor
  <1>2. CASE ~(~invalidated /\ ~SameObject(anchor, 1))
    <2>1. lost' => invalidated  BY <1>2 DEF LookAtRoot, Inv, Final, Types
    <2>2. ASSUME Refuse PROVE Inv'
      BY <1>0, <2>1, <2>2, Underway, RefusedKeeps DEF Refuse
    <2>3. ASSUME k # 1, Recheck(k - 1) PROVE Inv'
      <3>1. k - 1 \in 1 .. 2  BY <2>3 DEF Inv, Types
      <3> QED  BY <1>0, <2>1, <2>3, <3>1, RecheckKeeps
    <2> QED  BY <1>2, <2>2, <2>3
  <1> QED  BY <1>1, <1>2

-----------------------------------------------------------------------------
(* Listing and reading.                                                    *)

LEMMA ReadDirectoryKeeps ==
  ASSUME Inv, ReadDirectory
  PROVE  Inv'
  <1> USE DEF ReadDirectory, Quiet, Fixed
  <1>0. /\ at # "idle" /\ Where = "readdir" /\ Where \notin Opening /\ UNCHANGED envVars
        /\ windows' = windows /\ lost' \in BOOLEAN /\ lost' = lost
    BY DEF Where, Opening, envVars, Inv, Types, LookAtRoot
  <1>1. CASE Refuse
    BY <1>0, <1>1, Underway, RefusedKeeps DEF Inv, Final, Refuse
  <1>2. ASSUME Goto("chain", 1, "listed"), Still, UNCHANGED readVars
        PROVE  Inv'
    <2> USE DEF Still, readVars, envVars
    <2>0. op = "list"  BY <1>0, Underway DEF Inv, Placed, Reading, Listing
    <2>1. "chain" \in Places  BY DEF Places, Walk, Reading, Listing
    <2>2. Where' = "chain" /\ at' # "idle" /\ k' = 1 /\ after' = "listed"
      BY <1>0, <1>2, <2>1, GotoLeads DEF Inv
    <2>3. Types'  BY <1>0, <1>2, <2>1, GotoLeads DEF Inv, Types
    <2>4. Placed'  BY <1>0, <1>2, <2>2, Underway, <2>0 DEF Inv, Placed, Opening, Walk, Reading, Listing, Depth
    <2>5. Held'  BY <1>0, <1>2, <2>2, <2>0 DEF Inv, Held, Opening, Walk, Reading
    <2>6. Final' /\ Whole'  BY <1>0, <1>2 DEF Inv, Final, Whole
    <2> QED  BY <2>3, <2>4, <2>5, <2>6 DEF Inv
  <1> QED  BY <1>1, <1>2

LEMMA ListedKeeps ==
  ASSUME Inv, Listed
  PROVE  Inv'
  <1> USE DEF Listed, Quiet, Fixed
  <1>0. /\ at # "idle" /\ Where = "listed" /\ Where \notin Opening /\ UNCHANGED envVars
        /\ windows' = windows /\ lost' \in BOOLEAN /\ lost' = lost
    BY DEF Where, Opening, envVars, Inv, Types, LookAtRoot
  <1> DEFINE r == [kind |-> "listing", blocks |-> <<>>, file |-> None]
  <1>1. r.kind # "bytes" /\ End(r) /\ invalidated' = invalidated  OBVIOUS
  <1>2. lost' => invalidated' /\ anchor \in Dirs  BY <1>0, <1>1 DEF Inv, Final
  <1>3. invalidated' \in BOOLEAN  BY <1>1 DEF Inv, Types
  <1> HIDE DEF r, Listed
  <1> QED  BY <1>0, <1>1, <1>2, <1>3, EndKeeps

LEMMA OpenFileKeeps ==
  ASSUME Inv, OpenFile
  PROVE  Inv'
  <1> USE DEF OpenFile, Quiet, Fixed
  <1>0. /\ at # "idle" /\ Where = "open" /\ Where \notin Opening /\ UNCHANGED envVars
        /\ windows' = windows /\ lost' \in BOOLEAN /\ lost' = lost
    BY DEF Where, Opening, envVars, Inv, Types, LookAtRoot
  <1>1. CASE Refuse
    BY <1>0, <1>1, Underway, RefusedKeeps DEF Inv, Final, Refuse
  <1>2. ASSUME NEW x \in FileObjs, at' = "fstat", fd' = Stat(x), Still, UNCHANGED <<next, k, after, chain, blocks>>
        PROVE  Inv'
    <2>0. fd' \in FileObjs \X Nat
      BY <1>2, AccessAssumption DEF Inv, Types, Stat, Objects
    <2> USE DEF Still, readVars, envVars
    <2>1. Where' = "fstat" /\ at' # "idle"  BY <1>0, <1>2 DEF Where
    <2>2. Types'  BY <1>0, <1>2, <2>0 DEF Inv, Types, Places, Walk, Reading, Listing
    <2>3. Placed'  BY <1>0, <1>2, <2>1, Underway DEF Inv, Placed, Types, Opening, Walk, Reading, Listing, Depth
    <2>4. Held'  BY <1>0, <1>2, <2>1, <2>0 DEF Inv, Held, Opening, Walk, Reading
    <2>5. Final' /\ Whole'  BY <1>0, <1>2 DEF Inv, Final, Whole
    <2> QED  BY <2>2, <2>3, <2>4, <2>5 DEF Inv
  <1> QED  BY <1>1, <1>2

LEMMA FstatKeeps ==
  ASSUME Inv, Fstat
  PROVE  Inv'
  <1> USE DEF Fstat, Quiet, Fixed
  <1>0. /\ at # "idle" /\ Where = "fstat" /\ Where \notin Opening /\ UNCHANGED envVars
        /\ windows' = windows /\ lost' \in BOOLEAN /\ lost' = lost
    BY DEF Where, Opening, envVars, Inv, Types, LookAtRoot
  <1>1. CASE Refuse
    BY <1>0, <1>1, Underway, RefusedKeeps DEF Inv, Final, Refuse
  <1>2. ASSUME Stat(fd[1]) = chain[2], Goto("chain", 1, "opened"), fd' = Stat(fd[1]), Still,
               UNCHANGED <<chain, blocks>>
        PROVE  Inv'
    <2>0. fd' \in FileObjs \X Nat /\ fd' = chain'[2] /\ fd'[2] = version[fd'[1]]
      BY <1>0, <1>2 DEF Inv, Types, Held, Stat
    <2>9. op = "read"  BY <1>0 DEF Inv, Placed, Reading
    <2> USE DEF Still, readVars, envVars
    <2>1. "chain" \in Places  BY DEF Places, Walk, Reading, Listing
    <2>2. Where' = "chain" /\ at' # "idle" /\ k' = 1 /\ after' = "opened"
      BY <1>0, <1>2, <2>1, GotoLeads DEF Inv
    <2>3. Types'  BY <1>0, <1>2, <2>1, GotoLeads, <2>0 DEF Inv, Types
    <2>4. Placed'  BY <1>0, <1>2, <2>2, Underway, <2>9 DEF Inv, Placed, Opening, Walk, Reading, Listing, Depth
    <2>5. Held'  BY <1>0, <1>2, <2>2, <2>0, <2>9 DEF Inv, Held, Opening, Walk, Reading, Types
    <2>6. Final' /\ Whole'  BY <1>0, <1>2 DEF Inv, Final, Whole
    <2> QED  BY <2>3, <2>4, <2>5, <2>6 DEF Inv
  <1> QED  BY <1>1, <1>2

LEMMA CheckSizeKeeps ==
  ASSUME Inv, CheckSize
  PROVE  Inv'
  <1> USE DEF CheckSize, Quiet, Fixed
  <1>0. /\ at # "idle" /\ Where = "size" /\ Where \notin Opening /\ UNCHANGED envVars
        /\ windows' = windows /\ lost' \in BOOLEAN /\ lost' = lost
    BY DEF Where, Opening, envVars, Inv, Types, LookAtRoot
  <1>1. CASE Refuse
    BY <1>0, <1>1, Underway, RefusedKeeps DEF Inv, Final, Refuse
  <1>2. ASSUME at' = "block", Still, UNCHANGED <<next, k, after, readVars>>
        PROVE  Inv'
    <2>0. blocks = <<>>  BY <1>0 DEF Inv, Held
    <2> USE DEF Still, readVars, envVars
    <2>1. Where' = "block" /\ at' # "idle"  BY <1>0, <1>2 DEF Where
    <2>2. Types'  BY <1>0, <1>2 DEF Inv, Types, Places, Walk, Reading, Listing
    <2>3. Placed'  BY <1>0, <1>2, <2>1, Underway DEF Inv, Placed, Types, Opening, Walk, Reading, Listing, Depth
    <2>4. Held'  BY <1>0, <1>2, <2>1, <2>0 DEF Inv, Held, Opening, Walk, Reading
    <2>5. Final' /\ Whole'  BY <1>0, <1>2 DEF Inv, Final, Whole
    <2> QED  BY <2>2, <2>3, <2>4, <2>5 DEF Inv
  <1> QED  BY <1>1, <1>2

LEMMA ReadBlockKeeps ==
  ASSUME Inv, ReadBlock
  PROVE  Inv'
  <1> USE DEF ReadBlock, Quiet, Fixed
  <1>0. /\ at # "idle" /\ Where = "block" /\ Where \notin Opening /\ UNCHANGED envVars
        /\ windows' = windows /\ lost' \in BOOLEAN /\ lost' = lost
    BY DEF Where, Opening, envVars, Inv, Types, LookAtRoot
  <1>1. CASE Refuse
    BY <1>0, <1>1, Underway, RefusedKeeps DEF Inv, Final, Refuse
  <1>2. ASSUME at' = "fstatAfter", Still, UNCHANGED <<next, k, after, readVars>>
        PROVE  Inv'
    <2> USE DEF Still, readVars, envVars
    <2>1. Where' = "fstatAfter" /\ at' # "idle"  BY <1>0, <1>2 DEF Where
    <2>2. Types'  BY <1>0, <1>2 DEF Inv, Types, Places, Walk, Reading, Listing
    <2>3. Placed'  BY <1>0, <1>2, <2>1, Underway DEF Inv, Placed, Types, Opening, Walk, Reading, Listing, Depth
    <2>4. Held'  BY <1>0, <1>2, <2>1 DEF Inv, Held, Opening, Walk, Reading
    <2>5. Final' /\ Whole'  BY <1>0, <1>2 DEF Inv, Final, Whole
    <2> QED  BY <2>2, <2>3, <2>4, <2>5 DEF Inv
  <1>3. ASSUME blocks' = Append(blocks, version[fd[1]]), Still, UNCHANGED <<at, next, k, after, chain, fd>>
        PROVE  Inv'
    <2>0. /\ fd \in FileObjs \X Nat /\ version[fd[1]] \in Nat /\ blocks \in Seq(Nat)
          /\ fd[2] <= version[fd[1]]
      BY <1>0 DEF Inv, Types, Held
    <2>9. \A i \in 1 .. Len(blocks') : fd[2] <= blocks'[i] /\ blocks'[i] <= version[fd[1]]
      BY <1>0, <1>3, <2>0 DEF Inv, Held
    <2> USE DEF Still, readVars, envVars
    <2>1. Where' = "block" /\ at' # "idle"  BY <1>0, <1>3 DEF Where
    <2>2. Types'  BY <1>0, <1>3, <2>0 DEF Inv, Types, Places, Walk, Reading, Listing
    <2>3. Placed'  BY <1>0, <1>3, <2>1, Underway DEF Inv, Placed, Types, Opening, Walk, Reading, Listing, Depth
    <2>4. Held'  BY <1>0, <1>3, <2>1, <2>0, <2>9 DEF Inv, Held, Opening, Walk, Reading
    <2>5. Final' /\ Whole'  BY <1>0, <1>3 DEF Inv, Final, Whole
    <2> QED  BY <2>2, <2>3, <2>4, <2>5 DEF Inv
  <1> QED  BY <1>1, <1>2, <1>3

LEMMA FstatAfterKeeps ==
  ASSUME Inv, FstatAfter
  PROVE  Inv'
  <1> USE DEF FstatAfter, Quiet, Fixed
  <1>0. /\ at # "idle" /\ Where = "fstatAfter" /\ Where \notin Opening /\ UNCHANGED envVars
        /\ windows' = windows /\ lost' \in BOOLEAN /\ lost' = lost
    BY DEF Where, Opening, envVars, Inv, Types, LookAtRoot
  <1>1. CASE Refuse
    BY <1>0, <1>1, Underway, RefusedKeeps DEF Inv, Final, Refuse
  <1>2. ASSUME Stat(fd[1]) = fd, Size[fd[1]][fd[2]] = Len(blocks), Goto("chain", 1, "read"), Still,
               UNCHANGED readVars
        PROVE  Inv'
    <2>7. op = "read"  BY <1>0 DEF Inv, Placed, Reading
    <2>8. fd \in FileObjs \X Nat /\ version[fd[1]] \in Nat /\ version[fd[1]] = fd[2] /\ blocks \in Seq(Nat)
      BY <1>0, <1>2 DEF Inv, Types, Held, Stat
    <2>9. blocks = [i \in 1 .. Size[fd[1]][fd[2]] |-> fd[2]]
      BY <1>0, <1>2, <2>8 DEF Inv, Held
    <2> USE DEF Still, readVars, envVars
    <2>1. "chain" \in Places  BY DEF Places, Walk, Reading, Listing
    <2>2. Where' = "chain" /\ at' # "idle" /\ k' = 1 /\ after' = "read"
      BY <1>0, <1>2, <2>1, GotoLeads DEF Inv
    <2>3. Types'  BY <1>0, <1>2, <2>1, GotoLeads DEF Inv, Types
    <2>4. Placed'  BY <1>0, <1>2, <2>2, Underway, <2>7 DEF Inv, Placed, Opening, Walk, Reading, Listing, Depth
    <2>5. Held'  BY <1>0, <1>2, <2>2, <2>7, <2>8, <2>9 DEF Inv, Held, Opening, Walk, Reading
    <2>6. Final' /\ Whole'  BY <1>0, <1>2 DEF Inv, Final, Whole
    <2> QED  BY <2>3, <2>4, <2>5, <2>6 DEF Inv
  <1> QED  BY <1>1, <1>2

LEMMA LstatAfterKeeps ==
  ASSUME Inv, LstatAfter
  PROVE  Inv'
  <1> USE DEF LstatAfter, Quiet, Fixed
  <1>0. /\ at # "idle" /\ Where = "lstatAfter" /\ Where \notin Opening /\ UNCHANGED envVars
        /\ windows' = windows /\ lost' \in BOOLEAN /\ lost' = lost
    BY DEF Where, Opening, envVars, Inv, Types, LookAtRoot
  <1>1. CASE Refuse
    BY <1>0, <1>1, Underway, RefusedKeeps DEF Inv, Final, Refuse
  <1>2. ASSUME End([kind |-> "bytes", blocks |-> blocks, file |-> fd]), invalidated' = invalidated
        PROVE  Inv'
    <2> DEFINE r == [kind |-> "bytes", blocks |-> blocks, file |-> fd]
    <2>1. r.blocks = [i \in 1 .. Size[r.file[1]][r.file[2]] |-> r.file[2]]  BY <1>0 DEF Inv, Held
    <2>2. End(r)  BY <1>2
    <2> HIDE DEF r
    <2> QED  BY <1>0, <1>2, <2>1, <2>2, Underway, EndKeeps DEF Inv, Final, Types
  <1> QED  BY <1>1, <1>2

-----------------------------------------------------------------------------
(* The attribute helper.                                                   *)

LEMMA UnavailableKeeps ==
  ASSUME Inv, at \in {"attributes", "waiting"}, UNCHANGED <<envVars, lost>>, RefuseUnavailable
  PROVE  Inv'
  <1>1. at # "idle" /\ UNCHANGED envVars /\ lost' = lost /\ lost' \in BOOLEAN
    BY DEF Inv, Types
  <1>2. CASE anchor = None
    BY <1>1, <1>2, RefusedKeeps DEF RefuseUnavailable, Refuse, Inv, Final
  <1>3. CASE anchor # None
    <2>1. Where \notin Opening  BY <1>1, <1>3 DEF Inv, Placed
    <2>2. CASE RefuseAnchor
      BY <1>1, <2>1, <2>2, Underway, RefusedKeeps DEF RefuseAnchor
    <2>3. CASE Recheck(1)
      BY <1>1, <2>1, <2>3, RecheckKeeps DEF Inv, Final
    <2> QED  BY <1>3, <2>2, <2>3 DEF RefuseUnavailable
  <1> QED  BY <1>2, <1>3

LEMMA NameKeeps ==
  ASSUME Inv, at \in {"attributes", "waiting"}, UNCHANGED <<envVars, lost>>, NEW i, RefuseName(i)
  PROVE  Inv'
  <1>1. at # "idle" /\ UNCHANGED envVars /\ lost' = lost /\ lost' \in BOOLEAN
    BY DEF Inv, Types
  <1>2. CASE anchor = None
    BY <1>1, <1>2, RefusedKeeps DEF RefuseName, Refuse, Inv, Final
  <1>3. CASE anchor # None
    <2>1. Where \notin Opening  BY <1>1, <1>3 DEF Inv, Placed
    <2>2. CASE RefuseAnchor
      BY <1>1, <2>1, <2>2, Underway, RefusedKeeps DEF RefuseAnchor
    <2>3. ASSUME NEW n \in 1 .. 2, Recheck(n) PROVE Inv'
      BY <1>1, <2>1, <2>3, RecheckKeeps DEF Inv, Final
    <2> QED  BY <1>3, <2>2, <2>3 DEF RefuseName
  <1> QED  BY <1>2, <1>3

\* A request that is put or answered moves nothing.
LEMMA SameWhere ==
  ASSUME Inv, UNCHANGED <<envVars, anchor, op, result, invalidated, k, after, readVars, lost>>,
         Where' = Where, (at = "idle") = (at' = "idle"),
         at' \in Places \cup {"idle", "attributes", "waiting"},
         at' \in {"attributes", "waiting"} => next' \in Places
  PROVE  Inv'
  <1> USE DEF envVars, readVars
  <1>1. Types'  BY DEF Inv, Types
  <1>2. Placed'  BY DEF Inv, Placed, Depth
  <1>3. Held'  BY DEF Inv, Held
  <1>4. Final' /\ Whole'  BY DEF Inv, Final, Whole
  <1> QED  BY <1>1, <1>2, <1>3, <1>4 DEF Inv

LEMMA AskHelperKeeps ==
  ASSUME Inv, AskHelper
  PROVE  Inv'
  <1> USE DEF AskHelper, Still
  <1>1. CASE unavailable
    BY <1>1, UnavailableKeeps
  <1>2. CASE ~unavailable
    <2>1. Where' = Where  BY <1>2 DEF Where
    <2> QED  BY <1>2, <2>1, SameWhere DEF Inv, Types
  <1> QED  BY <1>1, <1>2

LEMMA HelperAnswersKeeps ==
  ASSUME Inv, HelperAnswers
  PROVE  Inv'
  <1> USE DEF HelperAnswers, Still
  <1>1. CASE Bad = {}
    <2>1. next \in Places  BY DEF Inv, Types
    <2>2. Where' = Where /\ at' # "idle"
      BY <1>1, <2>1 DEF Where, Places, Opening, Walk, Reading, Listing
    <2> QED  BY <1>1, <2>1, <2>2, SameWhere DEF Places, Opening, Walk, Reading, Listing
  <1>2. CASE Bad # {}
    BY <1>2, NameKeeps
  <1> QED  BY <1>1, <1>2

\* The helper serves while the caller waits.
Serving == helper = "serving" => at = "waiting"

LEMMA HelperClosesKeeps ==
  ASSUME Inv, Serving, HelperCloses
  PROVE  Inv'
  <1> USE DEF HelperCloses
  <1>1. CASE helper = "serving"
    BY <1>1, UnavailableKeeps DEF Serving
  <1>2. CASE helper # "serving"
    BY <1>2, SameWhere DEF Inv, Types, Where
  <1> QED  BY <1>1, <1>2

LEMMA WaitTimesOutKeeps ==
  ASSUME Inv, WaitTimesOut
  PROVE  Inv'
  BY UnavailableKeeps DEF WaitTimesOut

LEMMA HelperGoneKeeps ==
  ASSUME Inv, HelperGone
  PROVE  Inv'
  BY SameWhere DEF HelperGone, Inv, Types, Where

LEMMA ServingKeeps ==
  ASSUME Serving, [Next]_vars
  PROVE  Serving'
  <1> USE DEF Serving, Goto
  <1>1. ASSUME at # "waiting", UNCHANGED helperVars PROVE Serving'
    BY <1>1 DEF helperVars
  <1>2. CASE Environment  BY <1>2 DEF Environment, helperVars
  <1>3. CASE Open  BY <1>1, <1>3 DEF Open, Quiet, Fixed
  <1>4. ASSUME NEW o \in {"read", "list"}, Begin(o) PROVE Serving'
    BY <1>1, <1>4 DEF Begin
  <1>5. CASE Continue
    <2>1. CASE AskHelper  BY <2>1 DEF AskHelper
    <2>2. CASE ~AskHelper
      BY <1>1, <1>5, <2>2 DEF Continue, OpenStep, CheckAnchor, Lstat, Realpath, LstatAgain, CheckChain,
        CheckedCatch, ReadDirectory, Listed, OpenFile, Fstat, CheckSize, ReadBlock, FstatAfter, LstatAfter,
        Quiet, Fixed
    <2> QED  BY <2>1, <2>2
  <1>6. CASE HelperAnswers  BY <1>6 DEF HelperAnswers
  <1>7. CASE HelperCloses  BY <1>7 DEF HelperCloses
  <1>8. CASE WaitTimesOut  BY <1>8 DEF WaitTimesOut
  <1>9. CASE HelperGone  BY <1>9 DEF HelperGone
  <1>10. CASE UNCHANGED vars  BY <1>10 DEF vars, helperVars
  <1> QED  BY <1>2, <1>3, <1>4, <1>5, <1>6, <1>7, <1>8, <1>9, <1>10 DEF Next

-----------------------------------------------------------------------------
(* Other programs.                                                         *)

\* Names and versions stay what they may be, and versions only rise.
LEMMA EnvironmentMoves ==
  ASSUME Types, Environment
  PROVE  /\ child' \in [Dirs -> Objects \cup {None}]
         /\ version' \in [FileObjs -> Nat] /\ \A f \in FileObjs : version'[f] \in DOMAIN Size[f]
         /\ \A f \in FileObjs : version[f] <= version'[f]
         /\ swaps' \in 0 .. MaxSwaps /\ swaps <= swaps' /\ windows' = windows
  <1>1. CASE \E d \in Dirs, x \in Objects \cup {None} : Replace(d, x)
    <2>1. PICK d \in Dirs, x \in Objects \cup {None} : Replace(d, x)  BY <1>1
    <2>2. child' \in [Dirs -> Objects \cup {None}]  BY <2>1 DEF Replace, Types
    <2>3. swaps' \in 0 .. MaxSwaps /\ swaps <= swaps'
      BY <2>1, AccessAssumption DEF Replace, Types
    <2> QED  BY <2>1, <2>2, <2>3 DEF Replace, Types
  <1>2. CASE \E f \in FileObjs : Write(f)
    <2>1. PICK f \in FileObjs : Write(f)  BY <1>2
    <2>2. version[f] \in Nat  BY DEF Types
    <2>3. version' = [version EXCEPT ![f] = version[f] + 1]  BY <2>1 DEF Write
    <2>4. version' \in [FileObjs -> Nat]  BY <2>2, <2>3 DEF Types
    <2>5. \A g \in FileObjs : version'[g] = IF g = f THEN version[f] + 1 ELSE version[g]
      BY <2>3 DEF Types
    <2>6. \A g \in FileObjs : version'[g] \in DOMAIN Size[g] /\ version[g] <= version'[g]
      BY <2>1, <2>2, <2>5 DEF Write, Types
    <2>7. swaps \in 0 .. MaxSwaps /\ swaps <= swaps  BY AccessAssumption DEF Types
    <2> QED  BY <2>1, <2>4, <2>6, <2>7 DEF Write, Types
  <1> QED  BY <1>1, <1>2 DEF Environment

LEMMA EnvironmentKeeps ==
  ASSUME Inv, Environment
  PROVE  Inv'
  <1> USE DEF Environment, readVars
  <1>1. Where' = Where /\ at' = at  BY DEF Where
  <1>2. Types'  BY EnvironmentMoves DEF Inv, Types
  <1>3. Placed'  BY <1>1 DEF Inv, Placed, Depth
  <1>4. fd \in FileObjs \X Nat => /\ fd[1] \in FileObjs /\ version[fd[1]] \in Nat /\ version'[fd[1]] \in Nat
                                  /\ version[fd[1]] <= version'[fd[1]] /\ fd[2] \in Nat
    BY EnvironmentMoves DEF Inv, Types
  <1>5. blocks \in Seq(Nat)  BY DEF Inv, Types
  <1>6. Held'
    <2>1. Where \in {"block", "fstatAfter"} => fd \in FileObjs \X Nat  BY DEF Inv, Held
    <2>2. Where \in {"block", "fstatAfter"} =>
            \A i \in 1 .. Len(blocks) : fd[2] <= blocks[i] /\ blocks[i] <= version'[fd[1]]
      BY <1>4, <1>5, <2>1 DEF Inv, Held
    <2>3. \/ Where \in {"size", "block", "fstatAfter", "lstatAfter"}
          \/ Where = "chain" /\ op = "read" /\ after \in {"opened", "read"}
          => fd[2] <= version'[fd[1]]
      BY <1>4 DEF Inv, Held
    <2> QED  BY <1>1, <2>2, <2>3 DEF Inv, Held
  <1>7. Final' /\ Whole'  BY DEF Inv, Final, Whole
  <1> QED  BY <1>2, <1>3, <1>6, <1>7 DEF Inv

-----------------------------------------------------------------------------
LEMMA NextKeeps ==
  ASSUME Inv, Serving, [Next]_vars
  PROVE  Inv'
  <1>1. CASE Continue
    BY <1>1, OpenStepKeeps, CheckAnchorKeeps, LstatKeeps, RealpathKeeps, LstatAgainKeeps, CheckChainKeeps,
      CheckedCatchKeeps, ReadDirectoryKeeps, ListedKeeps, OpenFileKeeps, FstatKeeps, CheckSizeKeeps,
      ReadBlockKeeps, FstatAfterKeeps, LstatAfterKeeps, AskHelperKeeps DEF Continue
  <1>2. CASE UNCHANGED vars
    <2>1. Where' = Where /\ at' = at  BY <1>2 DEF Where, vars
    <2> QED  BY <1>2, <2>1, SameWhere DEF vars, envVars, readVars, Inv, Types
  <1> QED  BY <1>1, <1>2, EnvironmentKeeps, OpenKeeps, BeginKeeps, HelperAnswersKeeps, HelperClosesKeeps,
    WaitTimesOutKeeps, HelperGoneKeeps DEF Next

\* The places of a call, what it holds there and the root's loss fit together
\* in every state.
THEOREM Invariance == Spec => [](Inv /\ Serving)
  <1>1. Init => Inv /\ Serving  BY InitHolds DEF Init, Serving
  <1>2. Inv /\ Serving /\ [Next]_vars => (Inv /\ Serving)'  BY NextKeeps, ServingKeeps
  <1> QED  BY <1>1, <1>2, PTL DEF Spec

\* After the root was found gone a call is refused where it begins.
THEOREM LossStays == Spec => LossIsFinal
  <1> DEFINE Refusing == lost /\ at = "idle" => op' = "none" /\ result'.kind \in {"none", result.kind}
  <1>1. Inv /\ Serving /\ [Next]_vars => [Refusing]_vars
    <2> SUFFICES ASSUME Inv, Serving, lost, at = "idle", Next
                 PROVE  op' = "none" /\ result'.kind \in {"none", result.kind}
      OBVIOUS
    <2>1. op = "none" /\ invalidated /\ anchor # None
      BY AccessAssumption DEF Inv, Placed, Final, Objects
    <2>2. CASE Environment  BY <2>1, <2>2 DEF Environment
    <2>3. CASE \E o \in {"read", "list"} : Begin(o)  BY <2>1, <2>3 DEF Begin
    <2>4. ~Open /\ ~HelperAnswers /\ ~WaitTimesOut
      BY <2>1 DEF Open, HelperAnswers, WaitTimesOut
    <2>5. ~Continue
      BY DEF Continue, OpenStep, CheckAnchor, Lstat, Realpath, LstatAgain, CheckChain, CheckedCatch,
        ReadDirectory, Listed, OpenFile, Fstat, CheckSize, ReadBlock, FstatAfter, LstatAfter, AskHelper
    <2>6. CASE HelperCloses  BY <2>1, <2>6 DEF HelperCloses, Serving
    <2>7. CASE HelperGone  BY <2>1, <2>7 DEF HelperGone
    <2> QED  BY <2>2, <2>3, <2>4, <2>5, <2>6, <2>7 DEF Next
  <1> QED  BY <1>1, Invariance, PTL DEF Spec, LossIsFinal

\* The bytes a read returns are the whole of one version of the file it
\* returns, whatever was exchanged or written in the meantime.
THEOREM BytesAreWhole == Spec => []Whole
  <1>1. Inv => Whole  BY DEF Inv
  <1> QED  BY <1>1, Invariance, PTL

-----------------------------------------------------------------------------
(* The counting, step by step.                                             *)

\* A step that looks at the tree and changes nothing in it.
Looking == UNCHANGED <<child, version, swaps, anchor, seen>>

LEMMA LookingSees ==
  ASSUME Looking
  PROVE  Current' = Current /\ \A x : Stat(x)' = Stat(x)
  BY DEF Looking, Current, Straight, Entry, In, Stat

\* A call that ended, or is being refused, has nothing more to show.
LEMMA OverKeeps ==
  ASSUME CountInv, Looking, op' \in {op, "none"}, chain' \in {chain, <<>>},
         result' = result \/ result'.kind # "bytes",
         op' # "read" \/ Where' \notin {"chain"} \cup Reading
  PROVE  CountInv'
  <1>1. Watched'  BY LookingSees DEF CountInv, Watched, Looking
  <1>2. OnTheWalk'
    <2>1. CASE chain' = chain  BY <2>1, LookingSees DEF CountInv, OnTheWalk
    <2>2. CASE chain' = <<>>  BY <2>2 DEF OnTheWalk
    <2> QED  BY <2>1, <2>2
  <1>3. Counted'  BY DEF Counted
  <1>4. Seen'  BY DEF CountInv, Seen, Looking
  <1> QED  BY <1>1, <1>2, <1>3, <1>4 DEF CountInv

\* A step that counts no more and no less.
LEMMA AlongKeeps ==
  ASSUME Inv, CountInv, Looking, op' = op, chain' = chain, result' = result, Rounds' = Rounds,
         Where \in {"chain"} \cup Reading,
         Where' = "chain" /\ ~Holding' => Where = "chain" /\ ~Holding
  PROVE  CountInv'
  <1>1. Watched' /\ OnTheWalk' /\ Seen'
    BY LookingSees DEF CountInv, Watched, OnTheWalk, Seen, Looking
  <1>2. Witnessed' = Witnessed  BY LookingSees DEF Witnessed, Looking
  <1>3. Rounds \in Nat /\ swaps \in Nat /\ swaps' = swaps
    BY AccessAssumption DEF Rounds, Looking, Inv, Types
  <1>4. Counted'  BY <1>2, <1>3 DEF CountInv, Counted
  <1> QED  BY <1>1, <1>4 DEF CountInv

LEMMA RefusedCounts ==
  ASSUME CountInv, Looking, Refuse \/ RefuseAnchor
  PROVE  CountInv'
  BY OverKeeps DEF Refuse, RefuseAnchor, End, Refused

LEMMA RecheckCounts ==
  ASSUME Inv, CountInv, Looking, windows' = windows, NEW n, Recheck(n)
  PROVE  CountInv'
  <1>1. Where' = "recheck"  BY GotoLeads DEF Recheck, Inv, Places
  <1>2. Where' \notin {"chain"} \cup Reading  BY <1>1 DEF Reading
  <1> QED  BY <1>2, OverKeeps DEF Recheck, Still, readVars

\* The root and its directory are where the check found them, and the file in
\* it: it is what the path stands for.
LEMMA HeldIsCurrent ==
  ASSUME Inv, CountInv, op = "read", child[Top] = anchor, child[anchor] \in Dirs, anchor \in Dirs,
         Entry(3) = chain[2][1]
  PROVE  Witnessed
  <1> SUFFICES ASSUME chain[2][1] \in FileObjs, Stat(chain[2][1]) = chain[2]
               PROVE  chain[2] \in seen
    BY DEF Witnessed
  <1>0. Follow(anchor) = anchor  BY AccessAssumption DEF Follow
  <1>1. Entry(1) = anchor /\ Entry(2) = In(anchor)  BY DEF Entry
  <1>2. Entry(2) = child[anchor]  BY <1>0, <1>1 DEF In
  <1>3. \A i \in 1 .. 3 : Entry(i) \notin Links
    <2>1. Entry(1) \notin Links /\ Entry(2) \notin Links /\ Entry(3) \notin Links
      BY <1>1, <1>2, AccessAssumption
    <2> QED  BY <2>1
  <1>4. Stat(Entry(3)) \in Current  BY <1>1, <1>3 DEF Current, Straight
  <1> QED  BY <1>4 DEF CountInv, Watched

LEMMA CheckChainCounts ==
  ASSUME Inv, CountInv, CheckChain
  PROVE  CountInv'
  <1> USE DEF CheckChain, Fixed, Still, readVars
  <1>0. /\ at # "idle" /\ Where = "chain" /\ Where \notin Opening /\ windows' = windows
        /\ at = "chain" /\ k \in 1 .. Depth /\ k \in 1 .. 3
        /\ UNCHANGED <<child, version, swaps, seen>>
    BY DEF Where, Opening, envVars, Inv, Placed, Types
  <1>1. anchor \in Dirs /\ op \in {"read", "list"}  BY <1>0, Underway
  <1>2. CASE RefuseAnchor  BY <1>0, <1>2, RefusedCounts DEF RefuseAnchor, End, Looking
  <1>3. ASSUME NEW n, Recheck(n) PROVE CountInv'
    BY <1>0, <1>3, RecheckCounts DEF Recheck, Looking
  <1>4. ASSUME SameObject(IF k = 1 THEN anchor ELSE chain[k - 1][1], k), UNCHANGED <<anchor, op, result, chain>>,
               \/ k < Depth /\ k' = k + 1 /\ UNCHANGED <<at, next, after>>
               \/ k = Depth /\ at' = AfterChain /\ UNCHANGED <<next, k, after>>
        PROVE  CountInv'
    <2>1. Looking  BY <1>0, <1>4 DEF Looking
    <2>2. CASE op = "list"
      <3>1. op' # "read"  BY <1>4, <2>2
      <3> QED  BY <1>4, <2>1, <3>1, OverKeeps
    <2>3. CASE op = "read"
      <3>0. Depth = 3  BY <2>3 DEF Depth
      <3>1. Watched' /\ OnTheWalk' /\ Seen'
        BY <1>4, <2>1, LookingSees DEF CountInv, Watched, OnTheWalk, Seen, Looking
      <3>2. Witnessed' = Witnessed  BY <1>4, <2>1, LookingSees DEF Witnessed, Looking
      <3>3. Witnessed \/ swaps >= Rounds + (IF Holding THEN 0 ELSE 1)
        BY <1>0, <2>3 DEF CountInv, Counted
      <3>4. Rounds \in Nat /\ swaps \in Nat /\ swaps' = swaps
        BY <1>0, AccessAssumption DEF Rounds, Inv, Types
      <3>5. CASE k = 1
        <4>1. k' = 2 /\ Where' = "chain" /\ Rounds' = Rounds
          BY <1>0, <1>4, <3>0, <3>5 DEF Where, Rounds
        <4>2. child'[Top] = anchor'  BY <1>0, <1>4, <3>5 DEF SameObject, Entry
        <4>3. Holding'  BY <4>1, <4>2 DEF Holding
        <4> QED  BY <3>1, <3>2, <3>3, <3>4, <4>1, <4>3 DEF CountInv, Counted
      <3>6. CASE k = 2
        <4>1. k' = 3 /\ Where' = "chain" /\ Rounds' = Rounds
          BY <1>0, <1>4, <3>0, <3>6 DEF Where, Rounds
        <4>9. Len(chain) = 2  BY <1>0, <3>0 DEF Inv, Placed
        <4>2. chain[1][1] \in Dirs  BY <2>3, <4>9 DEF CountInv, OnTheWalk
        <4>3. Entry(2) = chain[1][1]  BY <1>4, <3>6 DEF SameObject
        <4>4. Holding => child[Top] = anchor  BY <3>6 DEF Holding
        <4>5. child[Top] = anchor => Entry(2) = child[anchor]
          BY <1>1, AccessAssumption DEF Entry, In, Follow
        <4>6. Holding => Holding'  BY <1>0, <1>4, <4>1, <4>2, <4>3, <4>4, <4>5 DEF Holding
        <4> QED  BY <3>1, <3>2, <3>3, <3>4, <4>1, <4>6 DEF CountInv, Counted
      <3>7. CASE k = 3
        <4>1. at' = AfterChain /\ after' = after  BY <1>4, <3>0, <3>7
        <4>2. after \in {"walked", "opened", "read"}  BY <2>3 DEF Inv, Placed, Types
        <4>3. Where' \in Reading /\ Where' # "chain"
          BY <2>3, <4>1, <4>2 DEF AfterChain, Where, Reading
        <4>4. Rounds' = Rounds + 1  BY <1>0, <4>1, <4>3 DEF Rounds
        <4>5. Entry(3) = chain[2][1]  BY <1>4, <3>7 DEF SameObject
        <4>6. Holding => Witnessed  BY <1>1, <2>3, <3>7, <4>5, HeldIsCurrent DEF Holding
        <4>7. Counted'  BY <3>2, <3>3, <3>4, <4>3, <4>4, <4>6 DEF Counted
        <4> QED  BY <3>1, <4>7 DEF CountInv
      <3> QED  BY <1>0, <3>5, <3>6, <3>7
    <2> QED  BY <1>1, <2>2, <2>3
  <1>5. k < Depth \/ k = Depth  BY <1>0 DEF Depth
  <1> QED  BY <1>2, <1>3, <1>4, <1>5

LEMMA LookCounts ==
  ASSUME Inv, CountInv, CheckAnchor \/ Realpath \/ CheckedCatch \/ ReadDirectory \/ Listed
  PROVE  CountInv'
  <1> USE DEF Quiet, Fixed, envVars, LookAtRoot
  <1>1. ASSUME UNCHANGED <<child, version, swaps, seen>>, Refuse \/ RefuseAnchor PROVE CountInv'
    BY <1>1, RefusedCounts DEF Refuse, RefuseAnchor, End, Looking
  <1>2. ASSUME UNCHANGED <<child, version, swaps, seen, windows>>, NEW n, Recheck(n) PROVE CountInv'
    BY <1>2, RecheckCounts DEF Recheck, Still, Looking
  <1>3. CASE CheckAnchor
    <2>1. ASSUME Goto("lstat", 2, after), Still, UNCHANGED readVars PROVE CountInv'
      <3>1. Where' = "lstat"  BY <1>3, <2>1, GotoLeads DEF CheckAnchor, Inv, Places, Walk
      <3>2. Where' \notin {"chain"} \cup Reading  BY <3>1 DEF Reading
      <3>3. Looking  BY <1>3, <2>1 DEF CheckAnchor, Looking, Still
      <3> QED  BY <2>1, <3>2, <3>3, OverKeeps DEF Still, readVars
    <2> QED  BY <1>1, <1>3, <2>1 DEF CheckAnchor
  <1>4. CASE Realpath
    <2>1. ASSUME at' = "again", Still, UNCHANGED readVars PROVE CountInv'
      <3>1. Where' \notin {"chain"} \cup Reading  BY <2>1 DEF Where, Reading
      <3>2. Looking  BY <1>4, <2>1 DEF Realpath, Looking, Still
      <3> QED  BY <2>1, <3>1, <3>2, OverKeeps DEF Still, readVars
    <2> QED  BY <1>2, <1>4, <2>1 DEF Realpath, readVars
  <1>5. CASE CheckedCatch  BY <1>1, <1>2, <1>5 DEF CheckedCatch
  <1>6. CASE ReadDirectory
    <2>1. ASSUME Goto("chain", 1, "listed"), Still, UNCHANGED readVars PROVE CountInv'
      <3>1. op = "list"  BY <1>6, Underway DEF ReadDirectory, Inv, Placed, Where, Listing
      <3>2. op' # "read"  BY <2>1, <3>1 DEF Still
      <3>3. Looking  BY <1>6, <2>1 DEF ReadDirectory, Looking, Still
      <3> QED  BY <2>1, <3>2, <3>3, OverKeeps DEF Still, readVars
    <2> QED  BY <1>1, <1>6, <2>1 DEF ReadDirectory
  <1>7. CASE Listed
    <2>1. Looking /\ op' = "none" /\ chain' = <<>> /\ result'.kind # "bytes"
      BY <1>7 DEF Listed, End, Looking
    <2> QED  BY <2>1, OverKeeps
  <1> QED  BY <1>3, <1>4, <1>5, <1>6, <1>7

LEMMA SecondAppended ==
  ASSUME NEW S, NEW s \in Seq(S), NEW e \in S, Len(s) = 1
  PROVE  Len(Append(s, e)) = 2 /\ Append(s, e)[2] = e /\ Append(s, e)[1] = s[1]
  OBVIOUS

LEMMA WalkCounts ==
  ASSUME Inv, CountInv, Lstat \/ LstatAgain
  PROVE  CountInv'
  <1> USE DEF Quiet, Fixed, envVars
  <1>1. CASE Lstat
    <2>1. ASSUME UNCHANGED <<child, version, swaps, seen, windows>>, NEW n, Recheck(n) PROVE CountInv'
      BY <2>1, RecheckCounts DEF Recheck, Still, Looking
    <2>2. ASSUME Entry(k) \in Dirs \/ (k = Depth /\ Entry(k) \in FileObjs), at' = "real",
                 chain' = Append(chain, Stat(Entry(k))), Still, after' = after
          PROVE  CountInv'
      <3>0. Where = "lstat"  BY <1>1 DEF Lstat, Where
      <3>1. Looking  BY <1>1, <2>2 DEF Lstat, Looking, Still
      <3>2. /\ chain \in Seq(Objects \X Nat) /\ Len(chain) = k - 2 /\ k \in 2 .. Depth
        BY <3>0 DEF Inv, Types, Placed
      <3>3. Stat(Entry(k)) = <<Entry(k), Stat(Entry(k))[2]>> /\ Stat(Entry(k))[2] \in Nat
        BY DEF Stat, Inv, Types
      <3>4. OnTheWalk'
        <4> SUFFICES ASSUME op = "read" PROVE OnTheWalk'  BY <2>2 DEF OnTheWalk, Still
        <4>1. Depth = 3  BY DEF Depth
        <4>2. CASE k = 2
          <5>1. Len(chain') = 1 /\ chain'[1] = Stat(Entry(2)) /\ Entry(2) \in Dirs
            BY <2>2, <3>2, <4>1, <4>2
          <5> QED  BY <3>3, <4>2, <5>1 DEF OnTheWalk
        <4>3. CASE k = 3
          <5>1. Len(chain) = 1 /\ chain' = Append(chain, Stat(Entry(3)))  BY <2>2, <3>2, <4>3
          <5>9. Stat(Entry(3)) \in Objects \X Nat  BY <2>2, <4>1, <4>3, StatTyped DEF Inv, Objects
          <5>2. Len(chain') = 2 /\ chain'[2] = Stat(Entry(3)) /\ chain'[1] = chain[1]
            BY <3>2, <5>1, <5>9, SecondAppended
          <5>3. chain[1][1] \in Dirs  BY <5>1 DEF CountInv, OnTheWalk
          <5>4. version' = version  BY <3>1 DEF Looking
          <5>5. chain'[2][2] = (IF chain'[2][1] \in FileObjs THEN version'[chain'[2][1]] ELSE 0)
            BY <5>2, <5>4 DEF Stat
          <5>6. chain'[2][2] \in Nat  BY <3>3, <4>3, <5>2
          <5> QED  BY <5>2, <5>3, <5>5, <5>6 DEF OnTheWalk, Stat
        <4> QED  BY <3>2, <4>1, <4>2, <4>3
      <3>5. Where' \notin {"chain"} \cup Reading  BY <2>2 DEF Where, Reading
      <3>6. Watched' /\ Seen'
        BY <2>2, <3>1, LookingSees DEF CountInv, Watched, Seen, Looking, Still
      <3> QED  BY <3>4, <3>5, <3>6 DEF CountInv, Counted
    <2> QED  BY <1>1, <2>1, <2>2 DEF Lstat
  <1>2. CASE LstatAgain
    <2>1. ASSUME UNCHANGED <<child, version, swaps, seen, windows>>, NEW n, Recheck(n) PROVE CountInv'
      BY <2>1, RecheckCounts DEF Recheck, Still, Looking
    <2>2. ASSUME at' = "lstat", Still, UNCHANGED readVars PROVE CountInv'
      <3>1. Where' \notin {"chain"} \cup Reading  BY <2>2 DEF Where, Reading
      <3>2. Looking  BY <1>2, <2>2 DEF LstatAgain, Looking, Still
      <3> QED  BY <2>2, <3>1, <3>2, OverKeeps DEF Still, readVars
    <2>3. ASSUME Goto("chain", 1, after), Still, UNCHANGED readVars PROVE CountInv'
      <3>1. Where' = "chain" /\ k' = 1 /\ after' = "walked"
        BY <1>2, <2>3, GotoLeads DEF LstatAgain, Inv, Places, Placed, Where, Walk
      <3>2. Looking  BY <1>2, <2>3 DEF LstatAgain, Looking, Still
      <3>3. Watched' /\ OnTheWalk' /\ Seen'
        BY <2>3, <3>2, LookingSees DEF CountInv, Watched, OnTheWalk, Seen, Looking, Still, readVars
      <3>4. Rounds' = 0 /\ Holding'  BY <3>1 DEF Rounds, Holding
      <3>5. swaps' \in Nat  BY <3>2, AccessAssumption DEF Looking, Inv, Types
      <3> QED  BY <3>1, <3>3, <3>4, <3>5 DEF CountInv, Counted
    <2> QED  BY <1>2, <2>1, <2>2, <2>3 DEF LstatAgain, readVars
  <1> QED  BY <1>1, <1>2

LEMMA ReadCounts ==
  ASSUME Inv, CountInv, OpenFile \/ Fstat \/ CheckSize \/ ReadBlock \/ FstatAfter
  PROVE  CountInv'
  <1> USE DEF Quiet, Fixed, envVars, Still, readVars
  <1>0. UNCHANGED <<child, version, swaps, seen, windows>>
    BY DEF OpenFile, Fstat, CheckSize, ReadBlock, FstatAfter
  <1>1. CASE Refuse  BY <1>0, <1>1, RefusedCounts DEF Refuse, End, Looking
  <1>2. ASSUME Where \in Reading \ {"chain"}, at' \in Reading, Still, UNCHANGED <<chain, after>> PROVE CountInv'
    <2>1. Where' = at' /\ Where' # "chain" /\ Where # "chain"  BY <1>2 DEF Where, Reading
    <2>2. Rounds' = Rounds  BY <1>2, <2>1 DEF Rounds
    <2>3. Looking  BY <1>0, <1>2 DEF Looking
    <2> QED  BY <1>2, <2>1, <2>2, <2>3, AlongKeeps
  <1>3. ASSUME NEW w \in {"opened", "read"}, Where \in Reading, Goto("chain", 1, w), Still, chain' = chain,
               after = IF w = "opened" THEN "walked" ELSE "opened"
        PROVE  CountInv'
    <2>1. Where' = "chain" /\ k' = 1 /\ after' = w  BY <1>0, <1>3, GotoLeads DEF Inv, Places
    <2>2. Rounds' = Rounds  BY <1>3, <2>1 DEF Rounds, Reading
    <2>3. Holding'  BY <2>1 DEF Holding
    <2>4. Looking  BY <1>0, <1>3 DEF Looking
    <2> QED  BY <1>3, <2>1, <2>2, <2>3, <2>4, AlongKeeps
  <1>4. CASE OpenFile  BY <1>1, <1>2, <1>4 DEF OpenFile, Where, Reading
  <1>5. CASE Fstat
    <2>1. Where = "fstat" /\ after = "walked"  BY <1>5 DEF Fstat, Where, Inv, Placed
    <2> QED  BY <1>1, <1>3, <1>5, <2>1 DEF Fstat, Reading
  <1>6. CASE CheckSize  BY <1>1, <1>2, <1>6 DEF CheckSize, Where, Reading
  <1>7. CASE ReadBlock  BY <1>1, <1>2, <1>7 DEF ReadBlock, Where, Reading
  <1>8. CASE FstatAfter
    <2>1. Where = "fstatAfter" /\ after = "opened"  BY <1>8 DEF FstatAfter, Where, Inv, Placed
    <2> QED  BY <1>1, <1>3, <1>8, <2>1 DEF FstatAfter, Reading
  <1> QED  BY <1>4, <1>5, <1>6, <1>7, <1>8

\* The last look finds the file in its place: it is the one the walk found, in
\* the same version, and three checks have passed.
LEMMA LastLookCounts ==
  ASSUME Inv, CountInv, LstatAfter, MaxSwaps < 3
  PROVE  CountInv'
  <1> USE DEF LstatAfter, Quiet, Fixed, envVars
  <1>1. CASE Refuse  BY <1>1, RefusedCounts DEF Refuse, End, Looking
  <1>2. ASSUME Stat(Entry(3)) = fd, End([kind |-> "bytes", blocks |-> blocks, file |-> fd])
        PROVE  CountInv'
    <2>1. /\ Where = "lstatAfter" /\ after = "read" /\ op = "read" /\ fd = chain[2] /\ fd[1] \in FileObjs
      BY DEF Where, Inv, Placed, Held, Reading
    <2>2. Rounds = 3  BY <2>1 DEF Rounds
    <2>3. Witnessed  BY <2>1, <2>2, AccessAssumption DEF CountInv, Counted, Reading, Inv, Types
    <2>4. fd[1] = Entry(3)  BY <1>2 DEF Stat
    <2>5. fd \in seen  BY <1>2, <2>1, <2>3, <2>4 DEF Witnessed
    <2>6. op' = "none" /\ chain' = <<>> /\ result'.file = fd /\ seen' = seen  BY <1>2 DEF End
    <2> QED  BY <2>5, <2>6 DEF CountInv, Watched, OnTheWalk, Counted, Seen
  <1> QED  BY <1>1, <1>2

LEMMA HelperCounts ==
  ASSUME Inv, Serving, CountInv, AskHelper \/ HelperAnswers \/ HelperCloses \/ WaitTimesOut \/ HelperGone
  PROVE  CountInv'
  <1> USE DEF envVars
  <1>0. UNCHANGED <<child, version, swaps, seen, windows>>
    BY DEF AskHelper, HelperAnswers, HelperCloses, WaitTimesOut, HelperGone
  <1>1. ASSUME Refuse \/ RefuseAnchor PROVE CountInv'
    BY <1>0, <1>1, RefusedCounts DEF Refuse, RefuseAnchor, End, Looking
  <1>2. ASSUME NEW n, Recheck(n) PROVE CountInv'
    BY <1>0, <1>2, RecheckCounts DEF Recheck, Still, Looking
  <1>3. ASSUME Where' = Where, UNCHANGED <<anchor, op, result, k, after, chain>> PROVE CountInv'
    <2>1. Looking /\ Rounds' = Rounds /\ Holding' = Holding
      BY <1>0, <1>3 DEF Looking, Rounds, Holding
    <2>2. CASE Where \in {"chain"} \cup Reading  BY <1>3, <2>1, <2>2, AlongKeeps
    <2>3. CASE Where \notin {"chain"} \cup Reading  BY <1>3, <2>1, <2>3, OverKeeps
    <2> QED  BY <2>2, <2>3
  <1>4. RefuseUnavailable => CountInv'  BY <1>1, <1>2 DEF RefuseUnavailable
  <1>5. \A i : RefuseName(i) => CountInv'  BY <1>1, <1>2 DEF RefuseName
  <1>6. CASE AskHelper
    <2>1. ASSUME at' = "waiting", Still, UNCHANGED <<next, k, after, readVars>> PROVE CountInv'
      <3>1. Where' = Where  BY <1>6, <2>1 DEF AskHelper, Where
      <3> QED  BY <1>3, <2>1, <3>1 DEF Still, readVars
    <2> QED  BY <1>4, <1>6, <2>1 DEF AskHelper
  <1>7. CASE HelperAnswers
    <2>1. ASSUME at' = next, Still, UNCHANGED <<k, after, readVars>> PROVE CountInv'
      <3>1. Where' = Where
        BY <1>7, <2>1 DEF HelperAnswers, Where, Inv, Types, Places, Opening, Walk, Reading, Listing
      <3> QED  BY <1>3, <2>1, <3>1 DEF Still, readVars
    <2> QED  BY <1>5, <1>7, <2>1 DEF HelperAnswers
  <1>8. CASE HelperCloses
    <2>1. ASSUME UNCHANGED <<anchor, op, at, next, k, after, readVars, result>> PROVE CountInv'
      <3>1. Where' = Where  BY <2>1 DEF Where
      <3> QED  BY <1>3, <2>1, <3>1 DEF readVars
    <2> QED  BY <1>4, <1>8, <2>1 DEF HelperCloses
  <1>9. CASE WaitTimesOut  BY <1>4, <1>9 DEF WaitTimesOut
  <1>10. CASE HelperGone
    <2>1. Where' = Where  BY <1>10 DEF HelperGone, Where
    <2> QED  BY <1>3, <1>10, <2>1 DEF HelperGone, readVars
  <1> QED  BY <1>6, <1>7, <1>8, <1>9, <1>10

\* Other programs add to what was seen; to move a directory the check has
\* passed they exchange it.
LEMMA EnvironmentCounts ==
  ASSUME Inv, CountInv, Environment
  PROVE  CountInv'
  <1> USE DEF Environment, readVars
  <1>0. Where' = Where /\ Rounds' = Rounds  BY DEF Where, Rounds
  <1>1. Watched' /\ Seen'  BY DEF CountInv, Watched, Seen
  <1>2. /\ \A f \in FileObjs : version[f] \in Nat /\ version'[f] \in Nat /\ version[f] <= version'[f]
        /\ swaps' \in Nat /\ swaps \in Nat /\ swaps <= swaps' /\ Rounds \in Nat
    BY EnvironmentMoves, AccessAssumption DEF Inv, Types, Rounds
  <1>3. Len(chain) >= 2 => chain[2][2] \in Nat  BY DEF Inv, Types
  <1>4. OnTheWalk'  BY <1>2, <1>3 DEF CountInv, OnTheWalk, Stat
  <1>5. op = "read" /\ Where \in {"chain"} \cup Reading => Len(chain) = 2
    BY DEF Inv, Placed, Depth
  <1>6. ASSUME op = "read", Where \in {"chain"} \cup Reading, Witnessed
        PROVE  Witnessed'
    <2> SUFFICES ASSUME chain[2][1] \in FileObjs, Stat(chain[2][1])' = chain[2]
                 PROVE  chain[2] \in seen'
      BY DEF Witnessed
    <2>1. version'[chain[2][1]] = chain[2][2]  BY DEF Stat
    <2>2. chain[2][2] <= version[chain[2][1]]  BY <1>5, <1>6 DEF CountInv, OnTheWalk, Stat
    <2>3. version[chain[2][1]] = chain[2][2]  BY <1>2, <2>1, <2>2
    <2>4. Stat(chain[2][1]) = chain[2]  BY <2>1, <2>3 DEF Stat
    <2> QED  BY <1>6, <2>4 DEF Witnessed
  <1>7. ASSUME Where = "chain", Holding, ~Holding'
        PROVE  swaps' >= swaps + 1
    <2>1. at # "idle"  BY <1>7 DEF Where
    <2>2. Where \notin Opening  BY <1>7 DEF Opening
    <2>3. anchor \in Dirs /\ Top \in Dirs  BY <2>1, <2>2, Underway, AccessAssumption
    <2>4. PICK d \in {Top, anchor} : child[d] \in Dirs /\ child'[d] # child[d]
      BY <1>7, <2>3 DEF Holding
    <2>5. child[d] \notin FileObjs  BY <2>4, AccessAssumption
    <2>6. PICK e \in Dirs, x \in Objects \cup {None} : Replace(e, x)
      BY <2>4 DEF Write
    <2>7. e = d  BY <2>3, <2>4, <2>6 DEF Replace, Inv, Types
    <2> QED  BY <1>2, <2>1, <2>5, <2>6, <2>7 DEF Replace
  <1>8. Counted'  BY <1>0, <1>2, <1>6, <1>7 DEF CountInv, Counted
  <1> QED  BY <1>1, <1>4, <1>8 DEF CountInv

LEMMA CallCounts ==
  ASSUME Inv, CountInv, Open \/ OpenStep \/ \E o \in {"read", "list"} : Begin(o)
  PROVE  CountInv'
  <1> USE DEF Quiet, Fixed, envVars
  <1>1. CASE Open
    <2>1. op' = "open"  BY <1>1 DEF Open
    <2> QED  BY <1>1, <2>1 DEF Open, CountInv, Watched, OnTheWalk, Counted, Seen
  <1>2. CASE OpenStep
    <2>1. op = "open"  BY <1>2 DEF OpenStep, Where, Opening, Inv, Placed
    <2>2. op' # "read" /\ seen' = seen /\ (result' = result \/ result' = Refused)
      BY <1>2, <2>1 DEF OpenStep, Still, Refuse, End
    <2> QED  BY <2>2 DEF CountInv, Watched, OnTheWalk, Counted, Seen, Refused
  <1>3. ASSUME NEW o \in {"read", "list"}, Begin(o) PROVE CountInv'
    <2>1. result'.kind # "bytes" /\ seen' = Current  BY <1>3 DEF Begin, Refused
    <2>2. Current' = Current  BY <1>3 DEF Begin, Current, Straight, Entry, In, Stat
    <2>3. CASE invalidated
      <3>1. op' = "none"  BY <1>3, <2>3 DEF Begin, Inv, Placed
      <3> QED  BY <2>1, <3>1 DEF CountInv, Watched, OnTheWalk, Counted, Seen
    <2>4. CASE ~invalidated
      <3>1. Where' = "anchor" /\ chain' = <<>>
        BY <1>3, <2>4, GotoLeads DEF Begin, Inv, Places, Walk
      <3>2. Where' \notin {"chain"} \cup Reading  BY <3>1 DEF Reading
      <3> QED  BY <2>1, <2>2, <3>1, <3>2 DEF CountInv, Watched, OnTheWalk, Counted, Seen
    <2> QED  BY <2>3, <2>4
  <1> QED  BY <1>1, <1>2, <1>3

\* While directories are exchanged fewer than three times in a call, what a
\* read returns is the whole of one version of a file, and the path inside the
\* pinned root stood for it, in that version, during the call.
THEOREM ReadsAreReal == MaxSwaps < 3 => (Spec => []BytesAreOneVersion)
  <1> SUFFICES ASSUME MaxSwaps < 3 PROVE Spec => []BytesAreOneVersion  OBVIOUS
  <1>1. Init => CountInv
    BY DEF Init, CountInv, Watched, OnTheWalk, Counted, Seen, Refused
  <1>2. Inv /\ Serving /\ CountInv /\ [Next]_vars => CountInv'
    <2> SUFFICES ASSUME Inv, Serving, CountInv, [Next]_vars PROVE CountInv'  OBVIOUS
    <2>1. CASE Continue
      BY <2>1, CallCounts, LookCounts, WalkCounts, CheckChainCounts, ReadCounts, LastLookCounts, HelperCounts
      DEF Continue
    <2>2. CASE UNCHANGED vars
      <3>1. UNCHANGED <<Where, Current, Rounds, Holding, Witnessed>>
        BY <2>2 DEF vars, envVars, readVars, Where, Current, Straight, Entry, In, Stat, Rounds, Holding, Witnessed
      <3>2. OnTheWalk'  BY <2>2 DEF vars, envVars, readVars, CountInv, OnTheWalk, Stat
      <3> QED  BY <2>2, <3>1, <3>2 DEF vars, envVars, readVars, CountInv, Watched, Counted, Seen
    <2> QED  BY <2>1, <2>2, CallCounts, EnvironmentCounts, HelperCounts DEF Next
  <1>3. Inv /\ CountInv => BytesAreOneVersion  BY DEF Inv, Whole, CountInv, Seen, BytesAreOneVersion
  <1> QED  BY <1>1, <1>2, <1>3, Invariance, PTL DEF Spec

-----------------------------------------------------------------------------
(* Preparation: what it keeps.                                             *)

Listable == [path : Range(Names), kind : Kinds \ {"missing"}]
Gits     == {<<>>} \cup {Rules(Gitignore[d], FALSE) : d \in Paths}
Narrows  == {<<>>} \cup {Rules(Narrowing[d], TRUE) : d \in Paths}
Lists    == {x[1] \o x[2] : x \in Gits \X Narrows}
Reasons  == InventoryExclusion \cup Verdicts \cup {Nothing, "empty"}
Frames   == [rest : SUBSET Listable, stack : Seq(Lists)]
Notice   == [path : Paths, reason : Reasons]
Notices  == Seq(Notice)
PathsOf(notices) == {x.path : x \in Range(notices)}
Reads    == [kind : {"unreadable"}] \cup [kind : {"excluded"}, why : InventoryExclusion]
            \cup [kind : {"read"}, size : Nat, verdict : Verdicts \cup {"empty"}, fragments : Nat]

TreeKept ==
  /\ disk \in [Paths -> Nodes] /\ disk[Root].kind = "dir"
  /\ changes \in Nat /\ (changes = 0 => touched = {})
  /\ \A p \in Paths \ touched : disk[p] = Tree[p]
  /\ stop \in BOOLEAN /\ phase \in {"inventory", "prepare", "done"}
  /\ asked \in Seq(Paths)

Accumulators == [files : Seq(Range(Names)), excluded : Notices, pruned : Notices, seen : SUBSET Range(Names),
                 discovered : Nat, errors : Nat, complete : BOOLEAN]

\* An accumulator: no file counts twice, and what was seen is accounted for.
Sound(a) ==
  /\ a \in Accumulators
  /\ IsInjective(a.files) /\ Range(a.files) \subseteq a.seen
  /\ a.seen \subseteq Range(a.files) \cup PathsOf(a.excluded)
  /\ Len(a.files) + Len(a.excluded) <= a.discovered

\* The entries that were listed and not looked at yet.
ToCome(fs) == UNION {fs[i].rest : i \in DOMAIN fs}

WalkKept ==
  /\ Sound(inv)
  /\ scope \in Seq(Paths) /\ Range(scope) \subseteq Range(asked)
  /\ frames \in Seq(Frames) /\ \A i \in DOMAIN frames : frames[i].rest # {}
  /\ \A q \in ToCome(frames) : q.path \notin touched => q.kind = Tree[q.path].kind
  /\ phase # "inventory" => scope = <<>> /\ frames = <<>>

Started == [files |-> <<>>, fragments |-> 0, bytes |-> 0, excluded |-> <<>>, unreadable |-> 0, complete |-> FALSE]

AheadPaths == {ahead[i].path : i \in DOMAIN ahead}

LoopKept ==
  /\ prep \in [files : Seq(Range(Names)), fragments : Nat, bytes : Nat, excluded : Notices, unreadable : Nat,
               complete : BOOLEAN]
  /\ order \in Seq(Range(Names)) /\ ahead \in Seq([path : Range(Names), read : Reads]) /\ Len(ahead) <= 1
  /\ phase = "inventory" => prep = Started /\ order = <<>> /\ ahead = <<>>
  /\ IsInjective(order) /\ IsInjective(prep.files)
  /\ Range(order) \cap Range(prep.files) = {} /\ AheadPaths \cap (Range(order) \cup Range(prep.files)) = {}
  /\ Range(order) \cup AheadPaths \cup Range(prep.files) \subseteq Range(inv.files)
  /\ phase # "inventory" =>
       Len(order) + Len(ahead) + Len(prep.files) + Len(inv.excluded) + Len(prep.excluded) + prep.unreadable
         <= inv.discovered
  /\ phase = "done" =>
       /\ \A i, j \in DOMAIN prep.files : i < j => Pos(prep.files[i]) < Pos(prep.files[j])
       /\ prep.complete => order = <<>> /\ ahead = <<>>

\* A file of the tree that nobody touched, in the scope of e.
Asks(e, p) ==
  e \in Range(Above[p]) /\ Tree[p].kind = "file" /\ Range(Above[p]) \cap touched = {}

Settled(a, e, p) == p \in Range(a.files) \cup PathsOf(a.excluded) \/ Below(e, p) \cap PathsOf(a.pruned) # {}

\* Nothing that is asked for is lost on the walk, or in the loop.
Covers(a, sc, fs) ==
  a.complete => \A e \in Range(asked), p \in Range(Names) :
    Asks(e, p) => Settled(a, e, p) \/ e \in Range(sc) \/ \E q \in ToCome(fs) : q.path \in Below(e, p)

CompletenessKept ==
  /\ Covers(inv, scope, frames)
  /\ prep.complete =>
       /\ inv.complete
       /\ Range(inv.files) \subseteq Range(order) \cup AheadPaths \cup Range(prep.files) \cup PathsOf(prep.excluded)

\* On a quiet tree.
SameRules(s, t) == \A p \in Paths, isDir \in BOOLEAN : Ignored(s, p, isDir) = Ignored(t, p, isDir)
Reached(e, d) ==
  /\ e \in Range(Above[d]) /\ disk[d].kind = "dir"
  /\ \A x \in Below(e, d) : disk[x].kind = "dir" /\ DirExclusion(x, RulesAt(x)) = Nothing
Reachable(f) == \E e \in Range(asked), d \in Paths :
  Reached(e, d) /\ SameRules(f.stack, IgnoreStackFor(d)) /\ \A q \in f.rest : Parent(q.path) = d
\* What the walk lists: an entry in an administrative directory is entered like any other.
Sought(e, p) ==
  /\ e \in Range(Above[p]) /\ disk[p].kind = "file"
  /\ \A d \in Below(e, p) \ {p} : disk[d].kind = "dir" /\ DirExclusion(d, RulesAt(d)) = Nothing
  /\ FileExclusion(p, disk[p].size, RulesAt(p)) = Nothing
Admitted(p) == disk[p].kind = "file" /\ FileExclusion(p, disk[p].size, RulesAt(p)) = Nothing

QuietWalk(a, fs) ==
  /\ \A p \in Range(a.files) : \E e \in Range(asked) : Sought(e, p)
  /\ \A p \in Range(Names) \cap PathsOf(a.excluded) : ~Admitted(p)
  /\ \A d \in PathsOf(a.pruned) : disk[d].kind = "dir" /\ DirExclusion(d, RulesAt(d)) # Nothing
  /\ \A i \in DOMAIN fs : Reachable(fs[i])

QuietLoop ==
  /\ \A i \in DOMAIN ahead : ahead[i].read = ReadEntry(ahead[i].path, FALSE)
  /\ \A p \in Range(prep.files) : disk[p].verdict = "ok"
  /\ \A p \in PathsOf(prep.excluded) : ~(disk[p].verdict = "ok" /\ Admitted(p))

PInv == TreeKept /\ WalkKept /\ LoopKept /\ CompletenessKept /\ (changes = 0 => QuietWalk(inv, frames) /\ QuietLoop)

-----------------------------------------------------------------------------
(* Paths.                                                                  *)

\* The paths on the way to a path are its first ones, each the way to itself.
LEMMA PathFacts ==
  ASSUME NEW p \in Paths
  PROVE  /\ Above[p] \in Seq(Paths) /\ Len(Above[p]) \in Nat \ {0}
         /\ Above[p][1] = Root /\ Above[p][Len(Above[p])] = p
         /\ \A i \in 1 .. Len(Above[p]) :
              /\ Above[p][i] \in Paths /\ Len(Above[Above[p][i]]) = i
              /\ \A j \in 1 .. i : Above[Above[p][i]][j] = Above[p][j]
<1>1. Above[p] \in Seq(Paths) /\ Above[p] # <<>> /\ Above[p][1] = Root /\ Above[p][Len(Above[p])] = p
  BY TreeAssumption
<1>2. Len(Above[p]) \in Nat \ {0}
  BY <1>1
<1>3. ASSUME NEW i \in 1 .. Len(Above[p])
      PROVE  /\ Above[p][i] \in Paths /\ Len(Above[Above[p][i]]) = i
             /\ \A j \in 1 .. i : Above[Above[p][i]][j] = Above[p][j]
  <2>1. i \in DOMAIN Above[p] /\ Above[p][i] \in Paths
    BY <1>1, <1>2
  <2>2. Above[Above[p][i]] = SubSeq(Above[p], 1, i)
    BY <2>1, TreeAssumption
  <2> QED
    BY <1>1, <1>2, <2>1, <2>2
<1> QED
  BY <1>1, <1>2, <1>3

\* No path is on the way to itself twice.
LEMMA PathInjective ==
  ASSUME NEW p \in Paths, NEW i \in 1 .. Len(Above[p]), NEW j \in 1 .. Len(Above[p]), Above[p][i] = Above[p][j]
  PROVE  i = j
BY PathFacts

\* What is on the way to a path on the way is on the way.
LEMMA AboveNested ==
  ASSUME NEW p \in Paths, NEW q \in Range(Above[p])
  PROVE  q \in Paths /\ Range(Above[q]) \subseteq Range(Above[p])
<1>1. PICK i \in 1 .. Len(Above[p]) : q = Above[p][i]
  BY PathFacts DEF Range
<1>2. q \in Paths /\ Len(Above[q]) = i /\ \A j \in 1 .. i : Above[q][j] = Above[p][j]
  BY <1>1, PathFacts
<1>3. DOMAIN Above[q] = 1 .. i /\ DOMAIN Above[p] = 1 .. Len(Above[p]) /\ i \in Nat
  BY <1>1, <1>2, PathFacts
<1> QED
  BY <1>1, <1>2, <1>3 DEF Range

\* A path but the root is below its parent, and one further down.
LEMMA ParentFacts ==
  ASSUME NEW p \in Range(Names)
  PROVE  /\ p \in Paths /\ Len(Above[p]) > 1 /\ Parent(p) \in Paths
         /\ Range(Above[p]) = Range(Above[Parent(p)]) \cup {p} /\ p \notin Range(Above[Parent(p)])
         /\ Len(Above[Parent(p)]) = Len(Above[p]) - 1
         /\ \A j \in 1 .. Len(Above[p]) - 1 : Above[Parent(p)][j] = Above[p][j]
<1>1. p \in Paths /\ p # Root
  BY TreeAssumption DEF Paths
<1> DEFINE n == Len(Above[p])
<1>2. /\ Above[p] \in Seq(Paths) /\ n \in Nat \ {0} /\ Above[p][1] = Root /\ Above[p][n] = p
      /\ \A i \in 1 .. n : /\ Above[p][i] \in Paths /\ Len(Above[Above[p][i]]) = i
                           /\ \A j \in 1 .. i : Above[Above[p][i]][j] = Above[p][j]
  BY <1>1, PathFacts
<1>3. n > 1 /\ n - 1 \in 1 .. n
  BY <1>1, <1>2
<1>4. /\ Parent(p) \in Paths /\ Len(Above[Parent(p)]) = n - 1
      /\ \A j \in 1 .. n - 1 : Above[Parent(p)][j] = Above[p][j]
  BY <1>2, <1>3 DEF Parent
<1>5. DOMAIN Above[p] = 1 .. n /\ DOMAIN Above[Parent(p)] = 1 .. n - 1
  BY <1>2, <1>4, PathFacts
<1>6. Range(Above[p]) = Range(Above[Parent(p)]) \cup {p}
  <2>1. ASSUME NEW j \in 1 .. n PROVE Above[p][j] \in Range(Above[Parent(p)]) \cup {p}
    <3>1. j = n \/ j \in 1 .. n - 1
      BY <1>2
    <3> QED
      BY <1>2, <1>4, <1>5, <3>1 DEF Range
  <2>2. ASSUME NEW j \in 1 .. n - 1 PROVE Above[Parent(p)][j] \in Range(Above[p])
    <3>1. j \in 1 .. n
      BY <1>2
    <3> QED
      BY <1>4, <1>5, <3>1 DEF Range
  <2>3. p \in Range(Above[p])
    BY <1>2, <1>3, <1>5 DEF Range
  <2> QED
    BY <1>5, <2>1, <2>2, <2>3 DEF Range
<1>7. p \notin Range(Above[Parent(p)])
  <2>1. ASSUME NEW j \in 1 .. n - 1, p = Above[Parent(p)][j] PROVE FALSE
    <3>1. j \in 1 .. n /\ n \in 1 .. n /\ Above[p][j] = Above[p][n] /\ j # n
      BY <1>2, <1>4, <2>1
    <3> QED
      BY <1>1, <3>1, PathInjective
  <2> QED
    BY <1>5, <2>1 DEF Range
<1> QED
  BY <1>1, <1>3, <1>4, <1>6, <1>7

\* A path that is on the way to another one has a next one on that way.
LEMMA NextOnTheWay ==
  ASSUME NEW p \in Paths, NEW q \in Range(Above[p]), q # p
  PROVE  \E c \in Range(Above[p]) : c \in Range(Names) /\ Parent(c) = q /\ c \notin Range(Above[q])
<1> DEFINE n == Len(Above[p])
<1>1. /\ Above[p] \in Seq(Paths) /\ n \in Nat \ {0} /\ Above[p][1] = Root /\ Above[p][n] = p
      /\ \A k1 \in 1 .. n : /\ Above[p][k1] \in Paths /\ Len(Above[Above[p][k1]]) = k1
                           /\ \A j \in 1 .. k1 : Above[Above[p][k1]][j] = Above[p][j]
  BY PathFacts
<1>2. PICK i \in 1 .. n : q = Above[p][i]
  BY <1>1 DEF Range
<1>3. i + 1 \in 1 .. n /\ 1 \in 1 .. n
  BY <1>1, <1>2
<1> DEFINE c == Above[p][i + 1]
<1>4. c \in Range(Above[p]) /\ c \in Paths /\ Len(Above[c]) = i + 1 /\ Above[c][i] = q
  BY <1>1, <1>2, <1>3 DEF Range
<1>5. c # Root
  BY <1>1, <1>2, <1>3, PathInjective
<1>6. c \in Range(Names)
  BY <1>4, <1>5 DEF Paths
<1>7. (i + 1) - 1 = i
  BY <1>2
<1>8. Parent(c) = q
  BY <1>4, <1>7 DEF Parent
<1> QED
  BY <1>4, <1>6, <1>8, ParentFacts

\* The way from an entry of the scope grows by a step.
LEMMA BelowStep ==
  ASSUME NEW p \in Range(Names), NEW e \in Range(Above[Parent(p)])
  PROVE  e \in Range(Above[p]) /\ Below(e, p) = Below(e, Parent(p)) \cup {p}
<1>1. e \in Paths /\ Range(Above[e]) \subseteq Range(Above[Parent(p)])
  BY ParentFacts, AboveNested
<1>2. p \in Paths /\ Range(Above[p]) = Range(Above[Parent(p)]) \cup {p} /\ p \notin Range(Above[Parent(p)])
  BY ParentFacts
<1> QED
  BY <1>1, <1>2 DEF Below

\* Resolving succeeds for a file or directory below directories only, and says which.
LEMMA ResolveFits ==
  ASSUME TreeKept, NEW p \in Paths
  PROVE  /\ Resolve(p) \in {"file", "dir", "link", "missing", "not_regular_file"}
         /\ Resolve(p) \in {"file", "dir"} => disk[p].kind = Resolve(p)
         /\ (\A q \in Range(Above[p]) \ {p} : disk[q].kind = "dir") /\ disk[p].kind \in {"file", "dir"}
              => Resolve(p) = disk[p].kind
<1> DEFINE n == Len(Above[p])
           bad == {i \in 1 .. n : disk[Above[p][i]].kind \notin (IF i = n THEN {"dir", "file"} ELSE {"dir"})}
           worst == CHOOSE i \in bad : \A j \in bad : i <= j
<1>1. Resolve(p) = IF bad = {} THEN disk[p].kind ELSE Refusal(disk[Above[p][worst]].kind)
  BY DEF Resolve
<1>2. n \in 1 .. n /\ Above[p][n] = p /\ DOMAIN Above[p] = 1 .. n
  BY PathFacts
<1>3. bad = {} => disk[p].kind \in {"dir", "file"}
  BY <1>2
<1>4. bad # {} => Resolve(p) \in {"link", "missing", "not_regular_file"}
  BY <1>1 DEF Refusal
<1>5. ASSUME \A q \in Range(Above[p]) \ {p} : disk[q].kind = "dir", disk[p].kind \in {"file", "dir"}
      PROVE  bad = {}
  <2>1. ASSUME NEW i \in bad PROVE FALSE
    <3>1. CASE i = n
      BY <1>2, <1>5, <2>1, <3>1
    <3>2. CASE i # n
      <4>1. Above[p][i] # p
        BY <1>2, <2>1, <3>2, PathInjective
      <4>2. Above[p][i] \in Range(Above[p])
        BY <1>2, <2>1 DEF Range
      <4> QED
        BY <1>5, <2>1, <3>2, <4>1, <4>2
    <3> QED
      BY <3>1, <3>2
  <2> QED
    BY <2>1
<1> HIDE DEF bad, worst, n
<1> QED
  BY <1>1, <1>3, <1>4, <1>5

\* A path that nobody touched is what it was, and so is the way to it.
LEMMA Untouched ==
  ASSUME TreeKept, NEW p \in Paths, Range(Above[p]) \cap touched = {}, Tree[p].kind \in {"file", "dir"}
  PROVE  /\ disk[p] = Tree[p] /\ Resolve(p) = Tree[p].kind
         /\ \A q \in Range(Above[p]) : q \in Paths /\ disk[q] = Tree[q] /\ (q # p => Tree[q].kind = "dir")
<1>1. p \in Range(Above[p])
  BY PathFacts DEF Range
<1>2. \A q \in Range(Above[p]) : q \in Paths /\ disk[q] = Tree[q]
  BY AboveNested DEF TreeKept
<1>3. \A q \in Range(Above[p]) \ {p} : Tree[q].kind = "dir"
  <2>1. CASE p = Root
    <3>1. Len(Above[p]) = 1
      <4>1. Len(Above[p]) \in Nat \ {0} /\ Above[p][1] = p /\ Above[p][Len(Above[p])] = p
        BY <2>1, PathFacts
      <4>2. 1 \in 1 .. Len(Above[p]) /\ Len(Above[p]) \in 1 .. Len(Above[p])
        BY <4>1
      <4>3. 1 = Len(Above[p])
        BY <4>1, <4>2, PathInjective
      <4> QED
        BY <4>3
    <3> QED
      BY <2>1, <3>1, PathFacts DEF Range
  <2>2. CASE p # Root
    BY <2>2, TreeAssumption DEF Paths
  <2> QED
    BY <2>1, <2>2
<1>4. Resolve(p) = disk[p].kind
  BY <1>1, <1>2, <1>3, ResolveFits
<1> QED
  BY <1>1, <1>2, <1>3, <1>4

\* On a quiet tree a path is resolved to what it is, once a directory lists it.
LEMMA QuietTree ==
  ASSUME TreeKept, changes = 0, NEW p \in Paths
  PROVE  /\ disk = Tree
         /\ disk[p].kind \in {"file", "dir"} => Resolve(p) = disk[p].kind
<1>1. touched = {} /\ \A q \in Paths : disk[q] = Tree[q]
  BY DEF TreeKept
<1>2. disk = Tree
  BY <1>1, TreeAssumption DEF TreeKept
<1> QED
  BY <1>1, <1>2, Untouched

-----------------------------------------------------------------------------
(* Path order.                                                             *)

\* The place of a path is its own.
LEMMA PosFacts ==
  ASSUME NEW p \in Range(Names)
  PROVE  Pos(p) \in Nat /\ Names[Pos(p)] = p
<1>1. \E i \in DOMAIN Names : Names[i] = p
  BY DEF Range
<1>2. Pos(p) \in DOMAIN Names /\ Names[Pos(p)] = p
  BY <1>1 DEF Pos
<1>3. Names \in Seq(Range(Names))
  BY TreeAssumption
<1> QED
  BY <1>2, <1>3

\* What does not come after an element of a sequence, in path order.
UpTo(s, i) == {j \in DOMAIN s : Pos(s[j]) < Pos(s[i]) \/ (s[j] = s[i] /\ j <= i)}

\* Ranks are places, and of two elements the one that comes first has the lower rank.
LEMMA RankFacts ==
  ASSUME NEW s \in Seq(Range(Names)), NEW i \in DOMAIN s, NEW j \in DOMAIN s, i # j
  PROVE  /\ Rank(s, i) \in 1 .. Len(s)
         /\ j \in UpTo(s, i) => Rank(s, j) < Rank(s, i)
         /\ j \in UpTo(s, i) \/ i \in UpTo(s, j)
<1>1. Len(s) \in Nat /\ DOMAIN s = 1 .. Len(s) /\ \A m \in DOMAIN s : s[m] \in Range(Names)
  BY DEF Range
<1>2. IsFiniteSet(DOMAIN s) /\ Cardinality(DOMAIN s) = Len(s)
  <2>1. 1 \in Int /\ Len(s) \in Int
    BY <1>1
  <2>2. IsFiniteSet(1 .. Len(s)) /\ Cardinality(1 .. Len(s)) = IF 1 > Len(s) THEN 0 ELSE Len(s) - 1 + 1
    BY <2>1, FS_Interval
  <2> QED
    BY <1>1, <2>2
<1>3. \A m \in DOMAIN s : UpTo(s, m) \subseteq DOMAIN s /\ Rank(s, m) = Cardinality(UpTo(s, m))
  BY DEF UpTo, Rank
<1>4. \A m \in DOMAIN s : IsFiniteSet(UpTo(s, m)) /\ Cardinality(UpTo(s, m)) \in Nat /\ Cardinality(UpTo(s, m)) <= Len(s)
  BY <1>2, <1>3, FS_Subset, FS_CardinalityType
<1>5. i \in UpTo(s, i)
  BY <1>1 DEF UpTo
<1>6. Rank(s, i) # 0
  BY <1>3, <1>4, <1>5, FS_EmptySet
<1>7. \A m \in DOMAIN s : Pos(s[m]) \in Nat
  BY <1>1, PosFacts
<1>8. ASSUME j \in UpTo(s, i) PROVE Rank(s, j) < Rank(s, i)
  <2>1. UpTo(s, j) \subseteq UpTo(s, i)
    BY <1>1, <1>7, <1>8 DEF UpTo
  <2>2. i \notin UpTo(s, j)
    BY <1>1, <1>7, <1>8 DEF UpTo
  <2>3. UpTo(s, j) # UpTo(s, i)
    BY <1>5, <2>2
  <2>4. Cardinality(UpTo(s, j)) < Cardinality(UpTo(s, i))
    BY <1>4, <2>1, <2>3, FS_Subset
  <2> QED
    BY <1>3, <2>4
<1>9. j \in UpTo(s, i) \/ i \in UpTo(s, j)
  <2>1. Pos(s[i]) = Pos(s[j]) => s[i] = s[j]
    BY <1>1, PosFacts
  <2> QED
    BY <1>1, <1>7, <2>1 DEF UpTo
<1> QED
  BY <1>3, <1>4, <1>6, <1>8, <1>9

\* Sorting keeps the elements and their number; of different paths it makes an ordered list.
LEMMA SortFits ==
  ASSUME NEW s \in Seq(Range(Names))
  PROVE  /\ InPathOrder(s) \in Seq(Range(Names)) /\ Len(InPathOrder(s)) = Len(s)
         /\ Range(InPathOrder(s)) = Range(s)
         /\ IsInjective(s) =>
              /\ IsInjective(InPathOrder(s))
              /\ \A m, n \in DOMAIN InPathOrder(s) : m < n => Pos(InPathOrder(s)[m]) < Pos(InPathOrder(s)[n])
<1> DEFINE D == DOMAIN s
           place == [i \in D |-> Rank(s, i)]
           from == [n \in D |-> CHOOSE i \in D : Rank(s, i) = n]
           t == InPathOrder(s)
<1>1. Len(s) \in Nat /\ D = 1 .. Len(s) /\ IsFiniteSet(D) /\ \A m \in D : s[m] \in Range(Names)
  <2>1. Len(s) \in Nat /\ D = 1 .. Len(s) /\ 1 \in Int /\ Len(s) \in Int
    OBVIOUS
  <2> QED
    BY <2>1, FS_Interval DEF Range
<1>2. \A i \in D : Rank(s, i) \in D
  <2>1. ASSUME NEW i \in D, \A j \in D : j = i PROVE Rank(s, i) \in D
    <3>1. {j \in DOMAIN s : Pos(s[j]) < Pos(s[i]) \/ (s[j] = s[i] /\ j <= i)} = {i}
      BY <1>1, <2>1
    <3>2. Rank(s, i) = 1
      BY <3>1, FS_Singleton DEF Rank
    <3> QED
      BY <1>1, <2>1, <3>2
  <2> QED
    BY <1>1, <2>1, RankFacts
<1>3. \A i, j \in D : Rank(s, i) = Rank(s, j) => i = j
  <2>1. ASSUME NEW i \in D, NEW j \in D, i # j PROVE Rank(s, i) # Rank(s, j)
    <3>1. Rank(s, j) < Rank(s, i) \/ Rank(s, i) < Rank(s, j)
      BY <2>1, RankFacts
    <3> QED
      BY <1>1, <1>2, <3>1
  <2> QED
    BY <2>1
<1>4. place \in Injection(D, D)
  BY <1>2, <1>3 DEF Injection, IsInjective
<1>5. place \in Surjection(D, D)
  BY <1>1, <1>4, FS_Injection
<1>6. \A n \in D : from[n] \in D /\ Rank(s, from[n]) = n
  BY <1>5 DEF Surjection
<1>7. t = [n \in D |-> s[from[n]]]
  BY DEF InPathOrder
<1>8. \A i \in D : Rank(s, i) \in D /\ from[Rank(s, i)] = i
  BY <1>2, <1>3, <1>6
<1> HIDE DEF place, from, t, D
<1>9. t \in Seq(Range(Names)) /\ Len(t) = Len(s) /\ DOMAIN t = D
  BY <1>1, <1>6, <1>7
<1>10. Range(t) = Range(s)
  <2>1. \A n \in D : t[n] \in Range(s)
    BY <1>6, <1>7 DEF Range, D
  <2>2. \A i \in D : s[i] = t[Rank(s, i)]
    BY <1>7, <1>8
  <2> QED
    BY <1>8, <1>9, <2>1, <2>2 DEF Range, D
<1>11. ASSUME IsInjective(s)
       PROVE  IsInjective(t) /\ \A m, n \in D : m < n => Pos(t[m]) < Pos(t[n])
  <2>1. \A i, j \in D : s[i] = s[j] => i = j
    BY <1>11 DEF IsInjective, D
  <2>2. IsInjective(t)
    <3>1. \A m, n \in D : t[m] = t[n] => m = n
      BY <1>6, <1>7, <2>1
    <3> QED
      BY <1>9, <3>1 DEF IsInjective
  <2>3. ASSUME NEW m \in D, NEW n \in D, m < n PROVE Pos(t[m]) < Pos(t[n])
    <3>1. from[m] \in D /\ from[n] \in D /\ from[m] # from[n]
      BY <1>1, <1>6, <2>3
    <3>2. from[n] \notin UpTo(s, from[m])
      BY <1>1, <1>6, <2>3, <3>1, RankFacts DEF D
    <3>3. from[m] \in UpTo(s, from[n])
      BY <3>1, <3>2, RankFacts DEF D
    <3> QED
      BY <1>7, <2>1, <2>3, <3>1, <3>3 DEF UpTo
  <2> QED
    BY <2>2, <2>3
<1> QED
  BY <1>9, <1>10, <1>11 DEF t

-----------------------------------------------------------------------------
(* The accumulator.                                                        *)

\* What a step tells: the files, exclusions and pruned directories it adds.
Told(a, b, files, excluded, pruned) ==
  /\ Sound(b) /\ (b.complete => a.complete)
  /\ Range(b.files) = Range(a.files) \cup files
  /\ PathsOf(b.excluded) = PathsOf(a.excluded) \cup excluded
  /\ PathsOf(b.pruned) = PathsOf(a.pruned) \cup pruned

\* Appending adds an element at the end.
LEMMA AppendFacts ==
  ASSUME NEW S, NEW s \in Seq(S), NEW x \in S
  PROVE  /\ Append(s, x) \in Seq(S) /\ Len(Append(s, x)) = Len(s) + 1 /\ Len(s) \in Nat
         /\ DOMAIN Append(s, x) = DOMAIN s \cup {Len(s) + 1} /\ DOMAIN s = 1 .. Len(s)
         /\ Append(s, x)[Len(s) + 1] = x /\ \A i \in DOMAIN s : Append(s, x)[i] = s[i]
         /\ Range(Append(s, x)) = Range(s) \cup {x}
<1>1. /\ Append(s, x) \in Seq(S) /\ Len(Append(s, x)) = Len(s) + 1 /\ Len(s) \in Nat
      /\ DOMAIN s = 1 .. Len(s) /\ DOMAIN Append(s, x) = 1 .. Len(s) + 1
      /\ Append(s, x)[Len(s) + 1] = x /\ \A i \in 1 .. Len(s) : Append(s, x)[i] = s[i]
  OBVIOUS
<1>2. 1 .. Len(s) + 1 = 1 .. Len(s) \cup {Len(s) + 1}
  BY <1>1
<1> HIDE <1>1
<1>3. DOMAIN Append(s, x) = DOMAIN s \cup {Len(s) + 1}
  BY <1>1, <1>2
<1>4. Range(Append(s, x)) = Range(s) \cup {x}
  <2>1. \A i \in DOMAIN Append(s, x) : Append(s, x)[i] \in Range(s) \cup {x}
    BY <1>1, <1>3 DEF Range
  <2>2. \A i \in DOMAIN s : s[i] \in Range(Append(s, x))
    BY <1>1, <1>3 DEF Range
  <2>3. x \in Range(Append(s, x))
    BY <1>1, <1>3 DEF Range
  <2> QED
    BY <2>1, <2>2, <2>3 DEF Range
<1> QED
  BY <1>1, <1>3, <1>4

\* Appending a new element keeps elements different.
LEMMA AppendNew ==
  ASSUME NEW S, NEW s \in Seq(S), NEW x \in S, IsInjective(s), x \notin Range(s)
  PROVE  IsInjective(Append(s, x))
<1>1. \A i \in DOMAIN s : s[i] # x
  BY DEF Range
<1>2. /\ DOMAIN Append(s, x) = DOMAIN s \cup {Len(s) + 1}
      /\ Append(s, x)[Len(s) + 1] = x /\ \A i \in DOMAIN s : Append(s, x)[i] = s[i]
  BY AppendFacts
<1>3. \A i, j \in DOMAIN s : s[i] = s[j] => i = j
  BY DEF IsInjective
<1>4. \A i, j \in DOMAIN Append(s, x) : Append(s, x)[i] = Append(s, x)[j] => i = j
  BY <1>1, <1>2, <1>3
<1> QED
  BY <1>4 DEF IsInjective

\* A sequence is its head and its tail, which share nothing if its elements are different.
LEMMA TailFacts ==
  ASSUME NEW S, NEW s \in Seq(S), s # <<>>
  PROVE  /\ Head(s) \in S /\ Tail(s) \in Seq(S) /\ Len(s) = Len(Tail(s)) + 1 /\ Len(Tail(s)) \in Nat
         /\ Range(s) = Range(Tail(s)) \cup {Head(s)}
         /\ IsInjective(s) => IsInjective(Tail(s)) /\ Head(s) \notin Range(Tail(s))
<1> DEFINE n == Len(s)
           t == Tail(s)
<1>1. n \in Nat \ {0} /\ DOMAIN s = 1 .. n /\ Head(s) = s[1] /\ \A i \in 1 .. n : s[i] \in S
  OBVIOUS
<1>2. t \in Seq(S) /\ Len(t) = n - 1 /\ DOMAIN t = 1 .. n - 1 /\ \A i \in 1 .. n - 1 : t[i] = s[i + 1]
  BY <1>1
<1>3. 1 \in 1 .. n /\ \A i \in 1 .. n - 1 : i + 1 \in 1 .. n /\ i + 1 # 1 /\ i \in Nat
  BY <1>1
<1> HIDE DEF t, n
<1>4. \A i \in 1 .. n : i # 1 => i - 1 \in 1 .. n - 1 /\ (i - 1) + 1 = i
  BY <1>1
<1>5. Range(s) = Range(t) \cup {Head(s)}
  <2>1. \A i \in 1 .. n : i # 1 => s[i] \in Range(t)
    BY <1>2, <1>4 DEF Range
  <2>2. \A i \in 1 .. n - 1 : t[i] \in Range(s)
    BY <1>1, <1>2, <1>3 DEF Range
  <2>3. Head(s) \in Range(s)
    BY <1>1, <1>3 DEF Range
  <2> QED
    BY <1>1, <1>2, <2>1, <2>2, <2>3 DEF Range
<1>6. ASSUME IsInjective(s) PROVE IsInjective(t) /\ Head(s) \notin Range(t)
  <2>1. \A i, j \in 1 .. n : s[i] = s[j] => i = j
    BY <1>1, <1>6 DEF IsInjective
  <2>2. \A i \in 1 .. n - 1 : t[i] # Head(s)
    BY <1>1, <1>2, <1>3, <2>1
  <2>3. ASSUME NEW i \in 1 .. n - 1, NEW j \in 1 .. n - 1, t[i] = t[j] PROVE i = j
    <3>1. i + 1 = j + 1
      BY <1>2, <1>3, <2>1, <2>3
    <3> QED
      BY <3>1
  <2> QED
    BY <1>2, <2>2, <2>3 DEF IsInjective, Range
<1>7. n = Len(t) + 1 /\ Len(t) \in Nat
  BY <1>1, <1>2
<1> QED
  BY <1>1, <1>2, <1>3, <1>5, <1>6, <1>7 DEF t, n

\* Reversing keeps the elements, and what is different stays different.
LEMMA ReverseFits ==
  ASSUME NEW S, NEW s \in Seq(S)
  PROVE  /\ Reverse(s) \in Seq(S) /\ Len(Reverse(s)) = Len(s) /\ Range(Reverse(s)) = Range(s)
         /\ IsInjective(s) => IsInjective(Reverse(s))
<1> DEFINE n == Len(s)
           t == Reverse(s)
<1>1. n \in Nat /\ DOMAIN s = 1 .. n /\ \A i \in 1 .. n : s[i] \in S
  OBVIOUS
<1>2. t = [i \in 1 .. n |-> s[(n - i) + 1]]
  BY DEF Reverse
<1>3. \A i \in 1 .. n : (n - i) + 1 \in 1 .. n /\ (n - ((n - i) + 1)) + 1 = i
  BY <1>1
<1> HIDE DEF t
<1>4. t \in Seq(S) /\ Len(t) = n /\ DOMAIN t = 1 .. n /\ \A i \in 1 .. n : t[i] = s[(n - i) + 1]
  BY <1>1, <1>2, <1>3
<1>5. n \in Nat
  BY <1>1
<1> HIDE DEF n
<1>6. \A i \in 1 .. n : s[i] \in Range(t) /\ t[i] \in Range(s)
  <2>1. \A i \in 1 .. n : t[(n - i) + 1] = s[i]
    BY <1>3, <1>4
  <2> QED
    BY <1>1, <1>3, <1>4, <2>1 DEF Range
<1>7. Range(t) = Range(s)
  BY <1>1, <1>4, <1>6 DEF Range
<1>8. ASSUME IsInjective(s) PROVE IsInjective(t)
  <2>1. \A i, j \in 1 .. n : s[i] = s[j] => i = j
    BY <1>1, <1>8 DEF IsInjective
  <2>2. ASSUME NEW i \in 1 .. n, NEW j \in 1 .. n, t[i] = t[j] PROVE i = j
    <3>1. (n - i) + 1 \in 1 .. n /\ (n - j) + 1 \in 1 .. n /\ s[(n - i) + 1] = s[(n - j) + 1]
      BY <1>3, <1>4, <2>2
    <3>2. (n - i) + 1 = (n - j) + 1
      BY <2>1, <3>1
    <3> QED
      BY <1>5, <3>2
  <2> QED
    BY <1>4, <2>2 DEF IsInjective
<1> QED
  BY <1>4, <1>7, <1>8 DEF t, n

\* A notice adds its path.
LEMMA NoticeFacts ==
  ASSUME NEW s \in Notices, NEW p \in Paths, NEW why \in Reasons
  PROVE  /\ Append(s, [path |-> p, reason |-> why]) \in Notices
         /\ Len(Append(s, [path |-> p, reason |-> why])) = Len(s) + 1 /\ Len(s) \in Nat
         /\ PathsOf(Append(s, [path |-> p, reason |-> why])) = PathsOf(s) \cup {p}
<1> DEFINE x == [path |-> p, reason |-> why]
<1>1. x \in Notice /\ x.path = p
  BY DEF Notice
<1> HIDE DEF x
<1>2. Append(s, x) \in Notices /\ Len(Append(s, x)) = Len(s) + 1 /\ Len(s) \in Nat /\ Range(Append(s, x)) = Range(s) \cup {x}
  BY <1>1, AppendFacts DEF Notices
<1>3. PathsOf(Append(s, x)) = PathsOf(s) \cup {p}
  BY <1>1, <1>2 DEF PathsOf
<1> QED
  BY <1>2, <1>3 DEF x

\* An accumulator with one notice more, or one more that was discovered, is sound again.
LEMMA SoundAgain ==
  ASSUME NEW a, Sound(a), NEW b \in Accumulators, b.files = a.files, b.seen = a.seen,
         PathsOf(a.excluded) \subseteq PathsOf(b.excluded),
         Len(b.excluded) + a.discovered <= Len(a.excluded) + b.discovered
  PROVE  Sound(b)
<1>1. a \in Accumulators
  BY DEF Sound
<1>2. Len(a.files) \in Nat /\ Len(a.excluded) \in Nat /\ Len(b.excluded) \in Nat /\ a.discovered \in Nat /\ b.discovered \in Nat
  BY <1>1 DEF Accumulators, Notices
<1>4. Len(a.files) + Len(a.excluded) <= a.discovered
  BY DEF Sound
<1>3. \A f, x, y, m, n \in Nat : f + x <= m /\ y + m <= x + n => f + y <= n
  OBVIOUS
<1>5. Len(a.files) + Len(b.excluded) <= b.discovered
  BY <1>2, <1>3, <1>4
<1> QED
  BY <1>5 DEF Sound

\* An exclusion adds its path, and counts it.
LEMMA ExcludeFits ==
  ASSUME NEW a, Sound(a), NEW p \in Paths, NEW why \in Reasons
  PROVE  /\ Told(a, Exclude(a, p, why), {}, {p}, {})
         /\ Told(a, Incomplete(Exclude(a, p, why)), {}, {p}, {}) /\ ~Incomplete(Exclude(a, p, why)).complete
<1> DEFINE b == Exclude(a, p, why)
           notices == Append(a.excluded, [path |-> p, reason |-> why])
           n == a.discovered + 1
<1>1. /\ b = [a EXCEPT !.excluded = notices, !.discovered = n]
      /\ Incomplete(b) = [b EXCEPT !.complete = FALSE]
  BY DEF Exclude, Incomplete
<1>2. a \in Accumulators /\ a.excluded \in Notices /\ a.discovered \in Nat
  BY DEF Sound, Accumulators
<1>3. notices \in Notices /\ Len(notices) = Len(a.excluded) + 1 /\ Len(a.excluded) \in Nat
      /\ PathsOf(notices) = PathsOf(a.excluded) \cup {p}
  BY <1>2, NoticeFacts
<1>6. n \in Nat /\ Len(notices) + a.discovered <= Len(a.excluded) + n
  BY <1>2, <1>3
<1> HIDE DEF notices, b, n
<1>4. /\ b \in Accumulators /\ b.files = a.files /\ b.seen = a.seen /\ b.excluded = notices
      /\ b.pruned = a.pruned /\ b.complete = a.complete /\ b.discovered = n
  BY <1>1, <1>2, <1>3, <1>6 DEF Accumulators
<1>5. LET c == Incomplete(b) IN
      /\ c \in Accumulators /\ c.files = a.files /\ c.seen = a.seen /\ c.excluded = notices
      /\ c.pruned = a.pruned /\ ~c.complete /\ c.discovered = n
  BY <1>1, <1>4 DEF Accumulators
<1>7. Sound(b) /\ Sound(Incomplete(b))
  BY <1>3, <1>4, <1>5, <1>6, SoundAgain
<1> QED
  BY <1>3, <1>4, <1>5, <1>7 DEF Told, b

\* A pruned directory is listed, and nothing else.
LEMMA PruneFits ==
  ASSUME NEW a, Sound(a), NEW d \in Paths, NEW why \in Reasons
  PROVE  Told(a, Prune(a, d, why), {}, {}, {d})
<1> DEFINE b == Prune(a, d, why)
           notices == Append(a.pruned, [path |-> d, reason |-> why])
<1>1. b = [a EXCEPT !.pruned = notices]
  BY DEF Prune
<1>2. a \in Accumulators /\ a.pruned \in Notices /\ Len(a.excluded) \in Nat /\ a.discovered \in Nat
  BY DEF Sound, Accumulators, Notices
<1>3. notices \in Notices /\ PathsOf(notices) = PathsOf(a.pruned) \cup {d}
  BY <1>2, NoticeFacts
<1> HIDE DEF notices, b
<1>4. /\ b \in Accumulators /\ b.complete = a.complete /\ b.files = a.files /\ b.pruned = notices
      /\ b.excluded = a.excluded /\ b.seen = a.seen /\ b.discovered = a.discovered
  BY <1>1, <1>2, <1>3 DEF Accumulators
<1>5. Sound(b)
  BY <1>2, <1>4, SoundAgain
<1> QED
  BY <1>3, <1>4, <1>5 DEF Told, b

\* An error tells of no path, and the walk is not complete.
LEMMA ErrorFits ==
  ASSUME NEW a, Sound(a)
  PROVE  /\ Told(a, TraversalError(a), {}, {}, {}) /\ ~TraversalError(a).complete
         /\ Told(a, [TraversalError(a) EXCEPT !.discovered = @ + 1], {}, {}, {})
         /\ ~[TraversalError(a) EXCEPT !.discovered = @ + 1].complete
<1> DEFINE b == TraversalError(a)
           n == a.discovered + 1
           m == a.errors + 1
           c == [b EXCEPT !.discovered = n]
<1>1. a \in Accumulators /\ a.discovered \in Nat /\ a.errors \in Nat /\ Len(a.excluded) \in Nat
  BY DEF Sound, Accumulators, Notices
<1>2. b = [a EXCEPT !.complete = FALSE, !.errors = m]
  BY <1>1 DEF TraversalError, Incomplete, Accumulators
<1>6. m \in Nat /\ n \in Nat /\ Len(a.excluded) + a.discovered <= Len(a.excluded) + n
  BY <1>1
<1>7. n = a.discovered + 1
  OBVIOUS
<1> HIDE DEF b, m, n
<1>3. /\ b \in Accumulators /\ ~b.complete /\ b.files = a.files /\ b.excluded = a.excluded /\ b.pruned = a.pruned
      /\ b.seen = a.seen /\ b.discovered = a.discovered
  BY <1>1, <1>2, <1>6 DEF Accumulators
<1>4. /\ c \in Accumulators /\ ~c.complete /\ c.files = a.files /\ c.excluded = a.excluded /\ c.pruned = a.pruned
      /\ c.seen = a.seen /\ c.discovered = n
  BY <1>1, <1>3, <1>6 DEF Accumulators
<1>8. c = [b EXCEPT !.discovered = @ + 1]
  BY <1>3, <1>7
<1> HIDE DEF c
<1>5. Sound(b) /\ Sound(c)
  BY <1>1, <1>3, <1>4, <1>6, SoundAgain
<1>9. Told(a, b, {}, {}, {}) /\ Told(a, c, {}, {}, {}) /\ ~b.complete /\ ~c.complete
  BY <1>3, <1>4, <1>5 DEF Told
<1> QED
  BY <1>8, <1>9 DEF b

\* A file that is considered is listed or excluded, and counted, unless it was met before.
LEMMA ConsiderFits ==
  ASSUME TreeKept, NEW a, Sound(a), NEW p \in Range(Names), NEW stack, NEW hit \in BOOLEAN,
         FileExclusion(p, disk[p].size, stack) \in Reasons
  PROVE  LET b == ConsiderFile(a, p, stack, hit) IN
         \/ Told(a, b, {}, {}, {}) /\ (b.complete => ~hit /\ p \in Range(b.files) \cup PathsOf(b.excluded))
         \/ Told(a, b, {p}, {}, {}) /\ ~hit /\ FileExclusion(p, disk[p].size, stack) = Nothing
         \/ Told(a, b, {}, {p}, {}) /\ ~hit /\ FileExclusion(p, disk[p].size, stack) # Nothing
<1> DEFINE why == FileExclusion(p, disk[p].size, stack)
           s == a.seen \cup {p}
           d == [a EXCEPT !.seen = s]
           n == a.discovered + 1
           fs == Append(a.files, p)
           b == ConsiderFile(a, p, stack, hit)
<1> SUFFICES \/ Told(a, b, {}, {}, {}) /\ (b.complete => ~hit /\ p \in Range(b.files) \cup PathsOf(b.excluded))
             \/ Told(a, b, {p}, {}, {}) /\ ~hit /\ why = Nothing
             \/ Told(a, b, {}, {p}, {}) /\ ~hit /\ why # Nothing
  OBVIOUS
<1>1. b = IF hit THEN [TraversalError(a) EXCEPT !.discovered = @ + 1]
          ELSE IF p \in a.seen THEN a
          ELSE IF why # Nothing THEN Exclude(d, p, why)
          ELSE [d EXCEPT !.files = Append(@, p), !.discovered = @ + 1]
  BY DEF ConsiderFile
<1>2. a \in Accumulators /\ p \in Paths
  BY DEF Sound, Paths
<1>3. /\ a.files \in Seq(Range(Names)) /\ a.seen \in SUBSET Range(Names) /\ a.discovered \in Nat
      /\ a.excluded \in Notices /\ Len(a.excluded) \in Nat /\ Len(a.files) \in Nat
  BY <1>2 DEF Accumulators, Notices
<1>4. fs \in Seq(Range(Names)) /\ Len(fs) = Len(a.files) + 1 /\ Range(fs) = Range(a.files) \cup {p}
  BY <1>3, AppendFacts
<1>5. s \in SUBSET Range(Names) /\ n \in Nat
  BY <1>3
<1>6. [d EXCEPT !.files = Append(@, p), !.discovered = @ + 1] = [a EXCEPT !.seen = s, !.files = fs, !.discovered = n]
  BY <1>2 DEF Accumulators
<1>7. p \notin a.seen => p \notin Range(a.files)
  BY DEF Sound
<1>8. p \notin a.seen => IsInjective(fs)
  BY <1>3, <1>7, AppendNew DEF Sound
<1>9. p \in a.seen => p \in Range(a.files) \cup PathsOf(a.excluded)
  BY DEF Sound
<1>10. Len(fs) + Len(a.excluded) <= n
  <2>1. Len(a.files) + Len(a.excluded) <= a.discovered
    BY DEF Sound
  <2>2. \A f, x, m \in Nat : f + x <= m => f + 1 + x <= m + 1
    OBVIOUS
  <2>3. Len(a.files) + 1 + Len(a.excluded) <= a.discovered + 1
    BY <1>3, <2>1, <2>2
  <2> QED
    BY <1>4, <2>3
<1>11. CASE hit
  BY <1>1, <1>11, ErrorFits
<1>12. CASE ~hit /\ p \in a.seen
  BY <1>1, <1>9, <1>12 DEF Told
<1>13. CASE ~hit /\ p \notin a.seen /\ why = Nothing
  <2> DEFINE c == [a EXCEPT !.seen = s, !.files = fs, !.discovered = n]
  <2>1. b = c
    BY <1>1, <1>6, <1>13
  <2> HIDE DEF fs, s, n, b
  <2>2. /\ c \in Accumulators /\ c.files = fs /\ c.seen = s /\ c.discovered = n
        /\ c.excluded = a.excluded /\ c.pruned = a.pruned /\ c.complete = a.complete
    BY <1>2, <1>4, <1>5 DEF Accumulators
  <2> HIDE DEF c
  <2>3. s = a.seen \cup {p} /\ Range(a.files) \subseteq a.seen /\ a.seen \subseteq Range(a.files) \cup PathsOf(a.excluded)
    BY DEF s, Sound
  <2>4. Sound(c)
    BY <1>4, <1>8, <1>10, <1>13, <2>2, <2>3 DEF Sound
  <2>5. Told(a, c, {p}, {}, {})
    BY <1>4, <2>2, <2>4 DEF Told
  <2> QED
    BY <1>13, <2>1, <2>5
<1>14. CASE ~hit /\ p \notin a.seen /\ why # Nothing
  <2> DEFINE notices == Append(a.excluded, [path |-> p, reason |-> why])
             c == [a EXCEPT !.seen = s, !.excluded = notices, !.discovered = n]
  <2>1. b = c
    <3>1. b = Exclude(d, p, why)
      BY <1>1, <1>14
    <3>2. Exclude(d, p, why) = [d EXCEPT !.excluded = Append(d.excluded, [path |-> p, reason |-> why]), !.discovered = d.discovered + 1]
      BY DEF Exclude
    <3>3. d.excluded = a.excluded /\ d.discovered = a.discovered
      BY <1>2 DEF Accumulators
    <3> QED
      BY <1>2, <3>1, <3>2, <3>3 DEF Accumulators
  <2>2. notices \in Notices /\ Len(notices) = Len(a.excluded) + 1 /\ PathsOf(notices) = PathsOf(a.excluded) \cup {p}
    BY <1>2, <1>3, NoticeFacts
  <2>3. s = a.seen \cup {p} /\ Range(a.files) \subseteq a.seen /\ a.seen \subseteq Range(a.files) \cup PathsOf(a.excluded)
    BY DEF Sound
  <2>4. Len(a.files) + Len(notices) <= n
    <3>1. Len(a.files) + Len(a.excluded) <= a.discovered
      BY DEF Sound
    <3>2. \A f, x, m \in Nat : f + x <= m => f + (x + 1) <= m + 1
      OBVIOUS
    <3>3. Len(a.files) + (Len(a.excluded) + 1) <= a.discovered + 1
      BY <1>3, <3>1, <3>2
    <3> QED
      BY <2>2, <3>3
  <2> HIDE DEF s, n, b, notices
  <2>5. /\ c \in Accumulators /\ c.files = a.files /\ c.seen = s /\ c.discovered = n
        /\ c.excluded = notices /\ c.pruned = a.pruned /\ c.complete = a.complete
    BY <1>2, <1>5, <2>2 DEF Accumulators
  <2> HIDE DEF c
  <2>6. IsInjective(a.files)
    BY DEF Sound
  <2>7. Sound(c)
    BY <2>2, <2>3, <2>4, <2>5, <2>6 DEF Sound
  <2>8. Told(a, c, {}, {p}, {})
    BY <2>2, <2>5, <2>7 DEF Told
  <2> QED
    BY <1>14, <2>1, <2>8
<1> QED
  BY <1>11, <1>12, <1>13, <1>14

-----------------------------------------------------------------------------
(* Rules.                                                                  *)

\* Whatever is told of a path is a reason.
LEMMA ReasonsFit ==
  ASSUME TreeKept, NEW stack
  PROVE  /\ \A p \in Range(Names) : FileExclusion(p, disk[p].size, stack) \in Reasons
         /\ \A d \in Paths : DirExclusion(d, stack) \in Reasons
         /\ \A kind \in Kinds \ {"missing"} : Refusal(kind) \in Reasons
<1>1. \A p \in Paths, isDir \in BOOLEAN : Ignored(stack, p, isDir) \in Reasons
  BY DEF Ignored, Reasons, InventoryExclusion
<1>2. \A p \in Range(Names) : FileClass[p] \in Reasons /\ p \in Paths
  BY TreeAssumption DEF Paths, Reasons
<1>3. \A d \in Paths : DirClass[d] \in Reasons
  BY TreeAssumption DEF Reasons
<1>4. "empty" \in Reasons /\ "file_too_large" \in Reasons
  BY DEF Reasons, InventoryExclusion
<1>5. \A p \in Range(Names) : FileExclusion(p, disk[p].size, stack) \in Reasons
  BY <1>1, <1>2, <1>4 DEF FileExclusion
<1>6. \A d \in Paths : DirExclusion(d, stack) \in Reasons
  BY <1>1, <1>3 DEF DirExclusion
<1>7. \A kind \in Kinds \ {"missing"} : Refusal(kind) \in Reasons
  BY DEF Refusal, Kinds, Reasons, InventoryExclusion
<1> QED
  BY <1>5, <1>6, <1>7

\* The rules that decide in one list.
Lasts(rules, p, isDir) ==
  {r \in Range(rules) : \E i \in Deciding(rules, p, isDir) : r = rules[i] /\ \A j \in Deciding(rules, p, isDir) : j <= i}

\* The rules of the innermost directory decide where they say anything.
LEMMA DecisionOfAppend ==
  ASSUME NEW S, NEW s \in Seq(S), NEW x \in S, NEW p, NEW isDir
  PROVE  Decision(Append(s, x), p, isDir)
           = IF Deciding(x, p, isDir) = {} THEN Decision(s, p, isDir) ELSE Lasts(x, p, isDir)
<1> DEFINE t == Append(s, x)
           n == Len(s) + 1
           Chosen(st, d, r) == /\ d \in DOMAIN st
                               /\ \E i \in Deciding(st[d], p, isDir) : r = st[d][i] /\ \A j \in Deciding(st[d], p, isDir) : j <= i
                               /\ \A e \in DOMAIN st : e > d => Deciding(st[e], p, isDir) = {}
<1>1. /\ Len(s) \in Nat /\ DOMAIN s = 1 .. Len(s) /\ DOMAIN t = DOMAIN s \cup {n}
      /\ t[n] = x /\ \A i \in DOMAIN s : t[i] = s[i]
  BY AppendFacts
<1>2. \A st : \A d \in DOMAIN st : \A i \in Deciding(st[d], p, isDir) :
        st[d][i] \in UNION {Range(st[e]) : e \in DOMAIN st}
  BY DEF Deciding, Range
<1>3. \A st : \A r : r \in Decision(st, p, isDir) <=> \E d \in DOMAIN st : Chosen(st, d, r)
  BY <1>2 DEF Decision
<1>4. \A r : r \in Lasts(x, p, isDir) <=>
        \E i \in Deciding(x, p, isDir) : r = x[i] /\ \A j \in Deciding(x, p, isDir) : j <= i
  BY DEF Lasts, Deciding, Range
<1>5. n \notin DOMAIN s /\ \A d \in DOMAIN s : n > d /\ ~(d > n)
  BY <1>1
<1>6. ASSUME NEW r PROVE Chosen(t, n, r) <=> r \in Lasts(x, p, isDir)
  BY <1>1, <1>4, <1>5
<1>7. ASSUME NEW r, NEW d \in DOMAIN s
      PROVE  Chosen(t, d, r) <=> Chosen(s, d, r) /\ Deciding(x, p, isDir) = {}
  BY <1>1, <1>5
<1>8. Deciding(x, p, isDir) = {} => Lasts(x, p, isDir) = {}
  BY <1>4
<1> HIDE DEF Chosen, t
<1>9. \A r : r \in Decision(t, p, isDir) <=> Chosen(t, n, r) \/ \E d \in DOMAIN s : Chosen(t, d, r)
  BY <1>1, <1>3
<1>10. \A r : r \in Decision(t, p, isDir) <=>
         r \in (IF Deciding(x, p, isDir) = {} THEN Decision(s, p, isDir) ELSE Lasts(x, p, isDir))
  BY <1>3, <1>6, <1>7, <1>8, <1>9
<1> QED
  BY <1>10 DEF t

\* Stacks that agree go on to agree, and the rules of a directory count once if read twice.
LEMMA SameAppend ==
  ASSUME NEW S, NEW s \in Seq(S), NEW t \in Seq(S), NEW x \in S
  PROVE  /\ SameRules(s, t) => SameRules(Append(s, x), Append(t, x))
         /\ SameRules(Append(Append(s, x), x), Append(s, x))
<1>1. \A u \in Seq(S) : \A p \in Paths, isDir \in BOOLEAN :
        Decision(Append(u, x), p, isDir)
          = IF Deciding(x, p, isDir) = {} THEN Decision(u, p, isDir) ELSE Lasts(x, p, isDir)
  BY DecisionOfAppend
<1>2. ASSUME SameRules(s, t), NEW p \in Paths, NEW isDir \in BOOLEAN
      PROVE  Ignored(Append(s, x), p, isDir) = Ignored(Append(t, x), p, isDir)
  <2>1. Ignored(s, p, isDir) = Ignored(t, p, isDir)
    BY <1>2 DEF SameRules
  <2> QED
    BY <1>1, <2>1 DEF Ignored
<1>3. Append(s, x) \in Seq(S)
  OBVIOUS
<1>4. ASSUME NEW p \in Paths, NEW isDir \in BOOLEAN
      PROVE  Ignored(Append(Append(s, x), x), p, isDir) = Ignored(Append(s, x), p, isDir)
  <2>1. Decision(Append(Append(s, x), x), p, isDir) = Decision(Append(s, x), p, isDir)
    BY <1>1, <1>3
  <2> QED
    BY <2>1 DEF Ignored
<1> QED
  BY <1>2, <1>4 DEF SameRules

\* The stack of a directory is that of its parent with its own rules.
LEMMA StackFacts ==
  ASSUME NEW d \in Paths
  PROVE  /\ IgnoreStackFor(d) \in Seq(Lists) /\ DirectoryIgnoreFiles(d) \in Lists
         /\ d # Root => IgnoreStackFor(d) = Append(IgnoreStackFor(Parent(d)), DirectoryIgnoreFiles(d))
<1>1. ASSUME NEW x \in Paths PROVE DirectoryIgnoreFiles(x) \in Lists
  <2>1. Parsed(Gitignore[x], FALSE) \in Gits
    BY DEF Parsed, Gits
  <2>2. Parsed(Narrowing[x], TRUE) \in Narrows
    BY DEF Parsed, Narrows
  <2> DEFINE y == <<Parsed(Gitignore[x], FALSE), Parsed(Narrowing[x], TRUE)>>
  <2>3. y \in Gits \X Narrows /\ DirectoryIgnoreFiles(x) = y[1] \o y[2]
    BY <2>1, <2>2 DEF DirectoryIgnoreFiles
  <2> HIDE DEF y
  <2> QED
    BY <2>3 DEF Lists
<1>2. /\ Len(Above[d]) \in Nat \ {0} /\ DOMAIN Above[d] = 1 .. Len(Above[d]) /\ Above[d][Len(Above[d])] = d
      /\ \A i \in 1 .. Len(Above[d]) : Above[d][i] \in Paths
  BY PathFacts
<1>3. IgnoreStackFor(d) = [i \in 1 .. Len(Above[d]) |-> DirectoryIgnoreFiles(Above[d][i])]
  BY <1>2 DEF IgnoreStackFor
<1>4. IgnoreStackFor(d) \in Seq(Lists)
  BY <1>1, <1>2, <1>3
<1>5. ASSUME d # Root
      PROVE  IgnoreStackFor(d) = Append(IgnoreStackFor(Parent(d)), DirectoryIgnoreFiles(d))
  <2> DEFINE n == Len(Above[d])
             s == IgnoreStackFor(Parent(d))
  <2>1. d \in Range(Names)
    BY <1>5 DEF Paths
  <2>2. /\ Parent(d) \in Paths /\ Len(Above[Parent(d)]) = n - 1 /\ n > 1
        /\ \A j \in 1 .. n - 1 : Above[Parent(d)][j] = Above[d][j]
    BY <2>1, ParentFacts
  <2>3. DOMAIN Above[Parent(d)] = 1 .. n - 1
    BY <2>2, PathFacts
  <2>4. s = [i \in 1 .. n - 1 |-> DirectoryIgnoreFiles(Above[d][i])]
    BY <2>2, <2>3 DEF IgnoreStackFor
  <2>5. \A i \in 1 .. n - 1 : Above[d][i] \in Paths
    BY <1>2
  <2>6. s \in Seq(Lists) /\ Len(s) = n - 1
    BY <1>1, <1>2, <2>2, <2>4, <2>5
  <2> DEFINE t == Append(s, DirectoryIgnoreFiles(d))
             u == IgnoreStackFor(d)
  <2>7. /\ t \in Seq(Lists) /\ Len(t) = n /\ t[n] = DirectoryIgnoreFiles(d)
        /\ \A i \in 1 .. n - 1 : t[i] = s[i]
    BY <1>1, <1>2, <2>2, <2>6, AppendFacts
  <2>8. u \in Seq(Lists) /\ Len(u) = n /\ u[n] = DirectoryIgnoreFiles(d) /\ \A i \in 1 .. n - 1 : u[i] = s[i]
    BY <1>2, <1>3, <1>4, <2>4
  <2> HIDE DEF t, u, s
  <2>9. \A i \in 1 .. n : t[i] = u[i]
    BY <1>2, <2>7, <2>8
  <2>10. t = u
    BY <2>7, <2>8, <2>9
  <2> QED
    BY <2>10 DEF t, u, s
<1> QED
  BY <1>1, <1>4, <1>5

-----------------------------------------------------------------------------
(* The directories being walked.                                           *)

\* What is listed is there.
LEMMA EntriesFit ==
  ASSUME TreeKept, NEW d \in Paths
  PROVE  /\ Entries(d) \in SUBSET Listable
         /\ \A q \in Entries(d) : Parent(q.path) = d /\ q.kind = disk[q.path].kind
         /\ \A p \in Range(Names) : Parent(p) = d /\ disk[p].kind # "missing" =>
              \E q \in Entries(d) : q.path = p
<1> DEFINE here == {q \in Range(Names) : Parent(q) = d /\ disk[q].kind # "missing"}
           r(p) == [path |-> p, kind |-> disk[p].kind]
<1>1. \A p \in Range(Names) : disk[p].kind \in Kinds
  BY DEF TreeKept, Paths, Nodes
<1>2. \A p \in here : p \in Range(Names) /\ Parent(p) = d /\ disk[p].kind \in Kinds \ {"missing"}
  BY <1>1
<1>3. Entries(d) = {r(p) : p \in here}
  BY DEF Entries
<1>4. \A p : r(p).path = p /\ r(p).kind = disk[p].kind
  OBVIOUS
<1>5. \A p \in here : r(p) \in Listable
  BY <1>2 DEF Listable
<1>6. \A p \in Range(Names) : Parent(p) = d /\ disk[p].kind # "missing" => p \in here
  OBVIOUS
<1> HIDE DEF r, here
<1>7. \A q \in Entries(d) : \E p \in here : q = r(p)
  BY <1>3
<1>8. \A p \in here : r(p) \in Entries(d)
  BY <1>3
<1>9. Entries(d) \in SUBSET Listable
  BY <1>5, <1>7
<1>10. \A q \in Entries(d) : Parent(q.path) = d /\ q.kind = disk[q.path].kind
  BY <1>2, <1>4, <1>7
<1>11. \A p \in Range(Names) : Parent(p) = d /\ disk[p].kind # "missing" => \E q \in Entries(d) : q.path = p
  BY <1>4, <1>6, <1>8
<1> QED
  BY <1>9, <1>10, <1>11

\* Once an entry was looked at, the others are still to come.
LEMMA WithoutFits ==
  ASSUME frames \in Seq(Frames), \A i \in DOMAIN frames : frames[i].rest # {}, frames # <<>>,
         NEW e \in Last(frames).rest
  PROVE  /\ Without(e) \in Seq(Frames) /\ Last(frames) \in Frames /\ e \in Listable /\ e \in ToCome(frames)
         /\ \E i \in DOMAIN frames : Last(frames) = frames[i]
         /\ \A i \in DOMAIN Without(e) :
              /\ i \in DOMAIN frames /\ Without(e)[i].rest # {}
              /\ Without(e)[i].stack = frames[i].stack /\ Without(e)[i].rest \subseteq frames[i].rest
         /\ ToCome(frames) \subseteq ToCome(Without(e)) \cup {e} /\ ToCome(Without(e)) \subseteq ToCome(frames)
<1> DEFINE n == Len(frames)
           w == Without(e)
<1>1. /\ n \in Nat \ {0} /\ DOMAIN frames = 1 .. n /\ Last(frames) = frames[n]
      /\ \A i \in 1 .. n : frames[i] \in Frames
  BY DEF Last
<1>2. n \in 1 .. n /\ Last(frames) \in Frames /\ e \in frames[n].rest
  BY <1>1
<1>3. e \in Listable /\ \A i \in 1 .. n : frames[i].rest \in SUBSET Listable /\ frames[i].stack \in Seq(Lists)
  BY <1>1, <1>2 DEF Frames
<1>4. CASE Last(frames).rest = {e}
  <2>1. w = SubSeq(frames, 1, n - 1)
    BY <1>4 DEF Without, Front
  <2>2. w \in Seq(Frames) /\ DOMAIN w = 1 .. n - 1 /\ \A i \in 1 .. n - 1 : w[i] = frames[i]
    BY <1>1, <2>1
  <2>3. \A i \in DOMAIN w : i \in DOMAIN frames
    BY <1>1, <2>2
  <2>4. \A i \in DOMAIN frames : i = n \/ i \in DOMAIN w
    BY <1>1, <2>2
  <2> HIDE DEF w, n
  <2>5. ToCome(frames) \subseteq ToCome(w) \cup {e}
    BY <1>1, <1>4, <2>2, <2>4 DEF ToCome
  <2>6. ToCome(w) \subseteq ToCome(frames)
    BY <2>2, <2>3 DEF ToCome
  <2>7. e \in ToCome(frames)
    BY <1>1, <1>2 DEF ToCome
  <2> QED
    BY <1>1, <1>2, <1>3, <2>2, <2>3, <2>5, <2>6, <2>7 DEF w
<1>5. CASE Last(frames).rest # {e}
  <2> DEFINE rest == frames[n].rest \ {e}
             top == [frames[n] EXCEPT !.rest = rest]
  <2>1. w = [frames EXCEPT ![n] = top]
    BY <1>1, <1>2, <1>5 DEF Without
  <2>2. top \in Frames /\ top.rest = rest /\ top.stack = frames[n].stack
    BY <1>1, <1>2 DEF Frames
  <2>3. rest # {} /\ rest \subseteq frames[n].rest /\ frames[n].rest \subseteq rest \cup {e}
    BY <1>1, <1>2, <1>5
  <2> HIDE DEF w, n, top, rest
  <2>4. w \in Seq(Frames) /\ DOMAIN w = 1 .. n /\ w[n] = top /\ \A i \in 1 .. n : i # n => w[i] = frames[i]
    <3>1. DOMAIN w = 1 .. n /\ w[n] = top /\ \A i \in 1 .. n : i # n => w[i] = frames[i]
      BY <1>1, <1>2, <2>1
    <3>2. w = [i \in 1 .. n |-> w[i]]
      BY <1>1, <2>1
    <3>3. \A i \in 1 .. n : w[i] \in Frames
      BY <1>1, <2>2, <3>1
    <3>4. w \in Seq(Frames)
      BY <1>1, <3>2, <3>3
    <3> QED
      BY <3>1, <3>4
  <2>5. \A i \in 1 .. n : /\ w[i].stack = frames[i].stack /\ w[i].rest \subseteq frames[i].rest /\ w[i].rest # {}
                          /\ frames[i].rest \subseteq w[i].rest \cup {e}
    <3>1. ASSUME NEW i \in 1 .. n
          PROVE  /\ w[i].stack = frames[i].stack /\ w[i].rest \subseteq frames[i].rest /\ w[i].rest # {}
                 /\ frames[i].rest \subseteq w[i].rest \cup {e}
      <4>1. CASE i = n
        BY <2>2, <2>3, <2>4, <4>1
      <4>2. CASE i # n
        BY <1>1, <2>4, <4>2
      <4> QED
        BY <4>1, <4>2
    <3> QED
      BY <3>1
  <2>6. ToCome(frames) \subseteq ToCome(w) \cup {e}
    BY <1>1, <2>4, <2>5 DEF ToCome
  <2>7. ToCome(w) \subseteq ToCome(frames)
    BY <1>1, <2>4, <2>5 DEF ToCome
  <2>8. e \in ToCome(frames)
    BY <1>1, <1>2 DEF ToCome
  <2> QED
    BY <1>1, <1>2, <1>3, <2>4, <2>5, <2>6, <2>7, <2>8 DEF w
<1> QED
  BY <1>4, <1>5

\* A directory that is entered adds what it lists, under the rules it is walked with.
LEMMA WalkedFits ==
  ASSUME TreeKept, NEW left \in Seq(Frames), NEW d \in Paths, NEW stack \in Seq(Lists)
  PROVE  /\ Walked(left, d, stack) \in Seq(Frames)
         /\ ToCome(Walked(left, d, stack)) = ToCome(left) \cup Entries(d)
         /\ \A i \in DOMAIN Walked(left, d, stack) :
              \/ i \in DOMAIN left /\ Walked(left, d, stack)[i] = left[i]
              \/ /\ Walked(left, d, stack)[i].rest = Entries(d) /\ Entries(d) # {}
                 /\ Walked(left, d, stack)[i].stack = stack
<1> DEFINE w == Walked(left, d, stack)
           f == [rest |-> Entries(d), stack |-> stack]
<1>1. CASE Entries(d) = {}
  BY <1>1 DEF Walked
<1>2. CASE Entries(d) # {}
  <2>1. w = Append(left, f)
    BY <1>2 DEF Walked
  <2>2. f \in Frames /\ f.rest = Entries(d) /\ f.stack = stack
    BY EntriesFit DEF Frames
  <2> HIDE DEF f, w
  <2>3. /\ w \in Seq(Frames) /\ DOMAIN w = DOMAIN left \cup {Len(left) + 1}
        /\ w[Len(left) + 1] = f /\ \A i \in DOMAIN left : w[i] = left[i]
    BY <2>1, <2>2, AppendFacts
  <2>4. ToCome(w) = ToCome(left) \cup Entries(d)
    BY <2>2, <2>3 DEF ToCome
  <2> QED
    BY <1>2, <2>2, <2>3, <2>4 DEF w
<1> QED
  BY <1>1, <1>2

-----------------------------------------------------------------------------
(* A step of the walk.                                                     *)

\* Of two paths on the way to a third, one is on the way to the other.
LEMMA AboveLinear ==
  ASSUME NEW p \in Paths, NEW x \in Range(Above[p]), NEW y \in Range(Above[p])
  PROVE  x \in Range(Above[y]) \/ y \in Range(Above[x])
<1>1. PICK i \in 1 .. Len(Above[p]) : x = Above[p][i]
  BY PathFacts DEF Range
<1>2. PICK j \in 1 .. Len(Above[p]) : y = Above[p][j]
  BY PathFacts DEF Range
<1>3. /\ x \in Paths /\ Len(Above[x]) = i /\ \A k1 \in 1 .. i : Above[x][k1] = Above[p][k1]
      /\ y \in Paths /\ Len(Above[y]) = j /\ \A k1 \in 1 .. j : Above[y][k1] = Above[p][k1]
  BY <1>1, <1>2, PathFacts
<1>4. DOMAIN Above[x] = 1 .. i /\ DOMAIN Above[y] = 1 .. j /\ i \in Nat /\ j \in Nat
  BY <1>1, <1>2, <1>3, PathFacts
<1>5. CASE i <= j
  <2>1. i \in DOMAIN Above[y] /\ Above[y][i] = x
    BY <1>1, <1>3, <1>4, <1>5
  <2> QED
    BY <2>1 DEF Range
<1>6. CASE j <= i
  <2>1. j \in DOMAIN Above[x] /\ Above[x][j] = y
    BY <1>2, <1>3, <1>4, <1>6
  <2> QED
    BY <2>1 DEF Range
<1> QED
  BY <1>4, <1>5, <1>6

\* What is on the way to a file that is asked for is there, and resolves to what it was.
LEMMA WayFacts ==
  ASSUME TreeKept, NEW e, NEW p \in Range(Names), Asks(e, p), NEW q \in Range(Above[p])
  PROVE  /\ p \in Paths /\ q \in Paths /\ Range(Above[q]) \cap touched = {} /\ q \notin touched
         /\ disk[q] = Tree[q] /\ Resolve(q) = Tree[q].kind
         /\ Tree[q].kind = IF q = p THEN "file" ELSE "dir"
<1>1. p \in Paths /\ Tree[p].kind = "file" /\ Range(Above[p]) \cap touched = {}
  BY DEF Asks, Paths
<1>2. q \in Paths /\ Range(Above[q]) \subseteq Range(Above[p])
  BY <1>1, AboveNested
<1>3. \A x \in Range(Above[p]) : x \in Paths /\ disk[x] = Tree[x] /\ (x # p => Tree[x].kind = "dir")
  BY <1>1, Untouched
<1>4. Tree[q].kind = IF q = p THEN "file" ELSE "dir"
  BY <1>1, <1>3
<1>5. Range(Above[q]) \cap touched = {}
  BY <1>1, <1>2
<1>6. disk[q] = Tree[q] /\ Resolve(q) = Tree[q].kind
  BY <1>2, <1>4, <1>5, Untouched
<1> QED
  BY <1>1, <1>2, <1>4, <1>5, <1>6

\* A directory on the way to a file that is asked for lists what is next on that way.
LEMMA EnteredOnTheWay ==
  ASSUME TreeKept, NEW e, NEW p \in Range(Names), Asks(e, p), NEW q \in Range(Above[p]), q # p,
         e \in Range(Above[q])
  PROVE  \E x \in Entries(q) : x.path \in Below(e, p)
<1>1. p \in Paths /\ q \in Paths
  BY WayFacts
<1>2. PICK c \in Range(Above[p]) : c \in Range(Names) /\ Parent(c) = q /\ c \notin Range(Above[q])
  BY <1>1, NextOnTheWay
<1>3. disk[c].kind # "missing"
  BY <1>2, WayFacts
<1>4. PICK x \in Entries(q) : x.path = c
  BY <1>1, <1>2, <1>3, EntriesFit
<1>5. Range(Above[e]) \subseteq Range(Above[q])
  BY <1>1, AboveNested
<1> QED
  BY <1>2, <1>4, <1>5 DEF Below

\* What a step makes of a path p, leaving the frames in left: a file listed, excluded,
\* pruned, an error, something met before, or a directory that is entered.
NotADirectory(p) == Range(Above[p]) \cap touched = {} => Tree[p].kind # "dir"

Missed(a, b) == Told(a, b, {}, {}, {}) /\ ~b.complete
Met(a, b, p) ==
  Told(a, b, {}, {}, {}) /\ NotADirectory(p) /\ (b.complete => p \in Range(b.files) \cup PathsOf(b.excluded))
Added(a, b, p, quiet) ==
  /\ Told(a, b, {p}, {}, {}) /\ NotADirectory(p)
  /\ quiet => \E e \in Range(asked) : Sought(e, p)
LeftOut(a, b, p, quiet) ==
  /\ Told(a, b, {}, {p}, {}) /\ (b.complete => NotADirectory(p))
  /\ quiet /\ p \in Range(Names) => ~Admitted(p)
Dropped(a, b, p, walk, quiet) ==
  /\ Told(a, b, {}, {}, {p})
  /\ ~walk /\ Range(Above[p]) \cap touched = {} => Tree[p].kind \notin {"file", "dir"}
  /\ quiet => disk[p].kind = "dir" /\ DirExclusion(p, RulesAt(p)) # Nothing
Entered(a, b, left, fs, p, quiet) ==
  /\ b = a
  /\ Range(Above[p]) \cap touched = {} => Tree[p].kind = "dir"
  /\ \E stack \in Seq(Lists) :
       /\ fs = Walked(left, p, stack)
       /\ quiet => SameRules(stack, IgnoreStackFor(p)) /\ \E e \in Range(asked) : Reached(e, p)
Looked(a, b, left, fs, p, walk, quiet) ==
  \/ fs = left /\ \/ Missed(a, b) \/ Met(a, b, p) \/ Added(a, b, p, quiet)
                  \/ LeftOut(a, b, p, quiet) \/ Dropped(a, b, p, walk, quiet)
  \/ Entered(a, b, left, fs, p, quiet)

\* The frames that are left: each with something to come, of the kind it had at first if
\* nobody touched it.
Walking(fs) ==
  /\ fs \in Seq(Frames)
  /\ \A i \in DOMAIN fs : fs[i].rest # {}
  /\ \A q \in ToCome(fs) : q.path \notin touched => q.kind = Tree[q.path].kind

\* After such a step the accumulator and the frames are sound.
LEMMA LookedIsSound ==
  ASSUME TreeKept, NEW a, Sound(a), NEW b, NEW left, Walking(left), NEW fs, NEW p \in Paths, NEW walk, NEW quiet,
         Looked(a, b, left, fs, p, walk, quiet)
  PROVE  Sound(b) /\ Walking(fs)
<1>1. CASE fs = left /\ \E x, y, z : Told(a, b, x, y, z)
  BY <1>1 DEF Told
<1>2. CASE Entered(a, b, left, fs, p, quiet)
  <2>1. PICK stack \in Seq(Lists) : fs = Walked(left, p, stack)
    BY <1>2 DEF Entered
  <2>2. left \in Seq(Frames)
    BY DEF Walking
  <2>3. /\ fs \in Seq(Frames) /\ ToCome(fs) = ToCome(left) \cup Entries(p)
        /\ \A i \in DOMAIN fs : \/ i \in DOMAIN left /\ fs[i] = left[i]
                                \/ fs[i].rest = Entries(p) /\ Entries(p) # {} /\ fs[i].stack = stack
    BY <2>1, <2>2, WalkedFits
  <2>4. \A q \in Entries(p) : q.path \in Paths /\ q.kind = disk[q.path].kind
    BY EntriesFit DEF Listable, Paths
  <2>5. \A q \in ToCome(fs) : q.path \notin touched => q.kind = Tree[q.path].kind
    BY <2>3, <2>4 DEF Walking, TreeKept
  <2>6. \A i \in DOMAIN fs : fs[i].rest # {}
    BY <2>3 DEF Walking
  <2>7. Sound(b)
    BY <1>2 DEF Entered
  <2> QED
    BY <2>3, <2>5, <2>6, <2>7 DEF Walking
<1> QED
  BY <1>1, <1>2 DEF Looked, Missed, Met, Added, LeftOut, Dropped

\* A step loses nothing that is asked for: what was to come by way of p is settled, or the
\* next path on the way is to come.
LEMMA LookedCovers ==
  ASSUME TreeKept, NEW a, NEW b, NEW sc, NEW sc2, NEW left \in Seq(Frames), NEW before, NEW fs, NEW p \in Paths,
         NEW walk \in BOOLEAN, NEW quiet, Looked(a, b, left, fs, p, walk, quiet), Covers(a, sc, before),
         \A e \in Range(sc) : e \in Range(sc2) \/ (~walk /\ e = p),
         \A x \in ToCome(before) : x \in ToCome(left) \/ (walk /\ x.path = p)
  PROVE  Covers(b, sc2, fs)
<1> SUFFICES ASSUME b.complete, NEW e \in Range(asked), NEW f \in Range(Names), Asks(e, f)
             PROVE  Settled(b, e, f) \/ e \in Range(sc2) \/ \E q \in ToCome(fs) : q.path \in Below(e, f)
  BY DEF Covers
<1>1. CASE ~Entered(a, b, left, fs, p, quiet)
  <2>1. /\ fs = left /\ a.complete /\ Range(a.files) \subseteq Range(b.files)
        /\ PathsOf(a.excluded) \subseteq PathsOf(b.excluded) /\ PathsOf(a.pruned) \subseteq PathsOf(b.pruned)
    <3>1. fs = left /\ \E x, y, z : Told(a, b, x, y, z)
      BY <1>1 DEF Looked, Missed, Met, Added, LeftOut, Dropped
    <3> QED
      BY <3>1 DEF Told
  <2>2. Settled(a, e, f) \/ e \in Range(sc) \/ \E q \in ToCome(before) : q.path \in Below(e, f)
    BY <2>1 DEF Covers
  <2>3. CASE Settled(a, e, f) \/ e \in Range(sc2) \/ \E q \in ToCome(left) : q.path \in Below(e, f)
    BY <2>1, <2>3 DEF Settled
  <2>4. CASE (~walk /\ e = p) \/ (walk /\ p \in Below(e, f))
    <3>1. p \in Range(Above[f])
      BY <2>4 DEF Asks, Below
    <3>2. /\ Range(Above[p]) \cap touched = {}
          /\ Tree[p].kind = IF p = f THEN "file" ELSE "dir"
      BY <3>1, WayFacts
    <3>3. CASE Missed(a, b)
      BY <3>3 DEF Missed
    <3>4. CASE Met(a, b, p)
      BY <3>2, <3>4 DEF Met, NotADirectory, Settled
    <3>5. CASE Added(a, b, p, quiet)
      BY <3>2, <3>5 DEF Added, NotADirectory, Settled, Told
    <3>6. CASE LeftOut(a, b, p, quiet)
      BY <3>2, <3>6 DEF LeftOut, NotADirectory, Settled, Told
    <3>7. CASE Dropped(a, b, p, walk, quiet)
      <4>1. walk
        BY <3>2, <3>7 DEF Dropped
      <4> QED
        BY <2>4, <3>7, <4>1 DEF Dropped, Settled, Told
    <3> QED
      BY <1>1, <3>3, <3>4, <3>5, <3>6, <3>7 DEF Looked
  <2> QED
    BY <2>2, <2>3, <2>4
<1>2. CASE Entered(a, b, left, fs, p, quiet)
  <2>1. b = a /\ \E stack \in Seq(Lists) : fs = Walked(left, p, stack)
    BY <1>2 DEF Entered
  <2>2. ToCome(fs) = ToCome(left) \cup Entries(p)
    BY <2>1, WalkedFits
  <2>3. Settled(a, e, f) \/ e \in Range(sc) \/ \E q \in ToCome(before) : q.path \in Below(e, f)
    BY <2>1 DEF Covers
  <2>4. CASE Settled(a, e, f) \/ e \in Range(sc2) \/ \E q \in ToCome(left) : q.path \in Below(e, f)
    BY <2>1, <2>2, <2>4
  <2>5. CASE (~walk /\ e = p) \/ (walk /\ p \in Below(e, f))
    <3>1. p \in Range(Above[f])
      BY <2>5 DEF Asks, Below
    <3>2. p # f
      BY <1>2, <3>1, WayFacts DEF Entered
    <3>3. e \in Range(Above[p])
      <4>1. p \in Range(Above[p])
        BY PathFacts DEF Range
      <4>2. f \in Paths /\ e \in Range(Above[f])
        BY DEF Asks, Paths
      <4> QED
        BY <2>5, <3>1, <4>1, <4>2, AboveLinear DEF Below
    <3> QED
      BY <2>2, <3>1, <3>2, <3>3, EnteredOnTheWay
  <2> QED
    BY <2>3, <2>4, <2>5
<1> QED
  BY <1>1, <1>2

\* On a quiet tree what it lists is eligible, and what it leaves out is not.
LEMMA LookedQuietly ==
  ASSUME TreeKept, NEW a, NEW b, NEW left \in Seq(Frames), NEW fs, NEW p \in Paths, NEW walk,
         Looked(a, b, left, fs, p, walk, TRUE), QuietWalk(a, left)
  PROVE  QuietWalk(b, fs)
<1>1. CASE fs = left /\ (Missed(a, b) \/ Met(a, b, p))
  <2>1. /\ Range(b.files) = Range(a.files) /\ PathsOf(b.excluded) = PathsOf(a.excluded)
        /\ PathsOf(b.pruned) = PathsOf(a.pruned)
    BY <1>1 DEF Missed, Met, Told
  <2> QED
    BY <1>1, <2>1 DEF QuietWalk
<1>2. CASE fs = left /\ Added(a, b, p, TRUE)
  BY <1>2 DEF Added, Told, QuietWalk
<1>3. CASE fs = left /\ LeftOut(a, b, p, TRUE)
  BY <1>3 DEF LeftOut, Told, QuietWalk
<1>4. CASE fs = left /\ Dropped(a, b, p, walk, TRUE)
  BY <1>4 DEF Dropped, Told, QuietWalk
<1>5. CASE Entered(a, b, left, fs, p, TRUE)
  <2>1. b = a
    BY <1>5 DEF Entered
  <2>2. PICK stack \in Seq(Lists) : /\ fs = Walked(left, p, stack) /\ SameRules(stack, IgnoreStackFor(p))
                                    /\ \E e \in Range(asked) : Reached(e, p)
    BY <1>5 DEF Entered
  <2>3. \A i \in DOMAIN fs : \/ i \in DOMAIN left /\ fs[i] = left[i]
                             \/ fs[i].rest = Entries(p) /\ fs[i].stack = stack
    BY <2>2, WalkedFits
  <2>4. \A q \in Entries(p) : Parent(q.path) = p
    BY EntriesFit
  <2>5. \A i \in DOMAIN fs : Reachable(fs[i])
    BY <2>2, <2>3, <2>4 DEF Reachable, QuietWalk
  <2> QED
    BY <2>1, <2>5 DEF QuietWalk
<1> QED
  BY <1>1, <1>2, <1>3, <1>4, <1>5 DEF Looked

\* walkDirectory prunes a link, counts an error, or walks what it lists under its rules.
LEMMA EnterFits ==
  ASSUME TreeKept, NEW a, Sound(a), NEW left \in Seq(Frames), NEW d \in Paths, NEW inherited \in Seq(Lists),
         NEW hit \in BOOLEAN, NEW walk, NEW quiet \in BOOLEAN,
         quiet => /\ changes = 0 /\ disk[d].kind = "dir" /\ \E e \in Range(asked) : Reached(e, d)
                  /\ SameRules(IF d = Root THEN inherited ELSE Append(inherited, DirectoryIgnoreFiles(d)), IgnoreStackFor(d))
  PROVE  Looked(a, Enter(a, left, d, inherited, hit).inv, left, Enter(a, left, d, inherited, hit).frames, d, walk, quiet)
<1> DEFINE x == Enter(a, left, d, inherited, hit)
           stack == IF d = Root THEN inherited ELSE Append(inherited, DirectoryIgnoreFiles(d))
<1>1. d \in Range(Above[d])
  BY PathFacts DEF Range
<1>2. CASE Resolve(d) = "link"
  <2>1. x.inv = Prune(a, d, "link") /\ x.frames = left
    BY <1>2 DEF Enter
  <2>2. "link" \in Reasons
    BY DEF Reasons, InventoryExclusion
  <2>3. Told(a, x.inv, {}, {}, {d})
    BY <2>1, <2>2, PruneFits
  <2>4. Range(Above[d]) \cap touched = {} => Tree[d].kind \notin {"file", "dir"}
    BY <1>2, Untouched
  <2>5. ~quiet
    BY <1>2, QuietTree
  <2>6. Dropped(a, x.inv, d, walk, quiet)
    BY <2>3, <2>4, <2>5 DEF Dropped
  <2> QED
    BY <2>1, <2>6 DEF Looked
<1>3. CASE Resolve(d) # "link" /\ (hit \/ Resolve(d) # "dir" \/ (d # Root /\ ~Readable(d)))
  <2>1. x.inv = TraversalError(a) /\ x.frames = left
    BY <1>3 DEF Enter
  <2>2. Missed(a, x.inv)
    BY <2>1, ErrorFits DEF Missed
  <2> QED
    BY <2>1, <2>2 DEF Looked
<1>4. CASE ~(Resolve(d) = "link" \/ hit \/ Resolve(d) # "dir" \/ (d # Root /\ ~Readable(d)))
  <2>1. x.inv = a /\ x.frames = Walked(left, d, stack)
    BY <1>4 DEF Enter
  <2>2. stack \in Seq(Lists)
    BY StackFacts, AppendFacts
  <2>3. disk[d].kind = "dir"
    BY <1>4, ResolveFits
  <2>4. Range(Above[d]) \cap touched = {} => Tree[d].kind = "dir"
    BY <1>1, <2>3 DEF TreeKept
  <2> HIDE DEF x
  <2>5. quiet => SameRules(stack, IgnoreStackFor(d)) /\ \E e \in Range(asked) : Reached(e, d)
    OBVIOUS
  <2> HIDE DEF stack
  <2>6. Entered(a, x.inv, left, x.frames, d, quiet)
    BY <2>1, <2>2, <2>4, <2>5 DEF Entered
  <2> QED
    BY <2>6 DEF Looked, x
<1> QED
  BY <1>2, <1>3, <1>4

\* What may be listed by way of a path above it.
LeadsTo(e, p) ==
  /\ e \in Range(asked) /\ e \in Range(Above[p])
  /\ \A d \in Below(e, p) \ {p} : disk[d].kind = "dir" /\ DirExclusion(d, RulesAt(d)) = Nothing

\* considerFile lists, excludes or misses a file.
LEMMA ConsiderLooks ==
  ASSUME TreeKept, NEW a, Sound(a), NEW left, NEW p \in Range(Names), NEW stack, NEW hit \in BOOLEAN,
         NEW walk, NEW quiet \in BOOLEAN, NotADirectory(p),
         quiet => disk[p].kind = "file" /\ SameRules(stack, RulesAt(p)) /\ \E e : LeadsTo(e, p)
  PROVE  Looked(a, ConsiderFile(a, p, stack, hit), left, left, p, walk, quiet)
<1> DEFINE b == ConsiderFile(a, p, stack, hit)
<1> SUFFICES Looked(a, b, left, left, p, walk, quiet)
  OBVIOUS
<1>1. p \in Paths /\ p \in Range(Above[p])
  <2>1. p \in Paths
    BY DEF Paths
  <2> QED
    BY <2>1, PathFacts DEF Range
<1>2. FileExclusion(p, disk[p].size, stack) \in Reasons
  BY ReasonsFit
<1>3. quiet => FileExclusion(p, disk[p].size, stack) = FileExclusion(p, disk[p].size, RulesAt(p))
  BY <1>1 DEF FileExclusion, SameRules
<1>4. \/ Told(a, b, {}, {}, {}) /\ (b.complete => ~hit /\ p \in Range(b.files) \cup PathsOf(b.excluded))
      \/ Told(a, b, {p}, {}, {}) /\ ~hit /\ FileExclusion(p, disk[p].size, stack) = Nothing
      \/ Told(a, b, {}, {p}, {}) /\ ~hit /\ FileExclusion(p, disk[p].size, stack) # Nothing
  BY <1>2, ConsiderFits
<1> HIDE DEF b
<1>5. CASE Told(a, b, {}, {}, {}) /\ (b.complete => ~hit /\ p \in Range(b.files) \cup PathsOf(b.excluded))
  BY <1>5 DEF Looked, Met
<1>6. CASE Told(a, b, {p}, {}, {}) /\ FileExclusion(p, disk[p].size, stack) = Nothing
  <2>1. quiet => \E e \in Range(asked) : Sought(e, p)
    BY <1>3, <1>6 DEF LeadsTo, Sought
  <2> QED
    BY <1>6, <2>1 DEF Looked, Added
<1>7. CASE Told(a, b, {}, {p}, {}) /\ FileExclusion(p, disk[p].size, stack) # Nothing
  <2>1. quiet => ~Admitted(p)
    BY <1>3, <1>7 DEF Admitted
  <2> QED
    BY <1>7, <2>1 DEF Looked, LeftOut
<1> QED
  BY <1>4, <1>5, <1>6, <1>7

\* What is not there, or not a file, is excluded.
LEMMA ExcludeLooks ==
  ASSUME TreeKept, NEW a, Sound(a), NEW left, NEW p \in Paths, NEW walk, NEW quiet \in BOOLEAN,
         quiet => changes = 0 /\ disk[p].kind # "file"
  PROVE  /\ \A why \in Reasons : NotADirectory(p) => Looked(a, Exclude(a, p, why), left, left, p, walk, quiet)
         /\ Looked(a, NotFound(a, p), left, left, p, walk, quiet)
<1>1. quiet => ~Admitted(p)
  BY DEF Admitted
<1>2. ASSUME NEW why \in Reasons, NotADirectory(p)
      PROVE  Looked(a, Exclude(a, p, why), left, left, p, walk, quiet)
  BY <1>1, <1>2, ExcludeFits DEF Looked, LeftOut
<1>3. "not_regular_file" \in Reasons
  BY DEF Reasons, InventoryExclusion
<1>4. Told(a, NotFound(a, p), {}, {p}, {}) /\ ~NotFound(a, p).complete
  BY <1>3, ExcludeFits DEF NotFound
<1> QED
  BY <1>1, <1>2, <1>4 DEF Looked, LeftOut

\* What is the same while the tree is the same.
LEMMA SameTree ==
  ASSUME disk' = disk, asked' = asked, touched' = touched, NEW a, NEW sc, NEW fs
  PROVE  /\ Covers(a, sc, fs)' <=> Covers(a, sc, fs)
         /\ QuietWalk(a, fs)' <=> QuietWalk(a, fs)
         /\ \A p : (Admitted(p)' <=> Admitted(p)) /\ \A e : (Sought(e, p)' <=> Sought(e, p))
         /\ \A p : ReadEntry(p, FALSE)' = ReadEntry(p, FALSE)
<1>1. Covers(a, sc, fs)' <=> Covers(a, sc, fs)
  BY DEF Covers, Asks
<1>2. ASSUME NEW p PROVE Resolve(p)' = Resolve(p)
  BY DEF Resolve
<1>3. ASSUME NEW d PROVE DirectoryIgnoreFiles(d)' = DirectoryIgnoreFiles(d)
  BY <1>2 DEF DirectoryIgnoreFiles, Parsed
<1>4. ASSUME NEW d PROVE IgnoreStackFor(d)' = IgnoreStackFor(d)
  BY <1>3 DEF IgnoreStackFor
<1>5. ASSUME NEW d PROVE RulesAt(d)' = RulesAt(d)
  BY <1>4 DEF RulesAt
<1>6. ASSUME NEW p PROVE Admitted(p)' <=> Admitted(p)
  BY <1>5 DEF Admitted
<1>7. ASSUME NEW e, NEW p PROVE (Sought(e, p)' <=> Sought(e, p)) /\ (Reached(e, p)' <=> Reached(e, p))
  BY <1>5 DEF Sought, Reached
<1>8. ASSUME NEW f PROVE Reachable(f)' <=> Reachable(f)
  BY <1>4, <1>7 DEF Reachable
<1>9. QuietWalk(a, fs)' <=> QuietWalk(a, fs)
  BY <1>5, <1>6, <1>7, <1>8 DEF QuietWalk
<1>10. ASSUME NEW p PROVE ReadEntry(p, FALSE)' = ReadEntry(p, FALSE)
  BY <1>2 DEF ReadEntry
<1> QED
  BY <1>1, <1>6, <1>7, <1>9, <1>10

\* A step that looks at a path keeps the invariant.
LEMMA WalkStep ==
  ASSUME PInv, phase = "inventory", NEW left, Walking(left), NEW p \in Paths, NEW walk \in BOOLEAN,
         UNCHANGED <<disk, touched, stop, phase, asked, prepVars>>, changes' \in Nat, changes' = 0 => changes = 0,
         scope' \in Seq(Paths), Range(scope') \subseteq Range(scope),
         \A e \in Range(scope) : e \in Range(scope') \/ (~walk /\ e = p),
         \A x \in ToCome(frames) : x \in ToCome(left) \/ (walk /\ x.path = p),
         Looked(inv, inv', left, frames', p, walk, changes' = 0),
         changes' = 0 => QuietWalk(inv, left)
  PROVE  PInv'
<1>1. /\ TreeKept /\ Sound(inv) /\ Covers(inv, scope, frames) /\ left \in Seq(Frames)
      /\ Range(scope) \subseteq Range(asked)
  BY DEF PInv, WalkKept, CompletenessKept, Walking
<1>2. Sound(inv') /\ Walking(frames')
  BY <1>1, LookedIsSound
<1>3. TreeKept'
  BY <1>1 DEF TreeKept
<1>4. WalkKept'
  BY <1>1, <1>2 DEF WalkKept, Walking, Sound, ToCome
<1>5. prep' = Started /\ order' = <<>> /\ ahead' = <<>>
  BY DEF PInv, LoopKept, prepVars
<1>6. LoopKept' /\ QuietLoop' /\ ~prep'.complete
  <2>1. Range(<<>>) = {} /\ DOMAIN <<>> = {} /\ Len(<<>>) = 0
    BY DEF Range
  <2>2. AheadPaths' = {} /\ PathsOf(<<>>) = {}
    BY <1>5, <2>1 DEF AheadPaths, PathsOf
  <2>3. IsInjective(<<>>)
    BY <2>1 DEF IsInjective
  <2>4. prep'.files = <<>> /\ prep'.excluded = <<>> /\ ~prep'.complete
    BY <1>5 DEF Started
  <2>5. QuietLoop'
    BY <1>5, <2>1, <2>2, <2>4 DEF QuietLoop, PathsOf
  <2>6. phase' = "inventory"
    OBVIOUS
  <2>7. LoopKept'
    BY <1>5, <2>1, <2>2, <2>3, <2>4, <2>6 DEF LoopKept, Started, Notices
  <2> QED
    BY <2>4, <2>5, <2>7
<1>7. Covers(inv, scope, frames)'
  <2>1. Covers(inv', scope', frames')
    BY <1>1, LookedCovers
  <2> QED
    BY <2>1 DEF Covers, Asks, Settled, ToCome, PathsOf, Below
<1>8. ASSUME changes' = 0 PROVE QuietWalk(inv, frames)'
  <2>1. QuietWalk(inv', frames')
    BY <1>1, <1>8, LookedQuietly
  <2> QED
    BY <2>1, SameTree
<1> QED
  BY <1>3, <1>4, <1>6, <1>7, <1>8 DEF PInv, CompletenessKept

\* What hits a read is counted, so that nothing hits one on a quiet tree.
LEMMA HitFacts ==
  ASSUME TreeKept, NEW hit \in Hits, HitBy(hit)
  PROVE  /\ changes' \in Nat /\ (changes' = 0 => changes = 0 /\ hit = Nothing)
         /\ hit = Nothing => hit # "lookup" /\ hit # "rules"
<1>1. Nothing \notin {"lookup", "rules", "identity"}
  BY TreeAssumption
<1>2. changes \in Nat
  BY DEF TreeKept
<1> QED
  BY <1>1, <1>2 DEF HitBy

\* The next entry of the scope is looked at.
LEMMA ScopeEntryFits ==
  ASSUME PInv, ScopeEntry
  PROVE  PInv'
<1> DEFINE p == Head(scope)
           d == IF Resolve(p) = "dir" THEN p ELSE Parent(p)
           quiet == changes' = 0
<1>1. /\ TreeKept /\ Sound(inv) /\ scope \in Seq(Paths) /\ Range(scope) \subseteq Range(asked)
      /\ phase = "inventory" /\ frames = <<>> /\ scope # <<>>
  BY DEF PInv, WalkKept, ScopeEntry
<1>2. /\ p \in Paths /\ p \in Range(asked) /\ scope' \in Seq(Paths) /\ Range(scope') \subseteq Range(scope)
      /\ \A e \in Range(scope) : e \in Range(scope') \/ e = p
  <2>1. scope' = Tail(scope)
    BY DEF ScopeEntry
  <2> QED
    BY <1>1, <2>1, TailFacts
<1>3. PICK hit \in Hits :
        /\ HitBy(hit)
        /\ IF hit = "lookup" \/ Resolve(p) = "missing"
           THEN inv' = NotFound(inv, p) /\ UNCHANGED frames
           ELSE IF Resolve(p) \notin {"file", "dir"}
           THEN inv' = Exclude(inv, p, Resolve(p)) /\ UNCHANGED frames
           ELSE IF hit = "rules" \/ ~StackReadable(d)
           THEN inv' = TraversalError(inv) /\ UNCHANGED frames
           ELSE IF d = p
           THEN inv' = Enter(inv, <<>>, p, IgnoreStackFor(p), hit # Nothing).inv
                /\ frames' = Enter(inv, <<>>, p, IgnoreStackFor(p), hit # Nothing).frames
           ELSE inv' = ConsiderFile(inv, p, IgnoreStackFor(d), hit # Nothing) /\ UNCHANGED frames
  BY DEF ScopeEntry
<1> HIDE DEF p, d, quiet
<1>4. changes' \in Nat /\ (quiet => changes = 0 /\ hit = Nothing /\ hit # "lookup" /\ hit # "rules")
  BY <1>1, <1>3, HitFacts DEF quiet
<1>5. Walking(<<>>) /\ ToCome(<<>>) = {} /\ <<>> \in Seq(Frames)
  BY DEF Walking, ToCome
<1>6. quiet \in BOOLEAN
  BY DEF quiet
<1>7. Looked(inv, inv', <<>>, frames', p, FALSE, quiet)
  <2>1. CASE hit = "lookup" \/ Resolve(p) = "missing"
    <3>1. quiet => changes = 0 /\ disk[p].kind # "file"
      BY <1>1, <1>2, <1>4, <2>1, QuietTree
    <3> QED
      BY <1>1, <1>2, <1>3, <1>6, <2>1, <3>1, ExcludeLooks
  <2>2. CASE hit # "lookup" /\ Resolve(p) \notin {"missing", "file", "dir"}
    <3>1. quiet => changes = 0 /\ disk[p].kind # "file"
      BY <1>1, <1>2, <1>4, <2>2, QuietTree
    <3>2. Resolve(p) \in Reasons
      BY <1>1, <1>2, <2>2, ResolveFits DEF Reasons, InventoryExclusion
    <3>3. NotADirectory(p)
      BY <1>1, <1>2, <2>2, Untouched DEF NotADirectory
    <3> QED
      BY <1>1, <1>2, <1>3, <1>6, <2>2, <3>1, <3>2, <3>3, ExcludeLooks
  <2>3. CASE hit # "lookup" /\ Resolve(p) \in {"file", "dir"} /\ (hit = "rules" \/ ~StackReadable(d))
    <3>1. inv' = TraversalError(inv) /\ frames' = <<>>
      BY <1>1, <1>3, <2>3
    <3> QED
      BY <1>1, <3>1, ErrorFits DEF Looked, Missed
  <2>4. CASE hit # "lookup" /\ Resolve(p) = "dir" /\ ~(hit = "rules" \/ ~StackReadable(d))
    <3>1. d = p
      BY <2>4 DEF d
    <3>2. /\ inv' = Enter(inv, <<>>, p, IgnoreStackFor(p), hit # Nothing).inv
          /\ frames' = Enter(inv, <<>>, p, IgnoreStackFor(p), hit # Nothing).frames
      BY <1>3, <2>4, <3>1
    <3>3. disk[p].kind = "dir"
      BY <1>1, <1>2, <2>4, ResolveFits
    <3>4. Reached(p, p)
      <4>1. p \in Range(Above[p])
        BY <1>2, PathFacts DEF Range
      <4> QED
        BY <3>3, <4>1 DEF Reached, Below
    <3>5. IgnoreStackFor(p) \in Seq(Lists)
      BY <1>2, StackFacts
    <3>6. SameRules(IF p = Root THEN IgnoreStackFor(p) ELSE Append(IgnoreStackFor(p), DirectoryIgnoreFiles(p)),
                    IgnoreStackFor(p))
      <4>1. CASE p = Root
        BY <4>1 DEF SameRules
      <4>2. CASE p # Root
        <5>1. Parent(p) \in Paths
          BY <1>2, <4>2, ParentFacts DEF Paths
        <5>2. /\ IgnoreStackFor(Parent(p)) \in Seq(Lists) /\ DirectoryIgnoreFiles(p) \in Lists
              /\ IgnoreStackFor(p) = Append(IgnoreStackFor(Parent(p)), DirectoryIgnoreFiles(p))
          BY <1>2, <4>2, <5>1, StackFacts
        <5> QED
          BY <4>2, <5>2, SameAppend
      <4> QED
        BY <4>1, <4>2
    <3> QED
      BY <1>1, <1>2, <1>4, <1>5, <1>6, <3>2, <3>3, <3>4, <3>5, <3>6, EnterFits
  <2>5. CASE hit # "lookup" /\ Resolve(p) = "file" /\ ~(hit = "rules" \/ ~StackReadable(d))
    <3>1. disk[p].kind = "file"
      BY <1>1, <1>2, <2>5, ResolveFits
    <3>2. p \in Range(Names)
      BY <1>1, <1>2, <3>1 DEF TreeKept, Paths
    <3>3. d = Parent(p) /\ d # p
      <4>1. d = Parent(p)
        BY <2>5 DEF d
      <4>2. Parent(p) \in Range(Above[Parent(p)])
        BY <3>2, ParentFacts, PathFacts DEF Range
      <4> QED
        BY <3>2, <4>1, <4>2, ParentFacts
    <3>4. inv' = ConsiderFile(inv, p, RulesAt(p), hit # Nothing) /\ frames' = <<>>
      BY <1>1, <1>3, <2>5, <3>3 DEF RulesAt
    <3>5. LeadsTo(p, p)
      <4>1. p \in Range(Above[p])
        BY <1>2, PathFacts DEF Range
      <4> QED
        BY <1>2, <4>1 DEF LeadsTo, Below
    <3>6. SameRules(RulesAt(p), RulesAt(p))
      BY DEF SameRules
    <3>7. NotADirectory(p)
      BY <1>1, <1>2, <2>5, Untouched DEF NotADirectory
    <3> QED
      BY <1>1, <1>6, <3>1, <3>2, <3>4, <3>5, <3>6, <3>7, ConsiderLooks
  <2> QED
    BY <2>1, <2>2, <2>3, <2>4, <2>5
<1>8. quiet => QuietWalk(inv, <<>>)
  BY <1>1, <1>4 DEF PInv, QuietWalk
<1>9. UNCHANGED <<disk, touched, stop, phase, asked, prepVars>>
  BY DEF ScopeEntry
<1> QED
  BY <1>1, <1>2, <1>4, <1>5, <1>7, <1>8, <1>9, WalkStep DEF quiet

\* The next entry of the innermost directory is looked at.
LEMMA WalkEntryFits ==
  ASSUME PInv, WalkEntry
  PROVE  PInv'
<1>1. /\ TreeKept /\ Sound(inv) /\ Walking(frames) /\ phase = "inventory" /\ frames # <<>>
      /\ scope \in Seq(Paths) /\ scope' = scope
  BY DEF PInv, WalkKept, WalkEntry, Walking
<1> DEFINE stack == Last(frames).stack
<1>2. PICK e \in Nearest, hit \in Hits :
        /\ HitBy(hit)
        /\ IF e.kind = "dir" /\ DirExclusion(e.path, stack) = Nothing
           THEN /\ inv' = Enter(inv, Without(e), e.path, stack, hit # Nothing).inv
                /\ frames' = Enter(inv, Without(e), e.path, stack, hit # Nothing).frames
           ELSE /\ inv' = IF e.kind = "dir" THEN Prune(inv, e.path, DirExclusion(e.path, stack))
                          ELSE IF e.kind = "file" THEN FileEntry(e.path, hit)
                          ELSE Exclude(inv, e.path, Refusal(e.kind))
                /\ frames' = Without(e)
  BY DEF WalkEntry
<1> DEFINE p == e.path
           left == Without(e)
           quiet == changes' = 0
<1>3. e \in Last(frames).rest
  BY <1>2 DEF Nearest
<1>4. /\ left \in Seq(Frames) /\ Last(frames) \in Frames /\ e \in Listable /\ e \in ToCome(frames)
      /\ \E i \in DOMAIN frames : Last(frames) = frames[i]
      /\ \A i \in DOMAIN left : /\ i \in DOMAIN frames /\ left[i].rest # {}
                               /\ left[i].stack = frames[i].stack /\ left[i].rest \subseteq frames[i].rest
      /\ ToCome(frames) \subseteq ToCome(left) \cup {e} /\ ToCome(left) \subseteq ToCome(frames)
  BY <1>1, <1>3, WithoutFits DEF Walking
<1>5. /\ p \in Range(Names) /\ p \in Paths /\ e.kind \in Kinds \ {"missing"} /\ stack \in Seq(Lists)
      /\ (p \notin touched => e.kind = Tree[p].kind) /\ p \in Range(Above[p])
  <2>1. p \in Range(Names) /\ e.kind \in Kinds \ {"missing"} /\ stack \in Seq(Lists)
    BY <1>4 DEF Listable, Frames
  <2>2. p \in Paths
    BY <2>1 DEF Paths
  <2>3. p \notin touched => e.kind = Tree[p].kind
    BY <1>1, <1>4 DEF Walking
  <2>4. p \in Range(Above[p])
    BY <2>2, PathFacts DEF Range
  <2> QED
    BY <2>1, <2>2, <2>3, <2>4
<1>6. Walking(left)
  BY <1>1, <1>4 DEF Walking
<1>7. changes' \in Nat /\ (quiet => changes = 0 /\ hit = Nothing /\ hit # "lookup") /\ quiet \in BOOLEAN
  BY <1>1, <1>2, HitFacts
<1>8. quiet => \A q \in Paths : disk[q] = Tree[q] /\ q \notin touched
  BY <1>1, <1>7 DEF TreeKept
<1>9. quiet => /\ disk[p].kind = e.kind /\ SameRules(stack, RulesAt(p)) /\ \E r : LeadsTo(r, p)
  <2> SUFFICES ASSUME quiet
               PROVE  /\ disk[p].kind = e.kind /\ SameRules(stack, RulesAt(p)) /\ \E r : LeadsTo(r, p)
    OBVIOUS
  <2>1. Reachable(Last(frames))
    BY <1>4, <1>7 DEF PInv, QuietWalk
  <2>2. PICK r \in Range(asked), d \in Paths :
          Reached(r, d) /\ SameRules(stack, IgnoreStackFor(d)) /\ \A q \in Last(frames).rest : Parent(q.path) = d
    BY <2>1 DEF Reachable
  <2>3. Parent(p) = d
    BY <1>3, <2>2
  <2>4. SameRules(stack, RulesAt(p))
    BY <2>2, <2>3 DEF RulesAt
  <2>5. r \in Range(Above[p]) /\ Below(r, p) = Below(r, d) \cup {p}
    BY <1>5, <2>2, <2>3, BelowStep DEF Reached
  <2>6. LeadsTo(r, p)
    BY <2>2, <2>5 DEF LeadsTo, Reached
  <2> QED
    BY <1>5, <1>8, <2>4, <2>6
<1>10. DirExclusion(p, stack) \in Reasons /\ (quiet => DirExclusion(p, stack) = DirExclusion(p, RulesAt(p)))
  <2>1. DirExclusion(p, stack) \in Reasons
    BY <1>1, <1>5, ReasonsFit
  <2>2. ASSUME quiet PROVE DirExclusion(p, stack) = DirExclusion(p, RulesAt(p))
    BY <1>5, <1>9, <2>2 DEF DirExclusion, SameRules
  <2> QED
    BY <2>1, <2>2
<1> HIDE DEF p, left, quiet, stack
<1>11. Looked(inv, inv', left, frames', p, TRUE, quiet)
  <2>1. CASE e.kind = "dir" /\ DirExclusion(p, stack) = Nothing
    <3>1. /\ inv' = Enter(inv, left, p, stack, hit # Nothing).inv
          /\ frames' = Enter(inv, left, p, stack, hit # Nothing).frames
      BY <1>2, <2>1 DEF p, left, stack
    <3>2. p # Root
      BY <1>5, TreeAssumption
    <3>3. ASSUME quiet
          PROVE  /\ changes = 0 /\ disk[p].kind = "dir" /\ \E r \in Range(asked) : Reached(r, p)
                 /\ SameRules(Append(stack, DirectoryIgnoreFiles(p)), IgnoreStackFor(p))
      <4>1. \E r \in Range(asked) : Reached(r, p)
        BY <1>9, <1>10, <2>1, <3>3 DEF LeadsTo, Reached
      <4>2. Parent(p) \in Paths
        BY <1>5, ParentFacts
      <4>3. /\ RulesAt(p) \in Seq(Lists) /\ DirectoryIgnoreFiles(p) \in Lists
            /\ IgnoreStackFor(p) = Append(RulesAt(p), DirectoryIgnoreFiles(p))
        BY <1>5, <3>2, <4>2, StackFacts DEF RulesAt
      <4>4. SameRules(Append(stack, DirectoryIgnoreFiles(p)), IgnoreStackFor(p))
        BY <1>5, <1>9, <3>3, <4>3, SameAppend
      <4> QED
        BY <1>7, <1>9, <2>1, <3>3, <4>1, <4>4
    <3> QED
      BY <1>1, <1>4, <1>5, <1>7, <3>1, <3>2, <3>3, EnterFits
  <2>2. CASE e.kind = "dir" /\ DirExclusion(p, stack) # Nothing
    <3>1. inv' = Prune(inv, p, DirExclusion(p, stack)) /\ frames' = left
      BY <1>2, <2>2 DEF p, left, stack
    <3>2. Told(inv, inv', {}, {}, {p})
      BY <1>1, <1>5, <1>10, <3>1, PruneFits
    <3>3. Dropped(inv, inv', p, TRUE, quiet)
      BY <1>9, <1>10, <2>2, <3>2 DEF Dropped
    <3> QED
      BY <3>1, <3>3 DEF Looked
  <2>3. CASE e.kind = "file"
    <3>1. inv' = FileEntry(p, hit) /\ frames' = left
      BY <1>2, <2>3 DEF p, left, stack
    <3>2. CASE hit = "lookup" \/ Resolve(p) = "missing"
      <4>1. inv' = NotFound(inv, p)
        BY <3>1, <3>2 DEF FileEntry
      <4>2. ~quiet
        BY <1>1, <1>5, <1>7, <1>9, <2>3, <3>2, QuietTree
      <4> QED
        BY <1>1, <1>5, <1>7, <3>1, <4>1, <4>2, ExcludeLooks
    <3>3. CASE hit # "lookup" /\ Resolve(p) \in {"link", "not_regular_file"}
      <4>1. inv' = Exclude(inv, p, Resolve(p))
        BY <3>1, <3>3 DEF FileEntry
      <4>2. ~quiet
        BY <1>1, <1>5, <1>7, <1>9, <2>3, <3>3, QuietTree
      <4>3. Resolve(p) \in Reasons
        BY <3>3 DEF Reasons, InventoryExclusion
      <4>4. NotADirectory(p)
        BY <1>1, <1>5, <3>3, Untouched DEF NotADirectory
      <4> QED
        BY <1>1, <1>5, <1>7, <3>1, <4>1, <4>2, <4>3, <4>4, ExcludeLooks
    <3>4. CASE hit # "lookup" /\ Resolve(p) \notin {"missing", "link", "not_regular_file"}
      <4>1. inv' = ConsiderFile(inv, p, stack, hit # Nothing)
        BY <3>1, <3>4 DEF FileEntry, stack
      <4>2. NotADirectory(p)
        BY <1>5, <2>3 DEF NotADirectory
      <4> QED
        BY <1>1, <1>5, <1>7, <1>9, <2>3, <3>1, <4>1, <4>2, ConsiderLooks
    <3> QED
      BY <3>2, <3>3, <3>4
  <2>4. CASE e.kind \notin {"dir", "file"}
    <3>1. inv' = Exclude(inv, p, Refusal(e.kind)) /\ frames' = left
      BY <1>2, <2>4 DEF p, left
    <3>2. Refusal(e.kind) \in Reasons
      BY <1>1, <1>5, ReasonsFit
    <3>3. NotADirectory(p)
      BY <1>5, <2>4 DEF NotADirectory
    <3>4. quiet => changes = 0 /\ disk[p].kind # "file"
      BY <1>7, <1>9, <2>4
    <3> QED
      BY <1>1, <1>5, <1>7, <3>1, <3>2, <3>3, <3>4, ExcludeLooks
  <2> QED
    BY <2>1, <2>2, <2>3, <2>4
<1>12. quiet => QuietWalk(inv, left)
  <2> SUFFICES ASSUME quiet PROVE QuietWalk(inv, left)
    OBVIOUS
  <2>1. QuietWalk(inv, frames)
    BY <1>7 DEF PInv
  <2>2. \A i \in DOMAIN left : Reachable(left[i])
    BY <1>4, <2>1 DEF QuietWalk, Reachable
  <2> QED
    BY <2>1, <2>2 DEF QuietWalk
<1>13. UNCHANGED <<disk, touched, stop, phase, asked, prepVars>>
  BY DEF WalkEntry
<1>14. \A x \in ToCome(frames) : x \in ToCome(left) \/ (TRUE /\ x.path = p)
  BY <1>4 DEF p
<1> QED
  BY <1>1, <1>5, <1>6, <1>7, <1>11, <1>12, <1>13, <1>14, WalkStep DEF quiet

-----------------------------------------------------------------------------
(* The loop.                                                               *)

\* The walk ends: its files are put in path order, and are to be prepared in some order.
LEMMA InventoryEndsFits ==
  ASSUME PInv, InventoryEnds
  PROVE  PInv'
<1> DEFINE files == InPathOrder(inv.files)
           done == inv.complete /\ scope = <<>> /\ frames = <<>>
           found == [inv EXCEPT !.files = files, !.complete = done]
<1>1. /\ TreeKept /\ Sound(inv) /\ inv \in Accumulators /\ inv.files \in Seq(Range(Names)) /\ IsInjective(inv.files)
      /\ inv.complete \in BOOLEAN /\ Covers(inv, scope, frames)
  BY DEF PInv, WalkKept, CompletenessKept, Sound, Accumulators
<1>2. /\ inv' = found /\ order' \in {files, Reverse(files)} /\ prep' = [prep EXCEPT !.complete = done]
      /\ phase' = "prepare" /\ scope' = <<>> /\ frames' = <<>> /\ ahead' = ahead
      /\ disk' = disk /\ changes' = changes /\ touched' = touched /\ stop' = stop /\ asked' = asked
  <2>1. [inv EXCEPT !.files = InPathOrder(@), !.complete = @ /\ scope = <<>> /\ frames = <<>>] = found
    BY <1>1
  <2>2. found.files = files /\ found.complete = done
    BY <1>1 DEF Accumulators
  <2> QED
    BY <2>1, <2>2 DEF InventoryEnds, FileOrders, treeVars
<1>3. /\ prep = Started /\ order = <<>> /\ ahead = <<>>
  BY DEF PInv, LoopKept, InventoryEnds
<1>4. /\ files \in Seq(Range(Names)) /\ Len(files) = Len(inv.files) /\ Range(files) = Range(inv.files)
      /\ IsInjective(files)
  BY <1>1, SortFits
<1> HIDE DEF files
<1>5. done \in BOOLEAN
  OBVIOUS
<1> HIDE DEF done
<1>6. /\ found \in Accumulators /\ found.files = files /\ found.complete = done /\ found.seen = inv.seen
      /\ found.excluded = inv.excluded /\ found.pruned = inv.pruned /\ found.discovered = inv.discovered
  BY <1>1, <1>4, <1>5 DEF Accumulators
<1> HIDE DEF found
<1>7. Sound(found)
  BY <1>1, <1>4, <1>6 DEF Sound
<1>8. TreeKept'
  BY <1>1, <1>2 DEF TreeKept
<1>9. Range(<<>>) = {} /\ DOMAIN <<>> = {} /\ Len(<<>>) = 0
  BY DEF Range
<1>10. ToCome(<<>>) = {} /\ PathsOf(<<>>) = {} /\ IsInjective(<<>>)
  BY <1>9 DEF ToCome, PathsOf, IsInjective
<1>11. WalkKept'
  <2>1. Walking(<<>>)
    BY <1>9, <1>10 DEF Walking
  <2>2. Walking(frames)'
    BY <1>2, <2>1 DEF Walking, ToCome
  <2>3. Sound(inv)'
    BY <1>2, <1>7 DEF Sound, PathsOf
  <2> QED
    BY <1>2, <1>9, <2>2, <2>3 DEF WalkKept, Walking
<1>12. order' \in Seq(Range(Names)) /\ Len(order') = Len(files) /\ Range(order') = Range(files) /\ IsInjective(order')
  BY <1>2, <1>4, ReverseFits
<1>13. /\ prep' = [files |-> <<>>, fragments |-> 0, bytes |-> 0, excluded |-> <<>>, unreadable |-> 0, complete |-> done]
       /\ ahead' = <<>> /\ AheadPaths' = {}
  BY <1>2, <1>3, <1>9 DEF Started, AheadPaths
<1>14. LoopKept'
  <2>1. Len(files) + Len(inv.excluded) <= inv.discovered /\ Len(files) \in Nat /\ Len(inv.excluded) \in Nat
    BY <1>1, <1>4 DEF Sound, Accumulators, Notices
  <2>2. /\ prep' \in [files : Seq(Range(Names)), fragments : Nat, bytes : Nat, excluded : Notices, unreadable : Nat,
                       complete : BOOLEAN]
        /\ prep'.files = <<>> /\ prep'.excluded = <<>> /\ prep'.unreadable = 0
    BY <1>5, <1>13 DEF Notices
  <2>3. Len(order') + Len(ahead') + Len(prep'.files) + Len(inv'.excluded) + Len(prep'.excluded) + prep'.unreadable
          <= inv'.discovered
    <3>1. /\ Len(order') = Len(files) /\ Len(ahead') = 0 /\ Len(prep'.files) = 0 /\ Len(prep'.excluded) = 0
          /\ inv'.excluded = inv.excluded /\ inv'.discovered = inv.discovered
      BY <1>2, <1>6, <1>9, <1>12, <1>13, <2>2
    <3>2. Len(files) + 0 + 0 + Len(inv.excluded) + 0 + 0 <= inv.discovered
      BY <2>1
    <3> QED
      BY <2>2, <3>1, <3>2
  <2>4. ahead' \in Seq([path : Range(Names), read : Reads]) /\ Len(ahead') <= 1
    BY <1>9, <1>13
  <2>5. Range(order') \cup AheadPaths' \cup Range(prep'.files) \subseteq Range(inv'.files)
    BY <1>2, <1>6, <1>9, <1>12, <1>13, <2>2
  <2> QED
    BY <1>2, <1>9, <1>10, <1>12, <1>13, <2>2, <2>3, <2>4, <2>5 DEF LoopKept
<1>15. CompletenessKept'
  <2>1. Covers(found, <<>>, <<>>)
    <3> SUFFICES ASSUME done PROVE Covers(found, <<>>, <<>>)
      BY <1>6 DEF Covers
    <3>1. scope = <<>> /\ frames = <<>> /\ Covers(inv, <<>>, <<>>) /\ inv.complete
      BY <1>1 DEF done
    <3> QED
      BY <1>4, <1>6, <3>1 DEF Covers, Settled
  <2>2. Covers(inv, scope, frames)'
    BY <1>2, <2>1, SameTree
  <2>3. prep'.complete => inv'.complete /\ Range(inv'.files) \subseteq Range(order')
    BY <1>2, <1>4, <1>6, <1>12, <1>13
  <2> QED
    BY <2>2, <2>3 DEF CompletenessKept
<1>16. ASSUME changes' = 0 PROVE QuietWalk(inv, frames)' /\ QuietLoop'
  <2>1. QuietWalk(found, <<>>)
    BY <1>2, <1>4, <1>6, <1>9, <1>16 DEF PInv, QuietWalk
  <2>2. QuietWalk(inv, frames)'
    BY <1>2, <2>1, SameTree
  <2>3. QuietLoop'
    BY <1>9, <1>10, <1>13 DEF QuietLoop, PathsOf
  <2> QED
    BY <2>2, <2>3
<1> QED
  BY <1>8, <1>11, <1>14, <1>15, <1>16 DEF PInv

\* A step of the loop leaves the inventory alone.
LEMMA LoopStep ==
  ASSUME PInv, phase = "prepare", phase' \in {"prepare", "done"}, UNCHANGED <<disk, touched, stop, asked, walkVars>>,
         changes' \in Nat, changes' = 0 => changes = 0, LoopKept', changes' = 0 => QuietLoop',
         prep'.complete => /\ inv.complete
                           /\ Range(inv.files) \subseteq Range(order') \cup AheadPaths' \cup Range(prep'.files)
                                                         \cup PathsOf(prep'.excluded)
  PROVE  PInv'
<1>1. TreeKept /\ WalkKept /\ Covers(inv, scope, frames) /\ inv' = inv /\ scope' = scope /\ frames' = frames
  BY DEF PInv, CompletenessKept, walkVars
<1>2. TreeKept'
  BY <1>1 DEF TreeKept
<1>3. WalkKept'
  BY <1>1 DEF WalkKept, Sound, PathsOf, ToCome
<1>4. CompletenessKept'
  <2>1. Covers(inv, scope, frames)'
    BY <1>1, SameTree
  <2> QED
    BY <1>1, <2>1 DEF CompletenessKept, PathsOf
<1>5. ASSUME changes' = 0 PROVE QuietWalk(inv, frames)'
  <2>1. QuietWalk(inv, frames)
    BY <1>5 DEF PInv
  <2> QED
    BY <1>1, <2>1, SameTree
<1> QED
  BY <1>2, <1>3, <1>4, <1>5 DEF PInv

\* What is read of a file.
LEMMA ReadFits ==
  ASSUME TreeKept, NEW p \in Paths, NEW hit \in BOOLEAN
  PROVE  ReadEntry(p, hit) \in Reads
<1>1. disk[p] \in Nodes /\ disk[p].size \in Nat /\ disk[p].verdict \in Verdicts /\ disk[p].fragments \in Nat
  BY DEF TreeKept, Nodes
<1>2. [kind |-> "unreadable"] \in Reads
  BY DEF Reads
<1>3. \A why \in InventoryExclusion : [kind |-> "excluded", why |-> why] \in Reads
  BY DEF Reads
<1>4. "link" \in InventoryExclusion /\ "not_regular_file" \in InventoryExclusion /\ "file_too_large" \in InventoryExclusion
  BY DEF InventoryExclusion
<1>5. \A size, fragments \in Nat, verdict \in Verdicts \cup {"empty"} :
        [kind |-> "read", size |-> size, verdict |-> verdict, fragments |-> fragments] \in Reads
  BY DEF Reads
<1> QED
  BY <1>1, <1>2, <1>3, <1>4, <1>5 DEF ReadEntry

\* The next file is read ahead of its turn.
LEMMA ReadAheadFits ==
  ASSUME PInv, ReadAhead
  PROVE  PInv'
<1>1. /\ TreeKept /\ LoopKept /\ order \in Seq(Range(Names)) /\ order # <<>> /\ ahead = <<>> /\ phase = "prepare"
      /\ order' = Tail(order) /\ prep' = prep /\ phase' = phase
  BY DEF PInv, LoopKept, ReadAhead
<1>2. PICK hit \in Hits :
        HitBy(hit) /\ ahead' = <<[path |-> Head(order), read |-> ReadEntry(Head(order), hit # Nothing)]>>
  BY DEF ReadAhead
<1>3. PICK p \in Range(Names) :
        /\ p = Head(order) /\ order' \in Seq(Range(Names)) /\ Len(order) = Len(order') + 1 /\ Len(order') \in Nat
        /\ Range(order) = Range(order') \cup {p} /\ IsInjective(order') /\ p \notin Range(order')
  BY <1>1, TailFacts DEF LoopKept
<1>4. PICK x : x = [path |-> p, read |-> ReadEntry(p, hit # Nothing)]
  OBVIOUS
<1>5. p \in Paths /\ x.path = p /\ x.read = ReadEntry(p, hit # Nothing)
  BY <1>4 DEF Paths
<1>6. x \in [path : Range(Names), read : Reads]
  BY <1>1, <1>5, <1>4, ReadFits
<1>7. ahead' = <<x>>
  BY <1>2, <1>3, <1>4
<1>8. ahead' \in Seq([path : Range(Names), read : Reads]) /\ Len(ahead') = 1 /\ DOMAIN ahead' = {1} /\ ahead'[1] = x
  BY <1>6, <1>7
<1>9. AheadPaths' = {p} /\ AheadPaths = {}
  BY <1>1, <1>5, <1>8 DEF AheadPaths
<1>10. changes' \in Nat /\ (changes' = 0 => changes = 0 /\ hit = Nothing)
  BY <1>1, <1>2, HitFacts
<1>11. UNCHANGED <<disk, touched, stop, asked, walkVars>> /\ inv' = inv
  BY DEF ReadAhead, walkVars
<1>12. LoopKept'
  <2>1. Len(order') + Len(ahead') + Len(prep.files) + Len(inv.excluded) + Len(prep.excluded) + prep.unreadable
          <= inv.discovered
    <3>1. Len(order) + 0 + Len(prep.files) + Len(inv.excluded) + Len(prep.excluded) + prep.unreadable <= inv.discovered
      BY <1>1 DEF LoopKept
    <3>2. /\ Len(prep.files) \in Nat /\ Len(inv.excluded) \in Nat /\ Len(prep.excluded) \in Nat
          /\ prep.unreadable \in Nat /\ inv.discovered \in Nat
      BY DEF PInv, LoopKept, WalkKept, Sound, Accumulators, Notices
    <3>3. \A o, f, g, h, u, m \in Nat : (o + 1) + 0 + f + g + h + u <= m => o + 1 + f + g + h + u <= m
      OBVIOUS
    <3> QED
      BY <1>3, <1>8, <3>1, <3>2, <3>3
  <2>2. /\ Range(order') \cap Range(prep.files) = {} /\ {p} \cap (Range(order') \cup Range(prep.files)) = {}
        /\ Range(order') \cup {p} \cup Range(prep.files) \subseteq Range(inv.files)
    BY <1>1, <1>3 DEF LoopKept
  <2>3. prep \in [files : Seq(Range(Names)), fragments : Nat, bytes : Nat, excluded : Notices, unreadable : Nat,
                 complete : BOOLEAN] /\ IsInjective(prep.files)
    BY <1>1 DEF LoopKept
  <2>4. inv' = inv /\ phase' = "prepare" /\ prep' = prep /\ AheadPaths' = {p} /\ Len(ahead') <= 1
    BY <1>1, <1>8, <1>9, <1>11
  <2>5. order' \in Seq(Range(Names)) /\ ahead' \in Seq([path : Range(Names), read : Reads]) /\ IsInjective(order')
    BY <1>3, <1>8
  <2> HIDE <1>8
  <2> QED
    BY <2>1, <2>2, <2>3, <2>4, <2>5 DEF LoopKept
<1>13. ASSUME changes' = 0 PROVE QuietLoop'
  <2>1. QuietLoop /\ hit = Nothing
    BY <1>10, <1>13 DEF PInv
  <2>2. \A i \in DOMAIN ahead' : ahead'[i].read = ReadEntry(ahead[i].path, FALSE)'
    <3>1. ReadEntry(ahead[1].path, FALSE)' = x.read
      BY <1>5, <1>8, <1>11, <2>1, SameTree
    <3> QED
      BY <1>8, <3>1
  <2>3. \A q \in Range(prep.files) : disk'[q].verdict = "ok"
    BY <1>11, <2>1 DEF QuietLoop
  <2>4. \A q \in PathsOf(prep.excluded) : ~(disk'[q].verdict = "ok" /\ Admitted(q)')
    BY <1>11, <2>1, SameTree DEF QuietLoop
  <2> QED
    BY <1>1, <2>2, <2>3, <2>4 DEF QuietLoop, PathsOf
<1>14. prep'.complete => /\ inv.complete
                         /\ Range(inv.files) \subseteq Range(order') \cup AheadPaths' \cup Range(prep'.files)
                                                       \cup PathsOf(prep'.excluded)
  BY <1>1, <1>3, <1>9 DEF PInv, CompletenessKept
<1> QED
  BY <1>1, <1>10, <1>11, <1>12, <1>13, <1>14, LoopStep

\* What the loop ends with is in path order.
LEMMA InOrderFits ==
  ASSUME NEW r \in [files : Seq(Range(Names)), fragments : Nat, bytes : Nat, excluded : Notices, unreadable : Nat,
                    complete : BOOLEAN], IsInjective(r.files)
  PROVE  /\ InOrder(r) \in [files : Seq(Range(Names)), fragments : Nat, bytes : Nat, excluded : Notices,
                            unreadable : Nat, complete : BOOLEAN]
         /\ InOrder(r).excluded = r.excluded /\ InOrder(r).unreadable = r.unreadable
         /\ InOrder(r).complete = r.complete
         /\ Len(InOrder(r).files) = Len(r.files) /\ Range(InOrder(r).files) = Range(r.files)
         /\ IsInjective(InOrder(r).files)
         /\ \A i, j \in DOMAIN InOrder(r).files : i < j => Pos(InOrder(r).files[i]) < Pos(InOrder(r).files[j])
<1> DEFINE files == InPathOrder(r.files)
           b == InOrder(r)
<1>1. r.files \in Seq(Range(Names))
  OBVIOUS
<1>2. /\ files \in Seq(Range(Names)) /\ Len(files) = Len(r.files) /\ Range(files) = Range(r.files)
      /\ IsInjective(files) /\ \A i, j \in DOMAIN files : i < j => Pos(files[i]) < Pos(files[j])
  BY <1>1, SortFits
<1>3. b = [r EXCEPT !.files = files]
  BY DEF InOrder
<1> HIDE DEF files, b
<1>4. /\ b \in [files : Seq(Range(Names)), fragments : Nat, bytes : Nat, excluded : Notices, unreadable : Nat,
                complete : BOOLEAN]
      /\ b.files = files /\ b.excluded = r.excluded /\ b.unreadable = r.unreadable /\ b.complete = r.complete
  BY <1>2, <1>3
<1> QED
  BY <1>2, <1>4 DEF b

\* The loop finds a limit reached or is stopped, and ends, or handles what was read.
LEMMA TakeTurnFits ==
  ASSUME PInv, TakeTurn
  PROVE  PInv'
<1> DEFINE Scoped == [files : Seq(Range(Names)), fragments : Nat, bytes : Nat, excluded : Notices, unreadable : Nat,
                      complete : BOOLEAN]
<1>1. /\ TreeKept /\ LoopKept /\ phase = "prepare" /\ order' = order /\ ahead' = <<>>
      /\ prep \in Scoped /\ IsInjective(prep.files)
  BY DEF PInv, LoopKept, TakeTurn
<1>2. UNCHANGED <<disk, changes, touched, stop, asked, walkVars>> /\ inv' = inv
  BY DEF TakeTurn, treeVars, walkVars
<1>3. /\ ahead \in Seq([path : Range(Names), read : Reads]) /\ Len(ahead) = 1 /\ DOMAIN ahead = {1}
      /\ ahead[1] \in [path : Range(Names), read : Reads]
  <2> DEFINE Read == [path : Range(Names), read : Reads]
  <2>1. ahead \in Seq(Read) /\ Len(ahead) <= 1 /\ ahead # <<>>
    BY DEF PInv, LoopKept, TakeTurn
  <2> HIDE DEF Read
  <2>2. Len(ahead) = 1
    <3>1. Len(ahead) = Len(Tail(ahead)) + 1 /\ Len(Tail(ahead)) \in Nat
      BY <2>1, TailFacts
    <3>2. \A m, n \in Nat : m = n + 1 /\ m <= 1 => m = 1
      OBVIOUS
    <3>3. Len(ahead) \in Nat
      BY <2>1
    <3> QED
      BY <2>1, <3>1, <3>2, <3>3
  <2>3. DOMAIN ahead = {1} /\ ahead[1] \in Read
    BY <2>1, <2>2
  <2> QED
    BY <2>1, <2>2, <2>3 DEF Read
<1>4. PICK p, read : p = ahead[1].path /\ read = ahead[1].read
  OBVIOUS
<1>5. p \in Range(Names) /\ p \in Paths /\ read \in Reads /\ AheadPaths = {p} /\ AheadPaths' = {}
  <2>1. p \in Range(Names) /\ read \in Reads /\ AheadPaths = {p}
    BY <1>3, <1>4 DEF AheadPaths
  <2>2. AheadPaths' = {}
    BY <1>1 DEF AheadPaths
  <2> QED
    BY <2>1, <2>2 DEF Paths
<1>6. /\ order \in Seq(Range(Names)) /\ IsInjective(order) /\ Range(order) \cap Range(prep.files) = {}
      /\ p \notin Range(order) /\ p \notin Range(prep.files) /\ p \in Range(inv.files)
      /\ Range(order) \subseteq Range(inv.files) /\ Range(prep.files) \subseteq Range(inv.files)
  BY <1>1, <1>5 DEF LoopKept
<1> DEFINE Count(n, x) == Len(order) + n + Len(x.files) + Len(inv.excluded) + Len(x.excluded) + x.unreadable
<1>7. Count(1, prep) <= inv.discovered
  BY <1>1, <1>3 DEF LoopKept
<1>8. /\ Len(order) \in Nat /\ Len(prep.files) \in Nat /\ Len(inv.excluded) \in Nat /\ Len(prep.excluded) \in Nat
      /\ prep.unreadable \in Nat /\ inv.discovered \in Nat
  <2>1. /\ Len(prep.files) \in Nat /\ Len(inv.excluded) \in Nat /\ Len(prep.excluded) \in Nat
        /\ prep.unreadable \in Nat /\ inv.discovered \in Nat
    BY DEF PInv, LoopKept, WalkKept, Sound, Accumulators, Notices
  <2> QED
    BY <1>6, <2>1
<1>9. /\ prep.complete => /\ inv.complete
                          /\ Range(inv.files) \subseteq Range(order) \cup {p} \cup Range(prep.files) \cup PathsOf(prep.excluded)
      /\ changes = 0 => QuietLoop
  BY <1>5 DEF PInv, CompletenessKept
<1>10. CASE stop \/ LimitHit(ahead[1].read)
  <2> DEFINE r == [prep EXCEPT !.complete = FALSE]
  <2>1. phase' = "done" /\ prep' = InOrder(r)
    BY <1>10 DEF TakeTurn
  <2>2. /\ r \in Scoped /\ r.files = prep.files /\ r.excluded = prep.excluded /\ r.unreadable = prep.unreadable
        /\ ~r.complete
    BY <1>1
  <2> HIDE DEF r
  <2>3. /\ prep' \in Scoped /\ prep'.excluded = prep.excluded /\ prep'.unreadable = prep.unreadable /\ ~prep'.complete
        /\ Len(prep'.files) = Len(prep.files) /\ Range(prep'.files) = Range(prep.files) /\ IsInjective(prep'.files)
        /\ \A i, j \in DOMAIN prep'.files : i < j => Pos(prep'.files[i]) < Pos(prep'.files[j])
    BY <1>1, <2>1, <2>2, InOrderFits
  <2>4. Count(0, prep') <= inv.discovered
    <3>1. Count(0, prep') = Count(0, prep)
      BY <2>3
    <3>2. \A o, f, g, h, u, m \in Nat : o + 1 + f + g + h + u <= m => o + 0 + f + g + h + u <= m
      OBVIOUS
    <3>3. Count(0, prep) <= inv.discovered
      BY <1>7, <1>8, <3>2
    <3> QED
      BY <3>1, <3>3
  <2>5. LoopKept'
    <3>1. /\ order' \in Seq(Range(Names)) /\ ahead' \in Seq([path : Range(Names), read : Reads]) /\ Len(ahead') <= 1
          /\ phase' = "done" /\ IsInjective(order') /\ AheadPaths' = {} /\ Len(ahead') = 0
      BY <1>1, <1>5, <1>6, <2>1
    <3>2. /\ Range(order') \cap Range(prep'.files) = {}
          /\ Range(order') \cup AheadPaths' \cup Range(prep'.files) \subseteq Range(inv'.files)
      BY <1>1, <1>2, <1>5, <1>6, <2>3
    <3>3. Len(order') + Len(ahead') + Len(prep'.files) + Len(inv'.excluded) + Len(prep'.excluded) + prep'.unreadable
            <= inv'.discovered
      BY <1>1, <1>2, <2>4, <3>1
    <3> QED
      BY <2>3, <3>1, <3>2, <3>3 DEF LoopKept
  <2>6. ASSUME changes' = 0 PROVE QuietLoop'
    <3>1. QuietLoop
      BY <1>2, <1>9, <2>6
    <3>2. \A q \in Range(prep'.files) : disk'[q].verdict = "ok"
      BY <1>2, <2>3, <3>1 DEF QuietLoop
    <3>3. \A q \in PathsOf(prep.excluded) : ~(disk'[q].verdict = "ok" /\ Admitted(q)')
      BY <1>2, <3>1, SameTree DEF QuietLoop
    <3> QED
      BY <1>1, <2>3, <3>2, <3>3 DEF QuietLoop, PathsOf
  <2>7. changes' \in Nat /\ changes' = changes
    BY <1>1, <1>2 DEF TreeKept
  <2> QED
    BY <1>1, <1>2, <2>1, <2>3, <2>5, <2>6, <2>7, LoopStep
<1>11. CASE ~(stop \/ LimitHit(ahead[1].read))
  <2>1. phase' = "prepare" /\ prep' = Handled(p, read)
    BY <1>1, <1>4, <1>11 DEF TakeTurn
  <2> DEFINE Fits(x) ==
               /\ x \in Scoped /\ IsInjective(x.files) /\ Count(0, x) <= inv.discovered
               /\ Range(prep.files) \subseteq Range(x.files) /\ Range(x.files) \subseteq Range(prep.files) \cup {p}
               /\ PathsOf(prep.excluded) \subseteq PathsOf(x.excluded)
               /\ PathsOf(x.excluded) \subseteq PathsOf(prep.excluded) \cup {p}
               /\ x.complete => prep.complete /\ p \in Range(x.files) \cup PathsOf(x.excluded)
             Undisturbed(x) ==
               /\ p \in Range(x.files) => disk[p].verdict = "ok"
               /\ p \in PathsOf(x.excluded) \ PathsOf(prep.excluded) => ~(disk[p].verdict = "ok" /\ Admitted(p))
  <2>2. prep.excluded \in Notices /\ prep.files \in Seq(Range(Names)) /\ p \notin Range(prep.files)
    BY <1>1, <1>6
  <2>3. changes = 0 => read = ReadEntry(p, FALSE)
    BY <1>3, <1>4, <1>9 DEF QuietLoop
  <2>4. ASSUME NEW why \in Reasons, NEW x, x = [prep EXCEPT !.excluded = Append(@, [path |-> p, reason |-> why])],
               changes = 0 => ~(disk[p].verdict = "ok" /\ Admitted(p))
        PROVE  Fits(x) /\ (changes = 0 => Undisturbed(x))
    <3> DEFINE notices == Append(prep.excluded, [path |-> p, reason |-> why])
    <3>1. /\ notices \in Notices /\ Len(notices) = Len(prep.excluded) + 1
          /\ PathsOf(notices) = PathsOf(prep.excluded) \cup {p}
      BY <1>5, <2>2, NoticeFacts
    <3>2. x = [prep EXCEPT !.excluded = notices]
      BY <2>4
    <3> HIDE DEF notices
    <3>3. /\ x \in Scoped /\ x.files = prep.files /\ x.excluded = notices /\ x.complete = prep.complete
          /\ x.unreadable = prep.unreadable
      BY <1>1, <3>1, <3>2
    <3>4. Count(0, x) <= inv.discovered
      <4>1. \A o, f, g, h, u, m \in Nat : o + 1 + f + g + h + u <= m => o + 0 + f + g + (h + 1) + u <= m
        OBVIOUS
      <4>2. Len(order) + 0 + Len(prep.files) + Len(inv.excluded) + (Len(prep.excluded) + 1) + prep.unreadable <= inv.discovered
        BY <1>7, <1>8, <4>1
      <4> QED
        BY <3>1, <3>3, <4>2
    <3>5. Fits(x)
      BY <1>1, <3>1, <3>3, <3>4
    <3>6. changes = 0 => Undisturbed(x)
      BY <2>2, <2>4, <3>3
    <3> QED
      BY <3>5, <3>6
  <2>5. Fits(prep') /\ (changes = 0 => Undisturbed(prep'))
    <3>1. CASE read.kind = "unreadable"
      <4> DEFINE u == prep.unreadable + 1
      <4>1. prep' = [prep EXCEPT !.unreadable = u, !.complete = FALSE]
        BY <1>1, <2>1, <3>1 DEF Handled
      <4>2. u \in Nat
        BY <1>8
      <4>3. Len(order) + 0 + Len(prep.files) + Len(inv.excluded) + Len(prep.excluded) + u <= inv.discovered
        <5>1. \A o, f, g, h, v, m \in Nat : o + 1 + f + g + h + v <= m => o + 0 + f + g + h + (v + 1) <= m
          OBVIOUS
        <5> QED
          BY <1>7, <1>8, <5>1
      <4> HIDE DEF u
      <4>4. /\ prep' \in Scoped /\ prep'.files = prep.files /\ prep'.excluded = prep.excluded /\ ~prep'.complete
            /\ prep'.unreadable = u
        BY <1>1, <4>1, <4>2
      <4> QED
        BY <1>1, <2>2, <4>3, <4>4
    <3>2. CASE read.kind = "excluded"
      <4>1. read.why \in InventoryExclusion
        BY <1>5, <3>2 DEF Reads
      <4>2. prep' = [prep EXCEPT !.excluded = Append(@, [path |-> p, reason |-> read.why])]
        BY <2>1, <3>2 DEF Handled
      <4>3. ASSUME changes = 0 PROVE ~(disk[p].verdict = "ok" /\ Admitted(p))
        <5>1. Resolve(p) # "file" \/ disk[p].size > MaxFile
          BY <2>3, <3>2, <4>3 DEF ReadEntry
        <5>2. Resolve(p) # "file" => disk[p].kind # "file"
          BY <1>1, <1>5, <4>3, QuietTree
        <5>3. disk[p].size > MaxFile => FileExclusion(p, disk[p].size, RulesAt(p)) # Nothing
          BY TreeAssumption DEF FileExclusion, InventoryExclusion
        <5> QED
          BY <5>1, <5>2, <5>3 DEF Admitted
      <4>4. read.why \in Reasons
        BY <4>1 DEF Reasons
      <4> QED
        BY <2>4, <4>2, <4>3, <4>4
    <3>3. CASE read.kind = "read" /\ read.verdict # "ok"
      <4>1. read.verdict \in Verdicts \cup {"empty"}
        BY <1>5, <3>3 DEF Reads
      <4>2. prep' = [prep EXCEPT !.excluded = Append(@, [path |-> p, reason |-> read.verdict])]
        BY <2>1, <3>3 DEF Handled
      <4>3. ASSUME changes = 0 PROVE ~(disk[p].verdict = "ok" /\ Admitted(p))
        <5>1. disk[p].size = 0 \/ disk[p].verdict # "ok"
          BY <2>3, <3>3, <4>3 DEF ReadEntry
        <5>2. disk[p].size = 0 => FileExclusion(p, disk[p].size, RulesAt(p)) # Nothing
          BY TreeAssumption DEF FileExclusion, InventoryExclusion
        <5> QED
          BY <5>1, <5>2 DEF Admitted
      <4>4. read.verdict \in Reasons
        BY <4>1 DEF Reasons
      <4> QED
        BY <2>4, <4>2, <4>3, <4>4
    <3>4. CASE read.kind = "read" /\ read.verdict = "ok"
      <4> DEFINE files == Append(prep.files, p)
                 bytes == prep.bytes + read.size
                 fragments == prep.fragments + read.fragments
      <4>1. prep' = [prep EXCEPT !.files = files, !.bytes = bytes, !.fragments = fragments]
        BY <1>1, <2>1, <3>4 DEF Handled
      <4>2. bytes \in Nat /\ fragments \in Nat
        <5>1. read.size \in Nat /\ read.fragments \in Nat
          BY <1>5, <3>4 DEF Reads
        <5>2. prep.bytes \in Nat /\ prep.fragments \in Nat
          BY <1>1
        <5> QED
          BY <5>1, <5>2
      <4>3. /\ files \in Seq(Range(Names)) /\ Len(files) = Len(prep.files) + 1 /\ Range(files) = Range(prep.files) \cup {p}
            /\ IsInjective(files)
        BY <1>1, <1>5, <2>2, AppendFacts, AppendNew
      <4>4. Len(order) + 0 + (Len(prep.files) + 1) + Len(inv.excluded) + Len(prep.excluded) + prep.unreadable <= inv.discovered
        <5>1. \A o, f, g, h, v, m \in Nat : o + 1 + f + g + h + v <= m => o + 0 + (f + 1) + g + h + v <= m
          OBVIOUS
        <5> QED
          BY <1>7, <1>8, <5>1
      <4> HIDE DEF files, bytes, fragments
      <4>5. /\ prep' \in Scoped /\ prep'.files = files /\ prep'.excluded = prep.excluded
            /\ prep'.complete = prep.complete /\ prep'.unreadable = prep.unreadable
        BY <1>1, <4>1, <4>2, <4>3
      <4>6. changes = 0 => disk[p].verdict = "ok"
        BY <2>3, <3>4 DEF ReadEntry
      <4> QED
        BY <4>3, <4>4, <4>5, <4>6
    <3> QED
      BY <1>5, <3>1, <3>2, <3>3, <3>4 DEF Reads
  <2> HIDE DEF Scoped
  <2>6. LoopKept'
    <3>1. /\ order' \in Seq(Range(Names)) /\ ahead' \in Seq([path : Range(Names), read : Reads]) /\ Len(ahead') <= 1
          /\ phase' = "prepare" /\ IsInjective(order') /\ AheadPaths' = {} /\ Len(ahead') = 0
      BY <1>1, <1>5, <1>6, <2>1
    <3>2. /\ Range(order') \cap Range(prep'.files) = {}
          /\ Range(order') \cup AheadPaths' \cup Range(prep'.files) \subseteq Range(inv'.files)
      BY <1>1, <1>2, <1>5, <1>6, <2>5
    <3>3. Len(order') + Len(ahead') + Len(prep'.files) + Len(inv'.excluded) + Len(prep'.excluded) + prep'.unreadable
            <= inv'.discovered
      BY <1>1, <1>2, <2>5, <3>1
    <3> QED
      BY <2>5, <3>1, <3>2, <3>3 DEF LoopKept, Scoped
  <2>7. ASSUME changes' = 0 PROVE QuietLoop'
    <3>1. QuietLoop /\ Undisturbed(prep')
      BY <1>2, <1>9, <2>5, <2>7
    <3>2. \A q \in Range(prep'.files) : disk'[q].verdict = "ok"
      BY <1>2, <2>5, <3>1 DEF QuietLoop
    <3>3. \A q \in PathsOf(prep'.excluded) : ~(disk'[q].verdict = "ok" /\ Admitted(q))
      BY <1>2, <2>5, <3>1 DEF QuietLoop
    <3>4. \A q : Admitted(q)' <=> Admitted(q)
      BY <1>2, SameTree
    <3> QED
      BY <1>1, <3>2, <3>3, <3>4 DEF QuietLoop, PathsOf
  <2>8. changes' \in Nat /\ changes' = changes
    BY <1>1, <1>2 DEF TreeKept
  <2>9. prep'.complete => /\ inv.complete
                          /\ Range(inv.files) \subseteq Range(order') \cup AheadPaths' \cup Range(prep'.files)
                                                        \cup PathsOf(prep'.excluded)
    BY <1>1, <1>5, <1>9, <2>5
  <2> QED
    BY <1>1, <1>2, <2>1, <2>6, <2>7, <2>8, <2>9, LoopStep
<1> QED
  BY <1>10, <1>11

\* The loop ends with everything read.
LEMMA FinishFits ==
  ASSUME PInv, Finish
  PROVE  PInv'
<1> DEFINE Scoped == [files : Seq(Range(Names)), fragments : Nat, bytes : Nat, excluded : Notices, unreadable : Nat,
                      complete : BOOLEAN]
<1>1. /\ TreeKept /\ LoopKept /\ phase = "prepare" /\ phase' = "done" /\ order = <<>> /\ ahead = <<>>
      /\ order' = order /\ ahead' = ahead /\ prep' = InOrder(prep)
      /\ prep \in Scoped /\ IsInjective(prep.files)
  BY DEF PInv, LoopKept, Finish
<1>2. UNCHANGED <<disk, changes, touched, stop, asked, walkVars>> /\ inv' = inv
  BY DEF Finish, treeVars, walkVars
<1>3. /\ prep' \in Scoped /\ prep'.excluded = prep.excluded /\ prep'.unreadable = prep.unreadable
      /\ prep'.complete = prep.complete
      /\ Len(prep'.files) = Len(prep.files) /\ Range(prep'.files) = Range(prep.files) /\ IsInjective(prep'.files)
      /\ \A i, j \in DOMAIN prep'.files : i < j => Pos(prep'.files[i]) < Pos(prep'.files[j])
  BY <1>1, InOrderFits
<1>4. AheadPaths' = AheadPaths
  BY <1>1 DEF AheadPaths
<1>5. LoopKept'
  <2>1. Len(order') + Len(ahead') + Len(prep'.files) + Len(inv'.excluded) + Len(prep'.excluded) + prep'.unreadable
          <= inv'.discovered
    <3>1. Len(order) + Len(ahead) + Len(prep.files) + Len(inv.excluded) + Len(prep.excluded) + prep.unreadable
            <= inv.discovered
      BY <1>1 DEF LoopKept
    <3> QED
      BY <1>1, <1>2, <1>3, <3>1
  <2>2. /\ order' \in Seq(Range(Names)) /\ ahead' \in Seq([path : Range(Names), read : Reads]) /\ Len(ahead') <= 1
        /\ IsInjective(order') /\ order' = <<>> /\ ahead' = <<>>
    BY <1>1 DEF LoopKept
  <2>3. /\ Range(order') \cap Range(prep'.files) = {} /\ AheadPaths' \cap (Range(order') \cup Range(prep'.files)) = {}
        /\ Range(order') \cup AheadPaths' \cup Range(prep'.files) \subseteq Range(inv'.files)
    BY <1>1, <1>2, <1>3, <1>4 DEF LoopKept
  <2> QED
    BY <1>1, <1>3, <2>1, <2>2, <2>3 DEF LoopKept
<1>6. ASSUME changes' = 0 PROVE QuietLoop'
  <2>1. QuietLoop
    BY <1>2, <1>6 DEF PInv
  <2>2. \A q \in Range(prep'.files) : disk'[q].verdict = "ok"
    BY <1>2, <1>3, <2>1 DEF QuietLoop
  <2>3. \A q \in PathsOf(prep.excluded) : ~(disk'[q].verdict = "ok" /\ Admitted(q)')
    BY <1>2, <2>1, SameTree DEF QuietLoop
  <2> QED
    BY <1>1, <1>3, <2>2, <2>3 DEF QuietLoop, PathsOf
<1>7. prep'.complete => /\ inv.complete
                        /\ Range(inv.files) \subseteq Range(order') \cup AheadPaths' \cup Range(prep'.files)
                                                      \cup PathsOf(prep'.excluded)
  BY <1>1, <1>3, <1>4 DEF PInv, CompletenessKept
<1>8. changes' \in Nat /\ changes' = changes
  BY <1>1, <1>2 DEF TreeKept
<1> QED
  BY <1>1, <1>2, <1>5, <1>6, <1>7, <1>8, LoopStep

\* Another program changes the tree: what it touches is no longer asked for.
LEMMA ChangeFits ==
  ASSUME PInv, Change
  PROVE  PInv'
<1>1. TreeKept /\ WalkKept /\ LoopKept /\ CompletenessKept
  BY DEF PInv
<1>2. /\ changes' = changes + 1 /\ stop' = stop /\ phase' = phase /\ asked' = asked
      /\ scope' = scope /\ frames' = frames /\ inv' = inv /\ order' = order /\ ahead' = ahead /\ prep' = prep
  BY DEF Change, walkVars, prepVars
<1>3. PICK p \in Range(Names) : \E x \in Changes[p] : disk' = [disk EXCEPT ![p] = x] /\ touched' = touched \cup {p}
  BY DEF Change
<1>4. PICK x \in Nodes : disk' = [disk EXCEPT ![p] = x] /\ p \in Paths /\ p # Root
  BY <1>3, TreeAssumption DEF Paths
<1>5. TreeKept'
  <2>1. disk' \in [Paths -> Nodes] /\ disk'[Root].kind = "dir"
    BY <1>1, <1>4 DEF TreeKept, Paths
  <2>2. \A q \in Paths \ touched' : disk'[q] = Tree[q]
    BY <1>1, <1>3, <1>4 DEF TreeKept
  <2>3. changes' \in Nat /\ changes' # 0
    BY <1>1, <1>2 DEF TreeKept
  <2> QED
    BY <1>1, <1>2, <2>1, <2>2, <2>3 DEF TreeKept
<1>6. WalkKept'
  <2>1. Sound(inv)'
    BY <1>1, <1>2 DEF WalkKept, Sound, PathsOf
  <2>2. ToCome(frames)' = ToCome(frames)
    BY <1>2 DEF ToCome
  <2>3. \A q \in ToCome(frames) : q.path \notin touched' => q.kind = Tree[q.path].kind
    BY <1>1, <1>3 DEF WalkKept
  <2>4. scope' \in Seq(Paths) /\ Range(scope') \subseteq Range(asked') /\ frames' \in Seq(Frames)
        /\ (\A i \in DOMAIN frames' : frames'[i].rest # {})
        /\ (phase' # "inventory" => scope' = <<>> /\ frames' = <<>>)
    BY <1>1, <1>2 DEF WalkKept
  <2> QED
    BY <2>1, <2>2, <2>3, <2>4 DEF WalkKept
<1>7. LoopKept'
  <2>1. AheadPaths' = AheadPaths
    BY <1>2 DEF AheadPaths
  <2> QED
    BY <1>1, <1>2, <2>1 DEF LoopKept
<1>8. CompletenessKept'
  <2>1. Covers(inv, scope, frames) => Covers(inv, scope, frames)'
    BY <1>2, <1>3 DEF Covers, Asks, Settled, ToCome, Below, PathsOf
  <2>2. AheadPaths' = AheadPaths
    BY <1>2 DEF AheadPaths
  <2> QED
    BY <1>1, <1>2, <2>1, <2>2 DEF CompletenessKept, PathsOf
<1>9. changes' # 0
  BY <1>1, <1>2 DEF TreeKept
<1> QED
  BY <1>5, <1>6, <1>7, <1>8, <1>9 DEF PInv

\* A stop changes nothing that was found, and a step of no program nothing at all.
LEMMA StopFits ==
  ASSUME PInv, stop' \in BOOLEAN, UNCHANGED <<disk, changes, touched, phase, asked, walkVars, prepVars>>
  PROVE  PInv'
<1>1. /\ TreeKept /\ WalkKept /\ LoopKept /\ CompletenessKept
      /\ disk' = disk /\ changes' = changes /\ touched' = touched /\ phase' = phase /\ asked' = asked
      /\ scope' = scope /\ frames' = frames /\ inv' = inv /\ order' = order /\ ahead' = ahead /\ prep' = prep
  BY DEF PInv, walkVars, prepVars
<1>2. AheadPaths' = AheadPaths
  BY <1>1 DEF AheadPaths
<1>3. TreeKept' /\ LoopKept'
  BY <1>1, <1>2 DEF TreeKept, LoopKept
<1>4. WalkKept'
  BY <1>1 DEF WalkKept, Sound, PathsOf, ToCome
<1>5. CompletenessKept'
  <2>1. Covers(inv, scope, frames)' <=> Covers(inv, scope, frames)
    BY <1>1 DEF Covers, Asks, Settled, ToCome, Below, PathsOf
  <2> QED
    BY <1>1, <1>2, <2>1 DEF CompletenessKept, PathsOf
<1>6. ASSUME changes' = 0 PROVE QuietWalk(inv, frames)' /\ QuietLoop'
  <2>1. QuietWalk(inv, frames) /\ QuietLoop
    BY <1>1, <1>6 DEF PInv
  <2>2. QuietWalk(inv, frames)'
    BY <1>1, <2>1, SameTree
  <2>3. \A i \in DOMAIN ahead : ahead[i].read = ReadEntry(ahead[i].path, FALSE)'
    BY <1>1, <2>1, SameTree DEF QuietLoop
  <2>4. \A q : Admitted(q)' <=> Admitted(q)
    BY <1>1, SameTree
  <2>5. QuietLoop'
    BY <1>1, <2>1, <2>3, <2>4 DEF QuietLoop, PathsOf
  <2> QED
    BY <2>2, <2>5
<1> QED
  BY <1>1, <1>3, <1>4, <1>5, <1>6 DEF PInv

-----------------------------------------------------------------------------
(* The theorems.                                                           *)

\* Nothing is found at first, and the whole scope is to come.
LEMMA PreparationStarts ==
  ASSUME PreparationInit
  PROVE  PInv
<1>1. /\ disk = Tree /\ changes = 0 /\ touched = {} /\ stop = FALSE /\ phase = "inventory" /\ asked \in Scopes
      /\ scope = asked /\ frames = <<>> /\ inv = Empty /\ order = <<>> /\ ahead = <<>> /\ prep = Started
  BY DEF PreparationInit, Started
<1>2. Range(<<>>) = {} /\ DOMAIN <<>> = {} /\ Len(<<>>) = 0
  BY DEF Range
<1>3. ToCome(<<>>) = {} /\ PathsOf(<<>>) = {} /\ IsInjective(<<>>) /\ AheadPaths = {}
  BY <1>1, <1>2 DEF ToCome, PathsOf, IsInjective, AheadPaths
<1>4. asked \in Seq(Paths)
  BY <1>1, TreeAssumption
<1>5. TreeKept
  BY <1>1, <1>4, TreeAssumption DEF TreeKept
<1>6. Sound(inv)
  <2>1. inv \in Accumulators
    BY <1>1 DEF Empty, Accumulators, Notices
  <2> QED
    BY <1>1, <1>2, <1>3, <2>1 DEF Sound, Empty
<1>7. WalkKept
  BY <1>1, <1>2, <1>3, <1>4, <1>6 DEF WalkKept
<1>8. LoopKept
  BY <1>1, <1>2, <1>3 DEF LoopKept, Started, Notices
<1>9. CompletenessKept
  <2>1. Covers(inv, scope, frames)
    BY <1>1 DEF Covers
  <2> QED
    BY <1>1, <2>1 DEF CompletenessKept, Started
<1>10. QuietWalk(inv, frames) /\ QuietLoop
  BY <1>1, <1>2, <1>3 DEF QuietWalk, QuietLoop, Empty, Started
<1> QED
  BY <1>5, <1>7, <1>8, <1>9, <1>10 DEF PInv

\* Every step of a preparation keeps what it has found: on the walk nothing that is asked
\* for is lost, no file counts twice, and on a quiet tree the rules in force are those of
\* the directories above; in the loop every file of the inventory stays accounted for.
THEOREM PreparationInvariant == PreparationSpec => []PInv
<1>1. PreparationInit => PInv
  BY PreparationStarts
<1>2. PInv /\ [PreparationNext]_preparationVars => PInv'
  <2> SUFFICES ASSUME PInv, [PreparationNext]_preparationVars PROVE PInv'
    OBVIOUS
  <2>1. CASE ScopeEntry
    BY <2>1, ScopeEntryFits
  <2>2. CASE WalkEntry
    BY <2>2, WalkEntryFits
  <2>3. CASE InventoryEnds
    BY <2>3, InventoryEndsFits
  <2>4. CASE ReadAhead
    BY <2>4, ReadAheadFits
  <2>5. CASE TakeTurn
    BY <2>5, TakeTurnFits
  <2>6. CASE Finish
    BY <2>6, FinishFits
  <2>7. CASE Change
    BY <2>7, ChangeFits
  <2>8. CASE Stop
    BY <2>8, StopFits DEF Stop
  <2>9. CASE UNCHANGED preparationVars
    <3>1. stop' \in BOOLEAN /\ UNCHANGED <<disk, changes, touched, phase, asked, walkVars, prepVars>>
      BY <2>9 DEF PInv, TreeKept, preparationVars, treeVars
    <3> QED
      BY <3>1, StopFits
  <2> QED
    BY <2>1, <2>2, <2>3, <2>4, <2>5, <2>6, <2>7, <2>8, <2>9 DEF PreparationNext
<1> QED
  BY <1>1, <1>2, PTL DEF PreparationSpec

\* What the invariant says of a complete preparation.
LEMMA CompleteFits ==
  ASSUME PInv
  PROVE  CompleteMeansAll
<1> SUFFICES ASSUME phase = "done", prep.complete, NEW e \in Range(asked), NEW p \in Range(Names),
                    e \in Range(Above[p]), disk[p].kind = "file", Range(Above[p]) \cap touched = {}
             PROVE  p \in Range(prep.files) \cup Excluded \/ Below(e, p) \cap Pruned # {}
  BY DEF CompleteMeansAll
<1>1. /\ TreeKept /\ inv.complete /\ Covers(inv, scope, frames) /\ scope = <<>> /\ frames = <<>>
      /\ order = <<>> /\ ahead = <<>>
      /\ Range(inv.files) \subseteq Range(order) \cup AheadPaths \cup Range(prep.files) \cup PathsOf(prep.excluded)
  BY DEF PInv, WalkKept, LoopKept, CompletenessKept
<1>2. Range(<<>>) = {} /\ DOMAIN <<>> = {}
  BY DEF Range
<1>3. ToCome(<<>>) = {} /\ AheadPaths = {}
  BY <1>1, <1>2 DEF ToCome, AheadPaths
<1>4. Asks(e, p)
  <2>1. p \in Paths
    BY DEF Paths
  <2>2. p \in Range(Above[p])
    BY <2>1, PathFacts DEF Range
  <2> QED
    BY <1>1, <2>1, <2>2 DEF Asks, TreeKept
<1>5. Settled(inv, e, p)
  BY <1>1, <1>2, <1>3, <1>4 DEF Covers
<1>6. Excluded = PathsOf(inv.excluded) \cup PathsOf(prep.excluded) /\ Pruned = PathsOf(inv.pruned)
  BY DEF Excluded, Pruned, PathsOf
<1> QED
  BY <1>1, <1>2, <1>3, <1>5, <1>6 DEF Settled

\* A preparation that says it is complete has met every file of its scope that nobody
\* touched (CompleteMeansAll), whatever hit its reads and whenever it was stopped.
THEOREM CompleteIsAll == PreparationSpec => []CompleteMeansAll
<1>1. PInv => CompleteMeansAll
  BY CompleteFits
<1> QED
  BY <1>1, PreparationInvariant, PTL

\* What the invariant says of the counts.
LEMMA CountsKept ==
  ASSUME PInv
  PROVE  CountsFit
<1>1. /\ Len(prep.files) \in Nat /\ Len(inv.excluded) \in Nat /\ Len(prep.excluded) \in Nat /\ prep.unreadable \in Nat
      /\ inv.discovered \in Nat /\ Len(inv.files) \in Nat /\ Len(inv.files) + Len(inv.excluded) <= inv.discovered
  BY DEF PInv, WalkKept, LoopKept, Sound, Accumulators, Notices
<1>2. Len(order) \in Nat /\ Len(ahead) \in Nat /\ IsInjective(prep.files)
  BY DEF PInv, LoopKept
<1>3. CASE phase = "inventory"
  <2>1. prep = Started
    BY <1>3 DEF PInv, LoopKept
  <2>2. Len(prep.files) = 0 /\ Len(prep.excluded) = 0 /\ prep.unreadable = 0
    BY <2>1 DEF Started
  <2>3. \A f, g, m \in Nat : f + g <= m => 0 + g + 0 + 0 <= m
    OBVIOUS
  <2> QED
    BY <1>1, <1>2, <2>2, <2>3 DEF CountsFit
<1>4. CASE phase # "inventory"
  <2>1. Len(order) + Len(ahead) + Len(prep.files) + Len(inv.excluded) + Len(prep.excluded) + prep.unreadable
          <= inv.discovered
    BY <1>4 DEF PInv, LoopKept
  <2>2. PICK o, a, f, g, h \in Nat :
          /\ o = Len(order) /\ a = Len(ahead) /\ f = Len(prep.files) /\ g = Len(inv.excluded)
          /\ h = Len(prep.excluded)
    BY <1>1, <1>2
  <2>3. PICK u, m \in Nat : u = prep.unreadable /\ m = inv.discovered
    BY <1>1
  <2>4. o + a + f + g + h + u <= m
    BY <2>1, <2>2, <2>3
  <2>5. f + g + h + u <= m
    BY <2>4
  <2>6. Len(prep.files) + Len(inv.excluded) + Len(prep.excluded) + prep.unreadable <= inv.discovered
    BY <2>2, <2>3, <2>5
  <2> QED
    BY <1>2, <2>6 DEF CountsFit
<1> QED
  BY <1>3, <1>4

\* The counts of the response fit (CountsFit): what is prepared, excluded and unreadable is
\* never more than what was discovered, and nothing is prepared twice.
THEOREM CountsAlwaysFit == PreparationSpec => []CountsFit
<1>1. PInv => CountsFit
  BY CountsKept
<1> QED
  BY <1>1, PreparationInvariant, PTL

\* What is sought from an entry outside the administrative directories is eligible.
LEMMA SoughtIsEligible ==
  ASSUME NEW e, ~Administrative(e), NEW p, Sought(e, p)
  PROVE  Eligible(e, p)
<1>1. ASSUME NEW d \in Range(Above[p]), disk[d].kind = "dir", DirClass[d] = "administrative" PROVE FALSE
  <2>1. d # p
    BY <1>1 DEF Sought
  <2>2. d \notin Range(Above[e])
    BY <1>1 DEF Administrative
  <2>3. DirExclusion(d, RulesAt(d)) = Nothing
    BY <1>1, <2>1, <2>2 DEF Sought, Below
  <2>4. Nothing # "administrative"
    BY TreeAssumption DEF InventoryExclusion
  <2> QED
    BY <1>1, <2>3, <2>4 DEF DirExclusion
<1> QED
  BY <1>1 DEF Eligible, Sought, Administrative

\* What the invariant says of a preparation on a quiet tree.
LEMMA EligibilityFits ==
  ASSUME PInv
  PROVE  MatchesEligibility
<1> SUFFICES ASSUME phase = "done", changes = 0, \A e \in Range(asked) : ~Administrative(e)
             PROVE  /\ \A i, j \in DOMAIN prep.files : i < j => Pos(prep.files[i]) < Pos(prep.files[j])
                    /\ Range(prep.files) \subseteq Meant
                    /\ prep.complete => Meant \subseteq Range(prep.files)
  <2>1. (prep.complete => Meant \subseteq Range(prep.files)) /\ Range(prep.files) \subseteq Meant
          => IF prep.complete THEN Range(prep.files) = Meant ELSE Range(prep.files) \subseteq Meant
    <3>1. CASE prep.complete
      BY <3>1
    <3>2. CASE ~prep.complete
      BY <3>2
    <3> QED
      BY <3>1, <3>2
  <2> QED
    BY <2>1, Zenon DEF MatchesEligibility
<1>1. TreeKept /\ touched = {} /\ CompleteMeansAll /\ QuietWalk(inv, frames) /\ QuietLoop
  BY CompleteFits DEF PInv, TreeKept
<1>2. \A i, j \in DOMAIN prep.files : i < j => Pos(prep.files[i]) < Pos(prep.files[j])
  BY DEF PInv, LoopKept
<1>3. Range(prep.files) \subseteq Range(inv.files) /\ Range(inv.files) \subseteq Range(Names)
  <2>1. inv.files \in Seq(Range(Names))
    BY DEF PInv, WalkKept, Sound, Accumulators
  <2>2. Range(inv.files) \subseteq Range(Names)
    BY <2>1 DEF Range
  <2> QED
    BY <2>2 DEF PInv, LoopKept
<1>4. ASSUME NEW p \in Range(prep.files) PROVE p \in Meant
  <2>1. PICK e \in Range(asked) : Sought(e, p)
    BY <1>1, <1>3, <1>4 DEF QuietWalk
  <2>2. Eligible(e, p)
    BY <2>1, SoughtIsEligible
  <2> QED
    BY <1>1, <1>3, <1>4, <2>2 DEF Meant, QuietLoop
<1>5. ASSUME prep.complete, NEW p \in Meant PROVE p \in Range(prep.files)
  <2>1. PICK e \in Range(asked) : Eligible(e, p)
    BY <1>5 DEF Meant
  <2>2. p \in Range(Names) /\ disk[p].verdict = "ok" /\ disk[p].kind = "file" /\ e \in Range(Above[p])
    BY <1>5, <2>1 DEF Meant, Eligible
  <2>3. p \in Range(prep.files) \cup Excluded \/ Below(e, p) \cap Pruned # {}
    BY <1>1, <1>5, <2>2 DEF CompleteMeansAll
  <2>4. Excluded = PathsOf(inv.excluded) \cup PathsOf(prep.excluded) /\ Pruned = PathsOf(inv.pruned)
    BY DEF Excluded, Pruned, PathsOf
  <2>5. Admitted(p)
    BY <2>1 DEF Admitted, Eligible
  <2>6. p \notin Excluded
    BY <1>1, <2>2, <2>4, <2>5 DEF QuietWalk, QuietLoop
  <2>7. ASSUME NEW d \in Below(e, p), d \in Pruned PROVE FALSE
    <3>1. disk[d].kind = "dir" /\ DirExclusion(d, RulesAt(d)) # Nothing
      BY <1>1, <2>4, <2>7 DEF QuietWalk
    <3>2. d # p
      BY <2>2, <3>1
    <3> QED
      BY <2>1, <2>7, <3>1, <3>2 DEF Eligible
  <2> QED
    BY <2>3, <2>6, <2>7
<1> QED
  BY <1>2, <1>4, <1>5

\* On an undisturbed tree exactly the eligible files are prepared, in path order, and
\* without a limit or a stop none of them is left out, for every scope with no entry that is
\* an administrative directory or in one (MatchesEligibility): of the others it says nothing.
THEOREM EligibleIsPrepared == PreparationSpec => []MatchesEligibility
<1>1. PInv => MatchesEligibility
  BY EligibilityFits
<1> QED
  BY <1>1, PreparationInvariant, PTL

-----------------------------------------------------------------------------
(* The line index.                                                         *)

\* What is assumed of a file.
LEMMA FileIs ==
  ASSUME file \in Sources
  PROVE  /\ LineCount \in Nat /\ LineCount >= 1 /\ Lines = 1 .. LineCount
         /\ \A l \in Lines : /\ file.bytes[l] \in Nat /\ file.tokens[l] \in Nat /\ file.saved[l] \in Nat
                             /\ file.saved[l] <= file.tokens[l] /\ file.blank[l] \in BOOLEAN
<1>1. /\ file.bytes \in Seq(Nat) /\ file.bytes # <<>>
      /\ {file.tokens, file.saved} \subseteq [DOMAIN file.bytes -> Nat]
      /\ file.blank \in [DOMAIN file.bytes -> BOOLEAN]
      /\ \A l \in DOMAIN file.bytes : file.saved[l] <= file.tokens[l]
  BY SourcesAssumption
<1>2. LineCount \in Nat /\ LineCount >= 1 /\ DOMAIN file.bytes = 1 .. LineCount
  BY <1>1, LenProperties, EmptySeq DEF LineCount
<1>3. \A l \in 1 .. LineCount : file.bytes[l] \in Nat
  BY <1>1, <1>2
<1>4. /\ \A l \in 1 .. LineCount : file.tokens[l] \in Nat
      /\ \A l \in 1 .. LineCount : file.saved[l] \in Nat
      /\ \A l \in 1 .. LineCount : file.blank[l] \in BOOLEAN
  BY <1>1, <1>2
<1> QED
  BY <1>1, <1>2, <1>3, <1>4 DEF Lines

\* The lines of a range are finitely many.
LEMMA RangeFinite ==
  ASSUME NEW a \in Int, NEW b \in Int
  PROVE  IsFiniteSet(a .. b) /\ IsFiniteSet(a .. b - 1)
  BY FS_Interval

\* The bytes and the tokens of a range, and of a part of it.
LEMMA RangesAre ==
  ASSUME file \in Sources, NEW i \in Nat, NEW j \in Nat, 1 <= i, j <= LineCount
  PROVE  /\ RangeTokens(i, j) \in Nat /\ RangeBytes(i, j) \in Nat
         /\ TokenCount(i, j) \in Int /\ TokenCount(i, j) <= RangeTokens(i, j)
         /\ \A m \in i .. j : \A l \in m .. j : /\ RangeTokens(m, l) <= RangeTokens(i, j)
                                                /\ RangeBytes(m, l) <= RangeBytes(i, j)
<1>1. LineCount \in Nat /\ \A l \in 1 .. LineCount : file.bytes[l] \in Nat /\ file.tokens[l] \in Nat /\ file.saved[l] \in Nat
  BY FileIs
<1>2. \A l \in i .. j : l \in 1 .. LineCount
  BY <1>1
<1>3. RangeTokens(i, j) \in Nat /\ RangeBytes(i, j) \in Nat
  <2>1. IsFiniteSet(i .. j)
    BY <1>1, RangeFinite
  <2>2. \A l \in i .. j : file.tokens[l] \in Nat /\ file.bytes[l] \in Nat
    BY <1>1, <1>2
  <2> QED
    BY <2>1, <2>2, SumType DEF RangeTokens, RangeBytes
<1>4. SumFunctionOnSet(file.saved, i .. j - 1) \in Nat
  <2>1. \A l \in i .. j - 1 : l \in 1 .. LineCount
    BY <1>1
  <2>2. IsFiniteSet(i .. j - 1)
    BY RangeFinite
  <2> QED
    BY <1>1, <2>1, <2>2, SumType
<1>5. ASSUME NEW m \in i .. j, NEW l \in m .. j
      PROVE  RangeTokens(m, l) <= RangeTokens(i, j) /\ RangeBytes(m, l) <= RangeBytes(i, j)
  <2>1. m .. l \in SUBSET (i .. j) /\ IsFiniteSet(i .. j)
    BY RangeFinite
  <2>2. \A x \in i .. j : file.tokens[x] \in Nat /\ file.bytes[x] \in Nat
    BY <1>1, <1>2
  <2> QED
    BY <2>1, <2>2, SumMonotone DEF RangeTokens, RangeBytes
<1> QED
  BY <1>3, <1>4, <1>5 DEF TokenCount

\* Those of a line.
LEMMA LineIs ==
  ASSUME file \in Sources, NEW l \in Lines
  PROVE  /\ RangeTokens(l, l) = file.tokens[l] /\ RangeBytes(l, l) = file.bytes[l]
         /\ TokenCount(l, l) = file.tokens[l]
<1>1. LineCount \in Nat /\ l \in 1 .. LineCount /\ file.bytes[l] \in Nat /\ file.tokens[l] \in Nat /\ file.saved[l] \in Nat
  BY FileIs
<1>2. l .. l = {l} /\ l .. l - 1 = {} /\ {l} \ {l} = {} /\ IsFiniteSet({l})
  <2>1. l .. l = {l} /\ l .. l - 1 = {}
    BY <1>1
  <2> QED
    BY <2>1, FS_Singleton
<1>3. SumFunctionOnSet(file.tokens, {l}) = file.tokens[l] + SumFunctionOnSet(file.tokens, {})
  <2>1. \A x \in {l} : file.tokens[x] \in Int
    BY <1>1
  <2> QED
    BY <1>2, <2>1, SumRemove
<1>4. SumFunctionOnSet(file.bytes, {l}) = file.bytes[l] + SumFunctionOnSet(file.bytes, {})
  <2>1. \A x \in {l} : file.bytes[x] \in Int
    BY <1>1
  <2> QED
    BY <1>2, <2>1, SumRemove
<1>5. /\ SumFunctionOnSet(file.tokens, {}) = 0 /\ SumFunctionOnSet(file.bytes, {}) = 0
      /\ SumFunctionOnSet(file.saved, {}) = 0
  BY SumEmpty
<1> QED
  BY <1>1, <1>2, <1>3, <1>4, <1>5 DEF RangeTokens, RangeBytes, TokenCount

\* A text counts no fewer tokens than its last lines.
LEMMA LastLinesCount ==
  ASSUME file \in Sources, NEW i \in Nat, NEW j \in Nat, 1 <= i, j <= LineCount, NEW m \in i .. j
  PROVE  TokenCount(m, j) <= TokenCount(i, j)
<1> DEFINE t == file.tokens
           s == file.saved
           A == i .. m - 1
<1>1. LineCount \in Nat /\ \A l \in 1 .. LineCount : t[l] \in Nat /\ s[l] \in Nat /\ s[l] <= t[l]
  BY FileIs
<1>2. \A l \in i .. j : t[l] \in Nat /\ s[l] \in Nat /\ s[l] <= t[l]
  BY <1>1
<1>0. i \in Int /\ j \in Int /\ m \in Int /\ i <= m /\ m <= j /\ m - 1 \in Int
  OBVIOUS
<1> HIDE DEF t, s
<1>3. /\ IsFiniteSet(A) /\ IsFiniteSet(m .. j) /\ IsFiniteSet(m .. j - 1)
      /\ A \cap (m .. j) = {} /\ A \cap (m .. j - 1) = {}
      /\ A \cup (m .. j) = i .. j /\ A \cup (m .. j - 1) = i .. j - 1
  <2>1. IsFiniteSet(A) /\ IsFiniteSet(m .. j) /\ IsFiniteSet(m .. j - 1)
    BY <1>0, RangeFinite
  <2>2. A \cap (m .. j) = {} /\ A \cap (m .. j - 1) = {}
    BY <1>0
  <2>3. A \cup (m .. j) = i .. j /\ A \cup (m .. j - 1) = i .. j - 1
    BY <1>0
  <2> QED
    BY <2>1, <2>2, <2>3
<1>4. \A l \in A \cup (m .. j) : t[l] \in Int /\ s[l] \in Int
  BY <1>2, <1>3
<1>5. SumFunctionOnSet(t, i .. j) = SumFunctionOnSet(t, A) + SumFunctionOnSet(t, m .. j)
  BY <1>3, <1>4, SumUnion
<1>6. SumFunctionOnSet(s, i .. j - 1) = SumFunctionOnSet(s, A) + SumFunctionOnSet(s, m .. j - 1)
  <2>1. \A l \in A \cup (m .. j - 1) : s[l] \in Int
    BY <1>4
  <2> QED
    BY <1>3, <2>1, SumUnion
<1>7. SumFunctionOnSet(s, A) <= SumFunctionOnSet(t, A)
  <2>1. \A l \in A : t[l] \in Nat /\ s[l] \in Nat /\ s[l] <= t[l]
    BY <1>2, <1>3
  <2> QED
    BY <1>3, <2>1, SumDominates
<1>8. /\ SumFunctionOnSet(s, A) \in Int /\ SumFunctionOnSet(t, A) \in Int
      /\ SumFunctionOnSet(t, m .. j) \in Int /\ SumFunctionOnSet(s, m .. j - 1) \in Int
  <2>1. \A l \in m .. j - 1 : s[l] \in Int
    BY <1>4
  <2> QED
    BY <1>3, <1>4, <2>1, SumStep
<1> QED
  BY <1>5, <1>6, <1>7, <1>8 DEF TokenCount, RangeTokens, t, s

-----------------------------------------------------------------------------
(* Tilings: lists of ranges of lines, each starting where the one before   *)
(* it ends.                                                                *)

\* Some of the elements are marks, and take no lines.
Follows(s, marks, way) ==
  \A i \in 1 .. Len(s) :
    IF s[i] \in marks THEN way[i + 1] = way[i]
    ELSE s[i].first = way[i] /\ s[i].first <= s[i].last /\ s[i].last = way[i + 1] - 1

\* The list takes the lines from a up to b, not b itself.
Tiles(s, marks, a, b) ==
  \E way \in [1 .. Len(s) + 1 -> Int] : way[1] = a /\ way[Len(s) + 1] = b /\ Follows(s, marks, way)

\* No elements take no lines.
LEMMA TilesNone ==
  ASSUME NEW marks, NEW a \in Int
  PROVE  Tiles(<<>>, marks, a, a)
<1> DEFINE way == [i \in 1 .. Len(<<>>) + 1 |-> a]
<1>1. Len(<<>>) = 0
  OBVIOUS
<1>2. way \in [1 .. Len(<<>>) + 1 -> Int] /\ way[1] = a /\ way[Len(<<>>) + 1] = a
  BY <1>1
<1>3. \A i \in 1 .. Len(<<>>) : FALSE
  BY <1>1
<1> HIDE DEF way
<1>4. Follows(<<>>, marks, way)
  BY <1>3 DEF Follows
<1> QED
  BY <1>2, <1>4 DEF Tiles

\* Nor does the empty list take any.
LEMMA NoneTiles ==
  ASSUME NEW marks, NEW a, NEW b, Tiles(<<>>, marks, a, b)
  PROVE  a = b
<1>1. Len(<<>>) = 0 /\ 0 + 1 = 1
  OBVIOUS
<1> QED
  BY <1>1 DEF Tiles

\* One element takes its own lines.
LEMMA TilesOne ==
  ASSUME NEW marks, NEW x, NEW a, NEW b
  PROVE  /\ x \in marks /\ a \in Int /\ a = b => Tiles(<<x>>, marks, a, b)
         /\ x \notin marks /\ x.first \in Int /\ x.last \in Int /\ x.first <= x.last
              /\ a = x.first /\ b = x.last + 1 => Tiles(<<x>>, marks, a, b)
         /\ x \in marks /\ Tiles(<<x>>, marks, a, b) => a = b
         /\ x \notin marks /\ Tiles(<<x>>, marks, a, b) =>
              a = x.first /\ b = x.last + 1 /\ x.first <= x.last /\ x.first \in Int /\ x.last \in Int
<1>1. Len(<<x>>) = 1 /\ <<x>>[1] = x /\ 1 .. 1 = {1} /\ 1 + 1 = 2 /\ 1 .. 2 = {1, 2} /\ 1 # 2
  OBVIOUS
<1>2. ASSUME a \in Int, b \in Int,
             IF x \in marks THEN b = a ELSE x.first = a /\ x.first <= x.last /\ x.last = b - 1
      PROVE  Tiles(<<x>>, marks, a, b)
  <2> DEFINE way == [i \in 1 .. 2 |-> IF i = 1 THEN a ELSE b]
  <2>1. way \in [1 .. 2 -> Int] /\ way[1] = a /\ way[2] = b
    BY <1>2
  <2> HIDE DEF way
  <2> QED
    BY <1>1, <1>2, <2>1 DEF Tiles, Follows
<1>3. ASSUME Tiles(<<x>>, marks, a, b)
      PROVE  /\ a \in Int /\ b \in Int
             /\ IF x \in marks THEN b = a ELSE x.first = a /\ x.first <= x.last /\ x.last = b - 1
  <2>1. PICK way \in [1 .. Len(<<x>>) + 1 -> Int] :
          way[1] = a /\ way[Len(<<x>>) + 1] = b /\ Follows(<<x>>, marks, way)
    BY <1>3 DEF Tiles
  <2>2. IF x \in marks THEN way[2] = way[1] ELSE x.first = way[1] /\ x.first <= x.last /\ x.last = way[2] - 1
    BY <1>1, <2>1 DEF Follows
  <2>3. way \in [1 .. 2 -> Int] /\ way[1] = a /\ way[2] = b
    BY <1>1, <2>1
  <2>4. a \in Int /\ b \in Int
    BY <1>1, <2>3
  <2> QED
    BY <2>2, <2>3, <2>4
<1> QED
  BY <1>2, <1>3

\* The lines of two lists in turn.
LEMMA TilesConcat ==
  ASSUME NEW S, NEW s \in Seq(S), NEW t \in Seq(S), NEW marks, NEW a, NEW b, NEW c,
         Tiles(s, marks, a, b), Tiles(t, marks, b, c)
  PROVE  Tiles(s \o t, marks, a, c)
<1> DEFINE m == Len(s)
           n == Len(t)
<1>1. m \in Nat /\ n \in Nat /\ Len(s \o t) = m + n
  BY LenProperties, ConcatProperties
<1>2. \A i \in 1 .. m + n : (s \o t)[i] = IF i <= m THEN s[i] ELSE t[i - m]
  BY ConcatProperties
<1>3. PICK p \in [1 .. m + 1 -> Int] : p[1] = a /\ p[m + 1] = b /\ Follows(s, marks, p)
  BY DEF Tiles
<1>4. PICK q \in [1 .. n + 1 -> Int] : q[1] = b /\ q[n + 1] = c /\ Follows(t, marks, q)
  BY DEF Tiles
<1> DEFINE way == [i \in 1 .. m + n + 1 |-> IF i <= m THEN p[i] ELSE q[i - m]]
<1>5. \A i \in 1 .. m : IF s[i] \in marks THEN p[i + 1] = p[i]
                        ELSE s[i].first = p[i] /\ s[i].first <= s[i].last /\ s[i].last = p[i + 1] - 1
  BY <1>3 DEF Follows
<1>6. \A i \in 1 .. n : IF t[i] \in marks THEN q[i + 1] = q[i]
                        ELSE t[i].first = q[i] /\ t[i].first <= t[i].last /\ t[i].last = q[i + 1] - 1
  BY <1>4 DEF Follows
<1> HIDE DEF m, n
<1>7. way \in [1 .. m + n + 1 -> Int]
  <2>1. \A i \in 1 .. m + n + 1 : IF i <= m THEN i \in 1 .. m + 1 ELSE i - m \in 1 .. n + 1
    BY <1>1
  <2> QED
    BY <1>3, <1>4, <2>1
<1>8. /\ \A i \in 1 .. m + 1 : way[i] = p[i]
      /\ \A i \in m + 1 .. m + n + 1 : way[i] = q[i - m]
  <2>1. m + 1 - m = 1 /\ (m + 1 <= m) = FALSE /\ m + 1 \in 1 .. m + n + 1
    BY <1>1
  <2>2. way[m + 1] = b
    BY <1>1, <1>4, <2>1
  <2>3. \A i \in 1 .. m + 1 : i \in 1 .. m + n + 1 /\ (i <= m \/ i = m + 1)
    BY <1>1
  <2>4. \A i \in m + 1 .. m + n + 1 : i \in 1 .. m + n + 1 /\ ~(i <= m)
    BY <1>1
  <2> QED
    BY <1>3, <2>2, <2>3, <2>4
<1> HIDE DEF way
<1>9. way[1] = a /\ way[m + n + 1] = c
  <2>1. 1 \in 1 .. m + 1 /\ m + n + 1 \in m + 1 .. m + n + 1 /\ m + n + 1 - m = n + 1
    BY <1>1
  <2> QED
    BY <1>1, <1>3, <1>4, <1>8, <2>1
<1>10. ASSUME NEW i \in 1 .. m + n
       PROVE  IF (s \o t)[i] \in marks THEN way[i + 1] = way[i]
              ELSE /\ (s \o t)[i].first = way[i] /\ (s \o t)[i].first <= (s \o t)[i].last
                   /\ (s \o t)[i].last = way[i + 1] - 1
  <2>1. CASE i <= m
    <3>1. i \in 1 .. m /\ i \in 1 .. m + 1 /\ i + 1 \in 1 .. m + 1
      BY <1>1, <2>1
    <3> QED
      BY <1>2, <1>5, <1>8, <2>1, <3>1
  <2>2. CASE ~(i <= m)
    <3>1. /\ i - m \in 1 .. n /\ i \in m + 1 .. m + n + 1 /\ i + 1 \in m + 1 .. m + n + 1
          /\ i + 1 - m = (i - m) + 1
      BY <1>1, <2>2
    <3>2. way[i] = q[i - m] /\ way[i + 1] = q[(i - m) + 1]
      BY <1>1, <1>8, <3>1
    <3>3. (s \o t)[i] = t[i - m]
      BY <1>2, <2>2
    <3> QED
      BY <1>6, <3>1, <3>2, <3>3
  <2> QED
    BY <2>1, <2>2
<1>11. Follows(s \o t, marks, way)
  BY <1>1, <1>10 DEF Follows
<1> QED
  BY <1>1, <1>7, <1>9, <1>11 DEF Tiles

\* And back: where the second list starts, the first ends.
LEMMA TilesSplit ==
  ASSUME NEW S, NEW s \in Seq(S), NEW t \in Seq(S), NEW marks, NEW a, NEW c, Tiles(s \o t, marks, a, c)
  PROVE  \E b \in Int : Tiles(s, marks, a, b) /\ Tiles(t, marks, b, c)
<1> DEFINE m == Len(s)
           n == Len(t)
<1>1. m \in Nat /\ n \in Nat /\ Len(s \o t) = m + n
  BY LenProperties, ConcatProperties
<1>2. \A i \in 1 .. m + n : (s \o t)[i] = IF i <= m THEN s[i] ELSE t[i - m]
  BY ConcatProperties
<1>3. PICK way \in [1 .. m + n + 1 -> Int] : way[1] = a /\ way[m + n + 1] = c /\ Follows(s \o t, marks, way)
  BY <1>1 DEF Tiles
<1> DEFINE p == [i \in 1 .. m + 1 |-> way[i]]
           q == [i \in 1 .. n + 1 |-> way[m + i]]
           b == way[m + 1]
<1>4. \A i \in 1 .. m + n : IF (s \o t)[i] \in marks THEN way[i + 1] = way[i]
                            ELSE /\ (s \o t)[i].first = way[i] /\ (s \o t)[i].first <= (s \o t)[i].last
                                 /\ (s \o t)[i].last = way[i + 1] - 1
  BY <1>1, <1>3 DEF Follows
<1>5. Tiles(s, marks, a, b)
  <2> HIDE DEF n
  <2>1. /\ \A i \in 1 .. m + 1 : i \in 1 .. m + n + 1
        /\ \A i \in 1 .. m : i \in 1 .. m + n /\ i <= m /\ i \in 1 .. m + 1 /\ i + 1 \in 1 .. m + 1
        /\ 1 \in 1 .. m + 1 /\ m + 1 \in 1 .. m + 1
    BY <1>1
  <2>2. p \in [1 .. m + 1 -> Int] /\ p[1] = a /\ p[m + 1] = b
    BY <1>3, <2>1
  <2>3. \A i \in 1 .. m : p[i] = way[i] /\ p[i + 1] = way[i + 1] /\ (s \o t)[i] = s[i]
    BY <1>2, <2>1
  <2> HIDE DEF p, b
  <2>4. Follows(s, marks, p)
    BY <1>4, <2>1, <2>3 DEF Follows, m
  <2> QED
    BY <2>2, <2>4 DEF Tiles, m
<1>6. Tiles(t, marks, b, c)
  <2> HIDE DEF m
  <2>1. /\ \A i \in 1 .. n + 1 : m + i \in 1 .. m + n + 1
        /\ \A i \in 1 .. n : /\ m + i \in 1 .. m + n /\ ~(m + i <= m) /\ m + i - m = i /\ i \in 1 .. n + 1
                             /\ i + 1 \in 1 .. n + 1 /\ m + (i + 1) = (m + i) + 1
        /\ 1 \in 1 .. n + 1 /\ n + 1 \in 1 .. n + 1 /\ m + (n + 1) = m + n + 1
    BY <1>1
  <2>2. q \in [1 .. n + 1 -> Int] /\ q[1] = b /\ q[n + 1] = c
    BY <1>3, <2>1
  <2>3. \A i \in 1 .. n : q[i] = way[m + i] /\ q[i + 1] = way[(m + i) + 1] /\ (s \o t)[m + i] = t[i]
    BY <1>1, <1>2, <2>1
  <2> HIDE DEF q, b
  <2>4. \A i \in 1 .. n : IF t[i] \in marks THEN q[i + 1] = q[i]
                          ELSE t[i].first = q[i] /\ t[i].first <= t[i].last /\ t[i].last = q[i + 1] - 1
    <3> TAKE i \in 1 .. n
    <3>1. /\ m + i \in 1 .. m + n /\ q[i] = way[m + i] /\ q[i + 1] = way[(m + i) + 1]
          /\ (s \o t)[m + i] = t[i]
      BY <2>1, <2>3
    <3>2. IF (s \o t)[m + i] \in marks THEN way[(m + i) + 1] = way[m + i]
          ELSE /\ (s \o t)[m + i].first = way[m + i] /\ (s \o t)[m + i].first <= (s \o t)[m + i].last
               /\ (s \o t)[m + i].last = way[(m + i) + 1] - 1
      BY <1>4, <3>1
    <3> QED
      BY <3>1, <3>2
  <2>5. Follows(t, marks, q)
    BY <2>4 DEF Follows, n
  <2> QED
    BY <2>2, <2>5 DEF Tiles, n
<1>7. b \in Int
  <2>1. m + 1 \in 1 .. m + n + 1
    BY <1>1
  <2> QED
    BY <1>3, <2>1
<1> QED
  BY <1>5, <1>6, <1>7

\* A list is its first element and the others.
LEMMA HeadThenTail ==
  ASSUME NEW S, NEW s \in Seq(S), s # <<>>
  PROVE  /\ s = <<Head(s)>> \o Tail(s) /\ Head(s) = s[1] /\ Len(s) \in Nat /\ Len(s) >= 1
         /\ Tail(s) \in Seq(S) /\ Head(s) \in S /\ Len(Tail(s)) = Len(s) - 1
         /\ \A i \in 1 .. Len(Tail(s)) : Tail(s)[i] = s[i + 1]
<1>1. /\ Head(s) \in S /\ Tail(s) \in Seq(S) /\ Len(Tail(s)) = Len(s) - 1
      /\ \A i \in 1 .. Len(Tail(s)) : Tail(s)[i] = s[i + 1]
  BY HeadTailProperties
<1>2. Len(s) \in Nat /\ Len(s) >= 1 /\ Head(s) = s[1]
  BY EmptySeq, LenProperties
<1>3. <<Head(s)>> \in Seq(S) /\ Len(<<Head(s)>>) = 1 /\ <<Head(s)>>[1] = Head(s)
  BY <1>1
<1>4. /\ <<Head(s)>> \o Tail(s) \in Seq(S) /\ Len(<<Head(s)>> \o Tail(s)) = 1 + Len(Tail(s))
      /\ \A i \in 1 .. 1 + Len(Tail(s)) :
           (<<Head(s)>> \o Tail(s))[i] = IF i <= 1 THEN <<Head(s)>>[i] ELSE Tail(s)[i - 1]
  BY <1>1, <1>3, ConcatProperties
<1>5. ASSUME NEW i \in 1 .. Len(s) PROVE (<<Head(s)>> \o Tail(s))[i] = s[i]
  <2>1. CASE i = 1
    BY <1>1, <1>2, <1>3, <1>4, <2>1
  <2>2. CASE i # 1
    <3>1. i - 1 \in 1 .. Len(Tail(s)) /\ (i - 1) + 1 = i /\ ~(i <= 1) /\ i \in 1 .. 1 + Len(Tail(s))
      BY <1>1, <1>2, <2>2
    <3> QED
      BY <1>1, <1>4, <3>1
  <2> QED
    BY <2>1, <2>2
<1>6. s = <<Head(s)>> \o Tail(s)
  <2>1. Len(<<Head(s)>> \o Tail(s)) = Len(s)
    BY <1>1, <1>2, <1>4
  <2> QED
    BY <1>4, <1>5, <2>1, SeqEqual
<1> QED
  BY <1>1, <1>2, <1>6

\* And the other way round.
LEMMA FirstAndOthers ==
  ASSUME NEW S, NEW x \in S, NEW t \in Seq(S)
  PROVE  <<x>> \o t \in Seq(S) /\ <<x>> \o t # <<>> /\ Head(<<x>> \o t) = x /\ Tail(<<x>> \o t) = t
<1> DEFINE v == <<x>>
           w == v \o t
<1>1. v \in Seq(S) /\ Len(v) = 1 /\ v[1] = x
  OBVIOUS
<1> HIDE DEF v
<1>2. /\ v \o t \in Seq(S) /\ Len(v \o t) = Len(v) + Len(t)
      /\ \A i \in 1 .. Len(v) + Len(t) : (v \o t)[i] = IF i <= Len(v) THEN v[i] ELSE t[i - Len(v)]
  BY <1>1, ConcatProperties
<1>3. /\ w \in Seq(S) /\ Len(w) = 1 + Len(t) /\ Len(t) \in Nat
      /\ \A i \in 1 .. 1 + Len(t) : w[i] = IF i <= 1 THEN x ELSE t[i - 1]
  <2>1. Len(t) \in Nat /\ \A i \in 1 .. 1 + Len(t) : i <= 1 => i = 1
    BY LenProperties
  <2> QED
    BY <1>1, <1>2, <2>1
<1> HIDE DEF w
<1>4. w # <<>>
  BY <1>3, LenProperties
<1>5. /\ Head(w) = w[1] /\ Tail(w) \in Seq(S) /\ Len(Tail(w)) = Len(w) - 1
      /\ \A i \in 1 .. Len(Tail(w)) : Tail(w)[i] = w[i + 1]
  BY <1>3, <1>4, HeadThenTail
<1>6. Head(w) = x
  BY <1>3, <1>5
<1>7. Len(Tail(w)) = Len(t) /\ \A i \in 1 .. Len(Tail(w)) : Tail(w)[i] = t[i]
  <2>1. Len(Tail(w)) = Len(t)
    BY <1>3, <1>5
  <2>2. ASSUME NEW i \in 1 .. Len(Tail(w)) PROVE Tail(w)[i] = t[i]
    <3>1. i + 1 \in 1 .. 1 + Len(t) /\ ~(i + 1 <= 1) /\ (i + 1) - 1 = i
      BY <1>3, <2>1
    <3> QED
      BY <1>3, <1>5, <3>1
  <2> QED
    BY <2>1, <2>2
<1>8. Tail(w) = t
  BY <1>5, <1>7, SeqEqual
<1> QED
  BY <1>3, <1>4, <1>6, <1>8 DEF w, v

\* The lines after the first element are those of the rest.
LEMMA TilesTail ==
  ASSUME NEW S, NEW s \in Seq(S), s # <<>>, NEW marks, NEW a, NEW b, Tiles(s, marks, a, b)
  PROVE  /\ Head(s) \in marks => Tiles(Tail(s), marks, a, b)
         /\ Head(s) \notin marks => /\ Head(s).first = a /\ a <= Head(s).last
                                    /\ Head(s).first \in Int /\ Head(s).last \in Int
                                    /\ Tiles(Tail(s), marks, Head(s).last + 1, b)
<1> DEFINE x == Head(s)
           t == Tail(s)
<1>1. s = <<x>> \o t /\ x \in S /\ t \in Seq(S) /\ <<x>> \in Seq(S)
  BY HeadThenTail
<1> HIDE DEF x, t
<1>2. PICK c \in Int : Tiles(<<x>>, marks, a, c) /\ Tiles(t, marks, c, b)
  BY <1>1, TilesSplit
<1>3. /\ x \in marks => a = c
      /\ x \notin marks => a = x.first /\ c = x.last + 1 /\ x.first <= x.last /\ x.first \in Int /\ x.last \in Int
  BY <1>2, TilesOne
<1> QED
  BY <1>2, <1>3 DEF x, t

\* An element is added at the end.
LEMMA TilesAppend ==
  ASSUME NEW S, NEW s \in Seq(S), NEW x \in S, NEW marks, x \notin marks, NEW a, NEW b
  PROVE  /\ Tiles(s, marks, a, x.first) /\ x.first \in Int /\ x.last \in Int /\ x.first <= x.last /\ b = x.last + 1
              => Tiles(Append(s, x), marks, a, b)
         /\ Tiles(Append(s, x), marks, a, b)
              => /\ Tiles(s, marks, a, x.first) /\ x.first \in Int /\ x.last \in Int /\ x.first <= x.last
                 /\ b = x.last + 1
<1>1. Append(s, x) = s \o <<x>> /\ <<x>> \in Seq(S)
  BY AppendIsConcat
<1>2. ASSUME Tiles(s, marks, a, x.first), x.first \in Int, x.last \in Int, x.first <= x.last, b = x.last + 1
      PROVE  Tiles(s \o <<x>>, marks, a, b)
  <2>1. Tiles(<<x>>, marks, x.first, b)
    BY <1>2, TilesOne
  <2> QED
    BY <1>1, <1>2, <2>1, TilesConcat
<1>3. ASSUME Tiles(s \o <<x>>, marks, a, b)
      PROVE  /\ Tiles(s, marks, a, x.first) /\ x.first \in Int /\ x.last \in Int /\ x.first <= x.last
             /\ b = x.last + 1
  <2>1. PICK c \in Int : Tiles(s, marks, a, c) /\ Tiles(<<x>>, marks, c, b)
    BY <1>1, <1>3, TilesSplit
  <2> QED
    BY <2>1, TilesOne
<1> QED
  BY <1>1, <1>2, <1>3

\* The lines of an element are among those of the list.
LEMMA TilesRise ==
  ASSUME NEW S, NEW s \in Seq(S), NEW marks, NEW a, NEW b, Tiles(s, marks, a, b)
  PROVE  /\ a \in Int /\ b \in Int /\ a <= b
         /\ \A i \in 1 .. Len(s) : s[i] \notin marks => a <= s[i].first /\ s[i].first <= s[i].last /\ s[i].last < b
         /\ \A i, j \in 1 .. Len(s) : i < j /\ s[i] \notin marks /\ s[j] \notin marks => s[i].last < s[j].first
<1> DEFINE n == Len(s)
<1>1. n \in Nat
  BY LenProperties
<1>2. PICK way \in [1 .. n + 1 -> Int] : way[1] = a /\ way[n + 1] = b /\ Follows(s, marks, way)
  BY DEF Tiles
<1>3. \A i \in 1 .. n : IF s[i] \in marks THEN way[i + 1] = way[i]
                        ELSE s[i].first = way[i] /\ s[i].first <= s[i].last /\ s[i].last = way[i + 1] - 1
  BY <1>2 DEF Follows
<1> HIDE DEF n
<1>4. \A i \in 1 .. n : way[i] \in Int /\ way[i + 1] \in Int /\ way[i] <= way[i + 1]
  <2> TAKE i \in 1 .. n
  <2>1. way[i] \in Int /\ way[i + 1] \in Int
    BY <1>1, <1>2
  <2> QED
    BY <1>3, <2>1
<1> DEFINE N == {d \in Nat : \A i \in 1 .. n + 1 : i + d <= n + 1 => way[i] <= way[i + d]}
<1>5. 0 \in N
  <2>1. \A i \in 1 .. n + 1 : way[i] \in Int /\ i + 0 = i
    BY <1>1, <1>2
  <2> QED
    BY <2>1
<1>6. ASSUME NEW d \in N PROVE d + 1 \in N
  <2> SUFFICES ASSUME NEW i \in 1 .. n + 1, i + (d + 1) <= n + 1 PROVE way[i] <= way[i + (d + 1)]
    OBVIOUS
  <2>1. d \in Nat /\ i + d \in 1 .. n /\ i + d <= n + 1 /\ (i + d) + 1 = i + (d + 1) /\ i \in 1 .. n + 1
    BY <1>1
  <2>2. way[i] <= way[i + d]
    BY <2>1
  <2>3. way[i + d] \in Int /\ way[i + (d + 1)] \in Int /\ way[i + d] <= way[i + (d + 1)]
    BY <1>4, <2>1
  <2>4. way[i] \in Int
    BY <1>2
  <2> QED
    BY <2>2, <2>3, <2>4
<1>7. \A i, j \in 1 .. n + 1 : i <= j => way[i] <= way[j]
  <2>1. N = Nat
    <3>1. N \subseteq Nat
      OBVIOUS
    <3> HIDE DEF N
    <3> QED
      BY <1>5, <1>6, <3>1, NaturalInduction
  <2> TAKE i, j \in 1 .. n + 1
  <2> SUFFICES ASSUME i <= j PROVE way[i] <= way[j]
    OBVIOUS
  <2>2. j - i \in Nat /\ i + (j - i) = j /\ j <= n + 1
    BY <1>1
  <2> HIDE DEF N
  <2>3. j - i \in N
    BY <2>1, <2>2
  <2> QED
    BY <2>2, <2>3 DEF N
<1> HIDE DEF N
<1>8. 1 \in 1 .. n + 1 /\ n + 1 \in 1 .. n + 1 /\ 1 <= n + 1
  BY <1>1
<1>9. a \in Int /\ b \in Int /\ a <= b
  BY <1>2, <1>7, <1>8
<1>10. ASSUME NEW i \in 1 .. n, s[i] \notin marks
       PROVE  a <= s[i].first /\ s[i].first <= s[i].last /\ s[i].last < b
  <2>1. i \in 1 .. n + 1 /\ i + 1 \in 1 .. n + 1 /\ 1 <= i /\ i + 1 <= n + 1
    BY <1>1
  <2>2. way[1] <= way[i] /\ way[i + 1] <= way[n + 1]
    BY <1>7, <1>8, <2>1
  <2>3. way[i] \in Int /\ way[i + 1] \in Int
    BY <1>4
  <2>4. s[i].first = way[i] /\ s[i].first <= s[i].last /\ s[i].last = way[i + 1] - 1
    BY <1>3, <1>10
  <2> QED
    BY <1>2, <1>9, <2>2, <2>3, <2>4
<1>11. ASSUME NEW i \in 1 .. n, NEW j \in 1 .. n, i < j, s[i] \notin marks, s[j] \notin marks
       PROVE  s[i].last < s[j].first
  <2>1. i + 1 \in 1 .. n + 1 /\ j \in 1 .. n + 1 /\ i + 1 <= j
    BY <1>1, <1>11
  <2>2. way[i + 1] <= way[j] /\ way[i + 1] \in Int /\ way[j] \in Int
    BY <1>2, <1>7, <2>1
  <2>3. s[i].last = way[i + 1] - 1 /\ s[j].first = way[j]
    BY <1>3, <1>11
  <2> QED
    BY <2>2, <2>3
<1> QED
  BY <1>9, <1>10, <1>11 DEF n

-----------------------------------------------------------------------------
(* Units of statements.                                                    *)

\* The numbers in their order: from the least of them, each is greater than the last.
LEMMA AscendingIs ==
  ASSUME NEW a \in Int, NEW b \in Int, NEW T \in SUBSET (a .. b), a \in T
  PROVE  \E n \in Nat : /\ n >= 1 /\ Ascending(T) \in [1 .. n -> T] /\ Ascending(T)[1] = a
                        /\ \A i, j \in 1 .. n : i < j => Ascending(T)[i] < Ascending(T)[j]
<1> DEFINE n == Cardinality(T)
           upTo(x) == {y \in T : y <= x}
           rank == [x \in T |-> Cardinality(upTo(x))]
           from == [i \in 1 .. n |-> CHOOSE x \in T : Cardinality(upTo(x)) = i]
<1>1. IsFiniteSet(T) /\ n \in Nat
  BY FS_Interval, FS_Subset, FS_CardinalityType
<1>2. \A x \in T : x \in Int /\ a <= x
  OBVIOUS
<1>3. \A x \in T : IsFiniteSet(upTo(x)) /\ rank[x] \in Nat /\ rank[x] <= n /\ rank[x] = Cardinality(upTo(x))
  <2> TAKE x \in T
  <2>1. upTo(x) \in SUBSET T
    OBVIOUS
  <2> HIDE DEF upTo, n
  <2>2. rank[x] = Cardinality(upTo(x))
    OBVIOUS
  <2>3. IsFiniteSet(upTo(x)) /\ Cardinality(upTo(x)) <= Cardinality(T)
    BY <1>1, <2>1, FS_Subset
  <2> QED
    BY <2>2, <2>3, FS_CardinalityType DEF n
<1>4. ASSUME NEW x \in T, NEW y \in T, x < y PROVE rank[x] < rank[y]
  <2>0. (\A z \in T : z <= x => z <= y) /\ y <= y /\ ~(y <= x)
    BY <1>2, <1>4
  <2>1. upTo(x) \in SUBSET upTo(y) /\ y \in upTo(y) /\ y \notin upTo(x)
    BY <2>0
  <2> HIDE DEF upTo, rank, n
  <2>2. upTo(x) # upTo(y)
    BY <2>1
  <2>3. Cardinality(upTo(x)) <= Cardinality(upTo(y)) /\ Cardinality(upTo(x)) # Cardinality(upTo(y))
    BY <1>3, <2>1, <2>2, FS_Subset
  <2> QED
    BY <1>3, <2>3
<1>5. rank[a] = 1
  <2>0. (\A y \in T : y <= a => y = a) /\ a <= a
    BY <1>2
  <2>1. upTo(a) = {a}
    BY <2>0
  <2> HIDE DEF upTo
  <2> QED
    BY <1>3, <2>1, FS_Singleton
<1> HIDE DEF rank, upTo, n
<1>6. \A x \in T : rank[x] \in 1 .. n
  <2> TAKE x \in T
  <2>1. x = a \/ a < x
    BY <1>2
  <2>2. rank[x] >= 1
    BY <1>3, <1>4, <1>5, <2>1
  <2> QED
    BY <1>1, <1>3, <2>2
<1>7. rank \in Surjection(T, 1 .. n)
  <2>1. \A x, y \in T : rank[x] = rank[y] => x = y
    <3> TAKE x, y \in T
    <3>1. x < y \/ y < x \/ x = y
      BY <1>2
    <3> QED
      BY <1>3, <1>4, <3>1
  <2>2. rank \in [T -> 1 .. n]
    BY <1>6 DEF rank
  <2>3. rank \in Injection(T, 1 .. n)
    BY <2>1, <2>2 DEF Injection, IsInjective
  <2>4. IsFiniteSet(1 .. n) /\ Cardinality(1 .. n) = n
    <3>1. 1 \in Int /\ n \in Int /\ (1 > n => n = 0)
      BY <1>1
    <3>2. IsFiniteSet(1 .. n) /\ Cardinality(1 .. n) = IF 1 > n THEN 0 ELSE n - 1 + 1
      BY <3>1, FS_Interval
    <3> QED
      BY <1>1, <3>1, <3>2
  <2> QED
    BY <2>3, <2>4, FS_Injection DEF n
<1>8. \A i \in 1 .. n : from[i] \in T /\ rank[from[i]] = i
  <2> TAKE i \in 1 .. n
  <2>1. \E x \in T : Cardinality(upTo(x)) = i
    BY <1>3, <1>7 DEF Surjection
  <2>2. from[i] \in T /\ Cardinality(upTo(from[i])) = i
    BY <2>1
  <2> QED
    BY <1>3, <2>2
<1>9. Ascending(T) = from
  BY DEF Ascending, n, upTo
<1> HIDE DEF from
<1>10. n >= 1 /\ 1 \in 1 .. n
  BY <1>1, <1>5, <1>6
<1>11. from[1] = a
  <2>1. from[1] \in T /\ rank[from[1]] = 1
    BY <1>8, <1>10
  <2>2. from[1] = a \/ a < from[1]
    <3>1. from[1] \in Int /\ a <= from[1]
      BY <1>2, <2>1
    <3> QED
      BY <3>1
  <2>3. a < from[1] => rank[a] < rank[from[1]]
    BY <1>4, <2>1
  <2> QED
    BY <1>5, <2>1, <2>2, <2>3
<1>12. ASSUME NEW i \in 1 .. n, NEW j \in 1 .. n, i < j PROVE from[i] < from[j]
  <2>1. from[i] \in T /\ from[j] \in T /\ rank[from[i]] = i /\ rank[from[j]] = j
    BY <1>8
  <2>2. from[i] \in Int /\ from[j] \in Int
    BY <1>2, <2>1
  <2>3. from[j] < from[i] => rank[from[j]] < rank[from[i]]
    BY <1>4, <2>1
  <2>4. i \in Int /\ j \in Int /\ ~(j < i) /\ i # j
    BY <1>1, <1>12
  <2> QED
    BY <2>1, <2>2, <2>3, <2>4
<1>13. from \in [1 .. n -> T]
  BY <1>8 DEF from
<1> QED
  BY <1>1, <1>9, <1>10, <1>11, <1>12, <1>13

Symbols == [first : Nat, last : Nat]

\* What a range may start with: a symbol, or what names the statements found.
FoundOwns(found) == {UnitsFromBoundaries(found, d, a, b)[i].own : d \in Nat, a \in Nat, b \in Nat, i \in Nat}
Owns(found)      == Symbols \cup {Nil} \cup (IF found = Nil THEN {} ELSE FoundOwns(found))

RangeItems(found) == [kind : {"range"}, first : Nat, last : Nat, depth : Nat, own : Owns(found)]

\* Units of statements take the lines they are made for, wherever statements were found.
LEMMA BoundaryUnits ==
  ASSUME NEW found, found # Nil, NEW d \in Nat, NEW a \in Nat, NEW b \in Nat, a <= b
  PROVE  /\ UnitsFromBoundaries(found, d, a, b) \in Seq(RangeItems(found))
         /\ Len(UnitsFromBoundaries(found, d, a, b)) >= 1
         /\ Tiles(UnitsFromBoundaries(found, d, a, b), {EndMark}, a, b + 1)
<1> DEFINE inner == {x \in found : x.depth = d /\ x.line \in a + 1 .. b}
           T == {a} \cup {x.line : x \in inner}
           starts == Ascending(T)
           u == UnitsFromBoundaries(found, d, a, b)
<1>1. T \in SUBSET (a .. b) /\ a \in T
  OBVIOUS
<1>2. PICK n \in Nat : /\ n >= 1 /\ starts \in [1 .. n -> T] /\ starts[1] = a
                       /\ \A i, j \in 1 .. n : i < j => starts[i] < starts[j]
  <2>1. a \in Int /\ b \in Int
    OBVIOUS
  <2> HIDE DEF T
  <2> QED
    BY <1>1, <2>1, AscendingIs
<1>3. \A i \in 1 .. n : starts[i] \in Nat /\ a <= starts[i] /\ starts[i] <= b
  <2> HIDE DEF T, starts
  <2> TAKE i \in 1 .. n
  <2>1. starts[i] \in T
    BY <1>2
  <2>2. starts[i] \in a .. b
    BY <1>1, <2>1
  <2> QED
    BY <2>2
<1>4. DOMAIN starts = 1 .. n /\ Len(starts) = n
  <2> HIDE DEF T, starts
  <2> QED
    BY <1>2
<1>5. \E own : u = [i \in 1 .. n |-> [kind |-> "range", first |-> starts[i],
                                      last |-> IF i = n THEN b ELSE starts[i + 1] - 1, depth |-> d + 1, own |-> own[i]]]
  <2> DEFINE label(l) == LET here == {x \in found : x.line = l /\ (l = a \/ x.depth = d)}
                         IN  IF here = {} THEN <<>>
                             ELSE (CHOOSE x \in here : \A o \in here : x.depth <= o.depth).label
             symbol(l) == IF label(l) = <<>> THEN Nil ELSE [first |-> label(l)[1], last |-> label(l)[1]]
             own == [i \in 1 .. n |-> symbol(starts[i])]
  <2>1. u = [i \in DOMAIN starts |-> [kind |-> "range", first |-> starts[i],
                                      last |-> IF i = Len(starts) THEN b ELSE starts[i + 1] - 1, depth |-> d + 1,
                                      own |-> symbol(starts[i])]]
    BY DEF UnitsFromBoundaries
  <2> HIDE DEF starts, symbol, u
  <2>2. \A i \in 1 .. n : own[i] = symbol(starts[i])
    OBVIOUS
  <2> HIDE DEF own
  <2>3. u = [i \in 1 .. n |-> [kind |-> "range", first |-> starts[i],
                               last |-> IF i = n THEN b ELSE starts[i + 1] - 1, depth |-> d + 1, own |-> own[i]]]
    BY <1>4, <2>1, <2>2
  <2> QED
    BY <2>3
<1>6. PICK own : u = [i \in 1 .. n |-> [kind |-> "range", first |-> starts[i],
                                        last |-> IF i = n THEN b ELSE starts[i + 1] - 1, depth |-> d + 1,
                                        own |-> own[i]]]
  BY <1>5
<1>7. \A i \in 1 .. n : u[i].own \in Owns(found)
  <2> TAKE i \in 1 .. n
  <2>1. i \in Nat
    OBVIOUS
  <2> HIDE DEF T, starts
  <2>2. UnitsFromBoundaries(found, d, a, b)[i].own \in FoundOwns(found)
    BY <2>1 DEF FoundOwns
  <2> QED
    BY <2>2 DEF Owns
<1> HIDE DEF u, starts, T
<1>8. \A i \in 1 .. n : u[i] = [kind |-> "range", first |-> starts[i],
                                last |-> IF i = n THEN b ELSE starts[i + 1] - 1, depth |-> d + 1, own |-> own[i]]
  BY <1>6
<1>9. ASSUME NEW i \in 1 .. n
      PROVE  /\ u[i].kind = "range" /\ u[i].first = starts[i] /\ u[i].last = IF i = n THEN b ELSE starts[i + 1] - 1
             /\ u[i].first \in Nat /\ u[i].last \in Nat /\ u[i].first <= u[i].last /\ u[i] \in RangeItems(found)
  <2>1. /\ u[i].kind = "range" /\ u[i].first = starts[i]
        /\ u[i].last = IF i = n THEN b ELSE starts[i + 1] - 1
        /\ u[i].depth = d + 1
        /\ u[i] = [kind |-> u[i].kind, first |-> u[i].first, last |-> u[i].last, depth |-> u[i].depth,
                   own |-> u[i].own]
    <3> DEFINE l == IF i = n THEN b ELSE starts[i + 1] - 1
               h == d + 1
    <3>1. u[i] = [kind |-> "range", first |-> starts[i], last |-> l, depth |-> h, own |-> own[i]]
      BY <1>8
    <3>2. u[i].last = l /\ u[i].depth = h
      <4> HIDE DEF l, h
      <4> QED
        BY <3>1
    <3> HIDE DEF l, h
    <3>3. /\ u[i].kind = "range" /\ u[i].first = starts[i]
          /\ u[i] = [kind |-> u[i].kind, first |-> u[i].first, last |-> u[i].last, depth |-> u[i].depth,
                     own |-> u[i].own]
      BY <3>1
    <3> QED
      BY <3>2, <3>3 DEF l, h
  <2>2. i # n => i + 1 \in 1 .. n /\ i < i + 1
    BY <1>2
  <2>3. starts[i] \in Nat /\ (i # n => starts[i + 1] \in Nat /\ starts[i] < starts[i + 1])
    BY <1>2, <1>3, <2>2
  <2>4. u[i].last \in Nat /\ u[i].first <= u[i].last
    BY <1>3, <2>1, <2>3
  <2>5. u[i] \in RangeItems(found)
    <3>2. u[i].own \in Owns(found) /\ u[i].depth \in Nat
      BY <1>7, <2>1
    <3> HIDE DEF Owns
    <3> QED
      BY <2>1, <2>3, <2>4, <3>2 DEF RangeItems
  <2> QED
    BY <2>1, <2>3, <2>4, <2>5
<1>10. u \in Seq(RangeItems(found)) /\ Len(u) = n
  <2>1. u \in [1 .. n -> RangeItems(found)]
    BY <1>6, <1>9
  <2> QED
    BY <2>1
<1>11. Tiles(u, {EndMark}, a, b + 1)
  <2> DEFINE way == [i \in 1 .. n + 1 |-> IF i = n + 1 THEN b + 1 ELSE starts[i]]
  <2>1. \A i \in 1 .. n + 1 : i = n + 1 \/ i \in 1 .. n
    BY <1>2
  <2>2. way \in [1 .. n + 1 -> Int] /\ way[1] = a /\ way[n + 1] = b + 1 /\ \A i \in 1 .. n : way[i] = starts[i]
    <3>1. 1 \in 1 .. n + 1 /\ 1 # n + 1 /\ n + 1 \in 1 .. n + 1
      BY <1>2
    <3>2. \A i \in 1 .. n : i \in 1 .. n + 1 /\ i # n + 1
      BY <1>2
    <3> QED
      BY <1>2, <1>3, <2>1, <3>1, <3>2
  <2> HIDE DEF way
  <2>3. ASSUME NEW i \in 1 .. n
        PROVE  u[i] \notin {EndMark} /\ u[i].first = way[i] /\ u[i].first <= u[i].last /\ u[i].last = way[i + 1] - 1
    <3>1. u[i] \notin {EndMark}
      BY <1>9 DEF EndMark
    <3>2. u[i].last = way[i + 1] - 1
      <4>1. CASE i = n
        BY <1>9, <2>2, <4>1
      <4>2. CASE i # n
        <5>1. i + 1 \in 1 .. n
          BY <4>2
        <5> QED
          BY <1>9, <2>2, <4>2, <5>1
      <4> QED
        BY <4>1, <4>2
    <3> QED
      BY <1>9, <2>2, <3>1, <3>2
  <2>4. Follows(u, {EndMark}, way)
    BY <1>10, <2>3 DEF Follows
  <2> QED
    BY <1>10, <2>2, <2>4 DEF Tiles
<1> QED
  BY <1>2, <1>10, <1>11 DEF u

-----------------------------------------------------------------------------
(* Units of a node.                                                        *)

\* What holds of the first of a list of values, and passes from each to the next, holds of all.
LEMMA InductionAlong ==
  ASSUME NEW T, NEW n \in Nat, NEW g, g[0] \in T, \A m \in 1 .. n : g[m - 1] \in T => g[m] \in T
  PROVE  \A m \in 0 .. n : g[m] \in T
<1> DEFINE N == {m \in Nat : m <= n => g[m] \in T}
<1>1. 0 \in N
  OBVIOUS
<1>2. ASSUME NEW m \in N PROVE m + 1 \in N
  <2> SUFFICES ASSUME m + 1 <= n PROVE g[m + 1] \in T
    OBVIOUS
  <2>1. m \in Nat /\ m <= n /\ m + 1 \in 1 .. n /\ (m + 1) - 1 = m
    OBVIOUS
  <2>2. g[m] \in T
    BY <2>1
  <2> QED
    BY <2>1, <2>2
<1>3. N = Nat
  <2>1. N \subseteq Nat
    OBVIOUS
  <2> HIDE DEF N
  <2> QED
    BY <1>1, <1>2, <2>1, NaturalInduction
<1>4. \A m \in 0 .. n : m \in N /\ m <= n
  BY <1>3
<1> QED
  BY <1>4

\* A recursion from zero has a solution.
StepsUpTo(S, n) == [S \X (1 .. n) -> S]

LEMMA RecursionFromZero ==
  ASSUME NEW S, NEW base \in S, NEW n \in Nat, NEW step \in StepsUpTo(S, n)
  PROVE  \E f \in [0 .. n -> S] : f[0] = base /\ \A m \in 1 .. n : f[m] = step[<<f[m - 1], m>>]
<1> DEFINE zero == 0
<1>1. zero \in Int /\ n \in Int /\ zero <= n /\ step \in StepsOver(S, zero, n)
  BY DEF StepsOver, StepsUpTo
<1> HIDE DEF zero
<1>2. Solutions(S, zero, n, base, step) # {}
  BY <1>1, Recursion
<1> QED
  BY <1>2 DEF Solutions, zero

Runs(S, n, base, step) == {f \in [0 .. n -> S] : f[0] = base /\ \A m \in 1 .. n : f[m] = step[<<f[m - 1], m>>]}

LEMMA RunExists ==
  ASSUME NEW S, NEW base \in S, NEW n \in Nat, NEW step \in StepsUpTo(S, n)
  PROVE  \E f : f \in Runs(S, n, base, step)
BY RecursionFromZero DEF Runs

\* The last element is replaced.
LEMMA ReplaceLast ==
  ASSUME NEW S, NEW s \in Seq(S), NEW x \in S, NEW y \in S
  PROVE  /\ Len(Append(s, x)) = Len(s) + 1 /\ Append(s, x)[Len(s) + 1] = x /\ Append(s, x) # <<>>
         /\ [Append(s, x) EXCEPT ![Len(s) + 1] = y] = Append(s, y)
<1>1. /\ Append(s, x) \in Seq(S) /\ Len(Append(s, x)) = Len(s) + 1 /\ Append(s, x)[Len(s) + 1] = x
      /\ \A i \in 1 .. Len(s) : Append(s, x)[i] = s[i]
      /\ Append(s, y) \in Seq(S) /\ Len(Append(s, y)) = Len(s) + 1 /\ Append(s, y)[Len(s) + 1] = y
      /\ \A i \in 1 .. Len(s) : Append(s, y)[i] = s[i]
      /\ Append(s, x) # <<>> /\ Len(s) \in Nat
  BY AppendProperties, LenProperties
<1> DEFINE t == Append(s, x)
           u == Append(s, y)
           n == Len(s) + 1
<1>2. n \in 1 .. Len(t)
  BY <1>1
<1>3. /\ [t EXCEPT ![n] = y] \in Seq(S) /\ Len([t EXCEPT ![n] = y]) = Len(t)
      /\ \A j \in 1 .. Len(t) : [t EXCEPT ![n] = y][j] = IF j = n THEN y ELSE t[j]
  <2>1. t \in Seq(S)
    BY <1>1
  <2> HIDE DEF t, n
  <2> QED
    BY <1>2, <2>1, ExceptSeq
<1>4. \A j \in 1 .. Len(t) : j = n \/ j \in 1 .. Len(s)
  BY <1>1
<1>5. \A j \in 1 .. Len(t) : [t EXCEPT ![n] = y][j] = u[j]
  <2> TAKE j \in 1 .. Len(t)
  <2>1. CASE j = n
    BY <1>1, <1>3, <2>1
  <2>2. CASE j # n
    <3>1. j \in 1 .. Len(s)
      BY <1>4, <2>2
    <3> QED
      BY <1>1, <1>3, <2>2, <3>1
  <2> QED
    BY <2>1, <2>2
<1>6. [t EXCEPT ![n] = y] = u
  <2>1. u \in Seq(S) /\ Len(u) = Len(t)
    BY <1>1
  <2> HIDE DEF t, u, n
  <2> QED
    BY <1>3, <1>5, <2>1, SeqEqual
<1> QED
  BY <1>1, <1>6

\* Symbols that start in order, and no later than a line.
Sorted(symbols)        == \A i, j \in 1 .. Len(symbols) : i < j => symbols[i].first <= symbols[j].first
Precede(symbols, line) == \A i \in 1 .. Len(symbols) : symbols[i].first <= line

UnitRecords ==
  [kind : {"unit"}, first : Nat, last : Nat, depth : Nat, context : Seq(Symbols), nodes : Seq(TreeNodes)]
UnitItems ==
  {u \in UnitRecords :
     Sorted(u.context) /\ \A i \in 1 .. Len(u.nodes) : Precede(u.context, u.nodes[i].first)}

\* Units that take the lines from first to last, within the same symbols.
UnitLists(first, last, context) ==
  {us \in Seq(UnitItems) : us # <<>> /\ Tiles(us, {EndMark}, first, last + 1)
                           /\ \A i \in 1 .. Len(us) : us[i].context = context}

\* What is assumed of a node.
LEMMA NodeIs ==
  ASSUME NEW n \in TreeNodes
  PROVE  /\ n.first \in Nat /\ n.last \in Nat /\ n.children \in Seq(TreeNodes)
         /\ \A i \in 1 .. Len(n.children) : n.children[i] \in TreeNodes /\ n.first <= n.children[i].first
<1>1. n.first \in Nat /\ n.last \in Nat /\ n.children \in Seq(TreeNodes)
      /\ \A part \in Range(n.children) : n.first <= part.first
  BY SourcesAssumption
<1>2. \A i \in 1 .. Len(n.children) : n.children[i] \in Range(n.children) /\ n.children[i] \in TreeNodes
  BY <1>1 DEF Range
<1> QED
  BY <1>1, <1>2

\* A part is in one unit, and moves none of the lines but those it starts.
LEMMA JoinedFits ==
  ASSUME NEW first \in Nat, NEW last \in Nat, NEW context \in Seq(Symbols), Sorted(context),
         NEW us \in UnitLists(first, last, context), NEW part \in TreeNodes, Precede(context, part.first)
  PROVE  Joined(us, part, last) \in UnitLists(first, last, context)
<1>1. PICK s \in Seq(UnitItems), x \in UnitItems : us = Append(s, x)
  BY SequenceEmptyOrAppend DEF UnitLists
<1> DEFINE n == Len(us)
<1>2. /\ n = Len(s) + 1 /\ us[n] = x /\ Len(s) \in Nat
      /\ \A y \in UnitItems : [us EXCEPT ![n] = y] = Append(s, y)
  BY <1>1, ReplaceLast, LenProperties
<1>3. x \notin {EndMark} /\ \A y \in UnitItems : y \notin {EndMark}
  BY DEF UnitItems, UnitRecords, EndMark
<1>4. /\ Tiles(s, {EndMark}, first, x.first) /\ x.first \in Int /\ x.last \in Int /\ x.first <= x.last
      /\ last + 1 = x.last + 1
  BY <1>1, <1>3, TilesAppend DEF UnitLists
<1>5. /\ x \in UnitRecords
      /\ x.first \in Nat /\ x.last \in Nat /\ x.depth \in Nat /\ x.context \in Seq(Symbols) /\ x.nodes \in Seq(TreeNodes)
      /\ Sorted(x.context) /\ \A i \in 1 .. Len(x.nodes) : Precede(x.context, x.nodes[i].first)
  BY DEF UnitItems, UnitRecords
<1>6. x.context = context /\ \A i \in 1 .. Len(s) : s[i].context = context
  <2>1. \A i \in 1 .. n : us[i].context = context
    BY DEF UnitLists
  <2>2. \A i \in 1 .. Len(s) : us[i] = s[i] /\ i \in 1 .. n
    BY <1>1, <1>2, AppendProperties
  <2>3. n \in 1 .. n
    BY <1>2
  <2> QED
    BY <1>2, <2>1, <2>2, <2>3
<1>7. part.first \in Nat
  BY NodeIs
<1> HIDE DEF n
<1>8. \A t \in Seq(UnitItems), y \in UnitItems :
        (\A i \in 1 .. Len(t) : t[i].context = context) /\ y.context = context
          => \A i \in 1 .. Len(Append(t, y)) : Append(t, y)[i].context = context
  <2> TAKE t \in Seq(UnitItems), y \in UnitItems
  <2>1. Len(Append(t, y)) = Len(t) + 1 /\ Append(t, y)[Len(t) + 1] = y /\ Len(t) \in Nat
        /\ \A i \in 1 .. Len(t) : Append(t, y)[i] = t[i]
    BY AppendProperties, LenProperties
  <2>2. \A i \in 1 .. Len(Append(t, y)) : i \in 1 .. Len(t) \/ i = Len(t) + 1
    BY <2>1
  <2> QED
    BY <2>1, <2>2
<1>9. CASE part.first > x.first /\ part.first <= last
  <2> DEFINE y == [x EXCEPT !.last = part.first - 1]
             z == [x EXCEPT !.first = part.first, !.last = last, !.nodes = <<part>>]
  <2>0. part.first - 1 \in Nat
    BY <1>5, <1>7, <1>9
  <2>2. y \in UnitItems /\ y.first = x.first /\ y.last = part.first - 1 /\ y.context = context
    <3>1. /\ y \in UnitRecords /\ y.first = x.first /\ y.last = part.first - 1 /\ y.context = x.context
          /\ y.nodes = x.nodes
      BY <1>5, <2>0 DEF UnitRecords
    <3> HIDE DEF y
    <3> QED
      BY <1>5, <1>6, <3>1 DEF UnitItems
  <2>1. Joined(us, part, last) = Append(Append(s, y), z)
    <3>1. Joined(us, part, last) = Append([us EXCEPT ![n].last = part.first - 1], z)
      BY <1>2, <1>9 DEF Joined, n
    <3>2. [us EXCEPT ![n].last = part.first - 1] = [us EXCEPT ![n] = y]
      BY <1>2
    <3> QED
      BY <1>2, <2>2, <3>1, <3>2
  <2>3. z \in UnitItems /\ z.first = part.first /\ z.last = last /\ z.context = context
    <3>1. <<part>> \in Seq(TreeNodes) /\ \A i \in 1 .. Len(<<part>>) : <<part>>[i] = part
      OBVIOUS
    <3>2. /\ z \in UnitRecords /\ z.first = part.first /\ z.last = last /\ z.context = x.context
          /\ z.nodes = <<part>>
      BY <1>5, <1>7, <3>1 DEF UnitRecords
    <3> HIDE DEF z
    <3> QED
      BY <1>5, <1>6, <3>1, <3>2 DEF UnitItems
  <2> HIDE DEF y, z
  <2>4. Append(s, y) \in Seq(UnitItems) /\ Append(Append(s, y), z) \in Seq(UnitItems) /\ Append(Append(s, y), z) # <<>>
    BY <2>2, <2>3, AppendProperties
  <2>5. Tiles(Append(s, y), {EndMark}, first, part.first)
    <3>1. /\ Tiles(s, {EndMark}, first, y.first) /\ y.first \in Int /\ y.last \in Int /\ y.first <= y.last
          /\ part.first = y.last + 1
      BY <1>4, <1>7, <1>9, <2>2
    <3> QED
      BY <1>3, <2>2, <3>1, TilesAppend
  <2>6. Tiles(Append(Append(s, y), z), {EndMark}, first, last + 1)
    <3>1. z.first \in Int /\ z.last \in Int /\ z.first <= z.last /\ Tiles(Append(s, y), {EndMark}, first, z.first)
          /\ last + 1 = z.last + 1
      BY <1>7, <1>9, <2>3, <2>5
    <3> QED
      BY <1>3, <2>3, <2>4, <3>1, TilesAppend
  <2>7. \A i \in 1 .. Len(Append(Append(s, y), z)) : Append(Append(s, y), z)[i].context = context
    BY <1>6, <1>8, <2>2, <2>3, <2>4
  <2> QED
    BY <2>1, <2>4, <2>6, <2>7 DEF UnitLists
<1>10. CASE ~(part.first > x.first /\ part.first <= last)
  <2> DEFINE y == [x EXCEPT !.nodes = Append(@, part)]
  <2>2. /\ Append(x.nodes, part) \in Seq(TreeNodes) /\ Len(x.nodes) \in Nat
        /\ Len(Append(x.nodes, part)) = Len(x.nodes) + 1
        /\ \A i \in 1 .. Len(x.nodes) : Append(x.nodes, part)[i] = x.nodes[i]
        /\ Append(x.nodes, part)[Len(x.nodes) + 1] = part
    BY <1>5, AppendProperties, LenProperties
  <2>3. \A i \in 1 .. Len(Append(x.nodes, part)) : Precede(context, Append(x.nodes, part)[i].first)
    <3>1. \A i \in 1 .. Len(Append(x.nodes, part)) : i \in 1 .. Len(x.nodes) \/ i = Len(x.nodes) + 1
      BY <2>2
    <3> QED
      BY <1>5, <1>6, <2>2, <3>1
  <2>4. y \in UnitItems /\ y.first = x.first /\ y.last = x.last /\ y.context = context
    <3>1. /\ y \in UnitRecords /\ y.first = x.first /\ y.last = x.last /\ y.context = x.context
          /\ y.nodes = Append(x.nodes, part)
      BY <1>5, <2>2 DEF UnitRecords
    <3> HIDE DEF y
    <3> QED
      BY <1>5, <1>6, <2>2, <2>3, <3>1 DEF UnitItems
  <2>5. Joined(us, part, last) = Append(s, y)
    <3>1. Joined(us, part, last) = [us EXCEPT ![n].nodes = Append(@, part)]
      BY <1>2, <1>10 DEF Joined, n
    <3>2. [us EXCEPT ![n].nodes = Append(@, part)] = [us EXCEPT ![n] = y]
      BY <1>2
    <3> QED
      BY <1>2, <2>4, <3>1, <3>2
  <2> HIDE DEF y
  <2>6. Append(s, y) \in Seq(UnitItems) /\ Append(s, y) # <<>>
    BY <2>4, AppendProperties
  <2>7. Tiles(Append(s, y), {EndMark}, first, last + 1)
    BY <1>3, <1>4, <2>4, TilesAppend
  <2>8. \A i \in 1 .. Len(Append(s, y)) : Append(s, y)[i].context = context
    BY <1>6, <1>8, <2>4
  <2> QED
    BY <2>5, <2>6, <2>7, <2>8 DEF UnitLists
<1> QED
  BY <1>9, <1>10

\* Among some nodes of a list, there is one that spans no fewer lines than any other.
LEMMA WidestIs ==
  ASSUME NEW nodes \in Seq(TreeNodes), NEW some \in SUBSET (1 .. Len(nodes))
  PROVE  /\ some = {} => WidestOf(nodes, some) = Nil
         /\ some # {} => \E i \in some : WidestOf(nodes, some) = nodes[i]
<1> DEFINE span(i) == nodes[i].last - nodes[i].first
           Best(i, T) == \A m \in T : span(i) > span(m) \/ (span(i) = span(m) /\ i <= m)
           F == {T \in SUBSET some : T = {} \/ \E i \in T : Best(i, T)}
<1>1. Len(nodes) \in Nat /\ \A i \in some : i \in Nat /\ span(i) \in Int
  <2>1. Len(nodes) \in Nat
    BY LenProperties
  <2>2. \A i \in some : i \in Nat /\ nodes[i] \in TreeNodes
    BY <2>1
  <2>3. \A i \in some : nodes[i].last \in Nat /\ nodes[i].first \in Nat
    BY <2>2, NodeIs
  <2> QED
    BY <2>1, <2>2, <2>3
<1>2. IsFiniteSet(some)
  <2>1. 1 \in Int /\ Len(nodes) \in Int
    BY <1>1
  <2> QED
    BY <2>1, FS_Interval, FS_Subset
<1> HIDE DEF span
<1>3. ASSUME NEW T \in F, NEW x \in some \ T PROVE T \cup {x} \in F
  <2>1. x \in some /\ T \cup {x} \in SUBSET some /\ x \in T \cup {x}
    OBVIOUS
  <2>2. Best(x, {x})
    BY <1>1, <2>1
  <2>3. CASE T = {}
    <3>1. T \cup {x} = {x}
      BY <2>3
    <3> QED
      BY <2>1, <2>2, <3>1
  <2>4. CASE T # {}
    <3>1. PICK i \in T : Best(i, T)
      BY <2>4
    <3>2. i \in some /\ \A m \in T : m \in some
      OBVIOUS
    <3>3. CASE span(i) > span(x) \/ (span(i) = span(x) /\ i <= x)
      <4>1. Best(i, T \cup {x})
        BY <3>1, <3>3
      <4> QED
        BY <2>1, <4>1
    <3>4. CASE ~(span(i) > span(x) \/ (span(i) = span(x) /\ i <= x))
      <4>1. span(x) > span(i) \/ (span(x) = span(i) /\ x <= i)
        BY <1>1, <2>1, <3>2, <3>4
      <4>2. ASSUME NEW m \in T PROVE span(x) > span(m) \/ (span(x) = span(m) /\ x <= m)
        <5>1. span(i) > span(m) \/ (span(i) = span(m) /\ i <= m)
          BY <3>1
        <5>2. span(i) \in Int /\ span(m) \in Int /\ span(x) \in Int /\ i \in Nat /\ m \in Nat /\ x \in Nat
          BY <1>1, <2>1, <3>2
        <5> QED
          BY <4>1, <5>1, <5>2
      <4>3. Best(x, T \cup {x})
        BY <2>2, <4>2
      <4> QED
        BY <2>1, <4>3
    <3> QED
      BY <3>3, <3>4
  <2> QED
    BY <2>3, <2>4
<1>4. some \in F
  <2>1. F \subseteq SUBSET some /\ {} \in F
    OBVIOUS
  <2> HIDE DEF F
  <2> QED
    BY <1>2, <1>3, <2>1, SetInduction
<1>5. WidestOf(nodes, some) = IF some = {} THEN Nil ELSE nodes[CHOOSE i \in some : Best(i, some)]
  BY DEF WidestOf, span
<1>6. ASSUME some # {} PROVE \E i \in some : WidestOf(nodes, some) = nodes[i]
  <2>1. \E i \in some : Best(i, some)
    BY <1>4, <1>6
  <2>2. (CHOOSE i \in some : Best(i, some)) \in some
    <3> HIDE DEF Best
    <3> QED
      BY <2>1
  <2> QED
    BY <1>5, <1>6, <2>2
<1> QED
  BY <1>5, <1>6

\* The symbol of a node is its own lines.
LEMMA SymbolIs ==
  ASSUME NEW n \in TreeNodes
  PROVE  /\ SymbolOf(n) \in Symbols \cup {Nil}
         /\ SymbolOf(n) # Nil => SymbolOf(n) \in Symbols /\ SymbolOf(n).first = n.first
<1>1. n.first \in Nat /\ n.last \in Nat
  BY NodeIs
<1> DEFINE d == [first |-> n.first, last |-> n.last]
<1>2. d \in Symbols /\ d.first = n.first
  BY <1>1 DEF Symbols
<1>3. SymbolOf(n) = IF Introduces(n) THEN d ELSE Nil
  BY DEF SymbolOf
<1> HIDE DEF d
<1> QED
  BY <1>2, <1>3

\* A unit starts with a symbol of the line it starts at, if with any.
LEMMA OwnSymbolIs ==
  ASSUME NEW u \in UnitItems
  PROVE  /\ OwnSymbol(u) \in Symbols \cup {Nil}
         /\ OwnSymbol(u) # Nil => Precede(u.context, OwnSymbol(u).first)
<1> DEFINE start == u.nodes[1].first
           inner(node) == IF node = Nil THEN Nil
                          ELSE WidestOf(node.children, {n \in DOMAIN node.children : node.children[n].first = start})
           Solves(f) == f = [m \in 0 .. 5 |-> IF m = 0 THEN u.nodes[1] ELSE inner(f[m - 1])]
           f == CHOOSE f : Solves(f)
           symbols == {m \in 0 .. 5 : f[m] # Nil /\ SymbolOf(f[m]) # Nil}
           T == {n \in TreeNodes : n.first = start} \cup {Nil}
<1>1. OwnSymbol(u) = IF u.nodes = <<>> \/ symbols = {} THEN Nil ELSE SymbolOf(f[Min(symbols)])
  BY DEF OwnSymbol
<1>2. CASE u.nodes = <<>> \/ symbols = {}
  <2> HIDE DEF symbols
  <2> QED
    BY <1>1, <1>2
<1>3. CASE u.nodes # <<>> /\ symbols # {}
  <2>1. u.nodes \in Seq(TreeNodes) /\ u.nodes # <<>> /\ \A i \in 1 .. Len(u.nodes) : Precede(u.context, u.nodes[i].first)
    BY <1>3 DEF UnitItems, UnitRecords
  <2>2. 1 \in 1 .. Len(u.nodes) /\ u.nodes[1] \in TreeNodes /\ Precede(u.context, start)
    <3>1. Len(u.nodes) \in Nat /\ Len(u.nodes) >= 1
      BY <2>1, EmptySeq
    <3>2. 1 \in 1 .. Len(u.nodes)
      BY <3>1
    <3> QED
      BY <2>1, <3>2, ElementOfSeq
  <2>3. u.nodes[1] \in T
    BY <2>2
  <2>4. \A n \in T : inner(n) \in T
    <3> TAKE n \in T
    <3>1. CASE n = Nil
      BY <3>1
    <3>2. CASE n # Nil
      <4> DEFINE some == {i \in DOMAIN n.children : n.children[i].first = start}
      <4>1. n.children \in Seq(TreeNodes) /\ DOMAIN n.children = 1 .. Len(n.children)
        BY <3>2, NodeIs, LenProperties
      <4>2. some \in SUBSET (1 .. Len(n.children)) /\ \A i \in some : n.children[i] \in TreeNodes /\ n.children[i].first = start
        BY <4>1, ElementOfSeq
      <4>3. inner(n) = WidestOf(n.children, some)
        BY <3>2
      <4> HIDE DEF some, inner, start
      <4>4. inner(n) = Nil \/ \E i \in some : inner(n) = n.children[i]
        BY <4>1, <4>2, <4>3, WidestIs
      <4> QED
        BY <4>2, <4>4
    <3> QED
      BY <3>1, <3>2
  <2> HIDE DEF inner, start
  <2>5. \E g : Solves(g)
    <3> DEFINE step == [z \in T \X (1 .. 5) |-> inner(z[1])]
               base == u.nodes[1]
               n == 5
    <3>1. step \in StepsUpTo(T, n)
      BY <2>4 DEF StepsUpTo
    <3>2. \A x \in T, m \in 1 .. 5 : step[<<x, m>>] = inner(x)
      OBVIOUS
    <3>3. base \in T /\ n \in Nat
      BY <2>3
    <3> HIDE DEF step, T, base, n
    <3>4. PICK g \in [0 .. n -> T] : g[0] = base /\ \A m \in 1 .. n : g[m] = step[<<g[m - 1], m>>]
      BY <3>1, <3>3, RecursionFromZero
    <3>5. ASSUME NEW m \in 0 .. 5 PROVE g[m] = IF m = 0 THEN u.nodes[1] ELSE inner(g[m - 1])
      <4>1. CASE m = 0
        BY <3>4, <4>1 DEF base
      <4>2. CASE m # 0
        <5>1. m \in 1 .. n /\ m - 1 \in 0 .. n /\ m \in 1 .. 5
          BY <4>2 DEF n
        <5>2. g[m - 1] \in T /\ g[m] = step[<<g[m - 1], m>>]
          BY <3>4, <5>1
        <5> QED
          BY <3>2, <4>2, <5>1, <5>2
      <4> QED
        BY <4>1, <4>2
    <3>6. Solves(g)
      BY <3>4, <3>5 DEF n
    <3> QED
      BY <3>6
  <2>6. Solves(f)
    <3> HIDE DEF Solves
    <3> QED
      BY <2>5
  <2> HIDE DEF f
  <2>7. \A m \in 0 .. 5 : f[m] = IF m = 0 THEN u.nodes[1] ELSE inner(f[m - 1])
    BY <2>6
  <2>8. \A m \in 0 .. 5 : f[m] \in T
    <3> DEFINE n == 5
    <3>1. f[0] \in T
      BY <2>3, <2>7
    <3>2. \A m \in 1 .. n : f[m - 1] \in T => f[m] \in T
      <4> TAKE m \in 1 .. n
      <4>1. m \in 0 .. 5 /\ m # 0
        OBVIOUS
      <4>2. f[m] = inner(f[m - 1])
        BY <2>7, <4>1
      <4> HIDE DEF T
      <4> QED
        BY <2>4, <4>2
    <3>3. n \in Nat
      OBVIOUS
    <3> HIDE DEF n, T
    <3>4. \A m \in 0 .. n : f[m] \in T
      BY <3>1, <3>2, <3>3, InductionAlong
    <3> QED
      BY <3>4 DEF n
  <2>9. Min(symbols) \in symbols
    <3>1. symbols \subseteq Nat /\ symbols # {}
      BY <1>3
    <3> HIDE DEF symbols
    <3> QED
      BY <3>1, MinIs
  <2>10. f[Min(symbols)] \in TreeNodes /\ f[Min(symbols)].first = start /\ SymbolOf(f[Min(symbols)]) # Nil
    BY <2>8, <2>9
  <2> DEFINE h == f[Min(symbols)]
  <2>11. OwnSymbol(u) = SymbolOf(h)
    BY <1>1, <1>3
  <2>12. h \in TreeNodes /\ h.first = start /\ SymbolOf(h) # Nil
    BY <2>10
  <2> HIDE DEF h, symbols, T
  <2>13. SymbolOf(h) \in Symbols /\ SymbolOf(h).first = start
    BY <2>12, SymbolIs
  <2> QED
    BY <2>2, <2>11, <2>13
<1> QED
  BY <1>2, <1>3

\* The units of a node take the lines they are made for, whatever the lines of its children.
LEMMA UnitsFit ==
  ASSUME NEW node \in TreeNodes, NEW first \in Nat, NEW last \in Nat, first <= last, NEW depth \in Nat,
         NEW context \in Seq(Symbols), Sorted(context), Precede(context, node.first)
  PROVE  UnitsOf(node, first, last, depth, context) \in UnitLists(first, last, context)
<1> DEFINE n == Len(node.children)
           x == [kind |-> "unit", first |-> first, last |-> last, depth |-> depth, context |-> context, nodes |-> <<>>]
           Solves(f) == f = [m \in 0 .. n |-> IF m = 0 THEN <<x>> ELSE Joined(f[m - 1], node.children[m], last)]
           f == CHOOSE f : Solves(f)
           T == UnitLists(first, last, context)
<1>1. UnitsOf(node, first, last, depth, context) = f[n]
  BY DEF UnitsOf
<1>2. n \in Nat /\ \A m \in 1 .. n : node.children[m] \in TreeNodes /\ Precede(context, node.children[m].first)
  <2>1. n \in Nat /\ node.first \in Nat
    BY NodeIs, LenProperties
  <2>2. \A m \in 1 .. n : /\ node.children[m] \in TreeNodes /\ node.first <= node.children[m].first
                          /\ node.children[m].first \in Nat
    BY NodeIs
  <2>3. \A i \in 1 .. Len(context) : context[i].first \in Nat /\ context[i].first <= node.first
    <3> TAKE i \in 1 .. Len(context)
    <3>1. context[i] \in Symbols
      BY ElementOfSeq
    <3>2. context[i].first <= node.first
      BY DEF Precede
    <3> QED
      BY <3>1, <3>2 DEF Symbols
  <2>4. ASSUME NEW m \in 1 .. n PROVE Precede(context, node.children[m].first)
    <3> DEFINE l == node.children[m].first
    <3>1. l \in Nat /\ node.first <= l
      BY <2>2
    <3> HIDE DEF l
    <3>2. \A i \in 1 .. Len(context) : context[i].first <= l
      BY <2>1, <2>3, <3>1
    <3> QED
      BY <3>2 DEF Precede, l
  <2> QED
    BY <2>1, <2>2, <2>4
<1>3. <<x>> \in T
  <2>1. x \in UnitRecords /\ x.first = first /\ x.last = last /\ x.context = context /\ x.nodes = <<>> /\ x.kind = "unit"
    BY DEF UnitRecords
  <2> HIDE DEF x
  <2>2. x \in UnitItems
    <3>1. \A i \in 1 .. Len(x.nodes) : FALSE
      BY <2>1
    <3> QED
      BY <2>1, <3>1 DEF UnitItems
  <2>3. x \notin {EndMark}
    BY <2>1 DEF EndMark
  <2>4. Tiles(<<x>>, {EndMark}, first, last + 1)
    <3>1. /\ x.first \in Int /\ x.last \in Int /\ x.first <= x.last /\ first = x.first /\ last + 1 = x.last + 1
      BY <2>1
    <3> QED
      BY <2>3, <3>1, TilesOne
  <2>5. <<x>> \in Seq(UnitItems) /\ <<x>> # <<>> /\ \A i \in 1 .. Len(<<x>>) : <<x>>[i] = x
    BY <2>2
  <2> QED
    BY <2>1, <2>4, <2>5 DEF UnitLists
<1>4. \A us \in T, m \in 1 .. n : Joined(us, node.children[m], last) \in T
  BY <1>2, JoinedFits
<1> HIDE DEF T, n, x
<1>5. \E g : Solves(g)
  <2> DEFINE step == [z \in T \X (1 .. n) |-> Joined(z[1], node.children[z[2]], last)]
             base == <<x>>
  <2>1. step \in StepsUpTo(T, n)
    BY <1>4 DEF StepsUpTo
  <2>2. \A us \in T, m \in 1 .. n : step[<<us, m>>] = Joined(us, node.children[m], last)
    OBVIOUS
  <2>3. base \in T
    BY <1>3
  <2> HIDE DEF step, base
  <2>4. PICK g \in [0 .. n -> T] : g[0] = base /\ \A m \in 1 .. n : g[m] = step[<<g[m - 1], m>>]
    BY <1>2, <2>1, <2>3, RecursionFromZero
  <2>5. ASSUME NEW m \in 0 .. n PROVE g[m] = IF m = 0 THEN <<x>> ELSE Joined(g[m - 1], node.children[m], last)
    <3>1. CASE m = 0
      BY <2>4, <3>1 DEF base
    <3>2. CASE m # 0
      <4>1. m \in 1 .. n /\ m - 1 \in 0 .. n
        BY <1>2, <3>2
      <4>2. g[m - 1] \in T /\ g[m] = step[<<g[m - 1], m>>]
        BY <2>4, <4>1
      <4> QED
        BY <2>2, <3>2, <4>1, <4>2
    <3> QED
      BY <3>1, <3>2
  <2>6. Solves(g)
    BY <2>4, <2>5
  <2> QED
    BY <2>6
<1>6. Solves(f)
  <2> HIDE DEF Solves
  <2> QED
    BY <1>5
<1> HIDE DEF f
<1>7. \A m \in 0 .. n : f[m] = IF m = 0 THEN <<x>> ELSE Joined(f[m - 1], node.children[m], last)
  BY <1>6
<1>8. \A m \in 0 .. n : f[m] \in T
  <2>1. f[0] \in T
    BY <1>2, <1>3, <1>7
  <2>2. \A m \in 1 .. n : f[m - 1] \in T => f[m] \in T
    <3> TAKE m \in 1 .. n
    <3>1. m \in 0 .. n /\ m # 0
      BY <1>2
    <3>2. f[m] = Joined(f[m - 1], node.children[m], last)
      BY <1>7, <3>1
    <3> QED
      BY <1>4, <3>2
  <2> QED
    BY <1>2, <2>1, <2>2, InductionAlong
<1> QED
  BY <1>1, <1>2, <1>8 DEF T

-----------------------------------------------------------------------------
(* Ranges of the plan.                                                     *)

ChunkRecords(found) ==
  [first : Nat, last : Nat, ancestry : Seq(Symbols), own : Owns(found), windows : BOOLEAN, damaged : BOOLEAN]

\* The symbols around a range start in order, and before the one it starts with.
Chunks(found) == {c \in ChunkRecords(found) : Sorted(c.ancestry) /\ (c.own # Nil => Precede(c.ancestry, c.own.first))}

\* The symbols of two ranges that are the same are the first ones of both.
LEMMA CommonIs ==
  ASSUME NEW left \in Seq(Symbols), NEW right \in Seq(Symbols)
  PROVE  /\ CommonAncestry(left, right) \in Seq(Symbols) /\ Len(CommonAncestry(left, right)) \in Nat
         /\ Len(CommonAncestry(left, right)) <= Len(left) /\ Len(CommonAncestry(left, right)) <= Len(right)
         /\ \A i \in 1 .. Len(CommonAncestry(left, right)) :
              CommonAncestry(left, right)[i] = left[i] /\ CommonAncestry(left, right)[i] = right[i]
<1> DEFINE both == {Len(left), Len(right)}
           least == Min(both)
           lengths == {n \in 0 .. least : SubSeq(left, 1, n) = SubSeq(right, 1, n)}
           n == Max(lengths)
<1>1. Len(left) \in Nat /\ Len(right) \in Nat
  BY LenProperties
<1>2. least \in Nat /\ least <= Len(left) /\ least <= Len(right)
  <2>1. both \subseteq Nat /\ both # {} /\ Len(left) \in both /\ Len(right) \in both
    BY <1>1
  <2> HIDE DEF both
  <2> QED
    BY <2>1, MinIs
<1> HIDE DEF least
<1>3. n \in lengths
  <2>1. 0 \in lengths
    <3>1. SubSeq(left, 1, 0) = <<>> /\ SubSeq(right, 1, 0) = <<>>
      BY SubSeqEmpty
    <3> QED
      BY <1>2, <3>1
  <2>2. \A x \in lengths : x \in Int /\ x <= least
    BY <1>2
  <2>3. least \in Int
    BY <1>2
  <2> HIDE DEF lengths
  <2>4. lengths # {}
    BY <2>1
  <2> QED
    BY <2>2, <2>3, <2>4, MaxIs
<1>4. n \in Nat /\ n <= Len(left) /\ n <= Len(right) /\ SubSeq(left, 1, n) = SubSeq(right, 1, n)
  <2>1. n \in 0 .. least /\ SubSeq(left, 1, n) = SubSeq(right, 1, n)
    BY <1>3
  <2> HIDE DEF n
  <2> QED
    BY <1>1, <1>2, <2>1
<1>5. CommonAncestry(left, right) = SubSeq(left, 1, n)
  BY DEF CommonAncestry, least
<1> HIDE DEF n, lengths
<1>6. /\ SubSeq(left, 1, n) \in Seq(Symbols) /\ Len(SubSeq(left, 1, n)) = n
      /\ \A i \in 1 .. n : SubSeq(left, 1, n)[i] = left[i]
  <2>1. 1 \in Int /\ n \in Int /\ n - 1 + 1 = n /\ (IF 1 <= n THEN n - 1 + 1 ELSE 0) = n
    BY <1>4
  <2>2. \A i \in 1 .. n : left[i] \in Symbols /\ 1 + i - 1 = i
    BY <1>1, <1>4
  <2>3. /\ SubSeq(left, 1, n) \in Seq(Symbols) /\ Len(SubSeq(left, 1, n)) = IF 1 <= n THEN n - 1 + 1 ELSE 0
        /\ \A i \in 1 .. n - 1 + 1 : SubSeq(left, 1, n)[i] = left[1 + i - 1]
    BY <2>1, <2>2, SubSeqProperties
  <2> QED
    BY <2>1, <2>2, <2>3
<1>7. \A i \in 1 .. n : SubSeq(right, 1, n)[i] = right[i]
  <2>1. 1 \in Int /\ n \in Int /\ n - 1 + 1 = n
    BY <1>4
  <2>2. \A i \in 1 .. n : right[i] \in Symbols /\ 1 + i - 1 = i
    BY <1>1, <1>4
  <2>3. \A i \in 1 .. n - 1 + 1 : SubSeq(right, 1, n)[i] = right[1 + i - 1]
    BY <2>1, <2>2, SubSeqProperties
  <2> QED
    BY <2>1, <2>2, <2>3
<1> QED
  BY <1>4, <1>5, <1>6, <1>7

\* A range is what it is made of.
LEMMA ChunkIs ==
  ASSUME NEW found, NEW first \in Nat, NEW last \in Nat, NEW ancestry \in Seq(Symbols), Sorted(ancestry),
         NEW own \in Owns(found), own # Nil => Precede(ancestry, own.first)
  PROVE  /\ Chunk(first, last, ancestry, own) \in Chunks(found)
         /\ Chunk(first, last, ancestry, own).first = first /\ Chunk(first, last, ancestry, own).last = last
         /\ Chunk(first, last, ancestry, own).ancestry = ancestry /\ Chunk(first, last, ancestry, own).own = own
<1> DEFINE c == Chunk(first, last, ancestry, own)
<1>1. c = [first |-> first, last |-> last, ancestry |-> ancestry, own |-> own, windows |-> FALSE, damaged |-> FALSE]
  BY DEF Chunk
<1>2. c \in ChunkRecords(found) /\ c.first = first /\ c.last = last /\ c.ancestry = ancestry /\ c.own = own
  BY <1>1 DEF ChunkRecords
<1> HIDE DEF c
<1> QED
  BY <1>2 DEF Chunks, c

\* One cut into windows is one as well.
LEMMA CutIs ==
  ASSUME NEW found, NEW x \in Chunks(found)
  PROVE  /\ [x EXCEPT !.windows = TRUE] \in Chunks(found)
         /\ [x EXCEPT !.windows = TRUE].first = x.first /\ [x EXCEPT !.windows = TRUE].last = x.last
         /\ [x EXCEPT !.windows = TRUE].own = x.own
<1>1. x \in ChunkRecords(found) /\ Sorted(x.ancestry) /\ (x.own # Nil => Precede(x.ancestry, x.own.first))
  BY DEF Chunks
<1> DEFINE d == [x EXCEPT !.windows = TRUE]
<1>2. d \in ChunkRecords(found) /\ d.first = x.first /\ d.last = x.last /\ d.ancestry = x.ancestry /\ d.own = x.own
  BY <1>1 DEF ChunkRecords
<1> HIDE DEF d
<1>3. d \in Chunks(found)
  BY <1>1, <1>2 DEF Chunks
<1> QED
  BY <1>2, <1>3 DEF d

\* A range is added to those that are planned.
LEMMA ChunkAppended ==
  ASSUME NEW found, NEW c \in Seq(Chunks(found)), NEW y \in Chunks(found), NEW b,
         Tiles(c, {}, 1, y.first), y.first <= y.last, b = y.last + 1
  PROVE  Append(c, y) \in Seq(Chunks(found)) /\ Tiles(Append(c, y), {}, 1, b)
<1> DEFINE none == {}
           one == 1
<1>1. y \notin none /\ y.first \in Int /\ y.last \in Int
  BY DEF Chunks, ChunkRecords
<1>2. Tiles(c, none, one, y.first)
  OBVIOUS
<1> HIDE DEF none, one
<1>3. Tiles(Append(c, y), none, one, b)
  BY <1>1, <1>2, TilesAppend
<1> QED
  BY <1>3, AppendProperties DEF none, one

\* So is one cut into windows.
LEMMA SplitFits ==
  ASSUME NEW found, NEW first \in Nat, NEW last \in Nat, NEW ancestry \in Seq(Symbols), Sorted(ancestry)
  PROVE  /\ Split(first, last, ancestry) \in Chunks(found) /\ Split(first, last, ancestry).own = Nil
         /\ Split(first, last, ancestry).first = first /\ Split(first, last, ancestry).last = last
         /\ Broken(first, last) \in Chunks(found) /\ Broken(first, last).own = Nil
         /\ Broken(first, last).first = first /\ Broken(first, last).last = last
<1>1. Nil \in Owns(found)
  BY DEF Owns
<1> DEFINE none == <<>>
<1>2. none \in Seq(Symbols) /\ Sorted(none)
  BY DEF Sorted
<1> HIDE DEF none
<1>3. \A s \in Seq(Symbols) : Sorted(s) =>
        /\ Split(first, last, s) \in Chunks(found) /\ Split(first, last, s).own = Nil
        /\ Split(first, last, s).first = first /\ Split(first, last, s).last = last
  <2> SUFFICES ASSUME NEW s \in Seq(Symbols), Sorted(s)
               PROVE  /\ Split(first, last, s) \in Chunks(found) /\ Split(first, last, s).own = Nil
                      /\ Split(first, last, s).first = first /\ Split(first, last, s).last = last
    OBVIOUS
  <2> DEFINE own == Nil
             x == Chunk(first, last, s, own)
  <2>1. own \in Owns(found) /\ (own # Nil => Precede(s, own.first))
    BY <1>1
  <2> HIDE DEF own
  <2>2. x \in Chunks(found) /\ x.first = first /\ x.last = last /\ x.own = own
    BY <2>1, ChunkIs
  <2> HIDE DEF x
  <2>3. /\ [x EXCEPT !.windows = TRUE] \in Chunks(found)
        /\ [x EXCEPT !.windows = TRUE].first = first /\ [x EXCEPT !.windows = TRUE].last = last
        /\ [x EXCEPT !.windows = TRUE].own = own
    BY <2>2, CutIs
  <2> QED
    BY <2>3 DEF Split, own, x
<1> DEFINE c == Split(first, last, none)
           d == [c EXCEPT !.damaged = TRUE]
<1>4. c \in Chunks(found) /\ c.own = Nil /\ c.first = first /\ c.last = last
  BY <1>2, <1>3
<1> HIDE DEF c
<1>5. d \in ChunkRecords(found) /\ d.first = c.first /\ d.last = c.last /\ d.own = c.own /\ d.ancestry = c.ancestry
  BY <1>4 DEF Chunks, ChunkRecords
<1> HIDE DEF d
<1>6. d \in Chunks(found) /\ d.own = Nil /\ d.first = first /\ d.last = last
  BY <1>4, <1>5 DEF Chunks
<1> QED
  BY <1>3, <1>6 DEF Broken, c, d, none

\* A list that is not empty is all but its last element, and that.
LEMMA FrontAndLast ==
  ASSUME NEW S, NEW s \in Seq(S), NEW x \in S
  PROVE  Front(Append(s, x)) = s /\ Last(Append(s, x)) = x
<1>1. /\ Append(s, x) \in Seq(S) /\ Len(Append(s, x)) = Len(s) + 1 /\ Append(s, x)[Len(s) + 1] = x
      /\ \A i \in 1 .. Len(s) : Append(s, x)[i] = s[i]
  BY AppendProperties
<1>2. Len(s) \in Nat /\ Len(s) + 1 - 1 = Len(s)
  BY LenProperties
<1> DEFINE n == Len(s)
           t == Append(s, x)
<1>3. Front(t) = SubSeq(t, 1, n) /\ Last(t) = x
  BY <1>1, <1>2 DEF Front, Last
<1>4. \A i \in 1 .. n : t[i] \in S /\ t[i] = s[i] /\ 1 + i - 1 = i
  BY <1>1, <1>2, ElementOfSeq
<1>5. n \in Int /\ 1 \in Int /\ n - 1 + 1 = n /\ (IF 1 <= n THEN n - 1 + 1 ELSE 0) = n
  BY <1>2
<1> HIDE DEF t, n
<1>6. /\ SubSeq(t, 1, n) \in Seq(S) /\ Len(SubSeq(t, 1, n)) = IF 1 <= n THEN n - 1 + 1 ELSE 0
      /\ \A i \in 1 .. n - 1 + 1 : SubSeq(t, 1, n)[i] = t[1 + i - 1]
  BY <1>4, <1>5, SubSeqProperties
<1>7. Len(SubSeq(t, 1, n)) = Len(s) /\ \A i \in 1 .. Len(SubSeq(t, 1, n)) : SubSeq(t, 1, n)[i] = s[i]
  BY <1>4, <1>5, <1>6 DEF n
<1>8. SubSeq(t, 1, n) = s
  BY <1>6, <1>7, SeqEqual
<1> QED
  BY <1>3, <1>8 DEF t

\* A range is kept, or joined to the last one.
LEMMA MergedFits ==
  ASSUME NEW found, NEW kept \in Seq(Chunks(found)), NEW c \in Chunks(found)
  PROVE  /\ Merged(kept, c) \in Seq(Chunks(found))
         /\ \A a, b : Tiles(kept, {}, a, c.first) /\ c.first <= c.last /\ b = c.last + 1 => Tiles(Merged(kept, c), {}, a, b)
<1> DEFINE joins == /\ kept # <<>> /\ ~Last(kept).windows /\ ~c.windows
                    /\ Last(kept).last + 1 = c.first
                    /\ \/ RangeTokens(c.first, c.last) <= TinyTokens
                       \/ RangeTokens(Last(kept).first, Last(kept).last) <= TinyTokens
                    /\ ~Oversized(Last(kept).first, c.last)
<1>0. c.first \in Nat /\ c.last \in Nat
  BY DEF Chunks, ChunkRecords
<1>1. CASE ~joins
  <2>1. Merged(kept, c) = Append(kept, c)
    BY <1>1 DEF Merged
  <2>2. Append(kept, c) \in Seq(Chunks(found))
    BY AppendProperties
  <2>3. ASSUME NEW a, NEW b, Tiles(kept, {}, a, c.first), c.first <= c.last, b = c.last + 1
        PROVE  Tiles(Append(kept, c), {}, a, b)
    <3>1. c \notin {} /\ c.first \in Int /\ c.last \in Int
      BY <1>0
    <3> QED
      BY <2>3, <3>1, TilesAppend
  <2> QED
    BY <2>1, <2>2, <2>3
<1>2. CASE joins
  <2>1. PICK s \in Seq(Chunks(found)), x \in Chunks(found) : kept = Append(s, x)
    BY <1>2, SequenceEmptyOrAppend
  <2>2. Front(kept) = s /\ Last(kept) = x
    BY <2>1, FrontAndLast
  <2> DEFINE ancestry == CommonAncestry(x.ancestry, c.ancestry)
             own == FirstOf(x.own, c.own)
             y == Chunk(x.first, c.last, ancestry, own)
  <2>3. Merged(kept, c) = Append(s, y)
    BY <1>2, <2>2 DEF Merged
  <2>4. /\ x.first \in Nat /\ x.last \in Nat /\ x.ancestry \in Seq(Symbols) /\ x.own \in Owns(found) /\ Sorted(x.ancestry)
        /\ (x.own # Nil => Precede(x.ancestry, x.own.first))
        /\ c.ancestry \in Seq(Symbols) /\ c.own \in Owns(found)
        /\ (c.own # Nil => Precede(c.ancestry, c.own.first))
    BY DEF Chunks, ChunkRecords
  <2>5. /\ ancestry \in Seq(Symbols) /\ Len(ancestry) \in Nat
        /\ Len(ancestry) <= Len(x.ancestry) /\ Len(ancestry) <= Len(c.ancestry)
        /\ \A i \in 1 .. Len(ancestry) : ancestry[i] = x.ancestry[i] /\ ancestry[i] = c.ancestry[i]
    BY <2>4, CommonIs
  <2> HIDE DEF ancestry
  <2>6. \A i \in 1 .. Len(ancestry) : i \in 1 .. Len(x.ancestry) /\ i \in 1 .. Len(c.ancestry)
    <3>1. Len(x.ancestry) \in Nat /\ Len(c.ancestry) \in Nat
      BY <2>4, LenProperties
    <3> QED
      BY <2>5, <3>1
  <2>7. Sorted(ancestry)
    <3>1. ASSUME NEW i \in 1 .. Len(ancestry), NEW j \in 1 .. Len(ancestry), i < j
          PROVE  ancestry[i].first <= ancestry[j].first
      BY <2>4, <2>5, <2>6, <3>1 DEF Sorted
    <3> QED
      BY <3>1 DEF Sorted
  <2>8. own \in Owns(found) /\ (own # Nil => Precede(ancestry, own.first))
    <3>1. CASE x.own # Nil
      <4>1. own = x.own
        BY <3>1 DEF FirstOf
      <4>2. Precede(ancestry, x.own.first)
        BY <2>4, <2>5, <2>6, <3>1 DEF Precede
      <4> HIDE DEF own
      <4> QED
        BY <2>4, <4>1, <4>2
    <3>2. CASE x.own = Nil
      <4>1. own = c.own
        BY <3>2 DEF FirstOf
      <4>2. c.own # Nil => Precede(ancestry, c.own.first)
        BY <2>4, <2>5, <2>6 DEF Precede
      <4> HIDE DEF own
      <4> QED
        BY <2>4, <4>1, <4>2
    <3> QED
      BY <3>1, <3>2
  <2> HIDE DEF own
  <2>9. y \in Chunks(found) /\ y.first = x.first /\ y.last = c.last
    <3>1. x.first \in Nat /\ c.last \in Nat /\ ancestry \in Seq(Symbols) /\ own \in Owns(found)
      BY <1>0, <2>4, <2>5, <2>8
    <3> DEFINE first == x.first
               last  == c.last
    <3> HIDE DEF first, last
    <3>2. /\ first \in Nat /\ last \in Nat /\ ancestry \in Seq(Symbols) /\ Sorted(ancestry)
          /\ own \in Owns(found) /\ (own # Nil => Precede(ancestry, own.first))
      BY <2>7, <2>8, <3>1 DEF first, last
    <3>3. /\ Chunk(first, last, ancestry, own) \in Chunks(found)
          /\ Chunk(first, last, ancestry, own).first = first /\ Chunk(first, last, ancestry, own).last = last
      BY <3>2, ChunkIs
    <3> QED
      BY <3>3 DEF first, last
  <2> HIDE DEF y
  <2>10. Append(s, y) \in Seq(Chunks(found))
    BY <2>9, AppendProperties
  <2>11. ASSUME NEW a, NEW b, Tiles(kept, {}, a, c.first), c.first <= c.last, b = c.last + 1
         PROVE  Tiles(Append(s, y), {}, a, b)
    <3>1. x \notin {} /\ y \notin {}
      OBVIOUS
    <3>2. Tiles(s, {}, a, x.first) /\ x.first <= x.last /\ c.first = x.last + 1
      BY <2>1, <2>11, <3>1, TilesAppend
    <3>3. /\ y.first \in Int /\ y.last \in Int /\ y.first <= y.last /\ b = y.last + 1
          /\ Tiles(s, {}, a, y.first)
      BY <1>0, <2>4, <2>9, <2>11, <3>2
    <3> QED
      BY <2>9, <3>1, <3>3, TilesAppend
  <2> QED
    BY <2>3, <2>10, <2>11
<1> QED
  BY <1>1, <1>2

\* Folding tiny ranges keeps the lines.
LEMMA MergeFits ==
  ASSUME NEW found, NEW all \in Seq(Chunks(found)), NEW a, NEW b, Tiles(all, {}, a, b)
  PROVE  MergeTiny(all) \in Seq(Chunks(found)) /\ Tiles(MergeTiny(all), {}, a, b)
<1> DEFINE n == Len(all)
           Solves(f) == f = [m \in 0 .. n |-> IF m = 0 THEN <<>> ELSE Merged(f[m - 1], all[m])]
           f == CHOOSE f : Solves(f)
           T == Seq(Chunks(found))
           base == <<>>
<1>1. MergeTiny(all) = f[n]
  BY DEF MergeTiny
<1>2. n \in Nat /\ \A m \in 1 .. n : all[m] \in Chunks(found)
  BY LenProperties, ElementOfSeq
<1>3. base \in T
  OBVIOUS
<1>4. \A s \in T, m \in 1 .. n : Merged(s, all[m]) \in T
  BY <1>2, MergedFits
<1>5. PICK way \in [1 .. n + 1 -> Int] : way[1] = a /\ way[n + 1] = b /\ Follows(all, {}, way)
  BY DEF Tiles
<1>6. \A m \in 1 .. n : all[m].first = way[m] /\ all[m].first <= all[m].last /\ all[m].last = way[m + 1] - 1
  BY <1>5 DEF Follows
<1> HIDE DEF T, n, base
<1>7. \E g : Solves(g)
  <2> DEFINE step == [z \in T \X (1 .. n) |-> Merged(z[1], all[z[2]])]
  <2>1. step \in StepsUpTo(T, n)
    BY <1>4 DEF StepsUpTo
  <2>2. \A s \in T, m \in 1 .. n : step[<<s, m>>] = Merged(s, all[m])
    OBVIOUS
  <2> HIDE DEF step, f, Solves
  <2>3. n \in Nat /\ base \in T
    BY <1>2, <1>3
  <2>4. PICK g : g \in Runs(T, n, base, step)
    BY <2>1, <2>3, RunExists
  <2>5. g \in [0 .. n -> T] /\ g[0] = base /\ \A m \in 1 .. n : g[m] = step[<<g[m - 1], m>>]
    BY <2>4 DEF Runs
  <2>6. ASSUME NEW m \in 0 .. n PROVE g[m] = IF m = 0 THEN <<>> ELSE Merged(g[m - 1], all[m])
    <3>1. CASE m = 0
      BY <2>5, <3>1 DEF base
    <3>2. CASE m # 0
      <4>1. m \in 1 .. n /\ m - 1 \in 0 .. n
        BY <1>2, <3>2
      <4>2. g[m - 1] \in T /\ g[m] = step[<<g[m - 1], m>>]
        BY <2>5, <4>1
      <4> QED
        BY <2>2, <3>2, <4>1, <4>2
    <3> QED
      BY <3>1, <3>2
  <2>7. Solves(g)
    BY <2>5, <2>6 DEF Solves
  <2> QED
    BY <2>7
<1>8. Solves(f)
  <2> HIDE DEF Solves
  <2> QED
    BY <1>7
<1> HIDE DEF f
<1>9. \A m \in 0 .. n : f[m] = IF m = 0 THEN <<>> ELSE Merged(f[m - 1], all[m])
  BY <1>8
<1> DEFINE N == {m \in Nat : m <= n => f[m] \in T /\ Tiles(f[m], {}, a, way[m + 1])}
<1>10. 0 \in N
  <2> DEFINE none == {}
  <2>1. f[0] = base
    BY <1>2, <1>9 DEF base
  <2>2. a \in Int
    <3>1. 1 \in 1 .. n + 1
      BY <1>2
    <3> QED
      BY <1>5, <3>1
  <2> HIDE DEF none
  <2>3. Tiles(base, none, a, a)
    BY <2>2, TilesNone DEF base
  <2>4. f[0] \in T /\ Tiles(f[0], {}, a, way[0 + 1])
    BY <1>3, <1>5, <2>1, <2>3 DEF none
  <2> QED
    BY <2>4
<1>11. ASSUME NEW m \in N PROVE m + 1 \in N
  <2> SUFFICES ASSUME m + 1 <= n PROVE f[m + 1] \in T /\ Tiles(f[m + 1], {}, a, way[(m + 1) + 1])
    OBVIOUS
  <2> DEFINE i == m + 1
  <2>1. m \in Nat /\ m <= n /\ i \in 1 .. n /\ i \in 0 .. n /\ i # 0 /\ i - 1 = m /\ i + 1 \in 1 .. n + 1
    BY <1>2
  <2>2. f[m] \in T /\ Tiles(f[m], {}, a, way[i])
    BY <2>1
  <2> HIDE DEF i, N
  <2>3. f[i] = Merged(f[m], all[i])
    BY <1>9, <2>1
  <2>4. all[i].first = way[i] /\ all[i].first <= all[i].last /\ way[i + 1] = all[i].last + 1 /\ all[i] \in Chunks(found)
    <3>1. all[i].last = way[i + 1] - 1 /\ way[i + 1] \in Int
      BY <1>5, <1>6, <2>1
    <3> QED
      BY <1>2, <1>6, <2>1, <3>1
  <2>5. f[i] \in T /\ Tiles(f[i], {}, a, way[i + 1])
    BY <2>2, <2>3, <2>4, MergedFits DEF T
  <2> QED
    BY <2>5 DEF i
<1>12. n \in N
  <2>1. N \subseteq Nat
    OBVIOUS
  <2> HIDE DEF N
  <2> QED
    BY <1>2, <1>10, <1>11, <2>1, NaturalInduction
<1> QED
  BY <1>1, <1>2, <1>5, <1>12 DEF T
-----------------------------------------------------------------------------
(* The plan.                                                               *)

NodeRecords ==
  [kind : {"node"}, node : TreeNodes, first : Nat, last : Nat, depth : Nat, ancestry : Seq(Symbols)]
NodeItems    == {x \in NodeRecords : Sorted(x.ancestry) /\ Precede(x.ancestry, x.node.first)}
Parts(found) == UnitItems \cup (IF found = Nil THEN {} ELSE RangeItems(found))
Items(found) == NodeItems \cup Parts(found) \cup {EndMark}

\* The symbols around a part.
Around(x) == IF x.kind = "unit" THEN x.context ELSE <<>>

\* Parts, each followed by one within the same symbols or by the mark that they have ended.
PartLists(found) ==
  {w \in Seq(Parts(found) \cup {EndMark}) :
     \A i \in 1 .. Len(w) : w[i] # EndMark => i < Len(w) /\ (w[i + 1] # EndMark => Around(w[i + 1]) = Around(w[i]))}

\* The ranges planned, the one still pending and the work that is left take the lines up to m
\* in turn.  What is pending is within the symbols of the part to come, and ends before a node
\* is entered.
Plans(found, w, p, c, m) ==
  /\ c \in Seq(Chunks(found)) /\ p \in Seq(Chunks(found))
  /\ \E line : Tiles(c \o p, {}, 1, line) /\ Tiles(w, {EndMark}, line, m)
  /\ \/ /\ w \in PartLists(found)
        /\ \/ p = <<>>
           \/ \E y \in Chunks(found) :
                p = <<y>> /\ w # <<>> /\ (Head(w) # EndMark => y.ancestry = Around(Head(w)))
     \/ p = <<>> /\ \E x \in NodeItems, t \in PartLists(found) : w = <<x>> \o t

\* What a part and a node of the work have.
LEMMA PartIs ==
  ASSUME NEW found
  PROVE  /\ \A x \in Parts(found) : /\ x \notin {EndMark} /\ x # EndMark /\ x.first \in Nat /\ x.last \in Nat /\ x.depth \in Nat
                                    /\ x.kind \in {"unit", "range"} /\ (x.kind = "unit" <=> x \in UnitItems)
                                    /\ (x.kind = "range" => x \in RangeItems(found) /\ found # Nil)
         /\ \A x \in NodeItems : /\ x \notin {EndMark} /\ x # EndMark /\ x.first \in Nat /\ x.last \in Nat
                                 /\ x.kind = "node" /\ x.depth \in Nat /\ x.node \in TreeNodes
                                 /\ x.ancestry \in Seq(Symbols) /\ Sorted(x.ancestry) /\ Precede(x.ancestry, x.node.first)
<1>1. \A x \in UnitItems : x.kind = "unit" /\ x.first \in Nat /\ x.last \in Nat /\ x.depth \in Nat
  BY DEF UnitItems, UnitRecords
<1>2. \A x \in RangeItems(found) : x.kind = "range" /\ x.first \in Nat /\ x.last \in Nat /\ x.depth \in Nat
  BY DEF RangeItems
<1>3. \A x \in NodeItems : /\ x.kind = "node" /\ x.first \in Nat /\ x.last \in Nat /\ x.depth \in Nat
                           /\ x.node \in TreeNodes /\ x.ancestry \in Seq(Symbols)
                           /\ Sorted(x.ancestry) /\ Precede(x.ancestry, x.node.first)
  BY DEF NodeItems, NodeRecords
<1>4. EndMark.kind = "end"
  BY DEF EndMark
<1>5. ASSUME NEW x \in Parts(found)
      PROVE  /\ x.first \in Nat /\ x.last \in Nat /\ x.depth \in Nat
             /\ x.kind \in {"unit", "range"} /\ (x.kind = "unit" <=> x \in UnitItems)
             /\ (x.kind = "range" => x \in RangeItems(found) /\ found # Nil)
  <2>1. x \in UnitItems \/ (x \in RangeItems(found) /\ found # Nil)
    BY DEF Parts
  <2> QED
    BY <1>1, <1>2, <2>1
<1> QED
  BY <1>3, <1>4, <1>5

\* The list after a part is not empty, and goes on within the same symbols.
LEMMA ListTail ==
  ASSUME NEW found, NEW w \in PartLists(found), w # <<>>
  PROVE  /\ Tail(w) \in PartLists(found) /\ Head(w) \in Parts(found) \cup {EndMark}
         /\ Head(w) # EndMark =>
              Tail(w) # <<>> /\ (Head(Tail(w)) # EndMark => Around(Head(Tail(w))) = Around(Head(w)))
<1> DEFINE S == Parts(found) \cup {EndMark}
           t == Tail(w)
<1>1. w \in Seq(S)
  BY DEF PartLists
<1>2. \A i \in 1 .. Len(w) : w[i] # EndMark => i < Len(w) /\ (w[i + 1] # EndMark => Around(w[i + 1]) = Around(w[i]))
  BY DEF PartLists
<1>3. /\ Head(w) = w[1] /\ Len(w) \in Nat /\ Len(w) >= 1 /\ t \in Seq(S) /\ Head(w) \in S /\ Len(t) = Len(w) - 1
      /\ \A i \in 1 .. Len(t) : t[i] = w[i + 1]
  <2> HIDE DEF S
  <2> QED
    BY <1>1, HeadThenTail
<1> HIDE DEF t
<1>4. ASSUME NEW i \in 1 .. Len(t), t[i] # EndMark
      PROVE  i < Len(t) /\ (t[i + 1] # EndMark => Around(t[i + 1]) = Around(t[i]))
  <2>1. i + 1 \in 1 .. Len(w) /\ t[i] = w[i + 1]
    BY <1>3
  <2>2. i + 1 < Len(w) /\ (w[(i + 1) + 1] # EndMark => Around(w[(i + 1) + 1]) = Around(w[i + 1]))
    BY <1>2, <1>4, <2>1
  <2>3. i < Len(t) /\ i + 1 \in 1 .. Len(t)
    BY <1>3, <2>2
  <2>4. t[i + 1] = w[(i + 1) + 1]
    BY <1>3, <2>3
  <2> QED
    BY <2>1, <2>2, <2>3, <2>4
<1>5. t \in PartLists(found)
  BY <1>3, <1>4 DEF PartLists
<1>6. ASSUME Head(w) # EndMark
      PROVE  t # <<>> /\ (Head(t) # EndMark => Around(Head(t)) = Around(Head(w)))
  <2>1. 1 < Len(w) /\ (w[1 + 1] # EndMark => Around(w[1 + 1]) = Around(w[1]))
    BY <1>2, <1>3, <1>6
  <2>2. Len(t) # 0 /\ 1 \in 1 .. Len(t)
    BY <1>3, <2>1
  <2>3. t # <<>> /\ Head(t) = t[1] /\ t[1] = w[1 + 1]
    <3>1. t # <<>>
      BY <2>2
    <3>2. Head(t) = t[1]
      <4> HIDE DEF S
      <4> QED
        BY <1>3, <3>1, HeadThenTail
    <3> QED
      BY <1>3, <2>2, <3>1, <3>2
  <2> QED
    BY <1>3, <2>1, <2>3
<1> QED
  BY <1>3, <1>5, <1>6 DEF t

\* Parts within the same symbols and their end mark start a list.
LEMMA ListUnits ==
  ASSUME NEW found, NEW us \in Seq(Parts(found)), NEW s, \A i \in 1 .. Len(us) : Around(us[i]) = s,
         NEW t \in PartLists(found)
  PROVE  us \o <<EndMark>> \o t \in PartLists(found)
<1> DEFINE S == Parts(found) \cup {EndMark}
           w == us \o <<EndMark>> \o t
           n == Len(us)
<1>1. us \in Seq(S) /\ t \in Seq(S) /\ <<EndMark>> \in Seq(S) /\ Len(<<EndMark>>) = 1 /\ <<EndMark>>[1] = EndMark
      /\ n \in Nat /\ Len(t) \in Nat
  BY LenProperties DEF PartLists
<1>2. \A i \in 1 .. Len(t) : t[i] # EndMark => i < Len(t) /\ (t[i + 1] # EndMark => Around(t[i + 1]) = Around(t[i]))
  BY DEF PartLists
<1> HIDE DEF S, n
<1>3. /\ us \o <<EndMark>> \in Seq(S) /\ Len(us \o <<EndMark>>) = n + 1
      /\ \A i \in 1 .. n + 1 : (us \o <<EndMark>>)[i] = IF i <= n THEN us[i] ELSE EndMark
  <2>1. /\ us \o <<EndMark>> \in Seq(S) /\ Len(us \o <<EndMark>>) = n + 1
        /\ \A i \in 1 .. n + 1 : (us \o <<EndMark>>)[i] = IF i <= n THEN us[i] ELSE <<EndMark>>[i - n]
    BY <1>1, ConcatProperties DEF n
  <2>2. \A i \in 1 .. n + 1 : ~(i <= n) => i - n = 1
    BY <1>1
  <2> QED
    BY <1>1, <2>1, <2>2
<1>4. /\ w \in Seq(S) /\ Len(w) = n + 1 + Len(t)
      /\ \A i \in 1 .. n + 1 + Len(t) : w[i] = IF i <= n + 1 THEN (us \o <<EndMark>>)[i] ELSE t[i - (n + 1)]
  <2> DEFINE v == us \o <<EndMark>>
  <2>1. v \in Seq(S) /\ Len(v) = n + 1 /\ w = v \o t
    BY <1>3
  <2> HIDE DEF v, w
  <2>3. /\ v \o t \in Seq(S) /\ Len(v \o t) = Len(v) + Len(t)
        /\ \A i \in 1 .. Len(v) + Len(t) : (v \o t)[i] = IF i <= Len(v) THEN v[i] ELSE t[i - Len(v)]
    BY <1>1, <2>1, ConcatProperties
  <2>2. /\ v \o t \in Seq(S) /\ Len(v \o t) = n + 1 + Len(t)
        /\ \A i \in 1 .. n + 1 + Len(t) : (v \o t)[i] = IF i <= n + 1 THEN v[i] ELSE t[i - (n + 1)]
    BY <2>1, <2>3
  <2> QED
    BY <2>1, <2>2 DEF v
<1> HIDE DEF w
<1>5. ASSUME NEW i \in 1 .. Len(w), w[i] # EndMark
      PROVE  i < Len(w) /\ (w[i + 1] # EndMark => Around(w[i + 1]) = Around(w[i]))
  <2>1. CASE i <= n
    <3>1. i \in 1 .. n /\ i \in 1 .. n + 1 /\ i + 1 \in 1 .. n + 1 /\ i + 1 \in 1 .. n + 1 + Len(t) /\ i < Len(w)
          /\ (i + 1 <= n => i + 1 \in 1 .. n) /\ i + 1 <= n + 1 /\ i <= n + 1
      BY <1>1, <1>4, <2>1
    <3>2. w[i] = us[i] /\ w[i + 1] = IF i + 1 <= n THEN us[i + 1] ELSE EndMark
      BY <1>3, <1>4, <2>1, <3>1
    <3> QED
      BY <3>1, <3>2 DEF n
  <2>2. CASE i = n + 1
    <3>1. i \in 1 .. n + 1 + Len(t) /\ i \in 1 .. n + 1 /\ ~(i <= n)
      BY <1>1, <1>4, <2>2
    <3> QED
      BY <1>3, <1>4, <1>5, <2>2, <3>1
  <2>3. CASE i > n + 1
    <3> DEFINE d == i - (n + 1)
    <3>1. /\ d \in 1 .. Len(t) /\ i \in 1 .. n + 1 + Len(t) /\ ~(i <= n + 1)
          /\ d < Len(t) => i < Len(w) /\ i + 1 \in 1 .. n + 1 + Len(t) /\ ~(i + 1 <= n + 1) /\ (i + 1) - (n + 1) = d + 1
      BY <1>1, <1>4, <2>3
    <3>2. w[i] = t[d] /\ (d < Len(t) => w[i + 1] = t[d + 1])
      BY <1>4, <3>1
    <3> HIDE DEF d
    <3> QED
      BY <1>2, <1>5, <3>1, <3>2
  <2> QED
    BY <1>1, <1>4, <2>1, <2>2, <2>3
<1> QED
  BY <1>4, <1>5 DEF PartLists, S, w

\* The plan after a step: nothing pending, a range pending, a node entered, or parts to pack.
LEMMA PlansFrom ==
  ASSUME NEW found, NEW c \in Seq(Chunks(found)), NEW t \in PartLists(found), NEW a, NEW b, NEW m,
         Tiles(c, {}, 1, a), Tiles(t, {EndMark}, b, m)
  PROVE  /\ a = b => Plans(found, t, <<>>, c, m)
         /\ \A y \in Chunks(found) :
              /\ y.first = a /\ y.first <= y.last /\ b = y.last + 1
              /\ t # <<>> /\ (Head(t) # EndMark => y.ancestry = Around(Head(t)))
              => Plans(found, t, <<y>>, c, m)
         /\ \A x \in NodeItems :
              x.first = a /\ x.first <= x.last /\ b = x.last + 1 => Plans(found, <<x>> \o t, <<>>, c, m)
         /\ \A us \in Seq(Parts(found)) : \A s :
              Tiles(us, {EndMark}, a, b) /\ (\A i \in 1 .. Len(us) : Around(us[i]) = s)
              => Plans(found, us \o <<EndMark>> \o t, <<>>, c, m)
<1>1. /\ c \o <<>> = c /\ <<>> \in Seq(Chunks(found)) /\ Seq(Parts(found)) \subseteq Seq(Items(found))
      /\ t \in Seq(Items(found)) /\ <<EndMark>> \in Seq(Items(found))
  <2>1. c \o <<>> = c
    BY ConcatEmptySeq
  <2>2. \A S, T : S \subseteq T => Seq(S) \subseteq Seq(T)
    BY SeqMonotonic
  <2>3. Parts(found) \subseteq Items(found) /\ Parts(found) \cup {EndMark} \subseteq Items(found) /\ EndMark \in Items(found)
    BY DEF Items
  <2>4. t \in Seq(Parts(found) \cup {EndMark})
    BY DEF PartLists
  <2> QED
    BY <2>1, <2>2, <2>3, <2>4
<1>2. a \in Int /\ b \in Int
  BY <1>1, TilesRise
<1>3. ASSUME a = b PROVE Plans(found, t, <<>>, c, m)
  BY <1>1, <1>3 DEF Plans
<1>4. ASSUME NEW y \in Chunks(found), y.first = a, y.first <= y.last, b = y.last + 1,
             t # <<>>, Head(t) # EndMark => y.ancestry = Around(Head(t))
      PROVE  Plans(found, t, <<y>>, c, m)
  <2>1. y.first \in Nat /\ y.last \in Nat /\ y \notin {}
    BY DEF Chunks, ChunkRecords
  <2>4. Tiles(c, {}, 1, y.first) /\ y.first \in Int /\ y.last \in Int /\ y.first <= y.last /\ b = y.last + 1
    BY <1>4, <2>1
  <2>2. Tiles(Append(c, y), {}, 1, b)
    BY <2>1, <2>4, TilesAppend
  <2>3. c \o <<y>> = Append(c, y) /\ <<y>> \in Seq(Chunks(found))
    BY AppendIsConcat
  <2> QED
    BY <1>4, <2>2, <2>3 DEF Plans
<1>5. ASSUME NEW x \in NodeItems, x.first = a, x.first <= x.last, b = x.last + 1
      PROVE  Plans(found, <<x>> \o t, <<>>, c, m)
  <2>1. x \notin {EndMark} /\ x.first \in Int /\ x.last \in Int /\ <<x>> \in Seq(Items(found))
    BY PartIs DEF Items
  <2>2. Tiles(<<x>>, {EndMark}, a, b)
    <3>1. x \notin {EndMark} /\ x.first \in Int /\ x.last \in Int /\ x.first <= x.last /\ a = x.first /\ b = x.last + 1
      BY <1>5, <2>1
    <3> DEFINE marks == {EndMark}
    <3> HIDE DEF marks
    <3>2. x \notin marks
      BY <3>1 DEF marks
    <3>3. Tiles(<<x>>, marks, a, b)
      BY <3>1, <3>2, TilesOne
    <3> QED
      BY <3>3 DEF marks
  <2>3. Tiles(<<x>> \o t, {EndMark}, a, m)
    BY <1>1, <2>1, <2>2, TilesConcat
  <2> QED
    BY <1>1, <2>3 DEF Plans
<1>6. ASSUME NEW us \in Seq(Parts(found)), NEW s, Tiles(us, {EndMark}, a, b),
             \A i \in 1 .. Len(us) : Around(us[i]) = s
      PROVE  Plans(found, us \o <<EndMark>> \o t, <<>>, c, m)
  <2> DEFINE v == us \o <<EndMark>>
             w == v \o t
  <2>1. w \in PartLists(found)
    BY <1>6, ListUnits
  <2>2. Tiles(<<EndMark>>, {EndMark}, b, b)
    BY <1>2, TilesOne
  <2>3. us \in Seq(Items(found))
    BY <1>1
  <2>4. v \in Seq(Items(found)) /\ Tiles(v, {EndMark}, a, b)
    BY <1>1, <1>6, <2>2, <2>3, TilesConcat, ConcatProperties
  <2> HIDE DEF v
  <2>5. Tiles(w, {EndMark}, a, m)
    BY <1>1, <2>4, TilesConcat
  <2> HIDE DEF w
  <2>6. Plans(found, w, <<>>, c, m)
    BY <1>1, <2>1, <2>5 DEF Plans
  <2> QED
    BY <2>6 DEF w, v
<1> QED
  BY <1>3, <1>4, <1>5, <1>6

\* The part to come.
LEMMA TakePart ==
  ASSUME NEW found, NEW w, NEW p, NEW c, NEW m, Plans(found, w, p, c, m), w # <<>>, Head(w).kind \in {"unit", "range"}
  PROVE  /\ c \in Seq(Chunks(found)) /\ c \o p \in Seq(Chunks(found))
         /\ Head(w) \in Parts(found) /\ Tail(w) \in PartLists(found) /\ Tail(w) # <<>>
         /\ (Head(Tail(w)) # EndMark => Around(Head(Tail(w))) = Around(Head(w)))
         /\ Head(w).first <= Head(w).last
         /\ Tiles(c \o p, {}, 1, Head(w).first) /\ Tiles(Tail(w), {EndMark}, Head(w).last + 1, m)
         /\ p # <<>> => /\ p = <<p[1]>> /\ p[1] \in Chunks(found) /\ p[1].ancestry = Around(Head(w))
                        /\ Tiles(c, {}, 1, p[1].first) /\ p[1].first <= p[1].last /\ Head(w).first = p[1].last + 1
<1> DEFINE x == Head(w)
           t == Tail(w)
<1>1. w \in PartLists(found)
  <2>1. ASSUME NEW y \in NodeItems, NEW s \in PartLists(found), w = <<y>> \o s PROVE FALSE
    <3> DEFINE S == NodeItems \cup (Parts(found) \cup {EndMark})
    <3>3. s \in Seq(Parts(found) \cup {EndMark}) /\ Parts(found) \cup {EndMark} \subseteq S /\ y \in S
      BY DEF PartLists
    <3>4. s \in Seq(S)
      BY <3>3, SeqMonotonic
    <3>1. Head(<<y>> \o s) = y
      BY <3>3, <3>4, FirstAndOthers
    <3>2. y.kind = "node"
      BY PartIs
    <3> QED
      BY <2>1, <3>1, <3>2
  <2> QED
    BY <2>1 DEF Plans
<1>2. x # EndMark
  BY DEF EndMark
<1>3. /\ t \in PartLists(found) /\ x \in Parts(found) /\ t # <<>>
      /\ (Head(t) # EndMark => Around(Head(t)) = Around(x))
  BY <1>1, <1>2, ListTail
<1>4. c \in Seq(Chunks(found)) /\ p \in Seq(Chunks(found)) /\ c \o p \in Seq(Chunks(found))
  <2>1. c \in Seq(Chunks(found)) /\ p \in Seq(Chunks(found))
    BY DEF Plans
  <2> QED
    BY <2>1, ConcatProperties
<1>5. PICK line : Tiles(c \o p, {}, 1, line) /\ Tiles(w, {EndMark}, line, m)
  BY DEF Plans
<1>6. x \notin {EndMark} /\ w \in Seq(Parts(found) \cup {EndMark})
  BY <1>1, <1>2 DEF PartLists
<1>7. /\ x.first = line /\ x.first <= x.last /\ Tiles(t, {EndMark}, x.last + 1, m)
  BY <1>5, <1>6, TilesTail
<1>8. ASSUME p # <<>>
      PROVE  /\ p = <<p[1]>> /\ p[1] \in Chunks(found) /\ p[1].ancestry = Around(x)
             /\ Tiles(c, {}, 1, p[1].first) /\ p[1].first <= p[1].last /\ x.first = p[1].last + 1
  <2>1. PICK y \in Chunks(found) : p = <<y>> /\ y.ancestry = Around(x)
    BY <1>2, <1>8 DEF Plans
  <2>2. p[1] = y /\ c \o <<y>> = Append(c, y)
    BY <1>4, <2>1, AppendIsConcat
  <2>3. y \notin {} /\ Tiles(Append(c, y), {}, 1, x.first)
    BY <1>5, <1>7, <2>1, <2>2
  <2>4. Tiles(c, {}, 1, y.first) /\ y.first <= y.last /\ x.first = y.last + 1
    BY <1>4, <2>3, TilesAppend
  <2> QED
    BY <2>1, <2>2, <2>4
<1> QED
  BY <1>3, <1>4, <1>5, <1>7, <1>8

\* The node to enter, and the mark that parts have ended.
LEMMA TakeOther ==
  ASSUME NEW found, NEW w, NEW p, NEW c, NEW m, Plans(found, w, p, c, m), w # <<>>, Head(w).kind \in {"node", "end"}
  PROVE  /\ c \in Seq(Chunks(found)) /\ c \o p \in Seq(Chunks(found)) /\ Tail(w) \in PartLists(found)
         /\ Head(w).kind = "end" => \E line : Tiles(c \o p, {}, 1, line) /\ Tiles(Tail(w), {EndMark}, line, m)
         /\ Head(w).kind = "node" =>
              /\ Head(w) \in NodeItems /\ p = <<>> /\ Head(w).first <= Head(w).last
              /\ Tiles(c, {}, 1, Head(w).first) /\ Tiles(Tail(w), {EndMark}, Head(w).last + 1, m)
<1>1. c \in Seq(Chunks(found)) /\ p \in Seq(Chunks(found)) /\ c \o p \in Seq(Chunks(found))
  <2>1. c \in Seq(Chunks(found)) /\ p \in Seq(Chunks(found))
    BY DEF Plans
  <2> QED
    BY <2>1, ConcatProperties
<1>2. PICK line : Tiles(c \o p, {}, 1, line) /\ Tiles(w, {EndMark}, line, m)
  BY DEF Plans
<1>3. CASE w \in PartLists(found)
  <2>1. w \in Seq(Parts(found) \cup {EndMark})
    BY <1>3 DEF PartLists
  <2>2. Tail(w) \in PartLists(found) /\ Head(w) \in Parts(found) \cup {EndMark}
    BY <1>3, ListTail
  <2>3. Head(w) = EndMark /\ Head(w).kind = "end"
    <3>1. Head(w) \notin Parts(found)
      BY PartIs
    <3> QED
      BY <2>2, <3>1 DEF EndMark
  <2>4. Tiles(Tail(w), {EndMark}, line, m)
    BY <1>2, <2>1, <2>3, TilesTail
  <2> QED
    BY <1>1, <1>2, <2>2, <2>3, <2>4
<1>4. CASE w \notin PartLists(found)
  <2>1. PICK x \in NodeItems, t \in PartLists(found) : p = <<>> /\ w = <<x>> \o t
    BY <1>4 DEF Plans
  <2>2. /\ <<x>> \in Seq(Items(found)) /\ t \in Seq(Items(found)) /\ x \notin {EndMark} /\ x.kind = "node"
    <3>1. Parts(found) \cup {EndMark} \subseteq Items(found) /\ x \in Items(found)
      BY DEF Items
    <3>2. t \in Seq(Parts(found) \cup {EndMark})
      BY DEF PartLists
    <3>3. t \in Seq(Items(found))
      BY <3>1, <3>2, SeqMonotonic
    <3> QED
      BY <3>1, <3>3, PartIs
  <2>3. Head(w) = x /\ Tail(w) = t
    <3>1. Head(<<x>> \o t) = x /\ Tail(<<x>> \o t) = t
      BY <2>2, FirstAndOthers
    <3> QED
      BY <2>1, <3>1
  <2>4. w \in Seq(Items(found))
    BY <2>1, <2>2, ConcatProperties
  <2>5. x.first = line /\ x.first <= x.last /\ Tiles(t, {EndMark}, x.last + 1, m)
    BY <1>2, <2>2, <2>3, <2>4, TilesTail
  <2>6. c \o p = c
    BY <1>1, <2>1, ConcatEmptySeq
  <2> QED
    BY <1>1, <1>2, <2>1, <2>2, <2>3, <2>5, <2>6
<1> QED
  BY <1>3, <1>4

\* No symbols.
LEMMA NoSymbols == <<>> \in Seq(Symbols) /\ Sorted(<<>>) /\ \A l : Precede(<<>>, l)
<1> DEFINE none == <<>>
<1>1. none \in Seq(Symbols) /\ Len(none) = 0
  OBVIOUS
<1>2. \A i \in 1 .. Len(none) : FALSE
  BY <1>1
<1> HIDE DEF none
<1>3. Sorted(none) /\ \A l : Precede(none, l)
  BY <1>2 DEF Sorted, Precede
<1> QED
  BY <1>1, <1>3 DEF none

\* The unit pending grows: it ends later, and keeps the symbol it starts with.
Grown(p, l, own) == [p EXCEPT ![1].last = l, ![1].own = FirstOf(@, own)]

LEMMA PendingGrows ==
  ASSUME NEW found, NEW p, p = <<p[1]>>, p[1] \in Chunks(found), NEW l \in Nat, NEW own \in Owns(found),
         own # Nil => Precede(p[1].ancestry, own.first)
  PROVE  \E y \in Chunks(found) : /\ Grown(p, l, own) = <<y>>
                                  /\ y.first = p[1].first /\ y.last = l /\ y.ancestry = p[1].ancestry
<1> DEFINE q == p[1]
           y == [q EXCEPT !.last = l, !.own = FirstOf(@, own)]
<1>1. q \in ChunkRecords(found) /\ Sorted(q.ancestry) /\ (q.own # Nil => Precede(q.ancestry, q.own.first))
  BY DEF Chunks
<1>2. FirstOf(q.own, own) \in Owns(found)
      /\ (FirstOf(q.own, own) # Nil => Precede(q.ancestry, FirstOf(q.own, own).first))
  <2>1. q.own \in Owns(found)
    <3> HIDE DEF q
    <3> QED
      BY <1>1 DEF ChunkRecords
  <2>2. CASE q.own # Nil
    <3>1. FirstOf(q.own, own) = q.own
      BY <2>2 DEF FirstOf
    <3> QED
      BY <1>1, <2>1, <2>2, <3>1
  <2>3. CASE q.own = Nil
    <3>1. FirstOf(q.own, own) = own
      BY <2>3 DEF FirstOf
    <3> QED
      BY <3>1
  <2> QED
    BY <2>2, <2>3
<1>3. Grown(p, l, own) = <<y>>
  <2>1. p = <<q>>
    OBVIOUS
  <2> HIDE DEF q
  <2>2. [<<q>> EXCEPT ![1].last = l, ![1].own = FirstOf(@, own)] = <<y>>
    OBVIOUS
  <2> QED
    BY <2>1, <2>2 DEF Grown
<1> HIDE DEF q
<1>4. /\ y \in ChunkRecords(found) /\ y.first = q.first /\ y.last = l /\ y.ancestry = q.ancestry
      /\ y.own = FirstOf(q.own, own)
  BY <1>1, <1>2 DEF ChunkRecords
<1> HIDE DEF y
<1>5. y \in Chunks(found)
  BY <1>1, <1>2, <1>4 DEF Chunks
<1> QED
  BY <1>3, <1>4, <1>5 DEF q

\* Packing statements keeps the plan.
LEMMA PackUnitFits ==
  ASSUME NEW m, Plans(boundaries, work, pending, chunks, m), PackUnit
  PROVE  Plans(boundaries, work', pending', chunks', m)
<1> DEFINE u == Head(work)
           t == Tail(work)
           found == boundaries
           all == chunks \o pending
           deep == {d \in u.depth .. MaxRefineDepth : Len(UnitsFromBoundaries(boundaries, d, u.first, u.last)) > 1}
<1>1. work # <<>> /\ u.kind = "range"
  BY DEF PackUnit
<1>2. /\ chunks \in Seq(Chunks(found)) /\ all \in Seq(Chunks(found))
      /\ u \in Parts(found) /\ t \in PartLists(found) /\ t # <<>>
      /\ (Head(t) # EndMark => Around(Head(t)) = Around(u))
      /\ u.first <= u.last
      /\ Tiles(all, {}, 1, u.first) /\ Tiles(t, {EndMark}, u.last + 1, m)
      /\ pending # <<>> => /\ pending = <<pending[1]>> /\ pending[1] \in Chunks(found) /\ pending[1].ancestry = Around(u)
                           /\ Tiles(chunks, {}, 1, pending[1].first) /\ pending[1].first <= pending[1].last
                           /\ u.first = pending[1].last + 1
  BY <1>1, TakePart
<1>3. /\ u.first \in Nat /\ u.last \in Nat /\ u.depth \in Nat /\ found # Nil /\ u \in RangeItems(found)
      /\ Around(u) = <<>>
  BY <1>1, <1>2, PartIs DEF Around
<1>4. u.own \in Owns(found)
  BY <1>3 DEF RangeItems
<1>5. IF Oversized(u.first, u.last)
      THEN /\ pending' = <<>>
           /\ IF deep = {}
              THEN /\ chunks' = Append(all, [Chunk(u.first, u.last, <<>>, u.own) EXCEPT !.windows = TRUE])
                   /\ work' = t
              ELSE /\ chunks' = all
                   /\ work' = UnitsFromBoundaries(boundaries, Min(deep), u.first, u.last) \o <<EndMark>> \o t
      ELSE /\ work' = t
           /\ IF pending # <<>> /\ FitsTarget(pending[1].first, u.last)
              THEN pending' = [pending EXCEPT ![1].last = u.last, ![1].own = FirstOf(@, u.own)] /\ chunks' = chunks
              ELSE chunks' = all /\ pending' = <<Chunk(u.first, u.last, <<>>, u.own)>>
  BY DEF PackUnit, Flushed, Units
<1> DEFINE c0 == Chunk(u.first, u.last, <<>>, u.own)
           c1 == [Chunk(u.first, u.last, <<>>, u.own) EXCEPT !.windows = TRUE]
<1>6. /\ c0 \in Chunks(found) /\ c0.first = u.first /\ c0.last = u.last /\ c0.ancestry = <<>>
      /\ c1 \in Chunks(found) /\ c1.first = u.first /\ c1.last = u.last
  <2> DEFINE none == <<>>
             a == u.first
             b == u.last
             own == u.own
  <2>1. a \in Nat /\ b \in Nat /\ none \in Seq(Symbols) /\ Sorted(none) /\ own \in Owns(found)
        /\ (own # Nil => Precede(none, own.first))
    BY <1>3, <1>4, NoSymbols
  <2> HIDE DEF none, a, b, own, found
  <2>2. /\ Chunk(a, b, none, own) \in Chunks(found)
        /\ Chunk(a, b, none, own).first = a /\ Chunk(a, b, none, own).last = b
        /\ Chunk(a, b, none, own).ancestry = none
    BY <2>1, ChunkIs
  <2>3. c0 \in Chunks(found) /\ c0.first = u.first /\ c0.last = u.last /\ c0.ancestry = <<>>
    BY <2>2 DEF none, a, b, own
  <2>4. c1 = [c0 EXCEPT !.windows = TRUE]
    OBVIOUS
  <2> HIDE DEF c0, c1
  <2> QED
    BY <2>3, <2>4, CutIs
<1> HIDE DEF u, t, found, all, c0, c1
<1>7. CASE Oversized(u.first, u.last) /\ deep = {}
  <2>1. work' = t /\ pending' = <<>> /\ chunks' = Append(all, c1)
    BY <1>5, <1>7 DEF c1
  <2>2. c1 \notin {} /\ Tiles(all, {}, 1, c1.first) /\ c1.first \in Int /\ c1.last \in Int /\ c1.first <= c1.last
    BY <1>2, <1>3, <1>6
  <2>3. Tiles(Append(all, c1), {}, 1, u.last + 1) /\ Append(all, c1) \in Seq(Chunks(found))
    <3> DEFINE b == u.last + 1
    <3>1. b = c1.last + 1
      BY <1>6
    <3> HIDE DEF b
    <3>2. Tiles(Append(all, c1), {}, 1, b) /\ Append(all, c1) \in Seq(Chunks(found))
      BY <1>2, <1>6, <2>2, <3>1, ChunkAppended
    <3> QED
      BY <3>2 DEF b
  <2>4. Tiles(t, {EndMark}, u.last + 1, m)
    BY <1>2
  <2>5. Plans(found, t, <<>>, Append(all, c1), m)
    BY <1>2, <2>3, <2>4, PlansFrom
  <2> QED
    BY <2>1, <2>5 DEF found
<1>8. CASE Oversized(u.first, u.last) /\ deep # {}
  <2> DEFINE d == Min(deep)
             us == UnitsFromBoundaries(found, d, u.first, u.last)
  <2>1. d \in Nat
    <3>1. deep \subseteq Nat
      BY <1>3
    <3> HIDE DEF deep
    <3> QED
      BY <1>8, <3>1, MinIs
  <2> HIDE DEF d
  <2>2. work' = us \o <<EndMark>> \o t /\ pending' = <<>> /\ chunks' = all
    BY <1>5, <1>8 DEF d, found
  <2>3. us \in Seq(RangeItems(found)) /\ Tiles(us, {EndMark}, u.first, u.last + 1)
    BY <1>2, <1>3, <2>1, BoundaryUnits
  <2>4. us \in Seq(Parts(found)) /\ \A i \in 1 .. Len(us) : Around(us[i]) = <<>>
    <3>1. RangeItems(found) \subseteq Parts(found)
      BY <1>3 DEF Parts
    <3>2. \A i \in 1 .. Len(us) : us[i] \in RangeItems(found)
      BY <2>3, ElementOfSeq
    <3>3. \A x \in RangeItems(found) : Around(x) = <<>>
      BY DEF RangeItems, Around
    <3> QED
      BY <2>3, <3>1, <3>2, <3>3, SeqMonotonic
  <2> HIDE DEF us
  <2>5. Plans(found, us \o <<EndMark>> \o t, <<>>, all, m)
    BY <1>2, <2>3, <2>4, PlansFrom
  <2> QED
    BY <2>2, <2>5 DEF found
<1>9. CASE ~Oversized(u.first, u.last) /\ pending # <<>> /\ FitsTarget(pending[1].first, u.last)
  <2>1. work' = t /\ pending' = [pending EXCEPT ![1].last = u.last, ![1].own = FirstOf(@, u.own)] /\ chunks' = chunks
    BY <1>5, <1>9
  <2>2. pending = <<pending[1]>> /\ pending[1] \in Chunks(found) /\ pending[1].ancestry = <<>>
    BY <1>2, <1>3, <1>9
  <2>3. u.own # Nil => Precede(pending[1].ancestry, u.own.first)
    BY <2>2, NoSymbols
  <2>4. PICK y \in Chunks(found) : /\ pending' = <<y>> /\ y.first = pending[1].first /\ y.last = u.last
                                   /\ y.ancestry = pending[1].ancestry
    <3> DEFINE p == pending
               l == u.last
               own == u.own
    <3>1. p = <<p[1]>> /\ p[1] \in Chunks(found) /\ l \in Nat /\ own \in Owns(found)
          /\ (own # Nil => Precede(p[1].ancestry, own.first))
      BY <1>3, <1>4, <2>2, <2>3
    <3> HIDE DEF p, l, own
    <3>2. \E y \in Chunks(found) : /\ Grown(p, l, own) = <<y>>
                                   /\ y.first = p[1].first /\ y.last = l /\ y.ancestry = p[1].ancestry
      BY <3>1, PendingGrows
    <3> QED
      BY <2>1, <3>2 DEF p, l, own, Grown
  <2>5. /\ Tiles(chunks, {}, 1, y.first) /\ y.first <= y.last /\ Tiles(t, {EndMark}, y.last + 1, m)
        /\ (Head(t) # EndMark => y.ancestry = Around(Head(t)))
    <3>1. pending[1].first \in Nat /\ pending[1].last \in Nat
      BY <2>2 DEF Chunks, ChunkRecords
    <3> QED
      BY <1>2, <1>3, <1>9, <2>4, <3>1
  <2>6. Plans(found, t, <<y>>, chunks, m)
    BY <1>2, <2>5, PlansFrom
  <2> QED
    BY <2>1, <2>4, <2>6 DEF found
<1>10. CASE ~Oversized(u.first, u.last) /\ ~(pending # <<>> /\ FitsTarget(pending[1].first, u.last))
  <2>1. work' = t /\ pending' = <<c0>> /\ chunks' = all
    BY <1>5, <1>10 DEF c0
  <2>2. /\ Tiles(all, {}, 1, c0.first) /\ c0.first <= c0.last /\ Tiles(t, {EndMark}, c0.last + 1, m)
        /\ (Head(t) # EndMark => c0.ancestry = Around(Head(t)))
    BY <1>2, <1>3, <1>6
  <2>3. Plans(found, t, <<c0>>, all, m)
    BY <1>2, <1>6, <2>2, PlansFrom
  <2> QED
    BY <2>1, <2>3 DEF found
<1> QED
  BY <1>7, <1>8, <1>9, <1>10

\* The end of parts flushes what is pending.
LEMMA EndOfUnitsFits ==
  ASSUME NEW m, Plans(boundaries, work, pending, chunks, m), EndOfUnits
  PROVE  Plans(boundaries, work', pending', chunks', m)
<1>1. work # <<>> /\ Head(work).kind = "end" /\ chunks' = chunks \o pending /\ pending' = <<>> /\ work' = Tail(work)
  BY DEF EndOfUnits, Flushed
<1>2. /\ chunks \o pending \in Seq(Chunks(boundaries)) /\ Tail(work) \in PartLists(boundaries)
      /\ \E line : Tiles(chunks \o pending, {}, 1, line) /\ Tiles(Tail(work), {EndMark}, line, m)
  BY <1>1, TakeOther
<1>3. Plans(boundaries, Tail(work), <<>>, chunks \o pending, m)
  BY <1>2, PlansFrom
<1> QED
  BY <1>1, <1>3

\* A symbol that starts no earlier is added to the symbols around it.
LEMMA SymbolAdded ==
  ASSUME NEW s \in Seq(Symbols), Sorted(s), NEW x \in Symbols, Precede(s, x.first)
  PROVE  s \o <<x>> \in Seq(Symbols) /\ Sorted(s \o <<x>>) /\ Precede(s \o <<x>>, x.first)
<1> DEFINE n == Len(s)
           v == s \o <<x>>
<1>1. /\ v \in Seq(Symbols) /\ Len(v) = n + 1 /\ v[n + 1] = x /\ n \in Nat /\ x.first \in Nat
      /\ \A i \in 1 .. n : v[i] = s[i]
  BY AppendProperties, AppendIsConcat, LenProperties DEF Symbols
<1>2. \A i \in 1 .. n : v[i] = s[i] /\ s[i].first <= x.first
  BY <1>1 DEF Precede
<1>3. \A i, j \in 1 .. n : i < j => s[i].first <= s[j].first
  BY DEF Sorted
<1> HIDE DEF n, v
<1>4. \A i \in 1 .. n + 1 : i \in 1 .. n \/ i = n + 1
  BY <1>1
<1>5. Precede(v, x.first)
  <2>1. \A i \in 1 .. n + 1 : v[i].first <= x.first
    BY <1>1, <1>2, <1>4
  <2> QED
    BY <1>1, <2>1 DEF Precede
<1>6. Sorted(v)
  <2>1. ASSUME NEW i \in 1 .. n + 1, NEW j \in 1 .. n + 1, i < j PROVE v[i].first <= v[j].first
    <3>1. i \in 1 .. n
      BY <1>1, <2>1
    <3>2. CASE j \in 1 .. n
      BY <1>2, <1>3, <2>1, <3>1, <3>2
    <3>3. CASE j = n + 1
      BY <1>1, <1>2, <3>1, <3>3
    <3> QED
      BY <1>4, <3>2, <3>3
  <2> QED
    BY <1>1, <2>1 DEF Sorted
<1> QED
  BY <1>1, <1>5, <1>6 DEF v

\* The symbols of a node's units: those around it, and its own.
LEMMA ContextFits ==
  ASSUME NEW s \in Seq(Symbols), Sorted(s), NEW node \in TreeNodes, Precede(s, node.first)
  PROVE  /\ s \o (IF SymbolOf(node) = Nil THEN <<>> ELSE <<SymbolOf(node)>>) \in Seq(Symbols)
         /\ Sorted(s \o (IF SymbolOf(node) = Nil THEN <<>> ELSE <<SymbolOf(node)>>))
         /\ Precede(s \o (IF SymbolOf(node) = Nil THEN <<>> ELSE <<SymbolOf(node)>>), node.first)
<1> DEFINE x == SymbolOf(node)
           v == s \o (IF x = Nil THEN <<>> ELSE <<x>>)
<1>1. v \in Seq(Symbols) /\ Sorted(v) /\ Precede(v, node.first)
  <2>1. CASE x = Nil
    <3>1. s \o <<>> = s
      BY ConcatEmptySeq
    <3> HIDE DEF x
    <3> QED
      BY <2>1, <3>1
  <2>2. CASE x # Nil
    <3>1. x \in Symbols /\ x.first = node.first
      BY <2>2, SymbolIs, NodeIs
    <3> HIDE DEF x
    <3>2. Precede(s, x.first)
      BY <3>1
    <3>3. s \o <<x>> \in Seq(Symbols) /\ Sorted(s \o <<x>>) /\ Precede(s \o <<x>>, x.first)
      BY <3>1, <3>2, SymbolAdded
    <3> QED
      BY <2>2, <3>1, <3>3
  <2> QED
    BY <2>1, <2>2
<1> QED
  BY <1>1

\* The widest node of a unit is one of its nodes.
LEMMA WidestFits ==
  ASSUME NEW u \in UnitItems
  PROVE  Widest(u.nodes) # Nil => Widest(u.nodes) \in TreeNodes /\ Precede(u.context, Widest(u.nodes).first)
<1> DEFINE some == DOMAIN u.nodes
<1>1. u.nodes \in Seq(TreeNodes) /\ \A i \in 1 .. Len(u.nodes) : Precede(u.context, u.nodes[i].first)
  BY DEF UnitItems, UnitRecords
<1>2. some = 1 .. Len(u.nodes) /\ some \in SUBSET (1 .. Len(u.nodes))
  BY <1>1, LenProperties
<1> HIDE DEF some
<1>3. \A i \in some : u.nodes[i] \in TreeNodes
  BY <1>1, <1>2, ElementOfSeq
<1>4. WidestOf(u.nodes, some) = Nil \/ \E i \in some : WidestOf(u.nodes, some) = u.nodes[i]
  BY <1>1, <1>2, WidestIs
<1> QED
  BY <1>1, <1>2, <1>3, <1>4 DEF Widest, some

\* A range that takes the lines of the work to come ends the plan of it.
LEMMA LeafFits ==
  ASSUME NEW found, NEW c \in Seq(Chunks(found)), NEW t \in PartLists(found), NEW y \in Chunks(found), NEW m, NEW a, NEW b,
         Tiles(c, {}, 1, a), Tiles(t, {EndMark}, b + 1, m), y.first = a, y.last = b, a <= b
  PROVE  Plans(found, t, <<>>, Append(c, y), m)
<1> DEFINE l == b + 1
<1>1. Tiles(c, {}, 1, y.first) /\ y.first <= y.last /\ l = y.last + 1 /\ Tiles(t, {EndMark}, l, m)
  OBVIOUS
<1> HIDE DEF l
<1>2. Append(c, y) \in Seq(Chunks(found)) /\ Tiles(Append(c, y), {}, 1, l)
  BY <1>1, ChunkAppended
<1> QED
  BY <1>1, <1>2, PlansFrom

\* What a node to plan has.
LEMMA NodeMade ==
  ASSUME NEW node \in TreeNodes, NEW first \in Nat, NEW last \in Nat, NEW depth \in Nat, NEW s \in Seq(Symbols),
         Sorted(s), Precede(s, node.first)
  PROVE  Node(node, first, last, depth, s) \in NodeItems /\ Node(node, first, last, depth, s).first = first
         /\ Node(node, first, last, depth, s).last = last
<1> DEFINE x == Node(node, first, last, depth, s)
<1>1. /\ x \in NodeRecords /\ x.first = first /\ x.last = last /\ x.node = node /\ x.ancestry = s
  BY DEF Node, NodeRecords
<1> HIDE DEF x
<1>2. x \in NodeItems
  BY <1>1 DEF NodeItems
<1> QED
  BY <1>1, <1>2 DEF x

\* Entering a node keeps the plan.
LEMMA PlanNodeFits ==
  ASSUME NEW m, Plans(boundaries, work, pending, chunks, m), PlanNode
  PROVE  Plans(boundaries, work', pending', chunks', m)
<1> DEFINE n == Head(work)
           t == Tail(work)
           found == boundaries
           context == n.ancestry \o (IF SymbolOf(n.node) = Nil THEN <<>> ELSE <<SymbolOf(n.node)>>)
           us == UnitsOf(n.node, n.first, n.last, n.depth, context)
           inner == Widest(us[1].nodes)
           z == Node(inner, n.first, n.last, n.depth + 1, context)
           split == Split(n.first, n.last, context)
           broken == Broken(n.first, n.last)
           leaf(chunk) == chunks' = Append(chunks, chunk) /\ work' = t
<1>1. work # <<>> /\ n.kind = "node" /\ pending' = pending
  BY DEF PlanNode
<1>2. IF n.depth > MaxDepth THEN leaf(split)
      ELSE IF Len(us) > 1 THEN work' = us \o <<EndMark>> \o t /\ chunks' = chunks
      ELSE IF Damaged(n) THEN leaf(broken)
      ELSE IF inner = Nil THEN leaf(split)
      ELSE work' = <<z>> \o t /\ chunks' = chunks
  BY DEF PlanNode
<1>3. /\ chunks \in Seq(Chunks(found)) /\ t \in PartLists(found) /\ n \in NodeItems /\ pending = <<>> /\ n.first <= n.last
      /\ Tiles(chunks, {}, 1, n.first) /\ Tiles(t, {EndMark}, n.last + 1, m)
  <2>1. work # <<>> /\ Head(work).kind \in {"node", "end"} /\ Head(work).kind = "node"
    BY <1>1
  <2> HIDE DEF leaf, split, broken, z, inner, us, context
  <2>2. chunks \in Seq(Chunks(boundaries)) /\ Tail(work) \in PartLists(boundaries)
    BY <2>1, TakeOther
  <2>3. Head(work).kind = "node" =>
          /\ Head(work) \in NodeItems /\ pending = <<>> /\ Head(work).first <= Head(work).last
          /\ Tiles(chunks, {}, 1, Head(work).first) /\ Tiles(Tail(work), {EndMark}, Head(work).last + 1, m)
    BY <2>1, TakeOther
  <2> QED
    BY <2>1, <2>2, <2>3
<1>4. /\ n.first \in Nat /\ n.last \in Nat /\ n.depth \in Nat /\ n.node \in TreeNodes
      /\ n.ancestry \in Seq(Symbols) /\ Sorted(n.ancestry) /\ Precede(n.ancestry, n.node.first)
  BY <1>3, PartIs
<1> HIDE DEF n, t, found
<1>5. context \in Seq(Symbols) /\ Sorted(context) /\ Precede(context, n.node.first)
  BY <1>4, ContextFits
<1> HIDE DEF context
<1>6. us \in UnitLists(n.first, n.last, context)
  BY <1>3, <1>4, <1>5, UnitsFit
<1> HIDE DEF us
<1>7. /\ us \in Seq(UnitItems) /\ us # <<>> /\ Tiles(us, {EndMark}, n.first, n.last + 1)
      /\ \A i \in 1 .. Len(us) : us[i].context = context /\ us[i] \in UnitItems
  <2>1. /\ us \in Seq(UnitItems) /\ us # <<>> /\ Tiles(us, {EndMark}, n.first, n.last + 1)
        /\ \A i \in 1 .. Len(us) : us[i].context = context
    BY <1>6 DEF UnitLists
  <2> QED
    BY <2>1, ElementOfSeq
<1>8. us[1] \in UnitItems /\ us[1].context = context
  <2>1. 1 \in 1 .. Len(us)
    BY <1>7, EmptySeq
  <2> QED
    BY <1>7, <2>1
<1>9. inner # Nil => z \in NodeItems /\ z.first = n.first /\ z.last = n.last
  <2> SUFFICES ASSUME inner # Nil PROVE z \in NodeItems /\ z.first = n.first /\ z.last = n.last
    OBVIOUS
  <2>1. inner \in TreeNodes /\ Precede(context, inner.first)
    BY <1>8, WidestFits
  <2> HIDE DEF inner
  <2> DEFINE d == n.depth + 1
             a == n.first
             b == n.last
  <2>2. d \in Nat /\ a \in Nat /\ b \in Nat
    BY <1>4
  <2> HIDE DEF d, a, b, z
  <2>3. /\ Node(inner, a, b, d, context) \in NodeItems /\ Node(inner, a, b, d, context).first = a
        /\ Node(inner, a, b, d, context).last = b
    BY <1>5, <2>1, <2>2, NodeMade
  <2> QED
    BY <2>3 DEF d, a, b, z
<1>10. /\ split \in Chunks(found) /\ split.first = n.first /\ split.last = n.last
       /\ broken \in Chunks(found) /\ broken.first = n.first /\ broken.last = n.last
  BY <1>4, <1>5, SplitFits
<1> HIDE DEF inner, z, split, broken
<1>11. ASSUME NEW y \in Chunks(found), y.first = n.first, y.last = n.last, leaf(y)
       PROVE  Plans(found, work', pending', chunks', m)
  <2>1. Plans(found, t, <<>>, Append(chunks, y), m)
    BY <1>3, <1>11, LeafFits
  <2> QED
    BY <1>1, <1>3, <1>11, <2>1
<1>12. ASSUME work' = us \o <<EndMark>> \o t, chunks' = chunks PROVE Plans(found, work', pending', chunks', m)
  <2>1. us \in Seq(Parts(found))
    BY <1>7, SeqMonotonic DEF Parts
  <2>2. \A i \in 1 .. Len(us) : Around(us[i]) = context
    BY <1>7 DEF UnitItems, UnitRecords, Around
  <2>3. Plans(found, us \o <<EndMark>> \o t, <<>>, chunks, m)
    BY <1>3, <1>7, <2>1, <2>2, PlansFrom
  <2> QED
    BY <1>1, <1>3, <1>12, <2>3
<1>13. ASSUME inner # Nil, work' = <<z>> \o t, chunks' = chunks PROVE Plans(found, work', pending', chunks', m)
  <2>1. z \in NodeItems /\ z.first = n.first /\ z.first <= z.last /\ n.last + 1 = z.last + 1
    BY <1>3, <1>9, <1>13
  <2>2. Plans(found, <<z>> \o t, <<>>, chunks, m)
    BY <1>3, <2>1, PlansFrom
  <2> QED
    BY <1>1, <1>3, <1>13, <2>2
<1>14. Plans(found, work', pending', chunks', m)
  BY <1>2, <1>10, <1>11, <1>12, <1>13
<1> QED
  BY <1>14 DEF found

\* Packing the unit of a node keeps the plan.
LEMMA PlanUnitFits ==
  ASSUME NEW m, Plans(boundaries, work, pending, chunks, m), PlanUnit
  PROVE  Plans(boundaries, work', pending', chunks', m)
<1> DEFINE u == Head(work)
           t == Tail(work)
           found == boundaries
           all == chunks \o pending
           inner == Widest(u.nodes)
           start == IF Carried THEN pending[1].first ELSE u.first
           before == IF Carried THEN chunks ELSE all
           z == Node(inner, start, u.last, u.depth + 1, u.context)
           split == Split(start, u.last, u.context)
           broken == Broken(u.first, u.last)
           own == OwnSymbol(u)
           fresh == Chunk(u.first, u.last, u.context, own)
<1>1. work # <<>> /\ u.kind = "unit"
  BY DEF PlanUnit
<1>2. IF Damaged(u) THEN chunks' = Append(all, broken) /\ pending' = <<>> /\ work' = t
      ELSE IF Oversized(u.first, u.last)
      THEN /\ pending' = <<>>
           /\ IF inner = Nil THEN chunks' = Append(before, split) /\ work' = t
              ELSE chunks' = before /\ work' = <<z>> \o t
      ELSE /\ work' = t
           /\ IF pending # <<>> /\ FitsTarget(pending[1].first, u.last)
              THEN pending' = Grown(pending, u.last, own) /\ chunks' = chunks
              ELSE chunks' = all /\ pending' = <<fresh>>
  BY DEF PlanUnit, Flushed, Grown
<1> HIDE DEF start, before, z, split, broken, own, fresh, inner
<1>3. /\ chunks \in Seq(Chunks(found)) /\ all \in Seq(Chunks(found))
      /\ u \in Parts(found) /\ t \in PartLists(found) /\ t # <<>>
      /\ (Head(t) # EndMark => Around(Head(t)) = Around(u))
      /\ u.first <= u.last
      /\ Tiles(all, {}, 1, u.first) /\ Tiles(t, {EndMark}, u.last + 1, m)
      /\ pending # <<>> => /\ pending = <<pending[1]>> /\ pending[1] \in Chunks(found) /\ pending[1].ancestry = Around(u)
                           /\ Tiles(chunks, {}, 1, pending[1].first) /\ pending[1].first <= pending[1].last
                           /\ u.first = pending[1].last + 1
  BY <1>1, TakePart
<1>4. /\ u.first \in Nat /\ u.last \in Nat /\ u.depth \in Nat /\ u \in UnitItems /\ Around(u) = u.context
  BY <1>1, <1>3, PartIs DEF Around
<1> HIDE DEF u, t, found, all
<1>5. u.context \in Seq(Symbols) /\ Sorted(u.context)
  BY <1>4 DEF UnitItems, UnitRecords
<1>6. own \in Owns(found) /\ (own # Nil => Precede(u.context, own.first))
  BY <1>4, OwnSymbolIs DEF own, Owns
<1>7. /\ start \in Nat /\ start <= u.last /\ before \in Seq(Chunks(found)) /\ Tiles(before, {}, 1, start)
  <2>1. CASE Carried
    <3>1. pending # <<>> /\ start = pending[1].first /\ before = chunks
      BY <2>1 DEF Carried, start, before
    <3>2. pending[1].first \in Nat /\ pending[1].last \in Nat
      BY <1>3, <3>1 DEF Chunks, ChunkRecords
    <3> QED
      BY <1>3, <1>4, <3>1, <3>2
  <2>2. CASE ~Carried
    BY <1>3, <1>4, <2>2 DEF start, before
  <2> QED
    BY <2>1, <2>2
<1>8. CASE Damaged(u)
  <2>1. broken \in Chunks(found) /\ broken.first = u.first /\ broken.last = u.last
    BY <1>4, <1>5, SplitFits DEF broken
  <2>2. Plans(found, t, <<>>, Append(all, broken), m)
    BY <1>3, <2>1, LeafFits
  <2> QED
    BY <1>2, <1>8, <2>2 DEF found
<1>9. CASE ~Damaged(u) /\ Oversized(u.first, u.last) /\ inner = Nil
  <2>1. split \in Chunks(found) /\ split.first = start /\ split.last = u.last
    BY <1>4, <1>5, <1>7, SplitFits DEF split
  <2>2. Plans(found, t, <<>>, Append(before, split), m)
    BY <1>3, <1>7, <2>1, LeafFits
  <2> QED
    BY <1>2, <1>9, <2>2 DEF found
<1>10. CASE ~Damaged(u) /\ Oversized(u.first, u.last) /\ inner # Nil
  <2>1. inner \in TreeNodes /\ Precede(u.context, inner.first)
    BY <1>4, <1>10, WidestFits DEF inner
  <2> DEFINE d == u.depth + 1
             b == u.last
             s == u.context
  <2>2. d \in Nat /\ b \in Nat /\ s \in Seq(Symbols) /\ Sorted(s) /\ Precede(s, inner.first)
    BY <1>4, <1>5, <2>1
  <2> HIDE DEF d, b, s
  <2>3. /\ Node(inner, start, b, d, s) \in NodeItems /\ Node(inner, start, b, d, s).first = start
        /\ Node(inner, start, b, d, s).last = b
    BY <1>7, <2>1, <2>2, NodeMade
  <2>4. z \in NodeItems /\ z.first = start /\ z.last = u.last
    BY <2>3 DEF d, b, s, z
  <2>5. z.first <= z.last /\ u.last + 1 = z.last + 1
    BY <1>7, <2>4
  <2>6. Plans(found, <<z>> \o t, <<>>, before, m)
    BY <1>3, <1>7, <2>4, <2>5, PlansFrom
  <2> QED
    BY <1>2, <1>10, <2>6 DEF found
<1>11. CASE ~Damaged(u) /\ ~Oversized(u.first, u.last) /\ pending # <<>> /\ FitsTarget(pending[1].first, u.last)
  <2>1. work' = t /\ pending' = Grown(pending, u.last, own) /\ chunks' = chunks
    BY <1>2, <1>11
  <2>2. pending = <<pending[1]>> /\ pending[1] \in Chunks(found) /\ pending[1].ancestry = u.context
    BY <1>3, <1>4, <1>11
  <2>3. PICK y \in Chunks(found) : /\ Grown(pending, u.last, own) = <<y>> /\ y.first = pending[1].first /\ y.last = u.last
                                   /\ y.ancestry = pending[1].ancestry
    <3> DEFINE p == pending
               l == u.last
    <3>1. p = <<p[1]>> /\ p[1] \in Chunks(found) /\ l \in Nat /\ (own # Nil => Precede(p[1].ancestry, own.first))
      BY <1>4, <1>6, <2>2
    <3> HIDE DEF p, l
    <3>2. \E y \in Chunks(found) : /\ Grown(p, l, own) = <<y>>
                                   /\ y.first = p[1].first /\ y.last = l /\ y.ancestry = p[1].ancestry
      BY <1>6, <3>1, PendingGrows
    <3> QED
      BY <3>2 DEF p, l
  <2>4. /\ Tiles(chunks, {}, 1, y.first) /\ y.first <= y.last /\ Tiles(t, {EndMark}, y.last + 1, m)
        /\ (Head(t) # EndMark => y.ancestry = Around(Head(t)))
    <3>1. pending[1].first \in Nat /\ pending[1].last \in Nat
      BY <2>2 DEF Chunks, ChunkRecords
    <3> QED
      BY <1>3, <1>4, <1>11, <2>3, <3>1
  <2>5. Plans(found, t, <<y>>, chunks, m)
    BY <1>3, <2>4, PlansFrom
  <2> QED
    BY <2>1, <2>3, <2>5 DEF found
<1>12. CASE ~Damaged(u) /\ ~Oversized(u.first, u.last) /\ ~(pending # <<>> /\ FitsTarget(pending[1].first, u.last))
  <2>1. work' = t /\ pending' = <<fresh>> /\ chunks' = all
    BY <1>2, <1>12
  <2>2. fresh \in Chunks(found) /\ fresh.first = u.first /\ fresh.last = u.last /\ fresh.ancestry = u.context
    <3> DEFINE a == u.first
               b == u.last
               s == u.context
    <3>1. a \in Nat /\ b \in Nat /\ s \in Seq(Symbols) /\ Sorted(s) /\ (own # Nil => Precede(s, own.first))
      BY <1>4, <1>5, <1>6
    <3> HIDE DEF a, b, s
    <3>2. /\ Chunk(a, b, s, own) \in Chunks(found) /\ Chunk(a, b, s, own).first = a /\ Chunk(a, b, s, own).last = b
          /\ Chunk(a, b, s, own).ancestry = s
      BY <1>6, <3>1, ChunkIs
    <3> QED
      BY <3>2 DEF a, b, s, fresh
  <2>3. /\ Tiles(all, {}, 1, fresh.first) /\ fresh.first <= fresh.last /\ Tiles(t, {EndMark}, fresh.last + 1, m)
        /\ (Head(t) # EndMark => fresh.ancestry = Around(Head(t)))
    BY <1>3, <1>4, <2>2
  <2>4. Plans(found, t, <<fresh>>, all, m)
    BY <1>3, <2>2, <2>3, PlansFrom
  <2> QED
    BY <2>1, <2>4 DEF found
<1> QED
  BY <1>8, <1>9, <1>10, <1>11, <1>12

-----------------------------------------------------------------------------
(* Fragments.                                                              *)

BlankLines == {l \in Lines : file.blank[l]}

\* The ranges that keep to the limits as one text, and those that are cut.
Within == {r \in Nat \X Nat : /\ 1 <= r[1] /\ r[1] <= r[2] /\ r[2] <= LineCount
                              /\ TokenCount(r[1], r[2]) <= MaxTokens /\ RangeBytes(r[1], r[2]) <= MaxBytes
                              /\ r[2] - r[1] + 1 <= MaxLines}
BigRanges == {r \in Nat \X Nat : Oversized(r[1], r[2])}

\* Where windows end.
WindowEnds == [r \in Nat \X Nat |-> WindowEnd(r[1], r[2])]
LineWindowEnds   == [l \in Nat |-> LineWindowEnd(l)]

\* Fragments keep to the limits and overlap as they may.
OutFits(o, within) ==
  /\ \E S : o \in Seq(S)
  /\ \A i \in 1 .. Len(o) : <<o[i].first, o[i].last>> \in within
  /\ \A i \in 2 .. Len(o) : /\ o[i].first > o[i - 1].first /\ o[i].last >= o[i - 1].last
                            /\ o[i].first > o[i - 1].last - OverlapLines

\* The lines up to l, not l itself, are in a fragment or blank.
CoversTo(o, blank, l) == \A x \in 1 .. l - 1 : x \in blank \/ \E i \in 1 .. Len(o) : x \in o[i].first .. o[i].last

\* The last fragment starts before l, overlaps it as it may and reaches no further than `reach`.
Ends(o, l, reach) ==
  Len(o) > 0 => /\ o[Len(o)].first < l /\ o[Len(o)].last - OverlapLines < l /\ o[Len(o)].last <= reach

LEMMA LimitsAre ==
  /\ TargetTokens \in Nat /\ MaxTokens \in Nat /\ MaxBytes \in Nat /\ TargetLines \in Nat /\ MaxLines \in Nat
  /\ TargetTokens >= 1 /\ TargetLines >= 1 /\ MaxLines >= 1
  /\ TargetTokens <= MaxTokens /\ TargetLines <= MaxLines /\ OverlapLines \in Nat
BY LimitsAssumption

\* A fragment f of the lines l to e goes on where the last lines were left, unless it is
\* blank, and the next one goes on at m.
GoesOn(o, v, f, blank, l, e, m, reach, up) ==
  /\ f.first = l /\ f.last = e /\ (v = Append(o, f) \/ (v = o /\ l .. e \subseteq blank))
  /\ l <= e /\ reach <= e /\ l < m /\ m <= e + 1 /\ e - OverlapLines < m /\ e <= up

LEMMA Emitted ==
  ASSUME NEW within \in SUBSET (Nat \X Nat), NEW blank, NEW o, NEW v, NEW f, NEW l \in Nat, NEW e \in Nat, NEW m \in Nat,
         NEW reach \in Int, NEW up \in Int,
         OutFits(o, within), CoversTo(o, blank, l), Ends(o, l, reach), <<l, e>> \in within,
         GoesOn(o, v, f, blank, l, e, m, reach, up)
  PROVE  OutFits(v, within) /\ CoversTo(v, blank, m) /\ Ends(v, m, up)
<1> DEFINE n == Len(o)
<1>0. /\ f.first = l /\ f.last = e /\ (v = Append(o, f) \/ (v = o /\ l .. e \subseteq blank))
      /\ l <= e /\ reach <= e /\ l < m /\ m <= e + 1 /\ e - OverlapLines < m /\ e <= up
  BY DEF GoesOn
<1>1. PICK S : o \in Seq(S)
  BY DEF OutFits
<1>2. n \in Nat /\ OverlapLines \in Nat
  BY <1>1, LenProperties, LimitsAre
<1>3. \A i \in 1 .. n : o[i].first \in Nat /\ o[i].last \in Nat
  <2>1. \A i \in 1 .. n : <<o[i].first, o[i].last>> \in Nat \X Nat
    BY DEF OutFits
  <2> QED
    BY <2>1
<1>4. \A x \in 1 .. m - 1 : x \in 1 .. l - 1 \/ x \in l .. e
  BY <1>0
<1>5. CASE v = o /\ l .. e \subseteq blank
  <2>1. CoversTo(o, blank, m)
    BY <1>4, <1>5 DEF CoversTo
  <2>2. Ends(o, m, up)
    <3> SUFFICES ASSUME n > 0 PROVE o[n].first < m /\ o[n].last - OverlapLines < m /\ o[n].last <= up
      BY DEF Ends
    <3>1. o[n].first \in Nat /\ o[n].last \in Nat
      BY <1>2, <1>3
    <3>2. o[n].first < l /\ o[n].last - OverlapLines < l /\ o[n].last <= reach
      BY DEF Ends
    <3> QED
      BY <1>0, <1>2, <3>1, <3>2
  <2> QED
    BY <1>5, <2>1, <2>2
<1>6. CASE v = Append(o, f)
  <2> DEFINE T == S \cup {f}
  <2>1. o \in Seq(T) /\ f \in T
    BY <1>1, SeqMonotonic
  <2> HIDE DEF T
  <2>2. /\ v \in Seq(T) /\ Len(v) = n + 1 /\ v[n + 1] = f /\ \A i \in 1 .. n : v[i] = o[i]
    BY <1>6, <2>1, AppendProperties
  <2> HIDE DEF n
  <2>3. \A i \in 1 .. n + 1 : i \in 1 .. n \/ i = n + 1
    BY <1>2
  <2>4. \A i \in 1 .. n + 1 : <<v[i].first, v[i].last>> \in within
    BY <1>0, <2>2, <2>3 DEF OutFits, n
  <2>5. \A i \in 2 .. n + 1 : /\ v[i].first > v[i - 1].first /\ v[i].last >= v[i - 1].last
                              /\ v[i].first > v[i - 1].last - OverlapLines
    <3> TAKE i \in 2 .. n + 1
    <3>1. CASE i = n + 1
      <4>1. n > 0 /\ i - 1 = n /\ n \in 1 .. n
        BY <1>2, <3>1
      <4>2. o[n].first < l /\ o[n].last - OverlapLines < l /\ o[n].last <= reach
        BY <4>1 DEF Ends, n
      <4>3. v[i] = f /\ v[i - 1] = o[n] /\ o[n].first \in Nat /\ o[n].last \in Nat
        BY <1>3, <2>2, <3>1, <4>1
      <4>4. f.first = l /\ f.last = e /\ reach <= e
        BY <1>0
      <4>5. v[i].first = l /\ v[i].last = e /\ v[i - 1].first = o[n].first /\ v[i - 1].last = o[n].last
        BY <4>3, <4>4
      <4> QED
        BY <1>2, <4>2, <4>3, <4>4, <4>5
    <3>2. CASE i # n + 1
      <4>1. i \in 2 .. n /\ i \in 1 .. n /\ i - 1 \in 1 .. n
        BY <1>2, <3>2
      <4>2. v[i] = o[i] /\ v[i - 1] = o[i - 1]
        BY <2>2, <4>1
      <4> QED
        BY <4>1, <4>2 DEF OutFits, n
    <3> QED
      BY <3>1, <3>2
  <2>6. OutFits(v, within)
    BY <2>2, <2>4, <2>5 DEF OutFits
  <2>7. CoversTo(v, blank, m)
    <3> SUFFICES ASSUME NEW x \in 1 .. m - 1 PROVE x \in blank \/ \E i \in 1 .. n + 1 : x \in v[i].first .. v[i].last
      BY <2>2 DEF CoversTo
    <3>1. CASE x \in 1 .. l - 1
      <4>1. x \in blank \/ \E i \in 1 .. n : x \in o[i].first .. o[i].last
        BY <3>1 DEF CoversTo, n
      <4>2. \A i \in 1 .. n : i \in 1 .. n + 1 /\ v[i] = o[i]
        BY <1>2, <2>2
      <4> QED
        BY <4>1, <4>2
    <3>2. CASE x \in l .. e
      <4>1. n + 1 \in 1 .. n + 1 /\ x \in v[n + 1].first .. v[n + 1].last
        BY <1>0, <1>2, <2>2, <3>2
      <4> QED
        BY <4>1
    <3> QED
      BY <1>4, <3>1, <3>2
  <2>8. Ends(v, m, up)
    BY <1>0, <1>2, <2>2 DEF Ends
  <2> QED
    BY <2>6, <2>7, <2>8
<1> QED
  BY <1>0, <1>5, <1>6

\* The window that starts at a line which is not too long keeps to the limits.
LEMMA WindowKeeps ==
  ASSUME file \in Sources, NEW l \in Nat, NEW b \in Nat, 1 <= l, l <= b, b <= LineCount
  PROVE  /\ WindowEnd(l, b) \in l .. b /\ WindowEnds[<<l, b>>] = WindowEnd(l, b)
         /\ ~LongAt(l) => <<l, WindowEnd(l, b)>> \in Within
         /\ \A m \in l .. WindowEnd(l, b) : WindowEnd(l, b) <= WindowEnd(m, b)
<1> DEFINE T(x) == {e \in x .. b : \/ e = x
                                   \/ /\ e - x + 1 <= TargetLines
                                      /\ RangeTokens(x, e) <= MaxTokens
                                      /\ RangeBytes(x, e) <= MaxBytes}
<1>1. \A x \in l .. b : WindowEnd(x, b) \in T(x) /\ \A e \in T(x) : e <= WindowEnd(x, b)
  <2> TAKE x \in l .. b
  <2>1. x \in T(x) /\ \A e \in T(x) : e \in Int /\ e <= b
    OBVIOUS
  <2> DEFINE U == T(x)
  <2>2. U # {} /\ \A e \in U : e \in Int /\ e <= b
    BY <2>1
  <2>3. WindowEnd(x, b) = Max(U)
    BY DEF WindowEnd
  <2> HIDE DEF U
  <2>4. Max(U) \in U /\ \A e \in U : e <= Max(U)
    BY <2>2, MaxIs
  <2> QED
    BY <2>3, <2>4 DEF U
<1> DEFINE end == WindowEnd(l, b)
<1>2. end \in T(l)
  BY <1>1
<1>3. end \in l .. b
  BY <1>2
<1> HIDE DEF end
<1>4. WindowEnds[<<l, b>>] = WindowEnd(l, b)
  BY DEF WindowEnds
<1>5. LineCount \in Nat /\ l \in Lines /\ file.tokens[l] \in Nat /\ file.bytes[l] \in Nat
  BY FileIs
<1>6. ASSUME ~LongAt(l) PROVE <<l, end>> \in Within
  <2>1. TokenCount(l, end) <= MaxTokens /\ RangeBytes(l, end) <= MaxBytes /\ end - l + 1 <= MaxLines
    <3>1. CASE end = l
      <4>1. file.bytes[l] <= MaxBytes /\ file.tokens[l] <= MaxTokens
        BY <1>5, <1>6, LimitsAre DEF LongAt
      <4> QED
        BY <1>5, <3>1, <4>1, LineIs, LimitsAre
    <3>2. CASE end # l
      <4>1. end - l + 1 <= TargetLines /\ RangeTokens(l, end) <= MaxTokens /\ RangeBytes(l, end) <= MaxBytes
        BY <1>2, <3>2
      <4>2. end \in Nat /\ end <= LineCount
        BY <1>3, <1>5
      <4>3. TokenCount(l, end) \in Int /\ TokenCount(l, end) <= RangeTokens(l, end) /\ RangeTokens(l, end) \in Nat
        BY <4>2, RangesAre
      <4> QED
        BY <1>3, <4>1, <4>3, LimitsAre
    <3> QED
      BY <3>1, <3>2
  <2>2. <<l, end>> \in Nat \X Nat /\ l <= end /\ end <= LineCount
    BY <1>3, <1>5
  <2> QED
    BY <2>1, <2>2 DEF Within
<1>7. ASSUME NEW m \in l .. end PROVE end <= WindowEnd(m, b)
  <2>1. m \in l .. b /\ m \in Nat /\ end \in m .. b /\ end \in Nat /\ end <= LineCount
    BY <1>3, <1>5
  <2>2. CASE end = l
    BY <1>1, <2>1, <2>2
  <2>3. CASE end # l
    <3>1. end - l + 1 <= TargetLines /\ RangeTokens(l, end) <= MaxTokens /\ RangeBytes(l, end) <= MaxBytes
      BY <1>2, <2>3
    <3>2. RangeTokens(m, end) <= RangeTokens(l, end) /\ RangeBytes(m, end) <= RangeBytes(l, end)
          /\ RangeTokens(l, end) \in Nat /\ RangeBytes(l, end) \in Nat
      <4>1. \A x \in l .. end : \A y \in x .. end : /\ RangeTokens(x, y) <= RangeTokens(l, end)
                                                    /\ RangeBytes(x, y) <= RangeBytes(l, end)
        BY <2>1, RangesAre
      <4>2. RangeTokens(l, end) \in Nat /\ RangeBytes(l, end) \in Nat
        BY <2>1, RangesAre
      <4>3. m \in l .. end /\ end \in m .. end
        BY <2>1
      <4> QED
        BY <4>1, <4>2, <4>3
    <3>3. RangeTokens(m, end) \in Nat /\ RangeBytes(m, end) \in Nat
      BY <2>1, RangesAre
    <3>4. end - m + 1 <= TargetLines /\ RangeTokens(m, end) <= MaxTokens /\ RangeBytes(m, end) <= MaxBytes
      BY <2>1, <3>1, <3>2, <3>3, LimitsAre
    <3>5. end \in T(m)
      BY <2>1, <3>4
    <3> QED
      BY <1>1, <2>1, <3>5
  <2> QED
    BY <2>2, <2>3
<1> QED
  BY <1>3, <1>4, <1>6, <1>7 DEF end

\* A range that is not cut keeps to the limits.
LEMMA RangeKeeps ==
  ASSUME file \in Sources, NEW a \in Nat, NEW b \in Nat, 1 <= a, a <= b, b <= LineCount, ~Oversized(a, b)
  PROVE  <<a, b>> \in Within
<1>1. RangeTokens(a, b) \in Nat /\ TokenCount(a, b) \in Int /\ TokenCount(a, b) <= RangeTokens(a, b)
  BY RangesAre
<1>2. RangeBytes(a, b) \in Nat
  BY RangesAre
<1> QED
  BY <1>1, <1>2, LimitsAre DEF Within, Oversized

\* So does the window of lines that starts at a line which is not too long.
LEMMA LineWindowKeeps ==
  ASSUME file \in Sources, NEW l \in Nat, 1 <= l, l <= LineCount
  PROVE  /\ LineWindowEnd(l) \in l .. LineCount /\ LineWindowEnds[l] = LineWindowEnd(l)
         /\ ~LongAt(l) => <<l, LineWindowEnd(l)>> \in Within
         /\ \A m \in l .. LineWindowEnd(l) : LineWindowEnd(l) <= LineWindowEnd(m)
<1> DEFINE n == LineCount
           T(x) == {e \in x .. LineCount :
                      \/ e = LineCount
                      \/ e - x + 1 >= TargetLines
                      \/ RangeTokens(x, e) >= TargetTokens /\ TokenCount(x, e) >= TargetTokens
                      \/ e - x + 2 > MaxLines
                      \/ RangeBytes(x, e + 1) > MaxBytes
                      \/ RangeTokens(x, e + 1) > MaxTokens /\ TokenCount(x, e + 1) > MaxTokens}
           end == LineWindowEnd(l)
<1>1. n \in Nat /\ l \in Lines /\ file.tokens[l] \in Nat /\ file.bytes[l] \in Nat
  BY FileIs
<1>2. ASSUME NEW x \in l .. n PROVE LineWindowEnd(x) \in T(x) /\ \A e \in T(x) : LineWindowEnd(x) <= e
  <2>1. x \in Nat /\ n \in x .. n
    BY <1>1
  <2>2. n \in T(x) /\ T(x) \subseteq Nat
    BY <2>1
  <2> DEFINE U == T(x)
  <2>3. LineWindowEnd(x) = Min(U)
    BY DEF LineWindowEnd
  <2>4. U # {} /\ U \subseteq Nat
    BY <2>2
  <2> HIDE DEF U
  <2>5. Min(U) \in U /\ \A e \in U : Min(U) <= e
    BY <2>4, MinIs
  <2> QED
    BY <2>3, <2>5 DEF U
<1>3. l \in l .. n
  BY <1>1
<1>4. end \in T(l) /\ \A e \in T(l) : end <= e
  BY <1>2, <1>3
<1>5. end \in l .. n /\ end \in Nat
  BY <1>1, <1>4
<1> HIDE DEF end
<1>6. LineWindowEnds[l] = LineWindowEnd(l)
  BY DEF LineWindowEnds
<1>7. ASSUME ~LongAt(l) PROVE <<l, end>> \in Within
  <2>1. TokenCount(l, end) <= MaxTokens /\ RangeBytes(l, end) <= MaxBytes /\ end - l + 1 <= MaxLines
    <3>1. CASE end = l
      <4>1. file.bytes[l] <= MaxBytes /\ file.tokens[l] <= MaxTokens
        BY <1>1, <1>7, LimitsAre DEF LongAt
      <4> QED
        BY <1>1, <3>1, <4>1, LineIs, LimitsAre
    <3>2. CASE end # l
      <4> DEFINE e == end - 1
      <4>1. e \in l .. n /\ e + 1 = end /\ ~(end <= e) /\ e - l + 2 = end - l + 1
        BY <1>1, <1>5, <3>2
      <4>2. e \notin T(l)
        BY <1>4, <4>1
      <4> HIDE DEF e
      <4>3. /\ ~(e - l + 2 > MaxLines) /\ ~(RangeBytes(l, end) > MaxBytes)
            /\ ~(RangeTokens(l, end) > MaxTokens /\ TokenCount(l, end) > MaxTokens)
        BY <4>1, <4>2
      <4>4. RangeBytes(l, end) \in Nat /\ RangeTokens(l, end) \in Nat
        BY <1>1, <1>5, RangesAre
      <4>5. TokenCount(l, end) \in Int /\ TokenCount(l, end) <= RangeTokens(l, end)
        BY <1>1, <1>5, RangesAre
      <4> QED
        BY <1>1, <1>5, <4>1, <4>3, <4>4, <4>5, LimitsAre
    <3> QED
      BY <3>1, <3>2
  <2>2. <<l, end>> \in Nat \X Nat /\ l <= end /\ end <= LineCount
    BY <1>1, <1>5
  <2> QED
    BY <2>1, <2>2 DEF Within
<1>8. ASSUME NEW m \in l .. end PROVE end <= LineWindowEnd(m)
  <2> DEFINE g == LineWindowEnd(m)
  <2>1. m \in l .. n /\ m \in Nat
    BY <1>1, <1>5
  <2>2. g \in T(m)
    BY <1>2, <2>1
  <2>3. g \in m .. n /\ g \in Nat
    BY <1>1, <2>1, <2>2
  <2> HIDE DEF g
  <2>4. CASE g = n
    BY <1>1, <1>5, <2>4 DEF g
  <2>5. CASE g # n
    <3> DEFINE h == g + 1
    <3>1. h \in Nat /\ h <= n /\ g <= n /\ 1 <= l /\ l <= m /\ m <= g /\ l \in l .. h /\ m \in l .. g /\ m \in l .. h
          /\ g \in m .. g /\ h \in m .. h /\ 1 <= m
      BY <1>1, <2>1, <2>3, <2>5
    <3>2. \/ g - m + 1 >= TargetLines
          \/ RangeTokens(m, g) >= TargetTokens /\ TokenCount(m, g) >= TargetTokens
          \/ g - m + 2 > MaxLines
          \/ RangeBytes(m, h) > MaxBytes
          \/ RangeTokens(m, h) > MaxTokens /\ TokenCount(m, h) > MaxTokens
      BY <2>2, <2>5
    <3> HIDE DEF h
    <3>3. RangeTokens(m, g) <= RangeTokens(l, g) /\ RangeTokens(m, h) <= RangeTokens(l, h) /\ RangeBytes(m, h) <= RangeBytes(l, h)
      <4>1. \A x \in l .. g : \A y \in x .. g : RangeTokens(x, y) <= RangeTokens(l, g)
        BY <2>3, <3>1, RangesAre
      <4>2. \A x \in l .. h : \A y \in x .. h : RangeTokens(x, y) <= RangeTokens(l, h) /\ RangeBytes(x, y) <= RangeBytes(l, h)
        BY <3>1, RangesAre
      <4> QED
        BY <3>1, <4>1, <4>2
    <3>4. TokenCount(m, g) <= TokenCount(l, g)
      BY <2>3, <3>1, LastLinesCount
    <3>5. TokenCount(m, h) <= TokenCount(l, h)
      BY <3>1, LastLinesCount
    <3>6. /\ RangeTokens(l, g) \in Nat /\ TokenCount(l, g) \in Int /\ RangeTokens(m, g) \in Nat /\ TokenCount(m, g) \in Int
      BY <2>1, <2>3, <3>1, RangesAre
    <3>7. /\ RangeTokens(l, h) \in Nat /\ TokenCount(l, h) \in Int /\ RangeTokens(m, h) \in Nat /\ TokenCount(m, h) \in Int
          /\ RangeBytes(l, h) \in Nat /\ RangeBytes(m, h) \in Nat
      BY <2>1, <3>1, RangesAre
    <3>8. \/ g - l + 1 >= TargetLines
          \/ RangeTokens(l, g) >= TargetTokens /\ TokenCount(l, g) >= TargetTokens
          \/ g - l + 2 > MaxLines
          \/ RangeBytes(l, h) > MaxBytes
          \/ RangeTokens(l, h) > MaxTokens /\ TokenCount(l, h) > MaxTokens
      BY <2>1, <2>3, <3>1, <3>2, <3>3, <3>4, <3>5, <3>6, <3>7, LimitsAre
    <3>9. g \in T(l)
      BY <2>1, <2>3, <3>1, <3>8 DEF h
    <3> QED
      BY <1>4, <3>9 DEF g
  <2> QED
    BY <2>4, <2>5
<1> QED
  BY <1>5, <1>6, <1>7, <1>8 DEF end

-----------------------------------------------------------------------------
(* Labels.                                                                 *)

\* A label is that of the range a fragment was cut from.
Tells(f, policy) ==
  LET range == IF f.declaration = Nil THEN f ELSE f.declaration
  IN  /\ range.first <= f.first /\ f.last <= range.last
      /\ IF policy = "context" THEN \A i \in 2 .. Len(f.label) : f.label[i - 1] <= f.label[i]
         ELSE f.label # <<>> => \E line \in range.first .. range.last : f.label = <<line>>

\* No label names a line past l, nor a line another one names.
Labelled(o, policy, l) ==
  \A i \in 1 .. Len(o) :
    /\ Tells(o[i], policy)
    /\ policy # "context" /\ o[i].label # <<>> =>
         /\ \E line \in Nat : line < l /\ o[i].label = <<line>>
         /\ \A j \in 1 .. i - 1 : o[j].label # o[i].label

\* The symbols that name a range start in order.
LEMMA NamesAre ==
  ASSUME NEW c \in Chunks(Nil)
  PROVE  /\ SymbolNames(c) \in Seq(Nat)
         /\ \A i, j \in 1 .. Len(SymbolNames(c)) : i < j => SymbolNames(c)[i] <= SymbolNames(c)[j]
<1> DEFINE s == c.ancestry
           x == c.own
           v == s \o (IF x = Nil THEN <<>> ELSE <<x>>)
<1>1. s \in Seq(Symbols) /\ Sorted(s) /\ x \in Symbols \cup {Nil} /\ (x # Nil => Precede(s, x.first))
  BY DEF Chunks, ChunkRecords, Owns
<1>2. SymbolNames(c) = [i \in DOMAIN v |-> v[i].first]
  BY DEF SymbolNames
<1>3. v \in Seq(Symbols) /\ Sorted(v)
  <2> HIDE DEF s, x
  <2>1. CASE x = Nil
    <3>1. s \o <<>> = s
      BY ConcatEmptySeq
    <3> QED
      BY <1>1, <2>1, <3>1
  <2>2. CASE x # Nil
    <3>1. x \in Symbols /\ Precede(s, x.first)
      BY <1>1, <2>2
    <3>2. s \o <<x>> \in Seq(Symbols) /\ Sorted(s \o <<x>>)
      BY <1>1, <3>1, SymbolAdded
    <3> QED
      BY <2>2, <3>2
  <2> QED
    BY <2>1, <2>2
<1> HIDE DEF v
<1> DEFINE m == Len(v)
           names == SymbolNames(c)
<1>4. m \in Nat /\ DOMAIN v = 1 .. m /\ \A i \in 1 .. m : v[i].first \in Nat
  <2>1. m \in Nat /\ DOMAIN v = 1 .. m
    BY <1>3, LenProperties
  <2>2. \A i \in 1 .. m : v[i] \in Symbols
    BY <1>3, ElementOfSeq
  <2> QED
    BY <2>1, <2>2 DEF Symbols
<1>5. \A i, j \in 1 .. m : i < j => v[i].first <= v[j].first
  BY <1>3 DEF Sorted
<1> HIDE DEF m
<1>6. names = [i \in 1 .. m |-> v[i].first]
  BY <1>2, <1>4
<1>7. names \in [1 .. m -> Nat] /\ \A i \in 1 .. m : names[i] = v[i].first
  BY <1>4, <1>6
<1> HIDE DEF names
<1>8. names \in Seq(Nat) /\ Len(names) = m
  BY <1>4, <1>7
<1> QED
  BY <1>5, <1>7, <1>8 DEF names

\* The label of a range names lines in order, or one of its own.
LEMMA LabelIs ==
  ASSUME NEW c \in Chunks(Nil), NEW policy, policy \in {"local", "context"}, policy = file.policy
  PROVE  /\ policy = "context" => \A i \in 2 .. Len(Label(c)) : Label(c)[i - 1] <= Label(c)[i]
         /\ policy # "context" /\ Label(c) # <<>> => \E line \in c.first .. c.last : Label(c) = <<line>>
<1> DEFINE names == SymbolNames(c)
<1>1. names \in Seq(Nat) /\ \A i, j \in 1 .. Len(names) : i < j => names[i] <= names[j]
  BY NamesAre
<1> HIDE DEF names
<1>2. ASSUME policy = "context" PROVE \A i \in 2 .. Len(Label(c)) : Label(c)[i - 1] <= Label(c)[i]
  <2>1. Label(c) = names
    BY <1>2 DEF Label, names
  <2>2. \A i \in 2 .. Len(names) : i - 1 \in 1 .. Len(names) /\ i \in 1 .. Len(names) /\ i - 1 < i
    BY <1>1, LenProperties
  <2> QED
    BY <1>1, <2>1, <2>2
<1>3. ASSUME policy # "context", Label(c) # <<>> PROVE \E line \in c.first .. c.last : Label(c) = <<line>>
  <2> DEFINE inside == {n \in DOMAIN names : names[n] \in c.first .. c.last}
  <2>1. Label(c) = IF inside = {} THEN <<>> ELSE <<names[Min(inside)]>>
    BY <1>3 DEF Label, LocalLabel, names
  <2>2. inside # {} /\ Label(c) = <<names[Min(inside)]>>
    BY <1>3, <2>1
  <2>3. inside \subseteq Nat
    BY <1>1, LenProperties
  <2>4. Min(inside) \in inside
    <3> HIDE DEF inside
    <3> QED
      BY <2>2, <2>3, MinIs
  <2>5. names[Min(inside)] \in c.first .. c.last
    BY <2>4
  <2> QED
    BY <2>2, <2>5
<1> QED
  BY <1>2, <1>3

\* A fragment more, with a label that names a line from l on and before m, or none.
LEMMA LabelAdded ==
  ASSUME NEW o, NEW S, o \in Seq(S), NEW v, NEW f, NEW policy, NEW l \in Nat, NEW m \in Nat, l <= m,
         Labelled(o, policy, l), Tells(f, policy), v = o \/ v = Append(o, f),
         policy # "context" /\ f.label # <<>> => \E line \in Nat : l <= line /\ line < m /\ f.label = <<line>>
  PROVE  Labelled(v, policy, m)
<1> DEFINE n == Len(o)
<1>1. n \in Nat
  BY LenProperties
<1>2. \A i \in 1 .. n :
        /\ Tells(o[i], policy)
        /\ policy # "context" /\ o[i].label # <<>> =>
             /\ \E line \in Nat : line < l /\ line < m /\ o[i].label = <<line>>
             /\ \A j \in 1 .. i - 1 : o[j].label # o[i].label
  BY DEF Labelled
<1>3. CASE v = o
  BY <1>2, <1>3 DEF Labelled
<1>4. CASE v = Append(o, f)
  <2> DEFINE T == S \cup {f}
  <2>1. o \in Seq(T) /\ f \in T
    BY SeqMonotonic
  <2> HIDE DEF T
  <2>2. Len(v) = n + 1 /\ v[n + 1] = f /\ \A i \in 1 .. n : v[i] = o[i]
    BY <1>4, <2>1, AppendProperties
  <2> HIDE DEF n
  <2>3. ASSUME NEW i \in 1 .. n + 1
        PROVE  /\ Tells(v[i], policy)
               /\ policy # "context" /\ v[i].label # <<>> =>
                    /\ \E line \in Nat : line < m /\ v[i].label = <<line>>
                    /\ \A j \in 1 .. i - 1 : v[j].label # v[i].label
    <3>1. CASE i \in 1 .. n
      <4>1. v[i] = o[i] /\ \A j \in 1 .. i - 1 : v[j] = o[j]
        <5>1. \A j \in 1 .. i - 1 : j \in 1 .. n
          BY <1>1, <3>1
        <5> QED
          BY <2>2, <3>1, <5>1
      <4> QED
        BY <1>2, <3>1, <4>1
    <3>2. CASE i = n + 1
      <4>1. v[i] = f /\ i - 1 = n
        BY <1>1, <2>2, <3>2
      <4>2. ASSUME policy # "context", f.label # <<>>, NEW j \in 1 .. n PROVE v[j].label # f.label
        <5>1. PICK line \in Nat : l <= line /\ f.label = <<line>>
          BY <4>2
        <5>2. CASE o[j].label = <<>>
          BY <2>2, <4>2, <5>2
        <5>3. CASE o[j].label # <<>>
          <6>1. PICK other \in Nat : other < l /\ o[j].label = <<other>>
            BY <1>2, <4>2, <5>3
          <6>2. <<line>>[1] = line /\ <<other>>[1] = other
            OBVIOUS
          <6> QED
            BY <2>2, <5>1, <6>1, <6>2
        <5> QED
          BY <5>2, <5>3
      <4> QED
        BY <4>1, <4>2
    <3> QED
      BY <1>1, <3>1, <3>2
  <2> QED
    BY <2>2, <2>3 DEF Labelled
<1> QED
  BY <1>3, <1>4

-----------------------------------------------------------------------------
(* What holds of chunking.                                                 *)

\* The ranges left to cut take the lines up to m, not m itself, and l is where the next window
\* starts: at the first line of the first range, unless that range is cut.
Emits(found, w, l, m, big) ==
  /\ w \in Seq(Chunks(found)) /\ l \in Nat /\ l >= 1
  /\ IF w = <<>> THEN l = m
     ELSE /\ Tiles(w, {}, Head(w).first, m) /\ Head(w).first >= 1 /\ l \in Head(w).first .. Head(w).last
          /\ l = Head(w).first \/ Head(w).windows \/ <<Head(w).first, Head(w).last>> \in big

\* How far the next window reaches at least, and the first line no label may name yet.
Reach(w, l, ends) == IF w = <<>> THEN l - 1 ELSE ends[<<l, Head(w).last>>]
Unnamed(w, l)     == IF w = <<>> THEN l ELSE IF l = Head(w).first THEN l ELSE Head(w).last + 1

StagesHold ==
  /\ file \in Sources /\ stage \in {"start", "plan", "windows", "emit", "done"} /\ cursor \in Nat /\ cursor >= 1
  /\ file.language = "javascript" => boundaries = Nil
  /\ stage \in {"plan", "emit"} /\ boundaries = Nil => file.language = "javascript"
  /\ stage = "start" => boundaries = Nil /\ work = <<>> /\ pending = <<>> /\ chunks = <<>>
  /\ stage \in {"start", "plan"} => cursor = 1 /\ out = <<>>
  /\ stage # "done" => refused = Nil

PlanHolds == stage = "plan" => Plans(boundaries, work, pending, chunks, LineCount + 1)

CutsHold ==
  stage = "emit" => /\ Emits(boundaries, work, cursor, LineCount + 1, BigRanges)
                    /\ CoversTo(out, BlankLines, cursor) /\ Ends(out, cursor, Reach(work, cursor, WindowEnds))

WindowsHold ==
  stage = "windows" => /\ cursor <= LineCount + 1 /\ CoversTo(out, BlankLines, cursor)
                       /\ Ends(out, cursor, IF cursor <= LineCount THEN LineWindowEnds[cursor] ELSE cursor - 1)

CoverHolds == stage = "done" /\ refused = Nil => CoversTo(out, BlankLines, LineCount + 1)

OutHolds ==
  /\ OutFits(out, Within)
  /\ boundaries = Nil => Labelled(out, file.policy, IF stage = "emit" THEN Unnamed(work, cursor) ELSE cursor)

\* The inductive invariant of a file that is cut into fragments.
ChunkingInv == StagesHold /\ PlanHolds /\ CutsHold /\ WindowsHold /\ CoverHolds /\ OutHolds

\* The file does not change, nor what is read from it.
LEMMA FileStays ==
  ASSUME file' = file
  PROVE  /\ LineCount' = LineCount /\ BlankLines' = BlankLines /\ Within' = Within /\ BigRanges' = BigRanges
         /\ WindowEnds' = WindowEnds /\ LineWindowEnds' = LineWindowEnds
BY DEF LineCount, Lines, BlankLines, Within, BigRanges, WindowEnds, LineWindowEnds, TokenCount, RangeTokens, RangeBytes,
       Oversized, WindowEnd, LineWindowEnd

\* With no fragment, nothing is missed and nothing said.
LEMMA NoFragments ==
  /\ \A w : OutFits(<<>>, w)
  /\ \A b : CoversTo(<<>>, b, 1)
  /\ \A l, reach : Ends(<<>>, l, reach)
  /\ \A p, l : Labelled(<<>>, p, l)
<1> DEFINE none == <<>>
<1>1. none \in Seq({}) /\ Len(none) = 0 /\ 1 .. 1 - 1 = {} /\ ~(0 > 0)
  OBVIOUS
<1>2. (\A i \in 1 .. Len(none) : FALSE) /\ (\A i \in 2 .. Len(none) : FALSE)
  BY <1>1
<1> HIDE DEF none
<1>3. \A w : OutFits(none, w)
  BY <1>1, <1>2 DEF OutFits
<1>4. \A b : CoversTo(none, b, 1)
  BY <1>1 DEF CoversTo
<1>5. \A l, reach : Ends(none, l, reach)
  BY <1>1 DEF Ends
<1>6. \A p, l : Labelled(none, p, l)
  BY <1>2 DEF Labelled
<1> QED
  BY <1>3, <1>4, <1>5, <1>6 DEF none

\* A line that is too long leaves no fragments.
LEMMA LineRefused ==
  ASSUME ChunkingInv, NEW line \in Nat, RefuseLine(line), UNCHANGED <<file, boundaries, cursor>>
  PROVE  ChunkingInv'
<1>1. stage' = "done" /\ out' = <<>> /\ refused' # Nil
  BY SourcesAssumption DEF RefuseLine
<1>2. StagesHold'
  BY <1>1 DEF ChunkingInv, StagesHold
<1>3. OutHolds'
  BY <1>1, NoFragments DEF OutHolds
<1> QED
  BY <1>1, <1>2, <1>3 DEF ChunkingInv, PlanHolds, CutsHold, WindowsHold, CoverHolds

\* So it is when the file is refused before it is parsed.
LEMMA LongLineKeeps ==
  ASSUME ChunkingInv, LongLine
  PROVE  ChunkingInv'
<1>1. OverBytes \subseteq Nat /\ OverBytes # {}
  BY FileIs DEF LongLine, OverBytes, ChunkingInv, StagesHold
<1>2. Min(OverBytes) \in Nat
  BY <1>1, MinIs
<1>3. RefuseLine(Min(OverBytes)) /\ UNCHANGED <<file, boundaries, cursor>>
  BY DEF LongLine
<1> QED
  BY <1>2, <1>3, LineRefused

\* Ranges that take the lines from a on.
LEMMA EmitsFrom ==
  ASSUME NEW found, NEW w \in Seq(Chunks(found)), NEW a \in Nat, a >= 1, NEW m, NEW big, Tiles(w, {}, a, m)
  PROVE  Emits(found, w, a, m, big)
<1>1. CASE w = <<>>
  BY <1>1, NoneTiles DEF Emits
<1>2. CASE w # <<>>
  <2> DEFINE x == Head(w)
             none == {}
  <2>1. w \in Seq(Chunks(found)) /\ w # <<>> /\ Tiles(w, none, a, m) /\ x \notin none
    BY <1>2
  <2> HIDE DEF none
  <2>2. x.first = a /\ a <= x.last /\ x.first \in Int /\ x.last \in Int
    BY <2>1, TilesTail
  <2>3. a \in x.first .. x.last /\ Tiles(w, {}, x.first, m)
    BY <2>2
  <2> QED
    BY <1>2, <2>2, <2>3 DEF Emits
<1> QED
  BY <1>1, <1>2

\* The range that is cut next.
LEMMA NextRange ==
  ASSUME NEW found, NEW w, NEW l, NEW m, NEW big, Emits(found, w, l, m, big), w # <<>>
  PROVE  /\ Head(w) \in Chunks(found) /\ Head(w).first \in Nat /\ Head(w).last \in Nat /\ Head(w).first >= 1
         /\ l \in Head(w).first .. Head(w).last /\ m \in Int /\ Head(w).last < m
         /\ Tail(w) \in Seq(Chunks(found)) /\ Emits(found, Tail(w), Head(w).last + 1, m, big)
<1> DEFINE x == Head(w)
           t == Tail(w)
           none == {}
           S == Chunks(found)
<1>1. /\ w \in Seq(S) /\ Tiles(w, none, x.first, m) /\ x.first >= 1 /\ l \in x.first .. x.last /\ x \notin none
  BY DEF Emits
<1>2. x \in S /\ t \in Seq(S)
  <2> HIDE DEF S
  <2> QED
    BY <1>1, HeadThenTail
<1>3. x.first \in Nat /\ x.last \in Nat
  BY <1>2 DEF Chunks, ChunkRecords
<1> HIDE DEF none, S
<1>4. Tiles(t, none, x.last + 1, m) /\ x.first <= x.last
  BY <1>1, TilesTail
<1> DEFINE a == x.last + 1
<1>5. a \in Nat /\ a >= 1
  BY <1>3
<1> HIDE DEF a, x, t
<1>6. Tiles(t, none, a, m) /\ t \in Seq(S)
  BY <1>2, <1>4 DEF a
<1>7. Emits(found, t, a, m, big)
  BY <1>5, <1>6, EmitsFrom DEF none, S
<1>8. a <= m /\ m \in Int
  BY <1>6, TilesRise
<1> QED
  BY <1>1, <1>2, <1>3, <1>5, <1>7, <1>8 DEF a, x, t, S

\* The next window reaches the line before it at least, and no label tells of it yet.
LEMMA ReachIs ==
  ASSUME file \in Sources, NEW found, NEW w, NEW l, Emits(found, w, l, LineCount + 1, BigRanges)
  PROVE  /\ Reach(w, l, WindowEnds) \in Int /\ l - 1 <= Reach(w, l, WindowEnds)
         /\ Unnamed(w, l) \in Nat /\ l <= Unnamed(w, l)
<1>1. LineCount \in Nat /\ l \in Nat /\ l >= 1
  BY FileIs DEF Emits
<1>2. CASE w = <<>>
  BY <1>1, <1>2 DEF Reach, Unnamed
<1>3. CASE w # <<>>
  <2> DEFINE b == Head(w).last
  <2>1. b \in Nat /\ Head(w).first \in Nat /\ l \in Head(w).first .. b /\ b < LineCount + 1
    BY <1>3, NextRange
  <2> HIDE DEF b
  <2>2. l <= b /\ b <= LineCount
    BY <1>1, <2>1
  <2>3. WindowEnds[<<l, b>>] \in l .. b
    BY <1>1, <2>1, <2>2, WindowKeeps
  <2>4. Reach(w, l, WindowEnds) = WindowEnds[<<l, b>>]
    BY <1>3 DEF Reach, b
  <2>5. Unnamed(w, l) = IF l = Head(w).first THEN l ELSE b + 1
    BY <1>3 DEF Unnamed, b
  <2> QED
    BY <1>1, <2>1, <2>2, <2>3, <2>4, <2>5
<1> QED
  BY <1>2, <1>3

\* A fragment of blank lines only is left out.
LEMMA EmitIs ==
  ASSUME file \in Sources, NEW f, NEW l \in Nat, NEW e \in Nat, f.first = l, f.last = e, 1 <= l, e <= LineCount, Emit(f)
  PROVE  out' = Append(out, f) \/ (out' = out /\ l .. e \subseteq BlankLines)
<1>1. CASE ~BlankRange(l, e)
  BY <1>1 DEF Emit
<1>2. CASE BlankRange(l, e)
  <2>1. \A x \in l .. e : x \in Lines /\ file.blank[x]
    <3>1. LineCount \in Nat /\ Lines = 1 .. LineCount
      BY FileIs
    <3>2. \A x \in l .. e : file.blank[x]
      BY <1>2 DEF BlankRange
    <3> QED
      BY <3>1, <3>2
  <2> QED
    BY <1>2, <2>1 DEF Emit, BlankLines
<1> QED
  BY <1>1, <1>2

\* The plan that parsing starts takes all the lines.
LEMMA ParseFileKeeps ==
  ASSUME ChunkingInv, ParseFile
  PROVE  ChunkingInv'
<1> DEFINE n == LineCount
           m == n + 1
<1>1. /\ file \in Sources /\ stage = "start" /\ boundaries = Nil /\ work = <<>> /\ pending = <<>> /\ chunks = <<>>
      /\ cursor = 1 /\ out = <<>> /\ refused = Nil
  BY DEF ChunkingInv, StagesHold, ParseFile
<1>2. /\ UNCHANGED <<file, pending, chunks, cursor, out, refused>>
      /\ file.language = "javascript" => boundaries' = Nil /\ stage' = "plan" /\ work' = <<Node(file.tree, 1, n, 0, <<>>)>>
      /\ file.language # "javascript" /\ boundaries' # Nil =>
           stage' = "plan" /\ work' = Units(UnitsFromBoundaries(boundaries', 0, 1, n))
      /\ file.language # "javascript" /\ boundaries' = Nil => stage' = "windows"
  BY DEF ParseFile, Scan
<1>3. n \in Nat /\ n >= 1
  BY <1>1, FileIs
<1>4. stage' \in {"plan", "windows"} /\ out' = <<>> /\ cursor' = 1 /\ refused' = Nil /\ file' = file
  BY <1>1, <1>2
<1>5. StagesHold'
  BY <1>1, <1>2, <1>4 DEF StagesHold
<1>6. OutHolds'
  BY <1>4, NoFragments DEF OutHolds
<1>7. CutsHold' /\ WindowsHold' /\ CoverHolds'
  <2>1. LineCount' = LineCount
    BY <1>4, FileStays
  <2> QED
    BY <1>3, <1>4, <2>1, NoFragments DEF CutsHold, WindowsHold, CoverHolds
<1> HIDE DEF n
<1>8. ASSUME stage' = "plan" PROVE Plans(boundaries', work', <<>>, <<>>, m)
  <2> DEFINE none == <<>>
             c == none
             found == boundaries'
             a == 1
  <2>1. c \in Seq(Chunks(found)) /\ none \in PartLists(found) /\ a \in Int /\ m \in Int
    <3>1. none \in Seq(Chunks(found)) /\ none \in Seq(Parts(found) \cup {EndMark}) /\ Len(none) = 0
      OBVIOUS
    <3>2. \A i \in 1 .. Len(none) : FALSE
      BY <3>1
    <3> HIDE DEF none
    <3>3. none \in PartLists(found)
      BY <3>1, <3>2 DEF PartLists
    <3> QED
      BY <1>3, <3>1, <3>3
  <2>2. Tiles(c, {}, 1, a) /\ Tiles(none, {EndMark}, m, m)
    BY <2>1, TilesNone
  <2>3. CASE file.language = "javascript"
    <3> DEFINE x == Node(file.tree, 1, n, 0, <<>>)
    <3>1. work' = <<x>> /\ file.tree \in TreeNodes
      BY <1>1, <1>2, <2>3, SourcesAssumption DEF n
    <3>2. x \in NodeItems /\ x.first = 1 /\ x.last = n
      <4> DEFINE zero == 0
                 symbols == <<>>
                 top == file.tree
                 one == 1
      <4>1. /\ zero \in Nat /\ one \in Nat /\ symbols \in Seq(Symbols) /\ Sorted(symbols) /\ Precede(symbols, top.first)
            /\ top \in TreeNodes
        BY <3>1, NoSymbols
      <4> HIDE DEF zero, symbols, top, one
      <4>2. /\ Node(top, one, n, zero, symbols) \in NodeItems /\ Node(top, one, n, zero, symbols).first = one
            /\ Node(top, one, n, zero, symbols).last = n
        BY <1>3, <4>1, NodeMade
      <4> QED
        BY <4>2 DEF zero, symbols, top, one
    <3> HIDE DEF x
    <3>3. x.first = a /\ x.first <= x.last /\ m = x.last + 1
      BY <1>3, <3>2
    <3>4. <<x>> \o none = <<x>>
      BY ConcatEmptySeq
    <3> HIDE DEF none, c, a, found, m
    <3>5. Plans(found, <<x>> \o none, <<>>, c, m)
      BY <2>1, <2>2, <3>2, <3>3, PlansFrom
    <3> QED
      BY <3>1, <3>4, <3>5 DEF found, c, none
  <2>4. CASE file.language # "javascript"
    <3>1. boundaries' # Nil
      BY <1>2, <1>8, <2>4
    <3> DEFINE us == UnitsFromBoundaries(found, 0, 1, n)
    <3>2. work' = us \o <<EndMark>>
      BY <1>2, <2>4, <3>1 DEF Units, n
    <3>3. us \in Seq(RangeItems(found)) /\ Tiles(us, {EndMark}, a, m)
      <4> DEFINE zero == 0
                 one == 1
      <4>1. zero \in Nat /\ one \in Nat /\ one <= n /\ found # Nil
        BY <1>3, <3>1
      <4> HIDE DEF zero, one, found
      <4>2. /\ UnitsFromBoundaries(found, zero, one, n) \in Seq(RangeItems(found))
            /\ Tiles(UnitsFromBoundaries(found, zero, one, n), {EndMark}, one, n + 1)
        BY <1>3, <4>1, BoundaryUnits
      <4> QED
        BY <4>2 DEF zero, one
    <3> HIDE DEF us, found
    <3>4. us \in Seq(Parts(found)) /\ \A i \in 1 .. Len(us) : Around(us[i]) = <<>>
      <4>1. RangeItems(found) \subseteq Parts(found)
        BY <3>1 DEF Parts, found
      <4>2. us \in Seq(Parts(found))
        BY <3>3, <4>1, SeqMonotonic
      <4>3. \A i \in 1 .. Len(us) : us[i] \in RangeItems(found)
        BY <3>3, ElementOfSeq
      <4> QED
        BY <4>2, <4>3 DEF RangeItems, Around
    <3>5. us \o <<EndMark>> \o none = us \o <<EndMark>>
      <4> DEFINE v == us \o <<EndMark>>
      <4>1. v \in Seq(Parts(found) \cup {EndMark})
        <5>1. us \in Seq(Parts(found) \cup {EndMark}) /\ <<EndMark>> \in Seq(Parts(found) \cup {EndMark})
          BY <3>4, SeqMonotonic
        <5> QED
          BY <5>1, ConcatProperties
      <4> HIDE DEF v
      <4>2. v \o none = v
        BY <4>1, ConcatEmptySeq
      <4> QED
        BY <4>2 DEF v
    <3> HIDE DEF none, c, a, m
    <3>6. Plans(found, us \o <<EndMark>> \o none, <<>>, c, m)
      BY <2>1, <2>2, <3>3, <3>4, PlansFrom
    <3> QED
      BY <3>2, <3>5, <3>6 DEF found, c, none
  <2> QED
    BY <2>3, <2>4
<1>9. PlanHolds'
  <2>1. LineCount' = n /\ pending' = <<>> /\ chunks' = <<>>
    BY <1>1, <1>2, FileStays DEF n
  <2> QED
    BY <1>8, <2>1 DEF PlanHolds
<1> QED
  BY <1>5, <1>6, <1>7, <1>9 DEF ChunkingInv

\* Planning goes on.
LEMMA PlanningKeeps ==
  ASSUME ChunkingInv, PackUnit \/ PlanNode \/ PlanUnit \/ EndOfUnits
  PROVE  ChunkingInv'
<1>1. stage = "plan" /\ UNCHANGED <<file, boundaries, stage, cursor, out, refused>>
  BY DEF PackUnit, PlanNode, PlanUnit, EndOfUnits
<1>2. LineCount' = LineCount /\ Within' = Within
  BY <1>1, FileStays
<1> DEFINE m == LineCount + 1
<1>3. Plans(boundaries, work, pending, chunks, m)
  BY <1>1 DEF ChunkingInv, PlanHolds
<1> HIDE DEF m
<1>4. Plans(boundaries, work', pending', chunks', m)
  <2>1. CASE PackUnit
    BY <1>3, <2>1, PackUnitFits
  <2>2. CASE PlanNode
    BY <1>3, <2>2, PlanNodeFits
  <2>3. CASE PlanUnit
    BY <1>3, <2>3, PlanUnitFits
  <2>4. CASE EndOfUnits
    BY <1>3, <2>4, EndOfUnitsFits
  <2> QED
    BY <2>1, <2>2, <2>3, <2>4
<1>5. PlanHolds'
  BY <1>1, <1>2, <1>4 DEF PlanHolds, m
<1>6. StagesHold' /\ OutHolds' /\ CutsHold' /\ WindowsHold' /\ CoverHolds'
  BY <1>1, <1>2 DEF ChunkingInv, StagesHold, OutHolds, CutsHold, WindowsHold, CoverHolds
<1> QED
  BY <1>5, <1>6 DEF ChunkingInv

\* The plan is complete: its ranges take all the lines.
LEMMA PlannedKeeps ==
  ASSUME ChunkingInv, Planned
  PROVE  ChunkingInv'
<1> DEFINE n == LineCount
           m == n + 1
           found == boundaries
           ranges == IF file.language = "javascript" THEN MergeTiny(chunks) ELSE chunks
<1>1. /\ file \in Sources /\ stage = "plan" /\ work = <<>> /\ cursor = 1 /\ out = <<>> /\ refused = Nil
      /\ Plans(found, work, pending, chunks, m)
  BY DEF ChunkingInv, StagesHold, PlanHolds, Planned
<1>2. /\ UNCHANGED <<file, boundaries, pending, chunks, out, refused>>
      /\ (stage' = "windows" /\ UNCHANGED <<work, cursor>>) \/ (stage' = "emit" /\ work' = ranges /\ cursor' = 1)
  BY DEF Planned
<1>3. n \in Nat /\ n >= 1 /\ LineCount' = n
  BY <1>1, <1>2, FileIs, FileStays
<1> HIDE DEF n, found
<1>4. chunks \in Seq(Chunks(found)) /\ Tiles(chunks, {}, 1, m)
  <2>1. pending = <<>>
    <3>1. ASSUME NEW x \in NodeItems, NEW t \in PartLists(found), work = <<x>> \o t PROVE FALSE
      <4>1. <<x>> \o t # <<>>
        <5> DEFINE S == Items(found)
        <5>1. t \in Seq(S) /\ x \in S
          <6>1. t \in Seq(Parts(found) \cup {EndMark}) /\ Parts(found) \cup {EndMark} \subseteq S /\ NodeItems \subseteq S
            BY DEF PartLists, Items
          <6> QED
            BY <6>1, SeqMonotonic
        <5> HIDE DEF S
        <5> QED
          BY <5>1, FirstAndOthers
      <4> QED
        BY <1>1, <3>1, <4>1
    <3> QED
      BY <1>1, <3>1 DEF Plans
  <2>2. PICK line : Tiles(chunks \o pending, {}, 1, line) /\ Tiles(work, {EndMark}, line, m)
    BY <1>1 DEF Plans
  <2>3. chunks \in Seq(Chunks(found)) /\ chunks \o <<>> = chunks
    BY <1>1, ConcatEmptySeq DEF Plans
  <2>4. line = m
    BY <1>1, <2>2, NoneTiles
  <2> QED
    BY <2>1, <2>2, <2>3, <2>4
<1>5. ranges \in Seq(Chunks(found)) /\ Tiles(ranges, {}, 1, m)
  <2> DEFINE one == 1
             none == {}
  <2>1. Tiles(chunks, none, one, m)
    BY <1>4
  <2> HIDE DEF one, m
  <2>2. MergeTiny(chunks) \in Seq(Chunks(found)) /\ Tiles(MergeTiny(chunks), {}, one, m)
    BY <1>4, <2>1, MergeFits
  <2> QED
    BY <1>4, <2>2 DEF one
<1> HIDE DEF ranges
<1>6. StagesHold' /\ PlanHolds' /\ CoverHolds'
  BY <1>1, <1>2 DEF ChunkingInv, StagesHold, PlanHolds, CoverHolds
<1>7. OutHolds'
  BY <1>1, <1>2, NoFragments DEF OutHolds
<1>8. CutsHold'
  <2> SUFFICES ASSUME stage' = "emit"
               PROVE  Emits(boundaries', work', cursor', LineCount' + 1, BigRanges')
    BY <1>1, <1>2, NoFragments DEF CutsHold
  <2> DEFINE one == 1
  <2>1. one \in Nat /\ one >= 1 /\ Tiles(ranges, {}, one, m)
    BY <1>5
  <2> HIDE DEF one, m
  <2>2. Emits(found, ranges, one, m, BigRanges')
    BY <1>5, <2>1, EmitsFrom
  <2> QED
    BY <1>2, <1>3, <2>2 DEF one, m, found
<1>9. WindowsHold'
  BY <1>1, <1>2, <1>3, NoFragments DEF WindowsHold
<1> QED
  BY <1>6, <1>7, <1>8, <1>9 DEF ChunkingInv

\* What is known of a fragment cut from the next range.
LEMMA CutIsNext ==
  ASSUME ChunkingInv, stage = "emit", work # <<>>
  PROVE  /\ file \in Sources /\ LineCount \in Nat /\ refused = Nil
         /\ Head(work) \in Chunks(boundaries) /\ Head(work).first \in Nat /\ Head(work).last \in Nat
         /\ 1 <= Head(work).first /\ cursor \in Head(work).first .. Head(work).last /\ Head(work).last <= LineCount
         /\ Emits(boundaries, Tail(work), Head(work).last + 1, LineCount + 1, BigRanges)
         /\ boundaries = Nil => file.policy \in {"local", "context"}
<1>1. /\ Emits(boundaries, work, cursor, LineCount + 1, BigRanges) /\ file \in Sources /\ refused = Nil
      /\ boundaries = Nil => file.language = "javascript"
  BY DEF ChunkingInv, CutsHold, StagesHold
<1>2. LineCount \in Nat
  BY <1>1, FileIs
<1>3. boundaries = Nil => file.policy \in {"local", "context"}
  BY <1>1, SourcesAssumption
<1> DEFINE m == LineCount + 1
<1>4. Emits(boundaries, work, cursor, m, BigRanges) /\ work # <<>>
  BY <1>1
<1> HIDE DEF m
<1>5. /\ Head(work) \in Chunks(boundaries) /\ Head(work).first \in Nat /\ Head(work).last \in Nat /\ Head(work).first >= 1
      /\ cursor \in Head(work).first .. Head(work).last /\ m \in Int /\ Head(work).last < m
      /\ Emits(boundaries, Tail(work), Head(work).last + 1, m, BigRanges)
  BY <1>4, NextRange
<1> QED
  BY <1>1, <1>2, <1>3, <1>5 DEF m

\* A fragment is cut: what is left goes on after it, or within the range it was cut from.
LEMMA CutKeeps ==
  ASSUME ChunkingInv, stage = "emit", NEW f, NEW e \in Nat, f.first = cursor, f.last = e,
         <<cursor, e>> \in Within, Reach(work, cursor, WindowEnds) <= e, Emit(f),
         UNCHANGED <<file, boundaries, stage, refused>>,
         Emits(boundaries, work', cursor', LineCount + 1, BigRanges),
         cursor < cursor', cursor' <= e + 1, e - OverlapLines < cursor', e <= Reach(work', cursor', WindowEnds),
         boundaries = Nil =>
           /\ Tells(f, file.policy) /\ Unnamed(work, cursor) <= Unnamed(work', cursor')
           /\ file.policy # "context" /\ f.label # <<>> =>
                \E line \in Nat : Unnamed(work, cursor) <= line /\ line < Unnamed(work', cursor') /\ f.label = <<line>>
  PROVE  ChunkingInv'
<1> DEFINE l == cursor
           m == cursor'
           reach == Reach(work, cursor, WindowEnds)
           up == Reach(work', cursor', WindowEnds)
           from == Unnamed(work, cursor)
           to == Unnamed(work', cursor')
           policy == file.policy
<1>1. /\ file \in Sources /\ l \in Nat /\ OutFits(out, Within) /\ CoversTo(out, BlankLines, l) /\ Ends(out, l, reach)
      /\ Emits(boundaries, work, l, LineCount + 1, BigRanges)
      /\ boundaries = Nil => Labelled(out, policy, from)
  BY DEF ChunkingInv, StagesHold, OutHolds, CutsHold
<1>2. /\ LineCount' = LineCount /\ Within' = Within /\ BlankLines' = BlankLines /\ BigRanges' = BigRanges
      /\ WindowEnds' = WindowEnds
  BY FileStays
<1>3. reach \in Int /\ from \in Nat
  BY <1>1, ReachIs
<1>4. up \in Int /\ to \in Nat /\ m \in Nat
  <2>1. up \in Int /\ to \in Nat
    BY <1>1, ReachIs
  <2> QED
    BY <2>1 DEF Emits
<1>5. Within \in SUBSET (Nat \X Nat) /\ l <= e /\ e <= LineCount /\ 1 <= l
  <2>1. \A r \in Within : r \in Nat \X Nat /\ 1 <= r[1] /\ r[1] <= r[2] /\ r[2] <= LineCount
    BY DEF Within
  <2>2. 1 <= <<l, e>>[1] /\ <<l, e>>[1] <= <<l, e>>[2] /\ <<l, e>>[2] <= LineCount
    BY <2>1
  <2> QED
    BY <2>1, <2>2
<1>6. out' = Append(out, f) \/ (out' = out /\ l .. e \subseteq BlankLines)
  BY <1>1, <1>5, EmitIs
<1> HIDE DEF l, m, reach, up, from, to, policy
<1>7. OutFits(out', Within) /\ CoversTo(out', BlankLines, m) /\ Ends(out', m, up)
  <2> DEFINE within == Within
             blank == BlankLines
             v == out'
             o == out
  <2>1. GoesOn(o, v, f, blank, l, e, m, reach, up)
    BY <1>5, <1>6 DEF GoesOn, l, m, reach, up
  <2>2. within \in SUBSET (Nat \X Nat) /\ OutFits(o, within) /\ CoversTo(o, blank, l) /\ Ends(o, l, reach)
    BY <1>1, <1>5
  <2>3. <<l, e>> \in within
    BY DEF l
  <2>4. l \in Nat /\ m \in Nat /\ reach \in Int /\ up \in Int
    BY <1>1, <1>3, <1>4
  <2> HIDE DEF within, blank, v, o
  <2>5. OutFits(v, within) /\ CoversTo(v, blank, m) /\ Ends(v, m, up)
    BY <2>1, <2>2, <2>3, <2>4, Emitted
  <2> QED
    BY <2>5 DEF within, blank, v
<1>8. boundaries = Nil => Labelled(out', policy, to)
  <2> SUFFICES ASSUME boundaries = Nil PROVE Labelled(out', policy, to)
    OBVIOUS
  <2>1. PICK S : out \in Seq(S)
    BY <1>1 DEF OutFits
  <2>2. /\ Tells(f, policy) /\ from <= to /\ Labelled(out, policy, from)
        /\ policy # "context" /\ f.label # <<>> => \E line \in Nat : from <= line /\ line < to /\ f.label = <<line>>
    BY <1>1 DEF from, to, policy
  <2>3. out' = out \/ out' = Append(out, f)
    BY <1>6
  <2> QED
    BY <1>3, <1>4, <2>1, <2>2, <2>3, LabelAdded
<1>9. StagesHold'
  BY <1>1, <1>4, <1>5 DEF ChunkingInv, StagesHold, m, l
<1>10. CutsHold'
  BY <1>2, <1>7 DEF CutsHold, m, up
<1>11. OutHolds'
  BY <1>2, <1>7, <1>8 DEF OutHolds, to, policy
<1>12. PlanHolds' /\ WindowsHold' /\ CoverHolds'
  BY DEF PlanHolds, WindowsHold, CoverHolds
<1> QED
  BY <1>9, <1>10, <1>11, <1>12 DEF ChunkingInv

\* A fragment made of a range, or cut from it.
LEMMA FragmentIs ==
  ASSUME NEW first, NEW last, NEW label, NEW declaration
  PROVE  /\ Fragment(first, last, label, declaration).first = first /\ Fragment(first, last, label, declaration).last = last
         /\ Fragment(first, last, label, declaration).label = label
         /\ Fragment(first, last, label, declaration).declaration = declaration
BY DEF Fragment

\* What a label tells of the range it is of, a part of it, and the lines around it.
LEMMA LabelTells ==
  ASSUME NEW c \in Chunks(Nil), c.first \in Nat, c.last \in Nat, NEW policy, policy \in {"local", "context"},
         policy = file.policy, NEW f, NEW range,
         range = IF f.declaration = Nil THEN f ELSE f.declaration, range.first = c.first, range.last = c.last,
         c.first <= f.first, f.last <= c.last, f.label = Label(c) \/ (policy # "context" /\ f.label = <<>>)
  PROVE  /\ Tells(f, policy)
         /\ policy # "context" /\ f.label # <<>> => \E line \in c.first .. c.last : f.label = <<line>>
<1>1. /\ policy = "context" => \A i \in 2 .. Len(Label(c)) : Label(c)[i - 1] <= Label(c)[i]
      /\ policy # "context" /\ Label(c) # <<>> => \E line \in c.first .. c.last : Label(c) = <<line>>
  BY LabelIs
<1> DEFINE label == f.label
<1>2. /\ policy = "context" => \A i \in 2 .. Len(label) : label[i - 1] <= label[i]
      /\ policy # "context" /\ label # <<>> => \E line \in c.first .. c.last : label = <<line>>
  <2> HIDE DEF label
  <2>1. label = Label(c) \/ (policy # "context" /\ label = <<>>)
    BY DEF label
  <2> QED
    BY <1>1, <2>1
<1>3. Tells(f, policy)
  BY <1>2 DEF Tells
<1> QED
  BY <1>2, <1>3

\* A range that fits is one fragment.
LEMMA EmitRangeKeeps ==
  ASSUME ChunkingInv, EmitRange
  PROVE  ChunkingInv'
<1> DEFINE c == Head(work)
           a == c.first
           b == c.last
           f == Fragment(a, b, Label(c), Nil)
           t == Tail(work)
           n == LineCount + 1
           policy == file.policy
<1>1. /\ stage = "emit" /\ work # <<>> /\ ~c.windows /\ ~Oversized(a, b) /\ Emit(f) /\ cursor' = b + 1 /\ work' = t
      /\ UNCHANGED <<file, boundaries, stage, pending, chunks, refused>>
  BY DEF EmitRange
<1>2. /\ file \in Sources /\ LineCount \in Nat /\ c \in Chunks(boundaries) /\ a \in Nat /\ b \in Nat
      /\ 1 <= a /\ cursor \in a .. b /\ b <= LineCount /\ Emits(boundaries, t, b + 1, n, BigRanges)
      /\ boundaries = Nil => policy \in {"local", "context"}
  BY <1>1, CutIsNext
<1>3. f.first = a /\ f.last = b /\ f.label = Label(c) /\ f.declaration = Nil
  BY FragmentIs
<1>4. Emits(boundaries, work, cursor, n, BigRanges)
  BY <1>1 DEF ChunkingInv, CutsHold
<1>5. cursor = a
  <2>1. <<a, b>> \notin BigRanges
    BY <1>1 DEF BigRanges
  <2> QED
    BY <1>1, <1>4, <2>1 DEF Emits
<1>6. <<a, b>> \in Within
  BY <1>1, <1>2, RangeKeeps
<1>7. Reach(work, cursor, WindowEnds) <= b /\ Unnamed(work, cursor) = a
  <2>1. WindowEnds[<<a, b>>] \in a .. b
    <3>1. file \in Sources /\ a \in Nat /\ b \in Nat /\ 1 <= a /\ a <= b /\ b <= LineCount
      BY <1>2
    <3> HIDE DEF a, b
    <3> QED
      BY <3>1, WindowKeeps
  <2>2. Reach(work, cursor, WindowEnds) = WindowEnds[<<cursor, b>>]
    BY <1>1 DEF Reach
  <2> QED
    BY <1>1, <1>2, <1>5, <2>1, <2>2 DEF Unnamed
<1> HIDE DEF c, f, t
<1>8. /\ Reach(work', cursor', WindowEnds) \in Int /\ b <= Reach(work', cursor', WindowEnds)
      /\ Unnamed(work', cursor') \in Nat /\ b + 1 <= Unnamed(work', cursor')
  <2> DEFINE l == b + 1
  <2>1. l - 1 = b /\ l = cursor' /\ Emits(boundaries, t, l, LineCount + 1, BigRanges)
    BY <1>1, <1>2
  <2> HIDE DEF l
  <2>2. /\ Reach(t, l, WindowEnds) \in Int /\ l - 1 <= Reach(t, l, WindowEnds)
        /\ Unnamed(t, l) \in Nat /\ l <= Unnamed(t, l)
    BY <1>2, <2>1, ReachIs
  <2> QED
    BY <1>1, <2>1, <2>2 DEF l
<1>9. boundaries = Nil =>
        /\ Tells(f, policy)
        /\ policy # "context" /\ f.label # <<>> => \E line \in a .. b : f.label = <<line>>
  <2> SUFFICES ASSUME boundaries = Nil
               PROVE  /\ Tells(f, policy)
                      /\ policy # "context" /\ f.label # <<>> => \E line \in a .. b : f.label = <<line>>
    OBVIOUS
  <2> DEFINE range == f
  <2>1. c \in Chunks(Nil) /\ policy \in {"local", "context"} /\ policy = file.policy
    BY <1>2
  <2>2. range = IF f.declaration = Nil THEN f ELSE f.declaration
    BY <1>3
  <2>3. range.first = c.first /\ range.last = c.last /\ c.first <= f.first /\ f.last <= c.last /\ f.label = Label(c)
    BY <1>2, <1>3
  <2> HIDE DEF range, policy
  <2> QED
    BY <1>2, <2>1, <2>2, <2>3, LabelTells
<1>10. \A line \in a .. b : line \in Nat /\ a <= line /\ line < b + 1
  BY <1>2
<1>11. cursor < cursor' /\ cursor' <= b + 1 /\ b - OverlapLines < cursor'
  BY <1>1, <1>2, <1>5, LimitsAre
<1> HIDE DEF a, b
<1>12. boundaries = Nil =>
         /\ Tells(f, policy) /\ Unnamed(work, cursor) <= Unnamed(work', cursor')
         /\ policy # "context" /\ f.label # <<>> =>
              \E line \in Nat : Unnamed(work, cursor) <= line /\ line < Unnamed(work', cursor') /\ f.label = <<line>>
  <2> DEFINE to == Unnamed(work', cursor')
  <2>1. Unnamed(work, cursor) = a /\ to \in Nat /\ b + 1 <= to /\ a \in Nat /\ b \in Nat /\ a <= b
    BY <1>2, <1>7, <1>8
  <2> HIDE DEF to
  <2>2. \A line \in a .. b : line \in Nat /\ a <= line /\ line < to
    BY <1>10, <2>1
  <2> QED
    BY <1>9, <2>1, <2>2 DEF to
<1>13. /\ f.first = cursor /\ f.last = b /\ b \in Nat /\ <<cursor, b>> \in Within /\ Emit(f)
       /\ Emits(boundaries, work', cursor', LineCount + 1, BigRanges)
  BY <1>1, <1>2, <1>3, <1>5, <1>6
<1> QED
  BY <1>1, <1>7, <1>8, <1>11, <1>12, <1>13, CutKeeps DEF policy

\* The line the next window starts at is past the one before, and overlaps it as it may.
LEMMA FollowingIs ==
  ASSUME NEW l \in Nat, NEW e \in Nat, l <= e
  PROVE  /\ Following(l, e) \in Nat /\ l < Following(l, e) /\ Following(l, e) <= e + 1
         /\ e - OverlapLines < Following(l, e)
BY LimitsAre DEF Following

\* A range that does not fit is cut into windows.
LEMMA EmitWindowKeeps ==
  ASSUME ChunkingInv, EmitWindow
  PROVE  ChunkingInv'
<1> DEFINE c == Head(work)
           a == c.first
           b == c.last
           t == Tail(work)
           n == LineCount + 1
           policy == file.policy
           l == cursor
           e == WindowEnd(l, b)
           declaration == IF l > a \/ e < b THEN [first |-> a, last |-> b] ELSE Nil
           f == Fragment(l, e, WindowLabel(c, l), declaration)
<1>1. stage = "emit" /\ work # <<>> /\ (c.windows \/ Oversized(a, b)) /\ UNCHANGED <<file, boundaries, pending, chunks>>
  BY DEF EmitWindow
<1>2. /\ file \in Sources /\ LineCount \in Nat /\ c \in Chunks(boundaries) /\ a \in Nat /\ b \in Nat
      /\ 1 <= a /\ l \in a .. b /\ b <= LineCount /\ Emits(boundaries, t, b + 1, n, BigRanges)
      /\ boundaries = Nil => policy \in {"local", "context"}
  BY <1>1, CutIsNext
<1>3. IF LongAt(l) THEN RefuseLine(l) /\ UNCHANGED <<work, cursor>>
      ELSE /\ Emit(f) /\ UNCHANGED <<stage, refused>>
           /\ IF e >= b THEN work' = t /\ cursor' = b + 1 ELSE work' = work /\ cursor' = Following(l, e)
  BY <1>2 DEF EmitWindow
<1>4. CASE LongAt(l)
  <2>1. RefuseLine(l) /\ l \in Nat /\ UNCHANGED <<file, boundaries, cursor>>
    BY <1>1, <1>2, <1>3, <1>4
  <2> QED
    BY <2>1, LineRefused
<1>5. CASE ~LongAt(l)
  <2>1. /\ Emit(f) /\ UNCHANGED <<file, boundaries, stage, refused>>
        /\ IF e >= b THEN work' = t /\ cursor' = b + 1 ELSE work' = work /\ cursor' = Following(l, e)
    BY <1>1, <1>3, <1>5
  <2>2. f.first = l /\ f.last = e /\ f.label = WindowLabel(c, l) /\ f.declaration = declaration
    BY FragmentIs
  <2>3. Emits(boundaries, work, l, n, BigRanges)
    BY <1>1 DEF ChunkingInv, CutsHold
  <2>4. e \in l .. b /\ WindowEnds[<<l, b>>] = e /\ <<l, e>> \in Within /\ \A m \in l .. e : e <= WindowEnd(m, b)
    BY <1>2, <1>5, WindowKeeps
  <2>5. e \in Nat /\ l \in Nat /\ l <= e /\ e <= b /\ a <= l
    BY <1>2, <2>4
  <2>6. Reach(work, l, WindowEnds) = e /\ Unnamed(work, l) = IF l = a THEN l ELSE b + 1
    BY <1>1, <2>4 DEF Reach, Unnamed
  <2>7. WindowLabel(c, l) = IF policy = "context" \/ l = a THEN Label(c) ELSE <<>>
    BY DEF WindowLabel
  <2>8. declaration = Nil => l = a /\ e = b
    <3>1. [first |-> a, last |-> b] # Nil
      BY <1>2, SourcesAssumption
    <3> QED
      BY <2>5, <1>2, <3>1
  <2>9. declaration # Nil => declaration.first = a /\ declaration.last = b
    OBVIOUS
  <2> HIDE DEF declaration, f, e
  <2>10. boundaries = Nil =>
           /\ Tells(f, policy)
           /\ policy # "context" /\ f.label # <<>> => l = a /\ \E line \in a .. b : f.label = <<line>>
    <3> SUFFICES ASSUME boundaries = Nil
                 PROVE  /\ Tells(f, policy)
                        /\ policy # "context" /\ f.label # <<>> => l = a /\ \E line \in a .. b : f.label = <<line>>
      OBVIOUS
    <3> DEFINE range == IF f.declaration = Nil THEN f ELSE f.declaration
    <3>1. c \in Chunks(Nil) /\ policy \in {"local", "context"} /\ policy = file.policy
      BY <1>2
    <3>2. range.first = c.first /\ range.last = c.last
      BY <2>2, <2>8, <2>9
    <3>3. c.first <= f.first /\ f.last <= c.last /\ (f.label = Label(c) \/ (policy # "context" /\ f.label = <<>>))
      BY <2>2, <2>5, <2>7
    <3>4. range = IF f.declaration = Nil THEN f ELSE f.declaration
      OBVIOUS
    <3> HIDE DEF range, policy
    <3>5. /\ Tells(f, policy)
          /\ policy # "context" /\ f.label # <<>> => \E line \in c.first .. c.last : f.label = <<line>>
      BY <1>2, <3>1, <3>2, <3>3, <3>4, LabelTells
    <3>6. policy # "context" /\ f.label # <<>> => l = a
      BY <2>2, <2>7
    <3> QED
      BY <3>5, <3>6
  <2> HIDE DEF c, t, n
  <2>11. \A line \in a .. b : line \in Nat /\ a <= line /\ line < b + 1
    BY <1>2
  <2>12. /\ Emits(boundaries, work', cursor', LineCount + 1, BigRanges)
         /\ l < cursor' /\ cursor' <= e + 1 /\ e - OverlapLines < cursor'
         /\ e <= Reach(work', cursor', WindowEnds) /\ b + 1 <= Unnamed(work', cursor') /\ Unnamed(work', cursor') \in Nat
    <3>1. CASE e >= b
      <4> DEFINE m == b + 1
      <4>1. work' = t /\ cursor' = m /\ e = b
        BY <1>2, <2>1, <2>5, <3>1
      <4>2. Emits(boundaries, t, m, LineCount + 1, BigRanges) /\ m - 1 = e
        BY <1>2, <4>1 DEF n
      <4>3. l < m /\ m <= e + 1 /\ e - OverlapLines < m
        BY <1>2, <2>5, <4>1, LimitsAre
      <4> HIDE DEF m
      <4>4. m - 1 <= Reach(t, m, WindowEnds) /\ Unnamed(t, m) \in Nat /\ m <= Unnamed(t, m)
        BY <1>2, <4>2, ReachIs
      <4> QED
        BY <4>1, <4>2, <4>3, <4>4 DEF m
    <3>2. CASE ~(e >= b)
      <4> DEFINE m == Following(l, e)
      <4>1. m \in Nat /\ l < m /\ m <= e + 1 /\ e - OverlapLines < m
        BY <2>5, FollowingIs
      <4>2. work' = work /\ cursor' = m
        BY <2>1, <3>2
      <4> HIDE DEF m
      <4>3. m \in a .. b /\ m # a /\ m >= 1 /\ m \in l .. b
        BY <1>2, <2>5, <3>2, <4>1
      <4>4. Emits(boundaries, work, m, LineCount + 1, BigRanges)
        <5>1. <<a, b>> \in BigRanges \/ c.windows
          BY <1>1, <1>2 DEF BigRanges
        <5> QED
          BY <1>1, <2>3, <4>1, <4>3, <5>1 DEF Emits, c, n
      <4>5. e <= WindowEnds[<<m, b>>]
        <5>1. WindowEnds[<<m, b>>] = WindowEnd(m, b) /\ WindowEnd(m, b) \in m .. b
          <6>1. file \in Sources /\ m \in Nat /\ b \in Nat /\ 1 <= m /\ m <= b /\ b <= LineCount
            BY <1>2, <4>1, <4>3
          <6> HIDE DEF a, b
          <6> QED
            BY <6>1, WindowKeeps
        <5>2. m \in l .. e \/ m = e + 1
          BY <2>5, <4>1
        <5>3. CASE m \in l .. e
          BY <2>4, <5>1, <5>3
        <5>4. CASE m = e + 1
          BY <2>5, <5>1, <5>4
        <5> QED
          BY <5>2, <5>3, <5>4
      <4>6. Reach(work, m, WindowEnds) = WindowEnds[<<m, b>>] /\ Unnamed(work, m) = b + 1
        BY <1>1, <4>3 DEF Reach, Unnamed, c
      <4> QED
        BY <1>2, <4>1, <4>2, <4>4, <4>5, <4>6
    <3> QED
      BY <3>1, <3>2
  <2> HIDE DEF a, b
  <2>13. boundaries = Nil =>
           /\ Tells(f, policy) /\ Unnamed(work, cursor) <= Unnamed(work', cursor')
           /\ policy # "context" /\ f.label # <<>> =>
                \E line \in Nat : Unnamed(work, cursor) <= line /\ line < Unnamed(work', cursor') /\ f.label = <<line>>
    <3> DEFINE to == Unnamed(work', cursor')
               from == Unnamed(work, cursor)
    <3>1. (from = IF l = a THEN l ELSE b + 1) /\ to \in Nat /\ b + 1 <= to /\ a \in Nat /\ b \in Nat /\ a <= l /\ l <= b
          /\ l \in Nat
      BY <1>2, <2>5, <2>6, <2>12
    <3> HIDE DEF to, from
    <3>2. from <= to /\ (l = a => from = a)
      BY <3>1
    <3>3. \A line \in a .. b : line \in Nat /\ a <= line /\ line < to
      BY <2>11, <3>1
    <3> QED
      BY <2>10, <3>2, <3>3 DEF to, from
  <2>14. /\ f.first = cursor /\ f.last = e /\ e \in Nat /\ <<cursor, e>> \in Within /\ Emit(f)
         /\ Reach(work, cursor, WindowEnds) <= e
    BY <2>1, <2>2, <2>4, <2>5, <2>6
  <2> QED
    BY <1>1, <2>1, <2>12, <2>13, <2>14, CutKeeps DEF policy
<1> QED
  BY <1>4, <1>5

\* A fragment with no label tells nothing wrong.
LEMMA UnlabelledTells ==
  ASSUME NEW l \in Nat, NEW e \in Nat, NEW policy
  PROVE  Tells(Fragment(l, e, <<>>, Nil), policy) /\ Fragment(l, e, <<>>, Nil).label = <<>>
<1> DEFINE none == <<>>
           f == Fragment(l, e, none, Nil)
<1>1. f.first = l /\ f.last = e /\ f.label = none /\ f.declaration = Nil
  BY FragmentIs
<1>2. none = <<>> /\ \A i \in 2 .. Len(none) : FALSE
  OBVIOUS
<1> HIDE DEF f, none
<1>3. Tells(f, policy)
  BY <1>1, <1>2 DEF Tells
<1> QED
  BY <1>1, <1>3 DEF f, none

\* A window of lines is cut.
LEMMA LineWindowKeepsAll ==
  ASSUME ChunkingInv, LineWindow
  PROVE  ChunkingInv'
<1> DEFINE n == LineCount
           l == cursor
           e == LineWindowEnd(l)
           f == Fragment(l, e, <<>>, Nil)
           policy == file.policy
           reach == LineWindowEnds[l]
           m == cursor'
           up == IF m <= n THEN LineWindowEnds[m] ELSE m - 1
<1>1. /\ stage = "windows" /\ l <= n /\ UNCHANGED <<file, boundaries, work, pending, chunks>>
      /\ IF LongAt(l) THEN RefuseLine(l) /\ UNCHANGED cursor
         ELSE /\ Emit(f) /\ UNCHANGED <<stage, refused>>
              /\ m = IF e >= n THEN n + 1 ELSE IF l + 1 >= e + 1 - OverlapLines THEN l + 1 ELSE e + 1 - OverlapLines
  BY DEF LineWindow
<1>2. /\ file \in Sources /\ l \in Nat /\ l >= 1 /\ refused = Nil
      /\ OutFits(out, Within) /\ CoversTo(out, BlankLines, l) /\ Ends(out, l, reach)
      /\ boundaries = Nil => Labelled(out, policy, l)
  BY <1>1 DEF ChunkingInv, StagesHold, OutHolds, WindowsHold
<1>3. n \in Nat
  BY <1>2, FileIs
<1>4. CASE LongAt(l)
  BY <1>1, <1>2, <1>4, LineRefused
<1>5. CASE ~LongAt(l)
  <2>1. /\ Emit(f) /\ UNCHANGED <<file, boundaries, stage, refused>>
        /\ m = IF e >= n THEN n + 1 ELSE IF l + 1 >= e + 1 - OverlapLines THEN l + 1 ELSE e + 1 - OverlapLines
    BY <1>1, <1>5
  <2>2. e \in l .. n /\ reach = e /\ <<l, e>> \in Within /\ \A x \in l .. e : e <= LineWindowEnd(x)
    BY <1>1, <1>2, <1>5, LineWindowKeeps
  <2>3. f.first = l /\ f.last = e /\ f.label = <<>> /\ Tells(f, policy)
    <3>1. f.first = l /\ f.last = e
      BY FragmentIs
    <3>2. e \in Nat
      BY <1>2, <1>3, <2>2
    <3> QED
      BY <1>2, <3>1, <3>2, UnlabelledTells
  <2> HIDE DEF e, f, reach, n
  <2>4. e \in Nat /\ l <= e /\ e <= n
    BY <1>2, <1>3, <2>2
  <2>5. m \in Nat /\ l < m /\ m <= e + 1 /\ m <= n + 1 /\ e - OverlapLines < m /\ m >= 1 /\ (m > n => m = e + 1)
    BY <1>2, <1>3, <2>1, <2>4, LimitsAre
  <2>6. up \in Int /\ e <= up
    <3>1. CASE m <= n
      <4>1. file \in Sources /\ m \in Nat /\ 1 <= m /\ m <= LineCount
        BY <1>2, <2>5, <3>1 DEF n
      <4> HIDE DEF m
      <4>2. LineWindowEnds[m] = LineWindowEnd(m) /\ LineWindowEnd(m) \in m .. n
        BY <4>1, LineWindowKeeps DEF n
      <4>3. m \in l .. e \/ m = e + 1
        BY <1>2, <2>4, <2>5
      <4>4. e <= LineWindowEnd(m)
        BY <2>2, <2>4, <2>5, <4>2, <4>3
      <4> QED
        BY <1>3, <2>5, <3>1, <4>2, <4>4
    <3>2. CASE m > n
      BY <1>3, <2>4, <2>5, <3>2
    <3> QED
      BY <1>3, <2>5, <3>1, <3>2
  <2>7. out' = Append(out, f) \/ (out' = out /\ l .. e \subseteq BlankLines)
    BY <1>2, <2>1, <2>3, <2>4, EmitIs DEF n
  <2>8. LineCount' = n /\ Within' = Within /\ BlankLines' = BlankLines /\ LineWindowEnds' = LineWindowEnds
    BY <2>1, FileStays DEF n
  <2> HIDE DEF m, up, l, policy
  <2>9. OutFits(out', Within) /\ CoversTo(out', BlankLines, m) /\ Ends(out', m, up)
    <3> DEFINE within == Within
               blank == BlankLines
               v == out'
               o == out
    <3>1. GoesOn(o, v, f, blank, l, e, m, reach, up)
      BY <2>2, <2>3, <2>4, <2>5, <2>6, <2>7 DEF GoesOn
    <3>2. within \in SUBSET (Nat \X Nat) /\ OutFits(o, within) /\ CoversTo(o, blank, l) /\ Ends(o, l, reach)
      BY <1>2 DEF Within
    <3>3. <<l, e>> \in within /\ l \in Nat /\ e \in Nat /\ m \in Nat /\ reach \in Int /\ up \in Int
      BY <1>2, <2>2, <2>4, <2>5, <2>6
    <3> HIDE DEF within, blank, v, o
    <3>4. OutFits(v, within) /\ CoversTo(v, blank, m) /\ Ends(v, m, up)
      BY <3>1, <3>2, <3>3, Emitted
    <3> QED
      BY <3>4 DEF within, blank, v
  <2>10. boundaries = Nil => Labelled(out', policy, m)
    <3> SUFFICES ASSUME boundaries = Nil PROVE Labelled(out', policy, m)
      OBVIOUS
    <3>1. PICK S : out \in Seq(S)
      BY <1>2 DEF OutFits
    <3>2. /\ Tells(f, policy) /\ l <= m /\ Labelled(out, policy, l) /\ l \in Nat /\ m \in Nat
          /\ policy # "context" /\ f.label # <<>> => \E line \in Nat : l <= line /\ line < m /\ f.label = <<line>>
      BY <1>2, <2>3, <2>5
    <3>3. out' = out \/ out' = Append(out, f)
      BY <2>7
    <3> QED
      BY <3>1, <3>2, <3>3, LabelAdded
  <2>11. StagesHold'
    BY <1>1, <2>1, <2>5 DEF ChunkingInv, StagesHold, m
  <2>12. OutHolds'
    BY <1>1, <2>1, <2>8, <2>9, <2>10 DEF OutHolds, m, policy
  <2>13. WindowsHold'
    BY <2>5, <2>8, <2>9 DEF WindowsHold, m, up
  <2>14. PlanHolds' /\ CutsHold' /\ CoverHolds'
    BY <1>1, <2>1 DEF PlanHolds, CutsHold, CoverHolds
  <2> QED
    BY <2>11, <2>12, <2>13, <2>14 DEF ChunkingInv
<1> QED
  BY <1>4, <1>5

\* Nothing is left to cut.
LEMMA FinishKeeps ==
  ASSUME ChunkingInv, FinishChunking
  PROVE  ChunkingInv'
<1>1. /\ stage' = "done" /\ UNCHANGED <<file, boundaries, work, pending, chunks, cursor, out, refused>>
      /\ \/ stage = "emit" /\ work = <<>>
         \/ stage = "windows" /\ (BlankRange(1, LineCount) \/ cursor > LineCount)
  BY DEF FinishChunking
<1>2. file \in Sources /\ cursor \in Nat /\ LineCount' = LineCount /\ Within' = Within /\ BlankLines' = BlankLines
  BY <1>1, FileStays DEF ChunkingInv, StagesHold
<1>3. LineCount \in Nat /\ Lines = 1 .. LineCount
  BY <1>2, FileIs
<1>4. CoversTo(out, BlankLines, LineCount + 1)
  <2>1. CASE stage = "emit" /\ work = <<>>
    <3>1. Emits(boundaries, work, cursor, LineCount + 1, BigRanges) /\ CoversTo(out, BlankLines, cursor)
      BY <2>1 DEF ChunkingInv, CutsHold
    <3>2. cursor = LineCount + 1
      BY <2>1, <3>1 DEF Emits
    <3> QED
      BY <3>1, <3>2
  <2>2. CASE stage = "windows" /\ cursor > LineCount
    <3>1. cursor <= LineCount + 1 /\ CoversTo(out, BlankLines, cursor)
      BY <2>2 DEF ChunkingInv, WindowsHold
    <3>2. cursor = LineCount + 1
      BY <1>2, <1>3, <2>2, <3>1
    <3> QED
      BY <3>1, <3>2
  <2>3. CASE BlankRange(1, LineCount)
    <3> DEFINE n == LineCount + 1
    <3>1. \A x \in 1 .. n - 1 : x \in BlankLines
      BY <1>3, <2>3 DEF BlankRange, BlankLines
    <3> HIDE DEF n
    <3>2. CoversTo(out, BlankLines, n)
      BY <3>1 DEF CoversTo
    <3> QED
      BY <3>2 DEF n
  <2> QED
    BY <1>1, <2>1, <2>2, <2>3
<1>5. OutHolds'
  <2>1. OutFits(out, Within) /\ (boundaries = Nil => Labelled(out, file.policy, cursor))
    <3>1. stage = "emit" => Unnamed(work, cursor) = cursor
      BY <1>1 DEF Unnamed
    <3> QED
      BY <3>1 DEF ChunkingInv, OutHolds
  <2> QED
    BY <1>1, <1>2, <2>1 DEF OutHolds
<1>6. StagesHold'
  BY <1>1 DEF ChunkingInv, StagesHold
<1>7. PlanHolds' /\ CutsHold' /\ WindowsHold' /\ CoverHolds'
  BY <1>1, <1>2, <1>4 DEF PlanHolds, CutsHold, WindowsHold, CoverHolds
<1> QED
  BY <1>5, <1>6, <1>7 DEF ChunkingInv

\* The invariant holds of every file that is cut: what is planned, pending and left of it takes its
\* lines in turn (chunkSnapshot, and the planners it calls).
THEOREM ChunkingInvariant == ChunkingSpec => []ChunkingInv
<1>1. ChunkingInit => ChunkingInv
  <2> SUFFICES ASSUME ChunkingInit PROVE ChunkingInv
    OBVIOUS
  <2>1. /\ file \in Sources /\ boundaries = Nil /\ stage = "start" /\ work = <<>> /\ pending = <<>> /\ chunks = <<>>
        /\ cursor = 1 /\ out = <<>> /\ refused = Nil
    BY DEF ChunkingInit
  <2>2. StagesHold
    BY <2>1 DEF StagesHold
  <2>3. OutHolds
    BY <2>1, NoFragments DEF OutHolds
  <2> QED
    BY <2>1, <2>2, <2>3 DEF ChunkingInv, PlanHolds, CutsHold, WindowsHold, CoverHolds
<1>2. ChunkingInv /\ [ChunkingNext]_chunkingVars => ChunkingInv'
  <2> SUFFICES ASSUME ChunkingInv, [ChunkingNext]_chunkingVars PROVE ChunkingInv'
    OBVIOUS
  <2>1. CASE LongLine
    BY <2>1, LongLineKeeps
  <2>2. CASE ParseFile
    BY <2>2, ParseFileKeeps
  <2>3. CASE PackUnit \/ PlanNode \/ PlanUnit \/ EndOfUnits
    BY <2>3, PlanningKeeps
  <2>4. CASE Planned
    BY <2>4, PlannedKeeps
  <2>5. CASE EmitRange
    BY <2>5, EmitRangeKeeps
  <2>6. CASE EmitWindow
    BY <2>6, EmitWindowKeeps
  <2>7. CASE LineWindow
    BY <2>7, LineWindowKeepsAll
  <2>8. CASE FinishChunking
    BY <2>8, FinishKeeps
  <2>9. CASE UNCHANGED chunkingVars
    <3>1. UNCHANGED <<file, boundaries, stage, work, pending, chunks, cursor, out, refused>>
      BY <2>9 DEF chunkingVars
    <3>2. /\ LineCount' = LineCount /\ BlankLines' = BlankLines /\ Within' = Within /\ BigRanges' = BigRanges
          /\ WindowEnds' = WindowEnds /\ LineWindowEnds' = LineWindowEnds
      BY <3>1, FileStays
    <3>3. StagesHold' /\ PlanHolds' /\ OutHolds'
      BY <3>1, <3>2 DEF ChunkingInv, StagesHold, PlanHolds, OutHolds
    <3>4. CutsHold' /\ WindowsHold' /\ CoverHolds'
      BY <3>1, <3>2 DEF ChunkingInv, CutsHold, WindowsHold, CoverHolds
    <3> QED
      BY <3>3, <3>4 DEF ChunkingInv
  <2> QED
    BY <2>1, <2>2, <2>3, <2>4, <2>5, <2>6, <2>7, <2>8, <2>9 DEF ChunkingNext
<1> QED
  BY <1>1, <1>2, PTL DEF ChunkingSpec

\* Every line that is not blank is in a fragment, whatever the file, its tree and its statements
\* (chunker.ts:11).
THEOREM LinesAreCovered == ChunkingSpec => []EveryLineCovered
<1>1. ChunkingInv => EveryLineCovered
  <2> SUFFICES ASSUME ChunkingInv, stage = "done", refused = Nil, NEW l \in Lines, ~file.blank[l]
               PROVE  \E f \in Range(out) : l \in f.first .. f.last
    BY DEF EveryLineCovered, UncoveredNonBlankLines
  <2>1. CoversTo(out, BlankLines, LineCount + 1) /\ OutFits(out, Within) /\ file \in Sources
    BY DEF ChunkingInv, CoverHolds, OutHolds, StagesHold
  <2>2. LineCount \in Nat /\ l \in 1 .. LineCount
    BY <2>1, FileIs
  <2> DEFINE n == LineCount + 1
  <2>3. l \in 1 .. n - 1 /\ l \notin BlankLines /\ CoversTo(out, BlankLines, n)
    BY <2>1, <2>2 DEF BlankLines
  <2> HIDE DEF n
  <2>4. PICK i \in 1 .. Len(out) : l \in out[i].first .. out[i].last
    BY <2>3 DEF CoversTo
  <2>5. out[i] \in Range(out)
    <3>1. DOMAIN out = 1 .. Len(out)
      BY <2>1, LenProperties DEF OutFits
    <3> QED
      BY <2>4, <3>1 DEF Range
  <2> QED
    BY <2>4, <2>5
<1> QED
  BY <1>1, ChunkingInvariant, PTL

\* Fragments keep to the limits by their own text, and follow and overlap one another as they may
\* (specification 5.4), in every language.
THEOREM SizesAreKept == ChunkingSpec => []SizesFit
<1>1. ChunkingInv => SizesFit
  <2> SUFFICES ASSUME ChunkingInv PROVE SizesFit
    OBVIOUS
  <2>1. OutFits(out, Within)
    BY DEF ChunkingInv, OutHolds
  <2>2. DOMAIN out = 1 .. Len(out) /\ Len(out) \in Nat
    BY <2>1, LenProperties DEF OutFits
  <2>3. \A i \in 1 .. Len(out) : /\ TokenCount(out[i].first, out[i].last) <= MaxTokens
                                 /\ RangeBytes(out[i].first, out[i].last) <= MaxBytes
                                 /\ out[i].last - out[i].first + 1 <= MaxLines
    <3> TAKE i \in 1 .. Len(out)
    <3> DEFINE r == <<out[i].first, out[i].last>>
    <3>1. r \in Within /\ r[1] = out[i].first /\ r[2] = out[i].last
      BY <2>1 DEF OutFits
    <3> HIDE DEF r
    <3>2. TokenCount(r[1], r[2]) <= MaxTokens /\ RangeBytes(r[1], r[2]) <= MaxBytes /\ r[2] - r[1] + 1 <= MaxLines
      BY <3>1 DEF Within
    <3> QED
      BY <3>1, <3>2
  <2>4. \A i \in 1 .. Len(out) : i > 1 => i \in 2 .. Len(out)
    BY <2>2
  <2>5. \A i \in 2 .. Len(out) : /\ out[i].first > out[i - 1].first /\ out[i].last >= out[i - 1].last
                                 /\ out[i].first > out[i - 1].last - OverlapLines
    BY <2>1 DEF OutFits
  <2> QED
    BY <2>2, <2>3, <2>4, <2>5 DEF SizesFit
<1> QED
  BY <1>1, ChunkingInvariant, PTL

\* Where no statements were found by a scanner - a file with a tree of JavaScript, or cut without
\* its structure - fragments are labelled with what they hold as well.
THEOREM FragmentsAreTold == ChunkingSpec => [](boundaries = Nil => FragmentsFit)
<1>1. ChunkingInv => (boundaries = Nil => LabelsTell)
  <2> SUFFICES ASSUME ChunkingInv, boundaries = Nil PROVE LabelsTell
    OBVIOUS
  <2>1. OutFits(out, Within) /\ \E l : Labelled(out, file.policy, l)
    BY DEF ChunkingInv, OutHolds
  <2>2. DOMAIN out = 1 .. Len(out) /\ Len(out) \in Nat
    BY <2>1, LenProperties DEF OutFits
  <2>3. ASSUME NEW i \in 1 .. Len(out), NEW f, f = out[i],
               NEW range, range = IF f.declaration = Nil THEN f ELSE f.declaration
        PROVE  /\ range.first <= f.first /\ f.last <= range.last
               /\ IF file.policy = "context"
                  THEN \A x \in 2 .. Len(f.label) : f.label[x - 1] <= f.label[x]
                  ELSE /\ Len(f.label) <= 1 /\ Range(f.label) \subseteq range.first .. range.last
                       /\ f.label # <<>> => \A j \in 1 .. i - 1 : out[j].label # f.label
    <3>1. PICK l : Labelled(out, file.policy, l)
      BY <2>1
    <3>2. /\ Tells(f, file.policy)
          /\ file.policy # "context" /\ f.label # <<>> => \A j \in 1 .. i - 1 : out[j].label # f.label
      BY <2>3, <3>1 DEF Labelled
    <3>3. /\ range.first <= f.first /\ f.last <= range.last
          /\ IF file.policy = "context" THEN \A x \in 2 .. Len(f.label) : f.label[x - 1] <= f.label[x]
             ELSE f.label # <<>> => \E line \in range.first .. range.last : f.label = <<line>>
      BY <2>3, <3>2 DEF Tells
    <3>4. ASSUME file.policy # "context" PROVE Len(f.label) <= 1 /\ Range(f.label) \subseteq range.first .. range.last
      <4>1. CASE f.label = <<>>
        BY <4>1 DEF Range
      <4>2. CASE f.label # <<>>
        <5>1. PICK line \in range.first .. range.last : f.label = <<line>>
          BY <3>3, <3>4, <4>2
        <5>2. Len(<<line>>) = 1 /\ Range(<<line>>) = {line}
          BY DEF Range
        <5> QED
          BY <5>1, <5>2
      <4> QED
        BY <4>1, <4>2
    <3> QED
      BY <3>2, <3>3, <3>4
  <2> QED
    BY <2>2, <2>3 DEF LabelsTell
<1>2. ChunkingSpec => []ChunkingInv /\ []SizesFit
  BY ChunkingInvariant, SizesAreKept
<1>3. ChunkingInv /\ SizesFit => (boundaries = Nil => FragmentsFit)
  BY <1>1 DEF FragmentsFit
<1> QED
  BY <1>2, <1>3, PTL
=============================================================================
