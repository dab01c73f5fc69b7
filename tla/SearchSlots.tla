------------------------------ MODULE SearchSlots ------------------------------
(***************************************************************************)
(* What the MCP server promises about its calls (the lifecycle rules at    *)
(* the head of src/mcp.ts): one search runs, one waits, the others are     *)
(* refused; a call is answered at most once; and once the server closes no *)
(* search starts any more.  McpServer implements it.                       *)
(***************************************************************************)
CONSTANT Requests

VARIABLES
  phase,  \* what has become of each request
  open    \* the server still starts searches

vars == <<phase, open>>

\* "silent" is a call that ended, or was dropped, without an answer.
Phases == {"new", "waiting", "running", "answered", "refused", "silent"}

In(p) == {r \in Requests : phase[r] = p}

\* What a step may make of one request.  "answered", "refused" and "silent" are
\* final.
Moves ==
  {<<p, p>> : p \in Phases} \cup
  {<<"new", p>> : p \in Phases \ {"answered"}} \cup
  {<<"waiting", "running">>, <<"waiting", "silent">>} \cup
  {<<"running", "answered">>, <<"running", "silent">>}

Init == phase = [r \in Requests |-> "new"] /\ open = TRUE

Next ==
  /\ open' \in BOOLEAN /\ (open' => open)
  /\ phase' \in [Requests -> Phases]
  /\ \A r \in Requests : <<phase[r], phase'[r]>> \in Moves
  \* One runs and one waits, and nobody waits for a free slot.
  /\ \A q, r \in Requests :
       phase'[q] = phase'[r] /\ phase'[r] \in {"running", "waiting"} => q = r
  /\ In("waiting")' # {} => In("running")' # {} /\ open'
  \* The waiting call is the next to run, and nothing starts after the close.
  /\ In("running")' \subseteq In("running") \/ open
  /\ In("waiting") # {} => In("running")' \cap In("new") = {}

Spec == Init /\ [][Next]_vars
=============================================================================
