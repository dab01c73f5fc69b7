----------------------------- MODULE MCMcpServer -----------------------------
(* Values for the constants of McpServer that a .cfg cannot write.         *)
EXTENDS McpServer, TLC

CONSTANTS r1, r2, r3, r4, i1, i2, i3

\* Four calls, the first and the last under the same id.
FourIds == r1 :> i1 @@ r2 :> i2 @@ r3 :> i3 @@ r4 :> i1

=============================================================================
