---------------------------- MODULE MCEvaluation ----------------------------
(* Values for the constants of Evaluation that a .cfg cannot write.        *)
EXTENDS Evaluation, TLC

ThreeTokens == <<2, 1, 1>>
ThreeBytes  == <<1, 2, 1>>

\* Caps with room for the plan of three batches and for one retry.
TightCaps == [request_attempts |-> 4, transmitted_bytes |-> 5,
              estimated_input_tokens |-> 5, estimated_cost_usd |-> 3]

\* A status of every family.
MCStatuses == {302, 400, 401, 402, 429, 503}
=============================================================================
