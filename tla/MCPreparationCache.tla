------------------------- MODULE MCPreparationCache -------------------------
(***************************************************************************)
(* Two files of the same bytes and different chunkers, and a third file    *)
(* that version 1 takes for a credential and version 2 does not.           *)
(***************************************************************************)
EXTENDS PreparationCache

MCContent  == [f \in Files |-> IF f = "b.md" THEN "bytes of a.ts" ELSE "bytes of " \o f]
MCIdentity == [f \in Files |-> IF f = "b.md" THEN "line-window" ELSE "syntax"]
MCVerdict  == <<[c \in Contents |-> IF c = "bytes of c.ts" THEN "credential_pattern" ELSE "ok"],
                [c \in Contents |-> "ok"]>>
MCLines    == [c \in Contents |-> IF c = "bytes of c.ts" THEN 2 ELSE 1]
=============================================================================
