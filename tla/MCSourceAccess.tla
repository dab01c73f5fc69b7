--------------------------- MODULE MCSourceAccess ---------------------------
(***************************************************************************)
(* A root and another directory that may take its place, a directory and   *)
(* another outside the root that a link leads to, two files in the root.   *)
(***************************************************************************)
EXTENDS SourceAccess, TLC

CONSTANTS root, other, dir, outside, foreign, f, g, h, i, toOther, toOutside, toFile

MCDirs   == {Top, root, other, dir, outside, foreign}
MCFiles  == {f, g, h, i}
MCTarget == toOther :> other @@ toOutside :> outside @@ toFile :> h
MCMay    == Top :> {root, other, toOther} @@ root :> {dir, toOutside, None} @@ other :> {}
            @@ dir :> {f, g, toFile} @@ outside :> {} @@ foreign :> {}
MCStart  == Top :> root @@ root :> dir @@ other :> foreign @@ dir :> f
            @@ outside :> h @@ foreign :> i
MCSize   == [x \in MCFiles |-> CASE x = f -> <<2, 2>> [] x = g -> <<1, 3>> [] OTHER -> <<2>>]
=============================================================================
