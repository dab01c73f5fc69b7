---------------------------- MODULE MCPreparation ----------------------------
(***************************************************************************)
(* .gitignore             ignores a/x and everything in d/                 *)
(* a/  .jevgrepignore     !x, dropped; y                                   *)
(*     x  y  z                                                             *)
(* b/  .gitignore         !x                                               *)
(*     x                                                                   *)
(* d/  w                                                                   *)
(* .git/  config                                                           *)
(* s                      a link                                           *)
(***************************************************************************)
EXTENDS Preparation, TLC

MCNames == <<".git", ".git/config", ".gitignore", "a", "a/.jevgrepignore", "a/x", "a/y", "a/z", "b", "b/.gitignore", "b/x",
             "d", "d/w", "s">>
MCParent == [p \in Range(MCNames) |->
  CASE p \in {"a/.jevgrepignore", "a/x", "a/y", "a/z"} -> "a"
    [] p \in {"b/.gitignore", "b/x"} -> "b"
    [] p = "d/w" -> "d"
    [] p = ".git/config" -> ".git"
    [] OTHER -> "."]
MCAbove[p \in {"."} \cup Range(MCNames)] == IF p = "." THEN <<".">> ELSE Append(MCAbove[MCParent[p]], p)
MCDirs == {".", "a", "b", "d", ".git"}

File(size, verdict, fragments) == [kind |-> "file", size |-> size, verdict |-> verdict, fragments |-> fragments]
Other(kind) == [kind |-> kind, size |-> 1, verdict |-> kind, fragments |-> 0]

MCTree == [p \in {"."} \cup Range(MCNames) |->
  IF p \in MCDirs THEN Other("dir") ELSE IF p = "s" THEN Other("link")
  ELSE IF p = "a/z" THEN File(1, "credential_pattern", 1)
  ELSE IF p = "b/x" THEN File(2, "ok", 2) ELSE File(1, "ok", 1)]
MCChanges == [p \in {"."} \cup Range(MCNames) |->
  CASE p = "b" -> {Other("link"), Other("missing")}
    [] p = "b/x" -> {File(0, "ok", 0), File(3, "ok", 3), Other("dir"), Other("missing")}
    [] p = "a/.jevgrepignore" -> {Other("link"), Other("missing")}
    [] p = "s" -> {File(1, "ok", 1)}
    [] OTHER -> {}]

MCDirClass  == [p \in {"."} \cup Range(MCNames) |-> IF p = ".git" THEN "administrative" ELSE Nothing]
MCFileClass == [p \in Range(MCNames) |-> Nothing]
MCGitignore == [d \in {"."} \cup Range(MCNames) |-> CASE d = "." -> ".gitignore" [] d = "b" -> "b/.gitignore" [] OTHER -> Nothing]
MCNarrowing == [d \in {"."} \cup Range(MCNames) |-> IF d = "a" THEN "a/.jevgrepignore" ELSE Nothing]

Rule(negated, dirOnly, matches) == [negated |-> negated, dirOnly |-> dirOnly, matches |-> matches]
MCRules ==
  ".gitignore" :> <<Rule(FALSE, FALSE, {"a/x", "b/x"}), Rule(FALSE, TRUE, {"d", "d/w"})>>
  @@ "a/.jevgrepignore" :> <<Rule(TRUE, FALSE, {"a/x"}), Rule(FALSE, FALSE, {"a/y"})>>
  @@ "b/.gitignore" :> <<Rule(TRUE, FALSE, {"b/x"})>>

MCScopes == {<<".">>, <<"b/x", "b", "s">>, <<"a/y", ".">>, <<"a">>, <<"d/w", "b">>, <<".git">>}
MCLimits == {[files |-> f, bytes |-> b, fragments |-> g] :
              f \in {1, Unlimited}, b \in {3, Unlimited}, g \in {3, Unlimited}}
=============================================================================
