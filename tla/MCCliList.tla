----------------------------- MODULE MCCliList -----------------------------
(***************************************************************************)
(* A tree of up to seven paths, three levels deep.  The trees to start     *)
(* from have a directory beside a link, files below, and a link to nowhere.*)
(***************************************************************************)
EXTENDS CliList

MCRank  == "x" :> 1 @@ "y" :> 2
MCPaths == {<<>>, <<"x">>, <<"y">>, <<"x", "x">>, <<"x", "y">>, <<"y", "x">>, <<"x", "x", "x">>}

Full == [p \in MCPaths |->
  CASE p \in {<<>>, <<"x">>, <<"x", "x">>, <<"y">>} -> "directory"
    [] p = <<"x", "y">> -> "dangling"
    [] OTHER -> "other"]

Linked == [p \in MCPaths |->
  CASE p \in {<<>>, <<"y">>} -> "directory"
    [] p = <<"x">> -> "symlink"
    [] p = <<"y", "x">> -> "other"
    [] OTHER -> "none"]

MCTrees == {Full, Linked}

Ask(order, limit, types, visitor, follow, values) ==
  [order |-> order, limit |-> limit, types |-> types, visitor |-> visitor,
   follow |-> follow, values |-> values]

\* Both orders, with and without a limit; kinds told or not; links followed
\* or not; values read or not; and a caller of the library that may stop.
MCOptions == {
  Ask("breadth", Unlimited, TRUE, "walk_visit", TRUE, FALSE),
  Ask("depth", Unlimited, TRUE, "walk_visit", FALSE, FALSE),
  Ask("breadth", 2, FALSE, "walk_visit", FALSE, FALSE),
  Ask("depth", 2, FALSE, "walk_visit", TRUE, FALSE),
  Ask("depth", 1, TRUE, "walk_visit", TRUE, TRUE),
  Ask("breadth", 1, FALSE, "walk_visit", FALSE, TRUE),
  Ask("breadth", 0, TRUE, "walk_visit", FALSE, FALSE),
  Ask("breadth", Unlimited, TRUE, "caller", FALSE, FALSE),
  Ask("depth", Unlimited, TRUE, "caller", FALSE, FALSE)}
=============================================================================
