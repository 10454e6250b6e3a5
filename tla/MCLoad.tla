------------------------------- MODULE MCLoad -------------------------------
(***************************************************************************)
(* Dumps of one line and of three.  The single lines are every path of up  *)
(* to four characters (root, drive, dots, both separators, NUL), and every *)
(* line one token away from a dump line: dropped, doubled, or replaced.    *)
(* The dumps of three mix lines that restore, that fail and that are       *)
(* refused, and end with one that restores.                                *)
(***************************************************************************)
EXTENDS Load, TLC

\* "#" decodes to a slash, as the glyph of one does.
MCByte == [c \in {"a", "/", "\\", ".", ":", "1", "0", "path", "xattrs"} |-> c] @@ "#" :> "/"

MCCharacters == DOMAIN MCByte \cup {"path_pb", "xattrs_pb"}

P(type) == [type |-> type, text |-> <<>>]
S(text) == [type |-> "string", text |-> text]
K(key)  == S(Key(key))

Pair(k, v) == <<S(k), P(":"), S(v)>>
Map(pairs) == <<P("{")>> \o (IF pairs = <<>> THEN <<>>
                             ELSE FoldLeft(LAMBDA l, p : l \o <<P(",")>> \o p, Head(pairs), Tail(pairs)))
              \o <<P("}")>>
PathIs(k, p) == <<K(k), P(":"), S(p)>>
MapIs(k, pairs) == <<K(k), P(":")>> \o Map(pairs)

OnlyPath(k, p) == Map(<<PathIs(k, p)>>)

A == <<"a">>  B == <<"1">>  Slash == <<"#">>

\* Both maps, and out of order.
Plain  == Map(<<PathIs("path", A), MapIs("xattrs", <<Pair(A, Slash)>>)>>)
Twice  == Map(<<MapIs("xattrs_pb", <<Pair(Slash, A), Pair(<<>>, B)>>), PathIs("path", B),
                MapIs("xattrs", <<Pair(B, A), Pair(A, A)>>)>>)
Hidden == Map(<<PathIs("path_pb", <<".", ".", "#", "a">>), MapIs("xattrs", <<Pair(A, A)>>)>>)
Away   == Map(<<PathIs("path", <<"/", "a">>), MapIs("xattrs", <<Pair(A, A)>>)>>)

Others == {P("{"), P("}"), P(":"), P(","), P("bad"), S(A), K("path"), K("xattrs")}

Near(l) ==
  {RemoveAt(l, i) : i \in DOMAIN l} \cup {InsertAt(l, i, l[i]) : i \in DOMAIN l}
  \cup {[l EXCEPT ![i] = t] : i \in DOMAIN l, t \in Others} \cup {l \o <<t>> : t \in Others}

PathCharacters == {"a", "/", "\\", ".", ":", "0"}
GuardedPaths == UNION {[1..n -> PathCharacters] : n \in 0..3} \cup
  {<<c>> \o <<s, ".", ".">> : c \in PathCharacters, s \in PathCharacters} \cup
  {<<".", ".">> \o <<s, c>> : c \in PathCharacters, s \in PathCharacters} \cup
  {<<"1", ":">>, <<".", "/", ".", ".">>, <<"a", "/", ".", ".", "/", "a">>}

WithAttr(p) == Map(<<PathIs("path", p), MapIs("xattrs", <<Pair(A, B)>>)>>)

Few == {<<>>, Plain, Twice, Hidden, Away, <<P("bad")>>}

MCDumps ==
  {<<l>> : l \in {WithAttr(p) : p \in GuardedPaths} \cup Near(Plain) \cup Near(Twice)}
  \cup {<<k, l, Plain>> : k \in Few, l \in Few}

MCSettings == [file : {TRUE}, unsafe : BOOLEAN, root : {NoRoot, <<"1">>}]
=============================================================================
