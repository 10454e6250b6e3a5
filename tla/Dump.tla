-------------------------------- MODULE Dump --------------------------------
(***************************************************************************)
(* One line of a dump, as src/rust/src/dump.rs reads it: a JSON object of  *)
(* exactly one path, under "path" or "path_pb", and up to two maps of      *)
(* strings, "xattrs" and "xattrs_pb"; and the guard on the path.           *)
(*                                                                         *)
(* A line is a sequence of tokens, a string token carrying its text after  *)
(* unescaping (Json.tla has the escapes).  White space separates tokens    *)
(* and a blank line has none.  Whatever else a line may hold, bytes that   *)
(* are not UTF-8 included, is a token of type "bad".  A text is a sequence *)
(* of characters; the four keys are single characters of their own.        *)
(***************************************************************************)
EXTENDS Integers, SequencesExt

CONSTANTS
  Characters,   \* what texts are made of
  Letters,      \* characters that may name a drive
  Nul           \* the NUL character

Texts  == Seq(Characters)
Tokens == [type : STRING, text : Texts]

Key(k) == <<k>>
PathKeys == {Key("path"), Key("path_pb")}
MapKeys  == {Key("xattrs"), Key("xattrs_pb")}

End == [type |-> "end", text |-> <<>>]
TokenAt(line, i) == IF i \in DOMAIN line THEN line[i] ELSE End
TypeAt(line, i) == TokenAt(line, i).type

-----------------------------------------------------------------------------
(* Parser                                                                  *)

\* What a loop over comma-separated items does after an item.
AfterItem(type) == IF type = "," THEN "more" ELSE IF type = "}" THEN "end" ELSE "bad"

KeyIsNew(k, entries) == \A e \in ToSet(entries) : e.key # k
AnyKey(k, entries)   == TRUE

\* Keys are unique within a map.
Unique(k, entries) == KeyIsNew(k, entries)

\* One round of string_map's loop: "key" : "value" and the comma or brace.
MapEntry(line, st) ==
  LET k == TokenAt(line, st.i)
      v == TokenAt(line, st.i + 2)
  IN IF /\ k.type = "string" /\ TypeAt(line, st.i + 1) = ":" /\ v.type = "string"
        /\ Unique(k.text, st.entries)
     THEN [i |-> st.i + 4,
           entries |-> Append(st.entries, [key |-> k.text, value |-> v.text]),
           status |-> AfterItem(TypeAt(line, st.i + 3))]
     ELSE [st EXCEPT !.status = "bad"]

\* A loop takes at least one token a round.
WhileMore(Round(_, _), line, start) ==
  LET after[n \in 0..Len(line)] ==
        IF n = 0 THEN start
        ELSE LET st == after[n - 1] IN IF st.status = "more" THEN Round(line, st) ELSE st
  IN after[Len(line)]

StringMap(line, i) ==
  LET start == [i |-> i + 1, entries |-> <<>>, status |-> "more"]
  IN IF TypeAt(line, i) # "{" THEN [start EXCEPT !.status = "bad"]
     ELSE IF TypeAt(line, i + 1) = "}" THEN [i |-> i + 2, entries |-> <<>>, status |-> "end"]
     ELSE WhileMore(MapEntry, line, start)

\* One round of parse_line's loop: a key, met once, and its value.
Member(line, st) ==
  LET key == TokenAt(line, st.i)
      k   == key.text
      at  == st.i + 2
      map == StringMap(line, at)
      bad == [st EXCEPT !.status = "bad"]
  IN IF key.type # "string" \/ TypeAt(line, st.i + 1) # ":" THEN bad
     ELSE IF k \in PathKeys /\ st.path = {} /\ TypeAt(line, at) = "string"
     THEN [st EXCEPT !.i = at + 2, !.status = AfterItem(TypeAt(line, at + 1)),
                     !.path = {[field |-> k, key |-> <<>>, value |-> TokenAt(line, at).text]}]
     ELSE IF k \in MapKeys /\ k \notin DOMAIN st.maps /\ map.status = "end"
     THEN [st EXCEPT !.i = map.i + 1, !.status = AfterItem(TypeAt(line, map.i)),
                     !.maps = [x \in DOMAIN @ \cup {k} |-> IF x = k THEN map.entries ELSE @[x]]]
     ELSE bad

\* What is emitted for a map: its entries, in document order.
Emitted(maps, k) ==
  IF k \in DOMAIN maps
  THEN [j \in DOMAIN maps[k] |-> [field |-> k, key |-> maps[k][j].key, value |-> maps[k][j].value]]
  ELSE <<>>

\* The fields of a line in the order they are emitted: the path, the xattrs,
\* the xattrs_pb; none at all of a line that is malformed anywhere.
ParseLine(line) ==
  LET start == [i |-> 2, path |-> {}, maps |-> [k \in {} |-> <<>>], status |-> "more"]
      st == IF TypeAt(line, 1) # "{" THEN [start EXCEPT !.status = "bad"]
            ELSE IF TypeAt(line, 2) = "}" THEN [start EXCEPT !.i = 3, !.status = "end"]
            ELSE WhileMore(Member, line, start)
  IN IF st.status = "end" /\ st.i = Len(line) + 1 /\ st.path # {}
     THEN [ok |-> TRUE,
           fields |-> SetToSeq(st.path) \o Emitted(st.maps, Key("xattrs"))
                                        \o Emitted(st.maps, Key("xattrs_pb"))]
     ELSE [ok |-> FALSE, fields |-> <<>>]

-----------------------------------------------------------------------------
(* The restore guard                                                       *)

PosixSeparators == {"/"}
Separators == {"/", "\\"}

\* p[i..j] is a part of the split of p at the separators; j = i - 1 when empty.
IsPart(p, seps, i, j) ==
  /\ i <= j + 1
  /\ \A n \in i..j : p[n] \notin seps
  /\ i = 1 \/ p[i - 1] \in seps
  /\ j = Len(p) \/ p[j + 1] \in seps

Up == <<".", ".">>

HasUp(p, seps) ==
  \E i, j \in DOMAIN p : IsPart(p, seps, i, j) /\ SubSeq(p, i, j) = Up

IsAbsolutePath(p) ==
  /\ p # <<>>
  /\ p[1] \in Separators \/ (Len(p) > 1 /\ p[1] \in Letters /\ p[2] = ":")

ContainedByPosix(p) ==
  p # <<>> /\ Nul \notin ToSet(p) /\ ~IsAbsolutePath(p) /\ ~HasUp(p, PosixSeparators)

IsContainedRelativePath(p) ==
  /\ p # <<>>
  /\ Nul \notin ToSet(p)
  /\ ~IsAbsolutePath(p)
  /\ ~HasUp(p, Separators)

-----------------------------------------------------------------------------
(* What a dump line is, said without the parser: an object whose members   *)
(* are a path and maps, each key once.  A member stands between two        *)
(* neighbours among the commas that separate members and the outer braces. *)

\* l[i..j] is a map of n pairs, the h-th of which begins at i + 4 * h - 3.
IsMap(l, i, j, n) ==
  LET key(h) == i + 4 * h - 3
  IN /\ TypeAt(l, i) = "{" /\ TypeAt(l, j) = "}"
     /\ j = IF n = 0 THEN i + 1 ELSE i + 4 * n
     /\ \A h \in 1..n : /\ TypeAt(l, key(h)) = "string" /\ TypeAt(l, key(h) + 1) = ":"
                        /\ TypeAt(l, key(h) + 2) = "string"
                        /\ h < n => TypeAt(l, key(h) + 3) = ","
     /\ \A g, h \in 1..n : g < h => TokenAt(l, key(g)).text # TokenAt(l, key(h)).text

KeyAfter(l, b) == TokenAt(l, b + 1).text

\* A member between b and e: the path, or a map.
IsMember(l, b, e) ==
  /\ TypeAt(l, b + 1) = "string" /\ TypeAt(l, b + 2) = ":"
  /\ \/ KeyAfter(l, b) \in PathKeys /\ TypeAt(l, b + 3) = "string" /\ e = b + 4
     \/ KeyAfter(l, b) \in MapKeys /\ \E n \in 0..Len(l) : IsMap(l, b + 3, e - 1, n)

Neighbours(B) == {m \in B \X B : m[1] < m[2] /\ \A c \in B : c <= m[1] \/ m[2] <= c}

Commas(l) == {i \in DOMAIN l : l[i].type = ","}

\* The members of l when the commas C separate them: what each stands between.
Members(l, C) == Neighbours({1, Len(l)} \cup C)

IsReading(l, C) ==
  LET ms == Members(l, C)
  IN /\ \A m \in ms : IsMember(l, m[1], m[2])
     /\ \A m, o \in ms : m # o => KeyAfter(l, m[1]) # KeyAfter(l, o[1])
     /\ \E m \in ms : /\ KeyAfter(l, m[1]) \in PathKeys
                     /\ \A o \in ms \ {m} : KeyAfter(l, o[1]) \notin PathKeys

\* The ways to read l as a dump line: none or one.
Readings(l) ==
  IF TypeAt(l, 1) = "{" /\ TypeAt(l, Len(l)) = "}"
  THEN {C \in SUBSET Commas(l) : IsReading(l, C)} ELSE {}

MeantPath(l, ms) ==
  LET m == CHOOSE m \in ms : KeyAfter(l, m[1]) \in PathKeys
  IN [field |-> KeyAfter(l, m[1]), key |-> <<>>, value |-> TokenAt(l, m[1] + 3).text]

MeantMap(l, ms, k) ==
  LET at == {m \in ms : KeyAfter(l, m[1]) = k}
      m  == CHOOSE m \in at : TRUE
      n  == CHOOSE n \in 0..Len(l) : IsMap(l, m[1] + 3, m[2] - 1, n)
  IN IF at = {} THEN <<>>
     ELSE [h \in 1..n |-> [field |-> k, key |-> TokenAt(l, m[1] + 4 * h).text,
                           value |-> TokenAt(l, m[1] + 4 * h + 2).text]]

Meaning(l) ==
  LET ms == Members(l, CHOOSE C \in Readings(l) : TRUE)
  IN <<MeantPath(l, ms)>> \o MeantMap(l, ms, Key("xattrs")) \o MeantMap(l, ms, Key("xattrs_pb"))

\* Where the parts of p[1..k] begin that go up, and those that go down.
Ups(p, seps, k) ==
  {i \in 1..k : \E j \in 1..k : IsPart(p, seps, i, j) /\ SubSeq(p, i, j) = Up}
Downs(p, seps, k) ==
  {i \in 1..k : \E j \in 1..k : /\ i <= j /\ IsPart(p, seps, i, j)
                              /\ SubSeq(p, i, j) \notin {Up, <<".">>}}

\* A path leaves the directory it starts from at some point on its way, by
\* the rules of a system with these separators.
Climbs(p, seps) ==
  \E k \in DOMAIN p : Cardinality(Ups(p, seps, k)) > Cardinality(Downs(p, seps, k))

\* A path does not start from the current directory: POSIX, Windows.
Anchored(p) ==
  \/ p # <<>> /\ p[1] \in {"/", "\\"}
  \/ Len(p) > 1 /\ p[1] \in Letters /\ p[2] = ":"

StaysInside(p) == ~Anchored(p) /\ ~Climbs(p, PosixSeparators) /\ ~Climbs(p, Separators)
=============================================================================
