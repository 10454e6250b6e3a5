---- MODULE MCCli ----
(***************************************************************************)
(* Command lines: every three arguments out of one of each sort, options   *)
(* in every place of a command, and every pair of listing options.         *)
(* Numbers are of five bits; a default limit of two bytes.                 *)
(***************************************************************************)
EXTENDS Cli

Long(name)  == [Word(name) EXCEPT !.lead = "--"]
Short(name) == [Word(name) EXCEPT !.lead = "-"]
Slash(name) == [Word(name) EXCEPT !.lead = "/"]
With(option, eq, text) == [option EXCEPT !.eq = eq, !.value = text]
Text(text) == [Word("") EXCEPT !.value = text]

one == <<<<1>>>>
path == Word("p")

\* One of each sort of argument.
Sorts ==
  {Long(""), Short(""), Long("json"), Short("r"), Long("depth"), With(Long("depth"), "=", <<<<1, 6>>>>),
   Long("limit"), Text(<<<<2>>>>), Slash("json"), Slash("?"), Slash("/p"),
   With(Slash("depth"), ":", one), With(Long("depth"), ":", one), Long("root"), Long("version"),
   With(Long("json"), "=", one), Long("nosuch"), Word("limits"), Word("load"), path}

Anything == UNION {[1..n -> Sorts] : n \in 0..3}

\* Options that are set twice, or nearly out of range.
Numbers ==
  {With(Long("limit"), "=", <<d>>) : d \in {<<0>>, <<1>>, <<3, 1>>, <<3, 2>>, <<4, 0>>, <<NonDigit>>, <<>>}}
  \cup {With(Long("cols"), "=", w) : w \in {<<<<1>>>>, <<<<3>>, <<2>>>>, <<<<1>>, <<>>>>,
                                            <<<<1>>, <<1>>, <<1>>, <<1>>, <<1>>>>}}
  \cup {With(Short("d"), "=", <<<<1, 5>>>>), With(Short("w"), "=", one), Long("nofollow"), Long("color"),
        Long("no-color"), With(Long("root"), "=", <<<<NonDigit>>>>)}

Pairs(set) == {<<>>} \cup {<<x>> : x \in set} \cup {<<x, y>> : x, y \in set}
Call(verb_) == IF verb_ \in {"limits", "load"} THEN <<Word(verb_)>> ELSE <<Word(verb_), path, path>>

Calls == UNION {{p \o Call(v), Call(v) \o p} : p \in Pairs(Numbers), v \in {"put"}}
         \cup {p \o Call(v) : p \in {<<>>, <<Long("json")>>}, v \in {"set", "get", "len", "del", "limits", "load"}}

Shapes ==
  {Long("json"), Long("tsv"), Long("csv"), Long("table"), Long("md"), Long("values"), Long("utf8"), Long("hex"),
   Short("r"), Long("color"), With(Short("w"), "=", <<<<2>>>>),
   With(Long("cols"), "=", <<<<3>>, <<2>>, <<5>>>>), With(Long("cols"), "=", <<<<1>>, <<0>>>>)}

Listings == {p \o <<Word(v), path>> : p \in Pairs(Shapes), v \in {"lst", "dump"}}

MCCommandLines == Anything \cup Calls \cup Listings
DumpLines == {<<Long("json"), Word("dump"), path>>}

MCEnvironments ==
  {[windows |-> FALSE, streams |-> FALSE, noColor |-> FALSE, terminal |-> TRUE, debug |-> FALSE],
   [windows |-> TRUE, streams |-> TRUE, noColor |-> TRUE, terminal |-> TRUE, debug |-> TRUE]}

MCDefaultWidth == [path |-> 5, name |-> 3, type |-> 2, value |-> 4]

e_acute == <<195, 169>>
Attr(name, val) == [name |-> name, value |-> val]

MCFiles ==
  {[path |-> <<112>>, attrs |-> <<>>],
   [path |-> <<97, 44, 34, 98>>,                       \* a,"b
    attrs |-> <<Attr(<<97, 124, 98>>, <<255>>), Attr(e_acute, <<120, 44, 10, 34>>)>>],
   [path |-> <<100, 47>> \o e_acute \o <<110, 111, 100, 101>>,    \* d/\'enode
    attrs |-> <<Attr(<<110, 34>>, e_acute \o e_acute \o <<120>>), Attr(<<233>>, <<0>>)>>],
   [path |-> <<233, 9>>, attrs |-> <<Attr(<<92>>, <<>>)>>]}

MCValues == {<<>>, <<97>>, <<10, 255, 97>>}
MCStdins == {<<>>, <<97>>, <<97, 10>>, <<97, 97, 97>>}
====
