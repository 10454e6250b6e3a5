------------------------------ MODULE NtfsNames ------------------------------
(***************************************************************************)
(* Names of NTFS streams, as src/rust/src/os/windows.rs spells and reads   *)
(* them: byte strings of the library are WTF-8, those of Windows are       *)
(* sequences of 16-bit units.                                              *)
(***************************************************************************)
EXTENDS Bytes

CONSTANT MaxWPath  \* the longest path the NT object manager accepts

Colon == 58
DataSuffix == <<58, 36, 68, 65, 84, 65>>  \* :$DATA

Unit == 0..65535
HighSurrogate == 55296..56319
LowSurrogate  == 56320..57343

UnitsOf(cp) ==
  IF cp < 65536 THEN <<cp>> ELSE <<55296 + (cp - 65536) \div 1024, 56320 + ((cp - 65536) % 1024)>>

\* wtf8_to_utf16: [ok, out], the units of the code points.
Utf16(s) == Scan(s, LAMBDA i : CodePointAt(s, i), LAMBDA out, found : out \o UnitsOf(found.cp))

\* The code point at units[i], an unpaired surrogate standing for itself.
UnitsAt(units, i) ==
  IF units[i] \in HighSurrogate /\ i < Len(units) /\ units[i + 1] \in LowSurrogate
  THEN [cp |-> 65536 + (units[i] - 55296) * 1024 + units[i + 1] - 56320, n |-> 2]
  ELSE [cp |-> units[i], n |-> 1]

\* utf16_to_wtf8
Wtf8(units) ==
  Scan(units, LAMBDA i : UnitsAt(units, i), LAMBDA out, found : out \o Utf8(found.cp)).out

\* stream_path: the units of path:name without the final NUL, or why not.
StreamPath(path, name) ==
  LET p == Utf16(path)
      n == Utf16(name)
      w == p.out \o <<Colon>> \o n.out
  IN IF ~p.ok \/ Len(p.out) + 1 >= MaxWPath THEN [status |-> "InvalidPath", units |-> <<>>]
     ELSE IF ~n.ok \/ Len(w) > MaxWPath THEN [status |-> "InvalidName", units |-> <<>>]
     ELSE [status |-> "OK", units |-> w]

AnyType(rest) == TRUE
IsDataType(rest) == rest = DataSuffix

\* The stream holds data, as opposed to an index or a bitmap.
IsData(rest) == IsDataType(rest)

\* parse_stream_name: name of :name:$DATA, none of the unnamed stream and of
\* streams of other types.
ParseStreamName(found) ==
  LET rest == Tail(found)
      colons == {i \in DOMAIN rest : rest[i] = Colon}
      end == IF colons = {} THEN Len(rest) ELSE Min(colons) - 1
  IN IF found # <<>> /\ found[1] = Colon /\ end > 0 /\ IsData(SubSeq(rest, end + 1, Len(rest)))
     THEN {SubSeq(rest, 1, end)} ELSE {}

\* list_raw: the names of the streams FindFirstStreamW and FindNextStreamW
\* find, each as the bytes of a native name.
ListRaw(streams) ==
  FoldLeft(LAMBDA names, found :
             names \o SetToSeq({Wtf8(units) : units \in ParseStreamName(found)}),
           <<>>, streams)
=============================================================================
