--------------------------------- MODULE Json ---------------------------------
(***************************************************************************)
(* JSON strings as the command line tool writes them (json_string and      *)
(* json_field_utf8_or_pb of src/rust/src/main.rs) and as load reads them   *)
(* back (Parser::string of src/rust/src/dump.rs).                          *)
(***************************************************************************)
EXTENDS Pb, TLC

Quote == 34
Backslash == 92
HexDigit == <<48, 49, 50, 51, 52, 53, 54, 55, 56, 57, 97, 98, 99, 100, 101, 102>>

\* A byte inside a string: what must be escaped is, the rest stays as it is.
Escape(c) ==
  IF c \in {Quote, Backslash} THEN <<Backslash, c>>
  ELSE IF c < 32 THEN <<Backslash, 117, 48, 48, HexDigit[c \div 16 + 1], HexDigit[(c % 16) + 1]>>
  ELSE <<c>>

JsonString(s) == <<Quote>> \o FlattenSeq([k \in DOMAIN s |-> Escape(s[k])]) \o <<Quote>>

\* json_field_utf8_or_pb: JSON cannot carry bytes that are not UTF-8, so those
\* are encoded and their key says so.
Utf8OrPb(key, keyPb, s) ==
  IF IsUtf8(s) THEN [key |-> key, text |-> JsonString(s)]
  ELSE [key |-> keyPb, text |-> JsonString(Encode(s))]

-----------------------------------------------------------------------------
(* Parser::string                                                          *)

Simple == 34 :> 34 @@ 92 :> 92 @@ 47 :> 47 @@ 98 :> 8 @@ 102 :> 12
          @@ 110 :> 10 @@ 114 :> 13 @@ 116 :> 9

DigitValue(c) ==
  CASE c \in 48..57 -> c - 48
    [] c \in 97..102 -> c - 87
    [] c \in 65..70 -> c - 55
    [] OTHER -> -1

\* Four hexadecimal digits at s[i], or -1.
Hex4(s, i) ==
  LET digits == SubSeq(s, i, i + 3)
  IN IF i + 3 <= Len(s) /\ \A d \in ToSet(digits) : DigitValue(d) >= 0
     THEN FoldLeft(LAMBDA v, d : v * 16 + DigitValue(d), 0, digits)
     ELSE -1

High == 55296..56319
Low  == 56320..57343

\* \uXXXX at s[i], a pair of them for a code point beyond the sixteen bits.
Unicode(s, i) ==
  LET u  == Hex4(s, i + 2)
      lo == Hex4(s, i + 8)
      paired == i + 7 <= Len(s) /\ s[i + 6] = Backslash /\ s[i + 7] = 117 /\ lo \in Low
  IN IF u < 0 \/ u \in Low \/ (u \in High /\ ~paired) THEN [n |-> 0, bytes |-> <<>>]
     ELSE IF u \in High
     THEN [n |-> 12, bytes |-> Utf8(65536 + (u - 55296) * 1024 + lo - 56320)]
     ELSE [n |-> 6, bytes |-> Utf8(u)]

\* One character of a string at s[i] and how many bytes it takes: 0 of a
\* control character and of an escape that is none.
CharAt(s, i) ==
  LET c == s[i]
      e == IF i < Len(s) THEN s[i + 1] ELSE 0
  IN IF c = Backslash
     THEN IF e = 117 THEN Unicode(s, i)
          ELSE IF e \in DOMAIN Simple THEN [n |-> 2, bytes |-> <<Simple[e]>>]
          ELSE [n |-> 0, bytes |-> <<>>]
     ELSE IF c < 32 THEN [n |-> 0, bytes |-> <<>>]
     ELSE [n |-> 1, bytes |-> <<c>>]

\* The string that starts at s[1]: its text, and where it ends, at the first
\* quote that is not escaped.
ParseString(s) ==
  FoldLeft(LAMBDA st, b :
             IF st.status # "in" THEN st
             ELSE IF st.i > Len(s) THEN [st EXCEPT !.status = "bad"]
             ELSE IF s[st.i] = Quote THEN [st EXCEPT !.status = "end", !.i = @ + 1]
             ELSE LET found == CharAt(s, st.i)
                  IN IF found.n = 0 THEN [st EXCEPT !.status = "bad"]
                     ELSE [st EXCEPT !.i = @ + found.n, !.text = @ \o found.bytes],
           [status |-> IF s = <<>> \/ s[1] # Quote THEN "bad" ELSE "in", i |-> 2, text |-> <<>>],
           s)
=============================================================================
