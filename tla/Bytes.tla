-------------------------------- MODULE Bytes --------------------------------
(***************************************************************************)
(* Byte strings as sequences of 0..255, and the UTF-8 in them: what Rust's *)
(* str::from_utf8 accepts and char::encode_utf8 writes, and the counting   *)
(* of code points that src/rust/src/main.rs does on bytes.                 *)
(***************************************************************************)
EXTENDS Integers, SequencesExt

ContinuationByte == 128..191

\* What the second byte of a sequence may be, by its lead byte.
SecondByte(lead) ==
  CASE lead = 224 -> 160..191
    [] lead = 240 -> 144..191
    [] lead = 244 -> 128..143
    [] OTHER -> ContinuationByte

LengthFor(lead) ==
  CASE lead \in 0..127 -> 1
    [] lead \in 194..223 -> 2
    [] lead \in 224..239 -> 3
    [] lead \in 240..244 -> 4
    [] OTHER -> 0

\* Lead byte bits that belong to the code point.
LeadBits(b, n) == CASE n = 1 -> b [] n = 2 -> b % 32 [] n = 3 -> b % 16 [] n = 4 -> b % 8

Malformed == [cp |-> 0, n |-> 0]

\* The code point at s[i], surrogates included, and how many bytes it takes:
\* 0 of bytes that encode none.
CodePointAt(s, i) ==
  LET n == LengthFor(s[i])
      tail == SubSeq(s, i + 1, i + n - 1)
  IN IF /\ n > 0 /\ i + n - 1 <= Len(s)
        /\ n > 1 => tail[1] \in SecondByte(s[i])
        /\ \A j \in DOMAIN tail : tail[j] \in ContinuationByte
     THEN [cp |-> FoldLeft(LAMBDA cp, b : cp * 64 + (b % 64), LeadBits(s[i], n), tail), n |-> n]
     ELSE Malformed

Surrogate == 55296..57343

\* Goes through s from the left: Step(i) returns what is found at i, of length
\* n, and Add(out, found) collects it.  Whatever has n = 0 ends it in failure.
Scan(s, Step(_), Add(_, _)) ==
  FoldLeft(LAMBDA st, b :
             IF ~st.ok \/ st.i > Len(s) THEN st
             ELSE LET found == Step(st.i)
                  IN IF found.n = 0 THEN [st EXCEPT !.ok = FALSE]
                     ELSE [ok |-> TRUE, i |-> st.i + found.n, out |-> Add(st.out, found)],
           [ok |-> TRUE, i |-> 1, out |-> <<>>], s)

CodePoints(s) == Scan(s, LAMBDA i : CodePointAt(s, i), LAMBDA out, found : Append(out, found.cp))

IsUtf8(s) ==
  LET read == CodePoints(s) IN read.ok /\ \A cp \in ToSet(read.out) : cp \notin Surrogate

\* The bytes of a code point; of a surrogate too, as WTF-8 has it.
Utf8(cp) ==
  IF cp < 128 THEN <<cp>>
  ELSE IF cp < 2048 THEN <<192 + cp \div 64, 128 + (cp % 64)>>
  ELSE IF cp < 65536 THEN <<224 + cp \div 4096, 128 + ((cp \div 64) % 64), 128 + (cp % 64)>>
  ELSE <<240 + cp \div 262144, 128 + ((cp \div 4096) % 64), 128 + ((cp \div 64) % 64), 128 + (cp % 64)>>

\* is_display_text: one line of printable text.
IsDisplayText(s) == IsUtf8(s) /\ \A b \in ToSet(s) : (b >= 32 \/ b = 9) /\ b # 127

-----------------------------------------------------------------------------
(* Counting code points on bytes                                           *)

AnyByte(b) == TRUE
OwnByte(b) == b \notin ContinuationByte

\* A byte at which a code point starts.
StartsCodePoint(b) == OwnByte(b)

Starts(s) == {i \in DOMAIN s : StartsCodePoint(s[i])}

\* utf8_count
CountCodePoints(s) == Cardinality(Starts(s))

\* utf8_prefix_bytes: the bytes before the code point after the first n.
PrefixBytes(s, n) ==
  LET after == {i \in Starts(s) : Cardinality({j \in Starts(s) : j < i}) = n}
  IN IF after = {} THEN Len(s) ELSE Min(after) - 1

\* utf8_suffix_start: where the last n code points begin, counting from 1.
SuffixStart(s, n) ==
  LET at == {i \in Starts(s) : Cardinality({j \in Starts(s) : j >= i}) = n}
  IN IF at = {} THEN 1 ELSE Min(at)
=============================================================================
