---------------------------------- MODULE Pb ----------------------------------
(***************************************************************************)
(* Printable-binary, as src/rust/src/pb.rs writes and reads it: a glyph    *)
(* for each byte, a space standing for itself.  The decoder judges length  *)
(* by the lead byte alone, looks two-byte glyphs up by the bits that vary, *)
(* and copies whatever is no glyph.                                        *)
(***************************************************************************)
EXTENDS Bytes, PbMap

Byte == 0..255

Glyph == [b \in Byte |-> Utf8(GlyphOf(b))]

\* encode_preserving_spaces
Encode(s) == FlattenSeq([k \in DOMAIN s |-> IF s[k] = 32 THEN <<32>> ELSE Glyph[s[k]]])

SeqLen(lead) ==
  IF lead < 128 THEN 1 ELSE IF lead < 224 THEN 2 ELSE IF lead < 240 THEN 3 ELSE 4

\* Where the decoder looks a sequence up.
Slot(g) == IF Len(g) = 2 THEN <<g[1] % 32, g[2] % 64>> ELSE g

\* The tables: what each slot decodes to, the last glyph put there.
Slots == {Slot(Glyph[b]) : b \in Byte}
Tables == [k \in Slots |-> Max({b \in Byte : Slot(Glyph[b]) = k})]

Sequence(s, i) == SubSeq(s, i, Min({Len(s), i + SeqLen(s[i]) - 1}))

\* decode
Decode(s) ==
  Scan(s, LAMBDA i : [n |-> Len(Sequence(s, i)), bytes |-> Sequence(s, i)],
       LAMBDA out, found :
         LET whole == found.n = SeqLen(found.bytes[1])
         IN IF whole /\ Slot(found.bytes) \in Slots
            THEN Append(out, Tables[Slot(found.bytes)])
            ELSE out \o found.bytes).out
=============================================================================
