-------------------------------- MODULE PbMap --------------------------------
(***************************************************************************)
(* The glyph of each byte, as src/rust/src/pb_map.rs lists them, one row   *)
(* per byte: its code point, the table's bytes being its UTF-8.            *)
(***************************************************************************)
EXTENDS Integers

\* Bytes 0 to 127.
LowGlyphs == <<
  183, 175, 171, 187, 991, 191, 161, 170, 9003, 8677, 182, 8615, 167, 9166,
  559, 664, 404, 185, 178, 186, 179, 181, 616, 9209, 169, 166, 437, 9099,
  926, 449, 448, 172, 9251, 451, 750, 9839, 42920, 8240, 8523, 700, 10088,
  10089, 8270, 10790, 1643, 727, 46, 8260, 48, 49, 50, 51, 52, 53, 54, 55,
  56, 57, 42889, 894, 706, 42890, 707, 577, 64, 65, 66, 67, 68, 69, 70, 71,
  72, 73, 74, 75, 76, 77, 78, 79, 80, 81, 82, 83, 84, 85, 86, 87, 88, 89,
  90, 10214, 10743, 10215, 94, 95, 715, 97, 98, 99, 100, 101, 102, 103,
  104, 105, 106, 107, 108, 109, 110, 111, 112, 113, 114, 115, 116, 117,
  118, 119, 120, 121, 122, 10100, 8739, 10101, 732, 8998>>

\* Bytes 128 to 255.
HighGlyphs == <<
  259, 258, 461, 479, 478, 551, 550, 481, 384, 579, 385, 387, 386, 263,
  262, 265, 264, 269, 268, 267, 266, 271, 270, 272, 568, 394, 396, 395,
  545, 277, 276, 282, 279, 553, 552, 402, 401, 501, 500, 287, 286, 487,
  486, 7713, 7712, 293, 292, 543, 542, 405, 502, 301, 300, 463, 304, 521,
  523, 309, 308, 496, 489, 488, 311, 310, 409, 408, 314, 313, 318, 317,
  410, 573, 323, 505, 327, 326, 325, 565, 335, 334, 465, 555, 554, 561,
  421, 420, 569, 587, 341, 340, 345, 344, 343, 342, 347, 346, 353, 352,
  351, 350, 357, 356, 355, 354, 539, 538, 365, 364, 467, 369, 533, 580,
  7806, 434, 373, 372, 375, 374, 376, 563, 436, 435, 378, 377, 382, 381,
  380, 379>>

GlyphOf(b) == IF b < 128 THEN LowGlyphs[b + 1] ELSE HighGlyphs[b - 127]
=============================================================================
