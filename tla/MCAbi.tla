---- MODULE MCAbi ----
(***************************************************************************)
(* Two xs_buffers, two addresses; on each system a path whose attributes   *)
(* the logical layer can and cannot name, and on Windows one that is       *)
(* nearly as long as a path may be.                                        *)
(***************************************************************************)
EXTENDS Abi, TLC

a == <<97>>
e_acute == <<195, 169>>
emoji == <<240, 159, 152, 128>>
lone == <<237, 160, 128>>        \* WTF-8 of the unpaired surrogate D800
user_a == LinuxUserPrefix \o a
Twice(s) == s \o s
long == Twice(Twice(Twice(Twice(Twice(Twice(Twice(Twice(a))))))))  \* 256 bytes

MCCallNames ==
  {<<>>, a, emoji, lone, user_a, <<36, 97>>, <<97, 58, 97>>, long}

Stream(units, type) == <<Colon>> \o units \o type

MCSystemOf(p) == IF p = "far" THEN "windows" ELSE p

MCSpellingOf(p) == IF p = "far" THEN [i \in 1..18 |-> 97] ELSE a

MCContentOf(p) ==
  CASE p = "linux" ->
         <<user_a, LinuxUserPrefix \o user_a, <<115, 46, 97>>, LinuxUserPrefix \o e_acute,
           LinuxUserPrefix \o lone>>
    [] p = "macos" -> <<emoji, ComApple \o a, user_a>>
    [] p = "far" -> <<Stream(<<97>>, DataSuffix), Stream(<<55296>>, DataSuffix)>>
    [] p = "windows" ->
         <<Stream(<<>>, DataSuffix), Stream(<<97>>, <<58, 36, 73>>), Stream(<<233>>, DataSuffix),
           Stream(<<55357, 56832>>, DataSuffix), Stream(<<55296>>, DataSuffix),
           Stream(ZoneIdentifier, DataSuffix), Stream(user_a, DataSuffix)>>

Symmetry == Permutations(Handles) \cup Permutations(Addresses)
====
