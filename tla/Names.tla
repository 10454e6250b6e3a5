-------------------------------- MODULE Names --------------------------------
(***************************************************************************)
(* Attribute names, as src/rust/src/names.rs judges and maps them: one     *)
(* portable grammar of logical names, and the native name each system      *)
(* stores.  A name is a byte string.                                       *)
(***************************************************************************)
EXTENDS Bytes

System == {"linux", "macos", "windows"}

Rejection == {"Empty", "TooLong", "ControlChar", "ForbiddenChar", "Reserved", "NotUtf8",
              "EdgeWhitespaceOrDot", "LinuxNamespace", "InvalidNative"}

MaxLogicalLen == 127
MaxNativeLen(os) == IF os = "macos" THEN 127 ELSE 255

LinuxUserPrefix == <<117, 115, 101, 114, 46>>  \* user.
ComApple == <<99, 111, 109, 46, 97, 112, 112, 108, 101, 46>>
ZoneIdentifier == <<122, 111, 110, 101, 46, 105, 100, 101, 110, 116, 105, 102, 105, 101, 114>>
ReservedPrefixes == {ComApple, <<36>>}

Nul == 0
Space == 32
Dot == 46
WindowsInjectionChars == {58, 92, 47}                                   \* : \ /
ForbiddenChars == WindowsInjectionChars \cup {42, 63, 34, 60, 62, 124}  \* * ? " < > |
ControlChars == 0..31 \cup {127}

Lower(s) == [i \in DOMAIN s |-> IF s[i] \in 65..90 THEN s[i] + 32 ELSE s[i]]

StartsIgnoringCase(s, prefix) ==
  Len(s) >= Len(prefix) /\ Lower(SubSeq(s, 1, Len(prefix))) = prefix

BadBytes(name) == {i \in DOMAIN name : name[i] \in ControlChars \cup ForbiddenChars}

\* The first reason a logical name is refused, in the order of the checks; no
\* reason at all of a name every system accepts.
ValidateLogical(name) ==
  CASE name = <<>> -> {"Empty"}
    [] name # <<>> /\ Len(name) > MaxLogicalLen -> {"TooLong"}
    [] Len(name) \in 1..MaxLogicalLen /\ BadBytes(name) # {} ->
         IF name[Min(BadBytes(name))] \in ControlChars THEN {"ControlChar"} ELSE {"ForbiddenChar"}
    [] OTHER ->
         IF ~IsUtf8(name) THEN {"NotUtf8"}
         ELSE IF Space \in {name[1], name[Len(name)]} \/ name[Len(name)] = Dot
         THEN {"EdgeWhitespaceOrDot"}
         ELSE IF StartsIgnoringCase(name, LinuxUserPrefix) THEN {"LinuxNamespace"}
         ELSE IF \/ \E p \in ReservedPrefixes : StartsIgnoringCase(name, p)
                 \/ Lower(name) = ZoneIdentifier
         THEN {"Reserved"}
         ELSE {}

\* Raw mode: the limits of the system, and on Windows what would name another
\* file or stream.
AcceptsRaw(os, name) ==
  /\ Len(name) \in 1..MaxNativeLen(os)
  /\ Nul \notin ToSet(name)
  /\ os = "windows" => ToSet(name) \cap WindowsInjectionChars = {} /\ IsUtf8(name)

Stored(os, name) == IF os = "linux" THEN LinuxUserPrefix \o name ELSE name

\* to_native: the native name, or none.
ToNative(os, name, raw) ==
  IF raw THEN IF AcceptsRaw(os, name) THEN {name} ELSE {}
  ELSE IF ValidateLogical(name) = {} THEN {Stored(os, name)} ELSE {}

KeepsPrefix(os, native) == {native}

\* What from_native takes the namespace off of: none without the namespace.
Unprefixed(os, native) ==
  IF os # "linux" THEN {native}
  ELSE IF /\ Len(native) >= Len(LinuxUserPrefix)
          /\ SubSeq(native, 1, Len(LinuxUserPrefix)) = LinuxUserPrefix
  THEN {SubSeq(native, Len(LinuxUserPrefix) + 1, Len(native))}
  ELSE {}

\* from_native: the name a caller would use, or none.
FromNative(os, native, raw) ==
  IF raw THEN {native} ELSE {name \in Unprefixed(os, native) : ValidateLogical(name) = {}}

ClassifiesLogically(os, name, raw) == ValidateLogical(name)

\* classify
Classify(os, name, raw) ==
  IF ~raw THEN ValidateLogical(name)
  ELSE IF ToNative(os, name, TRUE) = {} THEN {"InvalidNative"} ELSE {}
=============================================================================
