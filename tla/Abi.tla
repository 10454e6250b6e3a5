---------------------------------- MODULE Abi ----------------------------------
(***************************************************************************)
(* The C ABI (src/rust/src/ffi.rs) as a C program uses it: calls with      *)
(* pointers that may be NULL, buffers the library allocates and the        *)
(* program hands back, names that are judged, mapped and listed.  What the *)
(* operating system answers is any answer; PosixCore and NtfsStream have   *)
(* how it comes about.                                                     *)
(*                                                                         *)
(* A program's xs_buffer starts out as anything.  The program may fill it  *)
(* in again while it holds an allocation, and release it twice; what C     *)
(* leaves undefined it does not do: it releases no xs_buffer that no call  *)
(* has cleared or filled in, and no copy of one it has released.           *)
(***************************************************************************)
EXTENDS Names, NtfsNames

CONSTANTS
  Handles,      \* the program's xs_buffer structs
  Addresses,    \* what the allocator may return
  NULL,
  Garbage,      \* what a struct holds before a call fills it in
  MaxLen,       \* bound on the bytes of a value
  Spares,       \* what an allocation may have to spare
  Rooms,        \* the sizes of the memory xs_native_name may write to
  CallNames,    \* names the program passes: bytes, not always UTF-8
  Paths,
  SystemOf(_),  \* the system a path is on
  SpellingOf(_),\* its bytes
  ContentOf(_), \* what it holds: native names, or streams by their units
  Failures      \* statuses a call may fail with once its arguments are right,
                \* InvalidName of ENAMETOOLONG and EINVAL among them

VARIABLES
  path, name, raw,  \* what the program passes to its calls, raw being XS_FLAG_RAW_NAMES
  buffer,    \* each xs_buffer: [data, len, cap]
  heap,      \* the capacity of each live allocation
  dropped,   \* those the program let an xs_buffer be filled in over
  last       \* the last call: its NULL pointers, whether the library took its
             \* arguments, and what it returned

world == <<path, name, raw>>
memory == <<buffer, heap, dropped>>
vars == <<world, memory, last>>

ASSUME AbiAssumption ==
  /\ NULL \notin Addresses /\ Garbage \notin Addresses /\ NULL # Garbage
  /\ MaxLen \in Nat /\ Spares \subseteq Nat /\ Rooms \subseteq Nat
  /\ CallNames \subseteq Seq(0..255)

\* What a path holds is spelt the way of its system.
ASSUME PathsAssumption ==
  /\ MaxWPath \in Nat
  /\ \A p \in Paths :
       /\ SystemOf(p) \in System /\ SpellingOf(p) \in Seq(0..255)
       /\ ContentOf(p) \in Seq(IF SystemOf(p) = "windows" THEN Seq(Unit) ELSE Seq(0..255))

system  == SystemOf(path)
content == ContentOf(path)

Zeroed  == [data |-> NULL, len |-> 0, cap |-> 0]
Unknown == [data |-> Garbage, len |-> 0, cap |-> 0]

-----------------------------------------------------------------------------
(* Arguments                                                               *)

Calls == {"set", "size", "get_into", "get", "remove", "list"}

\* The pointers of a call in the order they are looked at, and what a NULL one
\* of nonzero length returns.
PointerChecks(call) ==
  LET placed == [pointer |-> "path", status |-> "InvalidPath"]
      named  == [pointer |-> "name", status |-> "InvalidName"]
      other(p) == [pointer |-> p, status |-> "InvalidArgument"]
  IN CASE call = "set" -> <<placed, named, other("value")>>
       [] call = "size" -> <<other("out"), placed, named>>
       [] call = "get_into" -> <<other("out"), placed, named, other("buf")>>
       [] call = "get" -> <<other("out"), placed, named>>
       [] call = "remove" -> <<placed, named>>
       [] call = "list" -> <<other("out"), other("count"), placed>>
       [] OTHER -> <<>>

Pointers(call) == {check.pointer : check \in ToSet(PointerChecks(call))}

\* The status of the first NULL pointer; none if there is none.
Refusal(call, nulls) ==
  LET at == {i \in DOMAIN PointerChecks(call) : PointerChecks(call)[i].pointer \in nulls}
  IN IF at = {} THEN {} ELSE {PointerChecks(call)[Min(at)].status}

TheOnly(set) == CHOOSE x \in set : TRUE

TakesName(call) == "name" \in Pointers(call)

\* NULL for at most one of the pointers.
Nulls(pointers) == {{}} \cup {{p} : p \in pointers}

NameRefused(call) == TakesName(call) /\ ToNative(system, name, raw) = {}

\* What becomes of path:name, on Windows, for a name to_native has no reason to refuse.
Spelt(called) == {StreamPath(SpellingOf(path), native) : native \in ToNative(system, called, raw)}

\* Why the stream is not asked for: path and name together are longer than
\* Windows takes.
TooFar(called) ==
  IF system = "windows" THEN {spelt.status : spelt \in Spelt(called)} \ {"OK"} ELSE {}

\* Nothing is wrong with the arguments: the call goes to the operating system.
Taken(call, nulls) ==
  /\ Refusal(call, nulls) = {} /\ ~NameRefused(call)
  /\ TakesName(call) => TooFar(name) = {}

\* What a call may return; the file is looked for before the stream's name is
\* put together.
Returns(call, nulls) ==
  IF Taken(call, nulls) THEN Failures \cup {"OK"}
  ELSE IF Refusal(call, nulls) # {} THEN Refusal(call, nulls)
  ELSE IF NameRefused(call) THEN {"InvalidName"}
  ELSE Failures \cup TooFar(name)

Call(call, status, nulls, names) ==
  last' = [call |-> call, status |-> status, nulls |-> nulls, taken |-> Taken(call, nulls),
           names |-> names]

-----------------------------------------------------------------------------
(* Calls                                                                   *)

\* The outputs that are set to nothing first, unless one of them is NULL.
Outputs(call) == {"out", "count"} \cap Pointers(call)

Handed(a, n, spare)      == [data |-> a, len |-> n, cap |-> n + spare]
HandedByLen(a, n, spare) == [data |-> a, len |-> n, cap |-> n]

\* What the program gets of an allocation: Vec::from_raw_parts needs the
\* capacity it was made with to release it.
Handle(a, n, spare) == Handed(a, n, spare)

\* Nothing is allocated for a result without bytes.
Unallocated(n) == n = 0

\* The xs_buffer is cleared or filled in, whatever it held: nothing is released.
Overwrite(h, with) ==
  /\ buffer' = [buffer EXCEPT ![h] = with]
  /\ dropped' = dropped \cup ({buffer[h].data} \cap Addresses)

\* give: the bytes go to the program.
Give(h, n) ==
  IF Unallocated(n) THEN Overwrite(h, Zeroed) /\ UNCHANGED heap
  ELSE \E a \in Addresses \ DOMAIN heap, spare \in Spares :
         /\ Overwrite(h, Handle(a, n, spare))
         /\ heap' = [b \in DOMAIN heap \cup {a} |-> IF b = a THEN n + spare ELSE heap[b]]

\* A call that returns no bytes clears the xs_buffer, if it got that far.
GiveNothing(h, call, nulls) ==
  /\ IF nulls \cap Outputs(call) = {} THEN Overwrite(h, Zeroed) ELSE UNCHANGED <<buffer, dropped>>
  /\ UNCHANGED heap

XsGet(h) ==
  /\ \E nulls \in Nulls(Pointers("get")) : \E status \in Returns("get", nulls) :
       /\ IF status = "OK" THEN \E n \in 0..MaxLen : Give(h, n)
          ELSE GiveNothing(h, "get", nulls)
       /\ Call("get", status, nulls, <<>>)
  /\ UNCHANGED world

\* list_raw and pack_logical without its sorting.
Listed ==
  LET natives == IF system = "windows" THEN ListRaw(content) ELSE content
  IN FoldLeft(LAMBDA names, native : names \o SetToSeq(FromNative(system, native, raw)),
              <<>>, natives)

PackedLen(names) == FoldLeft(LAMBDA n, listed : n + Len(listed) + 1, 0, names)

XsList(h) ==
  /\ \E nulls \in Nulls(Pointers("list")) : \E status \in Returns("list", nulls) :
       IF status = "OK"
       THEN LET names == Listed IN Give(h, PackedLen(names)) /\ Call("list", status, nulls, names)
       ELSE GiveNothing(h, "list", nulls) /\ Call("list", status, nulls, <<>>)
  /\ UNCHANGED world

\* xs_buffer_free, of a buffer or of one that was freed already.
XsBufferFree(h) ==
  /\ buffer[h].data # Garbage
  /\ heap' = [a \in DOMAIN heap \ {buffer[h].data} |-> heap[a]]
  /\ buffer' = [buffer EXCEPT ![h] = Zeroed]
  /\ Call("buffer_free", "OK", {}, <<>>)
  /\ UNCHANGED <<world, dropped>>

\* Calls that hand over no memory.
Plain(call) ==
  /\ \E nulls \in Nulls(Pointers(call)) : \E status \in Returns(call, nulls) :
       Call(call, status, nulls, <<>>)
  /\ UNCHANGED <<world, memory>>

FitsWithoutNul(native, room) == Len(native) <= room
FitsWithNul(native, room) == Len(native) + 1 <= room

\* The native name and the NUL after it fit the caller's buffer.
Fits(native, room) == FitsWithNul(native, room)

\* What is in a byte of the program's before it is written, any but NUL.
Unwritten == 255

\* The program's `room` bytes with a text and the NUL behind it copied to them;
\* a byte that falls outside them is not the program's to read.
CopiedTo(text, room) ==
  [i \in 1..room |-> IF i <= Len(text) + 1 THEN Append(text, Nul)[i] ELSE Unwritten]

\* xs_native_name into a buffer of `room` bytes; names holds these bytes after it.
XsNativeName ==
  /\ \E nulls \in Nulls({"out", "name", "out_len"}), room \in Rooms :
       LET native == ToNative(system, name, raw)
           status == IF "out_len" \in nulls THEN "InvalidArgument"
                     ELSE IF "name" \in nulls \/ native = {} THEN "InvalidName"
                     ELSE IF ~Fits(TheOnly(native), room) THEN "BufferTooSmall"
                     ELSE IF "out" \in nulls THEN "InvalidArgument" ELSE "OK"
       IN last' = [call |-> "native_name", status |-> status, nulls |-> nulls,
                   taken |-> "name" \notin nulls /\ native # {},
                   names |-> IF status = "OK" THEN <<CopiedTo(TheOnly(native), room)>> ELSE <<>>]
  /\ UNCHANGED <<world, memory>>

\* xs_validate_name; its answer is the rejection.
XsValidateName ==
  /\ \E nulls \in Nulls({"name"}) :
       Call("validate_name", "OK", nulls,
            SetToSeq(IF nulls # {} THEN {"InvalidNative"} ELSE Classify(system, name, raw)))
  /\ UNCHANGED <<world, memory>>

-----------------------------------------------------------------------------
Init ==
  /\ path \in Paths /\ name \in CallNames /\ raw \in BOOLEAN
  /\ buffer = [h \in Handles |-> Unknown]
  /\ heap = [a \in {} |-> 0]
  /\ dropped = {}
  /\ last = [call |-> "none", status |-> "OK", nulls |-> {}, taken |-> FALSE, names |-> <<>>]

Next ==
  \/ \E h \in Handles : XsGet(h) \/ XsList(h) \/ XsBufferFree(h)
  \/ \E call \in Calls \ {"get", "list"} : Plain(call)
  \/ XsNativeName
  \/ XsValidateName

Spec == Init /\ [][Next]_vars

-----------------------------------------------------------------------------
\* Every allocation is held by exactly one xs_buffer, with the capacity it was
\* made with, but for those the program filled an xs_buffer in over: these stay
\* allocated for ever, and no xs_buffer leads to them.  No xs_buffer holds memory
\* that is gone (give, xs_buffer_free): nothing else leaks, and nothing is
\* released twice or at another size.
Owned ==
  /\ dropped \subseteq DOMAIN heap
  /\ \A a \in DOMAIN heap \ dropped :
       \E h \in Handles : /\ buffer[h].data = a
                          /\ \A g \in Handles \ {h} : buffer[g].data # a
  /\ \A h \in Handles : buffer[h].data \in Addresses =>
       /\ buffer[h].data \in DOMAIN heap \ dropped
       /\ buffer[h].cap = heap[buffer[h].data]

\* xs_validate_name tells why the library refused a name, and refuses none it
\* takes to the operating system, whichever the mode: two routines judge a
\* name, to_native for the calls and classify for the explanation.  It has no
\* reason for the names stream_path refuses on a path that leaves them no room,
\* nor for an InvalidName of the operating system's.
RefusalExplained ==
  (TakesName(last.call) \/ last.call = "native_name") /\ last.nulls = {}
  => IF Classify(system, name, raw) = {}
     THEN last.taken \/ (TakesName(last.call) /\ TooFar(name) # {})
     ELSE ~last.taken /\ last.status = "InvalidName"

\* The C string at the start of some bytes.
CString(bytes) == SubSeq(bytes, 1, Min({i \in DOMAIN bytes : bytes[i] = Nul}) - 1)

\* What xs_native_name leaves in the caller's memory, of whatever size, is a C
\* string that ends within it, is the caller's name when read back, and given to
\* the raw mode names the same attribute.
NativeReadsBack ==
  last.call = "native_name" /\ last.status = "OK" =>
    LET bytes == last.names[1]
    IN /\ Nul \in ToSet(bytes)
       /\ FromNative(system, CString(bytes), raw) = {name}
       /\ ToNative(system, CString(bytes), TRUE) = ToNative(system, name, raw)

\* path:name opens the stream the system enumerates as found.
Opens(spelt, found) ==
  spelt.status = "OK" /\ spelt.units \o DataSuffix = Utf16(SpellingOf(path)).out \o found

\* The attributes a call given this name reaches, of those that are there.
Reached(called) ==
  {found \in ToSet(content) :
     IF system = "windows" THEN \E spelt \in Spelt(called) : Opens(spelt, found)
     ELSE found \in ToNative(system, called, raw)}

\* Every name a listing returns reaches an attribute that is there: it is mapped
\* back to the native name it came from (from_native, parse_stream_name and
\* UTF-16 on one side, to_native and stream_path on the other).  In raw mode a
\* listing also has names that no call takes back, and a path can leave a name
\* no room: only these reach nothing.
ListedReachable ==
  last.call = "list"
  => \A listed \in ToSet(last.names) :
       \/ raw /\ ~AcceptsRaw(system, listed)
       \/ TooFar(listed) # {}
       \/ \E found \in ToSet(content) : Reached(listed) = {found}

\* And the other way round: an attribute some name reaches is in the listing,
\* under that name, whichever the mode.
ReachableListed ==
  last.call = "list" /\ last.status = "OK" /\ Reached(name) # {}
  => name \in ToSet(last.names)
=============================================================================
