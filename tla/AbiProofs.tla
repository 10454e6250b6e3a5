------------------------------ MODULE AbiProofs ------------------------------
(***************************************************************************)
(* Ownership of the memory the C ABI hands out, for any number of buffers  *)
(* and addresses; the mapping of names as a bijection; and that listings   *)
(* and names agree, on every system: on Windows because the conversions    *)
(* between WTF-8 and UTF-16 undo one another.                              *)
(***************************************************************************)
EXTENDS Abi, TLAPS, SequenceTheorems, FiniteSetTheorems, WellFoundedInduction

-----------------------------------------------------------------------------
(* Names                                                                   *)

LEMMA Part ==
  ASSUME NEW s \in Seq(Int), NEW i \in Int, NEW j \in Int, 1 <= i, j <= Len(s)
  PROVE  /\ SubSeq(s, i, j) \in Seq(Int)
         /\ Len(SubSeq(s, i, j)) = IF i <= j THEN j - i + 1 ELSE 0
         /\ \A k \in 1..(j - i + 1) : SubSeq(s, i, j)[k] = s[i + k - 1]
<1>1. \A k \in i..j : s[k] \in Int
  BY LenProperties
<1> QED BY <1>1, SubSeqProperties, SMT

\* What is left of a name behind a prefix of n elements.
LEMMA StripsPrefix ==
  ASSUME NEW p \in Seq(Int), NEW m \in Seq(Int), NEW native, native = p \o m
  PROVE  /\ Len(native) >= Len(p)
         /\ SubSeq(native, 1, Len(p)) = p
         /\ SubSeq(native, Len(p) + 1, Len(native)) = m
<1> DEFINE n == Len(p)
<1>1. n \in Nat /\ Len(m) \in Nat
  BY LenProperties
<1>2. /\ native \in Seq(Int) /\ Len(native) = n + Len(m)
      /\ \A i \in 1..(n + Len(m)) : native[i] = IF i <= n THEN p[i] ELSE m[i - n]
  BY ConcatProperties
<1> HIDE DEF n
<1>3. \A k \in 1..(n + Len(m)) : ~(k <= n) => native[k] = m[k - n]
  BY <1>2, Zenon
<1>4. SubSeq(native, 1, n) = p
  <2> DEFINE head == SubSeq(native, 1, n)
  <2>1. /\ head \in Seq(Int)
        /\ Len(head) = IF 1 <= n THEN n - 1 + 1 ELSE 0
        /\ \A i \in 1..(n - 1 + 1) : head[i] = native[1 + i - 1]
    <3>1. 1 \in Int /\ n \in Int /\ 1 <= 1 /\ n <= Len(native)
      BY <1>1, <1>2
    <3> QED BY <1>2, <3>1, Part, ZenonT(60) DEF head
  <2> HIDE DEF head
  <2>2. Len(head) = n /\ \A i \in 1..n : head[i] = p[i]
    BY <1>1, <1>2, <2>1
  <2>3. \A i \in 1..Len(head) : head[i] = p[i]
    BY <2>2
  <2>4. Len(head) = Len(p)
    BY <2>2 DEF n
  <2>5. head = p
    BY <2>1, <2>3, <2>4, SeqEqual
  <2> QED BY <2>5 DEF head
<1>5. SubSeq(native, n + 1, Len(native)) = m
  <2> DEFINE from == n + 1
             tail == SubSeq(native, from, Len(native))
  <2>1. /\ tail \in Seq(Int)
        /\ Len(tail) = IF from <= Len(native) THEN Len(native) - from + 1 ELSE 0
        /\ \A i \in 1..(Len(native) - from + 1) : tail[i] = native[from + i - 1]
    <3>1. from \in Int /\ Len(native) \in Int /\ 1 <= from /\ Len(native) <= Len(native)
      BY <1>1, <1>2
    <3> DEFINE to == Len(native)
    <3>2. to \in Int /\ to <= Len(native) /\ native \in Seq(Int)
      BY <1>2, <3>1
    <3> HIDE DEF from, to
    <3>3. /\ SubSeq(native, from, to) \in Seq(Int)
          /\ Len(SubSeq(native, from, to)) = IF from <= to THEN to - from + 1 ELSE 0
          /\ \A i \in 1..(to - from + 1) : SubSeq(native, from, to)[i] = native[from + i - 1]
      BY <3>1, <3>2, Part
    <3> QED BY <3>3, Zenon DEF to
  <2> HIDE DEF tail
  <2>2. Len(tail) = Len(m)
    BY <1>1, <1>2, <2>1
  <2>3. \A i \in 1..Len(tail) : tail[i] = m[i]
    <3> SUFFICES ASSUME NEW i \in 1..Len(m) PROVE tail[i] = m[i]
      BY <2>2
    <3>1. /\ i \in 1..(Len(native) - (n + 1) + 1) /\ n + i \in 1..(n + Len(m))
          /\ n + 1 + i - 1 = n + i /\ n + i - n = i /\ ~(n + i <= n)
      BY <1>1, <1>2
    <3>2. tail[i] = native[n + 1 + i - 1]
      BY <2>1, <3>1
    <3> DEFINE k == n + i
    <3>3. k \in 1..(n + Len(m)) /\ ~(k <= n) /\ k - n = i
      BY <1>1, <1>2, <3>1
    <3> HIDE DEF k
    <3>4. native[k] = m[i]
      BY <1>3, <3>3, Zenon
    <3> QED BY <3>1, <3>2, <3>4 DEF k
  <2>4. tail = m
    BY <2>1, <2>2, <2>3, SeqEqual
  <2> QED BY <2>4 DEF tail
<1>6. Len(native) >= n
  BY <1>1, <1>2
<1> QED BY <1>4, <1>5, <1>6 DEF n

\* The mapping of logical names is a bijection (names.rs:5): the native name of
\* a name leads back to that name and to no other, on every system.
THEOREM NamesBijection ==
  ASSUME NEW os \in System, NEW called \in Seq(Int), NEW native \in ToNative(os, called, FALSE)
  PROVE  FromNative(os, native, FALSE) = {called}
<1>1. ValidateLogical(called) = {} /\ native = Stored(os, called)
  BY DEF ToNative
<1>2. Unprefixed(os, native) = {called}
  <2>1. CASE os = "linux"
    <3>1. native = LinuxUserPrefix \o called
      BY <1>1, <2>1 DEF Stored
    <3>2. LinuxUserPrefix \in Seq(Int)
      BY DEF LinuxUserPrefix
    <3>3. /\ Len(native) >= Len(LinuxUserPrefix)
          /\ SubSeq(native, 1, Len(LinuxUserPrefix)) = LinuxUserPrefix
          /\ SubSeq(native, Len(LinuxUserPrefix) + 1, Len(native)) = called
      BY <3>1, <3>2, StripsPrefix
    <3> QED BY <2>1, <3>3, Zenon DEF Unprefixed
  <2>2. CASE os # "linux"
    BY <1>1, <2>2 DEF Unprefixed, Stored
  <2> QED BY <2>1, <2>2
<1> QED BY <1>1, <1>2 DEF FromNative

-----------------------------------------------------------------------------
(* Memory                                                                  *)

\* What Owned needs: both are functions, and only addresses are allocated.
Inv ==
  /\ buffer = [h \in Handles |-> buffer[h]]
  /\ heap = [a \in DOMAIN heap |-> heap[a]]
  /\ DOMAIN heap \subseteq Addresses
  /\ Owned

LEMMA InitInv == Init => Inv
BY AbiAssumption DEF Init, Inv, Owned, Unknown

\* What filling an xs_buffer in changes, and what it leaves.
LEMMA Overwritten ==
  ASSUME Inv, NEW h \in Handles, NEW with, Overwrite(h, with)
  PROVE  /\ \A g \in Handles : buffer'[g] = IF g = h THEN with ELSE buffer[g]
         /\ buffer' = [g \in Handles |-> buffer'[g]]
         /\ dropped' \subseteq DOMAIN heap
         /\ \A b \in DOMAIN heap \ dropped' :
              \E g \in Handles \ {h} : /\ buffer[g].data = b
                                       /\ \A k \in Handles \ {g} : buffer[k].data # b
         /\ \A g \in Handles \ {h} : buffer[g].data \in Addresses =>
              /\ buffer[g].data \in DOMAIN heap \ dropped'
              /\ buffer[g].cap = heap[buffer[g].data]
<1>1. /\ buffer' = [buffer EXCEPT ![h] = with]
      /\ dropped' = dropped \cup ({buffer[h].data} \cap Addresses)
  BY DEF Overwrite
<1>2. /\ \A g \in Handles : buffer'[g] = IF g = h THEN with ELSE buffer[g]
      /\ buffer' = [g \in Handles |-> buffer'[g]]
  BY <1>1 DEF Inv
<1>3. dropped' \subseteq DOMAIN heap
  BY <1>1 DEF Inv, Owned
<1>4. ASSUME NEW b \in DOMAIN heap \ dropped'
      PROVE  \E g \in Handles \ {h} : /\ buffer[g].data = b
                                      /\ \A k \in Handles \ {g} : buffer[k].data # b
  <2>1. b \in Addresses /\ b \in DOMAIN heap \ dropped /\ b # buffer[h].data
    BY <1>1 DEF Inv
  <2>2. PICK g \in Handles : buffer[g].data = b /\ \A k \in Handles \ {g} : buffer[k].data # b
    BY <2>1 DEF Inv, Owned
  <2> QED BY <2>1, <2>2
<1>5. ASSUME NEW g \in Handles \ {h}, buffer[g].data \in Addresses
      PROVE  /\ buffer[g].data \in DOMAIN heap \ dropped'
             /\ buffer[g].cap = heap[buffer[g].data]
  <2>1. buffer[g].data \in DOMAIN heap \ dropped /\ buffer[g].cap = heap[buffer[g].data]
    BY <1>5 DEF Inv, Owned
  <2>2. PICK k \in Handles : /\ buffer[k].data = buffer[g].data
                             /\ \A m \in Handles \ {k} : buffer[m].data # buffer[g].data
    BY <2>1 DEF Inv, Owned
  <2>3. buffer[h].data # buffer[g].data
    BY <2>2
  <2> QED BY <1>1, <2>1, <2>3
<1> QED BY <1>2, <1>3, <1>4, <1>5

\* An xs_buffer is cleared.
LEMMA ClearedInv ==
  ASSUME Inv, NEW h \in Handles, Overwrite(h, Zeroed), UNCHANGED heap
  PROVE  Inv'
<1>1. Zeroed.data = NULL /\ NULL \notin Addresses
  BY AbiAssumption DEF Zeroed
<1>2. \A b \in DOMAIN heap' \ dropped' : \E g \in Handles :
        buffer'[g].data = b /\ \A k \in Handles \ {g} : buffer'[k].data # b
  <2> SUFFICES ASSUME NEW b \in DOMAIN heap \ dropped'
               PROVE  \E g \in Handles :
                        buffer'[g].data = b /\ \A k \in Handles \ {g} : buffer'[k].data # b
    OBVIOUS
  <2>1. PICK g \in Handles \ {h} : buffer[g].data = b /\ \A k \in Handles \ {g} : buffer[k].data # b
    BY Overwritten
  <2>2. \A k \in Handles : buffer'[k] = IF k = h THEN Zeroed ELSE buffer[k]
    BY Overwritten
  <2>3. b # NULL
    BY <1>1 DEF Inv
  <2>4. buffer'[g].data = b /\ \A k \in Handles \ {g} : buffer'[k].data # b
    BY <1>1, <2>1, <2>2, <2>3
  <2> QED BY <2>4
<1>3. \A g \in Handles : buffer'[g].data \in Addresses =>
        buffer'[g].data \in DOMAIN heap' \ dropped' /\ buffer'[g].cap = heap'[buffer'[g].data]
  BY <1>1, Overwritten
<1>4. buffer' = [g \in Handles |-> buffer'[g]] /\ dropped' \subseteq DOMAIN heap'
  BY Overwritten
<1> QED BY <1>2, <1>3, <1>4 DEF Inv, Owned

\* A call fills an xs_buffer in with an allocation that is new.
LEMMA GiveInv ==
  ASSUME Inv, NEW h \in Handles, NEW n, Give(h, n)
  PROVE  Inv'
<1>1. CASE Unallocated(n)
  BY <1>1, ClearedInv DEF Give
<1>2. CASE ~Unallocated(n)
  <2>1. PICK a \in Addresses \ DOMAIN heap, spare \in Spares :
          /\ Overwrite(h, Handle(a, n, spare))
          /\ heap' = [b \in DOMAIN heap \cup {a} |-> IF b = a THEN n + spare ELSE heap[b]]
    BY <1>2 DEF Give
  <2> DEFINE with == Handle(a, n, spare)
  <2>2. with.data = a /\ with.cap = n + spare
    BY DEF Handle, Handed
  <2> HIDE DEF with
  <2>3. /\ \A g \in Handles : buffer'[g] = IF g = h THEN with ELSE buffer[g]
        /\ buffer' = [g \in Handles |-> buffer'[g]]
        /\ dropped' \subseteq DOMAIN heap
    BY <2>1, Overwritten DEF with
  <2>4. \A g \in Handles \ {h} : buffer[g].data \in Addresses =>
          buffer[g].data \in DOMAIN heap \ dropped' /\ buffer[g].cap = heap[buffer[g].data]
    BY <2>1, Overwritten
  <2>5. /\ DOMAIN heap' = DOMAIN heap \cup {a}
        /\ heap' = [b \in DOMAIN heap' |-> heap'[b]]
        /\ heap'[a] = n + spare
        /\ \A b \in DOMAIN heap : heap'[b] = heap[b]
    BY <2>1 DEF Inv
  <2>6. \A g \in Handles \ {h} : buffer[g].data # a
    BY <2>1, <2>4
  <2>7. ASSUME NEW b \in DOMAIN heap' \ dropped'
        PROVE  \E g \in Handles :
                 buffer'[g].data = b /\ \A k \in Handles \ {g} : buffer'[k].data # b
    <3>1. CASE b = a
      BY <2>2, <2>3, <2>6, <3>1
    <3>2. CASE b # a
      <4>1. b \in DOMAIN heap \ dropped'
        BY <2>5, <3>2
      <4>2. PICK g \in Handles \ {h} : /\ buffer[g].data = b
                                       /\ \A k \in Handles \ {g} : buffer[k].data # b
        BY <2>1, <4>1, Overwritten
      <4>3. buffer'[g].data = b /\ \A k \in Handles \ {g} : buffer'[k].data # b
        BY <2>2, <2>3, <3>2, <4>2
      <4> QED BY <4>3
    <3> QED BY <3>1, <3>2
  <2>8. \A g \in Handles : buffer'[g].data \in Addresses =>
          buffer'[g].data \in DOMAIN heap' \ dropped' /\ buffer'[g].cap = heap'[buffer'[g].data]
    <3>1. a \notin dropped'
      BY <2>1, <2>3
    <3> QED BY <2>2, <2>3, <2>4, <2>5, <3>1
  <2>9. DOMAIN heap' \subseteq Addresses /\ dropped' \subseteq DOMAIN heap'
    BY <2>1, <2>3, <2>5 DEF Inv
  <2> QED BY <2>3, <2>5, <2>7, <2>8, <2>9 DEF Inv, Owned
<1> QED BY <1>1, <1>2

LEMMA GiveNothingInv ==
  ASSUME Inv, NEW h \in Handles, NEW call, NEW nulls, GiveNothing(h, call, nulls)
  PROVE  Inv'
<1>1. CASE Overwrite(h, Zeroed) /\ UNCHANGED heap
  BY <1>1, ClearedInv
<1>2. CASE UNCHANGED memory
  BY <1>2 DEF memory, Inv, Owned
<1> QED BY <1>1, <1>2 DEF GiveNothing, memory

\* Released once: the xs_buffer no longer holds it, and no other did.
LEMMA FreeInv ==
  ASSUME Inv, NEW h \in Handles, XsBufferFree(h)
  PROVE  Inv'
<1>1. /\ heap' = [a \in DOMAIN heap \ {buffer[h].data} |-> heap[a]]
      /\ buffer' = [buffer EXCEPT ![h] = Zeroed]
      /\ dropped' = dropped
  BY DEF XsBufferFree
<1>2. \A g \in Handles : buffer'[g] = IF g = h THEN Zeroed ELSE buffer[g]
  BY <1>1 DEF Inv
<1>3. /\ buffer' = [g \in Handles |-> buffer'[g]]
      /\ DOMAIN heap' = DOMAIN heap \ {buffer[h].data}
      /\ heap' = [b \in DOMAIN heap' |-> heap'[b]]
      /\ \A b \in DOMAIN heap' : heap'[b] = heap[b]
  BY <1>1 DEF Inv
<1>4. Zeroed.data = NULL /\ NULL \notin Addresses
  BY AbiAssumption DEF Zeroed
<1>5. buffer[h].data \notin dropped
  <2>1. CASE buffer[h].data \in Addresses
    BY <2>1 DEF Inv, Owned
  <2>2. CASE buffer[h].data \notin Addresses
    BY <2>2 DEF Inv, Owned
  <2> QED BY <2>1, <2>2
<1>6. dropped' \subseteq DOMAIN heap'
  BY <1>1, <1>3, <1>5 DEF Inv, Owned
<1>7. ASSUME NEW b \in DOMAIN heap' \ dropped'
      PROVE  \E g \in Handles :
               buffer'[g].data = b /\ \A k \in Handles \ {g} : buffer'[k].data # b
  <2>1. b \in DOMAIN heap \ dropped /\ b # buffer[h].data /\ b # NULL
    BY <1>1, <1>3, <1>4 DEF Inv
  <2>2. PICK g \in Handles : buffer[g].data = b /\ \A k \in Handles \ {g} : buffer[k].data # b
    BY <2>1 DEF Inv, Owned
  <2>3. buffer'[g].data = b /\ \A k \in Handles \ {g} : buffer'[k].data # b
    BY <1>2, <1>4, <2>1, <2>2
  <2> QED BY <2>3
<1>8. ASSUME NEW g \in Handles, buffer'[g].data \in Addresses
      PROVE  buffer'[g].data \in DOMAIN heap' \ dropped' /\ buffer'[g].cap = heap'[buffer'[g].data]
  <2>1. g # h /\ buffer'[g] = buffer[g]
    BY <1>2, <1>4, <1>8
  <2>2. buffer[g].data \in DOMAIN heap \ dropped /\ buffer[g].cap = heap[buffer[g].data]
    BY <1>8, <2>1 DEF Inv, Owned
  <2>3. PICK k \in Handles : /\ buffer[k].data = buffer[g].data
                             /\ \A m \in Handles \ {k} : buffer[m].data # buffer[g].data
    BY <2>2 DEF Inv, Owned
  <2>4. buffer[g].data # buffer[h].data
    BY <2>1, <2>3
  <2> QED BY <1>1, <1>3, <2>1, <2>2, <2>4
<1> QED BY <1>3, <1>6, <1>7, <1>8 DEF Inv, Owned

LEMMA NextInv == Inv /\ [Next]_vars => Inv'
<1> SUFFICES ASSUME Inv, [Next]_vars PROVE Inv'
  OBVIOUS
<1>1. ASSUME NEW h \in Handles, XsGet(h) PROVE Inv'
  BY <1>1, GiveInv, GiveNothingInv DEF XsGet
<1>2. ASSUME NEW h \in Handles, XsList(h) PROVE Inv'
  <2>1. (\E n : Give(h, n)) \/ \E nulls : GiveNothing(h, "list", nulls)
    BY <1>2 DEF XsList
  <2> QED BY <2>1, GiveInv, GiveNothingInv
<1>3. ASSUME NEW h \in Handles, XsBufferFree(h) PROVE Inv'
  BY <1>3, FreeInv
<1>4. ASSUME UNCHANGED memory PROVE Inv'
  BY <1>4 DEF memory, Inv, Owned
<1>5. ASSUME NEW call, Plain(call) PROVE Inv'
  BY <1>4, <1>5 DEF Plain
<1>6. CASE XsNativeName
  BY <1>4, <1>6 DEF XsNativeName
<1>7. CASE XsValidateName
  BY <1>4, <1>7 DEF XsValidateName
<1>8. CASE UNCHANGED vars
  BY <1>4, <1>8 DEF vars
<1> QED BY <1>1, <1>2, <1>3, <1>5, <1>6, <1>7, <1>8 DEF Next

\* Memory is handed over and taken back exactly: in whatever order a program
\* fills its buffers in and releases them, each live allocation has one owner
\* that knows its capacity, but for those it filled a buffer in over, which no
\* buffer leads to and nothing releases (give, xs_get, xs_list, xs_buffer_free).
THEOREM AbiOwned == Spec => []Owned
<1>1. Inv => Owned
  BY DEF Inv
<1> QED BY <1>1, InitInv, NextInv, PTL DEF Spec

-----------------------------------------------------------------------------
(* Names                                                                   *)

\* The two routines that judge a name agree: to_native has no native name for
\* exactly the names classify has a reason to refuse.
LEMMA JudgedAlike ==
  ASSUME NEW os, NEW called, NEW asIs \in BOOLEAN
  PROVE  Classify(os, called, asIs) = {} <=> ToNative(os, called, asIs) # {}
BY DEF Classify, ToNative

\* No pointer is refused when none is NULL.
LEMMA NothingNull ==
  ASSUME NEW call
  PROVE  Refusal(call, {}) = {}
BY DEF Refusal

LEMMA CallExplained ==
  ASSUME raw \in BOOLEAN, UNCHANGED world,
         NEW call, NEW nulls, NEW status \in Returns(call, nulls), NEW names,
         call # "native_name", Call(call, status, nulls, names)
  PROVE  RefusalExplained'
<1> SUFFICES ASSUME TakesName(call), nulls = {}
             PROVE  IF Classify(system, name, raw)' = {} THEN last'.taken \/ TooFar(name)' # {}
                    ELSE ~last'.taken /\ last'.status = "InvalidName"
  BY DEF RefusalExplained, Call
<1>1. Classify(system, name, raw)' = Classify(system, name, raw)
  BY DEF world, system
<1>2. TooFar(name)' = TooFar(name)
  BY DEF world, system, TooFar, Spelt
<1>3. NameRefused(call) <=> Classify(system, name, raw) # {}
  BY JudgedAlike DEF NameRefused
<1>4. Taken(call, nulls) <=> ~NameRefused(call) /\ TooFar(name) = {}
  BY NothingNull DEF Taken
<1>5. NameRefused(call) => status = "InvalidName"
  BY <1>4, NothingNull DEF Returns
<1>6. last'.taken <=> Taken(call, nulls)
  BY DEF Call
<1>7. last'.status = status
  BY DEF Call
<1> QED BY <1>1, <1>2, <1>3, <1>4, <1>5, <1>6, <1>7

LEMMA NativeExplained ==
  ASSUME raw \in BOOLEAN, XsNativeName
  PROVE  RefusalExplained'
<1> DEFINE native == ToNative(system, name, raw)
<1>0. \E nulls, status, names : \E taken \in BOOLEAN :
        /\ last' = [call |-> "native_name", status |-> status, nulls |-> nulls,
                    taken |-> taken, names |-> names]
        /\ taken <=> "name" \notin nulls /\ native # {}
        /\ nulls = {} /\ native = {} => status = "InvalidName"
  <2> HIDE DEF native
  <2> QED BY Zenon DEF XsNativeName, native
<1>1. /\ last'.call = "native_name"
      /\ last'.nulls = {} => /\ last'.taken <=> native # {}
                             /\ ~last'.taken => last'.status = "InvalidName"
  <2> HIDE DEF native
  <2>1. \E nulls, status : \E taken \in BOOLEAN :
          /\ last'.call = "native_name" /\ last'.nulls = nulls
          /\ last'.status = status /\ last'.taken = taken
          /\ taken <=> "name" \notin nulls /\ native # {}
          /\ nulls = {} /\ native = {} => status = "InvalidName"
    BY <1>0
  <2> QED BY <2>1
<1>2. last'.nulls = {} => IF Classify(system, name, raw) = {} THEN last'.taken
                         ELSE ~last'.taken /\ last'.status = "InvalidName"
  BY <1>1, JudgedAlike
<1>3. Classify(system, name, raw)' = Classify(system, name, raw)
  BY DEF XsNativeName, world, system
<1> QED BY <1>2, <1>3 DEF RefusalExplained

\* What RefusalExplained needs is in the last call, and in the name staying
\* what it is.
ExplainedInv == raw \in BOOLEAN /\ RefusalExplained

LEMMA ExplainedStep == ExplainedInv /\ [Next]_vars => ExplainedInv'
<1> SUFFICES ASSUME ExplainedInv, [Next]_vars PROVE ExplainedInv'
  OBVIOUS
<1>1. UNCHANGED world
  BY DEF Next, XsGet, XsList, XsBufferFree, Plain, XsNativeName, XsValidateName, vars
<1>2. raw \in BOOLEAN /\ raw' \in BOOLEAN
  BY <1>1 DEF ExplainedInv, world
<1>3. ASSUME NEW h \in Handles, XsGet(h) PROVE RefusalExplained'
  BY <1>1, <1>2, <1>3, CallExplained DEF XsGet
<1>4. ASSUME NEW h \in Handles, XsList(h) PROVE RefusalExplained'
  BY <1>1, <1>2, <1>4, CallExplained DEF XsList
<1>5. ASSUME NEW call \in Calls, Plain(call) PROVE RefusalExplained'
  <2>1. call # "native_name"
    BY DEF Calls
  <2> QED BY <1>1, <1>2, <1>5, <2>1, CallExplained DEF Plain
<1>6. ASSUME NEW call \in {"buffer_free", "validate_name"}, last'.call = call PROVE RefusalExplained'
  <2>1. ~TakesName(call) /\ call # "native_name"
    BY DEF TakesName, Pointers, PointerChecks, ToSet
  <2> QED BY <1>6, <2>1 DEF RefusalExplained
<1>7. ASSUME NEW h \in Handles, XsBufferFree(h) PROVE RefusalExplained'
  BY <1>6, <1>7 DEF XsBufferFree, Call
<1>8. CASE XsValidateName
  BY <1>2, <1>6, <1>8 DEF XsValidateName, Call, ExplainedInv
<1>9. CASE XsNativeName
  BY <1>2, <1>9, NativeExplained DEF ExplainedInv
<1>10. CASE UNCHANGED vars
  BY <1>10 DEF vars, world, RefusalExplained, ExplainedInv, system, TooFar, Spelt
<1> QED BY <1>2, <1>3, <1>4, <1>5, <1>7, <1>8, <1>9, <1>10 DEF Next, ExplainedInv

\* xs_validate_name has a reason for exactly the names that are refused for what
\* they are: what it calls acceptable the library takes to the operating system,
\* unless a Windows path leaves it no room, and what the library refuses it
\* explains (names.rs, classify and to_native; windows.rs, stream_path).
THEOREM RefusalsExplained == Spec => []RefusalExplained
<1>1. Init => ExplainedInv
  BY DEF Init, ExplainedInv, RefusalExplained, TakesName, Pointers, PointerChecks, ToSet
<1>2. ExplainedInv => RefusalExplained
  BY DEF ExplainedInv
<1> QED BY <1>1, <1>2, ExplainedStep, PTL DEF Spec

-----------------------------------------------------------------------------
(* Folds over sequences as runs of their steps                             *)

\* The order the fold goes down in.
LEMMA LessIsRelated ==
  ASSUME NEW m \in Nat, NEW n \in Nat, m < n
  PROVE  <<m, n>> \in OpToRel(<, Nat)
BY Zenon DEF OpToRel

\* The smallest of a set of numbers.
LEMMA LeastOf ==
  ASSUME NEW T, T \subseteq Nat, T # {}
  PROVE  \E m \in T : \A y \in Nat : y < m => y \notin T
<1> DEFINE R == OpToRel(<, Nat)
<1>1. \A m, n \in Nat : m < n => <<m, n>> \in R
  BY LessIsRelated, Zenon
<1>2. IsWellFoundedOn(R, Nat)
  BY NatLessThanWellFounded, Zenon
<1> HIDE DEF R
<1>3. PICK m \in T : \A y \in T : ~(<<y, m>> \in R)
  BY <1>2, WFMin
<1> QED BY <1>1, <1>3

\* What holds at first and is preserved from each to the next holds of all.
LEMMA UpTo ==
  ASSUME NEW N \in Nat, NEW T, 0 \in T, \A n \in 1..N : n - 1 \in T => n \in T
  PROVE  \A n \in 0..N : n \in T
<1> DEFINE Missed == (0..N) \ T
<1> SUFFICES ASSUME Missed # {} PROVE FALSE
  OBVIOUS
<1>1. Missed \subseteq Nat
  OBVIOUS
<1>2. PICK m \in Missed : \A y \in Nat : y < m => y \notin Missed
  BY <1>1, LeastOf
<1>3. m \in 1..N /\ m - 1 \in 0..N /\ m - 1 < m /\ m - 1 \in Nat
  OBVIOUS
<1>4. m - 1 \in T
  BY <1>2, <1>3
<1> QED BY <1>3, <1>4


\* The initial parts of 1..N, which a fold over a sequence of length N takes apart.
LEMMA InitialParts ==
  ASSUME NEW N \in Nat
  PROVE  /\ 1..0 = {} /\ {} \in SUBSET (1..N)
         /\ \A n \in 1..N : /\ 1..n \in SUBSET (1..N) /\ 1..n # {} /\ Max(1..n) = n
                            /\ (1..n) \ {n} = 1..(n - 1)
<1>1. ASSUME NEW n \in 1..N PROVE Max(1..n) = n
  <2>1. n \in 1..n /\ \A y \in 1..n : n >= y
    OBVIOUS
  <2>3. Max(1..n) = CHOOSE x \in 1..n : \A y \in 1..n : x >= y
    BY DEF Max
  <2>2. Max(1..n) \in 1..n /\ \A y \in 1..n : Max(1..n) >= y
    BY <2>1, <2>3
  <2> QED BY <2>1, <2>2
<1>2. \A n \in 1..N : 1..n \in SUBSET (1..N) /\ 1..n # {} /\ (1..n) \ {n} = 1..(n - 1)
  OBVIOUS
<1> QED BY <1>1, <1>2

\* The greatest element a fold takes off first is there.
LEMMA MaxOfSome ==
  ASSUME NEW N \in Nat, NEW s \in SUBSET (1..N), s # {}
  PROVE  Max(s) \in s /\ \A y \in s : Max(s) >= y
<1> DEFINE T == {N - n : n \in s}
<1>0. s \subseteq Int /\ \A n \in s : n <= N /\ n \in Nat
  OBVIOUS
<1>1. T \subseteq Nat /\ T # {}
  <2>1. PICK x \in s : TRUE
    OBVIOUS
  <2>2. N - x \in T
    BY <2>1
  <2> QED BY <1>0, <2>2
<1>2. PICK m \in T : \A y \in Nat : y < m => y \notin T
  BY <1>1, LeastOf
<1>3. PICK n \in s : m = N - n
  OBVIOUS
<1>4. ASSUME NEW y \in s PROVE n >= y
  <2>1. n \in Int /\ y \in Int /\ y <= N
    BY <1>0
  <2>2. CASE n < y
    <3>1. N - y < m /\ N - y \in Nat
      BY <1>3, <2>1, <2>2
    <3>2. N - y \in T
      OBVIOUS
    <3> QED BY <1>2, <3>1, <3>2
  <2> QED BY <2>1, <2>2
<1>5. Max(s) = CHOOSE x \in s : \A y \in s : x >= y
  BY DEF Max
<1> QED BY <1>4, <1>5

\* What a fold goes through, by the positions it has taken in.
Folds(S, base, N, G) ==
  {it \in [SUBSET (1..N) -> S] :
     \A s \in SUBSET (1..N) :
       it[s] = IF s = {} THEN base ELSE G[<<it[s \ {Max(s)}], Max(s)>>]}

\* Every step of a fold has an outcome in S, so the function the fold is made of exists.
LEMMA FoldExists ==
  ASSUME NEW S, NEW base \in S, NEW N \in Nat, NEW G \in [S \X (1..N) -> S]
  PROVE  Folds(S, base, N, G) # {}
<1> DEFINE T == {n \in Nat : n <= N => Folds(S, base, n, G) # {}}
<1>1. 0 \in T
  <2>1. SUBSET (1..0) = {{}}
    OBVIOUS
  <2>2. [s \in SUBSET (1..0) |-> base] \in Folds(S, base, 0, G)
    BY <2>1 DEF Folds
  <2> QED BY <2>2
<1>2. ASSUME NEW n \in 1..N, n - 1 \in T PROVE n \in T
  <2>1. PICK it \in Folds(S, base, n - 1, G) : TRUE
    BY <1>2
  <2>2. /\ it \in [SUBSET (1..(n - 1)) -> S]
        /\ \A s \in SUBSET (1..(n - 1)) :
             it[s] = IF s = {} THEN base ELSE G[<<it[s \ {Max(s)}], Max(s)>>]
    BY DEF Folds
  <2> DEFINE next == [s \in SUBSET (1..n) |-> IF n \in s THEN G[<<it[s \ {n}], n>>] ELSE it[s]]
  <2>3. ASSUME NEW s \in SUBSET (1..n), n \in s
        PROVE  /\ next[s] \in S /\ s # {} /\ Max(s) = n
               /\ next[s] = G[<<next[s \ {Max(s)}], Max(s)>>]
    <3>1. s \ {n} \in SUBSET (1..(n - 1)) /\ n \notin s \ {n} /\ s \ {n} \in SUBSET (1..n)
      OBVIOUS
    <3>0. n \in Nat /\ s # {}
      BY <2>3
    <3>2. Max(s) \in s /\ Max(s) >= n
      BY <2>3, <3>0, MaxOfSome
    <3>3. Max(s) = n
      <4>1. PICK m \in s : m = Max(s)
        BY <3>2
      <4>2. m \in 1..n /\ m >= n
        BY <3>2, <4>1
      <4> QED BY <4>1, <4>2
    <3>4. it[s \ {n}] \in S
      BY <2>2, <3>1
    <3>5. next[s \ {n}] = it[s \ {n}]
      BY <3>1
    <3>6. next[s] = G[<<it[s \ {n}], n>>]
      BY <2>3
    <3>7. <<it[s \ {n}], n>> \in S \X (1..N)
      BY <3>4
    <3> QED BY <2>3, <3>3, <3>5, <3>6, <3>7
  <2>4. ASSUME NEW s \in SUBSET (1..n), n \notin s
        PROVE  /\ next[s] \in S
               /\ next[s] = IF s = {} THEN base ELSE G[<<next[s \ {Max(s)}], Max(s)>>]
    <3>1. s \in SUBSET (1..(n - 1)) /\ next[s] = it[s]
      BY <2>4
    <3>2. s \ {Max(s)} \in SUBSET (1..n) /\ n \notin s \ {Max(s)}
      BY <2>4
    <3>3. next[s \ {Max(s)}] = it[s \ {Max(s)}]
      BY <3>2
    <3> QED BY <2>2, <3>1, <3>3
  <2>5. next \in [SUBSET (1..n) -> S]
    <3>1. \A s \in SUBSET (1..n) : next[s] \in S
      BY <2>3, <2>4
    <3> QED BY <3>1
  <2>6. \A s \in SUBSET (1..n) :
          next[s] = IF s = {} THEN base ELSE G[<<next[s \ {Max(s)}], Max(s)>>]
    BY <2>3, <2>4
  <2> HIDE DEF next
  <2>7. next \in Folds(S, base, n, G)
    BY <2>5, <2>6 DEF Folds
  <2> QED BY <2>7
<1>3. N \in T
  <2> HIDE DEF T
  <2> QED BY <1>1, <1>2, UpTo
<1> QED BY <1>3

\* From one position to the next.
Stepwise(S, base, N, G) ==
  {f \in [0..N -> S] : f[0] = base /\ \A n \in 1..N : f[n] = G[<<f[n - 1], n>>]}

\* What defines a fold, as far as it is known to be well-typed.
Folding(S, base, N, G, g) ==
  /\ g[{}] = base
  /\ \A s \in SUBSET (1..N) : s # {} /\ g[s \ {Max(s)}] \in S
                             => g[s] = G[<<g[s \ {Max(s)}], Max(s)>>]

\* Such a fold, whatever function it is, goes from one position to the next.
LEMMA FoldOf ==
  ASSUME NEW S, NEW base \in S, NEW N \in Nat, NEW G \in [S \X (1..N) -> S], NEW g,
         Folding(S, base, N, G, g)
  PROVE  \E f \in Stepwise(S, base, N, G) : f[N] = g[1..N]
<1> DEFINE T == {n \in 0..N : g[1..n] \in S}
           f == [n \in 0..N |-> g[1..n]]
<1>1. g[1..0] = base
  BY InitialParts DEF Folding
<1>2. ASSUME NEW n \in 1..N, g[1..(n - 1)] \in S
      PROVE  g[1..n] = G[<<g[1..(n - 1)], n>>] /\ g[1..n] \in S
  <2>1. /\ 1..n \in SUBSET (1..N) /\ 1..n # {} /\ Max(1..n) = n
        /\ (1..n) \ {n} = 1..(n - 1)
    BY InitialParts
  <2>2. g[1..n] = G[<<g[1..(n - 1)], n>>]
    BY <1>2, <2>1 DEF Folding
  <2>3. <<g[1..(n - 1)], n>> \in S \X (1..N)
    BY <1>2
  <2> QED BY <2>2, <2>3
<1>3. \A n \in 0..N : g[1..n] \in S
  <2>1. 0 \in T
    BY <1>1
  <2>2. ASSUME NEW n \in 1..N, n - 1 \in T PROVE n \in T
    <3>1. g[1..(n - 1)] \in S
      BY <2>2
    <3>2. g[1..n] \in S
      BY <1>2, <3>1, Zenon
    <3> QED BY <3>2
  <2> HIDE DEF T
  <2>3. \A n \in 0..N : n \in T
    BY <2>1, <2>2, UpTo
  <2> QED BY <2>3 DEF T
<1>4. f \in [0..N -> S] /\ f[0] = base /\ f[N] = g[1..N]
  BY <1>1, <1>3
<1>5. \A n \in 1..N : f[n] = G[<<f[n - 1], n>>]
  <2> SUFFICES ASSUME NEW n \in 1..N PROVE f[n] = G[<<f[n - 1], n>>]
    OBVIOUS
  <2>1. n \in 0..N /\ n - 1 \in 0..N
    OBVIOUS
  <2>2. g[1..n] = G[<<g[1..(n - 1)], n>>]
    BY <1>2, <1>3, <2>1
  <2> QED BY <2>1, <2>2
<1> HIDE DEF f
<1>6. f \in Stepwise(S, base, N, G)
  BY <1>4, <1>5 DEF Stepwise
<1> QED BY <1>4, <1>6

\* How a fold ends.
Ends(S, base, N, G, g) == \E f \in Stepwise(S, base, N, G) : f[N] = g[1..N]

\* And the fold is what that function gives for the whole sequence.
LEMMA FoldEnds ==
  ASSUME NEW S, NEW base \in S, NEW N \in Nat, NEW G \in [S \X (1..N) -> S], NEW g,
         Folding(S, base, N, G, g)
  PROVE  Ends(S, base, N, G, g)
BY FoldOf DEF Ends

LEMMA SeqTyped ==
  ASSUME NEW S, NEW s \in Seq(S)
  PROVE  Len(s) \in Nat /\ DOMAIN s = 1..Len(s) /\ \A n \in 1..Len(s) : s[n] \in S
OBVIOUS

-----------------------------------------------------------------------------
(* Code points in bytes                                                    *)

\* Names and paths as bytes; naturals suffice for what is proved of them.
Line == Seq(Nat)

LEMMA LineParts ==
  ASSUME NEW s \in Line, NEW t \in Line
  PROVE  /\ s \o t \in Line /\ <<>> \in Line
         /\ \A n \in Nat : <<n>> \in Line
         /\ Len(s) \in Nat /\ DOMAIN s = 1..Len(s) /\ \A n \in 1..Len(s) : s[n] \in Nat
BY DEF Line

\* The branches of CodePointAt once its lead byte and its tail are named.
CodeOf(lead, tail, fits) ==
  IF /\ LengthFor(lead) > 0 /\ fits
     /\ LengthFor(lead) > 1 => tail[1] \in SecondByte(lead)
     /\ \A j \in DOMAIN tail : tail[j] \in ContinuationByte
  THEN [cp |-> FoldLeft(LAMBDA cp, b : cp * 64 + (b % 64), LeadBits(lead, LengthFor(lead)), tail),
        n |-> LengthFor(lead)]
  ELSE Malformed

\* The bytes behind the lead byte, and whether the line has them all.
TailAt(s, m) == SubSeq(s, m + 1, m + LengthFor(s[m]) - 1)
\* The bytes that the lead byte at s[m] asks for are there.
FitsAt(s, m) == m + LengthFor(s[m]) - 1 <= Len(s)

\* CodePointAt by the lead byte, the tail behind it and whether the tail is whole.
LEMMA CodePointIs ==
  ASSUME NEW s, NEW m
  PROVE  CodePointAt(s, m) = CodeOf(s[m], TailAt(s, m), FitsAt(s, m))
BY Zenon DEF CodePointAt, CodeOf, TailAt, FitsAt

\* What a lead byte announces is a whole character's length, or none.
LEMMA LeadLength ==
  ASSUME NEW b \in Nat
  PROVE  /\ LengthFor(b) \in 0..4
         /\ LengthFor(b) # 0 => b \notin ContinuationByte
         /\ LengthFor(b) = 1 <=> b < 128
<1>1. CASE b \in 0..127
  <2>1. LengthFor(b) = 1
    BY <1>1 DEF LengthFor
  <2> QED BY <1>1, <2>1 DEF ContinuationByte
<1>2. CASE b \in 194..223
  <2>1. LengthFor(b) = 2
    BY <1>2 DEF LengthFor
  <2> QED BY <1>2, <2>1 DEF ContinuationByte
<1>3. CASE b \in 224..239
  <2>1. LengthFor(b) = 3
    BY <1>3 DEF LengthFor
  <2> QED BY <1>3, <2>1 DEF ContinuationByte
<1>4. CASE b \in 240..244
  <2>1. LengthFor(b) = 4
    BY <1>4 DEF LengthFor
  <2> QED BY <1>4, <2>1 DEF ContinuationByte
<1>5. CASE b \notin 0..127 /\ b \notin 194..223 /\ b \notin 224..239 /\ b \notin 240..244
  <2>1. LengthFor(b) = 0
    BY <1>5 DEF LengthFor
  <2> QED BY <1>5, <2>1
<1> QED BY <1>1, <1>2, <1>3, <1>4, <1>5

\* A piece of a line, byte by byte.
LEMMA PieceIs ==
  ASSUME NEW s \in Line, NEW a \in 1..(Len(s) + 1), NEW b \in (a - 1)..Len(s)
  PROVE  /\ SubSeq(s, a, b) \in Line /\ Len(SubSeq(s, a, b)) = b - a + 1
         /\ \A l \in 1..(b - a + 1) : SubSeq(s, a, b)[l] = s[a + l - 1]
<1>1. Len(s) \in Nat
  BY SeqTyped DEF Line
<1> QED BY <1>1, SubSeqProperties DEF Line

\* The bytes behind the lead.
LEMMA TailIs ==
  ASSUME NEW s \in Line, NEW m \in 1..Len(s), FitsAt(s, m), LengthFor(s[m]) # 0
  PROVE  /\ TailAt(s, m) \in Line /\ Len(TailAt(s, m)) = LengthFor(s[m]) - 1
         /\ \A l \in 1..(LengthFor(s[m]) - 1) : TailAt(s, m)[l] = s[m + l]
<1>1. s[m] \in Nat /\ Len(s) \in Nat
  BY SeqTyped DEF Line
<1>2. PICK n \in 0..4 : n = LengthFor(s[m])
  BY <1>1, LeadLength
<1>0. PICK a \in 1..(Len(s) + 1) : a = m + 1
  BY <1>1
<1>3. PICK b \in (a - 1)..Len(s) : b = m + n - 1
  BY <1>0, <1>1, <1>2 DEF FitsAt
<1>4. TailAt(s, m) = SubSeq(s, a, b)
  BY <1>0, <1>2, <1>3 DEF TailAt
<1>5. /\ SubSeq(s, a, b) \in Line /\ Len(SubSeq(s, a, b)) = b - a + 1
      /\ \A l \in 1..(b - a + 1) : SubSeq(s, a, b)[l] = s[a + l - 1]
  BY PieceIs
<1>6. b - a + 1 = n - 1 /\ \A l \in 1..(n - 1) : a + l - 1 = m + l
  BY <1>0, <1>3
<1>7. \A l \in 1..(n - 1) : SubSeq(s, a, b)[l] = s[m + l]
  BY <1>5, <1>6
<1> QED BY <1>2, <1>4, <1>5, <1>6, <1>7

\* What a character is made of.
LEMMA CharMade ==
  ASSUME NEW s \in Line, NEW m \in 1..Len(s)
  PROVE  /\ CodePointAt(s, m).n \in 0..4
         /\ CodePointAt(s, m).n # 0 =>
              /\ CodePointAt(s, m).n = LengthFor(s[m]) /\ m + CodePointAt(s, m).n - 1 <= Len(s)
              /\ s[m] \notin ContinuationByte
              /\ CodePointAt(s, m).n = 1 <=> s[m] < 128
              /\ \A j \in (m + 1)..(m + CodePointAt(s, m).n - 1) : s[j] \in ContinuationByte
<1>1. s[m] \in Nat /\ Len(s) \in Nat
  BY SeqTyped DEF Line
<1>2. CodePointAt(s, m) = CodeOf(s[m], TailAt(s, m), FitsAt(s, m))
  BY CodePointIs
<1>3. PICK n \in 0..4 : n = LengthFor(s[m])
  BY <1>1, LeadLength
<1>4. CASE CodePointAt(s, m) = Malformed
  BY <1>4 DEF Malformed
<1>5. CASE CodePointAt(s, m) # Malformed
  <2>1. /\ n > 0 /\ FitsAt(s, m) /\ \A j \in DOMAIN TailAt(s, m) : TailAt(s, m)[j] \in ContinuationByte
        /\ \E cp : CodePointAt(s, m) = [cp |-> cp, n |-> n]
    BY <1>2, <1>3, <1>5, Zenon DEF CodeOf
  <2>2. CodePointAt(s, m).n = n
    BY <2>1
  <2>3. m + n - 1 <= Len(s)
    BY <1>3, <2>1 DEF FitsAt
  <2>4. ASSUME NEW j \in (m + 1)..(m + n - 1) PROVE s[j] \in ContinuationByte
    <3>1. PICK t \in Line : t = TailAt(s, m) /\ Len(t) = n - 1 /\ \A l \in 1..(n - 1) : t[l] = s[m + l]
      BY <1>3, <2>1, TailIs
    <3>2. j - m \in 1..(n - 1) /\ m + (j - m) = j
      BY <1>1
    <3>3. DOMAIN t = 1..(n - 1)
      BY <3>1, LineParts
    <3> QED BY <2>1, <3>1, <3>2, <3>3
  <2>5. n = LengthFor(s[m]) /\ n # 0 => s[m] \notin ContinuationByte /\ (n = 1 <=> s[m] < 128)
    BY <1>1, LeadLength
  <2> QED BY <1>3, <2>1, <2>2, <2>3, <2>4, <2>5
<1> QED BY <1>4, <1>5

\* The same bytes are the same character.
Copied(s, m, t, l, n) == \A j \in 0..(n - 1) : l + j <= Len(t) /\ t[l + j] = s[m + j]

\* Copied bytes read as they did where they were copied from.
LEMMA SameCode ==
  ASSUME NEW s \in Line, NEW m \in 1..Len(s), NEW t \in Line, NEW l \in 1..Len(t),
         CodePointAt(s, m).n # 0, Copied(s, m, t, l, CodePointAt(s, m).n)
  PROVE  CodePointAt(t, l) = CodePointAt(s, m)
<1>1. s[m] \in Nat /\ Len(s) \in Nat /\ t[l] \in Nat /\ Len(t) \in Nat
  BY SeqTyped DEF Line
<1>2. PICK n \in 1..4 : n = CodePointAt(s, m).n
  BY CharMade
<1>3. n = LengthFor(s[m]) /\ m + n - 1 <= Len(s)
  BY <1>2, CharMade
<1>4. t[l] = s[m] /\ l + n - 1 <= Len(t)
  <2>1. 0 \in 0..(n - 1) /\ n - 1 \in 0..(n - 1) /\ l + 0 = l /\ m + 0 = m /\ l + (n - 1) = l + n - 1
    OBVIOUS
  <2>2. t[l + 0] = s[m + 0] /\ l + (n - 1) <= Len(t)
    BY <1>2, <2>1 DEF Copied
  <2> QED BY <2>1, <2>2
<1>5. FitsAt(s, m) /\ FitsAt(t, l) /\ FitsAt(s, m) = FitsAt(t, l)
  BY <1>3, <1>4 DEF FitsAt
<1>6. PICK p \in Line : p = TailAt(s, m) /\ Len(p) = n - 1 /\ \A j \in 1..(n - 1) : p[j] = s[m + j]
  BY <1>3, <1>5, TailIs
<1>7. PICK q \in Line : q = TailAt(t, l) /\ Len(q) = n - 1 /\ \A j \in 1..(n - 1) : q[j] = t[l + j]
  <2>1. LengthFor(t[l]) = n
    BY <1>3, <1>4
  <2> QED BY <2>1, <1>5, TailIs
<1>8. p = q
  <2>1. \A j \in 1..(n - 1) : p[j] = q[j]
    BY <1>2, <1>6, <1>7 DEF Copied
  <2> QED BY <1>6, <1>7, <2>1, SeqEqual DEF Line
<1> QED BY <1>4, <1>5, <1>6, <1>7, <1>8, CodePointIs

\* A line is a function on the places 1 to its length.
LEMMA LineLen ==
  ASSUME NEW s \in Line
  PROVE  Len(s) \in Nat /\ DOMAIN s = 1..Len(s) /\ \A n \in 1..Len(s) : s[n] \in Nat
BY SeqTyped DEF Line
\* What the code point of a tail is, one byte at a time.
CodeStep(v, d) == v * 64 + (d % 64)
\* The code point that a tail of continuation bytes makes of the bits of the lead byte.
CodeFold(base, tail) == FoldLeft(LAMBDA cp, b : cp * 64 + (b % 64), base, tail)

\* The fold of CodePointAt, as the sequence of the values it goes through.
LEMMA CodeRun ==
  ASSUME NEW base \in Nat, NEW tail \in Line
  PROVE  \E f \in [0..Len(tail) -> Nat] :
           /\ f[0] = base /\ f[Len(tail)] = CodeFold(base, tail)
           /\ \A n \in 1..Len(tail) : f[n] = CodeStep(f[n - 1], tail[n])
<1> DEFINE N == Len(tail)
           S == Nat
           G == [p \in S \X (1..N) |-> CodeStep(p[1], tail[p[2]])]
           Is(g) == g = [s \in SUBSET (1..N) |-> IF s = {} THEN base
                           ELSE CodeStep(g[s \ {Max(s)}], tail[Max(s)])]
           g == CHOOSE g : Is(g)
<1>1. N \in Nat /\ DOMAIN tail = 1..N /\ \A n \in 1..N : tail[n] \in Nat
  BY SeqTyped DEF Line
<1>2. CodeFold(base, tail) = g[1..N]
  BY <1>1, Zenon DEF FoldLeft, MapThenFoldSet, CodeFold, CodeStep
<1>3. base \in S
  OBVIOUS
<1>4. \A v \in S, n \in 1..N : CodeStep(v, tail[n]) \in S
  <2>1. \A v, d \in Nat : v * 64 + (d % 64) \in Nat
    OBVIOUS
  <2> QED BY <1>1, <2>1 DEF CodeStep
<1>5. G \in [S \X (1..N) -> S] /\ \A v \in S, n \in 1..N : G[<<v, n>>] = CodeStep(v, tail[n])
  BY <1>4
<1> HIDE DEF G, S
<1>6. PICK it \in Folds(S, base, N, G) : TRUE
  <2>1. N \in Nat /\ G \in [S \X (1..N) -> S]
    BY <1>1, <1>5
  <2>2. Folds(S, base, N, G) # {}
    BY <1>3, <2>1, FoldExists
  <2> QED BY <2>2
<1>7. Is(it)
  <2>1. it \in [SUBSET (1..N) -> S]
    BY DEF Folds
  <2>2. \A s \in SUBSET (1..N) : s # {} => Max(s) \in 1..N
    BY <1>1, MaxOfSome
  <2>3. \A s \in SUBSET (1..N) : it[s] = IF s = {} THEN base
                           ELSE CodeStep(it[s \ {Max(s)}], tail[Max(s)])
    BY <1>5, <2>1, <2>2 DEF Folds
  <2> QED BY <2>1, <2>3
<1>8. Is(g)
  BY <1>7, Zenon
<1> HIDE DEF g
<1>9. Folding(S, base, N, G, g)
  BY <1>1, <1>5, <1>8, MaxOfSome DEF Folding
<1> HIDE DEF Is
<1>10. PICK f \in Stepwise(S, base, N, G) : f[N] = g[1..N]
  <2>1. N \in Nat /\ G \in [S \X (1..N) -> S]
    BY <1>1, <1>5
  <2>2. Ends(S, base, N, G, g)
    BY <1>3, <1>9, <2>1, FoldEnds, Zenon
  <2> QED BY <2>2, Zenon DEF Ends
<1>11. /\ f \in [0..N -> S] /\ f[0] = base
       /\ \A n \in 1..N : f[n] = CodeStep(f[n - 1], tail[n])
  <2>1. f \in [0..N -> S] /\ f[0] = base /\ \A n \in 1..N : f[n] = G[<<f[n - 1], n>>]
    BY DEF Stepwise
  <2>2. \A n \in 1..N : f[n - 1] \in S
    BY <1>1, <2>1
  <2> QED BY <1>5, <2>1, <2>2
<1>12. f \in [0..N -> Nat]
  BY <1>11 DEF S
<1> QED BY <1>2, <1>10, <1>11, <1>12, Zenon

\* The code points of characters of one, two and three bytes.
LEMMA CodeFew ==
  ASSUME NEW base \in Nat, NEW tail \in Line
  PROVE  /\ Len(tail) = 0 => CodeFold(base, tail) = base
         /\ Len(tail) = 1 => CodeFold(base, tail) = CodeStep(base, tail[1])
         /\ Len(tail) = 2 => CodeFold(base, tail) = CodeStep(CodeStep(base, tail[1]), tail[2])
         /\ Len(tail) = 3 => CodeFold(base, tail)
                             = CodeStep(CodeStep(CodeStep(base, tail[1]), tail[2]), tail[3])
<1>1. PICK f \in [0..Len(tail) -> Nat] :
           /\ f[0] = base /\ f[Len(tail)] = CodeFold(base, tail)
           /\ \A n \in 1..Len(tail) : f[n] = CodeStep(f[n - 1], tail[n])
  BY CodeRun
<1>2. ASSUME Len(tail) = 1 PROVE CodeFold(base, tail) = CodeStep(base, tail[1])
  <2>1. 1 \in 1..Len(tail) /\ 1 - 1 = 0
    BY <1>2
  <2> QED BY <1>1, <1>2, <2>1
<1>3. ASSUME Len(tail) = 2 PROVE CodeFold(base, tail) = CodeStep(CodeStep(base, tail[1]), tail[2])
  <2>1. 1 \in 1..Len(tail) /\ 1 - 1 = 0 /\ 2 \in 1..Len(tail) /\ 2 - 1 = 1
    BY <1>3
  <2> QED BY <1>1, <1>3, <2>1
<1>4. ASSUME Len(tail) = 3
      PROVE  CodeFold(base, tail) = CodeStep(CodeStep(CodeStep(base, tail[1]), tail[2]), tail[3])
  <2>1. 1 \in 1..Len(tail) /\ 1 - 1 = 0 /\ 2 \in 1..Len(tail) /\ 2 - 1 = 1 /\ 3 \in 1..Len(tail) /\ 3 - 1 = 2
    BY <1>4
  <2> QED BY <1>1, <1>4, <2>1
<1> QED BY <1>1, <1>2, <1>3, <1>4

\* Bytes that encode a character of length n.
LEMMA CodeGood ==
  ASSUME NEW s \in Line, NEW m \in 1..Len(s), NEW n \in 1..4, LengthFor(s[m]) = n, m + n - 1 <= Len(s),
         \A j \in 1..(n - 1) : s[m + j] \in ContinuationByte,
         n > 1 => s[m + 1] \in SecondByte(s[m])
  PROVE  /\ CodePointAt(s, m).n = n
         /\ CodePointAt(s, m).cp = CodeFold(LeadBits(s[m], n), TailAt(s, m))
<1>1. FitsAt(s, m)
  BY DEF FitsAt
<1>2. PICK t \in Line : t = TailAt(s, m) /\ Len(t) = n - 1 /\ \A l \in 1..(n - 1) : t[l] = s[m + l]
  BY <1>1, TailIs
<1>3. \A j \in DOMAIN t : t[j] \in ContinuationByte
  BY <1>2, LineLen
<1>4. n > 1 => t[1] \in SecondByte(s[m])
  BY <1>2
<1>5. n > 0
  OBVIOUS
<1>6. CodeOf(s[m], t, TRUE) = [cp |-> CodeFold(LeadBits(s[m], n), t), n |-> n]
  BY <1>3, <1>4, <1>5, Zenon DEF CodeOf, CodeFold
<1>7. CodePointAt(s, m) = CodeOf(s[m], t, TRUE)
  <2>1. FitsAt(s, m) = TRUE
    BY <1>1 DEF FitsAt
  <2> QED BY <1>2, <2>1, CodePointIs
<1>8. PICK c : c = CodeFold(LeadBits(s[m], n), t)
  OBVIOUS
<1>9. CodePointAt(s, m) = [cp |-> c, n |-> n]
  BY <1>6, <1>7, <1>8, Zenon
<1> QED BY <1>2, <1>8, <1>9

\* The lead bytes of characters of two, three and four bytes.
Lead2 == 194..223
Lead3 == 224..239
Lead4 == 240..244

\* What a lead byte says of the length and the first bits.
LEMMA Leads ==
  /\ \A x \in Lead2 : x \in Nat /\ LengthFor(x) = 2 /\ LeadBits(x, 2) = x - 192
  /\ \A x \in Lead3 : x \in Nat /\ LengthFor(x) = 3 /\ LeadBits(x, 3) = x - 224
  /\ \A x \in Lead4 : x \in Nat /\ LengthFor(x) = 4 /\ LeadBits(x, 4) = x - 240
<1>1. ASSUME NEW x \in Lead2 PROVE x \in Nat /\ LengthFor(x) = 2 /\ LeadBits(x, 2) = x - 192
  <2>1. PICK y \in 194..223 : y = x
    BY DEF Lead2
  <2>2. LengthFor(y) = 2
    BY DEF LengthFor
  <2>3. LeadBits(y, 2) = y % 32 /\ y % 32 = y - 192
    BY DEF LeadBits
  <2> QED BY <2>1, <2>2, <2>3
<1>2. ASSUME NEW x \in Lead3 PROVE x \in Nat /\ LengthFor(x) = 3 /\ LeadBits(x, 3) = x - 224
  <2>1. PICK y \in 224..239 : y = x
    BY DEF Lead3
  <2>2. LengthFor(y) = 3
    BY DEF LengthFor
  <2>3. LeadBits(y, 3) = y % 16 /\ y % 16 = y - 224
    BY DEF LeadBits
  <2> QED BY <2>1, <2>2, <2>3
<1>3. ASSUME NEW x \in Lead4 PROVE x \in Nat /\ LengthFor(x) = 4 /\ LeadBits(x, 4) = x - 240
  <2>1. PICK y \in 240..244 : y = x
    BY DEF Lead4
  <2>2. LengthFor(y) = 4
    BY DEF LengthFor
  <2>3. LeadBits(y, 4) = y % 8 /\ y % 8 = y - 240
    BY DEF LeadBits
  <2> QED BY <2>1, <2>2, <2>3
<1> QED BY <1>1, <1>2, <1>3

\* Six bits come from each continuation byte.
LEMMA Continues ==
  /\ \A x \in ContinuationByte : x \in Nat /\ x - 128 \in 0..63
  /\ \A v \in Nat, x \in ContinuationByte : CodeStep(v, x) = v * 64 + (x - 128) /\ CodeStep(v, x) \in Nat
  /\ \A x \in Nat : SecondByte(x) \subseteq ContinuationByte
<1>1. ASSUME NEW x \in ContinuationByte PROVE x \in Nat /\ x - 128 \in 0..63
  BY DEF ContinuationByte
<1>2. ASSUME NEW v \in Nat, NEW x \in ContinuationByte
      PROVE  CodeStep(v, x) = v * 64 + (x - 128) /\ CodeStep(v, x) \in Nat
  <2>1. PICK y \in 128..191 : y = x
    BY DEF ContinuationByte
  <2>2. y % 64 = y - 128 /\ y - 128 \in Nat
    OBVIOUS
  <2> QED BY <2>1, <2>2 DEF CodeStep
<1>3. ASSUME NEW x \in Nat PROVE SecondByte(x) \subseteq ContinuationByte
  <2>1. CASE x = 224
    BY <2>1 DEF SecondByte, ContinuationByte
  <2>2. CASE x = 240
    BY <2>2 DEF SecondByte, ContinuationByte
  <2>3. CASE x = 244
    BY <2>3 DEF SecondByte, ContinuationByte
  <2>4. CASE x # 224 /\ x # 240 /\ x # 244
    BY <2>4 DEF SecondByte
  <2> QED BY <2>1, <2>2, <2>3, <2>4
<1> QED BY <1>1, <1>2, <1>3

\* What there is at a place of a line.
Found(s, m, cp, n) == CodePointAt(s, m).cp = cp /\ CodePointAt(s, m).n = n

\* The tail of a character that is whole.
LEMMA TailOf ==
  ASSUME NEW s \in Line, NEW m \in 1..Len(s), NEW n \in 1..4, LengthFor(s[m]) = n, m + n - 1 <= Len(s)
  PROVE  \E p \in Line : p = TailAt(s, m) /\ Len(p) = n - 1 /\ \A l \in 1..(n - 1) : p[l] = s[m + l]
<1>1. FitsAt(s, m) /\ LengthFor(s[m]) # 0
  BY DEF FitsAt
<1> QED BY <1>1, TailIs

\* The characters of one to four bytes, each by its bytes.
LEMMA Found1 ==
  ASSUME NEW s \in Line, NEW m \in 1..Len(s), s[m] < 128
  PROVE  Found(s, m, s[m], 1)
<1>1. s[m] \in Nat /\ Len(s) \in Nat
  BY LineLen
<1>2. PICK n \in 1..4 : n = 1
  OBVIOUS
<1>3. /\ LengthFor(s[m]) = n /\ m + n - 1 <= Len(s) /\ \A j \in 1..(n - 1) : s[m + j] \in ContinuationByte
      /\ n > 1 => s[m + 1] \in SecondByte(s[m])
  BY <1>1, <1>2, LeadLength
<1>4. CodePointAt(s, m).n = n /\ CodePointAt(s, m).cp = CodeFold(LeadBits(s[m], n), TailAt(s, m))
  BY <1>3, CodeGood
<1>5. PICK p \in Line : p = TailAt(s, m) /\ Len(p) = n - 1
  BY <1>3, TailOf
<1>6. LeadBits(s[m], 1) = s[m]
  BY DEF LeadBits
<1>7. CodeFold(s[m], p) = s[m]
  BY <1>1, <1>2, <1>5, CodeFew
<1> QED BY <1>2, <1>4, <1>5, <1>6, <1>7 DEF Found

LEMMA Found2 ==
  ASSUME NEW s \in Line, NEW m \in 1..Len(s), m + 1 <= Len(s),
         s[m] \in Lead2, s[m + 1] \in ContinuationByte
  PROVE  Found(s, m, (s[m] - 192) * 64 + (s[m + 1] - 128), 2)
<1>1. PICK x \in Lead2 : x = s[m]
  OBVIOUS
<1>2. PICK y \in ContinuationByte : y = s[m + 1]
  OBVIOUS
<1>3. PICK n \in 1..4 : n = 2
  OBVIOUS
<1>4. /\ LengthFor(s[m]) = n /\ m + n - 1 <= Len(s) /\ \A j \in 1..(n - 1) : s[m + j] \in ContinuationByte
      /\ n > 1 => s[m + 1] \in SecondByte(s[m])
  <2>1. \A j \in 1..(n - 1) : j = 1
    BY <1>3
  <2>2. SecondByte(x) = ContinuationByte
    <3>1. x # 224 /\ x # 240 /\ x # 244
      BY DEF Lead2
    <3> HIDE DEF Lead2
    <3> QED BY <3>1 DEF SecondByte
  <2>3. LengthFor(x) = 2
    BY Leads
  <2>4. m + n - 1 <= Len(s)
    BY <1>3
  <2> QED BY <1>1, <1>3, <2>1, <2>2, <2>3, <2>4
<1>5. CodePointAt(s, m).n = n /\ CodePointAt(s, m).cp = CodeFold(LeadBits(s[m], n), TailAt(s, m))
  BY <1>4, CodeGood
<1>6. PICK p \in Line : p = TailAt(s, m) /\ Len(p) = n - 1 /\ \A l \in 1..(n - 1) : p[l] = s[m + l]
  BY <1>4, TailOf
<1>7. p[1] = y /\ Len(p) = 1
  BY <1>2, <1>3, <1>6
<1>8. PICK v \in Nat : v = x - 192
  BY DEF Lead2
<1>9. LeadBits(x, 2) = v
  BY <1>8, Leads
<1>10. CodeFold(v, p) = CodeStep(v, y)
  BY <1>7, CodeFew
<1>11. CodeStep(v, y) = v * 64 + (y - 128)
  BY Continues
<1> QED BY <1>1, <1>2, <1>3, <1>5, <1>6, <1>8, <1>9, <1>10, <1>11 DEF Found

LEMMA Found3 ==
  ASSUME NEW s \in Line, NEW m \in 1..Len(s), m + 2 <= Len(s),
         s[m] \in Lead3, s[m + 1] \in SecondByte(s[m]), s[m + 2] \in ContinuationByte
  PROVE  Found(s, m, ((s[m] - 224) * 64 + (s[m + 1] - 128)) * 64 + (s[m + 2] - 128), 3)
<1>1. PICK x \in Lead3 : x = s[m]
  OBVIOUS
<1>2. PICK y \in ContinuationByte : y = s[m + 1]
  BY <1>1, Leads, Continues
<1>3. PICK z \in ContinuationByte : z = s[m + 2]
  OBVIOUS
<1>4. PICK n \in 1..4 : n = 3
  OBVIOUS
<1>5. /\ LengthFor(s[m]) = n /\ m + n - 1 <= Len(s) /\ \A j \in 1..(n - 1) : s[m + j] \in ContinuationByte
      /\ n > 1 => s[m + 1] \in SecondByte(s[m])
  <2>1. \A j \in 1..(n - 1) : j = 1 \/ j = 2
    BY <1>4
  <2>3. LengthFor(x) = 3
    BY Leads
  <2>4. m + n - 1 <= Len(s)
    BY <1>4
  <2> QED BY <1>1, <1>2, <1>3, <1>4, <2>1, <2>3, <2>4
<1>6. CodePointAt(s, m).n = n /\ CodePointAt(s, m).cp = CodeFold(LeadBits(s[m], n), TailAt(s, m))
  BY <1>5, CodeGood
<1>7. PICK p \in Line : p = TailAt(s, m) /\ Len(p) = n - 1 /\ \A l \in 1..(n - 1) : p[l] = s[m + l]
  BY <1>5, TailOf
<1>8. p[1] = y /\ p[2] = z /\ Len(p) = 2
  BY <1>2, <1>3, <1>4, <1>7
<1>9. PICK v \in Nat : v = x - 224
  BY DEF Lead3
<1>10. LeadBits(x, 3) = v
  BY <1>9, Leads
<1>11. CodeFold(v, p) = CodeStep(CodeStep(v, y), z)
  BY <1>8, CodeFew
<1>12. CodeStep(CodeStep(v, y), z) = (v * 64 + (y - 128)) * 64 + (z - 128)
  <2>a. CodeStep(v, y) = v * 64 + (y - 128) /\ CodeStep(v, y) \in Nat
    BY Continues
  <2>1. PICK c \in Nat : c = CodeStep(v, y) /\ c = v * 64 + (y - 128)
    BY <2>a
  <2>2. CodeStep(c, z) = c * 64 + (z - 128)
    BY Continues
  <2> QED BY <2>1, <2>2
<1> QED BY <1>1, <1>2, <1>3, <1>4, <1>6, <1>7, <1>9, <1>10, <1>11, <1>12 DEF Found

LEMMA Found4 ==
  ASSUME NEW s \in Line, NEW m \in 1..Len(s), m + 3 <= Len(s),
         s[m] \in Lead4, s[m + 1] \in SecondByte(s[m]), s[m + 2] \in ContinuationByte,
         s[m + 3] \in ContinuationByte
  PROVE  Found(s, m, (((s[m] - 240) * 64 + (s[m + 1] - 128)) * 64 + (s[m + 2] - 128)) * 64
                     + (s[m + 3] - 128), 4)
<1>1. PICK x \in Lead4 : x = s[m]
  OBVIOUS
<1>2. PICK y \in ContinuationByte : y = s[m + 1]
  BY <1>1, Leads, Continues
<1>3. PICK z \in ContinuationByte : z = s[m + 2]
  OBVIOUS
<1>a. PICK w \in ContinuationByte : w = s[m + 3]
  OBVIOUS
<1>4. PICK n \in 1..4 : n = 4
  OBVIOUS
<1>5. /\ LengthFor(s[m]) = n /\ m + n - 1 <= Len(s) /\ \A j \in 1..(n - 1) : s[m + j] \in ContinuationByte
      /\ n > 1 => s[m + 1] \in SecondByte(s[m])
  <2>1. \A j \in 1..(n - 1) : j = 1 \/ j = 2 \/ j = 3
    BY <1>4
  <2>3. LengthFor(x) = 4
    BY Leads
  <2>4. m + n - 1 <= Len(s)
    BY <1>4
  <2> QED BY <1>1, <1>2, <1>3, <1>a, <1>4, <2>1, <2>3, <2>4
<1>6. CodePointAt(s, m).n = n /\ CodePointAt(s, m).cp = CodeFold(LeadBits(s[m], n), TailAt(s, m))
  BY <1>5, CodeGood
<1>7. PICK p \in Line : p = TailAt(s, m) /\ Len(p) = n - 1 /\ \A l \in 1..(n - 1) : p[l] = s[m + l]
  BY <1>5, TailOf
<1>8. p[1] = y /\ p[2] = z /\ p[3] = w /\ Len(p) = 3
  BY <1>2, <1>3, <1>a, <1>4, <1>7
<1>9. PICK v \in Nat : v = x - 240
  BY DEF Lead4
<1>10. LeadBits(x, 4) = v
  BY <1>9, Leads
<1>11. CodeFold(v, p) = CodeStep(CodeStep(CodeStep(v, y), z), w)
  BY <1>8, CodeFew
<1>12. CodeStep(CodeStep(CodeStep(v, y), z), w) = ((v * 64 + (y - 128)) * 64 + (z - 128)) * 64 + (w - 128)
  <2>a. CodeStep(v, y) = v * 64 + (y - 128) /\ CodeStep(v, y) \in Nat
    BY Continues
  <2>1. PICK c \in Nat : c = CodeStep(v, y) /\ c = v * 64 + (y - 128)
    BY <2>a
  <2>b. CodeStep(c, z) = c * 64 + (z - 128) /\ CodeStep(c, z) \in Nat
    BY Continues
  <2>2. PICK d \in Nat : d = CodeStep(c, z) /\ d = c * 64 + (z - 128)
    BY <2>b
  <2>3. CodeStep(d, w) = d * 64 + (w - 128)
    BY Continues
  <2> QED BY <2>1, <2>2, <2>3
<1> QED BY <1>1, <1>2, <1>3, <1>a, <1>4, <1>6, <1>7, <1>9, <1>10, <1>11, <1>12 DEF Found

\* The code points, surrogates included.
Code == {cp \in Nat : cp <= 1114111}

\* Division by the powers of 64, one step at a time.
LEMMA Quotients ==
  ASSUME NEW x \in Nat
  PROVE  /\ x \div 64 \in Nat /\ x = 64 * (x \div 64) + (x % 64) /\ x % 64 \in 0..63
         /\ x \div 4096 = (x \div 64) \div 64
         /\ x \div 262144 = ((x \div 64) \div 64) \div 64
<1>1. PICK q \in Nat : q = x \div 64
  OBVIOUS
<1>2. PICK r \in 0..63 : r = x % 64
  OBVIOUS
<1>3. x = 64 * q + r
  BY <1>1, <1>2
<1>4. PICK p \in Nat : p = q \div 64
  OBVIOUS
<1>5. PICK t \in 0..63 : t = q % 64
  OBVIOUS
<1>6. q = 64 * p + t
  BY <1>4, <1>5
<1>7. x \div 4096 = p
  BY <1>3, <1>6
<1>8. x \div 262144 = p \div 64
  BY <1>3, <1>6
<1> QED BY <1>1, <1>2, <1>3, <1>4, <1>7, <1>8

\* What cp is made of, from the right.
LEMMA Encoded1 ==
  ASSUME NEW cp \in Nat, cp < 128
  PROVE  /\ Utf8(cp) \in Line /\ Len(Utf8(cp)) = 1
         /\ Found(Utf8(cp), 1, cp, 1)
<1>2. PICK s \in Line : s = <<cp>> /\ Len(s) = 1 /\ s[1] = cp
  <2>1. cp \in Nat
    BY Leads, Continues
  <2>2. <<cp>> \in Line
    BY <2>1 DEF Line
  <2>3. Len(<<cp>>) = 1 /\ <<cp>>[1] = cp
    OBVIOUS
  <2> QED BY <2>2, <2>3
<1>3. Utf8(cp) = s
  BY <1>2 DEF Utf8
<1>4. Found(s, 1, s[1], 1)
  BY <1>2, Found1
<1> QED BY <1>2, <1>3, <1>4

\* What Utf8 writes for a code point is the character of that code point.
LEMMA Encoded2 ==
  ASSUME NEW cp \in Nat, cp >= 128, cp < 2048
  PROVE  /\ Utf8(cp) \in Line /\ Len(Utf8(cp)) = 2
         /\ Found(Utf8(cp), 1, cp, 2)
<1>1. PICK q \in Nat : q = cp \div 64
  OBVIOUS
<1>2. PICK r \in 0..63 : r = cp % 64
  OBVIOUS
<1>3. cp = 64 * q + r
  BY <1>1, <1>2
<1>4. PICK x \in Lead2 : x = 192 + q
  BY <1>3 DEF Lead2
<1>5. PICK y \in ContinuationByte : y = 128 + r
  BY DEF ContinuationByte
<1>6. Utf8(cp) = <<x, y>>
  BY <1>1, <1>2, <1>4, <1>5 DEF Utf8
<1>8. PICK s \in Line : s = <<x, y>> /\ Len(s) = 2 /\ s[1] = x /\ s[2] = y
  <2>1. x \in Nat /\ y \in Nat
    BY Leads, Continues
  <2>2. <<x, y>> \in Line
    BY <2>1 DEF Line
  <2>3. Len(<<x, y>>) = 2 /\ <<x, y>>[1] = x /\ <<x, y>>[2] = y
    OBVIOUS
  <2> QED BY <2>2, <2>3
<1>9. Found(s, 1, (x - 192) * 64 + (y - 128), 2)
  <2>1. PICK m \in 1..Len(s) : m = 1
    BY <1>8
  <2>2. m + 1 <= Len(s) /\ s[m] \in Lead2 /\ s[m + 1] \in ContinuationByte /\ s[m] = x /\ s[m + 1] = y
    BY <1>8, <2>1
  <2>3. Found(s, m, (s[m] - 192) * 64 + (s[m + 1] - 128), 2)
    BY <1>8, <2>2, Found2
  <2> QED BY <2>1, <2>2, <2>3
<1>10. (x - 192) * 64 + (y - 128) = cp
  BY <1>3, <1>4, <1>5
<1> QED BY <1>6, <1>8, <1>9, <1>10

LEMMA Encoded3 ==
  ASSUME NEW cp \in Nat, cp >= 2048, cp < 65536
  PROVE  /\ Utf8(cp) \in Line /\ Len(Utf8(cp)) = 3
         /\ Found(Utf8(cp), 1, cp, 3)
<1>1. PICK q \in Nat : q = cp \div 64
  OBVIOUS
<1>2. PICK r \in 0..63 : r = cp % 64
  OBVIOUS
<1>3. cp = 64 * q + r
  BY <1>1, <1>2
<1>4. PICK p \in Nat : p = q \div 64
  OBVIOUS
<1>5. PICK t \in 0..63 : t = q % 64
  OBVIOUS
<1>6. q = 64 * p + t
  BY <1>4, <1>5
<1>7. cp \div 4096 = p
  BY <1>1, <1>4, Quotients
<1>8. PICK x \in Lead3 : x = 224 + p
  BY <1>3, <1>6 DEF Lead3
<1>9. PICK y \in ContinuationByte : y = 128 + t
  BY DEF ContinuationByte
<1>10. PICK z \in ContinuationByte : z = 128 + r
  BY DEF ContinuationByte
<1>11. Utf8(cp) = <<x, y, z>>
  BY <1>1, <1>2, <1>5, <1>7, <1>8, <1>9, <1>10 DEF Utf8
<1>12. y \in SecondByte(x)
  <2>1. CASE x = 224
    <3>1. t >= 32
      BY <1>3, <1>6, <1>8, <2>1
    <3> QED BY <1>9, <2>1, <3>1 DEF SecondByte
  <2>2. CASE x # 224
    <3>1. x # 240 /\ x # 244
      BY DEF Lead3
    <3>2. SecondByte(x) = ContinuationByte
      BY <2>2, <3>1 DEF SecondByte
    <3> QED BY <3>2
  <2> QED BY <2>1, <2>2
<1>14. PICK s \in Line : s = <<x, y, z>> /\ Len(s) = 3 /\ s[1] = x /\ s[2] = y /\ s[3] = z
  <2>1. x \in Nat /\ y \in Nat /\ z \in Nat
    BY Leads, Continues
  <2>2. <<x, y, z>> \in Line
    BY <2>1 DEF Line
  <2>3. Len(<<x, y, z>>) = 3 /\ <<x, y, z>>[1] = x /\ <<x, y, z>>[2] = y /\ <<x, y, z>>[3] = z
    OBVIOUS
  <2> QED BY <2>2, <2>3
<1>15. Found(s, 1, ((x - 224) * 64 + (y - 128)) * 64 + (z - 128), 3)
  <2>1. PICK m \in 1..Len(s) : m = 1
    BY <1>14
  <2>2. m + 2 <= Len(s) /\ s[m] = x /\ s[m + 1] = y /\ s[m + 2] = z
    BY <1>14, <2>1
  <2>3. Found(s, m, ((s[m] - 224) * 64 + (s[m + 1] - 128)) * 64 + (s[m + 2] - 128), 3)
    BY <1>12, <1>14, <2>2, Found3, SMTT(60)
  <2> QED BY <2>1, <2>2, <2>3
<1>16. ((x - 224) * 64 + (y - 128)) * 64 + (z - 128) = cp
  BY <1>3, <1>6, <1>8, <1>9, <1>10
<1> QED BY <1>11, <1>14, <1>15, <1>16

LEMMA Encoded4 ==
  ASSUME NEW cp \in Code, cp >= 65536
  PROVE  /\ Utf8(cp) \in Line /\ Len(Utf8(cp)) = 4
         /\ Found(Utf8(cp), 1, cp, 4)
<1>0. cp \in Nat /\ cp <= 1114111
  BY DEF Code
<1>1. PICK q \in Nat : q = cp \div 64
  BY <1>0
<1>2. PICK r \in 0..63 : r = cp % 64
  BY <1>0
<1>3. cp = 64 * q + r
  BY <1>0, <1>1, <1>2
<1>4. PICK p \in Nat : p = q \div 64
  OBVIOUS
<1>5. PICK t \in 0..63 : t = q % 64
  OBVIOUS
<1>6. q = 64 * p + t
  BY <1>4, <1>5
<1>a. PICK h \in Nat : h = p \div 64
  OBVIOUS
<1>b. PICK u \in 0..63 : u = p % 64
  OBVIOUS
<1>c. p = 64 * h + u
  BY <1>a, <1>b
<1>7. cp \div 4096 = p /\ cp \div 262144 = h
  BY <1>0, <1>1, <1>4, <1>a, Quotients
<1>8. PICK x \in Lead4 : x = 240 + h
  BY <1>0, <1>3, <1>6, <1>c DEF Lead4
<1>d. PICK w \in ContinuationByte : w = 128 + u
  BY DEF ContinuationByte
<1>9. PICK y \in ContinuationByte : y = 128 + t
  BY DEF ContinuationByte
<1>10. PICK z \in ContinuationByte : z = 128 + r
  BY DEF ContinuationByte
<1>11. Utf8(cp) = <<x, w, y, z>>
  BY <1>0, <1>1, <1>2, <1>5, <1>b, <1>7, <1>8, <1>d, <1>9, <1>10 DEF Utf8
<1>12. w \in SecondByte(x)
  <2>1. CASE x = 240
    <3>1. u >= 16
      BY <1>0, <1>3, <1>6, <1>c, <1>8, <2>1
    <3> QED BY <1>d, <2>1, <3>1 DEF SecondByte
  <2>2. CASE x = 244
    <3>1. u < 16
      BY <1>0, <1>3, <1>6, <1>c, <1>8, <2>2
    <3> QED BY <1>d, <2>2, <3>1 DEF SecondByte
  <2>3. CASE x # 240 /\ x # 244
    <3>1. x # 224
      BY DEF Lead4
    <3>2. SecondByte(x) = ContinuationByte
      BY <2>3, <3>1 DEF SecondByte
    <3> QED BY <3>2
  <2> QED BY <2>1, <2>2, <2>3
<1>14. PICK s \in Line : s = <<x, w, y, z>> /\ Len(s) = 4 /\ s[1] = x /\ s[2] = w /\ s[3] = y /\ s[4] = z
  <2>1. x \in Nat /\ w \in Nat /\ y \in Nat /\ z \in Nat
    BY Leads, Continues
  <2>2. <<x, w, y, z>> \in Line
    BY <2>1 DEF Line
  <2>3. Len(<<x, w, y, z>>) = 4 /\ <<x, w, y, z>>[1] = x /\ <<x, w, y, z>>[2] = w /\ <<x, w, y, z>>[3] = y /\ <<x, w, y, z>>[4] = z
    OBVIOUS
  <2> QED BY <2>2, <2>3
<1>15. Found(s, 1, (((x - 240) * 64 + (w - 128)) * 64 + (y - 128)) * 64 + (z - 128), 4)
  <2>1. PICK m \in 1..Len(s) : m = 1
    BY <1>14
  <2>2. m + 3 <= Len(s) /\ s[m] = x /\ s[m + 1] = w /\ s[m + 2] = y /\ s[m + 3] = z
    BY <1>14, <2>1
  <2>3. Found(s, m, (((s[m] - 240) * 64 + (s[m + 1] - 128)) * 64 + (s[m + 2] - 128)) * 64 + (s[m + 3] - 128), 4)
    BY <1>12, <1>14, <2>2, Found4
  <2> QED BY <2>1, <2>2, <2>3
<1>16. (((x - 240) * 64 + (w - 128)) * 64 + (y - 128)) * 64 + (z - 128) = cp
  BY <1>0, <1>3, <1>6, <1>c, <1>8, <1>d, <1>9, <1>10
<1> QED BY <1>11, <1>14, <1>15, <1>16

\* The bytes of a code point are read as that code point.
LEMMA Encoded ==
  ASSUME NEW cp \in Code
  PROVE  \E n \in 1..4 : /\ Utf8(cp) \in Line /\ Len(Utf8(cp)) = n /\ Found(Utf8(cp), 1, cp, n)
                         /\ n = 4 <=> cp >= 65536
<1>1. cp \in Nat
  BY DEF Code
<1>2. CASE cp < 128
  BY <1>1, <1>2, Encoded1
<1>3. CASE cp >= 128 /\ cp < 2048
  BY <1>1, <1>3, Encoded2
<1>4. CASE cp >= 2048 /\ cp < 65536
  BY <1>1, <1>4, Encoded3
<1>5. CASE cp >= 65536
  BY <1>1, <1>5, Encoded4
<1> QED BY <1>1, <1>2, <1>3, <1>4, <1>5

\* The lead byte of a length, and the second bytes that rule out overlong forms, and more than 16#10FFFF.
LEMMA LeadOf ==
  ASSUME NEW b \in Nat
  PROVE  /\ LengthFor(b) = 1 => b < 128
         /\ LengthFor(b) = 2 => b \in Lead2
         /\ LengthFor(b) = 3 => b \in Lead3
         /\ LengthFor(b) = 4 => b \in Lead4
<1>1. CASE b \in 0..127
  <2>1. LengthFor(b) = 1
    BY <1>1 DEF LengthFor
  <2> QED BY <1>1, <2>1
<1>2. CASE b \in 194..223
  <2>1. LengthFor(b) = 2
    BY <1>2 DEF LengthFor
  <2> QED BY <1>2, <2>1 DEF Lead2
<1>3. CASE b \in 224..239
  <2>1. LengthFor(b) = 3
    BY <1>3 DEF LengthFor
  <2> QED BY <1>3, <2>1 DEF Lead3
<1>4. CASE b \in 240..244
  <2>1. LengthFor(b) = 4
    BY <1>4 DEF LengthFor
  <2> QED BY <1>4, <2>1 DEF Lead4
<1>5. CASE b \notin 0..127 /\ b \notin 194..223 /\ b \notin 224..239 /\ b \notin 240..244
  <2>1. LengthFor(b) = 0
    BY <1>5 DEF LengthFor
  <2> QED BY <2>1
<1> QED BY <1>1, <1>2, <1>3, <1>4, <1>5

LEMMA Seconds ==
  /\ \A y \in SecondByte(224) : y >= 160
  /\ \A y \in SecondByte(240) : y >= 144
  /\ \A y \in SecondByte(244) : y <= 143
BY DEF SecondByte

\* The bytes there are at a place with a character of length n.
LEMMA BytesThere ==
  ASSUME NEW s \in Line, NEW m \in 1..Len(s), NEW n \in 1..4, CodePointAt(s, m).n = n
  PROVE  /\ m + n - 1 <= Len(s) /\ LengthFor(s[m]) = n
         /\ n > 1 => s[m + 1] \in SecondByte(s[m])
         /\ \A j \in 1..(n - 1) : s[m + j] \in ContinuationByte
<1>1. /\ n = LengthFor(s[m]) /\ m + n - 1 <= Len(s)
      /\ \A j \in (m + 1)..(m + n - 1) : s[j] \in ContinuationByte
  BY CharMade
<1>2. \A j \in 1..(n - 1) : m + j \in (m + 1)..(m + n - 1)
  OBVIOUS
<1>3. ASSUME n > 1 PROVE s[m + 1] \in SecondByte(s[m])
  <2>1. CodePointAt(s, m) = CodeOf(s[m], TailAt(s, m), FitsAt(s, m))
    BY CodePointIs
  <2>2. CodePointAt(s, m) # Malformed
    BY DEF Malformed
  <2>3. LengthFor(s[m]) > 1
    BY <1>1, <1>3
  <2>4. TailAt(s, m)[1] \in SecondByte(s[m])
    BY <2>1, <2>2, <2>3, Zenon DEF CodeOf
  <2>5. PICK p \in Line : p = TailAt(s, m) /\ \A l \in 1..(n - 1) : p[l] = s[m + l]
    BY <1>1, TailOf
  <2>6. p[1] = s[m + 1]
    BY <1>3, <2>5
  <2> QED BY <2>4, <2>5, <2>6
<1> QED BY <1>1, <1>2, <1>3

\* A character and its bytes.
Spells(s, m, cp, n) ==
  /\ Found(s, m, cp, n) /\ m + n - 1 <= Len(s) /\ Len(Utf8(cp)) = n
  /\ \A j \in 1..n : Utf8(cp)[j] = s[m + j - 1]
  /\ cp < 128 => cp = s[m]

\* A character that was found is the UTF-8 of its code point, of each length.
LEMMA Spells1 ==
  ASSUME NEW s \in Line, NEW m \in 1..Len(s), CodePointAt(s, m).n = 1
  PROVE  \E cp \in Code : Spells(s, m, cp, 1)
<1>1. s[m] \in Nat
  BY LineLen
<1>2. PICK n \in 1..4 : n = 1
  OBVIOUS
<1>3. m + n - 1 <= Len(s) /\ LengthFor(s[m]) = n
  BY <1>2, BytesThere
<1>4. s[m] < 128
  BY <1>1, <1>2, <1>3, LeadOf
<1>5. Found(s, m, s[m], 1)
  BY <1>4, Found1
<1>6. PICK cp \in Nat : cp = s[m] /\ cp < 128
  BY <1>1, <1>4
<1>7. Utf8(cp) = <<cp>>
  BY <1>6 DEF Utf8
<1>8. Len(Utf8(cp)) = 1 /\ Utf8(cp)[1] = cp
  BY <1>7
<1>9. cp \in Code
  BY <1>6 DEF Code
<1>10. \A j \in 1..1 : Utf8(cp)[j] = s[m + j - 1]
  <2>1. m + 1 - 1 = m
    OBVIOUS
  <2> QED BY <1>6, <1>8, <2>1
<1> QED BY <1>2, <1>3, <1>5, <1>6, <1>8, <1>9, <1>10 DEF Spells

LEMMA Spells2 ==
  ASSUME NEW s \in Line, NEW m \in 1..Len(s), CodePointAt(s, m).n = 2
  PROVE  \E cp \in Code : Spells(s, m, cp, 2)
<1>1. s[m] \in Nat
  BY LineLen
<1>2. PICK n \in 1..4 : n = 2
  OBVIOUS
<1>3. /\ m + n - 1 <= Len(s) /\ LengthFor(s[m]) = n
      /\ \A j \in 1..(n - 1) : s[m + j] \in ContinuationByte
  BY <1>2, BytesThere
<1>4. PICK x \in Lead2 : x = s[m]
  BY <1>1, <1>2, <1>3, LeadOf
<1>5. PICK y \in ContinuationByte : y = s[m + 1]
  <2>1. 1 \in 1..(n - 1)
    BY <1>2
  <2> QED BY <1>3, <2>1
<1>6. m + 1 <= Len(s)
  BY <1>2, <1>3
<1>7. Found(s, m, (x - 192) * 64 + (y - 128), 2)
  <2>1. s[m] \in Lead2 /\ s[m + 1] \in ContinuationByte
    BY <1>4, <1>5
  <2> QED BY <1>4, <1>5, <1>6, <2>1, Found2
<1>8. PICK q \in 2..31 : q = x - 192
  BY DEF Lead2
<1>9. PICK r \in 0..63 : r = y - 128
  BY Continues
<1>10. PICK cp \in Nat : cp = q * 64 + r
  OBVIOUS
<1>11. cp >= 128 /\ cp < 2048 /\ cp \div 64 = q /\ cp % 64 = r
  BY <1>10
<1>12. 192 + q = x /\ 128 + r = y
  <2>1. x \in Nat /\ y \in Nat
    BY Leads, Continues
  <2> QED BY <1>8, <1>9, <2>1
<1>13. Utf8(cp) = <<x, y>>
  BY <1>11, <1>12 DEF Utf8
<1>14. Len(Utf8(cp)) = 2 /\ Utf8(cp)[1] = x /\ Utf8(cp)[2] = y
  BY <1>13
<1>15. cp \in Code
  BY <1>11 DEF Code
<1>16. \A j \in 1..2 : Utf8(cp)[j] = s[m + j - 1]
  <2>1. m + 1 - 1 = m /\ m + 2 - 1 = m + 1 /\ \A j \in 1..2 : j = 1 \/ j = 2
    OBVIOUS
  <2> QED BY <1>4, <1>5, <1>14, <2>1
<1>17. m + 2 - 1 <= Len(s) /\ ~(cp < 128)
  BY <1>6, <1>11
<1>18. Found(s, m, cp, 2)
  BY <1>7, <1>8, <1>9, <1>10
<1> QED BY <1>14, <1>15, <1>16, <1>17, <1>18 DEF Spells

LEMMA Spells3 ==
  ASSUME NEW s \in Line, NEW m \in 1..Len(s), CodePointAt(s, m).n = 3
  PROVE  \E cp \in Code : Spells(s, m, cp, 3)
<1>1. s[m] \in Nat
  BY LineLen
<1>2. PICK n \in 1..4 : n = 3
  OBVIOUS
<1>3. /\ m + n - 1 <= Len(s) /\ LengthFor(s[m]) = n /\ s[m + 1] \in SecondByte(s[m])
      /\ \A j \in 1..(n - 1) : s[m + j] \in ContinuationByte
  BY <1>2, BytesThere
<1>4. PICK x \in Lead3 : x = s[m]
  BY <1>1, <1>2, <1>3, LeadOf
<1>5. PICK y \in ContinuationByte : y = s[m + 1]
  <2>1. 1 \in 1..(n - 1)
    BY <1>2
  <2> QED BY <1>3, <2>1
<1>a. PICK z \in ContinuationByte : z = s[m + 2]
  <2>1. 2 \in 1..(n - 1)
    BY <1>2
  <2> QED BY <1>3, <2>1
<1>6. m + 2 <= Len(s)
  BY <1>2, <1>3
<1>7. Found(s, m, ((x - 224) * 64 + (y - 128)) * 64 + (z - 128), 3)
  <2>1. s[m] \in Lead3 /\ s[m + 1] \in SecondByte(s[m]) /\ s[m + 2] \in ContinuationByte
    BY <1>3, <1>4, <1>a
  <2>2. Found(s, m, ((s[m] - 224) * 64 + (s[m + 1] - 128)) * 64 + (s[m + 2] - 128), 3)
    BY <1>6, <2>1, Found3
  <2> QED BY <1>4, <1>5, <1>a, <2>2
<1>8. PICK p \in 0..15 : p = x - 224
  BY DEF Lead3
<1>9. PICK t \in 0..63 : t = y - 128
  BY Continues
<1>b. PICK r \in 0..63 : r = z - 128
  BY Continues
<1>c. p = 0 => t >= 32
  <2>1. ASSUME x = 224 PROVE y >= 160
    <3>1. y \in SecondByte(224)
      BY <1>3, <1>4, <1>5, <2>1
    <3> QED BY <3>1, Seconds
  <2>2. x \in Nat /\ y \in Nat
    BY Leads, Continues
  <2> QED BY <1>8, <1>9, <2>1, <2>2
<1>d. PICK q \in Nat : q = p * 64 + t
  OBVIOUS
<1>10. PICK cp \in Nat : cp = q * 64 + r
  OBVIOUS
<1>11. cp >= 2048 /\ cp < 65536 /\ cp \div 64 = q /\ cp % 64 = r /\ q \div 64 = p /\ q % 64 = t
  BY <1>c, <1>d, <1>10
<1>e. cp \div 4096 = p
  BY <1>11, Quotients
<1>12. 224 + p = x /\ 128 + t = y /\ 128 + r = z
  <2>1. x \in Nat /\ y \in Nat /\ z \in Nat
    BY Leads, Continues
  <2> QED BY <1>8, <1>9, <1>b, <2>1
<1>13. Utf8(cp) = <<x, y, z>>
  BY <1>11, <1>e, <1>12 DEF Utf8
<1>14. Len(Utf8(cp)) = 3 /\ Utf8(cp)[1] = x /\ Utf8(cp)[2] = y /\ Utf8(cp)[3] = z
  BY <1>13
<1>15. cp \in Code
  BY <1>11 DEF Code
<1>16. \A j \in 1..3 : Utf8(cp)[j] = s[m + j - 1]
  <2>1. /\ m + 1 - 1 = m /\ m + 2 - 1 = m + 1 /\ m + 3 - 1 = m + 2
        /\ \A j \in 1..3 : j = 1 \/ j = 2 \/ j = 3
    OBVIOUS
  <2> QED BY <1>4, <1>5, <1>a, <1>14, <2>1
<1>17. m + 3 - 1 <= Len(s) /\ ~(cp < 128)
  BY <1>6, <1>11
<1>18. Found(s, m, cp, 3)
  BY <1>7, <1>8, <1>9, <1>b, <1>d, <1>10
<1> QED BY <1>14, <1>15, <1>16, <1>17, <1>18 DEF Spells

LEMMA Spells4 ==
  ASSUME NEW s \in Line, NEW m \in 1..Len(s), CodePointAt(s, m).n = 4
  PROVE  \E cp \in Code : Spells(s, m, cp, 4)
<1>1. s[m] \in Nat
  BY LineLen
<1>2. PICK n \in 1..4 : n = 4
  OBVIOUS
<1>3. /\ m + n - 1 <= Len(s) /\ LengthFor(s[m]) = n /\ s[m + 1] \in SecondByte(s[m])
      /\ \A j \in 1..(n - 1) : s[m + j] \in ContinuationByte
  BY <1>2, BytesThere
<1>4. PICK x \in Lead4 : x = s[m]
  BY <1>1, <1>2, <1>3, LeadOf
<1>5. PICK w \in ContinuationByte : w = s[m + 1]
  <2>1. 1 \in 1..(n - 1)
    BY <1>2
  <2> QED BY <1>3, <2>1
<1>a. PICK y \in ContinuationByte : y = s[m + 2]
  <2>1. 2 \in 1..(n - 1)
    BY <1>2
  <2> QED BY <1>3, <2>1
<1>f. PICK z \in ContinuationByte : z = s[m + 3]
  <2>1. 3 \in 1..(n - 1)
    BY <1>2
  <2> QED BY <1>3, <2>1
<1>6. m + 3 <= Len(s)
  BY <1>2, <1>3
<1>7. Found(s, m, (((x - 240) * 64 + (w - 128)) * 64 + (y - 128)) * 64 + (z - 128), 4)
  <2>1. /\ s[m] \in Lead4 /\ s[m + 1] \in SecondByte(s[m]) /\ s[m + 2] \in ContinuationByte
        /\ s[m + 3] \in ContinuationByte
    BY <1>3, <1>4, <1>a, <1>f
  <2>2. Found(s, m, (((s[m] - 240) * 64 + (s[m + 1] - 128)) * 64 + (s[m + 2] - 128)) * 64
                    + (s[m + 3] - 128), 4)
    BY <1>6, <2>1, Found4
  <2> QED BY <1>4, <1>5, <1>a, <1>f, <2>2
<1>8. PICK h \in 0..4 : h = x - 240
  BY DEF Lead4
<1>g. PICK u \in 0..63 : u = w - 128
  BY Continues
<1>9. PICK t \in 0..63 : t = y - 128
  BY Continues
<1>b. PICK r \in 0..63 : r = z - 128
  BY Continues
<1>c. (h = 0 => u >= 16) /\ (h = 4 => u < 16)
  <2>1. ASSUME x = 240 PROVE w >= 144
    <3>1. w \in SecondByte(240)
      BY <1>3, <1>4, <1>5, <2>1
    <3> QED BY <3>1, Seconds
  <2>2. ASSUME x = 244 PROVE w <= 143
    <3>1. w \in SecondByte(244)
      BY <1>3, <1>4, <1>5, <2>2
    <3> QED BY <3>1, Seconds
  <2>3. x \in Nat /\ w \in Nat
    BY Leads, Continues
  <2> QED BY <1>8, <1>g, <2>1, <2>2, <2>3
<1>h. PICK p \in Nat : p = h * 64 + u
  OBVIOUS
<1>d. PICK q \in Nat : q = p * 64 + t
  OBVIOUS
<1>10. PICK cp \in Nat : cp = q * 64 + r
  OBVIOUS
<1>11. /\ cp >= 65536 /\ cp <= 1114111 /\ cp \div 64 = q /\ cp % 64 = r /\ q \div 64 = p /\ q % 64 = t
       /\ p \div 64 = h /\ p % 64 = u
  BY <1>c, <1>h, <1>d, <1>10
<1>e. cp \div 4096 = p /\ cp \div 262144 = h
  BY <1>11, Quotients
<1>12. 240 + h = x /\ 128 + u = w /\ 128 + t = y /\ 128 + r = z
  <2>1. x \in Nat /\ w \in Nat /\ y \in Nat /\ z \in Nat
    BY Leads, Continues
  <2> QED BY <1>8, <1>9, <1>b, <1>g, <2>1
<1>13. Utf8(cp) = <<x, w, y, z>>
  BY <1>11, <1>e, <1>12, SMTT(60) DEF Utf8
<1>14. Len(Utf8(cp)) = 4 /\ Utf8(cp)[1] = x /\ Utf8(cp)[2] = w /\ Utf8(cp)[3] = y /\ Utf8(cp)[4] = z
  BY <1>13
<1>15. cp \in Code
  BY <1>11 DEF Code
<1>16. \A j \in 1..4 : Utf8(cp)[j] = s[m + j - 1]
  <2>1. /\ m + 1 - 1 = m /\ m + 2 - 1 = m + 1 /\ m + 3 - 1 = m + 2 /\ m + 4 - 1 = m + 3
        /\ \A j \in 1..4 : j = 1 \/ j = 2 \/ j = 3 \/ j = 4
    OBVIOUS
  <2> QED BY <1>4, <1>5, <1>a, <1>f, <1>14, <2>1
<1>17. m + 4 - 1 <= Len(s) /\ ~(cp < 128)
  BY <1>6, <1>11
<1>18. Found(s, m, cp, 4)
  BY <1>7, <1>8, <1>9, <1>b, <1>g, <1>h, <1>d, <1>10
<1> QED BY <1>14, <1>15, <1>16, <1>17, <1>18 DEF Spells

\* Where there is a character, there are the bytes it is written with.
LEMMA Decoded ==
  ASSUME NEW s \in Line, NEW m \in 1..Len(s), CodePointAt(s, m).n # 0
  PROVE  \E cp \in Code, n \in 1..4 : Spells(s, m, cp, n)
<1>1. PICK n \in 1..4 : n = CodePointAt(s, m).n
  BY CharMade
<1>2. n = 1 \/ n = 2 \/ n = 3 \/ n = 4
  OBVIOUS
<1> QED BY <1>1, <1>2, Spells1, Spells2, Spells3, Spells4

-----------------------------------------------------------------------------
(* Code points in code units                                               *)

\* An interval by its bounds.
LEMMA Between ==
  ASSUME NEW lo \in Nat, NEW hi \in Nat, NEW x
  PROVE  x \in lo..hi <=> x \in Nat /\ lo <= x /\ x <= hi
OBVIOUS

\* The classes of code units by their bounds.
LEMMA Ranges ==
  ASSUME NEW x
  PROVE  /\ x \in Unit <=> x \in Nat /\ x <= 65535
         /\ x \in HighSurrogate <=> x \in Nat /\ 55296 <= x /\ x <= 56319
         /\ x \in LowSurrogate <=> x \in Nat /\ 56320 <= x /\ x <= 57343
         /\ x \in Surrogate <=> x \in Nat /\ 55296 <= x /\ x <= 57343
<1>1. PICK p \in Nat : p = 0
  OBVIOUS
<1>2. PICK q \in Nat : q = 65535
  OBVIOUS
<1>3. PICK h \in Nat : h = 55296
  OBVIOUS
<1>4. PICK i \in Nat : i = 56319
  OBVIOUS
<1>5. PICK j \in Nat : j = 56320
  OBVIOUS
<1>6. PICK k \in Nat : k = 57343
  OBVIOUS
<1>7. Unit = p..q /\ HighSurrogate = h..i /\ LowSurrogate = j..k /\ Surrogate = h..k
  BY <1>1, <1>2, <1>3, <1>4, <1>5, <1>6, SMT DEF Unit, HighSurrogate, LowSurrogate, Surrogate
<1>8. x \in p..q <=> x \in Nat /\ p <= x /\ x <= q
  BY Between
<1>9. /\ x \in h..i <=> x \in Nat /\ h <= x /\ x <= i
      /\ x \in j..k <=> x \in Nat /\ j <= x /\ x <= k
      /\ x \in h..k <=> x \in Nat /\ h <= x /\ x <= k
  BY Between
<1>10. x \in Unit <=> x \in Nat /\ x <= 65535
  <2>1. x \in Unit <=> x \in p..q
    BY <1>7
  <2>2. ASSUME x \in Nat PROVE p <= x
    BY <1>1, <2>2
  <2> QED BY <1>2, <1>8, <2>1, <2>2
<1>11. /\ x \in HighSurrogate <=> x \in Nat /\ 55296 <= x /\ x <= 56319
       /\ x \in LowSurrogate <=> x \in Nat /\ 56320 <= x /\ x <= 57343
       /\ x \in Surrogate <=> x \in Nat /\ 55296 <= x /\ x <= 57343
  BY <1>3, <1>4, <1>5, <1>6, <1>7, <1>9, SMT
<1> QED BY <1>10, <1>11

\* Sequences of UTF-16 code units.
Units == Seq(Unit)

LEMMA UnitLen ==
  ASSUME NEW u \in Units
  PROVE  /\ Len(u) \in Nat /\ DOMAIN u = 1..Len(u) /\ \A l \in 1..Len(u) : u[l] \in Unit
         /\ u \in Line
<1>1. Len(u) \in Nat /\ DOMAIN u = 1..Len(u) /\ \A l \in 1..Len(u) : u[l] \in Unit
  BY SeqTyped DEF Units
<1>2. \A x \in Unit : x \in Nat
  BY Ranges
<1>3. Seq(Unit) \subseteq Seq(Nat)
  BY <1>2, SeqMonotonic
<1> QED BY <1>1, <1>3 DEF Units, Line

LEMMA PairIs ==
  ASSUME NEW h \in Unit, NEW w \in Unit
  PROVE  <<h, w>> \in Units /\ Len(<<h, w>>) = 2 /\ <<h, w>>[1] = h /\ <<h, w>>[2] = w
<1>1. <<h, w>> \in Seq(Unit)
  OBVIOUS
<1> QED BY <1>1 DEF Units

LEMMA SurrogateUnits == HighSurrogate \subseteq Unit /\ LowSurrogate \subseteq Unit
<1>1. ASSUME NEW h \in HighSurrogate PROVE h \in Unit
  <2>1. h \in Nat /\ h <= 56319
    BY Ranges
  <2>2. h <= 65535
    BY <2>1
  <2> QED BY <2>1, <2>2, Ranges
<1>2. ASSUME NEW w \in LowSurrogate PROVE w \in Unit
  <2>1. w \in Nat /\ w <= 57343
    BY Ranges
  <2>2. w <= 65535
    BY <2>1
  <2> QED BY <2>1, <2>2, Ranges
<1> QED BY <1>1, <1>2

\* A character and its units.
Stands(u, l, cp, n) ==
  /\ UnitsAt(u, l).cp = cp /\ UnitsAt(u, l).n = n /\ l + n - 1 <= Len(u)
  /\ UnitsOf(cp) \in Units /\ Len(UnitsOf(cp)) = n
  /\ \A j \in 1..n : UnitsOf(cp)[j] = u[l + j - 1]
  /\ n = 2 <=> cp >= 65536

\* A unit that begins no pair is a code point of its own.
LEMMA StandsAlone ==
  ASSUME NEW u \in Units, NEW l \in 1..Len(u),
         ~(u[l] \in HighSurrogate /\ l < Len(u) /\ u[l + 1] \in LowSurrogate)
  PROVE  u[l] \in Code /\ Stands(u, l, u[l], 1)
<1>1. PICK cp \in Unit : cp = u[l]
  BY UnitLen
<1>2. cp \in Nat /\ cp <= 65535
  BY Ranges
<1>3. cp \in Code
  BY <1>2 DEF Code
<1>4. UnitsAt(u, l) = [cp |-> cp, n |-> 1]
  BY <1>1 DEF UnitsAt
<1>5. UnitsAt(u, l).cp = cp /\ UnitsAt(u, l).n = 1
  BY <1>4
<1>6. UnitsOf(cp) = <<cp>>
  BY <1>2 DEF UnitsOf
<1>7. UnitsOf(cp) \in Units /\ Len(UnitsOf(cp)) = 1 /\ UnitsOf(cp)[1] = cp
  <2>1. <<cp>> \in Seq(Unit) /\ Len(<<cp>>) = 1 /\ <<cp>>[1] = cp
    OBVIOUS
  <2> QED BY <1>6, <2>1 DEF Units
<1>8. \A j \in 1..1 : UnitsOf(cp)[j] = u[l + j - 1]
  <2>1. l + 1 - 1 = l
    OBVIOUS
  <2> QED BY <1>1, <1>7, <2>1
<1>9. l + 1 - 1 <= Len(u) /\ ~(cp >= 65536)
  BY <1>2, UnitLen
<1> QED BY <1>1, <1>3, <1>5, <1>7, <1>8, <1>9 DEF Stands

\* A pair of surrogates.
LEMMA PairOf ==
  ASSUME NEW h \in HighSurrogate, NEW w \in LowSurrogate
  PROVE  \E cp \in Code : /\ cp = 65536 + (h - 55296) * 1024 + w - 56320 /\ cp >= 65536
                          /\ UnitsOf(cp) = <<h, w>>
<1>1. PICK x \in 0..1023 : h = 55296 + x
  <2>1. h \in Nat /\ 55296 <= h /\ h <= 56319
    BY Ranges
  <2>2. h - 55296 \in 0..1023 /\ h = 55296 + (h - 55296)
    BY <2>1
  <2> QED BY <2>2
<1>2. PICK y \in 0..1023 : w = 56320 + y
  <2>1. w \in Nat /\ 56320 <= w /\ w <= 57343
    BY Ranges
  <2>2. w - 56320 \in 0..1023 /\ w = 56320 + (w - 56320)
    BY <2>1
  <2> QED BY <2>2
<1>3. PICK d \in Nat : d = x * 1024 + y
  OBVIOUS
<1>4. PICK cp \in Nat : cp = 65536 + d
  OBVIOUS
<1>5. cp - 65536 = d /\ d \div 1024 = x /\ d % 1024 = y /\ cp <= 1114111 /\ ~(cp < 65536)
  BY <1>3, <1>4
<1>6. UnitsOf(cp) = <<55296 + d \div 1024, 56320 + (d % 1024)>>
  BY <1>5 DEF UnitsOf
<1>7. UnitsOf(cp) = <<h, w>>
  BY <1>1, <1>2, <1>5, <1>6
<1>8. cp = 65536 + (h - 55296) * 1024 + w - 56320 /\ cp >= 65536
  BY <1>1, <1>2, <1>3, <1>4
<1>9. cp \in Code
  BY <1>5 DEF Code
<1> QED BY <1>7, <1>8, <1>9

\* A high surrogate before a low one is one code point above 16#FFFF.
LEMMA StandsPaired ==
  ASSUME NEW u \in Units, NEW l \in 1..Len(u),
         u[l] \in HighSurrogate, l < Len(u), u[l + 1] \in LowSurrogate
  PROVE  \E cp \in Code : Stands(u, l, cp, 2)
<1>1. PICK h \in HighSurrogate : h = u[l]
  OBVIOUS
<1>2. PICK w \in LowSurrogate : w = u[l + 1]
  OBVIOUS
<1>3. PICK cp \in Code : /\ cp = 65536 + (h - 55296) * 1024 + w - 56320 /\ cp >= 65536
                         /\ UnitsOf(cp) = <<h, w>>
  BY PairOf
<1>4. UnitsAt(u, l) = [cp |-> cp, n |-> 2]
  BY <1>1, <1>2, <1>3 DEF UnitsAt
<1>5. UnitsAt(u, l).cp = cp /\ UnitsAt(u, l).n = 2
  BY <1>4
<1>6. UnitsOf(cp) \in Units /\ Len(UnitsOf(cp)) = 2 /\ UnitsOf(cp)[1] = h /\ UnitsOf(cp)[2] = w
  <2>1. h \in Unit /\ w \in Unit
    BY SurrogateUnits
  <2>2. UnitsOf(cp) = <<h, w>>
    BY <1>3
  <2> HIDE <1>3
  <2> QED BY <2>1, <2>2, PairIs
<1>7. \A j \in 1..2 : UnitsOf(cp)[j] = u[l + j - 1]
  <2>1. l + 1 - 1 = l /\ l + 2 - 1 = l + 1 /\ \A j \in 1..2 : j = 1 \/ j = 2
    OBVIOUS
  <2> QED BY <1>1, <1>2, <1>6, <2>1
<1>8. l + 2 - 1 <= Len(u)
  BY UnitLen
<1> QED BY <1>3, <1>5, <1>6, <1>7, <1>8 DEF Stands

\* Wherever one looks there is a character.
LEMMA Standing ==
  ASSUME NEW u \in Units, NEW l \in 1..Len(u)
  PROVE  \E cp \in Code, n \in 1..2 : Stands(u, l, cp, n)
BY StandsAlone, StandsPaired

\* The units of a code point are read as that code point.
LEMMA UnitsRead ==
  ASSUME NEW cp \in Code
  PROVE  \E n \in 1..2 : /\ Stands(UnitsOf(cp), 1, cp, n) /\ Len(UnitsOf(cp)) = n
                         /\ UnitsOf(cp)[1] \in LowSurrogate => cp \in Surrogate
                         /\ UnitsOf(cp)[n] \in HighSurrogate => cp \in HighSurrogate /\ UnitsOf(cp) = <<cp>>
<1>1. cp \in Nat /\ cp <= 1114111
  BY DEF Code
<1>2. CASE cp < 65536
  <2>1. UnitsOf(cp) = <<cp>>
    BY <1>1, <1>2 DEF UnitsOf
  <2>2. cp \in Unit
    BY <1>1, <1>2, Ranges
  <2>3. PICK u \in Units : u = <<cp>> /\ Len(u) = 1 /\ u[1] = cp
    <3>1. <<cp>> \in Seq(Unit) /\ Len(<<cp>>) = 1 /\ <<cp>>[1] = cp
      BY <2>2
    <3> QED BY <3>1 DEF Units
  <2>4. Stands(u, 1, u[1], 1)
    BY <2>3, StandsAlone
  <2>5. cp \in LowSurrogate => cp \in Surrogate
    <3>1. ASSUME cp \in LowSurrogate PROVE 55296 <= cp /\ cp <= 57343
      BY <1>1, <3>1, Ranges
    <3> QED BY <1>1, <3>1, Ranges
  <2> QED BY <2>1, <2>3, <2>4, <2>5
<1>3. CASE cp >= 65536
  <2>1. PICK d \in Nat : d = cp - 65536 /\ d <= 1048575
    BY <1>1, <1>3
  <2>2. PICK x \in 0..1023 : x = d \div 1024
    BY <2>1
  <2>3. PICK y \in 0..1023 : y = d % 1024
    BY <2>1
  <2>4. PICK h \in HighSurrogate : h = 55296 + x
    <3>1. 55296 + x \in Nat /\ 55296 <= 55296 + x /\ 55296 + x <= 56319
      OBVIOUS
    <3> QED BY <3>1, Ranges
  <2>5. PICK w \in LowSurrogate : w = 56320 + y
    <3>1. 56320 + y \in Nat /\ 56320 <= 56320 + y /\ 56320 + y <= 57343
      OBVIOUS
    <3> QED BY <3>1, Ranges
  <2>6. UnitsOf(cp) = <<h, w>>
    BY <1>1, <1>3, <2>1, <2>2, <2>3, <2>4, <2>5 DEF UnitsOf
  <2>7. PICK u \in Units : u = <<h, w>> /\ Len(u) = 2 /\ u[1] = h /\ u[2] = w
    <3>1. h \in Unit /\ w \in Unit
      BY SurrogateUnits
    <3>2. <<h, w>> \in Units /\ Len(<<h, w>>) = 2 /\ <<h, w>>[1] = h /\ <<h, w>>[2] = w
      BY <3>1, PairIs
    <3>3. PICK v \in Units : v = <<h, w>>
      BY <3>2
    <3> QED BY <3>2, <3>3
  <2>8. PICK c \in Code : Stands(u, 1, c, 2)
    <3>1. PICK l \in 1..Len(u) : l = 1
      BY <2>7
    <3>2. u[l] \in HighSurrogate /\ l < Len(u) /\ u[l + 1] \in LowSurrogate
      BY <2>7, <3>1
    <3> QED BY <3>1, <3>2, StandsPaired
  <2>9. c = cp
    <3>1. UnitsAt(u, 1) = [cp |-> 65536 + (h - 55296) * 1024 + w - 56320, n |-> 2]
      <4>1. 1 < Len(u) /\ 1 + 1 = 2
        BY <2>7
      <4> QED BY <2>7, <4>1 DEF UnitsAt
    <3>2. c = 65536 + (h - 55296) * 1024 + w - 56320
      BY <2>8, <3>1 DEF Stands
    <3>3. d = 1024 * x + y
      BY <2>1, <2>2, <2>3
    <3>4. 65536 + (h - 55296) * 1024 + w - 56320 = 65536 + d
      BY <2>4, <2>5, <3>3
    <3> QED BY <1>1, <2>1, <3>2, <3>4
  <2>10. h \notin LowSurrogate /\ w \notin HighSurrogate
    <3>1. h <= 56319 /\ h \in Nat /\ w >= 56320 /\ w \in Nat
      BY Ranges
    <3>2. ~(56320 <= h) /\ ~(w <= 56319)
      BY <3>1
    <3> QED BY <3>2, Ranges
  <2> QED BY <2>6, <2>7, <2>8, <2>9, <2>10
<1> QED BY <1>1, <1>2, <1>3

-----------------------------------------------------------------------------
(* Bytes and units that are the same text                                  *)

\* What a code point of one unit and of two says of the units.
LEMMA NotPaired ==
  ASSUME NEW u, NEW l, NEW cp, Stands(u, l, cp, 1)
  PROVE  ~(u[l] \in HighSurrogate /\ l < Len(u) /\ u[l + 1] \in LowSurrogate)
<1> SUFFICES ASSUME u[l] \in HighSurrogate /\ l < Len(u) /\ u[l + 1] \in LowSurrogate PROVE FALSE
  OBVIOUS
<1>1. UnitsAt(u, l).n = 2
  BY DEF UnitsAt
<1> QED BY <1>1 DEF Stands

LEMMA Paired ==
  ASSUME NEW u, NEW l, NEW cp, Stands(u, l, cp, 2)
  PROVE  /\ u[l] \in HighSurrogate /\ l < Len(u) /\ u[l + 1] \in LowSurrogate
         /\ cp = 65536 + (u[l] - 55296) * 1024 + u[l + 1] - 56320
<1>1. u[l] \in HighSurrogate /\ l < Len(u) /\ u[l + 1] \in LowSurrogate
  <2> SUFFICES ASSUME ~(u[l] \in HighSurrogate /\ l < Len(u) /\ u[l + 1] \in LowSurrogate) PROVE FALSE
    OBVIOUS
  <2>1. UnitsAt(u, l) = [cp |-> u[l], n |-> 1]
    BY DEF UnitsAt
  <2>2. UnitsAt(u, l).n = 1
    BY <2>1
  <2> QED BY <2>2 DEF Stands
<1>2. UnitsAt(u, l) = [cp |-> 65536 + (u[l] - 55296) * 1024 + u[l + 1] - 56320, n |-> 2]
  BY <1>1 DEF UnitsAt
<1>3. UnitsAt(u, l).cp = 65536 + (u[l] - 55296) * 1024 + u[l + 1] - 56320
  BY <1>2
<1> QED BY <1>1, <1>3 DEF Stands

\* The same units elsewhere are the same character, unless what follows makes a
\* pair of them.
LEMMA StandsMoved ==
  ASSUME NEW u \in Units, NEW l \in 1..Len(u), NEW cp \in Code, NEW n \in 1..2, Stands(u, l, cp, n),
         NEW w \in Units, NEW i \in 1..Len(w), i + n - 1 <= Len(w),
         \A j \in 0..(n - 1) : w[i + j] = u[l + j],
         n = 1 => ~(w[i] \in HighSurrogate /\ i < Len(w) /\ w[i + 1] \in LowSurrogate)
  PROVE  Stands(w, i, cp, n)
<1>0. i + 0 = i /\ l + 0 = l /\ 0 \in 0..(n - 1)
  OBVIOUS
<1>1. w[i] = u[l]
  <2>1. w[i + 0] = u[l + 0]
    BY <1>0
  <2> QED BY <1>0, <2>1
<1>2. CASE n = 1
  <2>1. ~(u[l] \in HighSurrogate /\ l < Len(u) /\ u[l + 1] \in LowSurrogate)
    BY <1>2, NotPaired
  <2>2. Stands(u, l, u[l], 1)
    BY <2>1, StandsAlone
  <2>3. cp = u[l]
    BY <1>2, <2>2 DEF Stands
  <2>4. Stands(w, i, w[i], 1)
    BY <1>2, StandsAlone
  <2> QED BY <1>1, <1>2, <2>3, <2>4
<1>3. CASE n = 2
  <2>1. /\ u[l] \in HighSurrogate /\ l < Len(u) /\ u[l + 1] \in LowSurrogate
        /\ cp = 65536 + (u[l] - 55296) * 1024 + u[l + 1] - 56320
    BY <1>3, Paired
  <2>2. w[i + 1] = u[l + 1] /\ i < Len(w)
    BY <1>3, UnitLen
  <2>a. w[i] \in HighSurrogate /\ w[i + 1] \in LowSurrogate /\ i < Len(w)
    BY <1>1, <2>1, <2>2
  <2>3. PICK c \in Code : Stands(w, i, c, 2)
    BY <2>a, StandsPaired, Zenon
  <2>4. c = 65536 + (w[i] - 55296) * 1024 + w[i + 1] - 56320
    BY <2>3, Paired
  <2>5. c = cp
    BY <1>1, <2>1, <2>2, <2>4
  <2> QED BY <1>3, <2>3, <2>5
<1> QED BY <1>2, <1>3

\* One sequence behind another, element by element.
LEMMA Joined ==
  ASSUME NEW S, NEW s \in Seq(S), NEW t \in Seq(S)
  PROVE  /\ s \o t \in Seq(S) /\ Len(s \o t) = Len(s) + Len(t)
         /\ \A j \in 1..Len(s) : (s \o t)[j] = s[j]
         /\ \A j \in 1..Len(t) : (s \o t)[Len(s) + j] = t[j]
<1>1. Len(s) \in Nat /\ Len(t) \in Nat
  BY SeqTyped
<1>2. /\ s \o t \in Seq(S) /\ Len(s \o t) = Len(s) + Len(t)
      /\ \A i \in 1..(Len(s) + Len(t)) : (s \o t)[i] = IF i <= Len(s) THEN s[i] ELSE t[i - Len(s)]
  BY ConcatProperties
<1>3. ASSUME NEW j \in 1..Len(s) PROVE (s \o t)[j] = s[j]
  BY <1>1, <1>2
<1>4. ASSUME NEW j \in 1..Len(t) PROVE (s \o t)[Len(s) + j] = t[j]
  <2>1. Len(s) + j \in 1..(Len(s) + Len(t)) /\ ~(Len(s) + j <= Len(s)) /\ Len(s) + j - Len(s) = j
    BY <1>1
  <2> QED BY <1>2, <2>1
<1> QED BY <1>2, <1>3, <1>4

\* The same character at both places, and what follows it is paired too.
Onward(s, m, u, l, B) ==
  \E cp \in Code, n \in 1..4, k \in 1..2 :
    Found(s, m, cp, n) /\ Stands(u, l, cp, k) /\ <<m + n, l + k>> \in B

\* Places of the same characters in bytes and in units, as far as m and l.
Matched(s, u, B, m, l) ==
  /\ B \subseteq (1..(Len(s) + 1)) \X (1..(Len(u) + 1)) /\ <<1, 1>> \in B /\ <<m, l>> \in B
  /\ \A i \in 1..(Len(s) + 1), j \in 1..(Len(u) + 1) : <<i, j>> \in B /\ <<i, j>> # <<m, l>> =>
       i <= Len(s) /\ j <= Len(u) /\ Onward(s, i, u, j, B)

\* The bytes and the units are the same text: some matching goes through both.
SameText(s, u) == \E B : Matched(s, u, B, Len(s) + 1, Len(u) + 1)

\* Nothing is matched where one of the two is empty but the beginning.
LEMMA NothingMatched ==
  ASSUME NEW u \in Units
  PROVE  Matched(<<>>, u, {<<1, 1>>}, 1, 1)
<1>1. Len(<<>>) = 0 /\ Len(u) \in Nat
  BY UnitLen
<1>2. {<<1, 1>>} \subseteq (1..(Len(<<>>) + 1)) \X (1..(Len(u) + 1))
  BY <1>1
<1> QED BY <1>1, <1>2 DEF Matched

LEMMA NoUnitsMatched ==
  ASSUME NEW s \in Line
  PROVE  Matched(s, <<>>, {<<1, 1>>}, 1, 1)
<1>1. Len(<<>>) = 0 /\ Len(s) \in Nat
  BY LineLen
<1>2. {<<1, 1>>} \subseteq (1..(Len(s) + 1)) \X (1..(Len(<<>>) + 1))
  BY <1>1
<1> QED BY <1>1, <1>2 DEF Matched

\* A character read at m stays where it is when bytes are added.
LEMMA FoundLonger ==
  ASSUME NEW s \in Line, NEW t \in Line, NEW m \in 1..Len(s), NEW cp, NEW n \in 1..4, Found(s, m, cp, n)
  PROVE  Found(s \o t, m, cp, n) /\ m + n - 1 <= Len(s)
<1>1. PICK p \in Line : p = s \o t
  BY LineParts
<1>2. /\ Len(p) = Len(s) + Len(t) /\ \A j \in 1..Len(s) : p[j] = s[j]
      /\ Len(s) \in Nat /\ Len(t) \in Nat
  BY <1>1, Joined, LineLen DEF Line
<1>3. CodePointAt(s, m).n = n /\ n # 0
  BY DEF Found
<1>4. m + n - 1 <= Len(s)
  BY <1>3, BytesThere
<1>5. Copied(s, m, p, m, n)
  <2>1. \A j \in 0..(n - 1) : m + j \in 1..Len(s) /\ m + j <= Len(s) + Len(t)
    BY <1>2, <1>4
  <2> QED BY <1>2, <2>1 DEF Copied
<1>6. m \in 1..Len(p)
  BY <1>2
<1>7. CodePointAt(p, m) = CodePointAt(s, m)
  BY <1>3, <1>5, <1>6, SameCode
<1> QED BY <1>1, <1>4, <1>7 DEF Found

\* So do the first bytes of what is added.
LEMMA FoundBehind ==
  ASSUME NEW s \in Line, NEW cp \in Code
  PROVE  \E n \in 1..4 : /\ Len(Utf8(cp)) = n /\ s \o Utf8(cp) \in Line
                         /\ Len(s \o Utf8(cp)) = Len(s) + n
                         /\ Found(s \o Utf8(cp), Len(s) + 1, cp, n)
<1>1. PICK n \in 1..4 : /\ Utf8(cp) \in Line /\ Len(Utf8(cp)) = n /\ Found(Utf8(cp), 1, cp, n)
  BY Encoded
<1>2. PICK t \in Line : t = Utf8(cp)
  BY <1>1
<1>3. PICK p \in Line : p = s \o t
  BY LineParts
<1>4. /\ Len(p) = Len(s) + n /\ \A j \in 1..n : p[Len(s) + j] = t[j]
      /\ Len(s) \in Nat
  BY <1>1, <1>2, <1>3, Joined, LineLen DEF Line
<1>5. PICK m \in 1..Len(t) : m = 1
  BY <1>1, <1>2
<1>6. PICK x \in 1..Len(p) : x = Len(s) + 1
  BY <1>4
<1>7. Found(t, m, cp, n)
  BY <1>1, <1>2, <1>5
<1>8. CodePointAt(t, m).n = n /\ n # 0
  BY <1>7 DEF Found
<1>9. Copied(t, m, p, x, n)
  <2> SUFFICES ASSUME NEW j \in 0..(n - 1) PROVE x + j <= Len(p) /\ p[x + j] = t[m + j]
    BY DEF Copied
  <2>1. PICK i \in 1..n : i = m + j
    BY <1>5
  <2>2. x + j = Len(s) + i /\ x + j <= Len(s) + n
    BY <1>4, <1>5, <1>6, <2>1
  <2> QED BY <1>4, <2>1, <2>2
<1>10. CodePointAt(p, x) = CodePointAt(t, m)
  BY <1>8, <1>9, SameCode
<1>11. Found(p, x, cp, n)
  BY <1>7, <1>10 DEF Found
<1> QED BY <1>1, <1>2, <1>3, <1>4, <1>6, <1>11

\* Taking in the bytes of the next character of the units.
LEMMA MatchedByBytes ==
  ASSUME NEW s \in Line, NEW u \in Units, NEW B, NEW l \in 1..Len(u), Matched(s, u, B, Len(s) + 1, l),
         NEW cp \in Code, NEW k \in 1..2, Stands(u, l, cp, k)
  PROVE  /\ s \o Utf8(cp) \in Line
         /\ \E D : Matched(s \o Utf8(cp), u, D, Len(s \o Utf8(cp)) + 1, l + k)
<1>1. PICK n \in 1..4 : /\ Len(Utf8(cp)) = n /\ s \o Utf8(cp) \in Line
                        /\ Len(s \o Utf8(cp)) = Len(s) + n
                        /\ Found(s \o Utf8(cp), Len(s) + 1, cp, n)
  BY FoundBehind
<1>2. PICK t \in Line : t = Utf8(cp)
  BY Encoded
<1>3. PICK p \in Line : p = s \o t
  BY <1>1, <1>2
<1>4. PICK M \in Nat : M = Len(s)
  BY LineLen
<1>5. PICK K \in Nat : K = Len(u)
  BY UnitLen
<1>6. Len(p) = M + n /\ Found(p, M + 1, cp, n)
  BY <1>1, <1>2, <1>3, <1>4
<1>7. l + k - 1 <= K /\ l \in 1..K
  BY <1>5 DEF Stands
<1> DEFINE D == B \cup {<<M + n + 1, l + k>>}
<1>8. /\ B \subseteq (1..(M + 1)) \X (1..(K + 1)) /\ <<1, 1>> \in B /\ <<M + 1, l>> \in B
      /\ \A i \in 1..(M + 1), j \in 1..(K + 1) : <<i, j>> \in B /\ <<i, j>> # <<M + 1, l>> =>
           i <= M /\ j <= K /\ Onward(s, i, u, j, B)
  BY <1>4, <1>5 DEF Matched
<1>9. D \subseteq (1..(M + n + 1)) \X (1..(K + 1))
  <2>1. M + n + 1 \in 1..(M + n + 1) /\ l + k \in 1..(K + 1) /\ 1..(M + 1) \subseteq 1..(M + n + 1)
    BY <1>7
  <2> QED BY <1>8, <2>1
<1>10. Onward(p, M + 1, u, l, D)
  <2>1. <<M + 1 + n, l + k>> \in D
    <3>1. M + 1 + n = M + n + 1
      OBVIOUS
    <3> QED BY <3>1
  <2> QED BY <1>6, <2>1 DEF Onward
<1>11. ASSUME NEW i \in 1..(M + n + 1), NEW j \in 1..(K + 1), <<i, j>> \in D,
              <<i, j>> # <<M + n + 1, l + k>>
       PROVE  i <= M + n /\ j <= K /\ Onward(p, i, u, j, D)
  <2>1. <<i, j>> \in B
    BY <1>11
  <2>2. i \in 1..(M + 1)
    BY <1>8, <2>1
  <2>3. CASE <<i, j>> = <<M + 1, l>>
    <3>1. i = M + 1 /\ j = l
      BY <2>3
    <3>2. i <= M + n /\ j <= K
      BY <1>7, <3>1
    <3> HIDE DEF D
    <3> QED BY <1>10, <3>1, <3>2
  <2>4. CASE <<i, j>> # <<M + 1, l>>
    <3>1. i <= M /\ j <= K /\ Onward(s, i, u, j, B)
      BY <1>8, <2>1, <2>2, <2>4
    <3>2. PICK c \in Code, x \in 1..4, y \in 1..2 :
            Found(s, i, c, x) /\ Stands(u, j, c, y) /\ <<i + x, j + y>> \in B
      BY <3>1 DEF Onward
    <3>3. Found(p, i, c, x)
      <4>1. i \in 1..Len(s)
        BY <1>4, <3>1
      <4> QED BY <1>3, <3>2, <4>1, FoundLonger
    <3>4. <<i + x, j + y>> \in D
      BY <3>2
    <3> HIDE DEF D
    <3>5. Onward(p, i, u, j, D)
      BY <3>2, <3>3, <3>4 DEF Onward
    <3> QED BY <3>1, <3>5
  <2> QED BY <2>3, <2>4
<1>12. <<1, 1>> \in D /\ <<M + n + 1, l + k>> \in D
  BY <1>8
<1> HIDE DEF D
<1>13. Matched(p, u, D, Len(p) + 1, l + k)
  BY <1>5, <1>6, <1>9, <1>11, <1>12 DEF Matched
<1> QED BY <1>2, <1>3, <1>13

\* Taking in the units of the next character of the bytes.
LEMMA MatchedByUnits ==
  ASSUME NEW s \in Line, NEW u \in Units, NEW B, NEW m \in 1..Len(s), Matched(s, u, B, m, Len(u) + 1),
         NEW cp \in Code, cp \notin Surrogate, NEW n \in 1..4, Found(s, m, cp, n)
  PROVE  /\ u \o UnitsOf(cp) \in Units
         /\ \E D : Matched(s, u \o UnitsOf(cp), D, m + n, Len(u \o UnitsOf(cp)) + 1)
<1>1. PICK k \in 1..2 : /\ Stands(UnitsOf(cp), 1, cp, k) /\ Len(UnitsOf(cp)) = k
                        /\ UnitsOf(cp)[1] \in LowSurrogate => cp \in Surrogate
  BY UnitsRead
<1>2. PICK v \in Units : v = UnitsOf(cp)
  BY <1>1 DEF Stands
<1>3. PICK w \in Units : w = u \o v
  <2>1. u \o v \in Seq(Unit)
    BY DEF Units
  <2> QED BY <2>1 DEF Units
<1>4. PICK M \in Nat : M = Len(s)
  BY LineLen
<1>5. PICK K \in Nat : K = Len(u)
  BY UnitLen
<1>6. Len(w) = K + k /\ (\A j \in 1..K : w[j] = u[j]) /\ \A j \in 1..k : w[K + j] = v[j]
  BY <1>1, <1>2, <1>3, <1>5, Joined DEF Units
<1>7. v[1] \notin LowSurrogate /\ w[K + 1] = v[1]
  <2>1. 1 \in 1..k
    OBVIOUS
  <2> QED BY <1>1, <1>2, <1>6, <2>1
<1>8. m + n - 1 <= M /\ m \in 1..M
  BY <1>4, FoundLonger
<1>9. Stands(w, K + 1, cp, k)
  <2>1. PICK l \in 1..Len(v) : l = 1
    BY <1>1, <1>2
  <2>2. PICK i \in 1..Len(w) : i = K + 1
    BY <1>6
  <2>3. Stands(v, l, cp, k)
    BY <1>1, <1>2, <2>1
  <2>4. i + k - 1 <= Len(w)
    BY <1>6, <2>2
  <2>5. ASSUME NEW j \in 0..(k - 1) PROVE w[i + j] = v[l + j]
    <3>1. PICK x \in 1..k : x = l + j
      BY <2>1
    <3>2. i + j = K + x
      BY <2>1, <2>2, <3>1
    <3> QED BY <1>6, <3>1, <3>2
  <2>6. ASSUME k = 1, w[i] \in HighSurrogate, i < Len(w), w[i + 1] \in LowSurrogate PROVE FALSE
    BY <1>6, <2>2, <2>6
  <2>7. Stands(w, i, cp, k)
    BY <2>3, <2>4, <2>5, <2>6, StandsMoved
  <2> QED BY <2>2, <2>7
<1> DEFINE D == B \cup {<<m + n, K + k + 1>>}
<1>10. /\ B \subseteq (1..(M + 1)) \X (1..(K + 1)) /\ <<1, 1>> \in B /\ <<m, K + 1>> \in B
       /\ \A i \in 1..(M + 1), j \in 1..(K + 1) : <<i, j>> \in B /\ <<i, j>> # <<m, K + 1>> =>
            i <= M /\ j <= K /\ Onward(s, i, u, j, B)
  BY <1>4, <1>5 DEF Matched
<1>11. D \subseteq (1..(M + 1)) \X (1..(K + k + 1))
  <2>1. K + k + 1 \in 1..(K + k + 1) /\ m + n \in 1..(M + 1) /\ 1..(K + 1) \subseteq 1..(K + k + 1)
    BY <1>8
  <2> QED BY <1>10, <2>1
<1>12. Onward(s, m, w, K + 1, D)
  <2>1. <<m + n, K + 1 + k>> \in D
    <3>1. K + 1 + k = K + k + 1
      OBVIOUS
    <3> QED BY <3>1
  <2> QED BY <1>9, <2>1 DEF Onward
<1>13. ASSUME NEW i \in 1..(M + 1), NEW j \in 1..(K + k + 1), <<i, j>> \in D,
              <<i, j>> # <<m + n, K + k + 1>>
       PROVE  i <= M /\ j <= K + k /\ Onward(s, i, w, j, D)
  <2>1. <<i, j>> \in B
    BY <1>13
  <2>2. j \in 1..(K + 1)
    BY <1>10, <2>1
  <2>3. CASE <<i, j>> = <<m, K + 1>>
    <3>1. i = m /\ j = K + 1
      BY <2>3
    <3>2. i <= M /\ j <= K + k
      BY <1>8, <3>1
    <3> HIDE DEF D
    <3> QED BY <1>12, <3>1, <3>2
  <2>4. CASE <<i, j>> # <<m, K + 1>>
    <3>1. i <= M /\ j <= K /\ Onward(s, i, u, j, B)
      BY <1>10, <2>1, <2>2, <2>4
    <3>2. PICK c \in Code, x \in 1..4, y \in 1..2 :
            Found(s, i, c, x) /\ Stands(u, j, c, y) /\ <<i + x, j + y>> \in B
      BY <3>1 DEF Onward
    <3>3. Stands(w, j, c, y)
      <4>1. j \in 1..Len(u) /\ j \in 1..Len(w)
        BY <1>5, <1>6, <3>1
      <4>2. j + y - 1 <= K
        BY <1>5, <3>2 DEF Stands
      <4>3. j + y - 1 <= Len(w)
        BY <1>6, <4>2
      <4>4. ASSUME NEW x1 \in 0..(y - 1) PROVE w[j + x1] = u[j + x1]
        <5>1. j + x1 \in 1..K
          BY <4>2
        <5> QED BY <1>6, <5>1
      <4>5. ASSUME y = 1, w[j] \in HighSurrogate, j < Len(w), w[j + 1] \in LowSurrogate PROVE FALSE
        <5>1. ~(u[j] \in HighSurrogate /\ j < K /\ u[j + 1] \in LowSurrogate)
          BY <1>5, <3>2, <4>5, NotPaired
        <5>2. w[j] = u[j]
          BY <1>5, <1>6, <4>1
        <5>3. CASE j < K
          <6>1. j + 1 \in 1..K
            BY <5>3
          <6>2. w[j + 1] = u[j + 1]
            BY <1>6, <6>1
          <6> QED BY <4>5, <5>1, <5>2, <5>3, <6>2
        <5>4. CASE ~(j < K)
          <6>1. j = K
            BY <3>1, <5>4
          <6> QED BY <1>7, <4>5, <6>1
        <5> QED BY <5>3, <5>4
      <4> QED BY <3>2, <4>1, <4>3, <4>4, <4>5, StandsMoved
    <3>4. <<i + x, j + y>> \in D
      BY <3>2
    <3> HIDE DEF D
    <3>5. Onward(s, i, w, j, D)
      BY <3>2, <3>3, <3>4 DEF Onward
    <3>6. j <= K + k
      BY <3>1
    <3> QED BY <3>1, <3>5, <3>6
  <2> QED BY <2>3, <2>4
<1>14. <<1, 1>> \in D /\ <<m + n, K + k + 1>> \in D
  BY <1>10
<1> HIDE DEF D
<1>15. Matched(s, w, D, m + n, Len(w) + 1)
  BY <1>4, <1>6, <1>11, <1>13, <1>14 DEF Matched
<1> QED BY <1>2, <1>3, <1>15

-----------------------------------------------------------------------------
(* The conversions as runs of their steps                                  *)

\* Where a scan begins.
AtStart == [ok |-> TRUE, i |-> 1, out |-> <<>>]

LEMMA EmptyRead ==
  /\ <<>> \in Line /\ <<>> \in Units /\ \A C : <<>> \in Seq(C)
BY DEF Line, Units

\* What Utf16 and Wtf8 are scans of, one character at a time.
Utf16Step(s, st) ==
  IF ~st.ok \/ st.i > Len(s) THEN st
  ELSE LET found == CodePointAt(s, st.i)
       IN IF found.n = 0 THEN [st EXCEPT !.ok = FALSE]
          ELSE [ok |-> TRUE, i |-> st.i + found.n, out |-> st.out \o UnitsOf(found.cp)]

\* One step of the conversion from UTF-16 to WTF-8, and the whole of it.
Wtf8Step(u, st) ==
  IF ~st.ok \/ st.i > Len(u) THEN st
  ELSE LET found == UnitsAt(u, st.i)
       IN IF found.n = 0 THEN [st EXCEPT !.ok = FALSE]
          ELSE [ok |-> TRUE, i |-> st.i + found.n, out |-> st.out \o Utf8(found.cp)]

Wtf8Scan(u) == Scan(u, LAMBDA i : UnitsAt(u, i), LAMBDA out, found : out \o Utf8(found.cp))

\* The states of the two conversions.
Utf16States(s) == [ok : BOOLEAN, i : Nat \ {0}, out : Units]
Wtf8States(u) == [ok : BOOLEAN, i : Nat \ {0}, out : Line]

\* Past a character.
LEMMA Utf16Goes ==
  ASSUME NEW s \in Line, NEW st \in Utf16States(s), st.ok, st.i \in 1..Len(s),
         NEW cp \in Code, NEW n \in 1..4, Found(s, st.i, cp, n)
  PROVE  /\ Utf16Step(s, st) = [ok |-> TRUE, i |-> st.i + n, out |-> st.out \o UnitsOf(cp)]
         /\ UnitsOf(cp) \in Units /\ st.out \o UnitsOf(cp) \in Units /\ st.out \in Units
<1>1. PICK found : found = CodePointAt(s, st.i)
  OBVIOUS
<1>2. found.cp = cp /\ found.n = n /\ n # 0
  BY <1>1 DEF Found
<1>3. ~(~st.ok \/ st.i > Len(s))
  BY LineLen
<1>4. Utf16Step(s, st) = [ok |-> TRUE, i |-> st.i + n, out |-> st.out \o UnitsOf(cp)]
  BY <1>1, <1>2, <1>3 DEF Utf16Step
<1>5. PICK v \in Units : v = UnitsOf(cp)
  BY UnitsRead DEF Stands
<1>6. st.out \in Seq(Unit) /\ v \in Seq(Unit)
  BY DEF Units, Utf16States
<1>7. st.out \o v \in Seq(Unit)
  BY <1>6
<1> QED BY <1>4, <1>5, <1>6, <1>7 DEF Units

\* And the one of units goes on by the units of a code point.
LEMMA Wtf8Goes ==
  ASSUME NEW u \in Units, NEW st \in Wtf8States(u), st.ok, st.i \in 1..Len(u),
         NEW cp \in Code, NEW n \in 1..2, Stands(u, st.i, cp, n)
  PROVE  /\ Wtf8Step(u, st) = [ok |-> TRUE, i |-> st.i + n, out |-> st.out \o Utf8(cp)]
         /\ Utf8(cp) \in Line /\ st.out \o Utf8(cp) \in Line /\ st.out \in Line
<1>1. PICK found : found = UnitsAt(u, st.i)
  OBVIOUS
<1>2. found.cp = cp /\ found.n = n /\ n # 0
  BY <1>1 DEF Stands
<1>3. ~(~st.ok \/ st.i > Len(u))
  BY UnitLen
<1>4. Wtf8Step(u, st) = [ok |-> TRUE, i |-> st.i + n, out |-> st.out \o Utf8(cp)]
  BY <1>1, <1>2, <1>3 DEF Wtf8Step
<1>5. PICK v \in Line : v = Utf8(cp)
  BY Encoded
<1>6. st.out \in Line
  BY DEF Wtf8States
<1>7. st.out \o v \in Line
  BY <1>6, LineParts
<1> QED BY <1>4, <1>5, <1>6, <1>7

\* A step stays among the states.
LEMMA Utf16StepTyped ==
  ASSUME NEW s \in Line, NEW st \in Utf16States(s)
  PROVE  Utf16Step(s, st) \in Utf16States(s)
<1>1. st = [ok |-> st.ok, i |-> st.i, out |-> st.out] /\ st.ok \in BOOLEAN /\ st.i \in Nat \ {0} /\ st.out \in Units
  BY DEF Utf16States
<1>2. CASE ~st.ok \/ st.i > Len(s)
  BY <1>2 DEF Utf16Step
<1>3. CASE st.ok /\ ~(st.i > Len(s))
  <2>1. st.i \in 1..Len(s)
    BY <1>1, <1>3, LineLen
  <2>2. CASE CodePointAt(s, st.i).n = 0
    <3>1. Utf16Step(s, st) = [st EXCEPT !.ok = FALSE]
      BY <1>3, <2>2 DEF Utf16Step
    <3>2. [st EXCEPT !.ok = FALSE] \in Utf16States(s)
      BY <1>1 DEF Utf16States
    <3> QED BY <3>1, <3>2
  <2>3. CASE CodePointAt(s, st.i).n # 0
    <3>1. PICK cp \in Code, n \in 1..4 : Found(s, st.i, cp, n)
      BY <2>1, <2>3, Decoded DEF Spells
    <3>2. /\ Utf16Step(s, st) = [ok |-> TRUE, i |-> st.i + n, out |-> st.out \o UnitsOf(cp)]
          /\ st.out \o UnitsOf(cp) \in Units
      BY <1>3, <2>1, <3>1, Utf16Goes
    <3>3. st.i + n \in Nat \ {0}
      BY <1>1
    <3> QED BY <3>2, <3>3 DEF Utf16States
  <2> QED BY <2>2, <2>3
<1> QED BY <1>2, <1>3

LEMMA Wtf8StepTyped ==
  ASSUME NEW u \in Units, NEW st \in Wtf8States(u)
  PROVE  Wtf8Step(u, st) \in Wtf8States(u)
<1>1. st.ok \in BOOLEAN /\ st.i \in Nat \ {0} /\ st.out \in Line
  BY DEF Wtf8States
<1>2. CASE ~st.ok \/ st.i > Len(u)
  BY <1>2 DEF Wtf8Step
<1>3. CASE st.ok /\ ~(st.i > Len(u))
  <2>1. st.i \in 1..Len(u)
    BY <1>1, <1>3, UnitLen
  <2>2. PICK cp \in Code, n \in 1..2 : Stands(u, st.i, cp, n)
    BY <2>1, Standing
  <2>3. /\ Wtf8Step(u, st) = [ok |-> TRUE, i |-> st.i + n, out |-> st.out \o Utf8(cp)]
        /\ st.out \o Utf8(cp) \in Line
    BY <1>3, <2>1, <2>2, Wtf8Goes
  <2>4. st.i + n \in Nat \ {0}
    BY <1>1
  <2> QED BY <2>3, <2>4 DEF Wtf8States
<1> QED BY <1>2, <1>3

\* The conversion is a run of its steps, one for each byte.
Utf16First(s) == FoldLeft(LAMBDA st, b : Utf16Step(s, st), AtStart, s)

LEMMA Utf16Run ==
  ASSUME NEW s \in Line
  PROVE  \E f \in [0..Len(s) -> Utf16States(s)] :
           /\ f[0] = AtStart /\ f[Len(s)] = Utf16(s)
           /\ \A n \in 1..Len(s) : f[n] = Utf16Step(s, f[n - 1])
<1> DEFINE N == Len(s)
           S == Utf16States(s)
           G == [p \in S \X (1..N) |-> Utf16Step(s, p[1])]
           Is(g) == g = [t \in SUBSET (1..N) |-> IF t = {} THEN AtStart
                           ELSE Utf16Step(s, g[t \ {Max(t)}])]
           g == CHOOSE g : Is(g)
<1>1. N \in Nat /\ DOMAIN s = 1..N
  BY LineLen
<1>2. Utf16(s) = g[1..N]
  <2>1. Utf16First(s) = g[1..N]
    BY <1>1, Zenon DEF FoldLeft, MapThenFoldSet, Utf16First
  <2>2. Utf16(s) = Utf16First(s)
    BY Zenon DEF Utf16, Scan, Utf16First, Utf16Step, AtStart
  <2> QED BY <2>1, <2>2, Zenon
<1>3. AtStart \in S
  BY EmptyRead DEF AtStart, Utf16States
<1>4. \A v \in S, n \in 1..N : Utf16Step(s, v) \in S
  BY Utf16StepTyped
<1>5. G \in [S \X (1..N) -> S] /\ \A v \in S, n \in 1..N : G[<<v, n>>] = Utf16Step(s, v)
  BY <1>4
<1> HIDE DEF G, S
<1>6. PICK it \in Folds(S, AtStart, N, G) : TRUE
  <2>1. N \in Nat /\ G \in [S \X (1..N) -> S]
    BY <1>1, <1>5
  <2>2. Folds(S, AtStart, N, G) # {}
    BY <1>3, <2>1, FoldExists
  <2> QED BY <2>2
<1>7. Is(it)
  <2>1. it \in [SUBSET (1..N) -> S]
    BY DEF Folds
  <2>2. \A t \in SUBSET (1..N) : t # {} => Max(t) \in 1..N
    BY <1>1, MaxOfSome
  <2>3. \A t \in SUBSET (1..N) : it[t] = IF t = {} THEN AtStart
                           ELSE Utf16Step(s, it[t \ {Max(t)}])
    BY <1>5, <2>1, <2>2 DEF Folds
  <2> QED BY <2>1, <2>3
<1>8. Is(g)
  BY <1>7, Zenon
<1> HIDE DEF g
<1>9. Folding(S, AtStart, N, G, g)
  BY <1>1, <1>5, <1>8, MaxOfSome DEF Folding
<1> HIDE DEF Is
<1>10. PICK f \in Stepwise(S, AtStart, N, G) : f[N] = g[1..N]
  <2>1. N \in Nat /\ G \in [S \X (1..N) -> S]
    BY <1>1, <1>5
  <2>2. Ends(S, AtStart, N, G, g)
    BY <1>3, <1>9, <2>1, FoldEnds, Zenon
  <2> QED BY <2>2, Zenon DEF Ends
<1>11. /\ f \in [0..N -> S] /\ f[0] = AtStart
       /\ \A n \in 1..N : f[n] = Utf16Step(s, f[n - 1])
  <2>1. f \in [0..N -> S] /\ f[0] = AtStart /\ \A n \in 1..N : f[n] = G[<<f[n - 1], n>>]
    BY DEF Stepwise
  <2>2. \A n \in 1..N : f[n - 1] \in S
    BY <1>1, <2>1
  <2> QED BY <1>5, <2>1, <2>2
<1>12. f \in [0..N -> Utf16States(s)]
  BY <1>11 DEF S
<1> QED BY <1>2, <1>10, <1>11, <1>12, Zenon

\* And the other one a run of its steps, one for each unit.
Wtf8First(u) == FoldLeft(LAMBDA st, b : Wtf8Step(u, st), AtStart, u)

LEMMA Wtf8Run ==
  ASSUME NEW u \in Units
  PROVE  \E f \in [0..Len(u) -> Wtf8States(u)] :
           /\ f[0] = AtStart /\ f[Len(u)] = Wtf8Scan(u)
           /\ \A n \in 1..Len(u) : f[n] = Wtf8Step(u, f[n - 1])
<1> DEFINE N == Len(u)
           S == Wtf8States(u)
           G == [p \in S \X (1..N) |-> Wtf8Step(u, p[1])]
           Is(g) == g = [t \in SUBSET (1..N) |-> IF t = {} THEN AtStart
                           ELSE Wtf8Step(u, g[t \ {Max(t)}])]
           g == CHOOSE g : Is(g)
<1>1. N \in Nat /\ DOMAIN u = 1..N
  BY UnitLen
<1>2. Wtf8Scan(u) = g[1..N]
  <2>1. Wtf8First(u) = g[1..N]
    BY <1>1, Zenon DEF FoldLeft, MapThenFoldSet, Wtf8First
  <2>2. Wtf8Scan(u) = Wtf8First(u)
    BY Zenon DEF Wtf8Scan, Scan, Wtf8First, Wtf8Step, AtStart
  <2> QED BY <2>1, <2>2, Zenon
<1>3. AtStart \in S
  BY EmptyRead DEF AtStart, Wtf8States
<1>4. \A v \in S, n \in 1..N : Wtf8Step(u, v) \in S
  BY Wtf8StepTyped
<1>5. G \in [S \X (1..N) -> S] /\ \A v \in S, n \in 1..N : G[<<v, n>>] = Wtf8Step(u, v)
  BY <1>4
<1> HIDE DEF G, S
<1>6. PICK it \in Folds(S, AtStart, N, G) : TRUE
  <2>1. N \in Nat /\ G \in [S \X (1..N) -> S]
    BY <1>1, <1>5
  <2>2. Folds(S, AtStart, N, G) # {}
    BY <1>3, <2>1, FoldExists
  <2> QED BY <2>2
<1>7. Is(it)
  <2>1. it \in [SUBSET (1..N) -> S]
    BY DEF Folds
  <2>2. \A t \in SUBSET (1..N) : t # {} => Max(t) \in 1..N
    BY <1>1, MaxOfSome
  <2>3. \A t \in SUBSET (1..N) : it[t] = IF t = {} THEN AtStart
                           ELSE Wtf8Step(u, it[t \ {Max(t)}])
    BY <1>5, <2>1, <2>2 DEF Folds
  <2> QED BY <2>1, <2>3
<1>8. Is(g)
  BY <1>7, Zenon
<1> HIDE DEF g
<1>9. Folding(S, AtStart, N, G, g)
  BY <1>1, <1>5, <1>8, MaxOfSome DEF Folding
<1> HIDE DEF Is
<1>10. PICK f \in Stepwise(S, AtStart, N, G) : f[N] = g[1..N]
  <2>1. N \in Nat /\ G \in [S \X (1..N) -> S]
    BY <1>1, <1>5
  <2>2. Ends(S, AtStart, N, G, g)
    BY <1>3, <1>9, <2>1, FoldEnds, Zenon
  <2> QED BY <2>2, Zenon DEF Ends
<1>11. /\ f \in [0..N -> S] /\ f[0] = AtStart
       /\ \A n \in 1..N : f[n] = Wtf8Step(u, f[n - 1])
  <2>1. f \in [0..N -> S] /\ f[0] = AtStart /\ \A n \in 1..N : f[n] = G[<<f[n - 1], n>>]
    BY DEF Stepwise
  <2>2. \A n \in 1..N : f[n - 1] \in S
    BY <1>1, <2>1
  <2> QED BY <1>5, <2>1, <2>2
<1>12. f \in [0..N -> Wtf8States(u)]
  BY <1>11 DEF S
<1> QED BY <1>2, <1>10, <1>11, <1>12, Zenon

\* The same of CodePoints.
ReadStep(s, st) ==
  IF ~st.ok \/ st.i > Len(s) THEN st
  ELSE LET found == CodePointAt(s, st.i)
       IN IF found.n = 0 THEN [st EXCEPT !.ok = FALSE]
          ELSE [ok |-> TRUE, i |-> st.i + found.n, out |-> Append(st.out, found.cp)]

\* The states of the read of code points.
Read(s) == [ok : BOOLEAN, i : Nat \ {0}, out : Seq({CodePointAt(s, m).cp : m \in 1..Len(s)})]

\* A step of the read keeps its place and what it has read in range.
LEMMA ReadStepTyped ==
  ASSUME NEW s \in Line, NEW st \in Read(s)
  PROVE  ReadStep(s, st) \in Read(s)
<1> DEFINE C == {CodePointAt(s, m).cp : m \in 1..Len(s)}
<1>1. st = [ok |-> st.ok, i |-> st.i, out |-> st.out] /\ st.ok \in BOOLEAN /\ st.i \in Nat \ {0} /\ st.out \in Seq(C)
  BY DEF Read
<1>2. CASE ~st.ok \/ st.i > Len(s)
  BY <1>2 DEF ReadStep
<1>3. CASE st.ok /\ ~(st.i > Len(s))
  <2>1. st.i \in 1..Len(s)
    BY <1>1, <1>3, LineLen
  <2>2. CodePointAt(s, st.i).n \in 0..4 /\ CodePointAt(s, st.i).cp \in C
    BY <2>1, CharMade
  <2>3. PICK found : found = CodePointAt(s, st.i)
    OBVIOUS
  <2>4. ReadStep(s, st) = IF found.n = 0 THEN [st EXCEPT !.ok = FALSE]
          ELSE [ok |-> TRUE, i |-> st.i + found.n, out |-> Append(st.out, found.cp)]
    BY <1>3, <2>3 DEF ReadStep
  <2> HIDE DEF C
  <2>5. Append(st.out, found.cp) \in Seq(C)
    BY <1>1, <2>2, <2>3
  <2>6. st.i + found.n \in Nat \ {0}
    BY <1>1, <2>2, <2>3
  <2>7. Read(s) = [ok : BOOLEAN, i : Nat \ {0}, out : Seq(C)]
    BY DEF Read, C
  <2>8. [st EXCEPT !.ok = FALSE] \in Read(s)
    BY <1>1, <2>7
  <2>9. [ok |-> TRUE, i |-> st.i + found.n, out |-> Append(st.out, found.cp)] \in Read(s)
    BY <2>5, <2>6, <2>7
  <2> QED BY <2>4, <2>8, <2>9
<1> QED BY <1>2, <1>3

\* That read is a run of its steps, too.
ReadFirst(s) == FoldLeft(LAMBDA st, b : ReadStep(s, st), AtStart, s)

LEMMA ReadRun ==
  ASSUME NEW s \in Line
  PROVE  \E f \in [0..Len(s) -> Read(s)] :
           /\ f[0] = AtStart /\ f[Len(s)] = CodePoints(s)
           /\ \A n \in 1..Len(s) : f[n] = ReadStep(s, f[n - 1])
<1> DEFINE N == Len(s)
           S == Read(s)
           G == [p \in S \X (1..N) |-> ReadStep(s, p[1])]
           Is(g) == g = [t \in SUBSET (1..N) |-> IF t = {} THEN AtStart
                           ELSE ReadStep(s, g[t \ {Max(t)}])]
           g == CHOOSE g : Is(g)
<1>1. N \in Nat /\ DOMAIN s = 1..N
  BY LineLen
<1>2. CodePoints(s) = g[1..N]
  <2>1. ReadFirst(s) = g[1..N]
    BY <1>1, Zenon DEF FoldLeft, MapThenFoldSet, ReadFirst
  <2>2. CodePoints(s) = ReadFirst(s)
    BY Zenon DEF CodePoints, Scan, ReadFirst, ReadStep, AtStart
  <2> QED BY <2>1, <2>2, Zenon
<1>3. AtStart \in S
  BY EmptyRead DEF AtStart, Read
<1>4. \A v \in S, n \in 1..N : ReadStep(s, v) \in S
  BY ReadStepTyped
<1>5. G \in [S \X (1..N) -> S] /\ \A v \in S, n \in 1..N : G[<<v, n>>] = ReadStep(s, v)
  BY <1>4
<1> HIDE DEF G, S
<1>6. PICK it \in Folds(S, AtStart, N, G) : TRUE
  <2>1. N \in Nat /\ G \in [S \X (1..N) -> S]
    BY <1>1, <1>5
  <2>2. Folds(S, AtStart, N, G) # {}
    BY <1>3, <2>1, FoldExists
  <2> QED BY <2>2
<1>7. Is(it)
  <2>1. it \in [SUBSET (1..N) -> S]
    BY DEF Folds
  <2>2. \A t \in SUBSET (1..N) : t # {} => Max(t) \in 1..N
    BY <1>1, MaxOfSome
  <2>3. \A t \in SUBSET (1..N) : it[t] = IF t = {} THEN AtStart
                           ELSE ReadStep(s, it[t \ {Max(t)}])
    BY <1>5, <2>1, <2>2 DEF Folds
  <2> QED BY <2>1, <2>3
<1>8. Is(g)
  BY <1>7, Zenon
<1> HIDE DEF g
<1>9. Folding(S, AtStart, N, G, g)
  BY <1>1, <1>5, <1>8, MaxOfSome DEF Folding
<1> HIDE DEF Is
<1>10. PICK f \in Stepwise(S, AtStart, N, G) : f[N] = g[1..N]
  <2>1. N \in Nat /\ G \in [S \X (1..N) -> S]
    BY <1>1, <1>5
  <2>2. Ends(S, AtStart, N, G, g)
    BY <1>3, <1>9, <2>1, FoldEnds, Zenon
  <2> QED BY <2>2, Zenon DEF Ends
<1>11. /\ f \in [0..N -> S] /\ f[0] = AtStart
       /\ \A n \in 1..N : f[n] = ReadStep(s, f[n - 1])
  <2>1. f \in [0..N -> S] /\ f[0] = AtStart /\ \A n \in 1..N : f[n] = G[<<f[n - 1], n>>]
    BY DEF Stepwise
  <2>2. \A n \in 1..N : f[n - 1] \in S
    BY <1>1, <2>1
  <2> QED BY <1>5, <2>1, <2>2
<1>12. f \in [0..N -> Read(s)]
  BY <1>11 DEF S
<1> QED BY <1>2, <1>10, <1>11, <1>12, Zenon

\* There is a character at s[m], and it is no surrogate.
Reads(s, m) == CodePointAt(s, m).n # 0 /\ CodePointAt(s, m).cp \notin Surrogate

\* Places where characters begin, or the text ends.
Closed(s, B) ==
  /\ B \subseteq 1..(Len(s) + 1) /\ 1 \in B
  /\ \A m \in B : m <= Len(s) => Reads(s, m) /\ m + CodePointAt(s, m).n \in B

\* What is in a sequence with one element more.
LEMMA AppendSet ==
  ASSUME NEW S, NEW q \in Seq(S), NEW c \in S
  PROVE  ToSet(Append(q, c)) = ToSet(q) \cup {c}
<1>1. Len(q) \in Nat /\ DOMAIN q = 1..Len(q)
  BY SeqTyped
<1>2. /\ DOMAIN Append(q, c) = 1..(Len(q) + 1)
      /\ \A n \in 1..Len(q) : Append(q, c)[n] = q[n]
      /\ Append(q, c)[Len(q) + 1] = c
  BY <1>1
<1>3. \A n \in 1..(Len(q) + 1) : n \in 1..Len(q) \/ n = Len(q) + 1
  BY <1>1
<1>4. Len(q) + 1 \in 1..(Len(q) + 1) /\ 1..Len(q) \subseteq 1..(Len(q) + 1)
  BY <1>1
<1> HIDE <1>1
<1> QED BY <1>1, <1>2, <1>3, <1>4, Zenon DEF ToSet

\* Where the read has been.
Been(s, B, st, n) ==
  /\ B \subseteq 1..(Len(s) + 1) /\ 1 \in B /\ st.i \in B /\ (st.i > n \/ st.i > Len(s))
  /\ \A m \in B \ {st.i} : m <= Len(s) =>
       /\ CodePointAt(s, m).n # 0 /\ CodePointAt(s, m).cp \in ToSet(st.out)
       /\ m + CodePointAt(s, m).n \in B

\* Where a read that meets no failure has been is closed under reading.
LEMMA BeenOn ==
  ASSUME NEW s \in Line, NEW B, NEW st \in Read(s), NEW n \in 1..Len(s), Been(s, B, st, n - 1),
         ReadStep(s, st).ok
  PROVE  \E D : Been(s, D, ReadStep(s, st), n)
<1> DEFINE C == {CodePointAt(s, m).cp : m \in 1..Len(s)}
<1>1. st.ok \in BOOLEAN /\ st.i \in Nat \ {0} /\ st.out \in Seq(C) /\ Len(s) \in Nat
  BY LineLen DEF Read
<1>2. CASE ~st.ok \/ st.i > Len(s)
  <2>1. ReadStep(s, st) = st
    BY <1>2 DEF ReadStep
  <2>2. st.i > Len(s)
    BY <1>2, <2>1
  <2>3. Been(s, B, st, n)
    BY <2>2 DEF Been
  <2> QED BY <2>1, <2>3
<1>3. CASE st.ok /\ ~(st.i > Len(s))
  <2>1. st.i \in 1..Len(s) /\ st.i <= Len(s)
    BY <1>1, <1>3
  <2>2. PICK found : found = CodePointAt(s, st.i)
    OBVIOUS
  <2>3. ReadStep(s, st) = IF found.n = 0 THEN [st EXCEPT !.ok = FALSE]
          ELSE [ok |-> TRUE, i |-> st.i + found.n, out |-> Append(st.out, found.cp)]
    BY <1>3, <2>2 DEF ReadStep
  <2>4. found.n # 0
    <3>1. st = [ok |-> st.ok, i |-> st.i, out |-> st.out]
      BY DEF Read
    <3>2. [st EXCEPT !.ok = FALSE].ok = FALSE
      BY <3>1
    <3> QED BY <2>3, <3>2
  <2>5. PICK l \in 1..4 : l = found.n
    BY <2>1, <2>2, <2>4, CharMade
  <2>6. st.i + l - 1 <= Len(s)
    BY <2>1, <2>2, <2>5, CharMade
  <2>7. PICK x \in Nat : x = st.i + l
    BY <1>1
  <2>8. x \in 1..(Len(s) + 1) /\ x > st.i
    <3>1. PICK y \in Nat \ {0} : y = st.i
      BY <1>1
    <3>2. PICK N \in Nat : N = Len(s)
      BY LineLen
    <3>3. y + l - 1 <= N /\ x = y + l
      BY <2>6, <2>7, <3>1, <3>2
    <3>4. x \in 1..(N + 1) /\ x > y
      BY <3>3
    <3> QED BY <3>1, <3>2, <3>4
  <2>9. PICK out : out = Append(st.out, found.cp)
    OBVIOUS
  <2>10. ReadStep(s, st) = [ok |-> TRUE, i |-> x, out |-> out]
    BY <2>3, <2>4, <2>5, <2>7, <2>9
  <2>11. ToSet(out) = ToSet(st.out) \cup {found.cp}
    <3>1. found.cp \in C
      BY <2>1, <2>2
    <3> HIDE DEF C
    <3> QED BY <1>1, <2>9, <3>1, AppendSet
  <2>12. Been(s, B \cup {x}, [ok |-> TRUE, i |-> x, out |-> out], n)
    <3>1. /\ B \subseteq 1..(Len(s) + 1) /\ 1 \in B /\ st.i \in B /\ (st.i > n - 1 \/ st.i > Len(s))
          /\ \A m \in B \ {st.i} : m <= Len(s) =>
               /\ CodePointAt(s, m).n # 0 /\ CodePointAt(s, m).cp \in ToSet(st.out)
               /\ m + CodePointAt(s, m).n \in B
      BY DEF Been
    <3>2. B \cup {x} \subseteq 1..(Len(s) + 1) /\ x > n
      BY <1>1, <2>1, <2>8, <3>1
    <3>3. ASSUME NEW m \in (B \cup {x}) \ {x}, m <= Len(s)
          PROVE  /\ CodePointAt(s, m).n # 0 /\ CodePointAt(s, m).cp \in ToSet(out)
                 /\ m + CodePointAt(s, m).n \in B \cup {x}
      <4>1. CASE m = st.i
        BY <2>2, <2>4, <2>5, <2>7, <2>11, <4>1
      <4>2. CASE m # st.i
        BY <2>11, <3>1, <3>3, <4>2
      <4> QED BY <4>1, <4>2
    <3> QED BY <3>1, <3>2, <3>3 DEF Been
  <2> QED BY <2>10, <2>12
<1> QED BY <1>1, <1>2, <1>3

\* UTF-8 is a text.
LEMMA ReadsText ==
  ASSUME NEW s \in Line, IsUtf8(s)
  PROVE  \E B : Closed(s, B)
<1>1. Len(s) \in Nat
  BY LineLen
<1>2. PICK f \in [0..Len(s) -> Read(s)] :
           /\ f[0] = AtStart /\ f[Len(s)] = CodePoints(s)
           /\ \A n \in 1..Len(s) : f[n] = ReadStep(s, f[n - 1])
  BY ReadRun
<1> DEFINE So(n) == f[n].ok => \E B : Been(s, B, f[n], n)
           T == {n \in Nat : So(n)}
<1>3. 0 \in T
  <2>1. Been(s, {1}, AtStart, 0)
    BY <1>1 DEF Been, AtStart
  <2>2. So(0)
    BY <1>2, <2>1
  <2> QED BY <2>2
<1>4. ASSUME NEW n \in 1..Len(s), n - 1 \in T PROVE n \in T
  <2>1. So(n - 1)
    BY <1>4, Zenon
  <2>2. f[n - 1] \in Read(s) /\ n \in Nat /\ f[n] = ReadStep(s, f[n - 1])
    BY <1>1, <1>2
  <2>3. ASSUME f[n].ok PROVE \E B : Been(s, B, f[n], n)
    <3>1. f[n - 1].ok
      <4>1. ASSUME ~f[n - 1].ok PROVE FALSE
        <5>1. ReadStep(s, f[n - 1]) = f[n - 1]
          BY <4>1 DEF ReadStep
        <5> QED BY <2>2, <2>3, <4>1, <5>1
      <4> QED BY <4>1
    <3>2. PICK B : Been(s, B, f[n - 1], n - 1)
      BY <2>1, <3>1
    <3>3. ReadStep(s, f[n - 1]).ok
      BY <2>2, <2>3
    <3>4. \E D : Been(s, D, ReadStep(s, f[n - 1]), n)
      BY <2>2, <3>2, <3>3, BeenOn
    <3> QED BY <2>2, <3>4, Zenon
  <2>4. So(n)
    BY <2>3
  <2> QED BY <2>2, <2>4, Zenon
<1> HIDE DEF T
<1>5. Len(s) \in T
  <2>1. \A n \in 0..Len(s) : n \in T
    BY <1>1, <1>3, <1>4, UpTo
  <2> QED BY <1>1, <2>1
<1>6. So(Len(s))
  BY <1>5, Zenon DEF T
<1>7. PICK end : end = CodePoints(s)
  OBVIOUS
<1>8. end.ok /\ \A cp \in ToSet(end.out) : cp \notin Surrogate
  BY <1>7, Zenon DEF IsUtf8
<1>9. PICK B : Been(s, B, end, Len(s))
  BY <1>2, <1>6, <1>7, <1>8
<1>10. Closed(s, B)
  <2>1. /\ B \subseteq 1..(Len(s) + 1) /\ 1 \in B /\ end.i > Len(s)
        /\ \A m \in B \ {end.i} : m <= Len(s) =>
             /\ CodePointAt(s, m).n # 0 /\ CodePointAt(s, m).cp \in ToSet(end.out)
             /\ m + CodePointAt(s, m).n \in B
    BY <1>9 DEF Been
  <2>2. ASSUME NEW m \in B, m <= Len(s) PROVE Reads(s, m) /\ m + CodePointAt(s, m).n \in B
    <3>1. m # end.i
      <4>1. m \in Nat /\ end.i \in Nat
        BY <1>1, <1>9, <2>1 DEF Been
      <4> QED BY <1>1, <2>1, <2>2, <4>1
    <3>2. /\ CodePointAt(s, m).n # 0 /\ CodePointAt(s, m).cp \in ToSet(end.out)
          /\ m + CodePointAt(s, m).n \in B
      BY <2>1, <2>2, <3>1
    <3> QED BY <1>8, <3>2 DEF Reads
  <2> QED BY <2>1, <2>2 DEF Closed
<1> QED BY <1>10

-----------------------------------------------------------------------------
(* Each conversion makes the same text                                     *)

\* How far a scan of N elements has come after n steps.
Along(st, N, n) == st.ok /\ st.i \in Nat /\ (st.i > n \/ st.i > N)

\* Writing bytes for units keeps them the same text.
Writing(u, st, n) ==
  Along(st, Len(u), n) /\ \E B : Matched(st.out, u, B, Len(st.out) + 1, st.i)

\* A step of the conversion to bytes keeps what was written the same text as what was read.
LEMMA WritingOn ==
  ASSUME NEW u \in Units, NEW st \in Wtf8States(u), NEW n \in 1..Len(u), Writing(u, st, n - 1)
  PROVE  Writing(u, Wtf8Step(u, st), n)
<1>1. st.ok /\ st.i \in Nat \ {0} /\ st.out \in Line /\ Len(u) \in Nat
  BY UnitLen DEF Writing, Along, Wtf8States
<1>2. CASE st.i > Len(u)
  <2>1. Wtf8Step(u, st) = st
    BY <1>2 DEF Wtf8Step
  <2> QED BY <1>2, <2>1 DEF Writing, Along
<1>3. CASE ~(st.i > Len(u))
  <2>1. PICK l \in 1..Len(u) : l = st.i
    BY <1>1, <1>3
  <2>2. PICK B : Matched(st.out, u, B, Len(st.out) + 1, l)
    BY <2>1 DEF Writing
  <2>3. PICK cp \in Code, k \in 1..2 : Stands(u, l, cp, k)
    BY Standing
  <2>4. PICK s \in Line : s = st.out
    BY <1>1
  <2>5. s \o Utf8(cp) \in Line /\ \E D : Matched(s \o Utf8(cp), u, D, Len(s \o Utf8(cp)) + 1, l + k)
    BY <2>2, <2>3, <2>4, MatchedByBytes
  <2>6. Wtf8Step(u, st) = [ok |-> TRUE, i |-> l + k, out |-> s \o Utf8(cp)]
    <3>1. st.i \in 1..Len(u) /\ Stands(u, st.i, cp, k)
      BY <2>1, <2>3
    <3>2. Wtf8Step(u, st) = [ok |-> TRUE, i |-> st.i + k, out |-> st.out \o Utf8(cp)]
      BY <1>1, <2>3, <3>1, Wtf8Goes
    <3> QED BY <2>1, <2>4, <3>2
  <2>7. l + k \in Nat /\ l + k > n
    <3>1. l > n - 1
      BY <1>3, <2>1 DEF Writing, Along
    <3> QED BY <3>1
  <2>8. PICK x : x = s \o Utf8(cp)
    OBVIOUS
  <2>9. PICK to : to = [ok |-> TRUE, i |-> l + k, out |-> x]
    OBVIOUS
  <2>10. to.ok /\ to.i = l + k /\ to.out = x
    BY <2>9
  <2>11. Writing(u, to, n)
    BY <2>5, <2>7, <2>8, <2>10 DEF Writing, Along
  <2> QED BY <2>6, <2>8, <2>9, <2>11
<1> QED BY <1>2, <1>3

\* The WTF-8 of units is the same text as the units.
LEMMA Written ==
  ASSUME NEW u \in Units
  PROVE  Wtf8(u) \in Line /\ SameText(Wtf8(u), u)
<1>0. Len(u) \in Nat
  BY UnitLen
<1>1. Writing(u, AtStart, 0)
  <2>1. Matched(<<>>, u, {<<1, 1>>}, 1, 1) /\ Len(<<>>) + 1 = 1
    BY NothingMatched
  <2>2. AtStart.ok /\ AtStart.i = 1 /\ AtStart.out = <<>> /\ 1 \in Nat /\ 1 > 0
    BY DEF AtStart
  <2>3. \E B : Matched(AtStart.out, u, B, Len(AtStart.out) + 1, AtStart.i)
    BY <2>1, <2>2
  <2> QED BY <2>2, <2>3 DEF Writing, Along
<1>2. PICK f \in [0..Len(u) -> Wtf8States(u)] :
           /\ f[0] = AtStart /\ f[Len(u)] = Wtf8Scan(u)
           /\ \A n \in 1..Len(u) : f[n] = Wtf8Step(u, f[n - 1])
  BY Wtf8Run
<1> DEFINE T == {n \in Nat : Writing(u, f[n], n)}
<1>3. 0 \in T
  BY <1>1, <1>2
<1>4. ASSUME NEW n \in 1..Len(u), n - 1 \in T PROVE n \in T
  <2>1. Writing(u, f[n - 1], n - 1)
    BY <1>4, Zenon
  <2>2. f[n - 1] \in Wtf8States(u) /\ n \in Nat /\ f[n] = Wtf8Step(u, f[n - 1])
    BY <1>0, <1>2
  <2>3. Writing(u, Wtf8Step(u, f[n - 1]), n)
    BY <2>1, <2>2, WritingOn
  <2>4. Writing(u, f[n], n)
    BY <2>2, <2>3, Zenon
  <2> QED BY <2>2, <2>4, Zenon
<1> HIDE DEF T
<1>5. Len(u) \in T
  <2>1. \A n \in 0..Len(u) : n \in T
    BY <1>0, <1>3, <1>4, UpTo
  <2> QED BY <1>0, <2>1
<1>6. Writing(u, Wtf8Scan(u), Len(u))
  BY <1>2, <1>5, Zenon DEF T
<1>7. Wtf8Scan(u) \in Wtf8States(u)
  BY <1>0, <1>2
<1>8. PICK end \in Wtf8States(u) : end = Wtf8Scan(u)
  BY <1>7
<1>9. PICK B : Matched(end.out, u, B, Len(end.out) + 1, end.i)
  BY <1>6, <1>8 DEF Writing
<1>10. end.i \in Nat /\ end.i > Len(u)
  <2>1. end.i > Len(u) \/ end.i > Len(u)
    BY <1>6, <1>8 DEF Writing, Along
  <2> QED BY <2>1 DEF Wtf8States
<1>11. end.i = Len(u) + 1
  <2>1. end.i \in 1..(Len(u) + 1)
    BY <1>9 DEF Matched
  <2> QED BY <1>0, <1>10, <2>1
<1>12. SameText(end.out, u)
  BY <1>9, <1>11 DEF SameText
<1>13. Wtf8(u) = end.out
  <2>1. Wtf8(u) = Wtf8Scan(u).out
    BY Zenon DEF Wtf8, Wtf8Scan
  <2> QED BY <1>8, <2>1
<1>14. end.out \in Line
  BY DEF Wtf8States
<1> QED BY <1>12, <1>13, <1>14

\* So does writing units for bytes, if they are UTF-8.
Reading(s, C, st, n) ==
  /\ Along(st, Len(s), n) /\ st.i \in C
  /\ \E B : Matched(s, st.out, B, st.i, Len(st.out) + 1)

\* A step of the conversion to units keeps what was read the same text as what was written.
LEMMA ReadingOn ==
  ASSUME NEW s \in Line, NEW C, Closed(s, C), NEW st \in Utf16States(s), NEW n \in 1..Len(s),
         Reading(s, C, st, n - 1)
  PROVE  Reading(s, C, Utf16Step(s, st), n)
<1>1. st.ok /\ st.i \in Nat \ {0} /\ st.out \in Units /\ Len(s) \in Nat /\ st.i \in C
  BY LineLen DEF Reading, Along, Utf16States
<1>2. CASE st.i > Len(s)
  <2>1. Utf16Step(s, st) = st
    BY <1>2 DEF Utf16Step
  <2> QED BY <1>2, <2>1 DEF Reading, Along
<1>3. CASE ~(st.i > Len(s))
  <2>1. PICK m \in 1..Len(s) : m = st.i
    BY <1>1, <1>3
  <2>2. PICK B : Matched(s, st.out, B, m, Len(st.out) + 1)
    BY <2>1 DEF Reading
  <2>3. Reads(s, m) /\ m + CodePointAt(s, m).n \in C
    BY <1>1, <2>1 DEF Closed
  <2>4. CodePointAt(s, m).n # 0
    BY <2>3 DEF Reads
  <2>5. PICK cp \in Code, k \in 1..4 : Found(s, m, cp, k)
    BY <2>4, Decoded DEF Spells
  <2>6. CodePointAt(s, m).n = k /\ CodePointAt(s, m).cp = cp
    BY <2>5 DEF Found
  <2>7. cp \notin Surrogate /\ m + k \in C
    BY <2>3, <2>6 DEF Reads
  <2>8. PICK u \in Units : u = st.out
    BY <1>1
  <2>9. u \o UnitsOf(cp) \in Units /\ \E D : Matched(s, u \o UnitsOf(cp), D, m + k, Len(u \o UnitsOf(cp)) + 1)
    BY <2>2, <2>5, <2>7, <2>8, MatchedByUnits
  <2>10. Utf16Step(s, st) = [ok |-> TRUE, i |-> m + k, out |-> u \o UnitsOf(cp)]
    <3>1. st.i \in 1..Len(s) /\ Found(s, st.i, cp, k)
      BY <2>1, <2>5
    <3>2. Utf16Step(s, st) = [ok |-> TRUE, i |-> st.i + k, out |-> st.out \o UnitsOf(cp)]
      BY <1>1, <3>1, Utf16Goes
    <3> QED BY <2>1, <2>8, <3>2
  <2>11. m + k \in Nat /\ m + k > n
    <3>1. m > n - 1
      BY <1>3, <2>1 DEF Reading, Along
    <3> QED BY <3>1
  <2>12. PICK x : x = u \o UnitsOf(cp)
    OBVIOUS
  <2>13. PICK to : to = [ok |-> TRUE, i |-> m + k, out |-> x]
    OBVIOUS
  <2>14. to.ok /\ to.i = m + k /\ to.out = x
    BY <2>13
  <2>15. Reading(s, C, to, n)
    BY <2>7, <2>9, <2>11, <2>12, <2>14 DEF Reading, Along
  <2> QED BY <2>10, <2>12, <2>13, <2>15
<1> QED BY <1>2, <1>3

\* UTF-8 converts, and into the same text.
LEMMA ReadAsUnits ==
  ASSUME NEW s \in Line, IsUtf8(s)
  PROVE  Utf16(s).ok /\ Utf16(s).out \in Units /\ SameText(s, Utf16(s).out)
<1>0. Len(s) \in Nat
  BY LineLen
<1> PICK C : Closed(s, C)
  BY ReadsText
<1>1. Reading(s, C, AtStart, 0)
  <2>1. Matched(s, <<>>, {<<1, 1>>}, 1, 1) /\ Len(<<>>) + 1 = 1
    BY NoUnitsMatched
  <2>2. AtStart.ok /\ AtStart.i = 1 /\ AtStart.out = <<>> /\ 1 \in Nat /\ 1 > 0 /\ 1 \in C
    BY DEF AtStart, Closed
  <2>3. \E B : Matched(s, AtStart.out, B, AtStart.i, Len(AtStart.out) + 1)
    BY <2>1, <2>2
  <2> QED BY <2>2, <2>3 DEF Reading, Along
<1>2. PICK f \in [0..Len(s) -> Utf16States(s)] :
           /\ f[0] = AtStart /\ f[Len(s)] = Utf16(s)
           /\ \A n \in 1..Len(s) : f[n] = Utf16Step(s, f[n - 1])
  BY Utf16Run
<1> DEFINE T == {n \in Nat : Reading(s, C, f[n], n)}
<1>3. 0 \in T
  BY <1>1, <1>2
<1>4. ASSUME NEW n \in 1..Len(s), n - 1 \in T PROVE n \in T
  <2>1. Reading(s, C, f[n - 1], n - 1)
    BY <1>4, Zenon
  <2>2. f[n - 1] \in Utf16States(s) /\ n \in Nat /\ f[n] = Utf16Step(s, f[n - 1])
    BY <1>0, <1>2
  <2>3. Reading(s, C, Utf16Step(s, f[n - 1]), n)
    BY <2>1, <2>2, ReadingOn
  <2>4. Reading(s, C, f[n], n)
    BY <2>2, <2>3, Zenon
  <2> QED BY <2>2, <2>4, Zenon
<1> HIDE DEF T
<1>5. Len(s) \in T
  <2>1. \A n \in 0..Len(s) : n \in T
    BY <1>0, <1>3, <1>4, UpTo
  <2> QED BY <1>0, <2>1
<1>6. Reading(s, C, Utf16(s), Len(s))
  BY <1>2, <1>5, Zenon DEF T
<1>7. Utf16(s) \in Utf16States(s)
  BY <1>0, <1>2
<1>8. PICK end \in Utf16States(s) : end = Utf16(s)
  BY <1>7
<1>9. PICK B : Matched(s, end.out, B, end.i, Len(end.out) + 1)
  BY <1>6, <1>8 DEF Reading
<1>10. end.i \in Nat /\ end.i > Len(s) /\ end.ok
  <2>1. (end.i > Len(s) \/ end.i > Len(s)) /\ end.ok
    BY <1>6, <1>8 DEF Reading, Along
  <2> QED BY <2>1 DEF Utf16States
<1>11. end.i = Len(s) + 1
  <2>1. end.i \in 1..(Len(s) + 1)
    BY <1>9 DEF Matched
  <2> QED BY <1>0, <1>10, <2>1
<1>12. SameText(s, end.out)
  BY <1>9, <1>11 DEF SameText
<1>14. end.out \in Units
  BY DEF Utf16States
<1> QED BY <1>8, <1>10, <1>12, <1>14

-----------------------------------------------------------------------------
(* The same text converts the one way only                                 *)

\* What was found at s[m] is spelt by the bytes there.
LEMMA SpellsIt ==
  ASSUME NEW s \in Line, NEW m \in 1..Len(s), NEW cp \in Code, NEW n \in 1..4, Found(s, m, cp, n)
  PROVE  Spells(s, m, cp, n)
<1>1. CodePointAt(s, m).n = n /\ CodePointAt(s, m).cp = cp /\ n # 0
  BY DEF Found
<1>2. PICK c \in Code, x \in 1..4 : Spells(s, m, c, x)
  BY <1>1, Decoded
<1>3. c = cp /\ x = n
  BY <1>1, <1>2 DEF Spells, Found
<1> QED BY <1>2, <1>3

\* A character takes no more units than bytes.
LEMMA Narrower ==
  ASSUME NEW s \in Line, NEW m \in 1..Len(s), NEW cp \in Code, NEW n \in 1..4, Found(s, m, cp, n),
         NEW u, NEW l, NEW k \in 1..2, Stands(u, l, cp, k)
  PROVE  k <= n
<1>1. Len(Utf8(cp)) = n
  BY SpellsIt DEF Spells
<1>2. n = 4 <=> cp >= 65536
  <2>1. PICK x \in 1..4 : Len(Utf8(cp)) = x /\ (x = 4 <=> cp >= 65536)
    BY Encoded
  <2> QED BY <1>1, <2>1
<1>3. k = 2 <=> cp >= 65536
  BY DEF Stands
<1> QED BY <1>2, <1>3

\* A colon among the units is a colon among the bytes.
LEMMA ColonByte ==
  ASSUME NEW s \in Line, NEW m \in 1..Len(s), NEW cp \in Code, NEW n \in 1..4, Found(s, m, cp, n),
         NEW k \in 1..2, Len(UnitsOf(cp)) = k, NEW j \in 1..k, UnitsOf(cp)[j] = Colon
  PROVE  s[m] = Colon
<1>0. cp \in Nat
  BY DEF Code
<1>1. CASE cp < 65536
  <2>1. UnitsOf(cp) = <<cp>> /\ Len(<<cp>>) = 1 /\ <<cp>>[1] = cp
    BY <1>1 DEF UnitsOf
  <2>2. j = 1 /\ cp = 58
    BY <2>1 DEF Colon
  <2>3. cp < 128 => cp = s[m]
    BY SpellsIt DEF Spells
  <2> QED BY <2>2, <2>3 DEF Colon
<1>2. CASE ~(cp < 65536)
  <2>1. PICK d \in Nat : d = cp - 65536
    BY <1>0, <1>2
  <2>2. PICK x \in Nat : x = d \div 1024
    OBVIOUS
  <2>3. PICK y \in Nat : y = d % 1024
    OBVIOUS
  <2>4. PICK h \in Nat : h = 55296 + x
    OBVIOUS
  <2>5. PICK w \in Nat : w = 56320 + y
    OBVIOUS
  <2>6. UnitsOf(cp) = <<h, w>>
    BY <1>2, <2>1, <2>2, <2>3, <2>4, <2>5 DEF UnitsOf
  <2>7. UnitsOf(cp)[1] = h /\ UnitsOf(cp)[2] = w
    BY <2>6
  <2>8. h # 58 /\ w # 58
    BY <2>4, <2>5
  <2>9. j = 1 \/ j = 2
    OBVIOUS
  <2> QED BY <2>7, <2>8, <2>9 DEF Colon
<1> QED BY <1>1, <1>2

\* Reading the bytes of a text writes its units.
Copying(s, u, B, st, n) ==
  /\ Along(st, Len(s), n) /\ <<st.i, Len(st.out) + 1>> \in B /\ Len(st.out) < st.i
  /\ \A j \in 1..Len(st.out) : /\ st.out[j] = u[j]
                               /\ u[j] = Colon => \E m \in 1..Len(s) : s[m] = Colon

\* A step of the conversion of matched bytes comes to the end of the next match.
LEMMA CopyingOn ==
  ASSUME NEW s \in Line, NEW u \in Units, NEW B, Matched(s, u, B, Len(s) + 1, Len(u) + 1),
         NEW st \in Utf16States(s), NEW n \in 1..Len(s), Copying(s, u, B, st, n - 1)
  PROVE  Copying(s, u, B, Utf16Step(s, st), n)
<1>1. st.ok /\ st.i \in Nat \ {0} /\ st.out \in Units /\ Len(s) \in Nat
  BY LineLen DEF Copying, Along, Utf16States
<1>2. CASE st.i > Len(s)
  <2>1. Utf16Step(s, st) = st
    BY <1>2 DEF Utf16Step
  <2> QED BY <1>2, <2>1 DEF Copying, Along
<1>3. CASE ~(st.i > Len(s))
  <2>1. PICK m \in 1..Len(s) : m = st.i
    BY <1>1, <1>3
  <2>2. PICK v \in Units : v = st.out
    BY <1>1
  <2>3. PICK K \in Nat : K = Len(v)
    BY UnitLen
  <2>4. <<m, K + 1>> \in B /\ K < m
    BY <2>1, <2>2, <2>3 DEF Copying
  <2>5. K + 1 \in 1..(Len(u) + 1) /\ m \in 1..(Len(s) + 1) /\ <<m, K + 1>> # <<Len(s) + 1, Len(u) + 1>>
    <3>1. B \subseteq (1..(Len(s) + 1)) \X (1..(Len(u) + 1))
      BY DEF Matched
    <3>2. m # Len(s) + 1
      BY <1>1
    <3> QED BY <2>4, <3>1, <3>2
  <2>6. K + 1 <= Len(u) /\ Onward(s, m, u, K + 1, B)
    BY <2>4, <2>5 DEF Matched
  <2>7. PICK cp \in Code, x \in 1..4, k \in 1..2 :
          Found(s, m, cp, x) /\ Stands(u, K + 1, cp, k) /\ <<m + x, K + 1 + k>> \in B
    BY <2>6 DEF Onward
  <2>8. k <= x
    BY <2>7, Narrower
  <2>9. /\ Utf16Step(s, st) = [ok |-> TRUE, i |-> m + x, out |-> v \o UnitsOf(cp)]
        /\ UnitsOf(cp) \in Units
    <3>1. st.i \in 1..Len(s) /\ Found(s, st.i, cp, x)
      BY <2>1, <2>7
    <3>2. /\ Utf16Step(s, st) = [ok |-> TRUE, i |-> st.i + x, out |-> st.out \o UnitsOf(cp)]
          /\ UnitsOf(cp) \in Units
      BY <1>1, <3>1, Utf16Goes
    <3> QED BY <2>1, <2>2, <3>2
  <2>10. Len(UnitsOf(cp)) = k /\ \A j \in 1..k : UnitsOf(cp)[j] = u[K + 1 + j - 1]
    BY <2>7 DEF Stands
  <2>11. PICK w \in Units : w = UnitsOf(cp)
    BY <2>9
  <2>12. PICK o \in Units : o = v \o w
    <3>1. v \o w \in Seq(Unit)
      BY DEF Units
    <3> QED BY <3>1 DEF Units
  <2>13. Len(o) = K + k /\ (\A j \in 1..K : o[j] = v[j]) /\ \A j \in 1..k : o[K + j] = w[j]
    BY <2>3, <2>10, <2>11, <2>12, Joined DEF Units
  <2>14. \A j \in 1..K : v[j] = u[j] /\ (u[j] = Colon => \E i \in 1..Len(s) : s[i] = Colon)
    BY <2>2, <2>3 DEF Copying
  <2>15. ASSUME NEW j \in 1..Len(o)
         PROVE  o[j] = u[j] /\ (u[j] = Colon => \E i \in 1..Len(s) : s[i] = Colon)
    <3>1. CASE j <= K
      <4>1. j \in 1..K
        BY <3>1
      <4> QED BY <2>13, <2>14, <4>1
    <3>2. CASE ~(j <= K)
      <4>1. PICK y \in 1..k : j = K + y
        <5>1. j - K \in 1..k /\ j = K + (j - K)
          BY <2>13, <3>2
        <5> QED BY <5>1
      <4>2. o[j] = w[y] /\ w[y] = u[K + 1 + y - 1] /\ K + 1 + y - 1 = j
        BY <2>10, <2>11, <2>13, <4>1
      <4>3. ASSUME u[j] = Colon PROVE s[m] = Colon
        <5>1. UnitsOf(cp)[y] = Colon
          BY <2>11, <4>2, <4>3
        <5> QED BY <2>7, <2>10, <5>1, ColonByte
      <4> QED BY <4>2, <4>3
    <3> QED BY <3>1, <3>2
  <2>16. PICK to : to = [ok |-> TRUE, i |-> m + x, out |-> o]
    OBVIOUS
  <2>17. to.ok /\ to.i = m + x /\ to.out = o
    BY <2>16
  <2>18. Along(to, Len(s), n)
    <3>0. st.i > n - 1 \/ st.i > Len(s)
      BY DEF Copying, Along
    <3>a. m > n - 1
      BY <1>3, <2>1, <3>0
    <3>1. m > n - 1 /\ m + x \in Nat
      BY <3>a
    <3>2. m + x > n
      BY <3>1
    <3> QED BY <2>17, <3>1, <3>2 DEF Along
  <2>19. <<m + x, Len(o) + 1>> \in B /\ Len(o) < m + x
    <3>1. K + k + 1 = K + 1 + k /\ K + k < m + x
      BY <2>4, <2>8
    <3>2. Len(o) + 1 = K + 1 + k
      BY <2>13, <3>1
    <3> QED BY <2>7, <2>13, <3>1, <3>2
  <2>20. Copying(s, u, B, to, n)
    BY <2>15, <2>17, <2>18, <2>19 DEF Copying
  <2> QED BY <2>9, <2>11, <2>12, <2>16, <2>20
<1> QED BY <1>2, <1>3

\* Bytes that are the same text as units convert into those units.
LEMMA Utf16Reads ==
  ASSUME NEW s \in Line, NEW u \in Units, SameText(s, u)
  PROVE  /\ Utf16(s).ok /\ Utf16(s).out = u /\ Len(u) <= Len(s)
         /\ Colon \in ToSet(u) => Colon \in ToSet(s)
<1>0. Len(s) \in Nat /\ Len(u) \in Nat
  BY LineLen, UnitLen
<1> PICK B : Matched(s, u, B, Len(s) + 1, Len(u) + 1)
  BY DEF SameText
<1>1. Copying(s, u, B, AtStart, 0)
  <2>1. AtStart.ok /\ AtStart.i = 1 /\ AtStart.out = <<>> /\ 1 \in Nat /\ 1 > 0 /\ <<1, 1>> \in B
    BY DEF AtStart, Matched
  <2>2. Len(AtStart.out) = 0 /\ 0 + 1 = 1 /\ 0 < 1
    BY <2>1
  <2>3. \A j \in 1..0 : FALSE
    OBVIOUS
  <2> QED BY <2>1, <2>2, <2>3 DEF Copying, Along
<1>2. PICK f \in [0..Len(s) -> Utf16States(s)] :
           /\ f[0] = AtStart /\ f[Len(s)] = Utf16(s)
           /\ \A n \in 1..Len(s) : f[n] = Utf16Step(s, f[n - 1])
  BY Utf16Run
<1> DEFINE T == {n \in Nat : Copying(s, u, B, f[n], n)}
<1>3. 0 \in T
  BY <1>1, <1>2
<1>4. ASSUME NEW n \in 1..Len(s), n - 1 \in T PROVE n \in T
  <2>1. Copying(s, u, B, f[n - 1], n - 1)
    BY <1>4, Zenon
  <2>2. f[n - 1] \in Utf16States(s) /\ n \in Nat /\ f[n] = Utf16Step(s, f[n - 1])
    BY <1>0, <1>2
  <2>3. Copying(s, u, B, Utf16Step(s, f[n - 1]), n)
    BY <2>1, <2>2, CopyingOn
  <2>4. Copying(s, u, B, f[n], n)
    BY <2>2, <2>3, Zenon
  <2> QED BY <2>2, <2>4, Zenon
<1> HIDE DEF T
<1>5. Len(s) \in T
  <2>1. \A n \in 0..Len(s) : n \in T
    BY <1>0, <1>3, <1>4, UpTo
  <2> QED BY <1>0, <2>1
<1>6. Copying(s, u, B, Utf16(s), Len(s))
  BY <1>2, <1>5, Zenon DEF T
<1>7. Utf16(s) \in Utf16States(s)
  BY <1>0, <1>2
<1>8. PICK end \in Utf16States(s) : end = Utf16(s)
  BY <1>7
<1>9. Copying(s, u, B, end, Len(s))
  BY <1>6, <1>8, Zenon
<1>10. end.i \in Nat /\ end.i > Len(s) /\ end.ok /\ end.out \in Units
  <2>1. (end.i > Len(s) \/ end.i > Len(s)) /\ end.ok
    BY <1>9 DEF Copying, Along
  <2> QED BY <2>1 DEF Utf16States
<1>11. PICK K \in Nat : K = Len(end.out)
  BY <1>10, UnitLen
<1>12. <<end.i, K + 1>> \in B /\ K < end.i
  BY <1>9, <1>11 DEF Copying
<1>13. end.i = Len(s) + 1 /\ K = Len(u)
  <2>1. end.i \in 1..(Len(s) + 1) /\ K + 1 \in 1..(Len(u) + 1)
    BY <1>12 DEF Matched
  <2>2. end.i = Len(s) + 1
    BY <1>0, <1>10, <2>1
  <2>3. ASSUME <<end.i, K + 1>> # <<Len(s) + 1, Len(u) + 1>> PROVE FALSE
    <3>1. end.i <= Len(s)
      BY <1>12, <2>1, <2>3 DEF Matched
    <3> QED BY <1>0, <1>10, <3>1
  <2> QED BY <1>0, <2>2, <2>3
<1>14. \A j \in 1..K : end.out[j] = u[j] /\ (u[j] = Colon => \E m \in 1..Len(s) : s[m] = Colon)
  BY <1>9, <1>11 DEF Copying
<1>15. end.out = u
  <2>1. end.out \in Seq(Unit) /\ u \in Seq(Unit)
    BY <1>10 DEF Units
  <2>2. Len(end.out) = Len(u) /\ \A j \in 1..Len(end.out) : end.out[j] = u[j]
    BY <1>11, <1>13, <1>14
  <2> QED BY <2>1, <2>2, SeqEqual
<1>16. Colon \in ToSet(u) => Colon \in ToSet(s)
  <2>1. DOMAIN u = 1..K /\ DOMAIN s = 1..Len(s)
    BY <1>13, UnitLen, LineLen
  <2> QED BY <1>14, <2>1, Zenon DEF ToSet
<1>17. Len(u) <= Len(s)
  BY <1>0, <1>12, <1>13
<1> QED BY <1>8, <1>10, <1>15, <1>16, <1>17

\* Reading the units of a text writes its bytes.
Encoding(s, u, B, st, n) ==
  /\ Along(st, Len(u), n) /\ <<Len(st.out) + 1, st.i>> \in B
  /\ \A j \in 1..Len(st.out) : st.out[j] = s[j]

\* And a step of the conversion of matched units, likewise.
LEMMA EncodingOn ==
  ASSUME NEW s \in Line, NEW u \in Units, NEW B, Matched(s, u, B, Len(s) + 1, Len(u) + 1),
         NEW st \in Wtf8States(u), NEW n \in 1..Len(u), Encoding(s, u, B, st, n - 1)
  PROVE  Encoding(s, u, B, Wtf8Step(u, st), n)
<1>1. st.ok /\ st.i \in Nat \ {0} /\ st.out \in Line /\ Len(u) \in Nat
  BY UnitLen DEF Encoding, Along, Wtf8States
<1>2. CASE st.i > Len(u)
  <2>1. Wtf8Step(u, st) = st
    BY <1>2 DEF Wtf8Step
  <2> QED BY <1>2, <2>1 DEF Encoding, Along
<1>3. CASE ~(st.i > Len(u))
  <2>1. PICK l \in 1..Len(u) : l = st.i
    BY <1>1, <1>3
  <2>2. PICK v \in Line : v = st.out
    BY <1>1
  <2>3. PICK K \in Nat : K = Len(v)
    BY LineLen
  <2>4. <<K + 1, l>> \in B
    BY <2>1, <2>2, <2>3 DEF Encoding
  <2>5. K + 1 \in 1..(Len(s) + 1) /\ l \in 1..(Len(u) + 1) /\ <<K + 1, l>> # <<Len(s) + 1, Len(u) + 1>>
    <3>1. B \subseteq (1..(Len(s) + 1)) \X (1..(Len(u) + 1))
      BY DEF Matched
    <3>2. l # Len(u) + 1
      BY <1>1
    <3> QED BY <2>4, <3>1, <3>2
  <2>6. K + 1 <= Len(s) /\ Onward(s, K + 1, u, l, B)
    BY <2>4, <2>5 DEF Matched
  <2>7. PICK cp \in Code, x \in 1..4, k \in 1..2 :
          Found(s, K + 1, cp, x) /\ Stands(u, l, cp, k) /\ <<K + 1 + x, l + k>> \in B
    BY <2>6 DEF Onward
  <2>8. Spells(s, K + 1, cp, x)
    <3>1. PICK m \in 1..Len(s) : m = K + 1
      BY <2>6, LineLen
    <3>2. Spells(s, m, cp, x)
      BY <2>7, <3>1, SpellsIt
    <3> QED BY <3>1, <3>2
  <2>9. /\ Wtf8Step(u, st) = [ok |-> TRUE, i |-> l + k, out |-> v \o Utf8(cp)]
        /\ Utf8(cp) \in Line
    <3>1. st.i \in 1..Len(u) /\ Stands(u, st.i, cp, k)
      BY <2>1, <2>7
    <3>2. /\ Wtf8Step(u, st) = [ok |-> TRUE, i |-> st.i + k, out |-> st.out \o Utf8(cp)]
          /\ Utf8(cp) \in Line
      BY <1>1, <3>1, Wtf8Goes
    <3> QED BY <2>1, <2>2, <3>2
  <2>10. Len(Utf8(cp)) = x /\ \A j \in 1..x : Utf8(cp)[j] = s[K + 1 + j - 1]
    BY <2>8 DEF Spells
  <2>11. PICK w \in Line : w = Utf8(cp)
    BY <2>9
  <2>12. PICK o \in Line : o = v \o w
    BY LineParts
  <2>13. Len(o) = K + x /\ (\A j \in 1..K : o[j] = v[j]) /\ \A j \in 1..x : o[K + j] = w[j]
    BY <2>3, <2>10, <2>11, <2>12, Joined, SMTT(60) DEF Line
  <2>14. \A j \in 1..K : v[j] = s[j]
    BY <2>2, <2>3 DEF Encoding
  <2>15. ASSUME NEW j \in 1..Len(o) PROVE o[j] = s[j]
    <3>1. CASE j <= K
      <4>1. j \in 1..K
        BY <3>1
      <4> QED BY <2>13, <2>14, <4>1
    <3>2. CASE ~(j <= K)
      <4>1. PICK y \in 1..x : j = K + y
        <5>1. j - K \in 1..x /\ j = K + (j - K)
          BY <2>13, <3>2
        <5> QED BY <5>1
      <4>2. o[j] = w[y] /\ w[y] = s[K + 1 + y - 1] /\ K + 1 + y - 1 = j
        BY <2>10, <2>11, <2>13, <4>1
      <4> QED BY <4>2
    <3> QED BY <3>1, <3>2
  <2>16. PICK to : to = [ok |-> TRUE, i |-> l + k, out |-> o]
    OBVIOUS
  <2>17. to.ok /\ to.i = l + k /\ to.out = o
    BY <2>16
  <2>18. Along(to, Len(u), n)
    <3>1. l > n - 1 /\ l + k \in Nat
      BY <1>3, <2>1 DEF Encoding, Along
    <3>2. l + k > n
      BY <3>1
    <3> QED BY <2>17, <3>1, <3>2 DEF Along
  <2>19. <<Len(o) + 1, l + k>> \in B
    <3>1. K + x + 1 = K + 1 + x
      OBVIOUS
    <3>2. Len(o) + 1 = K + 1 + x
      BY <2>13, <3>1
    <3> QED BY <2>7, <3>2
  <2>20. Encoding(s, u, B, to, n)
    BY <2>15, <2>17, <2>18, <2>19 DEF Encoding
  <2> QED BY <2>9, <2>11, <2>12, <2>16, <2>20
<1> QED BY <1>2, <1>3

\* Units that are the same text as bytes convert into those bytes.
LEMMA Wtf8Reads ==
  ASSUME NEW s \in Line, NEW u \in Units, SameText(s, u)
  PROVE  Wtf8(u) = s
<1>0. Len(u) \in Nat /\ Len(s) \in Nat
  BY LineLen, UnitLen
<1> PICK B : Matched(s, u, B, Len(s) + 1, Len(u) + 1)
  BY DEF SameText
<1>1. Encoding(s, u, B, AtStart, 0)
  <2>1. AtStart.ok /\ AtStart.i = 1 /\ AtStart.out = <<>> /\ 1 \in Nat /\ 1 > 0 /\ <<1, 1>> \in B
    BY DEF AtStart, Matched
  <2>2. Len(AtStart.out) = 0 /\ 0 + 1 = 1
    BY <2>1
  <2>3. \A j \in 1..0 : FALSE
    OBVIOUS
  <2> QED BY <2>1, <2>2, <2>3 DEF Encoding, Along
<1>2. PICK f \in [0..Len(u) -> Wtf8States(u)] :
           /\ f[0] = AtStart /\ f[Len(u)] = Wtf8Scan(u)
           /\ \A n \in 1..Len(u) : f[n] = Wtf8Step(u, f[n - 1])
  BY Wtf8Run
<1> DEFINE T == {n \in Nat : Encoding(s, u, B, f[n], n)}
<1>3. 0 \in T
  BY <1>1, <1>2
<1>4. ASSUME NEW n \in 1..Len(u), n - 1 \in T PROVE n \in T
  <2>1. Encoding(s, u, B, f[n - 1], n - 1)
    BY <1>4, Zenon
  <2>2. f[n - 1] \in Wtf8States(u) /\ n \in Nat /\ f[n] = Wtf8Step(u, f[n - 1])
    BY <1>0, <1>2
  <2>3. Encoding(s, u, B, Wtf8Step(u, f[n - 1]), n)
    BY <2>1, <2>2, EncodingOn
  <2>4. Encoding(s, u, B, f[n], n)
    BY <2>2, <2>3, Zenon
  <2> QED BY <2>2, <2>4, Zenon
<1> HIDE DEF T
<1>5. Len(u) \in T
  <2>1. \A n \in 0..Len(u) : n \in T
    BY <1>0, <1>3, <1>4, UpTo
  <2> QED BY <1>0, <2>1
<1>6. Encoding(s, u, B, Wtf8Scan(u), Len(u))
  BY <1>2, <1>5, Zenon DEF T
<1>7. Wtf8Scan(u) \in Wtf8States(u)
  BY <1>0, <1>2
<1>8. PICK end \in Wtf8States(u) : end = Wtf8Scan(u)
  BY <1>7
<1>9. Encoding(s, u, B, end, Len(u))
  BY <1>6, <1>8, Zenon
<1>10. end.i \in Nat /\ end.i > Len(u) /\ end.out \in Line
  <2>1. end.i > Len(u) \/ end.i > Len(u)
    BY <1>9 DEF Encoding, Along
  <2> QED BY <2>1 DEF Wtf8States
<1>11. PICK K \in Nat : K = Len(end.out)
  BY <1>10, LineLen
<1>12. <<K + 1, end.i>> \in B
  BY <1>9, <1>11 DEF Encoding
<1>13. K = Len(s)
  <2>1. end.i \in 1..(Len(u) + 1) /\ K + 1 \in 1..(Len(s) + 1)
    BY <1>12 DEF Matched
  <2>3. ASSUME <<K + 1, end.i>> # <<Len(s) + 1, Len(u) + 1>> PROVE FALSE
    <3>1. end.i <= Len(u)
      BY <1>12, <2>1, <2>3 DEF Matched
    <3> QED BY <1>0, <1>10, <3>1
  <2> QED BY <1>0, <2>3
<1>14. \A j \in 1..K : end.out[j] = s[j]
  BY <1>9, <1>11 DEF Encoding
<1>15. end.out = s
  <2>1. end.out \in Seq(Nat) /\ s \in Seq(Nat)
    BY <1>10 DEF Line
  <2>2. Len(end.out) = Len(s) /\ \A j \in 1..Len(end.out) : end.out[j] = s[j]
    BY <1>11, <1>13, <1>14
  <2> QED BY <2>1, <2>2, SeqEqual
<1>16. Wtf8(u) = end.out
  <2>1. Wtf8(u) = Wtf8Scan(u).out
    BY Zenon DEF Wtf8, Wtf8Scan
  <2> QED BY <1>8, <2>1
<1> QED BY <1>15, <1>16

-----------------------------------------------------------------------------
(* What a listing gathers                                                  *)

\* A set of at most one element, as what is listed of one thing found.
Few(P) == P = {} \/ \E x : P = {x}

\* There is one order of at most one thing.
LEMMA FewInOrder ==
  ASSUME NEW P, Few(P)
  PROVE  SetToSeq(P) \in Seq(P) /\ ToSet(SetToSeq(P)) = P
<1>1. CASE P = {}
  <2>1. Cardinality(P) = 0
    BY <1>1, FS_EmptySet
  <2>2. SetToSeq(P) = CHOOSE f \in [1..0 -> P] : IsInjective(f)
    BY <2>1 DEF SetToSeq
  <2> DEFINE e == [n \in 1..0 |-> n]
  <2>3. e \in [1..0 -> P] /\ IsInjective(e)
    BY DEF IsInjective
  <2>4. SetToSeq(P) \in [1..0 -> P]
    BY <2>2, <2>3
  <2>5. SetToSeq(P) \in Seq(P) /\ DOMAIN SetToSeq(P) = {}
    BY <2>4
  <2> QED BY <1>1, <2>5 DEF ToSet
<1>2. CASE \E x : P = {x}
  <2>1. PICK x : P = {x}
    BY <1>2
  <2>2. Cardinality(P) = 1
    BY <2>1, FS_Singleton
  <2>3. SetToSeq(P) = CHOOSE f \in [1..1 -> P] : IsInjective(f)
    BY <2>2 DEF SetToSeq
  <2> DEFINE e == [n \in 1..1 |-> x]
  <2>4. e \in [1..1 -> P] /\ IsInjective(e)
    BY <2>1 DEF IsInjective
  <2>5. SetToSeq(P) \in [1..1 -> P]
    BY <2>3, <2>4
  <2>6. SetToSeq(P) \in Seq(P) /\ DOMAIN SetToSeq(P) = {1} /\ SetToSeq(P)[1] = x
    <3>1. 1..1 = {1} /\ 1 \in Nat
      OBVIOUS
    <3>2. PICK t \in [1..1 -> P] : t = SetToSeq(P)
      BY <2>5
    <3>3. DOMAIN t = {1} /\ t[1] = x
      BY <2>1, <3>1
    <3>4. <<x>> \in Seq(P) /\ DOMAIN <<x>> = {1} /\ <<x>>[1] = x
      BY <2>1
    <3>5. t = <<x>>
      <4>1. PICK y \in [{1} -> P] : y = <<x>>
        BY <2>1, <3>4
      <4>2. t \in [{1} -> P] /\ t[1] = y[1]
        BY <3>1, <3>3, <3>4, <4>1
      <4>3. t = y
        BY <4>2
      <4> QED BY <4>1, <4>3
    <3> QED BY <3>2, <3>3, <3>4, <3>5
  <2> QED BY <2>1, <2>6 DEF ToSet
<1> QED BY <1>1, <1>2 DEF Few

\* What a sequence with such a set behind it holds.
LEMMA FewAdded ==
  ASSUME NEW E, NEW q \in Seq(E), NEW P, Few(P), P \subseteq E
  PROVE  q \o SetToSeq(P) \in Seq(E) /\ ToSet(q \o SetToSeq(P)) = ToSet(q) \cup P
<1>1. PICK t \in Seq(E) : t = SetToSeq(P) /\ ToSet(t) = P
  <2>1. Seq(P) \subseteq Seq(E)
    BY SeqMonotonic
  <2> QED BY <2>1, FewInOrder
<1>2. PICK K \in Nat : K = Len(q)
  BY SeqTyped
<1>3. PICK L \in Nat : L = Len(t)
  BY SeqTyped
<1>4. PICK o \in Seq(E) : o = q \o t
  BY Joined
<1>5. Len(o) = K + L /\ (\A j \in 1..K : o[j] = q[j]) /\ \A j \in 1..L : o[K + j] = t[j]
  BY <1>2, <1>3, <1>4, Joined
<1>6. DOMAIN q = 1..K /\ DOMAIN t = 1..L /\ DOMAIN o = 1..(K + L)
  BY <1>2, <1>3, <1>5, SeqTyped
<1>7. ASSUME NEW j \in 1..(K + L) PROVE o[j] \in ToSet(q) \cup ToSet(t)
  <2>1. CASE j <= K
    <3>1. j \in 1..K
      BY <2>1
    <3> QED BY <1>5, <1>6, <3>1 DEF ToSet
  <2>2. CASE ~(j <= K)
    <3>1. PICK y \in 1..L : j = K + y
      <4>1. j - K \in 1..L /\ j = K + (j - K)
        BY <2>2
      <4> QED BY <4>1
    <3> QED BY <1>5, <1>6, <3>1 DEF ToSet
  <2> QED BY <2>1, <2>2
<1>8. \A j \in 1..K : q[j] \in ToSet(o)
  <2>1. 1..K \subseteq 1..(K + L)
    OBVIOUS
  <2> QED BY <1>5, <1>6, <2>1, Zenon DEF ToSet
<1>9. \A j \in 1..L : t[j] \in ToSet(o)
  <2>1. \A j \in 1..L : K + j \in 1..(K + L)
    OBVIOUS
  <2> QED BY <1>5, <1>6, <2>1, Zenon DEF ToSet
<1>10. ToSet(o) = ToSet(q) \cup ToSet(t)
  <2>1. \A y \in ToSet(o) : y \in ToSet(q) \cup ToSet(t)
    BY <1>6, <1>7, Zenon DEF ToSet
  <2>2. \A y \in ToSet(q) : y \in ToSet(o)
    BY <1>6, <1>8, Zenon DEF ToSet
  <2>3. \A y \in ToSet(t) : y \in ToSet(o)
    BY <1>6, <1>9, Zenon DEF ToSet
  <2> QED BY <2>1, <2>2, <2>3
<1> QED BY <1>1, <1>4, <1>10

\* What is gathered, one such set after the other.
Gathering(f, P, N) ==
  f[0] = <<>> /\ (\A n \in 1..N : Few(P[n])) /\ \A n \in 1..N : f[n] = f[n - 1] \o SetToSeq(P[n])

\* A run that appends what each element adds gathers what the elements add.
LEMMA Gathered ==
  ASSUME NEW E, NEW N \in Nat, NEW f \in [0..N -> Seq(E)], NEW P \in [1..N -> SUBSET E],
         Gathering(f, P, N)
  PROVE  \A y : y \in ToSet(f[N]) <=> \E n \in 1..N : y \in P[n]
<1> DEFINE So(n) == \A y : y \in ToSet(f[n]) <=> \E k \in 1..n : y \in P[k]
           T == {n \in Nat : So(n)}
<1>1. 0 \in T
  <2>1. ToSet(<<>>) = {}
    BY DEF ToSet
  <2>2. So(0)
    BY <2>1 DEF Gathering
  <2> QED BY <2>2
<1>2. ASSUME NEW n \in 1..N, n - 1 \in T PROVE n \in T
  <2>1. So(n - 1)
    BY <1>2, Zenon
  <2>a. n - 1 \in 0..N /\ n \in Nat
    OBVIOUS
  <2>2. f[n - 1] \in Seq(E) /\ P[n] \subseteq E /\ Few(P[n])
    BY <2>a DEF Gathering
  <2>b. PICK q \in Seq(E) : q = f[n - 1]
    BY <2>2
  <2>c. PICK M \in SUBSET E : M = P[n]
    BY <2>2
  <2>3. ToSet(f[n - 1] \o SetToSeq(P[n])) = ToSet(f[n - 1]) \cup P[n]
    <3>1. Few(M) /\ M \subseteq E
      BY <2>2, <2>c
    <3> HIDE DEF T, So
    <3>2. q \o SetToSeq(M) \in Seq(E) /\ ToSet(q \o SetToSeq(M)) = ToSet(q) \cup M
      BY <3>1, FewAdded
    <3> QED BY <2>b, <2>c, <3>2, Zenon
  <2>4. f[n] = f[n - 1] \o SetToSeq(P[n])
    BY DEF Gathering
  <2>5. ToSet(f[n]) = ToSet(f[n - 1]) \cup P[n]
    BY <2>3, <2>4, Zenon
  <2>6. (1..n) = (1..(n - 1)) \cup {n}
    <3>1. \A k \in 1..n : k \in 1..(n - 1) \/ k = n
      BY <2>a
    <3>2. n \in 1..n /\ 1..(n - 1) \subseteq 1..n
      BY <2>a
    <3> QED BY <3>1, <3>2
  <2>7. So(n)
    BY <2>1, <2>5, <2>6, Zenon
  <2> QED BY <2>7, <2>a
<1> HIDE DEF T
<1>3. N \in T
  <2>1. \A n \in 0..N : n \in T
    BY <1>1, <1>2, UpTo
  <2> QED BY <2>1
<1> QED BY <1>3, Zenon DEF T

\* What list_raw adds for each stream it finds.
FoundNames(found) == {Wtf8(units) : units \in ParseStreamName(found)}
RawStep(names, found) == names \o SetToSeq(FoundNames(found))

\* The listing of all streams, as one fold.
RawOf(streams) == FoldLeft(LAMBDA names, x : RawStep(names, x), <<>>, streams)

\* What it may gather, and what it goes through.
RawGathers(E, streams) == \A n \in 1..Len(streams) : Few(FoundNames(streams[n])) /\ FoundNames(streams[n]) \subseteq E
\* And as a run of its steps.
RawRuns(E, streams) ==
  \E f \in [0..Len(streams) -> Seq(E)] :
    /\ f[0] = <<>> /\ f[Len(streams)] = RawOf(streams)
    /\ \A n \in 1..Len(streams) : f[n] = f[n - 1] \o SetToSeq(FoundNames(streams[n]))

LEMMA RawRun ==
  ASSUME NEW X, NEW streams \in Seq(X), NEW E, RawGathers(E, streams)
  PROVE  RawRuns(E, streams)
<1> DEFINE N == Len(streams)
           S == Seq(E)
           G == [p \in S \X (1..N) |-> RawStep(p[1], streams[p[2]])]
           Is(g) == g = [t \in SUBSET (1..N) |-> IF t = {} THEN <<>>
                           ELSE RawStep(g[t \ {Max(t)}], streams[Max(t)])]
           g == CHOOSE g : Is(g)
<1>1. N \in Nat /\ DOMAIN streams = 1..N
  BY SeqTyped
<1>2. RawOf(streams) = g[1..N]
  BY <1>1, Zenon DEF FoldLeft, MapThenFoldSet, RawOf
<1>3. <<>> \in S
  OBVIOUS
<1>4. \A v \in S, n \in 1..N : RawStep(v, streams[n]) \in S
  <2>1. \A v \in S, n \in 1..N : v \o SetToSeq(FoundNames(streams[n])) \in S
    BY FewAdded DEF RawGathers
  <2> QED BY <2>1 DEF RawStep
<1>5. G \in [S \X (1..N) -> S] /\ \A v \in S, n \in 1..N : G[<<v, n>>] = RawStep(v, streams[n])
  BY <1>4
<1> HIDE DEF G, S
<1>6. PICK it \in Folds(S, <<>>, N, G) : TRUE
  <2>1. N \in Nat /\ G \in [S \X (1..N) -> S]
    BY <1>1, <1>5
  <2>2. Folds(S, <<>>, N, G) # {}
    BY <1>3, <2>1, FoldExists
  <2> QED BY <2>2
<1>7. Is(it)
  <2>1. it \in [SUBSET (1..N) -> S]
    BY DEF Folds
  <2>2. \A t \in SUBSET (1..N) : t # {} => Max(t) \in 1..N
    BY <1>1, MaxOfSome
  <2>3. \A t \in SUBSET (1..N) : it[t] = IF t = {} THEN <<>>
                           ELSE RawStep(it[t \ {Max(t)}], streams[Max(t)])
    BY <1>5, <2>1, <2>2 DEF Folds
  <2> QED BY <2>1, <2>3
<1>8. Is(g)
  BY <1>7, Zenon
<1> HIDE DEF g
<1>9. Folding(S, <<>>, N, G, g)
  BY <1>1, <1>5, <1>8, MaxOfSome DEF Folding
<1> HIDE DEF Is
<1>10. PICK f \in Stepwise(S, <<>>, N, G) : f[N] = g[1..N]
  <2>1. N \in Nat /\ G \in [S \X (1..N) -> S]
    BY <1>1, <1>5
  <2>2. Ends(S, <<>>, N, G, g)
    BY <1>3, <1>9, <2>1, FoldEnds, Zenon
  <2> QED BY <2>2, Zenon DEF Ends
<1>11. /\ f \in [0..N -> S] /\ f[0] = <<>>
       /\ \A n \in 1..N : f[n] = RawStep(f[n - 1], streams[n])
  <2>1. f \in [0..N -> S] /\ f[0] = <<>> /\ \A n \in 1..N : f[n] = G[<<f[n - 1], n>>]
    BY DEF Stepwise
  <2>2. \A n \in 1..N : f[n - 1] \in S
    BY <1>1, <2>1
  <2> QED BY <1>5, <2>1, <2>2
<1>12. f \in [0..N -> Seq(E)]
  BY <1>11 DEF S
<1>13. \A n \in 1..N : f[n] = f[n - 1] \o SetToSeq(FoundNames(streams[n]))
  BY <1>11 DEF RawStep
<1> QED BY <1>2, <1>10, <1>11, <1>12, <1>13, Zenon DEF RawRuns

\* A raw listing names what the streams found are called.
LEMMA RawGathered ==
  ASSUME NEW X, NEW streams \in Seq(X), NEW E, RawGathers(E, streams)
  PROVE  /\ RawOf(streams) \in Seq(E)
         /\ \A y : y \in ToSet(RawOf(streams)) <=> \E n \in 1..Len(streams) : y \in FoundNames(streams[n])
<1>1. PICK f \in [0..Len(streams) -> Seq(E)] :
           /\ f[0] = <<>> /\ f[Len(streams)] = RawOf(streams)
           /\ \A n \in 1..Len(streams) : f[n] = f[n - 1] \o SetToSeq(FoundNames(streams[n]))
  <2>1. RawRuns(E, streams)
    BY RawRun, Zenon
  <2> QED BY <2>1, Zenon DEF RawRuns
<1> DEFINE P == [n \in 1..Len(streams) |-> FoundNames(streams[n])]
<1>2. Len(streams) \in Nat
  BY SeqTyped
<1>3. \A n \in 1..Len(streams) : P[n] = FoundNames(streams[n])
  OBVIOUS
<1>4. P \in [1..Len(streams) -> SUBSET E] /\ \A n \in 1..Len(streams) : Few(P[n])
  BY DEF RawGathers
<1> HIDE DEF P
<1>5. \A n \in 1..Len(streams) : f[n] = f[n - 1] \o SetToSeq(P[n])
  BY <1>1, <1>3
<1>6. \A y : y \in ToSet(f[Len(streams)]) <=> \E n \in 1..Len(streams) : y \in P[n]
  <2>1. Gathering(f, P, Len(streams))
    BY <1>1, <1>4, <1>5, Zenon DEF Gathering
  <2> QED BY <1>2, <1>4, <2>1, Gathered, Zenon
<1>7. f[Len(streams)] \in Seq(E)
  BY <1>2
<1> QED BY <1>1, <1>3, <1>6, <1>7

LEMMA RawIs ==
  ASSUME NEW streams
  PROVE  ListRaw(streams) = RawOf(streams)
BY Zenon DEF ListRaw, RawOf, RawStep, FoundNames

\* What pack_logical adds for each native name, and the listing of them all.
NameStep(os, r, names, native) == names \o SetToSeq(FromNative(os, native, r))

NameOf(os, r, natives) == FoldLeft(LAMBDA names, x : NameStep(os, r, names, x), <<>>, natives)

\* What it may gather, and what it goes through.
NameGathers(E, os, r, natives) == \A n \in 1..Len(natives) : Few(FromNative(os, natives[n], r)) /\ FromNative(os, natives[n], r) \subseteq E
\* That listing as a run of its steps.
NameRuns(E, os, r, natives) ==
  \E f \in [0..Len(natives) -> Seq(E)] :
    /\ f[0] = <<>> /\ f[Len(natives)] = NameOf(os, r, natives)
    /\ \A n \in 1..Len(natives) : f[n] = f[n - 1] \o SetToSeq(FromNative(os, natives[n], r))

LEMMA NameRun ==
  ASSUME NEW os, NEW r, NEW X, NEW natives \in Seq(X), NEW E, NameGathers(E, os, r, natives)
  PROVE  NameRuns(E, os, r, natives)
<1> DEFINE N == Len(natives)
           S == Seq(E)
           G == [p \in S \X (1..N) |-> NameStep(os, r, p[1], natives[p[2]])]
           Is(g) == g = [t \in SUBSET (1..N) |-> IF t = {} THEN <<>>
                           ELSE NameStep(os, r, g[t \ {Max(t)}], natives[Max(t)])]
           g == CHOOSE g : Is(g)
<1>1. N \in Nat /\ DOMAIN natives = 1..N
  BY SeqTyped
<1>2. NameOf(os, r, natives) = g[1..N]
  BY <1>1, Zenon DEF FoldLeft, MapThenFoldSet, NameOf
<1>3. <<>> \in S
  OBVIOUS
<1>4. \A v \in S, n \in 1..N : NameStep(os, r, v, natives[n]) \in S
  <2>1. \A v \in S, n \in 1..N : v \o SetToSeq(FromNative(os, natives[n], r)) \in S
    BY FewAdded DEF NameGathers
  <2> QED BY <2>1 DEF NameStep
<1>5. G \in [S \X (1..N) -> S] /\ \A v \in S, n \in 1..N : G[<<v, n>>] = NameStep(os, r, v, natives[n])
  BY <1>4
<1> HIDE DEF G, S
<1>6. PICK it \in Folds(S, <<>>, N, G) : TRUE
  <2>1. N \in Nat /\ G \in [S \X (1..N) -> S]
    BY <1>1, <1>5
  <2>2. Folds(S, <<>>, N, G) # {}
    BY <1>3, <2>1, FoldExists
  <2> QED BY <2>2
<1>7. Is(it)
  <2>1. it \in [SUBSET (1..N) -> S]
    BY DEF Folds
  <2>2. \A t \in SUBSET (1..N) : t # {} => Max(t) \in 1..N
    BY <1>1, MaxOfSome
  <2>3. \A t \in SUBSET (1..N) : it[t] = IF t = {} THEN <<>>
                           ELSE NameStep(os, r, it[t \ {Max(t)}], natives[Max(t)])
    BY <1>5, <2>1, <2>2 DEF Folds
  <2> QED BY <2>1, <2>3
<1>8. Is(g)
  BY <1>7, Zenon
<1> HIDE DEF g
<1>9. Folding(S, <<>>, N, G, g)
  BY <1>1, <1>5, <1>8, MaxOfSome DEF Folding
<1> HIDE DEF Is
<1>10. PICK f \in Stepwise(S, <<>>, N, G) : f[N] = g[1..N]
  <2>1. N \in Nat /\ G \in [S \X (1..N) -> S]
    BY <1>1, <1>5
  <2>2. Ends(S, <<>>, N, G, g)
    BY <1>3, <1>9, <2>1, FoldEnds, Zenon
  <2> QED BY <2>2, Zenon DEF Ends
<1>11. /\ f \in [0..N -> S] /\ f[0] = <<>>
       /\ \A n \in 1..N : f[n] = NameStep(os, r, f[n - 1], natives[n])
  <2>1. f \in [0..N -> S] /\ f[0] = <<>> /\ \A n \in 1..N : f[n] = G[<<f[n - 1], n>>]
    BY DEF Stepwise
  <2>2. \A n \in 1..N : f[n - 1] \in S
    BY <1>1, <2>1
  <2> QED BY <1>5, <2>1, <2>2
<1>12. f \in [0..N -> Seq(E)]
  BY <1>11 DEF S
<1>13. \A n \in 1..N : f[n] = f[n - 1] \o SetToSeq(FromNative(os, natives[n], r))
  BY <1>11 DEF NameStep
<1> QED BY <1>2, <1>10, <1>11, <1>12, <1>13, Zenon DEF NameRuns

\* A listing names what the native names are read as.
LEMMA NameGathered ==
  ASSUME NEW os, NEW r, NEW X, NEW natives \in Seq(X), NEW E, NameGathers(E, os, r, natives)
  PROVE  /\ NameOf(os, r, natives) \in Seq(E)
         /\ \A y : y \in ToSet(NameOf(os, r, natives)) <=> \E n \in 1..Len(natives) : y \in FromNative(os, natives[n], r)
<1>1. PICK f \in [0..Len(natives) -> Seq(E)] :
           /\ f[0] = <<>> /\ f[Len(natives)] = NameOf(os, r, natives)
           /\ \A n \in 1..Len(natives) : f[n] = f[n - 1] \o SetToSeq(FromNative(os, natives[n], r))
  <2>1. NameRuns(E, os, r, natives)
    BY NameRun, Zenon
  <2> QED BY <2>1, Zenon DEF NameRuns
<1> DEFINE P == [n \in 1..Len(natives) |-> FromNative(os, natives[n], r)]
<1>2. Len(natives) \in Nat
  BY SeqTyped
<1>3. \A n \in 1..Len(natives) : P[n] = FromNative(os, natives[n], r)
  OBVIOUS
<1>4. P \in [1..Len(natives) -> SUBSET E] /\ \A n \in 1..Len(natives) : Few(P[n])
  BY DEF NameGathers
<1> HIDE DEF P
<1>5. \A n \in 1..Len(natives) : f[n] = f[n - 1] \o SetToSeq(P[n])
  BY <1>1, <1>3
<1>6. \A y : y \in ToSet(f[Len(natives)]) <=> \E n \in 1..Len(natives) : y \in P[n]
  <2>1. Gathering(f, P, Len(natives))
    BY <1>1, <1>4, <1>5, Zenon DEF Gathering
  <2> QED BY <1>2, <1>4, <2>1, Gathered, Zenon
<1>7. f[Len(natives)] \in Seq(E)
  BY <1>2
<1> QED BY <1>1, <1>3, <1>6, <1>7

LEMMA ListedIs ==
  Listed = NameOf(system, raw, IF system = "windows" THEN ListRaw(content) ELSE content)
BY Zenon DEF Listed, NameOf, NameStep

-----------------------------------------------------------------------------
(* Names of streams                                                        *)

\* Units are the same after their bytes were written and read.
LEMMA UnitsKept ==
  ASSUME NEW u \in Units
  PROVE  /\ Wtf8(u) \in Line /\ SameText(Wtf8(u), u)
         /\ Utf16(Wtf8(u)).ok /\ Utf16(Wtf8(u)).out = u /\ Len(u) <= Len(Wtf8(u))
<1>1. PICK s \in Line : s = Wtf8(u) /\ SameText(s, u)
  BY Written
<1>2. Utf16(s).ok /\ Utf16(s).out = u /\ Len(u) <= Len(s)
  BY <1>1, Utf16Reads
<1> QED BY <1>1, <1>2

\* So is UTF-8 after its units were written and read.
LEMMA BytesKept ==
  ASSUME NEW s \in Line, IsUtf8(s)
  PROVE  \E u \in Units : /\ Utf16(s).ok /\ Utf16(s).out = u /\ Wtf8(u) = s /\ Len(u) <= Len(s)
                          /\ Colon \in ToSet(u) => Colon \in ToSet(s)
<1>1. PICK u \in Units : u = Utf16(s).out /\ SameText(s, u)
  BY ReadAsUnits
<1> QED BY <1>1, Utf16Reads, Wtf8Reads

\* No text is no units and no bytes.
LEMMA NothingKept == Utf16(<<>>).ok /\ Utf16(<<>>).out = <<>> /\ Wtf8(<<>>) = <<>>
<1>1. <<>> \in Line /\ <<>> \in Units /\ Len(<<>>) + 1 = 1
  BY EmptyRead
<1>2. Matched(<<>>, <<>>, {<<1, 1>>}, 1, 1)
  BY <1>1, NothingMatched
<1>3. SameText(<<>>, <<>>)
  BY <1>1, <1>2 DEF SameText
<1> QED BY <1>1, <1>3, Utf16Reads, Wtf8Reads

\* A piece of a sequence, element by element.
LEMMA PieceOf ==
  ASSUME NEW S, NEW s \in Seq(S), NEW a \in 1..(Len(s) + 1), NEW b \in (a - 1)..Len(s)
  PROVE  /\ SubSeq(s, a, b) \in Seq(S) /\ Len(SubSeq(s, a, b)) = b - a + 1
         /\ \A l \in 1..(b - a + 1) : SubSeq(s, a, b)[l] = s[a + l - 1]
<1>1. Len(s) \in Nat
  BY SeqTyped
<1> QED BY <1>1, SubSeqProperties

\* A sequence is its two pieces, one behind the other.
LEMMA Pieces ==
  ASSUME NEW S, NEW s \in Seq(S), NEW n \in 0..Len(s)
  PROVE  /\ SubSeq(s, 1, n) \in Seq(S) /\ SubSeq(s, n + 1, Len(s)) \in Seq(S)
         /\ Len(SubSeq(s, 1, n)) = n
         /\ \A j \in 1..n : SubSeq(s, 1, n)[j] = s[j]
         /\ SubSeq(s, 1, n) \o SubSeq(s, n + 1, Len(s)) = s
<1>1. PICK N \in Nat : N = Len(s)
  BY SeqTyped
<1>2. \A j \in 1..N : s[j] \in S
  BY <1>1, SeqTyped
<1>3. PICK p : p = SubSeq(s, 1, n)
  OBVIOUS
<1>4. PICK q : q = SubSeq(s, n + 1, N)
  OBVIOUS
<1>5. p \in Seq(S) /\ Len(p) = n /\ \A j \in 1..n : p[j] = s[j]
  <2>1. PICK a \in 1..(Len(s) + 1) : a = 1
    BY <1>1
  <2>2. PICK b \in (a - 1)..Len(s) : b = n
    BY <2>1
  <2>3. /\ SubSeq(s, a, b) \in Seq(S) /\ Len(SubSeq(s, a, b)) = b - a + 1
        /\ \A l \in 1..(b - a + 1) : SubSeq(s, a, b)[l] = s[a + l - 1]
    BY PieceOf
  <2>4. b - a + 1 = n /\ (\A l \in 1..n : a + l - 1 = l) /\ SubSeq(s, a, b) = p
    BY <1>3, <2>1, <2>2
  <2> QED BY <2>3, <2>4
<1>6. q \in Seq(S) /\ Len(q) = N - n /\ \A j \in 1..(N - n) : q[j] = s[n + j]
  <2>1. PICK a \in 1..(Len(s) + 1) : a = n + 1
    BY <1>1
  <2>2. PICK b \in (a - 1)..Len(s) : b = N
    BY <1>1, <2>1
  <2>3. /\ SubSeq(s, a, b) \in Seq(S) /\ Len(SubSeq(s, a, b)) = b - a + 1
        /\ \A l \in 1..(b - a + 1) : SubSeq(s, a, b)[l] = s[a + l - 1]
    BY PieceOf
  <2>4. b - a + 1 = N - n /\ (\A l \in 1..(N - n) : a + l - 1 = n + l) /\ SubSeq(s, a, b) = q
    BY <1>1, <1>4, <2>1, <2>2
  <2> QED BY <2>3, <2>4
<1>7. PICK o \in Seq(S) : o = p \o q
  BY <1>5, <1>6, Joined
<1>8. Len(o) = n + (N - n) /\ (\A j \in 1..n : o[j] = p[j]) /\ \A j \in 1..(N - n) : o[n + j] = q[j]
  <2>1. /\ Len(o) = Len(p) + Len(q) /\ (\A j \in 1..Len(p) : o[j] = p[j])
        /\ \A j \in 1..Len(q) : o[Len(p) + j] = q[j]
    <3>1. PICK x \in Seq(S) : x = p
      BY <1>5
    <3>2. PICK y \in Seq(S) : y = q
      BY <1>6
    <3>3. /\ Len(x \o y) = Len(x) + Len(y) /\ (\A j \in 1..Len(x) : (x \o y)[j] = x[j])
          /\ \A j \in 1..Len(y) : (x \o y)[Len(x) + j] = y[j]
      BY Joined
    <3> QED BY <1>7, <3>1, <3>2, <3>3
  <2> QED BY <1>5, <1>6, <2>1
<1>9. Len(o) = Len(s)
  BY <1>1, <1>8
<1>10. ASSUME NEW j \in 1..Len(o) PROVE o[j] = s[j]
  <2>1. CASE j <= n
    <3>1. j \in 1..n
      BY <2>1
    <3> QED BY <1>5, <1>8, <3>1
  <2>2. CASE ~(j <= n)
    <3>1. PICK y \in 1..(N - n) : j = n + y
      <4>1. j - n \in 1..(N - n) /\ j = n + (j - n)
        BY <1>1, <1>9, <2>2
      <4> QED BY <4>1
    <3> QED BY <1>6, <1>8, <3>1
  <2> QED BY <2>1, <2>2
<1>11. o = s
  BY <1>7, <1>9, <1>10, SeqEqual
<1> QED BY <1>1, <1>3, <1>4, <1>5, <1>6, <1>7, <1>11

\* Three parts of a name, in whatever order they are joined.
LEMMA UnitsJoined ==
  ASSUME NEW a \in Units, NEW b \in Units, NEW c \in Units
  PROVE  (a \o b) \o c = a \o (b \o c)
BY ConcatAssociative, SMTT(60) DEF Units

\* The parts that are put around the name of a stream.
LEMMA SuffixUnits ==
  /\ DataSuffix \in Units /\ Len(DataSuffix) = 6 /\ DataSuffix[1] = Colon
  /\ <<Colon>> \in Units /\ Len(<<Colon>>) = 1 /\ <<Colon>>[1] = Colon
<1>1. 58 \in Unit /\ 36 \in Unit /\ 68 \in Unit /\ 65 \in Unit /\ 84 \in Unit
  BY Ranges
<1>2. /\ <<58, 36, 68, 65, 84, 65>> \in Seq(Unit) /\ Len(<<58, 36, 68, 65, 84, 65>>) = 6
      /\ <<58, 36, 68, 65, 84, 65>>[1] = 58
  BY <1>1
<1>3. <<58>> \in Seq(Unit) /\ Len(<<58>>) = 1 /\ <<58>>[1] = 58
  BY <1>1
<1> QED BY <1>2, <1>3 DEF Units, DataSuffix, Colon

\* The first of some places in a sequence.
LEMMA MinOfSome ==
  ASSUME NEW T, T \subseteq Nat, T # {}
  PROVE  Min(T) \in T /\ \A y \in T : Min(T) <= y
<1>1. PICK m \in T : \A y \in Nat : y < m => y \notin T
  BY LeastOf
<1>2. \A y \in T : m <= y
  BY <1>1
<1>3. Min(T) = CHOOSE x \in T : \A y \in T : x <= y
  BY DEF Min
<1> QED BY <1>2, <1>3

\* A name is read from the streams that carry it, and from no others.
LEMMA Parsed ==
  ASSUME NEW found \in Units, NEW u \in ParseStreamName(found)
  PROVE  u \in Units /\ found = <<Colon>> \o u \o DataSuffix
<1> DEFINE rest == Tail(found)
           colons == {i \in DOMAIN rest : rest[i] = Colon}
           end == IF colons = {} THEN Len(rest) ELSE Min(colons) - 1
<1>1. /\ found # <<>> /\ found[1] = Colon /\ end > 0 /\ SubSeq(rest, end + 1, Len(rest)) = DataSuffix
      /\ u = SubSeq(rest, 1, end)
  BY DEF ParseStreamName, IsData, IsDataType
<1>2. PICK t \in Units : t = rest
  <2>1. Tail(found) \in Seq(Unit)
    BY <1>1, HeadTailProperties DEF Units
  <2> QED BY <2>1 DEF Units
<1>3. Len(t) \in Nat /\ DOMAIN t = 1..Len(t)
  BY UnitLen
<1>4. end \in 0..Len(t)
  <2>1. CASE colons = {}
    BY <1>2, <1>3, <2>1
  <2>2. CASE colons # {}
    <3>1. colons \subseteq 1..Len(t)
      BY <1>2, <1>3
    <3> HIDE DEF colons
    <3>2. colons \subseteq Nat
      BY <3>1
    <3>3. Min(colons) \in colons
      BY <2>2, <3>2, MinOfSome
    <3>4. Min(colons) \in 1..Len(t)
      BY <3>1, <3>3
    <3>5. Min(colons) - 1 \in 0..Len(t)
      BY <1>3, <3>4
    <3> QED BY <2>2, <3>5
  <2> QED BY <2>1, <2>2
<1>5. PICK n \in 0..Len(t) : n = end
  BY <1>4
<1> HIDE DEF end, colons
<1>6. u = SubSeq(t, 1, n) /\ SubSeq(t, n + 1, Len(t)) = DataSuffix
  BY <1>1, <1>2, <1>5
<1>7. u \in Seq(Unit) /\ u \o DataSuffix = t
  <2>1. t \in Seq(Unit)
    BY DEF Units
  <2> QED BY <1>6, <2>1, Pieces
<1>8. found = <<Colon>> \o t
  <2>1. found \in Seq(Unit) /\ <<Colon>> \in Seq(Unit) /\ t \in Seq(Unit)
    BY SuffixUnits DEF Units
  <2>2. Len(t) = Len(found) - 1 /\ \A j \in 1..Len(t) : t[j] = found[j + 1]
    BY <1>1, <1>2, <2>1, HeadTailProperties
  <2>3. PICK N \in Nat : N = Len(t)
    BY UnitLen
  <2>4. Len(found) = 1 + N
    <3>1. Len(found) \in Nat
      BY UnitLen
    <3> QED BY <2>2, <2>3, <3>1
  <2>5. PICK o \in Seq(Unit) : o = <<Colon>> \o t
    BY <2>1, Joined
  <2>6. Len(o) = 1 + N /\ o[1] = Colon /\ \A j \in 1..N : o[1 + j] = t[j]
    <3>1. 1 \in 1..1
      OBVIOUS
    <3>2. PICK c \in Seq(Unit) : c = <<Colon>> /\ Len(c) = 1 /\ c[1] = Colon
      BY <2>1, SuffixUnits
    <3>3. /\ Len(o) = Len(c) + Len(t) /\ (\A j \in 1..Len(c) : o[j] = c[j])
          /\ \A j \in 1..Len(t) : o[Len(c) + j] = t[j]
      BY <2>1, <2>5, <3>2, Joined
    <3> QED BY <2>3, <3>1, <3>2, <3>3
  <2>7. ASSUME NEW j \in 1..Len(o) PROVE o[j] = found[j]
    <3>1. CASE j = 1
      BY <1>1, <2>6, <3>1
    <3>2. CASE j # 1
      <4>1. PICK y \in 1..N : j = 1 + y /\ j = y + 1
        <5>1. j \in 1..(1 + N)
          BY <2>6
        <5>2. j - 1 \in 1..N /\ j = 1 + (j - 1) /\ j = (j - 1) + 1
          BY <3>2, <5>1
        <5> QED BY <5>2
      <4> QED BY <2>2, <2>3, <2>6, <4>1
    <3> QED BY <3>1, <3>2
  <2>8. o = found
    BY <2>1, <2>4, <2>6, <2>7, SeqEqual
  <2> QED BY <2>5, <2>8
<1>9. <<Colon>> \o u \o DataSuffix = <<Colon>> \o (u \o DataSuffix)
  <2>1. PICK c \in Seq(Unit) : c = <<Colon>>
    BY SuffixUnits DEF Units
  <2>2. PICK d \in Seq(Unit) : d = DataSuffix
    BY SuffixUnits DEF Units
  <2>3. (c \o u) \o d = c \o (u \o d)
    <3>1. c \in Units /\ u \in Units /\ d \in Units
      BY <1>7 DEF Units
    <3> QED BY <3>1, UnitsJoined, SMTT(60)
  <2> QED BY <2>1, <2>2, <2>3
<1> QED BY <1>7, <1>8, <1>9 DEF Units

\* And from every stream that carries one.
LEMMA ParsesBack ==
  ASSUME NEW u \in Units, u # <<>>, Colon \notin ToSet(u)
  PROVE  /\ ParseStreamName((<<Colon>> \o u) \o DataSuffix) = {u}
         /\ (<<Colon>> \o u) \o DataSuffix \in Units
<1>1. PICK c \in Seq(Unit) : c = <<Colon>> /\ Len(c) = 1 /\ c[1] = Colon
  BY SuffixUnits DEF Units
<1>2. PICK d \in Seq(Unit) : d = DataSuffix /\ Len(d) = 6 /\ d[1] = Colon
  BY SuffixUnits DEF Units
<1>3. u \in Seq(Unit)
  BY DEF Units
<1>4. PICK t \in Seq(Unit) : t = u \o d
  BY <1>3, Joined
<1>5. PICK found \in Seq(Unit) : found = c \o t
  BY Joined
<1>6. (<<Colon>> \o u) \o DataSuffix = found
  <2>1. (c \o u) \o d = c \o (u \o d)
    <3>1. c \in Units /\ u \in Units /\ d \in Units
      BY <1>3 DEF Units
    <3> QED BY <3>1, UnitsJoined
  <2> QED BY <1>1, <1>2, <1>4, <1>5, <2>1
<1>7. PICK K \in Nat : K = Len(u)
  BY UnitLen
<1>8. /\ Len(t) = K + 6 /\ (\A j \in 1..K : t[j] = u[j]) /\ t[K + 1] = Colon
  <2>1. /\ Len(u \o d) = Len(u) + Len(d) /\ (\A j \in 1..Len(u) : (u \o d)[j] = u[j])
        /\ \A j \in 1..Len(d) : (u \o d)[Len(u) + j] = d[j]
    BY <1>3, Joined
  <2>2. 1 \in 1..6
    OBVIOUS
  <2>3. t[K + 1] = d[1]
    BY <1>2, <1>4, <1>7, <2>1, <2>2
  <2> QED BY <1>2, <1>4, <1>7, <2>1, <2>3
<1>9. DOMAIN t = 1..(K + 6)
  BY <1>8, SeqTyped
<1>10. K > 0
  <2>1. CASE K = 0
    <3>1. u = <<>>
      BY <1>3, <1>7, <2>1, EmptySeq
    <3> QED BY <3>1
  <2> QED BY <2>1
<1>11. /\ found # <<>> /\ found[1] = Colon /\ Tail(found) = t
  <2>1. /\ Len(c \o t) = Len(c) + Len(t) /\ (\A j \in 1..Len(c) : (c \o t)[j] = c[j])
        /\ \A j \in 1..Len(t) : (c \o t)[Len(c) + j] = t[j]
    BY Joined
  <2>2. 1 \in 1..1
    OBVIOUS
  <2>3. Len(found) = 1 + (K + 6) /\ found[1] = Colon /\ \A j \in 1..(K + 6) : found[1 + j] = t[j]
    BY <1>1, <1>5, <1>8, <2>1, <2>2
  <2>4. found # <<>>
    <3>1. Len(<<>>) = 0
      OBVIOUS
    <3>2. 1 + (K + 6) # 0
      OBVIOUS
    <3> QED BY <2>3, <3>1, <3>2
  <2>5. /\ Tail(found) \in Seq(Unit) /\ Len(Tail(found)) = Len(found) - 1
        /\ \A j \in 1..Len(Tail(found)) : Tail(found)[j] = found[j + 1]
    BY <2>4, HeadTailProperties
  <2>6. PICK x \in Seq(Unit) : x = Tail(found)
    BY <2>5
  <2>7. Len(x) = K + 6 /\ \A j \in 1..(K + 6) : x[j] = found[j + 1]
    BY <2>3, <2>5, <2>6
  <2>8. \A j \in 1..(K + 6) : j + 1 = 1 + j
    OBVIOUS
  <2>9. \A j \in 1..(K + 6) : x[j] = t[j]
    BY <2>3, <2>7, <2>8
  <2>10. x = t
    BY <1>8, <2>7, <2>9, SeqEqual
  <2> QED BY <2>3, <2>4, <2>6, <2>10
<1> DEFINE colons == {i \in DOMAIN t : t[i] = Colon}
<1>12. colons # {} /\ Min(colons) = K + 1
  <2>1. K + 1 \in colons
    BY <1>8, <1>9
  <2>2. \A i \in colons : i \in 1..(K + 6) /\ t[i] = Colon
    BY <1>9
  <2>3. ASSUME NEW i \in 1..K PROVE t[i] # Colon
    <3>1. u[i] \in ToSet(u)
      BY <1>7, UnitLen DEF ToSet
    <3> QED BY <1>8, <3>1
  <2> HIDE DEF colons
  <2>4. colons \subseteq Nat
    BY <2>2
  <2>5. Min(colons) \in colons /\ \A y \in colons : Min(colons) <= y
    BY <2>1, <2>4, MinOfSome
  <2>6. PICK m \in 1..(K + 6) : m = Min(colons) /\ t[m] = Colon /\ m <= K + 1
    BY <2>1, <2>2, <2>5
  <2>7. m = K + 1
    <3>1. ~(m \in 1..K)
      BY <2>3, <2>6
    <3> QED BY <2>6, <3>1
  <2> QED BY <2>1, <2>6, <2>7
<1>13. SubSeq(t, 1, K) = u /\ SubSeq(t, K + 1, Len(t)) = d
  <2>1. u \in Seq(Int) /\ d \in Seq(Int)
    <3>1. \A x \in Unit : x \in Int
      BY Ranges
    <3>2. Seq(Unit) \subseteq Seq(Int)
      BY <3>1, SeqMonotonic
    <3> QED BY <1>3, <3>2
  <2> QED BY <1>4, <1>7, <2>1, StripsPrefix
<1>14. ParseStreamName(found) = {u}
  <2> DEFINE rest == Tail(found)
             places == {i \in DOMAIN rest : rest[i] = Colon}
             end == IF places = {} THEN Len(rest) ELSE Min(places) - 1
  <2>1. rest = t /\ places = colons
    BY <1>11
  <2>2. end = K
    <3>1. K + 1 - 1 = K
      OBVIOUS
    <3>2. places # {} /\ Min(places) = K + 1
      BY <1>12, <2>1
    <3> HIDE DEF colons, places, rest
    <3>3. end = Min(places) - 1
      BY <3>2
    <3> QED BY <3>1, <3>2, <3>3
  <2>3. ParseStreamName(found)
        = IF found # <<>> /\ found[1] = Colon /\ end > 0 /\ IsData(SubSeq(rest, end + 1, Len(rest)))
          THEN {SubSeq(rest, 1, end)} ELSE {}
    BY Zenon DEF ParseStreamName
  <2>4. IsData(SubSeq(t, K + 1, Len(t)))
    BY <1>2, <1>13 DEF IsData, IsDataType
  <2> HIDE DEF rest, end
  <2> QED BY <1>10, <1>11, <1>13, <2>1, <2>2, <2>3, <2>4
<1> QED BY <1>6, <1>14 DEF Units

\* What the logical grammar and the raw mode promise of a name.
LEMMA LogicalName ==
  ASSUME NEW s \in Line, ValidateLogical(s) = {}
  PROVE  /\ s # <<>> /\ Len(s) <= 127 /\ IsUtf8(s) /\ Colon \notin ToSet(s)
         /\ \A j \in DOMAIN s : s[j] \notin ControlChars \cup ForbiddenChars
<1>1. s # <<>>
  BY DEF ValidateLogical
<1>2. Len(s) <= MaxLogicalLen
  <2>1. CASE Len(s) > MaxLogicalLen
    <3>1. ValidateLogical(s) = {"TooLong"}
      BY <1>1, <2>1, LineLen DEF ValidateLogical, MaxLogicalLen
    <3> QED BY <3>1
  <2> QED BY <2>1, LineLen DEF MaxLogicalLen
<1>3. Len(s) \in 1..MaxLogicalLen
  <2>1. Len(s) # 0
    BY <1>1, EmptySeq DEF Line
  <2>2. PICK n \in Nat : n = Len(s)
    BY LineLen
  <2>3. n \in 1..127
    <3>1. n <= 127 /\ n # 0
      BY <1>2, <2>1, <2>2 DEF MaxLogicalLen
    <3> HIDE <1>2, <2>1, <2>2
    <3> QED BY <3>1
  <2> QED BY <2>2, <2>3 DEF MaxLogicalLen
<1>4. BadBytes(s) = {}
  <2>1. CASE BadBytes(s) # {}
    <3>1. ValidateLogical(s) = IF s[Min(BadBytes(s))] \in ControlChars THEN {"ControlChar"} ELSE {"ForbiddenChar"}
      BY <1>1, <1>2, <1>3, <2>1 DEF ValidateLogical
    <3> QED BY <3>1
  <2> QED BY <2>1
<1>5. IsUtf8(s)
  <2>1. CASE ~IsUtf8(s)
    <3>1. ValidateLogical(s) = {"NotUtf8"}
      BY <1>1, <1>2, <1>4, <2>1 DEF ValidateLogical
    <3> QED BY <3>1
  <2> QED BY <2>1
<1>6. Colon \notin ToSet(s)
  <2>1. Colon \in ControlChars \cup ForbiddenChars
    BY DEF Colon, ForbiddenChars, WindowsInjectionChars
  <2>2. \A j \in DOMAIN s : s[j] # Colon
    BY <1>4, <2>1 DEF BadBytes
  <2> QED BY <2>2 DEF ToSet
<1> QED BY <1>1, <1>2, <1>4, <1>5, <1>6 DEF MaxLogicalLen, BadBytes

\* What a name that is taken to Windows is.
LEMMA WindowsName ==
  ASSUME NEW s \in Line, NEW r, NEW native \in ToNative("windows", s, r)
  PROVE  /\ native = s /\ s # <<>> /\ Len(s) <= 255 /\ IsUtf8(s) /\ Colon \notin ToSet(s)
         /\ FromNative("windows", s, r) = {s}
<1>1. CASE r
  <2>1. AcceptsRaw("windows", s) /\ native = s
    BY <1>1 DEF ToNative
  <2>2. Len(s) \in 1..255
    BY <2>1 DEF AcceptsRaw, MaxNativeLen
  <2>3. IsUtf8(s) /\ ToSet(s) \cap WindowsInjectionChars = {}
    BY <2>1 DEF AcceptsRaw
  <2>4. Colon \notin ToSet(s)
    BY <2>3 DEF Colon, WindowsInjectionChars
  <2>5. s # <<>> /\ Len(s) <= 255
    <3>1. Len(<<>>) = 0
      OBVIOUS
    <3>2. PICK n \in 1..255 : n = Len(s)
      BY <2>2
    <3>3. n # 0 /\ n <= 255
      OBVIOUS
    <3> QED BY <3>1, <3>2, <3>3
  <2>6. FromNative("windows", s, r) = {s}
    BY <1>1 DEF FromNative
  <2> HIDE <2>2
  <2> QED BY <2>1, <2>3, <2>4, <2>5, <2>6
<1>2. CASE ~r
  <2>1. ValidateLogical(s) = {} /\ native = s
    BY <1>2 DEF ToNative, Stored
  <2>2. s # <<>> /\ Len(s) <= 127 /\ IsUtf8(s) /\ Colon \notin ToSet(s)
    BY <2>1, LogicalName
  <2>3. FromNative("windows", s, r) = {s}
    BY <1>2, <2>1 DEF FromNative, Unprefixed
  <2>4. Len(s) <= 255
    BY <2>2, LineLen
  <2> QED BY <2>1, <2>2, <2>3, <2>4
<1> QED BY <1>1, <1>2

\* What comes of a text is units, whatever the text.
LEMMA UnitsTyped ==
  ASSUME NEW s \in Line
  PROVE  Utf16(s).out \in Units
<1>1. PICK f \in [0..Len(s) -> Utf16States(s)] : f[Len(s)] = Utf16(s)
  BY Utf16Run
<1>2. Utf16(s) \in Utf16States(s)
  BY <1>1, LineLen
<1> QED BY <1>2 DEF Utf16States

\* The units that a path and a name open, if there is room for both.
LEMMA Opened ==
  ASSUME NEW p, NEW s, StreamPath(p, s).status = "OK"
  PROVE  StreamPath(p, s).units = Utf16(p).out \o <<Colon>> \o Utf16(s).out
<1>1. PICK q : q = Utf16(p)
  OBVIOUS
<1>2. PICK n : n = Utf16(s)
  OBVIOUS
<1>3. PICK w : w = q.out \o <<Colon>> \o n.out
  OBVIOUS
<1>4. StreamPath(p, s)
      = IF ~q.ok \/ Len(q.out) + 1 >= MaxWPath THEN [status |-> "InvalidPath", units |-> <<>>]
        ELSE IF ~n.ok \/ Len(w) > MaxWPath THEN [status |-> "InvalidName", units |-> <<>>]
        ELSE [status |-> "OK", units |-> w]
  BY <1>1, <1>2, <1>3, Zenon DEF StreamPath
<1>5. StreamPath(p, s).units = w
  BY <1>4
<1> QED BY <1>1, <1>2, <1>3, <1>5, Zenon

\* What follows the path in the units that are opened.
LEMMA Behind ==
  ASSUME NEW p \in Units, NEW x \in Units, NEW y \in Units, p \o x = p \o y
  PROVE  x = y
<1>1. Units \subseteq Seq(Int)
  <2>1. \A k \in Unit : k \in Int
    BY Ranges
  <2> QED BY <2>1, SeqMonotonic DEF Units
<1>2. PICK all : all = p \o x
  OBVIOUS
<1>3. x = SubSeq(all, Len(p) + 1, Len(all))
  BY <1>1, <1>2, StripsPrefix
<1>4. y = SubSeq(all, Len(p) + 1, Len(all))
  BY <1>1, <1>2, StripsPrefix
<1> QED BY <1>3, <1>4

\* A name opens the stream that carries it, and no other.
LEMMA OpensIts ==
  ASSUME NEW p \in Line, NEW s \in Line, StreamPath(p, s).status = "OK", NEW found \in Units
  PROVE  StreamPath(p, s).units \o DataSuffix = Utf16(p).out \o found
         <=> found = (<<Colon>> \o Utf16(s).out) \o DataSuffix
<1>1. PICK q \in Units : q = Utf16(p).out
  BY UnitsTyped
<1>2. PICK u \in Units : u = Utf16(s).out
  BY UnitsTyped
<1>3. PICK colon \in Units : colon = <<Colon>>
  BY SuffixUnits
<1>4. PICK suffix \in Units : suffix = DataSuffix
  BY SuffixUnits
<1>5. PICK m \in Units : m = colon \o u
  BY Joined DEF Units
<1>6. PICK y \in Units : y = m \o suffix
  BY Joined DEF Units
<1>7. (q \o colon) \o u = q \o m
  <2>1. (q \o colon) \o u = q \o (colon \o u)
    <3>1. q \in Units /\ colon \in Units /\ u \in Units
      OBVIOUS
    <3> QED BY <3>1, UnitsJoined, SMTT(60)
  <2> QED BY <1>5, <2>1, Zenon
<1>8. (q \o m) \o suffix = q \o y
  <2>1. (q \o m) \o suffix = q \o (m \o suffix)
    <3>1. q \in Units /\ m \in Units /\ suffix \in Units
      OBVIOUS
    <3> QED BY <3>1, UnitsJoined, SMTT(60)
  <2> QED BY <1>6, <2>1, Zenon
<1>9. StreamPath(p, s).units = (q \o colon) \o u
  BY <1>1, <1>2, <1>3, Opened
<1>10. StreamPath(p, s).units \o DataSuffix = q \o y
  BY <1>4, <1>7, <1>8, <1>9
<1>11. q \o y = q \o found <=> found = y
  BY Behind
<1> QED BY <1>1, <1>2, <1>3, <1>4, <1>5, <1>6, <1>10, <1>11

-----------------------------------------------------------------------------
(* What a name reaches and what is listed                                  *)

\* Reached and Listed, by the path, the system, the mode and the content.
SpeltOn(p, os, called, r) == {StreamPath(p, native) : native \in ToNative(os, called, r)}
TooFarOn(p, os, called, r) ==
  IF os = "windows" THEN {spelt.status : spelt \in SpeltOn(p, os, called, r)} \ {"OK"} ELSE {}
ReachedOn(p, os, called, r, held) ==
  {found \in ToSet(held) :
     IF os = "windows"
     THEN \E spelt \in SpeltOn(p, os, called, r) :
            spelt.status = "OK" /\ spelt.units \o DataSuffix = Utf16(p).out \o found
     ELSE found \in ToNative(os, called, r)}
ListedOn(os, r, held) == NameOf(os, r, IF os = "windows" THEN ListRaw(held) ELSE held)
\* The listed names that calls take back.
TakenBack(p, os, listed, r) == ~(r /\ ~AcceptsRaw(os, listed)) /\ TooFarOn(p, os, listed, r) = {}
\* What a path can hold on a system.
Held(os) == Seq(IF os = "windows" THEN Seq(Unit) ELSE Seq(0..255))

LEMMA BytesAreLines == Seq(0..255) \subseteq Line
<1>1. 0..255 \subseteq Nat
  OBVIOUS
<1> QED BY <1>1, SeqMonotonic DEF Line

\* A name is listed if it is the name of something there.
LEMMA NamesListed ==
  ASSUME NEW os, NEW r, NEW natives \in Seq(Line), NEW y
  PROVE  y \in ToSet(NameOf(os, r, natives)) <=> \E n \in 1..Len(natives) : y \in FromNative(os, natives[n], r)
<1> DEFINE E == UNION {FromNative(os, natives[n], r) : n \in 1..Len(natives)}
<1>1. ASSUME NEW native PROVE Few(FromNative(os, native, r))
  <2>1. CASE r
    BY <2>1 DEF FromNative, Few
  <2>2. CASE ~r
    <3>1. Few(Unprefixed(os, native))
      BY DEF Unprefixed, Few
    <3> QED BY <2>2, <3>1 DEF FromNative, Few
  <2> QED BY <2>1, <2>2
<1>2. NameGathers(E, os, r, natives)
  BY <1>1 DEF NameGathers
<1> HIDE DEF E
<1> QED BY <1>2, NameGathered

\* A stream is listed raw if it is a data stream with a name.
LEMMA StreamsListed ==
  ASSUME NEW held \in Seq(Units)
  PROVE  /\ ListRaw(held) \in Seq(Line)
         /\ \A y : y \in ToSet(ListRaw(held))
                   <=> \E n \in 1..Len(held) : \E u \in ParseStreamName(held[n]) : y = Wtf8(u)
<1>1. ASSUME NEW found \in Units PROVE Few(FoundNames(found)) /\ FoundNames(found) \subseteq Line
  <2>1. Few(ParseStreamName(found))
    BY DEF ParseStreamName, Few
  <2>2. Few(FoundNames(found))
    <3>1. CASE ParseStreamName(found) = {}
      <4>1. FoundNames(found) = {}
        BY <3>1 DEF FoundNames
      <4> QED BY <4>1 DEF Few
    <3>2. ASSUME NEW x, ParseStreamName(found) = {x} PROVE Few(FoundNames(found))
      <4>1. FoundNames(found) = {Wtf8(x)}
        BY <3>2 DEF FoundNames
      <4> QED BY <4>1 DEF Few
    <3> QED BY <2>1, <3>1, <3>2 DEF Few
  <2>3. \A u \in ParseStreamName(found) : Wtf8(u) \in Line
    BY Parsed, UnitsKept
  <2> QED BY <2>2, <2>3 DEF FoundNames
<1>2. \A n \in 1..Len(held) : held[n] \in Units
  BY SeqTyped
<1>3. RawGathers(Line, held)
  BY <1>1, <1>2 DEF RawGathers
<1>4. /\ RawOf(held) \in Seq(Line)
      /\ \A y : y \in ToSet(RawOf(held)) <=> \E n \in 1..Len(held) : y \in FoundNames(held[n])
  BY <1>3, RawGathered
<1>5. ListRaw(held) = RawOf(held)
  BY RawIs
<1> QED BY <1>4, <1>5 DEF FoundNames

\* A listing names what is there.
LEMMA WindowsReaches ==
  ASSUME NEW p \in Line, NEW held \in Seq(Units), NEW r,
         NEW listed \in ToSet(ListedOn("windows", r, held)), TakenBack(p, "windows", listed, r)
  PROVE  \E found \in ToSet(held) : ReachedOn(p, "windows", listed, r, held) = {found}
<1>1. PICK natives \in Seq(Line) : natives = ListRaw(held)
  BY StreamsListed
<1>2. PICK n \in 1..Len(natives) : listed \in FromNative("windows", natives[n], r)
  BY <1>1, NamesListed DEF ListedOn
<1>3. listed = natives[n] /\ ToNative("windows", listed, r) = {listed}
  <2>1. CASE r
    BY <1>2, <2>1 DEF FromNative, ToNative, TakenBack
  <2>2. CASE ~r
    BY <1>2, <2>2 DEF FromNative, Unprefixed, ToNative, Stored
  <2> QED BY <2>1, <2>2
<1>4. natives[n] \in ToSet(natives) /\ listed \in Line
  BY <1>3, SeqTyped DEF ToSet
<1>5. PICK k \in 1..Len(held) : \E u \in ParseStreamName(held[k]) : listed = Wtf8(u)
  BY <1>1, <1>3, <1>4, StreamsListed
<1>6. held[k] \in Units /\ held[k] \in ToSet(held)
  BY SeqTyped DEF ToSet
<1>7. PICK u \in Units : listed = Wtf8(u) /\ held[k] = (<<Colon>> \o u) \o DataSuffix
  BY <1>5, <1>6, Parsed
<1>8. Utf16(listed).out = u
  BY <1>7, UnitsKept
<1>9. SpeltOn(p, "windows", listed, r) = {StreamPath(p, listed)}
  BY <1>3 DEF SpeltOn
<1>10. StreamPath(p, listed).status = "OK"
  <2>1. StreamPath(p, listed).status \in {spelt.status : spelt \in SpeltOn(p, "windows", listed, r)}
    BY <1>9
  <2> QED BY <2>1 DEF TakenBack, TooFarOn
<1>11. ASSUME NEW found \in ToSet(held)
       PROVE  found \in ReachedOn(p, "windows", listed, r, held) <=> found = held[k]
  <2>1. found \in Units
    BY SeqTyped DEF ToSet
  <2>2. StreamPath(p, listed).units \o DataSuffix = Utf16(p).out \o found <=> found = held[k]
    <3>1. (<<Colon>> \o Utf16(listed).out) \o DataSuffix = held[k]
      BY <1>7, <1>8, Zenon
    <3>2. StreamPath(p, listed).units \o DataSuffix = Utf16(p).out \o found
          <=> found = (<<Colon>> \o Utf16(listed).out) \o DataSuffix
      BY <1>4, <1>10, <2>1, OpensIts, Zenon
    <3> QED BY <3>1, <3>2, Zenon
  <2>3. found \in ReachedOn(p, "windows", listed, r, held)
        <=> StreamPath(p, listed).units \o DataSuffix = Utf16(p).out \o found
    BY <1>9, <1>10, Zenon DEF ReachedOn
  <2> QED BY <2>2, <2>3
<1>12. ReachedOn(p, "windows", listed, r, held) \subseteq ToSet(held)
  BY DEF ReachedOn
<1>13. ReachedOn(p, "windows", listed, r, held) = {held[k]}
  BY <1>6, <1>11, <1>12
<1> QED BY <1>6, <1>13

\* And on the systems that keep the native name as it is.
LEMMA PosixReaches ==
  ASSUME NEW p, NEW os, os # "windows", NEW held \in Seq(Line), NEW r,
         NEW listed \in ToSet(ListedOn(os, r, held)), TakenBack(p, os, listed, r)
  PROVE  \E found \in ToSet(held) : ReachedOn(p, os, listed, r, held) = {found}
<1>1. PICK n \in 1..Len(held) : listed \in FromNative(os, held[n], r)
  BY NamesListed DEF ListedOn
<1>2. PICK native \in Line : native = held[n] /\ native \in ToSet(held)
  BY SeqTyped DEF ToSet
<1>3. CASE r
  <2>1. ToNative(os, listed, r) = {native}
    BY <1>1, <1>2, <1>3 DEF FromNative, ToNative, TakenBack
  <2> QED BY <1>2, <2>1 DEF ReachedOn
<1>4. CASE ~r
  <2>1. listed \in Unprefixed(os, native) /\ ValidateLogical(listed) = {}
    BY <1>1, <1>2, <1>4 DEF FromNative
  <2>2. Stored(os, listed) = native
    <3>1. CASE os = "linux"
      <4>1. /\ Len(native) >= Len(LinuxUserPrefix)
            /\ SubSeq(native, 1, Len(LinuxUserPrefix)) = LinuxUserPrefix
            /\ listed = SubSeq(native, Len(LinuxUserPrefix) + 1, Len(native))
        BY <2>1, <3>1 DEF Unprefixed
      <4>2. Len(LinuxUserPrefix) \in Nat
        BY DEF LinuxUserPrefix
      <4>3. PICK k \in 0..Len(native) : k = Len(LinuxUserPrefix)
        <5>1. Len(native) \in Nat
          BY LineLen
        <5>2. Len(native) >= Len(LinuxUserPrefix)
          BY <4>1
        <5> QED BY <4>2, <5>1, <5>2
      <4>4. SubSeq(native, 1, k) \o SubSeq(native, k + 1, Len(native)) = native
        BY Pieces DEF Line
      <4> QED BY <3>1, <4>1, <4>3, <4>4 DEF Stored
    <3>2. CASE os # "linux"
      BY <2>1, <3>2 DEF Unprefixed, Stored
    <3> QED BY <3>1, <3>2
  <2>3. ToNative(os, listed, r) = {native}
    BY <1>4, <2>1, <2>2 DEF ToNative
  <2> QED BY <1>2, <2>3 DEF ReachedOn
<1> QED BY <1>3, <1>4

\* So on every system.
LEMMA Reaches ==
  ASSUME NEW p \in Line, NEW os, NEW held \in Held(os), NEW r,
         NEW listed \in ToSet(ListedOn(os, r, held)), TakenBack(p, os, listed, r)
  PROVE  \E found \in ToSet(held) : ReachedOn(p, os, listed, r, held) = {found}
<1>1. CASE os = "windows"
  <2>1. held \in Seq(Units)
    BY <1>1 DEF Held, Units
  <2> QED BY <1>1, <2>1, WindowsReaches
<1>2. CASE os # "windows"
  <2>1. held \in Seq(Line)
    <3>1. held \in Seq(Seq(0..255))
      BY <1>2 DEF Held
    <3> QED BY <3>1, BytesAreLines, SeqMonotonic
  <2> QED BY <1>2, <2>1, PosixReaches
<1> QED BY <1>1, <1>2

\* What a name reaches is listed under that name.
LEMMA WindowsLists ==
  ASSUME NEW p \in Line, NEW held \in Seq(Units), NEW r, NEW called \in Line,
         NEW found \in ReachedOn(p, "windows", called, r, held)
  PROVE  called \in ToSet(ListedOn("windows", r, held))
<1>1. PICK native \in ToNative("windows", called, r) :
        /\ StreamPath(p, native).status = "OK"
        /\ StreamPath(p, native).units \o DataSuffix = Utf16(p).out \o found
  BY DEF ReachedOn, SpeltOn
<1>2. /\ native = called /\ called # <<>> /\ Len(called) <= 255 /\ IsUtf8(called)
      /\ Colon \notin ToSet(called) /\ FromNative("windows", called, r) = {called}
  BY WindowsName
<1>3. PICK u \in Units : /\ Utf16(called).ok /\ Utf16(called).out = u /\ Wtf8(u) = called
                         /\ Len(u) <= Len(called) /\ (Colon \in ToSet(u) => Colon \in ToSet(called))
  BY <1>2, BytesKept
<1>4. u # <<>> /\ Colon \notin ToSet(u)
  <2>1. u # <<>>
    BY <1>2, <1>3, NothingKept
  <2>2. ~(Colon \in ToSet(u))
    BY <1>2, <1>3
  <2> QED BY <2>1, <2>2
<1>5. found \in ToSet(held) /\ found \in Units
  <2>1. found \in ToSet(held)
    BY DEF ReachedOn
  <2> QED BY <2>1, SeqTyped DEF ToSet
<1>6. found = (<<Colon>> \o u) \o DataSuffix
  BY <1>1, <1>2, <1>3, <1>5, OpensIts
<1>7. ParseStreamName(found) = {u}
  BY <1>4, <1>6, ParsesBack
<1>8. PICK k \in 1..Len(held) : held[k] = found
  BY <1>5, SeqTyped DEF ToSet
<1>9. called \in ToSet(ListRaw(held))
  <2>1. \E w \in ParseStreamName(held[k]) : called = Wtf8(w)
    BY <1>3, <1>7, <1>8
  <2> QED BY <2>1, StreamsListed
<1>10. PICK natives \in Seq(Line) : natives = ListRaw(held)
  BY StreamsListed
<1>11. PICK n \in 1..Len(natives) : natives[n] = called
  BY <1>9, <1>10, SeqTyped DEF ToSet
<1>12. called \in ToSet(NameOf("windows", r, natives))
  <2>1. called \in FromNative("windows", natives[n], r)
    BY <1>2, <1>11
  <2> QED BY <2>1, NamesListed
<1> QED BY <1>10, <1>12 DEF ListedOn

\* And on the systems that keep the native name as it is.
LEMMA PosixLists ==
  ASSUME NEW p, NEW os \in System, os # "windows", NEW held \in Seq(Line), NEW r \in BOOLEAN,
         NEW called \in Line, NEW found \in ReachedOn(p, os, called, r, held)
  PROVE  called \in ToSet(ListedOn(os, r, held))
<1>1. found \in ToNative(os, called, r) /\ found \in ToSet(held)
  BY DEF ReachedOn
<1>2. called \in FromNative(os, found, r)
  <2>1. CASE r
    BY <1>1, <2>1 DEF ToNative, FromNative
  <2>2. CASE ~r
    <3>1. called \in Seq(Int)
      <4>1. Nat \subseteq Int
        OBVIOUS
      <4> QED BY <4>1, SeqMonotonic DEF Line
    <3>2. found \in ToNative(os, called, FALSE)
      BY <1>1, <2>2
    <3>3. FromNative(os, found, FALSE) = {called}
      BY <3>1, <3>2, NamesBijection
    <3> QED BY <2>2, <3>3
  <2> QED BY <2>1, <2>2
<1>3. PICK k \in 1..Len(held) : held[k] = found
  BY <1>1, SeqTyped DEF ToSet
<1>4. called \in ToSet(NameOf(os, r, held))
  BY <1>2, <1>3, NamesListed
<1> QED BY <1>4 DEF ListedOn

\* So on every system.
LEMMA Lists ==
  ASSUME NEW p \in Line, NEW os \in System, NEW held \in Held(os), NEW r \in BOOLEAN,
         NEW called \in Line, ReachedOn(p, os, called, r, held) # {}
  PROVE  called \in ToSet(ListedOn(os, r, held))
<1>1. PICK found : found \in ReachedOn(p, os, called, r, held)
  OBVIOUS
<1>2. CASE os = "windows"
  <2>1. held \in Seq(Units)
    BY <1>2 DEF Held, Units
  <2> QED BY <1>1, <1>2, <2>1, WindowsLists
<1>3. CASE os # "windows"
  <2>1. held \in Seq(Line)
    <3>1. held \in Seq(Seq(0..255))
      BY <1>3 DEF Held
    <3> QED BY <3>1, BytesAreLines, SeqMonotonic
  <2> QED BY <1>1, <1>3, <2>1, PosixLists
<1> QED BY <1>2, <1>3

-----------------------------------------------------------------------------
(* Listings                                                                *)

\* What the last listing returned is what there is to list, if it succeeded.
ListInv ==
  /\ path \in Paths /\ name \in CallNames /\ raw \in BOOLEAN
  /\ last.call = "list" => last.names = IF last.status = "OK" THEN Listed ELSE <<>>

\* It holds at first,
LEMMA ListInit == Init => ListInv
BY DEF Init, ListInv

\* What there is to list, by the system, the mode and the content, now and after the step.
LEMMA ListedNow == Listed = ListedOn(system, raw, content)
BY ListedIs DEF ListedOn

LEMMA ListedNext == Listed' = ListedOn(system', raw', content')
<1>1. (Listed = ListedOn(system, raw, content))'
  BY ListedNow, PTL
<1> QED BY <1>1

\* and after every step, since no call changes what is on the path.
LEMMA ListStep == ListInv /\ [Next]_vars => ListInv'
<1> SUFFICES ASSUME ListInv, [Next]_vars PROVE ListInv'
  OBVIOUS
<1>1. UNCHANGED world
  BY DEF Next, XsGet, XsList, XsBufferFree, Plain, XsNativeName, XsValidateName, vars
<1>2. path' = path /\ name' = name /\ raw' = raw
  BY <1>1 DEF world
<1>3. Listed' = Listed
  <2>1. system' = system /\ content' = content
    BY <1>2 DEF system, content
  <2> QED BY <1>2, <2>1, ListedNow, ListedNext
<1>4. path' \in Paths /\ name' \in CallNames /\ raw' \in BOOLEAN
  BY <1>2 DEF ListInv
<1>5. CASE last' = last
  <2>1. last'.call = "list" => last'.names = IF last'.status = "OK" THEN Listed' ELSE <<>>
    BY <1>3, <1>5 DEF ListInv
  <2> QED BY <1>4, <2>1 DEF ListInv
<1>6. CASE last'.call # "list"
  BY <1>4, <1>6 DEF ListInv
<1>7. ASSUME NEW call, NEW status, NEW nulls, NEW names, Call(call, status, nulls, names)
      PROVE  last'.call = call /\ last'.status = status /\ last'.names = names
  BY <1>7 DEF Call
<1>8. ASSUME NEW h \in Handles, XsList(h) PROVE ListInv'
  <2>1. PICK nulls \in Nulls(Pointers("list")) :
          \E status \in Returns("list", nulls) :
            IF status = "OK" THEN Call("list", status, nulls, Listed)
            ELSE Call("list", status, nulls, <<>>)
    BY <1>8 DEF XsList
  <2>2. PICK status \in Returns("list", nulls) :
          IF status = "OK" THEN Call("list", status, nulls, Listed)
          ELSE Call("list", status, nulls, <<>>)
    BY <2>1
  <2>3. last'.status = status /\ last'.names = IF status = "OK" THEN Listed ELSE <<>>
    BY <1>7, <2>2
  <2>4. last'.names = IF last'.status = "OK" THEN Listed' ELSE <<>>
    BY <1>3, <2>3
  <2> QED BY <1>4, <2>4 DEF ListInv
<1>9. ASSUME NEW h \in Handles, XsGet(h) \/ XsBufferFree(h) PROVE ListInv'
  BY <1>6, <1>7, <1>9 DEF XsGet, XsBufferFree
<1>10. ASSUME NEW call \in Calls \ {"get", "list"}, Plain(call) PROVE ListInv'
  BY <1>6, <1>7, <1>10 DEF Plain
<1>11. CASE XsNativeName
  <2>1. last'.call = "native_name"
    BY <1>11 DEF XsNativeName
  <2> QED BY <1>6, <2>1
<1>12. CASE XsValidateName
  BY <1>6, <1>7, <1>12 DEF XsValidateName
<1> QED BY <1>5, <1>8, <1>9, <1>10, <1>11, <1>12 DEF Next, vars

\* What is on the path is spelt the way of its system.
LEMMA ContentTyped ==
  ASSUME path \in Paths
  PROVE  system \in System /\ content \in Held(system) /\ SpellingOf(path) \in Line
<1>1. SpellingOf(path) \in Seq(0..255)
  BY PathsAssumption
<1> QED BY <1>1, PathsAssumption, BytesAreLines DEF system, content, Held

LEMMA ReachedNow ==
  ASSUME NEW called
  PROVE  /\ Reached(called) = ReachedOn(SpellingOf(path), system, called, raw, content)
         /\ TooFar(called) = TooFarOn(SpellingOf(path), system, called, raw)
BY DEF Reached, ReachedOn, TooFar, TooFarOn, Opens, Spelt, SpeltOn

\* Every name a listing returns reaches the attribute it was read from and no
\* other, whatever is on the path and whatever system it is on (names.rs,
\* windows.rs: from_native and to_native, parse_stream_name and stream_path, and
\* the two conversions between WTF-8 and UTF-16 undo one another); in raw mode
\* but for the names no call takes back, on Windows but for those the path
\* leaves no room.
THEOREM ListedReached == Spec => []ListedReachable
<1>1. ListInv => ListedReachable
  <2> SUFFICES ASSUME ListInv, last.call = "list", NEW listed \in ToSet(last.names),
                      ~(raw /\ ~AcceptsRaw(system, listed)), TooFar(listed) = {}
               PROVE  \E found \in ToSet(content) : Reached(listed) = {found}
    BY DEF ListedReachable
  <2>1. last.status = "OK" /\ last.names = Listed
    <3>1. ToSet(<<>>) = {}
      BY DEF ToSet
    <3> QED BY <3>1 DEF ListInv
  <2>2. listed \in ToSet(ListedOn(system, raw, content))
    BY <2>1, ListedNow
  <2>3. content \in Held(system) /\ SpellingOf(path) \in Line
    BY ContentTyped DEF ListInv
  <2>4. TakenBack(SpellingOf(path), system, listed, raw)
    BY ReachedNow DEF TakenBack
  <2>5. \E found \in ToSet(content) :
          ReachedOn(SpellingOf(path), system, listed, raw, content) = {found}
    BY <2>2, <2>3, <2>4, Reaches
  <2> QED BY <2>5, ReachedNow
<1> QED BY <1>1, ListInit, ListStep, PTL DEF Spec

\* And the other way round: what a name reaches, in either mode, the listing has
\* under that name.
THEOREM ReachedListed == Spec => []ReachableListed
<1>1. ListInv => ReachableListed
  <2> SUFFICES ASSUME ListInv, last.call = "list", last.status = "OK", Reached(name) # {}
               PROVE  name \in ToSet(last.names)
    BY DEF ReachableListed
  <2>1. last.names = Listed
    BY DEF ListInv
  <2>2. Listed = ListedOn(system, raw, content)
    BY ListedNow
  <2>3. system \in System /\ content \in Held(system) /\ SpellingOf(path) \in Line
    BY ContentTyped DEF ListInv
  <2>4. name \in Line
    BY AbiAssumption, BytesAreLines DEF ListInv
  <2>5. ReachedOn(SpellingOf(path), system, name, raw, content) # {}
    BY ReachedNow
  <2>6. name \in ToSet(ListedOn(system, raw, content))
    BY <2>3, <2>4, <2>5, Lists DEF ListInv
  <2> QED BY <2>1, <2>2, <2>6
<1> QED BY <1>1, ListInit, ListStep, PTL DEF Spec

-----------------------------------------------------------------------------
(* What xs_native_name writes                                              *)

\* A native name is raw text of its own system, and the name it came from.
LEMMA NativeText ==
  ASSUME NEW os \in System, NEW called \in Line, NEW r, NEW native \in ToNative(os, called, r)
  PROVE  /\ native \in Line /\ Nul \notin ToSet(native) /\ AcceptsRaw(os, native)
         /\ FromNative(os, native, r) = {called} /\ ToNative(os, called, r) = {native}
<1>1. CASE r
  <2>1. native = called /\ AcceptsRaw(os, native)
    BY <1>1 DEF ToNative
  <2> QED BY <1>1, <2>1 DEF ToNative, FromNative, AcceptsRaw
<1>2. CASE ~r
  <2>1. ValidateLogical(called) = {} /\ native = Stored(os, called)
    BY <1>2 DEF ToNative
  <2>2. /\ called # <<>> /\ Len(called) <= 127 /\ IsUtf8(called)
        /\ \A j \in DOMAIN called : called[j] \notin ControlChars \cup ForbiddenChars
    BY <2>1, LogicalName
  <2>3. called \in Seq(Int)
    <3>1. Nat \subseteq Int
      OBVIOUS
    <3> QED BY <3>1, SeqMonotonic DEF Line
  <2>4. FromNative(os, native, r) = {called}
    <3>1. native \in ToNative(os, called, FALSE)
      BY <2>1 DEF ToNative
    <3>2. FromNative(os, native, FALSE) = {called}
      BY <2>3, <3>1, NamesBijection
    <3> QED BY <1>2, <3>2 DEF FromNative
  <2>5. ToSet(called) \cap (ControlChars \cup ForbiddenChars) = {}
    BY <2>2 DEF ToSet
  <2>6. Len(called) \in 1..127
    <3>1. PICK n \in Nat : n = Len(called)
      BY LineLen
    <3>2. n # 0 /\ n <= 127
      BY <2>2, <3>1, EmptySeq DEF Line
    <3>3. n \in 1..127
      BY <3>2
    <3> QED BY <3>1, <3>3
  <2>7. Nul \in ControlChars
    BY DEF Nul, ControlChars
  <2>8. AcceptsRaw(os, native) /\ native \in Line
    <3>1. CASE os = "linux"
      <4>1. PICK p \in Line : /\ p = LinuxUserPrefix /\ Len(p) = 5
                              /\ \A j \in 1..5 : p[j] # Nul
        <5>1. LinuxUserPrefix \in Seq(Nat) /\ Len(LinuxUserPrefix) = 5
          BY DEF LinuxUserPrefix
        <5>2. \A j \in 1..5 : LinuxUserPrefix[j] # Nul
          BY DEF LinuxUserPrefix, Nul
        <5> QED BY <5>1, <5>2 DEF Line
      <4>2. native = p \o called
        BY <2>1, <3>1, <4>1 DEF Stored
      <4>3. /\ native \in Line /\ Len(native) = 5 + Len(called)
            /\ \A j \in 1..5 : native[j] = p[j]
            /\ \A j \in 1..Len(called) : native[5 + j] = called[j]
        <5>1. /\ p \o called \in Seq(Nat) /\ Len(p \o called) = Len(p) + Len(called)
              /\ \A j \in 1..Len(p) : (p \o called)[j] = p[j]
              /\ \A j \in 1..Len(called) : (p \o called)[Len(p) + j] = called[j]
          BY Joined DEF Line
        <5> QED BY <4>1, <4>2, <5>1, Zenon DEF Line
      <4>4. ASSUME NEW j \in 1..Len(native) PROVE native[j] # Nul
        <5>1. CASE j <= 5
          <6>1. j \in 1..5
            BY <5>1
          <6> QED BY <4>1, <4>3, <6>1
        <5>2. CASE ~(j <= 5)
          <6>1. PICK m \in 1..Len(called) : j = 5 + m
            <7>1. j - 5 \in 1..Len(called) /\ j = 5 + (j - 5)
              BY <2>6, <4>3, <5>2
            <7> QED BY <7>1
          <6>2. called[m] # Nul
            BY <2>2, <2>7, LineLen
          <6> QED BY <4>3, <6>1, <6>2
        <5> QED BY <5>1, <5>2
      <4>5. Nul \notin ToSet(native)
        BY <4>3, <4>4, LineLen DEF ToSet
      <4>6. Len(native) \in 1..255
        <5>1. PICK n \in 1..127 : n = Len(called)
          BY <2>6
        <5>2. 5 + n \in 1..255
          OBVIOUS
        <5> QED BY <4>3, <5>1, <5>2
      <4> QED BY <3>1, <4>3, <4>5, <4>6 DEF AcceptsRaw, MaxNativeLen
    <3>2. CASE os # "linux"
      <4>1. native = called
        BY <2>1, <3>2 DEF Stored
      <4>2. Len(native) \in 1..MaxNativeLen(os)
        <5>1. PICK n \in 1..127 : n = Len(called)
          BY <2>6
        <5>2. n \in 1..127 /\ n \in 1..255
          OBVIOUS
        <5>3. MaxNativeLen(os) \in {127, 255}
          BY DEF MaxNativeLen
        <5> QED BY <4>1, <5>1, <5>2, <5>3
      <4>3. Nul \notin ToSet(native) /\ ToSet(native) \cap WindowsInjectionChars = {}
        BY <2>5, <2>7, <4>1 DEF ForbiddenChars
      <4> QED BY <2>2, <4>1, <4>2, <4>3 DEF AcceptsRaw
    <3> QED BY <3>1, <3>2
  <2>9. ToNative(os, called, r) = {native}
    BY <1>2, <2>1 DEF ToNative
  <2> QED BY <2>4, <2>8, <2>9 DEF AcceptsRaw
<1> QED BY <1>1, <1>2

\* The text that was copied with its NUL is the C string in the memory.
LEMMA StringCopied ==
  ASSUME NEW text \in Line, Nul \notin ToSet(text), NEW room \in Nat, Len(text) + 1 <= room
  PROVE  Nul \in ToSet(CopiedTo(text, room)) /\ CString(CopiedTo(text, room)) = text
<1>1. PICK n \in Nat : n = Len(text)
  BY LineLen
<1>2. /\ Append(text, Nul)[n + 1] = Nul
      /\ \A j \in 1..n : Append(text, Nul)[j] = text[j]
  <2>1. Nul \in Nat
    BY DEF Nul
  <2> QED BY <1>1, <2>1, AppendProperties DEF Line
<1>3. PICK bytes : bytes = CopiedTo(text, room)
  OBVIOUS
<1>4. /\ DOMAIN bytes = 1..room /\ bytes = [j \in 1..room |-> bytes[j]]
      /\ \A j \in 1..room : bytes[j] = IF j <= n + 1 THEN Append(text, Nul)[j] ELSE Unwritten
  BY <1>1, <1>3 DEF CopiedTo
<1>5. \A j \in 1..n : bytes[j] = text[j] /\ text[j] \in Nat /\ text[j] # Nul
  <2> SUFFICES ASSUME NEW j \in 1..n PROVE bytes[j] = text[j] /\ text[j] \in Nat /\ text[j] # Nul
    OBVIOUS
  <2>1. j \in 1..room /\ j <= n + 1
    BY <1>1
  <2>2. text[j] \in Nat /\ text[j] # Nul
    BY <1>1, LineLen DEF ToSet
  <2> QED BY <1>2, <1>4, <2>1, <2>2
<1>6. n + 1 \in 1..room /\ bytes[n + 1] = Nul
  BY <1>1, <1>2, <1>4
<1>7. \A j \in 1..room : bytes[j] = Nul => j >= n + 1
  <2> SUFFICES ASSUME NEW j \in 1..room, j <= n PROVE bytes[j] # Nul
    OBVIOUS
  <2>1. j \in 1..n
    OBVIOUS
  <2> QED BY <1>5, <2>1
<1> DEFINE nuls == {j \in DOMAIN bytes : bytes[j] = Nul}
<1>8. Min(nuls) = n + 1
  <2>1. nuls \subseteq Nat /\ n + 1 \in nuls /\ \A j \in nuls : j >= n + 1
    BY <1>4, <1>6, <1>7
  <2> HIDE DEF nuls
  <2>2. Min(nuls) \in nuls /\ \A y \in nuls : Min(nuls) <= y
    BY <2>1, MinOfSome
  <2>3. Min(nuls) \in Nat /\ Min(nuls) <= n + 1 /\ Min(nuls) >= n + 1
    BY <2>1, <2>2
  <2> QED BY <2>3
<1>9. bytes \in Seq(Nat)
  <2>1. \A j \in 1..room : bytes[j] \in Nat
    <3> SUFFICES ASSUME NEW j \in 1..room PROVE bytes[j] \in Nat
      OBVIOUS
    <3>1. CASE j <= n
      <4>1. j \in 1..n
        BY <3>1
      <4> QED BY <1>5, <4>1
    <3>2. CASE j = n + 1
      BY <1>6, <3>2 DEF Nul
    <3>3. CASE j > n + 1
      BY <1>4, <3>3 DEF Unwritten
    <3> QED BY <3>1, <3>2, <3>3
  <2>2. bytes \in [1..room -> Nat]
    BY <1>4, <2>1
  <2> QED BY <2>2, SeqDef
<1>10. Len(bytes) = room
  BY <1>4, <1>9, LenProperties
<1>11. SubSeq(bytes, 1, n) = text
  <2>1. n \in 0..Len(bytes)
    BY <1>1, <1>10
  <2>2. PICK head : head = SubSeq(bytes, 1, n)
    OBVIOUS
  <2>3. head \in Seq(Nat) /\ Len(head) = n /\ \A j \in 1..n : head[j] = bytes[j]
    BY <1>9, <2>1, <2>2, Pieces
  <2>4. \A j \in 1..n : head[j] = text[j]
    BY <1>5, <2>3
  <2>5. head = text
    BY <1>1, <2>3, <2>4, SeqEqual DEF Line
  <2> QED BY <2>2, <2>5
<1>12. CString(bytes) = text
  <2>1. Min(nuls) - 1 = n
    BY <1>8
  <2>2. CString(bytes) = SubSeq(bytes, 1, Min(nuls) - 1)
    BY Zenon DEF CString
  <2> QED BY <1>11, <2>1, <2>2, Zenon
<1>13. Nul \in ToSet(bytes)
  BY <1>4, <1>6 DEF ToSet
<1> QED BY <1>3, <1>12, <1>13

\* What NativeReadsBack needs: the name stays one the program may pass, on a path there is.
NamesInv ==
  /\ path \in Paths /\ name \in CallNames /\ raw \in BOOLEAN
  /\ NativeReadsBack

LEMMA NameReadsBack ==
  ASSUME NamesInv, XsNativeName
  PROVE  NativeReadsBack'
<1>1. PICK nulls \in Nulls({"out", "name", "out_len"}), room \in Rooms :
        LET native == ToNative(system, name, raw)
            status == IF "out_len" \in nulls THEN "InvalidArgument"
                      ELSE IF "name" \in nulls \/ native = {} THEN "InvalidName"
                      ELSE IF ~Fits(TheOnly(native), room) THEN "BufferTooSmall"
                      ELSE IF "out" \in nulls THEN "InvalidArgument" ELSE "OK"
        IN last' = [call |-> "native_name", status |-> status, nulls |-> nulls,
                    taken |-> "name" \notin nulls /\ native # {},
                    names |-> IF status = "OK" THEN <<CopiedTo(TheOnly(native), room)>> ELSE <<>>]
  BY DEF XsNativeName
<1>2. UNCHANGED world
  BY DEF XsNativeName
<1>3. path' = path /\ name' = name /\ raw' = raw /\ system' = system
  BY <1>2 DEF world, system
<1> DEFINE text == TheOnly(ToNative(system, name, raw))
<1> SUFFICES ASSUME last'.status = "OK"
             PROVE  LET bytes == last'.names[1]
                    IN /\ Nul \in ToSet(bytes)
                       /\ FromNative(system, CString(bytes), raw) = {name}
                       /\ ToNative(system, CString(bytes), TRUE) = ToNative(system, name, raw)
  BY <1>3 DEF NativeReadsBack
<1>4. /\ ToNative(system, name, raw) # {} /\ Fits(text, room)
      /\ last'.names = <<CopiedTo(text, room)>>
  BY <1>1
<1>5. text \in ToNative(system, name, raw)
  BY <1>4 DEF TheOnly
<1>6. system \in System /\ name \in Line /\ raw \in BOOLEAN
  BY ContentTyped, AbiAssumption, BytesAreLines DEF NamesInv
<1>7. /\ text \in Line /\ Nul \notin ToSet(text) /\ FromNative(system, text, raw) = {name}
      /\ ToNative(system, name, raw) = {text} /\ ToNative(system, text, TRUE) = {text}
  <2> HIDE DEF text
  <2>1. /\ text \in Line /\ Nul \notin ToSet(text) /\ AcceptsRaw(system, text)
        /\ FromNative(system, text, raw) = {name} /\ ToNative(system, name, raw) = {text}
    BY <1>5, <1>6, NativeText
  <2>2. ToNative(system, text, TRUE) = {text}
    BY <2>1 DEF ToNative
  <2> QED BY <2>1, <2>2
<1> HIDE DEF text
<1>8. room \in Nat /\ Len(text) + 1 <= room
  BY <1>4, AbiAssumption DEF Fits, FitsWithNul
<1>9. Nul \in ToSet(CopiedTo(text, room)) /\ CString(CopiedTo(text, room)) = text
  BY <1>7, <1>8, StringCopied
<1>10. last'.names[1] = CopiedTo(text, room)
  BY <1>4
<1> QED BY <1>7, <1>9, <1>10

\* Whatever else is called leaves the name, and writes none.
LEMMA NamesStep == NamesInv /\ [Next]_vars => NamesInv'
<1> SUFFICES ASSUME NamesInv, [Next]_vars PROVE NamesInv'
  OBVIOUS
<1>1. UNCHANGED world
  BY DEF Next, XsGet, XsList, XsBufferFree, Plain, XsNativeName, XsValidateName, vars
<1>2. path' = path /\ name' = name /\ raw' = raw /\ system' = system
  BY <1>1 DEF world, system
<1>3. CASE last' = last
  BY <1>2, <1>3 DEF NamesInv, NativeReadsBack
<1>4. CASE last'.call # "native_name"
  BY <1>2, <1>4 DEF NamesInv, NativeReadsBack
<1>5. ASSUME NEW call, NEW status, NEW nulls, NEW names, Call(call, status, nulls, names),
             call # "native_name"
      PROVE  last'.call # "native_name"
  BY <1>5 DEF Call
<1>6. CASE XsNativeName
  BY <1>2, <1>6, NameReadsBack DEF NamesInv
<1>7. ASSUME NEW h \in Handles, XsGet(h) \/ XsList(h) \/ XsBufferFree(h) PROVE NamesInv'
  BY <1>4, <1>5, <1>7 DEF XsGet, XsList, XsBufferFree
<1>8. ASSUME NEW call \in Calls, Plain(call) PROVE NamesInv'
  <2>1. call # "native_name"
    BY DEF Calls
  <2> QED BY <1>4, <1>5, <1>8, <2>1 DEF Plain
<1>9. CASE XsValidateName
  BY <1>4, <1>5, <1>9 DEF XsValidateName
<1> QED BY <1>3, <1>6, <1>7, <1>8, <1>9 DEF Next, vars

\* What xs_native_name leaves in a caller's memory of any size is a C string that
\* ends within it and is its own native name: it reads back as the name that was
\* passed, and the raw mode takes it to the same attribute, on every system
\* (ffi.rs, xs_native_name; names.rs, to_native and from_native).
THEOREM NativeNamesReadBack == Spec => []NativeReadsBack
<1>1. Init => NamesInv
  BY DEF Init, NamesInv, NativeReadsBack
<1>2. NamesInv => NativeReadsBack
  BY DEF NamesInv
<1> QED BY <1>1, <1>2, NamesStep, PTL DEF Spec
=============================================================================
