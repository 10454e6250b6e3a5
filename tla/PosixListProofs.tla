--------------------------- MODULE PosixListProofs ---------------------------
(***************************************************************************)
(* A listing is one the path had, whatever the attributes, their lengths   *)
(* and the system calls that fail, and list gives up for the reasons it    *)
(* states.                                                                 *)
(***************************************************************************)
EXTENDS PosixList, TLAPS, FiniteSetTheorems

-----------------------------------------------------------------------------
(* Counting                                                                *)

\* Induction over the natural numbers, for a set of them: were n the first
\* number missing, adding one would map what is below n into itself without
\* reaching 0.
LEMMA Induction ==
  ASSUME NEW U, 0 \in U, \A n \in U \cap Nat : n + 1 \in U
  PROVE  Nat \subseteq U
<1> SUFFICES ASSUME NEW n \in Nat, n \notin U PROVE FALSE
  OBVIOUS
<1> DEFINE below == U \cap (0..n)
           next == [k \in below |-> k + 1]
<1>1. IsFiniteSet(below)
  <2>1. IsFiniteSet(0..n) /\ below \in SUBSET (0..n)
    BY FS_Interval
  <2> QED BY <2>1, FS_Subset
<1>2. \A k \in below : k + 1 \in below \ {0} /\ k \in Int
  OBVIOUS
<1>3. next \in Injection(below, below \ {0})
  BY <1>2 DEF Injection, IsInjective
<1>4. /\ IsFiniteSet(below \ {0})
      /\ Cardinality(below \ {0}) = Cardinality(below) - 1
  <2>1. 0 \in below
    OBVIOUS
  <2> QED BY <1>1, <2>1, FS_RemoveElement
<1>5. Cardinality(below) <= Cardinality(below \ {0}) /\ Cardinality(below) \in Nat
  BY <1>1, <1>3, <1>4, FS_Injection, FS_CardinalityType
<1> QED BY <1>4, <1>5

LEMMA OneLess ==
  ASSUME NEW T, NEW x \in T, IsFiniteSet(T), NEW k \in Nat, Cardinality(T) = k + 1
  PROVE  Cardinality(T \ {x}) = k
<1>1. Cardinality(T \ {x}) = Cardinality(T) - 1
  BY FS_RemoveElement
<1> QED BY <1>1

\* Some name of a set that is not empty comes after all others.
HasLast(S) == \E m \in S : \A n \in S : Rank[n] <= Rank[m]

LEMMA LastExists ==
  ASSUME NEW S \in SUBSET Names, S # {}
  PROVE  HasLast(S)
<1> DEFINE U == {k \in Nat : \A T \in SUBSET Names : T # {} /\ Cardinality(T) = k => HasLast(T)}
<1>1. \A T \in SUBSET Names : IsFiniteSet(T) /\ Cardinality(T) \in Nat
  BY ListAssumption, FS_Subset, FS_CardinalityType
<1>2. 0 \in U
  BY <1>1, FS_EmptySet
<1>3. ASSUME NEW k \in U \cap Nat PROVE k + 1 \in U
  <2> SUFFICES ASSUME NEW T \in SUBSET Names, T # {}, Cardinality(T) = k + 1
               PROVE  HasLast(T)
    OBVIOUS
  <2>1. PICK x \in T : TRUE
    OBVIOUS
  <2>2. Rank[x] \in Nat
    BY ListAssumption
  <2>3. CASE T \ {x} = {}
    BY <2>1, <2>2, <2>3 DEF HasLast
  <2>4. CASE T \ {x} # {}
    <3>1. Cardinality(T \ {x}) = k
      BY <1>1, OneLess
    <3>2. HasLast(T \ {x})
      BY <2>4, <3>1
    <3>3. PICK m \in T \ {x} : \A n \in T \ {x} : Rank[n] <= Rank[m]
      BY <3>2 DEF HasLast
    <3>4. Rank[m] \in Nat
      BY ListAssumption
    <3>5. CASE Rank[x] <= Rank[m]
      BY <3>3, <3>5 DEF HasLast
    <3>6. CASE Rank[m] <= Rank[x]
      <4>1. \A n \in T : Rank[n] \in Nat
        BY ListAssumption
      <4>2. \A n \in T : Rank[n] <= Rank[x]
        BY <2>2, <3>3, <3>4, <3>6, <4>1
      <4> QED BY <2>1, <4>2 DEF HasLast
    <3> QED BY <2>2, <3>4, <3>5, <3>6
  <2> QED BY <2>3, <2>4
<1> HIDE DEF U
<1>4. Nat \subseteq U
  BY <1>2, <1>3, Induction
<1>5. Cardinality(S) \in U
  BY <1>1, <1>4
<1> QED BY <1>5 DEF U

\* A listing of each name once has every name.
LEMMA ListsAll ==
  ASSUME NEW S \in SUBSET Names, NEW listing \in SetToSeqs(S)
  PROVE  /\ ToSet(listing) = S
         /\ DOMAIN listing = 1..Cardinality(S)
         /\ \A i \in DOMAIN listing : listing[i] \in S
<1> DEFINE D == 1..Cardinality(S)
<1>1. IsFiniteSet(S) /\ Cardinality(S) \in Nat
  BY ListAssumption, FS_Subset, FS_CardinalityType
<1>2. IsFiniteSet(D) /\ Cardinality(D) = Cardinality(S)
  BY <1>1, FS_Interval
<1>3. listing \in [D -> S] /\ \A i, j \in D : i # j => listing[i] # listing[j]
  BY DEF SetToSeqs
<1> HIDE DEF D
<1>4. listing \in Injection(D, S)
  BY <1>3 DEF Injection, IsInjective
<1>5. listing \in Surjection(D, S)
  BY <1>1, <1>2, <1>4, FS_Injection
<1>6. ToSet(listing) = S
  BY <1>3, <1>5 DEF Surjection, ToSet
<1> QED BY <1>3, <1>6 DEF D

\* Every set of names can be sorted: its last name after the others, sorted.
Sortable(S) == \E sorted \in SetToSeqs(S) : Ascending(sorted)

LEMMA SortExists ==
  ASSUME NEW S \in SUBSET Names
  PROVE  Sortable(S)
<1> DEFINE U == {k \in Nat : \A T \in SUBSET Names : Cardinality(T) = k => Sortable(T)}
<1>1. \A T \in SUBSET Names : IsFiniteSet(T) /\ Cardinality(T) \in Nat
  BY ListAssumption, FS_Subset, FS_CardinalityType
<1>2. 0 \in U
  <2> SUFFICES ASSUME NEW T \in SUBSET Names, Cardinality(T) = 0 PROVE Sortable(T)
    OBVIOUS
  <2> DEFINE nothing == [i \in 1..0 |-> i]
  <2>1. nothing \in SetToSeqs(T) /\ Ascending(nothing)
    BY DEF SetToSeqs, Ascending
  <2> QED BY <2>1 DEF Sortable
<1>3. ASSUME NEW k \in U \cap Nat PROVE k + 1 \in U
  <2> SUFFICES ASSUME NEW T \in SUBSET Names, Cardinality(T) = k + 1
               PROVE  Sortable(T)
    OBVIOUS
  <2>1. T # {}
    BY FS_EmptySet
  <2>2. PICK last \in T : \A n \in T : Rank[n] <= Rank[last]
    BY <2>1, LastExists DEF HasLast
  <2> DEFINE rest == T \ {last}
  <2>3. Cardinality(rest) = k /\ rest \in SUBSET Names
    BY <1>1, OneLess
  <2>4. PICK sorted \in SetToSeqs(rest) : Ascending(sorted)
    BY <2>3 DEF Sortable
  <2>5. /\ sorted \in [1..k -> rest]
        /\ \A i, j \in 1..k : i # j => sorted[i] # sorted[j]
        /\ \A i, j \in 1..k : i < j => Rank[sorted[i]] < Rank[sorted[j]]
    BY <2>3, <2>4 DEF SetToSeqs, Ascending
  <2> DEFINE all == [i \in 1..(k + 1) |-> IF i = k + 1 THEN last ELSE sorted[i]]
  <2>6. /\ DOMAIN all = 1..(k + 1) /\ all[k + 1] = last
        /\ \A i \in 1..(k + 1) : i # k + 1 => i \in 1..k /\ all[i] = sorted[i] /\ all[i] \in rest
    BY <2>5
  <2>7. all \in [1..(k + 1) -> T]
    BY <2>5
  <2> HIDE DEF all
  <2>8. \A i, j \in 1..(k + 1) : i # j => all[i] # all[j]
    BY <2>5, <2>6
  <2>9. \A n \in rest : Rank[n] < Rank[last]
    BY <2>2, ListAssumption
  <2>10. \A i, j \in 1..(k + 1) : i < j => Rank[all[i]] < Rank[all[j]]
    <3> SUFFICES ASSUME NEW i \in 1..(k + 1), NEW j \in 1..(k + 1), i < j
                 PROVE  Rank[all[i]] < Rank[all[j]]
      OBVIOUS
    <3>1. i # k + 1 /\ i \in Int /\ j \in Int
      OBVIOUS
    <3>2. CASE j = k + 1
      BY <2>6, <2>9, <3>1, <3>2
    <3>3. CASE j # k + 1
      BY <2>5, <2>6, <3>1, <3>3
    <3> QED BY <3>2, <3>3
  <2>11. all \in SetToSeqs(T)
    BY <2>7, <2>8 DEF SetToSeqs
  <2>12. Ascending(all)
    BY <2>6, <2>10 DEF Ascending
  <2> QED BY <2>11, <2>12 DEF Sortable
<1> HIDE DEF U
<1>4. Nat \subseteq U
  BY <1>2, <1>3, Induction
<1>5. Cardinality(S) \in U
  BY <1>1, <1>4
<1> QED BY <1>5 DEF U

\* pack_logical: the addressable names of what it is given, all of them and no
\* other, in bytewise order.
THEOREM PacksInOrder ==
  ASSUME NEW mode, NEW raw, ToSet(raw) \subseteq Names
  PROVE  /\ Ascending(PackLogical(mode, raw))
         /\ ToSet(PackLogical(mode, raw)) = {n \in ToSet(raw) : Addressable(mode, n)}
<1> DEFINE shown == {n \in ToSet(raw) : Addressable(mode, n)}
<1>1. shown \in SUBSET Names
  OBVIOUS
<1>2. \E sorted \in SetToSeqs(shown) : Ascending(sorted)
  BY <1>1, SortExists DEF Sortable
<1>3. PackLogical(mode, raw) \in SetToSeqs(shown) /\ Ascending(PackLogical(mode, raw))
  BY <1>2 DEF PackLogical
<1> QED BY <1>1, <1>3, ListsAll

-----------------------------------------------------------------------------
(* A call                                                                  *)

Active == pc \in {"first", "sizeQuery", "sizedRead"}

\* The second call of list_raw is made with the length of a list the path has
\* had; if it has another by now, that is a change more than the attempts that
\* failed.
Measured ==
  pc = "sizedRead" =>
    \E S \in seen \ {Gone} :
      expected = Size(S) /\ (S = present \/ churn >= attempt + 1)

\* The history is kept, and each attempt that failed has a change of its own.
Inv ==
  /\ present \in Contents /\ seen \subseteq Contents
  /\ pc \in {"idle", "first", "sizeQuery", "sizedRead", "done"}
  /\ Active => present \in seen
  /\ attempt \in Nat /\ churn \in 0..MaxAttempts
  /\ Active => attempt < MaxAttempts /\ attempt <= churn
  /\ pc = "idle" => attempt = 0 /\ churn = 0
  /\ Measured
  /\ FailureHolds
  /\ Implementation = "rust" => ListingHolds

LEMMA InitInv == Init => Inv
BY ListAssumption DEF Init, Inv, Active, Measured, FailureHolds, ListingHolds

\* What the kernel answers of the attributes that are there.
LEMMA KernelAnswers ==
  ASSUME present \in Contents, NEW room \in Nat, NEW k \in ListXattr(room)
  PROVE  /\ k.errno = "SUCCESS" => present # Gone /\ k.got = Size(present) /\ present \subseteq Names
         /\ k.errno = "SUCCESS" /\ room = 0 => k.data = <<>>
         /\ k.errno = "SUCCESS" /\ room # 0 => k.got <= room /\ k.data \in SetToSeqs(present)
         /\ k.errno = "RANGE" => present # Gone /\ present \subseteq Names /\ Size(present) > room
         /\ k.errno = "NOENT" => present = Gone
BY ListAssumption DEF ListXattr, Contents, Gone

\* What list returns of a listing is what the mode shows of the path.
LEMMA AnswerShows ==
  ASSUME NEW S \in seen \ {Gone}, NEW raw, ToSet(raw) = S, S \subseteq Names,
         Finish(Listing(PackLogical(request, raw))),
         UNCHANGED <<seen, request>>
  PROVE  ListingHolds'
<1>1. /\ Ascending(PackLogical(request, raw))
      /\ ToSet(PackLogical(request, raw)) = {n \in S : Addressable(request, n)}
  BY PacksInOrder
<1>2. answer'.names = PackLogical(request, raw)
  BY DEF Finish, Listing
<1> HIDE DEF Addressable
<1> DEFINE shown == {n \in S : Addressable(request, n)}
<1>3. Shown(S)' = shown
  BY DEF Shown, Addressable
<1>4. Ascending(answer'.names)
  BY <1>1, <1>2
<1> QED BY <1>1, <1>2, <1>3, <1>4 DEF ListingHolds, Ascending

LEMMA FailedInv ==
  ASSUME Inv, Active, NEW status, status # "OK", status # "Changed",
         status = "NotFound" => present = Gone,
         Finish(Fail(status)), UNCHANGED <<fileVars, attempt>>
  PROVE  Inv'
<1>1. pc' = "done" /\ answer'.status = status
  BY DEF Finish, Fail
<1> QED BY <1>1 DEF Inv, Active, Measured, FailureHolds, ListingHolds, fileVars

\* A listing, or in Zig the want of memory for it, is an answer.
LEMMA ListedInv ==
  ASSUME Inv, Active, NEW a, a.status \in {"OK", "OutOfMemory"}, Finish(a),
         Implementation = "rust" => ListingHolds', UNCHANGED <<fileVars, attempt>>
  PROVE  Inv'
BY DEF Finish, Inv, Active, Measured, FailureHolds, fileVars

LEMMA BeginInv == ASSUME Inv, NEW mode \in Modes, Begin(mode) PROVE Inv'
<1>1. /\ pc' \in {"first", "done"} /\ seen' = {present} /\ present' = present
      /\ churn' = churn /\ attempt' = attempt /\ pc = "idle"
      /\ pc' = "done" => answer' = Fail("InvalidPath")
  BY DEF Begin, Finish, Goto
<1>2. CASE pc' = "first"
  BY <1>1, <1>2, ListAssumption DEF Inv, Active, Measured, FailureHolds, ListingHolds
<1>3. CASE pc' = "done"
  BY <1>1, <1>3 DEF Inv, Active, Measured, FailureHolds, ListingHolds, Fail
<1> QED BY <1>1, <1>2, <1>3

\* No errno of the environment is one the code knows better.
LEMMA StatusOfErrno ==
  ASSUME present \in Contents, NEW room \in Nat, NEW k \in ListXattr(room),
         k.errno \notin {"SUCCESS", "RANGE"}
  PROVE  /\ MapErrno(k.errno) \notin {"OK", "Changed"}
         /\ MapErrno(k.errno) = "NotFound" => present = Gone
BY KernelAnswers, ListAssumption DEF MapErrno

LEMMA RefusedAllocation ==
  ASSUME NEW a \in AllocFailure
  PROVE  Implementation = "zig" /\ a.status = "OutOfMemory"
BY DEF AllocFailure, Fail

LEMMA ReadListing ==
  ASSUME Inv, NEW order \in SetToSeqs(present), present \subseteq Names
  PROVE  ToSet(order) = present /\ order # Garbage
<1>1. ToSet(order) = present
  BY ListsAll
<1>2. NoPath \in ToSet(Garbage)
  BY DEF Garbage, ToSet
<1> QED BY <1>1, <1>2, ListAssumption

LEMMA OptimisticInv == ASSUME Inv, OptimisticList PROVE Inv'
<1>1. /\ Active /\ pc = "first" /\ UNCHANGED <<fileVars, request, attempt, expected>>
      /\ present \in Contents /\ present \in seen /\ SmallLen \in Nat \ {0}
  BY ListAssumption DEF OptimisticList, Active, Inv
<1>2. PICK k \in ListXattr(SmallLen) :
        \/ /\ k.errno = "SUCCESS"
           /\ \E a \in {Listing(PackLogical(request, k.data))} \cup AllocFailure : Finish(a)
        \/ k.errno = "RANGE" /\ Goto("sizeQuery")
        \/ k.errno \notin {"SUCCESS", "RANGE"} /\ Finish(Fail(MapErrno(k.errno)))
  BY DEF OptimisticList
<1>3. ASSUME k.errno = "SUCCESS", NEW a, a = Listing(PackLogical(request, k.data)), Finish(a)
      PROVE  Inv'
  <2>1. present \in seen \ {Gone} /\ present \subseteq Names /\ k.data \in SetToSeqs(present)
    BY <1>1, <1>2, <1>3, KernelAnswers
  <2>2. ToSet(k.data) = present
    BY <2>1, ReadListing
  <2>3. ListingHolds'
    BY <1>1, <1>3, <2>1, <2>2, AnswerShows DEF fileVars
  <2>4. a.status = "OK"
    BY <1>3 DEF Listing
  <2> QED BY <1>1, <1>3, <2>3, <2>4, ListedInv
<1>4. ASSUME NEW a \in AllocFailure, Finish(a) PROVE Inv'
  <2>1. Implementation # "rust" /\ a.status = "OutOfMemory"
    BY RefusedAllocation
  <2> QED BY <1>1, <1>4, <2>1, ListedInv
<1>5. CASE Goto("sizeQuery")
  BY <1>1, <1>5 DEF Goto, Inv, Active, Measured, FailureHolds, ListingHolds, fileVars
<1>6. CASE k.errno \notin {"SUCCESS", "RANGE"} /\ Finish(Fail(MapErrno(k.errno)))
  BY <1>1, <1>2, <1>6, StatusOfErrno, FailedInv
<1> QED BY <1>2, <1>3, <1>4, <1>5, <1>6

LEMMA SizeQueryInv == ASSUME Inv, SizeQuery PROVE Inv'
<1>1. /\ Active /\ pc = "sizeQuery" /\ UNCHANGED <<fileVars, request, attempt>>
      /\ present \in Contents /\ present \in seen
  BY DEF SizeQuery, Active, Inv
<1>2. PICK k \in ListXattr(0) :
        \/ k.errno = "SUCCESS" /\ Goto("sizedRead") /\ expected' = k.got
        \/ /\ \E a \in IF k.errno = "SUCCESS" THEN AllocFailure ELSE {Fail(MapErrno(k.errno))} :
                Finish(a)
           /\ UNCHANGED expected
  BY DEF SizeQuery
<1>3. CASE k.errno = "SUCCESS" /\ Goto("sizedRead") /\ expected' = k.got
  <2>1. present \in seen \ {Gone} /\ expected' = Size(present)
    BY <1>1, <1>2, <1>3, KernelAnswers
  <2>2. Measured'
    BY <1>1, <1>3, <2>1 DEF Measured, fileVars
  <2> QED BY <1>1, <1>3, <2>2 DEF Goto, Inv, Active, FailureHolds, ListingHolds, fileVars
<1>4. ASSUME NEW a \in AllocFailure, Finish(a) PROVE Inv'
  <2>1. Implementation # "rust" /\ a.status = "OutOfMemory"
    BY RefusedAllocation
  <2> QED BY <1>1, <1>4, <2>1, ListedInv
<1>5. CASE k.errno # "SUCCESS" /\ Finish(Fail(MapErrno(k.errno)))
  <2>1. k.errno # "RANGE"
    BY <1>1, <1>2, ListAssumption DEF ListXattr, Contents
  <2> QED BY <1>1, <1>2, <1>5, <2>1, StatusOfErrno, FailedInv
<1> QED BY <1>2, <1>3, <1>4, <1>5

\* The list cannot outgrow its buffer unless it changed since it was measured;
\* a buffer of no bytes was measured for a path without attributes.
LEMMA SizedReadInv == ASSUME Inv, SizedRead PROVE Inv'
<1>1. /\ Active /\ pc = "sizedRead" /\ UNCHANGED <<fileVars, request, expected>>
      /\ present \in Contents /\ present \in seen /\ seen \subseteq Contents
      /\ attempt \in Nat /\ attempt < MaxAttempts /\ churn \in 0..MaxAttempts /\ MaxAttempts \in Nat
  BY ListAssumption DEF SizedRead, Active, Inv
<1>2. PICK S \in seen \ {Gone} : expected = Size(S) /\ (S = present \/ churn >= attempt + 1)
  BY <1>1 DEF Inv, Measured
<1>3. S \subseteq Names /\ expected \in Nat /\ (expected = 0 => S = {})
  BY <1>1, <1>2, ListAssumption DEF Contents
<1>4. PICK k \in ListXattr(expected) :
        \/ k.errno = "RANGE" /\ Retry
        \/ /\ k.errno = "SUCCESS"
           /\ LET names == IF TakenOut(k) = Garbage THEN Garbage
                           ELSE PackLogical(request, TakenOut(k))
              IN \E a \in {Listing(names)} \cup AllocFailure : Finish(a)
           /\ UNCHANGED attempt
        \/ k.errno \notin {"SUCCESS", "RANGE"} /\ Finish(Fail(MapErrno(k.errno))) /\ UNCHANGED attempt
  BY DEF SizedRead
<1>5. CASE k.errno = "RANGE" /\ Retry
  <2>1. churn >= attempt + 1
    BY <1>1, <1>2, <1>3, <1>5, KernelAnswers
  <2>2. attempt' = attempt + 1
    BY <1>5 DEF Retry
  <2>3. CASE attempt + 1 < MaxAttempts
    <3>1. pc' = "sizeQuery" /\ answer' = answer
      BY <1>5, <2>3 DEF Retry, AttemptLimit, Goto
    <3> QED BY <1>1, <2>1, <2>2, <2>3, <3>1
            DEF Inv, Active, Measured, FailureHolds, ListingHolds, fileVars
  <2>4. CASE ~(attempt + 1 < MaxAttempts)
    <3>1. pc' = "done" /\ answer' = Fail("Changed")
      BY <1>5, <2>4 DEF Retry, AttemptLimit, Finish
    <3>2. churn = MaxAttempts
      BY <1>1, <2>1, <2>4
    <3> QED BY <1>1, <2>2, <3>1, <3>2
            DEF Inv, Active, Measured, FailureHolds, ListingHolds, fileVars, Fail
  <2> QED BY <2>3, <2>4
<1>6. ASSUME k.errno = "SUCCESS", NEW a, UNCHANGED attempt, Finish(a),
             a = Listing(IF TakenOut(k) = Garbage THEN Garbage ELSE PackLogical(request, TakenOut(k)))
      PROVE  Inv'
  <2>1. a.status = "OK"
    BY <1>6 DEF Listing
  <2>2. ASSUME Implementation = "rust" PROVE ListingHolds'
    <3>1. CASE expected = 0
      <4>1. TakenOut(k) = <<>>
        BY <1>3, <1>6, <2>2, <3>1, KernelAnswers, <1>1 DEF TakenOut
      <4>2. ToSet(<<>>) = S /\ <<>> # Garbage
        BY <1>3, <3>1 DEF ToSet, Garbage
      <4>3. Finish(Listing(PackLogical(request, <<>>)))
        BY <1>6, <4>1, <4>2
      <4> QED BY <1>1, <1>2, <1>3, <4>2, <4>3, AnswerShows DEF fileVars
    <3>2. CASE expected # 0
      <4>1. /\ present \in seen \ {Gone} /\ present \subseteq Names
            /\ k.got <= expected /\ k.data \in SetToSeqs(present)
        BY <1>1, <1>3, <1>6, <3>2, KernelAnswers
      <4>2. ToSet(k.data) = present /\ k.data # Garbage
        BY <4>1, ReadListing
      <4>3. TakenOut(k) = k.data
        BY <4>1 DEF TakenOut
      <4>4. Finish(Listing(PackLogical(request, k.data)))
        BY <1>6, <4>2, <4>3
      <4> QED BY <1>1, <4>1, <4>2, <4>4, AnswerShows DEF fileVars
    <3> QED BY <3>1, <3>2
  <2> QED BY <1>1, <1>6, <2>1, <2>2, ListedInv
<1>7. ASSUME NEW a \in AllocFailure, Finish(a), UNCHANGED attempt PROVE Inv'
  <2>1. Implementation # "rust" /\ a.status = "OutOfMemory"
    BY RefusedAllocation
  <2> QED BY <1>1, <1>7, <2>1, ListedInv
<1>8. CASE k.errno \notin {"SUCCESS", "RANGE"} /\ Finish(Fail(MapErrno(k.errno))) /\ UNCHANGED attempt
  BY <1>1, <1>3, <1>8, StatusOfErrno, FailedInv
<1> QED BY <1>4, <1>5, <1>6, <1>7, <1>8

LEMMA EndInv == ASSUME Inv, End PROVE Inv'
BY ListAssumption DEF End, Inv, Active, Measured, FailureHolds, ListingHolds

\* A change is counted for the attempt under way.
LEMMA OutsideInv == ASSUME Inv, NEW x \in Outsiders, Outside(x) PROVE Inv'
<1>1. /\ x \in Contents /\ present' = x /\ MaxAttempts \in Nat
      /\ UNCHANGED <<request, answer, pc, attempt, expected>>
  BY ListAssumption DEF Outside
<1>2. CASE pc \in {"idle", "done"}
  BY <1>1, <1>2 DEF Outside, Inv, Active, Measured, FailureHolds, ListingHolds, Shown, Addressable
<1>3. CASE pc \notin {"idle", "done"}
  <2>1. /\ seen' = seen \cup {x}
        /\ churn' = IF churn < MaxAttempts THEN churn + 1 ELSE churn
    BY <1>3 DEF Outside
  <2>2. Active /\ Active' /\ pc' # "done" /\ pc' # "idle"
    BY <1>1, <1>3 DEF Inv, Active
  <2>3. /\ attempt' \in Nat /\ attempt' < MaxAttempts /\ attempt' <= churn'
        /\ churn' \in 0..MaxAttempts /\ churn' >= attempt' + 1
    BY <1>1, <2>1, <2>2 DEF Inv
  <2>4. Measured'
    BY <1>1, <2>1, <2>3 DEF Inv, Measured
  <2> QED BY <1>1, <2>1, <2>2, <2>3, <2>4 DEF Inv, FailureHolds, ListingHolds
<1> QED BY <1>2, <1>3

LEMMA NextInv == Inv /\ [Next]_vars => Inv'
<1>1. Inv /\ UNCHANGED vars => Inv'
  BY DEF vars, fileVars, Inv, Active, Measured, FailureHolds, ListingHolds, Shown, Addressable
<1> QED BY <1>1, BeginInv, OptimisticInv, SizeQueryInv, SizedReadInv, EndInv, OutsideInv
        DEF Next, Step

\* list gives up with Changed only after as many changes as it has attempts,
\* and says NotFound only of a path that was gone, in Zig and in Rust
\* (list_raw of the POSIX adapters).
THEOREM GivesUpTruly == Spec => []FailureHolds
<1>1. Inv => FailureHolds
  BY DEF Inv
<1> QED BY <1>1, InitInv, NextInv, PTL DEF Spec

\* A listing of the Rust port is one the path had at one moment of the call,
\* sorted, whatever others add and remove between its system calls and whatever
\* the names and their lengths: the length of zero it never checks for is never
\* taken for a list (list, list_raw, pack_logical).
THEOREM ListingTrue ==
  ASSUME Implementation = "rust"
  PROVE  Spec => []ListingHolds
<1>1. Inv => ListingHolds
  BY DEF Inv
<1> QED BY <1>1, InitInv, NextInv, PTL DEF Spec
=============================================================================
