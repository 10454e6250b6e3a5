----------------------------- MODULE LoadProofs -----------------------------
(***************************************************************************)
(* What load promises of any dump, any settings and any outcome of its     *)
(* calls: nothing is written to a path the guard refused, and a path it    *)
(* lets through stays inside by POSIX and by Windows rules; the parser     *)
(* accepts the lines that are dump lines and reads them as they are meant; *)
(* all that is asked for is written, each problem is reported under its    *)
(* line, and the exit status tells whether there was any.                  *)
(***************************************************************************)
EXTENDS Load, TLAPS, FiniteSetTheorems, SequenceTheorems, WellFoundedInduction

-----------------------------------------------------------------------------
(* Repetition                                                              *)

LEMMA LessIsRelated ==
  ASSUME NEW m \in Nat, NEW n \in Nat, m < n
  PROVE  <<m, n>> \in OpToRel(<, Nat)
BY Zenon DEF OpToRel

\* The smallest of a set of numbers.
LEMMA LeastOf ==
  ASSUME NEW T, T \subseteq Nat, T # {}
  PROVE  \E m \in T : \A y \in Nat : y < m => y \notin T
<1> DEFINE R == OpToRel(<, Nat)
<1>1. \A m, n \in Nat : m < n => <<m, n>> \in R
  BY LessIsRelated, Zenon
<1>2. IsWellFoundedOn(R, Nat)
  BY NatLessThanWellFounded, Zenon
<1> HIDE DEF R
<1>3. PICK m \in T : \A y \in T : ~(<<y, m>> \in R)
  BY <1>2, WFMin
<1> QED BY <1>1, <1>3

\* What holds at first and is preserved from each to the next holds of all.
LEMMA UpTo ==
  ASSUME NEW N \in Nat, NEW T, 0 \in T, \A n \in 1..N : n - 1 \in T => n \in T
  PROVE  \A n \in 0..N : n \in T
<1> DEFINE Missed == (0..N) \ T
<1> SUFFICES ASSUME Missed # {} PROVE FALSE
  OBVIOUS
<1>1. Missed \subseteq Nat
  OBVIOUS
<1>2. PICK m \in Missed : \A y \in Nat : y < m => y \notin Missed
  BY <1>1, LeastOf
<1>3. m \in 1..N /\ m - 1 \in 0..N /\ m - 1 < m /\ m - 1 \in Nat
  OBVIOUS
<1>4. m - 1 \in T
  BY <1>2, <1>3
<1> QED BY <1>3, <1>4

\* R taken n times from start.
Run(S, R, start, n) ==
  {f \in [0..n -> S] : f[0] = start /\ \A k \in 1..n : f[k] = R[f[k - 1]]}

\* A step of a function can be repeated.
LEMMA Iterates ==
  ASSUME NEW S, NEW start \in S, NEW R \in [S -> S], NEW N \in Nat
  PROVE  Run(S, R, start, N) # {}
<1> DEFINE Runs(n) == Run(S, R, start, n)
           T == {n \in Nat : Runs(n) # {}}
<1>1. 0 \in T
  <2>1. [k \in 0..0 |-> start] \in Runs(0)
    BY DEF Run
  <2> QED BY <2>1
<1>2. ASSUME NEW n \in 1..N, n - 1 \in T PROVE n \in T
  <2>1. PICK f \in Runs(n - 1) : TRUE
    BY <1>2
  <2>a. f \in [0..(n - 1) -> S] /\ f[0] = start /\ \A k \in 1..(n - 1) : f[k] = R[f[k - 1]]
    BY DEF Run
  <2> DEFINE g == [k \in 0..n |-> IF k = n THEN R[f[n - 1]] ELSE f[k]]
  <2>2. \A k \in 0..(n - 1) : g[k] = f[k] /\ g[k] \in S
    BY <2>a
  <2>3. g \in [0..n -> S]
    BY <2>a, <2>2
  <2>4. g[0] = start
    BY <2>a, <2>2
  <2>5. \A k \in 1..n : g[k] = R[g[k - 1]]
    BY <2>a, <2>2
  <2>6. g \in Runs(n)
    BY <2>3, <2>4, <2>5 DEF Run
  <2> QED BY <2>6
<1>3. N \in T
  <2> HIDE DEF T
  <2> QED BY <1>1, <1>2, UpTo
<1> QED BY <1>3

\* The longer sequence ends with one more.
LEMMA OneLonger ==
  ASSUME NEW n \in Nat, NEW V, NEW s \in [1..n -> V], NEW t \in [1..(n + 1) -> V],
         \A i \in 1..n : t[i] = s[i]
  PROVE  t = Append(s, t[n + 1])
<1>1. PICK q \in V : q = t[n + 1]
  OBVIOUS
<1>2. PICK u : u = Append(s, q)
  OBVIOUS
<1>3. s \in Seq(V) /\ Len(s) = n /\ t \in Seq(V) /\ Len(t) = n + 1
  OBVIOUS
<1>4. u \in Seq(V) /\ Len(u) = n + 1 /\ u[n + 1] = q /\ \A i \in 1..n : u[i] = s[i]
  BY <1>1, <1>2, <1>3
<1>5. \A i \in 1..(n + 1) : i \in 1..n \/ i = n + 1
  OBVIOUS
<1>6. \A i \in 1..Len(t) : t[i] = u[i]
  BY <1>1, <1>3, <1>4, <1>5
<1>7. t = u
  BY <1>3, <1>4, <1>6, SeqEqual
<1> QED BY <1>1, <1>2, <1>7

-----------------------------------------------------------------------------
(* The fields of a line                                                    *)

Loops       == {"more", "end", "bad"}
Pairs       == [key : Texts, value : Texts]
EntryStates == [i : Nat, entries : Seq(Pairs), status : Loops]
PathFields  == [field : PathKeys, key : Texts, value : Texts]
MapFields   == [field : MapKeys, key : Texts, value : Texts]
Fields      == PathFields \cup MapFields
MapsOfLine  == UNION {[K -> Seq(Pairs)] : K \in SUBSET MapKeys}

MemberStates ==
  [i : Nat, path : {{}} \cup {{f} : f \in PathFields}, maps : MapsOfLine, status : Loops]

\* A path and then entries of the maps.
FieldsOfLine == {s \in Seq(Fields) :
  s # <<>> /\ s[1] \in PathFields /\ \A j \in 2..Len(s) : s[j] \in MapFields}

LEMMA TokenType ==
  ASSUME NEW l \in Seq(Tokens), NEW i
  PROVE  TokenAt(l, i).text \in Texts
<1>1. CASE i \in DOMAIN l
  <2>1. l[i] \in Tokens
    BY <1>1
  <2> QED BY <1>1, <2>1 DEF TokenAt, Tokens
<1>2. CASE i \notin DOMAIN l
  BY <1>2 DEF TokenAt, End, Texts
<1> QED BY <1>1, <1>2

LEMMA EntryRound ==
  ASSUME NEW l \in Seq(Tokens), NEW st \in EntryStates
  PROVE  MapEntry(l, st) \in EntryStates
<1> DEFINE pair == [key |-> TokenAt(l, st.i).text, value |-> TokenAt(l, st.i + 2).text]
           next == AfterItem(TypeAt(l, st.i + 3))
<1>1. pair \in Pairs
  BY TokenType DEF Pairs
<1>2. next \in Loops
  BY DEF AfterItem, Loops
<1>3. Append(st.entries, pair) \in Seq(Pairs)
  BY <1>1 DEF EntryStates
<1>4. MapEntry(l, st) = [i |-> st.i + 4, entries |-> Append(st.entries, pair), status |-> next]
        \/ MapEntry(l, st) = [st EXCEPT !.status = "bad"]
  BY Zenon DEF MapEntry
<1> HIDE DEF pair, next
<1>5. st.i + 4 \in Nat
  BY DEF EntryStates
<1>6. [i |-> st.i + 4, entries |-> Append(st.entries, pair), status |-> next] \in EntryStates
  BY <1>2, <1>3, <1>5 DEF EntryStates
<1>7. [st EXCEPT !.status = "bad"] \in EntryStates
  BY DEF EntryStates, Loops
<1> QED BY <1>4, <1>6, <1>7

\* string_map's loop runs through well-formed states.
LEMMA EntryRounds ==
  ASSUME NEW l \in Seq(Tokens), NEW start \in EntryStates
  PROVE  \E g \in [0..Len(l) -> EntryStates] :
           /\ g[0] = start
           /\ \A n \in 1..Len(l) :
                g[n] = IF g[n - 1].status = "more" THEN MapEntry(l, g[n - 1]) ELSE g[n - 1]
           /\ WhileMore(MapEntry, l, start) = g[Len(l)]
<1> DEFINE N == Len(l)
           R == [st \in EntryStates |-> IF st.status = "more" THEN MapEntry(l, st) ELSE st]
           Next1(st) == IF st.status = "more" THEN MapEntry(l, st) ELSE st
           g == CHOOSE g : g = [n \in 0..N |-> IF n = 0 THEN start ELSE Next1(g[n - 1])]
<1>1. N \in Nat
  OBVIOUS
<1>2. WhileMore(MapEntry, l, start) = g[N]
  BY Zenon DEF WhileMore
<1>3. R \in [EntryStates -> EntryStates]
  BY EntryRound
<1>4. \A st \in EntryStates : R[st] = Next1(st)
  OBVIOUS
<1> HIDE DEF R, Next1, N
<1>5. PICK f \in Run(EntryStates, R, start, N) : TRUE
  BY <1>1, <1>3, Iterates, Zenon
<1>6. f = [n \in 0..N |-> IF n = 0 THEN start ELSE Next1(f[n - 1])]
  <2> f \in [0..N -> EntryStates] /\ f[0] = start /\ \A k \in 1..N : f[k] = R[f[k - 1]]
    BY DEF Run
  <2>1. \A n \in 1..N : f[n - 1] \in EntryStates
    BY <1>1
  <2>2. \A n \in 0..N : f[n] = IF n = 0 THEN start ELSE Next1(f[n - 1])
    BY <1>1, <1>4, <1>5, <2>1
  <2> QED BY <2>2
<1>7. g = [n \in 0..N |-> IF n = 0 THEN start ELSE Next1(g[n - 1])]
  BY <1>6, Zenon
<1> HIDE DEF g
<1> DEFINE T == {n \in 0..N : g[n] \in EntryStates}
<1>8. 0 \in T
  BY <1>1, <1>7
<1>9. ASSUME NEW n \in 1..N, n - 1 \in T PROVE n \in T
  <2>1. g[n] = R[g[n - 1]]
    BY <1>1, <1>4, <1>7, <1>9
  <2> QED BY <1>3, <1>9, <2>1
<1> HIDE DEF T
<1>10. \A n \in 0..N : n \in T
  BY <1>1, <1>8, <1>9, UpTo
<1>11. \A n \in 0..N : g[n] \in EntryStates
  BY <1>10 DEF T
<1>12. g \in [0..N -> EntryStates] /\ g[0] = start /\ \A n \in 1..N : g[n] = Next1(g[n - 1])
  BY <1>1, <1>7, <1>11
<1> QED BY <1>2, <1>12, Zenon DEF N, Next1

LEMMA EntriesTyped ==
  ASSUME NEW l \in Seq(Tokens), NEW start \in EntryStates
  PROVE  WhileMore(MapEntry, l, start) \in EntryStates
<1>1. PICK g \in [0..Len(l) -> EntryStates] : WhileMore(MapEntry, l, start) = g[Len(l)]
  BY EntryRounds, Zenon
<1>2. Len(l) \in 0..Len(l)
  OBVIOUS
<1> QED BY <1>1, <1>2, Zenon

\* What string_map reads.
LEMMA MapTyped ==
  ASSUME NEW l \in Seq(Tokens), NEW i \in Nat
  PROVE  StringMap(l, i) \in EntryStates
<1> DEFINE start == [i |-> i + 1, entries |-> <<>>, status |-> "more"]
<1>1. start \in EntryStates
  BY DEF EntryStates, Loops
<1>2. [start EXCEPT !.status = "bad"] \in EntryStates
  <2> HIDE DEF start
  <2> QED BY <1>1 DEF EntryStates, Loops
<1>3. [i |-> i + 2, entries |-> <<>>, status |-> "end"] \in EntryStates
  BY DEF EntryStates, Loops
<1>4. WhileMore(MapEntry, l, start) \in EntryStates
  BY <1>1, EntriesTyped
<1> QED BY <1>2, <1>3, <1>4, Zenon DEF StringMap

LEMMA MapsWith ==
  ASSUME NEW maps \in MapsOfLine, NEW k \in MapKeys, NEW s \in Seq(Pairs)
  PROVE  [x \in DOMAIN maps \cup {k} |-> IF x = k THEN s ELSE maps[x]] \in MapsOfLine
<1>1. PICK K \in SUBSET MapKeys : maps \in [K -> Seq(Pairs)]
  BY DEF MapsOfLine
<1>2. [x \in K \cup {k} |-> IF x = k THEN s ELSE maps[x]] \in [K \cup {k} -> Seq(Pairs)]
  BY <1>1
<1>3. K \cup {k} \in SUBSET MapKeys /\ DOMAIN maps = K
  BY <1>1
<1> QED BY <1>2, <1>3 DEF MapsOfLine

LEMMA MemberRound ==
  ASSUME NEW l \in Seq(Tokens), NEW st \in MemberStates
  PROVE  Member(l, st) \in MemberStates
<1> DEFINE k   == TokenAt(l, st.i).text
           at  == st.i + 2
           map == StringMap(l, at)
           one == [field |-> k, key |-> <<>>, value |-> TokenAt(l, at).text]
           maps == [x \in DOMAIN st.maps \cup {k} |-> IF x = k THEN map.entries ELSE st.maps[x]]
           bad == [st EXCEPT !.status = "bad"]
           ofPath == [st EXCEPT !.i = at + 2, !.status = AfterItem(TypeAt(l, at + 1)),
                                !.path = {one}]
           ofMap == [st EXCEPT !.i = map.i + 1, !.status = AfterItem(TypeAt(l, map.i)),
                     !.maps = maps]
<1>1. st.i \in Nat /\ at \in Nat /\ at + 2 \in Nat
  BY DEF MemberStates
<1>2. map \in EntryStates
  BY <1>1, MapTyped
<1>3. map.i + 1 \in Nat /\ map.entries \in Seq(Pairs)
  <2> HIDE DEF map
  <2> QED BY <1>2 DEF EntryStates
<1>4. \A t : AfterItem(t) \in Loops
  BY DEF AfterItem, Loops
<1>5. bad \in MemberStates
  BY DEF MemberStates, Loops
<1>6. k \in PathKeys => ofPath \in MemberStates
  <2>1. k \in PathKeys => one \in PathFields
    BY TokenType DEF PathFields, Texts
  <2> HIDE DEF one, at, k
  <2> QED BY <1>1, <1>4, <2>1 DEF MemberStates
<1>7. k \in MapKeys => ofMap \in MemberStates
  <2>1. st.maps \in MapsOfLine
    BY DEF MemberStates
  <2>2. k \in MapKeys => maps \in MapsOfLine
    <3> HIDE DEF map, k
    <3> QED BY <1>3, <2>1, MapsWith
  <2> HIDE DEF maps, map, k
  <2> QED BY <1>3, <1>4, <2>2 DEF MemberStates
<1>8. Member(l, st) \in {bad} \/ (k \in PathKeys /\ Member(l, st) = ofPath)
        \/ (k \in MapKeys /\ Member(l, st) = ofMap)
  BY Zenon DEF Member
<1> HIDE DEF bad, ofPath, ofMap, k
<1> QED BY <1>5, <1>6, <1>7, <1>8

\* parse_line's loop runs through well-formed states.
LEMMA MemberRounds ==
  ASSUME NEW l \in Seq(Tokens), NEW start \in MemberStates
  PROVE  \E g \in [0..Len(l) -> MemberStates] :
           /\ g[0] = start
           /\ \A n \in 1..Len(l) :
                g[n] = IF g[n - 1].status = "more" THEN Member(l, g[n - 1]) ELSE g[n - 1]
           /\ WhileMore(Member, l, start) = g[Len(l)]
<1> DEFINE N == Len(l)
           R == [st \in MemberStates |-> IF st.status = "more" THEN Member(l, st) ELSE st]
           After(st) == IF st.status = "more" THEN Member(l, st) ELSE st
           g == CHOOSE g : g = [n \in 0..N |-> IF n = 0 THEN start ELSE After(g[n - 1])]
<1>1. N \in Nat
  OBVIOUS
<1>2. WhileMore(Member, l, start) = g[N]
  BY Zenon DEF WhileMore
<1>3. R \in [MemberStates -> MemberStates]
  BY MemberRound
<1>4. \A st \in MemberStates : R[st] = After(st)
  OBVIOUS
<1> HIDE DEF R, After, N
<1>5. PICK f \in Run(MemberStates, R, start, N) : TRUE
  BY <1>1, <1>3, Iterates, Zenon
<1>6. f = [n \in 0..N |-> IF n = 0 THEN start ELSE After(f[n - 1])]
  <2>1. f \in [0..N -> MemberStates] /\ f[0] = start /\ \A k \in 1..N : f[k] = R[f[k - 1]]
    BY DEF Run
  <2>2. \A n \in 1..N : f[n - 1] \in MemberStates
    BY <1>1, <2>1
  <2>3. \A n \in 0..N : f[n] = IF n = 0 THEN start ELSE After(f[n - 1])
    BY <1>1, <1>4, <2>1, <2>2
  <2> QED BY <2>1, <2>3
<1>7. g = [n \in 0..N |-> IF n = 0 THEN start ELSE After(g[n - 1])]
  BY <1>6, Zenon
<1> HIDE DEF g
<1> DEFINE T == {n \in 0..N : g[n] \in MemberStates}
<1>8. 0 \in T
  BY <1>1, <1>7
<1>9. ASSUME NEW n \in 1..N, n - 1 \in T PROVE n \in T
  <2>1. g[n] = R[g[n - 1]]
    BY <1>1, <1>4, <1>7, <1>9
  <2> QED BY <1>3, <1>9, <2>1
<1> HIDE DEF T
<1>10. \A n \in 0..N : n \in T
  BY <1>1, <1>8, <1>9, UpTo
<1>11. \A n \in 0..N : g[n] \in MemberStates
  BY <1>10 DEF T
<1>12. g \in [0..N -> MemberStates] /\ g[0] = start /\ \A n \in 1..N : g[n] = After(g[n - 1])
  BY <1>1, <1>7, <1>11
<1> QED BY <1>2, <1>12, Zenon DEF N, After

LEMMA MembersTyped ==
  ASSUME NEW l \in Seq(Tokens), NEW start \in MemberStates
  PROVE  WhileMore(Member, l, start) \in MemberStates
<1>1. PICK g \in [0..Len(l) -> MemberStates] : WhileMore(Member, l, start) = g[Len(l)]
  BY MemberRounds, Zenon
<1>2. Len(l) \in 0..Len(l)
  OBVIOUS
<1> QED BY <1>1, <1>2, Zenon

LEMMA SeqOfOne ==
  ASSUME NEW x
  PROVE  SetToSeq({x}) = <<x>>
<1>1. Cardinality({x}) = 1
  BY FS_Singleton
<1>2. [1..1 -> {x}] = {<<x>>}
  OBVIOUS
<1>3. IsInjective(<<x>>)
  BY DEF IsInjective
<1>4. SetToSeq({x}) = CHOOSE f \in {<<x>>} : IsInjective(f)
  BY <1>1, <1>2 DEF SetToSeq
<1>5. (CHOOSE f \in {<<x>>} : IsInjective(f)) \in {<<x>>}
  BY <1>3, Zenon
<1> QED BY <1>4, <1>5

LEMMA EmittedType ==
  ASSUME NEW maps \in MapsOfLine, NEW k \in MapKeys
  PROVE  Emitted(maps, k) \in Seq(MapFields)
<1>1. CASE k \notin DOMAIN maps
  BY <1>1 DEF Emitted
<1>2. CASE k \in DOMAIN maps
  <2>1. maps[k] \in Seq(Pairs)
    BY <1>2 DEF MapsOfLine
  <2> DEFINE s == maps[k]
             field(j) == [field |-> k, key |-> s[j].key, value |-> s[j].value]
  <2>2. Emitted(maps, k) = [j \in DOMAIN s |-> field(j)]
    BY <1>2 DEF Emitted
  <2>3. Len(s) \in Nat /\ DOMAIN s = 1..Len(s) /\ \A j \in DOMAIN s : s[j] \in Pairs
    BY <2>1
  <2> HIDE DEF s
  <2>4. \A j \in DOMAIN s : field(j) \in MapFields
    BY <2>3 DEF Pairs, MapFields
  <2> HIDE DEF field
  <2> QED BY <2>2, <2>3, <2>4
<1> QED BY <1>1, <1>2

\* A line that is accepted has the fields of a line, others none.
LEMMA ParsedType ==
  ASSUME NEW l \in Seq(Tokens)
  PROVE  IF ParseLine(l).ok THEN ParseLine(l).fields \in FieldsOfLine
                               ELSE ParseLine(l).fields = <<>>
<1> DEFINE start == [i |-> 2, path |-> {}, maps |-> [k \in {} |-> <<>>], status |-> "more"]
           st == IF TypeAt(l, 1) # "{" THEN [start EXCEPT !.status = "bad"]
                 ELSE IF TypeAt(l, 2) = "}" THEN [start EXCEPT !.i = 3, !.status = "end"]
                 ELSE WhileMore(Member, l, start)
           a == Emitted(st.maps, Key("xattrs"))
           b == Emitted(st.maps, Key("xattrs_pb"))
           good == st.status = "end" /\ st.i = Len(l) + 1 /\ st.path # {}
<1>1. start \in MemberStates
  <2>1. [k \in {} |-> <<>>] \in [{} -> Seq(Pairs)] /\ {} \in SUBSET MapKeys
    OBVIOUS
  <2> DEFINE none == [k \in {} |-> <<>>]
  <2>2. none \in MapsOfLine
    BY <2>1 DEF MapsOfLine
  <2>3. start = [i |-> 2, path |-> {}, maps |-> none, status |-> "more"]
    OBVIOUS
  <2> HIDE DEF none, start
  <2> QED BY <2>2, <2>3 DEF MemberStates, Loops
<1>2. st \in MemberStates
  <2>1. WhileMore(Member, l, start) \in MemberStates
    BY <1>1, MembersTyped
  <2> HIDE DEF start
  <2>2. [start EXCEPT !.status = "bad"] \in MemberStates
    BY <1>1 DEF MemberStates, Loops
  <2>3. [start EXCEPT !.i = 3, !.status = "end"] \in MemberStates
    BY <1>1 DEF MemberStates, Loops
  <2> QED BY <2>1, <2>2, <2>3, Zenon
<1>3. ParseLine(l) = IF good THEN [ok |-> TRUE, fields |-> SetToSeq(st.path) \o a \o b]
                                ELSE [ok |-> FALSE, fields |-> <<>>]
  BY Zenon DEF ParseLine
<1>4. a \in Seq(MapFields) /\ b \in Seq(MapFields)
  <2> HIDE DEF st
  <2>1. st.maps \in MapsOfLine
    BY <1>2 DEF MemberStates
  <2>2. Key("xattrs") \in MapKeys /\ Key("xattrs_pb") \in MapKeys
    BY DEF MapKeys
  <2> QED BY <2>1, <2>2, EmittedType
<1> HIDE DEF a, b, st
<1>5. ASSUME good PROVE SetToSeq(st.path) \o a \o b \in FieldsOfLine
  <2>1. PICK f \in PathFields : st.path = {f}
    BY <1>2, <1>5 DEF MemberStates
  <2>2. SetToSeq(st.path) = <<f>>
    BY <2>1, SeqOfOne
  <2> DEFINE s == <<f>> \o a \o b
  <2>3. <<f>> \in Seq(Fields) /\ a \in Seq(Fields) /\ b \in Seq(Fields)
    BY <1>4 DEF Fields
  <2>4. s \in Seq(Fields) /\ Len(s) = 1 + Len(a) + Len(b) /\ Len(a) \in Nat /\ Len(b) \in Nat
    BY <2>3
  <2>5. s[1] = f
    BY <2>3
  <2>6. ASSUME NEW j \in 2..Len(s) PROVE s[j] \in MapFields
    <3>1. j - 1 \in 1..Len(a) => s[j] = a[j - 1]
      BY <2>3
    <3>2. j - 1 - Len(a) \in 1..Len(b) => s[j] = b[j - 1 - Len(a)]
      BY <2>3
    <3>3. j - 1 \in 1..Len(a) \/ j - 1 - Len(a) \in 1..Len(b)
      <4> HIDE DEF s
      <4> QED BY <2>4
    <3>4. \A k \in 1..Len(a) : a[k] \in MapFields
      BY <1>4
    <3>5. \A k \in 1..Len(b) : b[k] \in MapFields
      BY <1>4
    <3> HIDE DEF s
    <3> QED BY <3>1, <3>2, <3>3, <3>4, <3>5
  <2>7. s # <<>>
    BY <2>3, <2>4
  <2> HIDE DEF s
  <2>8. s \in FieldsOfLine
    BY <2>4, <2>5, <2>6, <2>7 DEF FieldsOfLine
  <2> QED BY <2>2, <2>8 DEF s
<1> QED BY <1>3, <1>5

-----------------------------------------------------------------------------
(* The parser and the grammar                                              *)

OpensAt(l, i)  == TypeAt(l, i) = "{"
ClosesAt(l, i) == TypeAt(l, i) = "}"
CommaAt(l, i)  == TypeAt(l, i) = ","
ColonAt(l, i)  == TypeAt(l, i) = ":"
TextAt(l, i)   == TypeAt(l, i) = "string"
Word(l, i)     == TokenAt(l, i).text
PairAt(l, i)   == TextAt(l, i) /\ ColonAt(l, i + 1) /\ TextAt(l, i + 2)
AfterAt(l, i)   == AfterItem(TypeAt(l, i))

\* What a token is, it is alone, and none lies beyond the end.
LEMMA OneType ==
  ASSUME NEW l, NEW i
  PROVE  /\ ClosesAt(l, i) => ~CommaAt(l, i) /\ ~TextAt(l, i) /\ ~OpensAt(l, i)
         /\ CommaAt(l, i) => ~TextAt(l, i) /\ ~OpensAt(l, i)
         /\ i \notin DOMAIN l => ~OpensAt(l, i) /\ ~ClosesAt(l, i) /\ ~CommaAt(l, i) /\ ~TextAt(l, i)
BY Zenon DEF OpensAt, ClosesAt, CommaAt, TextAt, TypeAt, TokenAt, End

LEMMA AfterToken ==
  ASSUME NEW l, NEW i
  PROVE  AfterAt(l, i) = IF CommaAt(l, i) THEN "more" ELSE IF ClosesAt(l, i) THEN "end" ELSE "bad"
BY Zenon DEF AfterAt, AfterItem, CommaAt, ClosesAt

\* The keys of the first n pairs of a map at i differ.
KeysDiffer(l, i, n) ==
  \A g, h \in 1..n : g < h => Word(l, i + 4 * g - 3) # Word(l, i + 4 * h - 3)

LEMMA MapIs ==
  ASSUME NEW l, NEW i \in Nat, NEW j, NEW n \in Nat
  PROVE  IsMap(l, i, j, n) <=>
           /\ OpensAt(l, i) /\ ClosesAt(l, j) /\ j = IF n = 0 THEN i + 1 ELSE i + 4 * n
           /\ \A h \in 1..n : PairAt(l, i + 4 * h - 3) /\ (h < n => CommaAt(l, i + 4 * h))
           /\ KeysDiffer(l, i, n)
<1>1. IsMap(l, i, j, n) <=>
        /\ OpensAt(l, i) /\ ClosesAt(l, j) /\ j = IF n = 0 THEN i + 1 ELSE i + 4 * n
        /\ \A h \in 1..n : /\ PairAt(l, i + 4 * h - 3)
                           /\ h < n => CommaAt(l, i + 4 * h - 3 + 3)
        /\ KeysDiffer(l, i, n)
  BY Zenon DEF IsMap, OpensAt, ClosesAt, CommaAt, ColonAt, TextAt, PairAt, KeysDiffer, Word
<1>2. \A h \in 1..n : i + 4 * h - 3 + 3 = i + 4 * h
  OBVIOUS
<1> QED BY <1>1, <1>2

LEMMA MapEnds ==
  ASSUME NEW l, NEW i \in Nat, NEW j, NEW n \in Nat, IsMap(l, i, j, n)
  PROVE  j > i
<1>1. j = IF n = 0 THEN i + 1 ELSE i + 4 * n
  BY MapIs, Zenon
<1> QED BY <1>1

PairRead(l, i) == [key |-> Word(l, i), value |-> Word(l, i + 2)]

\* The first n pairs of a map at i.
PairsRead(l, i, n) == [h \in 1..n |-> PairRead(l, i + 4 * h - 3)]

LEMMA PairsMore ==
  ASSUME NEW l, NEW i \in Nat, NEW n \in Nat
  PROVE  PairsRead(l, i, n + 1) = Append(PairsRead(l, i, n), PairRead(l, i + 4 * n + 1))
<1> DEFINE V == {PairRead(l, i + 4 * h - 3) : h \in 1..(n + 1)}
           s == PairsRead(l, i, n)
           t == PairsRead(l, i, n + 1)
<1>1. i + 4 * (n + 1) - 3 = i + 4 * n + 1 /\ n + 1 \in 1..(n + 1) /\ 1..n \subseteq 1..(n + 1)
  OBVIOUS
<1>2. \A h \in 1..(n + 1) : t[h] = PairRead(l, i + 4 * h - 3)
  BY Zenon DEF PairsRead
<1>3. s \in [1..n -> V] /\ t \in [1..(n + 1) -> V]
  BY <1>1, Zenon DEF PairsRead
<1>4. \A h \in 1..n : t[h] = s[h]
  BY <1>1, Zenon DEF PairsRead
<1>5. t[n + 1] = PairRead(l, i + 4 * n + 1)
  BY <1>1, <1>2, Zenon
<1> HIDE DEF s, t, V
<1>6. t = Append(s, t[n + 1])
  BY <1>3, <1>4, OneLonger
<1> QED BY <1>5, <1>6 DEF s, t

LEMMA UniqueHere ==
  ASSUME NEW l, NEW i \in Nat, NEW n \in Nat, NEW k
  PROVE  Unique(k, PairsRead(l, i, n)) <=> \A h \in 1..n : Word(l, i + 4 * h - 3) # k
<1> DEFINE s == PairsRead(l, i, n)
<1>1. DOMAIN s = 1..n /\ \A h \in 1..n : s[h] = PairRead(l, i + 4 * h - 3)
  BY DEF PairsRead
<1>2. \A h \in 1..n : PairRead(l, i + 4 * h - 3).key = Word(l, i + 4 * h - 3)
  BY DEF PairRead
<1> HIDE DEF s
<1>3. \A h \in 1..n : s[h].key = Word(l, i + 4 * h - 3)
  BY <1>1, <1>2
<1>4. Unique(k, s) <=> \A h \in DOMAIN s : s[h].key # k
  BY DEF Unique, KeyIsNew, ToSet
<1> QED BY <1>1, <1>3, <1>4 DEF s

LEMMA EntryIs ==
  ASSUME NEW l, NEW st
  PROVE  MapEntry(l, st) =
           IF PairAt(l, st.i) /\ Unique(Word(l, st.i), st.entries)
           THEN [i |-> st.i + 4, entries |-> Append(st.entries, PairRead(l, st.i)),
                 status |-> AfterAt(l, st.i + 3)]
           ELSE [st EXCEPT !.status = "bad"]
BY Zenon DEF MapEntry, PairAt, ColonAt, TextAt, PairRead, Word, AfterAt, TypeAt

\* The first n pairs of a map at i are right, and each is followed by a comma.
OpenMap(l, i, n) ==
  /\ OpensAt(l, i)
  /\ \A h \in 1..n : PairAt(l, i + 4 * h - 3) /\ CommaAt(l, i + 4 * h)
  /\ KeysDiffer(l, i, n)

\* string_map after n rounds.
InMap(l, i, st, n) ==
  /\ st.status = "more" => /\ st.i = i + 4 * n + 1 /\ st.entries = PairsRead(l, i, n)
                           /\ OpenMap(l, i, n)
  /\ st.status = "end" => \E k \in 1..n : IsMap(l, i, st.i - 1, k) /\ st.entries = PairsRead(l, i, k)
  /\ st.status = "bad" => \A j : \A k \in Nat \ {0} : ~IsMap(l, i, j, k)

LEMMA InMapStep ==
  ASSUME NEW l, NEW i \in Nat, NEW n \in Nat, NEW st \in EntryStates,
         InMap(l, i, st, n)
  PROVE  InMap(l, i, IF st.status = "more" THEN MapEntry(l, st) ELSE st, n + 1)
<1>1. CASE st.status # "more"
  <2>1. 1..n \subseteq 1..(n + 1)
    OBVIOUS
  <2> QED BY <1>1, <2>1 DEF InMap
<1>2. CASE st.status = "more"
  <2> DEFINE r == MapEntry(l, st)
  <2>0. PICK a, m : a = i + 4 * n + 1 /\ m = n + 1
    OBVIOUS
  <2>1. st.i = a /\ st.entries = PairsRead(l, i, n) /\ OpenMap(l, i, n)
    BY <1>2, <2>0 DEF InMap
  <2>2. /\ a = i + 4 * m - 3 /\ a + 3 = i + 4 * m /\ a + 4 = i + 4 * m + 1
        /\ m \in Nat \ {0} /\ 1..n \subseteq 1..m /\ m \in 1..m /\ n < m
        /\ \A h \in 1..m : h \in 1..n \/ h = m
    BY <2>0
  <2>3. \A j : \A k \in Nat \ {0} : IsMap(l, i, j, k) => k > n
    <3> SUFFICES ASSUME NEW j, NEW k \in Nat \ {0}, IsMap(l, i, j, k), k <= n PROVE FALSE
      OBVIOUS
    <3>1. ClosesAt(l, j) /\ j = i + 4 * k
      BY MapIs
    <3>2. CommaAt(l, i + 4 * k)
      BY <2>1 DEF OpenMap
    <3> QED BY <3>1, <3>2, OneType
  <2>4. CASE ~(PairAt(l, a) /\ Unique(Word(l, a), st.entries))
    <3>1. r = [st EXCEPT !.status = "bad"]
      <4>1. ~(PairAt(l, st.i) /\ Unique(Word(l, st.i), st.entries))
        BY <2>1, <2>4, Zenon
      <4> QED BY <4>1, EntryIs, Zenon
    <3>2. r.status = "bad"
      BY <3>1 DEF EntryStates
    <3>3. ASSUME NEW j, NEW k \in Nat \ {0}, IsMap(l, i, j, k) PROVE FALSE
      <4>1. k \in Nat /\ m \in 1..k /\ \A h \in 1..n : h \in 1..k /\ h < m
        BY <2>0, <2>3, <3>3
      <4>2. (\A h \in 1..k : PairAt(l, i + 4 * h - 3)) /\ KeysDiffer(l, i, k)
        BY <3>3, MapIs
      <4>a. PairAt(l, a)
        BY <2>2, <4>1, <4>2
      <4>3. \A h \in 1..n : Word(l, i + 4 * h - 3) # Word(l, i + 4 * m - 3)
        BY <4>1, <4>2, Zenon DEF KeysDiffer
      <4>4. \A h \in 1..n : Word(l, i + 4 * h - 3) # Word(l, a)
        BY <2>2, <4>3
      <4> QED BY <2>1, <2>4, <4>a, <4>4, UniqueHere
    <3> QED BY <1>2, <3>2, <3>3 DEF InMap
  <2>5. CASE PairAt(l, a) /\ Unique(Word(l, a), st.entries)
    <3>1. r = [i |-> a + 4, entries |-> Append(st.entries, PairRead(l, a)), status |-> AfterAt(l, a + 3)]
      <4>1. PairAt(l, st.i) /\ Unique(Word(l, st.i), st.entries)
        BY <2>1, <2>5, Zenon
      <4> QED BY <2>1, <4>1, EntryIs, Zenon
    <3>2. r.i = i + 4 * m + 1 /\ r.entries = PairsRead(l, i, m) /\ r.status = AfterAt(l, a + 3)
      BY <2>0, <2>1, <2>2, <3>1, PairsMore
    <3>3. KeysDiffer(l, i, m)
      <4>0. Unique(Word(l, a), PairsRead(l, i, n))
        BY <2>1, <2>5, Zenon
      <4>1. \A h \in 1..n : Word(l, i + 4 * h - 3) # Word(l, a)
        BY <4>0, UniqueHere
      <4>2. KeysDiffer(l, i, n)
        BY <2>1 DEF OpenMap
      <4> SUFFICES ASSUME NEW g \in 1..m, NEW h \in 1..m, g < h
                   PROVE  Word(l, i + 4 * g - 3) # Word(l, i + 4 * h - 3)
        BY DEF KeysDiffer
      <4>3. g \in 1..n /\ (h \in 1..n \/ h = m)
        BY <2>0
      <4>4. CASE h = m
        BY <2>2, <4>1, <4>3, <4>4
      <4>5. CASE h \in 1..n
        BY <4>2, <4>3, <4>5, Zenon DEF KeysDiffer
      <4> QED BY <4>3, <4>4, <4>5
    <3>4. \A h \in 1..m : PairAt(l, i + 4 * h - 3) /\ (h < m => CommaAt(l, i + 4 * h))
      <4> SUFFICES ASSUME NEW h \in 1..m
                   PROVE  PairAt(l, i + 4 * h - 3) /\ (h < m => CommaAt(l, i + 4 * h))
        OBVIOUS
      <4>1. CASE h = m
        BY <2>2, <2>5, <4>1
      <4>2. CASE h \in 1..n
        BY <2>1, <4>2 DEF OpenMap
      <4> QED BY <2>2, <4>1, <4>2
    <3>5. CASE CommaAt(l, a + 3)
      <4>1. r.status = "more"
        BY <3>2, <3>5, AfterToken
      <4>2. OpenMap(l, i, m)
        <5>1. CommaAt(l, i + 4 * m)
          BY <2>2, <3>5
        <5>2. \A h \in 1..m : h = m \/ h < m
          BY <2>2
        <5>3. \A h \in 1..m : PairAt(l, i + 4 * h - 3) /\ CommaAt(l, i + 4 * h)
          BY <3>4, <5>1, <5>2
        <5> QED BY <2>1, <3>3, <5>3 DEF OpenMap
      <4> QED BY <1>2, <2>0, <3>2, <4>1, <4>2 DEF InMap
    <3>6. CASE ClosesAt(l, a + 3)
      <4>1. r.status = "end"
        BY <3>2, <3>6, AfterToken, OneType
      <4>2. r.i - 1 = i + 4 * m
        BY <2>2, <3>2
      <4>3. OpensAt(l, i)
        BY <2>1 DEF OpenMap
      <4>4. IsMap(l, i, r.i - 1, m)
        BY <2>2, <3>3, <3>4, <3>6, <4>2, <4>3, MapIs
      <4> QED BY <1>2, <2>0, <2>2, <3>2, <4>1, <4>4 DEF InMap
    <3>7. CASE ~CommaAt(l, a + 3) /\ ~ClosesAt(l, a + 3)
      <4>1. r.status = "bad"
        BY <3>2, <3>7, AfterToken
      <4>2. ASSUME NEW j, NEW k \in Nat \ {0}, IsMap(l, i, j, k) PROVE FALSE
        <5>1. k > n
          BY <2>3, <4>2
        <5>2. CASE k = m
          <6>1. ClosesAt(l, j) /\ j = i + 4 * k
            BY <4>2, MapIs
          <6> QED BY <2>2, <3>7, <5>2, <6>1
        <5>3. CASE k > m
          <6>1. \A h \in 1..k : h < k => CommaAt(l, i + 4 * h)
            BY <4>2, MapIs
          <6>2. m \in 1..k /\ m < k
            BY <2>2, <5>3
          <6> QED BY <2>2, <3>7, <6>1, <6>2
        <5> QED BY <2>0, <5>1, <5>2, <5>3
      <4> QED BY <1>2, <4>1, <4>2 DEF InMap
    <3> QED BY <3>5, <3>6, <3>7
  <2> QED BY <2>4, <2>5
<1> QED BY <1>1, <1>2

\* Before the first round.
LEMMA InMapStart ==
  ASSUME NEW l, NEW i \in Nat, OpensAt(l, i)
  PROVE  InMap(l, i, [i |-> i + 1, entries |-> <<>>, status |-> "more"], 0)
<1> DEFINE start == [i |-> i + 1, entries |-> <<>>, status |-> "more"]
<1>1. start.i = i + 4 * 0 + 1 /\ start.entries = <<>> /\ start.status = "more"
  OBVIOUS
<1>2. 1..0 = {}
  OBVIOUS
<1>3. PairsRead(l, i, 0) = <<>>
  BY <1>2 DEF PairsRead
<1>4. OpenMap(l, i, 0)
  BY <1>2 DEF OpenMap, KeysDiffer
<1> HIDE DEF start
<1> QED BY <1>1, <1>3, <1>4 DEF InMap, start

\* The loop ends before the line does.
LEMMA MapLoop ==
  ASSUME NEW l \in Seq(Tokens), NEW i \in Nat, OpensAt(l, i), NEW r,
         r = WhileMore(MapEntry, l, [i |-> i + 1, entries |-> <<>>, status |-> "more"])
  PROVE  \/ /\ r.status = "end"
            /\ \E k \in 0..Len(l) : IsMap(l, i, r.i - 1, k) /\ r.entries = PairsRead(l, i, k)
         \/ r.status = "bad" /\ \A j : \A k \in Nat \ {0} : ~IsMap(l, i, j, k)
<1> DEFINE start == [i |-> i + 1, entries |-> <<>>, status |-> "more"]
           N == Len(l)
<1>1. start \in EntryStates
  BY DEF EntryStates, Loops
<1>2. InMap(l, i, start, 0)
  BY InMapStart
<1> HIDE DEF start
<1>3. PICK g \in [0..N -> EntryStates] :
        /\ g[0] = start
        /\ \A n \in 1..N :
             g[n] = IF g[n - 1].status = "more" THEN MapEntry(l, g[n - 1]) ELSE g[n - 1]
        /\ WhileMore(MapEntry, l, start) = g[N]
  BY <1>1, EntryRounds, Zenon
<1>4. N \in Nat /\ DOMAIN l = 1..N
  OBVIOUS
<1> HIDE DEF N
<1> DEFINE T == {n \in 0..N : InMap(l, i, g[n], n)}
<1>5. 0 \in T
  BY <1>2, <1>3, <1>4
<1>6. ASSUME NEW n \in 1..N, n - 1 \in T PROVE n \in T
  <2>1. PICK m \in Nat : m = n - 1 /\ n = m + 1 /\ m \in 0..N
    BY <1>4
  <2>2. g[m] \in EntryStates /\ InMap(l, i, g[m], m)
    BY <1>3, <1>6, <2>1
  <2>3. InMap(l, i, IF g[m].status = "more" THEN MapEntry(l, g[m]) ELSE g[m], m + 1)
    BY <2>2, InMapStep
  <2>4. g[n] = IF g[m].status = "more" THEN MapEntry(l, g[m]) ELSE g[m]
    BY <1>3, <2>1
  <2>5. InMap(l, i, g[n], n)
    BY <2>1, <2>3, <2>4
  <2> QED BY <2>5
<1> HIDE DEF T
<1>7. \A n \in 0..N : n \in T
  BY <1>4, <1>5, <1>6, UpTo
<1>8. InMap(l, i, g[N], N) /\ g[N] \in EntryStates
  BY <1>3, <1>4, <1>7 DEF T
<1>9. r = g[N]
  BY <1>3, Zenon DEF start
<1>10. r.status # "more"
  <2> SUFFICES ASSUME OpenMap(l, i, N) PROVE FALSE
    BY <1>8, <1>9 DEF InMap
  <2>1. CASE N = 0
    BY <1>4, <2>1, OneType
  <2>2. CASE N > 0
    <3>1. CommaAt(l, i + 4 * N)
      BY <1>4, <2>2 DEF OpenMap
    <3>2. i + 4 * N \notin DOMAIN l
      BY <1>4, <2>2
    <3> QED BY <3>1, <3>2, OneType
  <2> QED BY <1>4, <2>1, <2>2
<1>11. r.status \in Loops
  BY <1>8, <1>9 DEF EntryStates
<1>12. 1..N \subseteq 0..N
  OBVIOUS
<1> QED BY <1>8, <1>9, <1>10, <1>11, <1>12 DEF InMap, Loops, N

\* string_map reads a map where there is one, and nothing else.
LEMMA MapRead ==
  ASSUME NEW l \in Seq(Tokens), NEW i \in Nat, NEW r, r = StringMap(l, i)
  PROVE  \/ /\ r.status = "end"
            /\ \E k \in 0..Len(l) : IsMap(l, i, r.i - 1, k) /\ r.entries = PairsRead(l, i, k)
         \/ r.status = "bad" /\ \A j : \A k \in Nat : ~IsMap(l, i, j, k)
<1> DEFINE start == [i |-> i + 1, entries |-> <<>>, status |-> "more"]
<1>1. CASE ~OpensAt(l, i)
  <2>1. r = [start EXCEPT !.status = "bad"]
    BY <1>1, Zenon DEF StringMap, OpensAt
  <2>2. r.status = "bad"
    BY <2>1
  <2>3. \A j : \A k \in Nat : ~IsMap(l, i, j, k)
    BY <1>1, MapIs
  <2> QED BY <2>2, <2>3
<1>2. CASE OpensAt(l, i) /\ ClosesAt(l, i + 1)
  <2>1. r = [i |-> i + 2, entries |-> <<>>, status |-> "end"]
    BY <1>2, Zenon DEF StringMap, OpensAt, ClosesAt
  <2>2. r.status = "end" /\ r.i - 1 = i + 1 /\ r.entries = <<>>
    BY <2>1
  <2>3. 1..0 = {} /\ 0 \in 0..Len(l)
    OBVIOUS
  <2>4. IsMap(l, i, r.i - 1, 0)
    BY <1>2, <2>2, <2>3, MapIs DEF KeysDiffer
  <2>5. PairsRead(l, i, 0) = <<>>
    BY <2>3 DEF PairsRead
  <2> QED BY <2>2, <2>3, <2>4, <2>5
<1>3. CASE OpensAt(l, i) /\ ~ClosesAt(l, i + 1)
  <2>1. r = WhileMore(MapEntry, l, start)
    BY <1>3, Zenon DEF StringMap, OpensAt, ClosesAt
  <2>2. \A j : ~IsMap(l, i, j, 0)
    BY <1>3, MapIs
  <2>3. \/ /\ r.status = "end"
           /\ \E k \in 0..Len(l) : IsMap(l, i, r.i - 1, k) /\ r.entries = PairsRead(l, i, k)
        \/ r.status = "bad" /\ \A j : \A k \in Nat \ {0} : ~IsMap(l, i, j, k)
    BY <1>3, <2>1, MapLoop, Zenon
  <2> QED BY <2>2, <2>3
<1> QED BY <1>1, <1>2, <1>3

\* Where a map ends, and how long it is, its beginning decides.
LEMMA OneMap ==
  ASSUME NEW l, NEW i \in Nat, NEW j, NEW k, NEW n \in Nat, NEW m \in Nat,
         IsMap(l, i, j, n), IsMap(l, i, k, m)
  PROVE  n = m /\ j = k
<1>1. ASSUME NEW a, NEW b, NEW p \in Nat, NEW q \in Nat, IsMap(l, i, a, p), IsMap(l, i, b, q), p < q
      PROVE  FALSE
  <2>0. ClosesAt(l, a) /\ a = IF p = 0 THEN i + 1 ELSE i + 4 * p
    BY <1>1, MapIs, Zenon
  <2>1. CASE p = 0
    <3>1. ClosesAt(l, i + 1)
      BY <2>0, <2>1
    <3>2. 1 \in 1..q /\ i + 4 * 1 - 3 = i + 1
      BY <1>1
    <3>3. \A h \in 1..q : PairAt(l, i + 4 * h - 3)
      BY <1>1, MapIs
    <3>4. TextAt(l, i + 1)
      BY <3>2, <3>3 DEF PairAt
    <3> QED BY <3>1, <3>4, OneType
  <2>2. CASE p > 0
    <3>1. ClosesAt(l, a) /\ a = i + 4 * p
      BY <2>0, <2>2
    <3>2. \A h \in 1..q : h < q => CommaAt(l, i + 4 * h)
      BY <1>1, MapIs
    <3>3. p \in 1..q
      BY <1>1, <2>2
    <3> QED BY <1>1, <3>1, <3>2, <3>3, OneType
  <2> QED BY <2>1, <2>2
<1>2. n = m
  BY <1>1
<1>3. /\ j = IF n = 0 THEN i + 1 ELSE i + 4 * n
      /\ k = IF m = 0 THEN i + 1 ELSE i + 4 * m
  BY MapIs
<1> QED BY <1>2, <1>3

LEMMA KeyKinds ==
  ASSUME NEW k
  PROVE  /\ ~(k \in PathKeys /\ k \in MapKeys)
         /\ Key("xattrs") \in MapKeys /\ Key("xattrs_pb") \in MapKeys
<1>1. Key("path") # Key("xattrs") /\ Key("path") # Key("xattrs_pb")
  BY DEF Key
<1>2. Key("path_pb") # Key("xattrs") /\ Key("path_pb") # Key("xattrs_pb")
  BY DEF Key
<1> QED BY <1>1, <1>2 DEF PathKeys, MapKeys

LEMMA MemberIs ==
  ASSUME NEW l, NEW b, NEW e
  PROVE  IsMember(l, b, e) <=>
           /\ TextAt(l, b + 1) /\ ColonAt(l, b + 2)
           /\ \/ KeyAfter(l, b) \in PathKeys /\ TextAt(l, b + 3) /\ e = b + 4
              \/ KeyAfter(l, b) \in MapKeys /\ \E n \in 0..Len(l) : IsMap(l, b + 3, e - 1, n)
BY Zenon DEF IsMember, TextAt, ColonAt

\* Where a member ends its beginning decides.
LEMMA OneMember ==
  ASSUME NEW l \in Seq(Tokens), NEW b \in Nat, NEW e \in Nat, NEW f \in Nat,
         IsMember(l, b, e), IsMember(l, b, f)
  PROVE  e = f /\ b < e
<1>1. CASE KeyAfter(l, b) \in PathKeys
  <2>1. e = b + 4 /\ f = b + 4
    BY <1>1, MemberIs, KeyKinds
  <2> QED BY <2>1
<1>2. CASE KeyAfter(l, b) \notin PathKeys
  <2>1. PICK n \in 0..Len(l) : IsMap(l, b + 3, e - 1, n)
    BY <1>2, MemberIs
  <2>2. PICK m \in 0..Len(l) : IsMap(l, b + 3, f - 1, m)
    BY <1>2, MemberIs
  <2>3. b + 3 \in Nat /\ n \in Nat /\ m \in Nat
    OBVIOUS
  <2>4. e - 1 = f - 1
    BY <2>1, <2>2, <2>3, OneMap
  <2>5. e - 1 > b + 3
    BY <2>1, <2>3, MapEnds
  <2> QED BY <2>4, <2>5
<1> QED BY <1>1, <1>2

PathRead(l, b) == [field |-> KeyAfter(l, b), key |-> <<>>, value |-> Word(l, b + 3)]

\* The key of the member after b can still be met, and what meeting it leaves.
NotMet(l, b, st) ==
  /\ KeyAfter(l, b) \in PathKeys => st.path = {}
  /\ KeyAfter(l, b) \in MapKeys => KeyAfter(l, b) \notin DOMAIN st.maps

MapsMore(maps, k, s) == [x \in DOMAIN maps \cup {k} |-> IF x = k THEN s ELSE maps[x]]

Adds(l, b, e, st, r) ==
  /\ KeyAfter(l, b) \in PathKeys => r.path = {PathRead(l, b)} /\ r.maps = st.maps
  /\ KeyAfter(l, b) \in MapKeys =>
       /\ r.path = st.path
       /\ \E n \in 0..Len(l) : /\ IsMap(l, b + 3, e - 1, n)
                               /\ r.maps = MapsMore(st.maps, KeyAfter(l, b), PairsRead(l, b + 3, n))

LEMMA MemberIf ==
  ASSUME NEW l, NEW st, NEW b \in Nat, st.i = b + 1
  PROVE  LET k   == KeyAfter(l, b)
             map == StringMap(l, b + 3)
             bad == [st EXCEPT !.status = "bad"]
         IN Member(l, st) =
              IF ~(TextAt(l, b + 1) /\ ColonAt(l, b + 2)) THEN bad
              ELSE IF k \in PathKeys /\ st.path = {} /\ TextAt(l, b + 3)
              THEN [st EXCEPT !.i = b + 5, !.status = AfterAt(l, b + 4), !.path = {PathRead(l, b)}]
              ELSE IF k \in MapKeys /\ k \notin DOMAIN st.maps /\ map.status = "end"
              THEN [st EXCEPT !.i = map.i + 1, !.status = AfterAt(l, map.i),
                              !.maps = MapsMore(@, k, map.entries)]
              ELSE bad
<1>1. st.i + 1 = b + 2 /\ st.i + 2 = b + 3 /\ b + 3 + 2 = b + 5 /\ b + 3 + 1 = b + 4
  OBVIOUS
<1> QED BY <1>1, Zenon DEF Member, TextAt, ColonAt, TypeAt, KeyAfter, PathRead, Word, MapsMore, AfterAt

LEMMA MemberReads ==
  ASSUME NEW l \in Seq(Tokens), NEW b \in Nat, NEW st \in MemberStates, st.i = b + 1,
         NEW r, r = Member(l, st)
  PROVE  \/ r.status = "bad" /\ \A e \in Nat : IsMember(l, b, e) => ~NotMet(l, b, st)
         \/ \E e \in Nat : /\ IsMember(l, b, e) /\ NotMet(l, b, st)
                           /\ r.i = e + 1 /\ r.status = AfterAt(l, e) /\ Adds(l, b, e, st, r)
<1> DEFINE k == KeyAfter(l, b)
           map == StringMap(l, b + 3)
           bad == [st EXCEPT !.status = "bad"]
           ofPath == [st EXCEPT !.i = b + 5, !.status = AfterAt(l, b + 4), !.path = {PathRead(l, b)}]
           ofMap == [st EXCEPT !.i = map.i + 1, !.status = AfterAt(l, map.i),
                               !.maps = MapsMore(@, k, map.entries)]
<1>1. r = IF ~(TextAt(l, b + 1) /\ ColonAt(l, b + 2)) THEN bad
          ELSE IF k \in PathKeys /\ st.path = {} /\ TextAt(l, b + 3) THEN ofPath
          ELSE IF k \in MapKeys /\ k \notin DOMAIN st.maps /\ map.status = "end" THEN ofMap
          ELSE bad
  BY MemberIf, Zenon
<1>2. \/ /\ map.status = "end"
         /\ \E n \in 0..Len(l) : IsMap(l, b + 3, map.i - 1, n) /\ map.entries = PairsRead(l, b + 3, n)
      \/ map.status = "bad" /\ \A j : \A n \in Nat : ~IsMap(l, b + 3, j, n)
  <2>1. b + 3 \in Nat
    OBVIOUS
  <2> QED BY <2>1, MapRead, Zenon
<1>3. map.i \in Nat
  <2>1. b + 3 \in Nat
    OBVIOUS
  <2>2. map \in EntryStates
    BY <2>1, MapTyped, Zenon
  <2> HIDE DEF map
  <2> QED BY <2>2 DEF EntryStates
<1>4. bad.status = "bad"
  BY DEF MemberStates
<1>5. /\ ofPath.i = b + 4 + 1 /\ ofPath.status = AfterAt(l, b + 4)
      /\ ofPath.path = {PathRead(l, b)} /\ ofPath.maps = st.maps
  BY DEF MemberStates
<1>6. /\ ofMap.i = map.i + 1 /\ ofMap.status = AfterAt(l, map.i)
      /\ ofMap.path = st.path /\ ofMap.maps = MapsMore(st.maps, k, map.entries)
  <2> HIDE DEF map, k
  <2> QED BY DEF MemberStates
<1>7. 0..Len(l) \subseteq Nat
  OBVIOUS
<1> HIDE DEF k, map, bad, ofPath, ofMap
<1>8. CASE ~(TextAt(l, b + 1) /\ ColonAt(l, b + 2))
  BY <1>1, <1>4, <1>8, MemberIs
<1>9. CASE TextAt(l, b + 1) /\ ColonAt(l, b + 2) /\ k \in PathKeys
  <2>1. k \notin MapKeys
    BY <1>9, KeyKinds
  <2>2. CASE st.path = {} /\ TextAt(l, b + 3)
    <3>1. r = ofPath
      BY <1>1, <1>9, <2>2
    <3>2. IsMember(l, b, b + 4) /\ b + 4 \in Nat
      BY <1>9, <2>2, MemberIs DEF k
    <3>3. NotMet(l, b, st) /\ Adds(l, b, b + 4, st, r)
      BY <1>5, <2>1, <2>2, <3>1 DEF NotMet, Adds, k
    <3> QED BY <1>5, <3>1, <3>2, <3>3
  <2>3. CASE ~(st.path = {} /\ TextAt(l, b + 3))
    <3>1. r = bad
      BY <1>1, <1>9, <2>1, <2>3
    <3>2. \A e : IsMember(l, b, e) => TextAt(l, b + 3)
      BY <2>1, MemberIs DEF k
    <3> QED BY <1>4, <1>9, <2>3, <3>1, <3>2 DEF NotMet, k
  <2> QED BY <2>2, <2>3
<1>10. CASE TextAt(l, b + 1) /\ ColonAt(l, b + 2) /\ k \notin PathKeys
  <2>1. CASE k \in MapKeys /\ k \notin DOMAIN st.maps /\ map.status = "end"
    <3>1. r = ofMap
      BY <1>1, <1>10, <2>1
    <3>2. PICK n \in 0..Len(l) : IsMap(l, b + 3, map.i - 1, n) /\ map.entries = PairsRead(l, b + 3, n)
      BY <1>2, <2>1
    <3>3. IsMember(l, b, map.i)
      BY <1>10, <2>1, <3>2, MemberIs DEF k
    <3>4. NotMet(l, b, st) /\ Adds(l, b, map.i, st, r)
      BY <1>6, <1>10, <2>1, <3>1, <3>2 DEF NotMet, Adds, k
    <3> QED BY <1>3, <1>6, <3>1, <3>3, <3>4
  <2>2. CASE ~(k \in MapKeys /\ k \notin DOMAIN st.maps /\ map.status = "end")
    <3>1. r = bad
      BY <1>1, <1>10, <2>2
    <3>2. ASSUME NEW e \in Nat, IsMember(l, b, e), NotMet(l, b, st) PROVE FALSE
      <4>1. k \in MapKeys /\ \E n \in 0..Len(l) : IsMap(l, b + 3, e - 1, n)
        BY <1>10, <3>2, MemberIs DEF k
      <4>2. map.status = "end"
        BY <1>2, <1>7, <4>1
      <4> QED BY <2>2, <3>2, <4>1, <4>2 DEF NotMet, k
    <3> QED BY <1>4, <3>1, <3>2
  <2> QED BY <2>1, <2>2
<1> QED BY <1>8, <1>9, <1>10

-----------------------------------------------------------------------------
(* Boundaries between members                                              *)

LEMMA NeighbourIs ==
  ASSUME NEW B, NEW x, NEW y
  PROVE  <<x, y>> \in Neighbours(B) <=> x \in B /\ y \in B /\ x < y /\ \A c \in B : c <= x \/ y <= c
BY DEF Neighbours

LEMMA NeighbourPair ==
  ASSUME NEW B, NEW m \in Neighbours(B)
  PROVE  m = <<m[1], m[2]>>
BY DEF Neighbours

\* A boundary after all others begins one more member.
LEMMA NeighboursMore ==
  ASSUME NEW b \in Nat, NEW e \in Nat, b < e, NEW B \in SUBSET (1..b), b \in B
  PROVE  Neighbours(B \cup {e}) = Neighbours(B) \cup {<<b, e>>}
<1> DEFINE D == B \cup {e}
<1>1. \A c \in B : c \in Nat /\ c <= b /\ c < e /\ c # e
  OBVIOUS
<1>2. ASSUME NEW x, NEW y, <<x, y>> \in Neighbours(D)
      PROVE  <<x, y>> \in Neighbours(B) \/ <<x, y>> = <<b, e>>
  <2>1. x \in D /\ y \in D /\ x < y /\ \A c \in D : c <= x \/ y <= c
    BY <1>2, NeighbourIs
  <2>2. CASE y = e
    <3>1. x \in B /\ b <= x
      BY <1>1, <2>1, <2>2
    <3> QED BY <1>1, <2>2, <3>1
  <2>3. CASE y # e
    <3>1. x \in B /\ y \in B
      BY <1>1, <2>1, <2>3
    <3> QED BY <2>1, <3>1, NeighbourIs
  <2> QED BY <2>2, <2>3
<1>3. ASSUME NEW x, NEW y, <<x, y>> \in Neighbours(B)
      PROVE  <<x, y>> \in Neighbours(D)
  <2>1. x \in B /\ y \in B /\ x < y /\ \A c \in B : c <= x \/ y <= c
    BY <1>3, NeighbourIs
  <2>2. x \in D /\ y \in D /\ \A c \in D : c <= x \/ y <= c
    BY <1>1, <2>1
  <2> QED BY <2>1, <2>2, NeighbourIs, Zenon
<1>4. <<b, e>> \in Neighbours(D)
  <2>1. b \in D /\ e \in D /\ \A c \in D : c <= b \/ e <= c
    BY <1>1
  <2> QED BY <2>1, NeighbourIs, Zenon
<1> HIDE DEF D
<1>5. \A m \in Neighbours(D) : m \in Neighbours(B) \cup {<<b, e>>}
  BY <1>2, NeighbourPair
<1>6. \A m \in Neighbours(B) : m \in Neighbours(D)
  BY <1>3, NeighbourPair
<1> QED BY <1>4, <1>5, <1>6 DEF D

LEMMA NeighboursBelow ==
  ASSUME NEW b \in Nat, NEW D \in SUBSET (Nat \ {0}), NEW B, B = D \cap (1..b), b \in B
  PROVE  Neighbours(B) \subseteq Neighbours(D)
<1>1. ASSUME NEW x, NEW y, <<x, y>> \in Neighbours(B)
      PROVE  <<x, y>> \in Neighbours(D)
  <2>1. x \in B /\ y \in B /\ x < y /\ \A c \in B : c <= x \/ y <= c
    BY <1>1, NeighbourIs
  <2>2. x \in D /\ y \in D /\ y <= b /\ y \in Nat
    BY <2>1
  <2>3. \A c \in D : c \in B \/ c > b
    OBVIOUS
  <2>4. \A c \in D : c <= x \/ y <= c
    BY <2>1, <2>2, <2>3
  <2> QED BY <2>1, <2>2, <2>4, NeighbourIs
<1> QED BY <1>1, NeighbourPair

LEMMA NextBoundary ==
  ASSUME NEW b \in Nat, NEW D \in SUBSET (Nat \ {0}), b \in D, NEW x \in D, x > b
  PROVE  \E e \in D : e > b /\ <<b, e>> \in Neighbours(D) /\ D \cap (1..e) = (D \cap (1..b)) \cup {e}
<1> DEFINE T == {d \in D : d > b}
<1>1. PICK e \in T : \A y \in Nat : y < e => y \notin T
  <2>1. T \subseteq Nat /\ T # {}
    OBVIOUS
  <2> HIDE DEF T
  <2> QED BY <2>1, LeastOf
<1>2. e \in D /\ e > b /\ e \in Nat
  BY <1>1
<1>3. \A c \in D : c <= b \/ e <= c
  BY <1>1
<1>4. <<b, e>> \in Neighbours(D)
  BY <1>2, <1>3, NeighbourIs
<1>5. D \cap (1..e) = (D \cap (1..b)) \cup {e}
  BY <1>2, <1>3
<1> QED BY <1>2, <1>4, <1>5

\* Two members that no object has at once.
Clash(l, m, o) ==
  \/ KeyAfter(l, m[1]) = KeyAfter(l, o[1])
  \/ KeyAfter(l, m[1]) \in PathKeys /\ KeyAfter(l, o[1]) \in PathKeys

Sound(l, M) ==
  /\ \A m \in M : IsMember(l, m[1], m[2])
  /\ \A m, o \in M : m # o => ~Clash(l, m, o)

HasPath(l, M) == \E m \in M : KeyAfter(l, m[1]) \in PathKeys

Bounds(l, C) == {1, Len(l)} \cup C

LEMMA ReadingIs ==
  ASSUME NEW l, NEW C
  PROVE  C \in Readings(l) <=>
           /\ OpensAt(l, 1) /\ ClosesAt(l, Len(l)) /\ C \in SUBSET Commas(l)
           /\ Sound(l, Neighbours(Bounds(l, C))) /\ HasPath(l, Neighbours(Bounds(l, C)))
<1> DEFINE M == Neighbours(Bounds(l, C))
<1>1. C \in Readings(l) <=>
        OpensAt(l, 1) /\ ClosesAt(l, Len(l)) /\ C \in SUBSET Commas(l) /\ IsReading(l, C)
  BY Zenon DEF Readings, OpensAt, ClosesAt
<1>2. Members(l, C) = M
  BY DEF Members, Bounds
<1>3. IsReading(l, C) <=>
        /\ \A m \in M : IsMember(l, m[1], m[2])
        /\ \A m, o \in M : m # o => KeyAfter(l, m[1]) # KeyAfter(l, o[1])
        /\ \E m \in M : /\ KeyAfter(l, m[1]) \in PathKeys
                        /\ \A o \in M \ {m} : KeyAfter(l, o[1]) \notin PathKeys
  BY <1>2, Zenon DEF IsReading
<1> HIDE DEF M
<1>4. IsReading(l, C) <=> Sound(l, M) /\ HasPath(l, M)
  BY <1>3 DEF Sound, HasPath, Clash
<1> QED BY <1>1, <1>4 DEF M

LEMMA ReadingBounds ==
  ASSUME NEW l \in Seq(Tokens), NEW C \in Readings(l), NEW D, D = Bounds(l, C)
  PROVE  /\ D \in SUBSET (1..Len(l)) /\ 1 \in D /\ Len(l) \in D /\ Len(l) > 1
         /\ \A d \in D : d = 1 \/ d = Len(l) \/ CommaAt(l, d)
         /\ ClosesAt(l, Len(l))
<1>1. OpensAt(l, 1) /\ ClosesAt(l, Len(l)) /\ C \in SUBSET Commas(l)
  BY ReadingIs
<1>2. Len(l) \in Nat /\ DOMAIN l = 1..Len(l)
  OBVIOUS
<1>3. 1 \in 1..Len(l) /\ Len(l) # 1
  BY <1>1, <1>2, OneType
<1>4. \A c \in Commas(l) : c \in 1..Len(l) /\ CommaAt(l, c)
  BY <1>2, Zenon DEF Commas, CommaAt, TypeAt, TokenAt
<1>5. \A d \in D : d = 1 \/ d = Len(l) \/ d \in Commas(l)
  BY <1>1 DEF Bounds
<1>6. D \in SUBSET (1..Len(l)) /\ \A d \in D : d = 1 \/ d = Len(l) \/ CommaAt(l, d)
  <2>1. Len(l) \in 1..Len(l)
    BY <1>2, <1>3
  <2> QED BY <1>3, <1>4, <1>5, <2>1
<1>7. 1 \in D /\ Len(l) \in D
  BY DEF Bounds
<1>8. Len(l) > 1
  BY <1>2, <1>3
<1> QED BY <1>1, <1>6, <1>7, <1>8, Zenon

\* What the parser keeps of the members M.
Kept(l, M, st) ==
  /\ Sound(l, M)
  /\ st.path = {PathRead(l, m[1]) : m \in {o \in M : KeyAfter(l, o[1]) \in PathKeys}}
  /\ DOMAIN st.maps = {KeyAfter(l, m[1]) : m \in M} \cap MapKeys
  /\ \A m \in M : KeyAfter(l, m[1]) \in MapKeys =>
       \E n \in 0..Len(l) : /\ IsMap(l, m[1] + 3, m[2] - 1, n)
                            /\ st.maps[KeyAfter(l, m[1])] = PairsRead(l, m[1] + 3, n)

\* A key can be met when no member has it, or its like.
LEMMA NotMetIs ==
  ASSUME NEW l, NEW M, NEW st, Kept(l, M, st), NEW b, NEW e, IsMember(l, b, e)
  PROVE  NotMet(l, b, st) <=> \A m \in M : ~Clash(l, m, <<b, e>>)
<1>1. <<b, e>>[1] = b
  OBVIOUS
<1>2. CASE KeyAfter(l, b) \in PathKeys
  <2>1. st.path = {} <=> \A m \in M : KeyAfter(l, m[1]) \notin PathKeys
    BY DEF Kept
  <2> QED BY <1>1, <1>2, <2>1, KeyKinds DEF NotMet, Clash
<1>3. CASE KeyAfter(l, b) \notin PathKeys
  <2>1. KeyAfter(l, b) \in MapKeys
    BY <1>3, MemberIs
  <2>2. KeyAfter(l, b) \notin DOMAIN st.maps <=> \A m \in M : KeyAfter(l, m[1]) # KeyAfter(l, b)
    BY <2>1 DEF Kept
  <2> QED BY <1>1, <1>3, <2>1, <2>2 DEF NotMet, Clash
<1> QED BY <1>2, <1>3

LEMMA KeptMore ==
  ASSUME NEW l, NEW M, NEW st, Kept(l, M, st), NEW b, NEW e, IsMember(l, b, e),
         NotMet(l, b, st), NEW r, Adds(l, b, e, st, r)
  PROVE  Kept(l, M \cup {<<b, e>>}, r)
<1> DEFINE k == KeyAfter(l, b)
           more == M \cup {<<b, e>>}
<1>0. PICK p : p = <<b, e>>
  OBVIOUS
<1>1. p = <<b, e>> /\ p[1] = b /\ p[2] = e
  BY <1>0
<1>2. \A m \in M : ~Clash(l, m, p)
  BY <1>1, NotMetIs
<1>3. Sound(l, more)
  <2>1. \A m \in M : ~Clash(l, p, m)
    BY <1>2 DEF Clash
  <2> QED BY <1>1, <1>2, <2>1 DEF Kept, Sound
<1>4. \A m \in more : m \in M \/ m = p
  BY <1>1
<1>5. M \subseteq more /\ p \in more
  BY <1>1
<1>6. k \in PathKeys \/ k \in MapKeys
  BY MemberIs
<1>7. CASE k \in PathKeys
  <2>1. r.path = {PathRead(l, b)} /\ r.maps = st.maps
    BY <1>7 DEF Adds
  <2>2. k \notin MapKeys
    BY <1>7, KeyKinds
  <2>3. \A m \in M : KeyAfter(l, m[1]) \notin PathKeys
    BY <1>1, <1>2, <1>7 DEF Clash
  <2> HIDE DEF more
  <2>4. {o \in more : KeyAfter(l, o[1]) \in PathKeys} = {p}
    BY <1>1, <1>4, <1>5, <1>7, <2>3
  <2>5. r.path = {PathRead(l, m[1]) : m \in {o \in more : KeyAfter(l, o[1]) \in PathKeys}}
    BY <1>1, <2>1, <2>4
  <2>6. {KeyAfter(l, m[1]) : m \in more} \cap MapKeys = {KeyAfter(l, m[1]) : m \in M} \cap MapKeys
    BY <1>1, <1>4, <1>5, <2>2
  <2>7. \A m \in more : KeyAfter(l, m[1]) \in MapKeys => m \in M
    BY <1>1, <1>4, <2>2
  <2> QED BY <1>3, <2>1, <2>5, <2>6, <2>7 DEF Kept, more
<1>8. CASE k \in MapKeys
  <2>1. PICK n \in 0..Len(l) : /\ IsMap(l, b + 3, e - 1, n)
                               /\ r.maps = MapsMore(st.maps, k, PairsRead(l, b + 3, n))
    BY <1>8 DEF Adds
  <2>2. r.path = st.path /\ k \notin PathKeys
    BY <1>8, KeyKinds DEF Adds
  <2> HIDE DEF more
  <2>3. {o \in more : KeyAfter(l, o[1]) \in PathKeys} = {o \in M : KeyAfter(l, o[1]) \in PathKeys}
    BY <1>1, <1>4, <1>5, <2>2
  <2>4. DOMAIN r.maps = DOMAIN st.maps \cup {k}
    BY <2>1 DEF MapsMore
  <2>5. DOMAIN r.maps = {KeyAfter(l, m[1]) : m \in more} \cap MapKeys
    BY <1>1, <1>4, <1>5, <1>8, <2>4 DEF Kept
  <2>6. r.maps[k] = PairsRead(l, b + 3, n)
    BY <2>1 DEF MapsMore
  <2>7. \A x \in DOMAIN st.maps : x # k => r.maps[x] = st.maps[x]
    BY <2>1 DEF MapsMore
  <2>8. ASSUME NEW m \in M, KeyAfter(l, m[1]) \in MapKeys
        PROVE  \E h \in 0..Len(l) : /\ IsMap(l, m[1] + 3, m[2] - 1, h)
                                    /\ r.maps[KeyAfter(l, m[1])] = PairsRead(l, m[1] + 3, h)
    <3>1. KeyAfter(l, m[1]) # k
      BY <1>1, <1>2 DEF Clash
    <3>2. KeyAfter(l, m[1]) \in DOMAIN st.maps
      BY <2>8 DEF Kept
    <3> QED BY <2>7, <2>8, <3>1, <3>2 DEF Kept
  <2>9. \A m \in more : KeyAfter(l, m[1]) \in MapKeys =>
          \E h \in 0..Len(l) : /\ IsMap(l, m[1] + 3, m[2] - 1, h)
                               /\ r.maps[KeyAfter(l, m[1])] = PairsRead(l, m[1] + 3, h)
    BY <1>1, <1>4, <2>1, <2>6, <2>8
  <2>10. r.path = {PathRead(l, m[1]) : m \in {o \in more : KeyAfter(l, o[1]) \in PathKeys}}
    BY <2>2, <2>3 DEF Kept
  <2> QED BY <1>3, <2>5, <2>9, <2>10 DEF Kept, more
<1> QED BY <1>6, <1>7, <1>8

\* The parser stands after the boundary b, and B are the boundaries so far:
\* those of every reading.
Upto(l, st, B, b) ==
  /\ st.i = b + 1 /\ b \in B /\ 1 \in B /\ B \in SUBSET (1..b) /\ B \ {1, b} \subseteq Commas(l)
  /\ Kept(l, Neighbours(B), st)
  /\ \A C \in Readings(l) : Bounds(l, C) \cap (1..b) = B

\* parse_line after n members.
InLineAt(l, st, n) ==
  /\ st.status = "more" =>
       \E b \in Nat : \E B : Upto(l, st, B, b) /\ b > n /\ (b = 1 \/ CommaAt(l, b))
  /\ st.status = "end" => \E b \in Nat : \E B : Upto(l, st, B, b) /\ ClosesAt(l, b)
  /\ st.status = "bad" => Readings(l) = {}

\* As long as there is a reading there is a next member.
LEMMA ReadingGoesOn ==
  ASSUME NEW l \in Seq(Tokens), NEW st, NEW B, NEW b \in Nat, Upto(l, st, B, b),
         b = 1 \/ CommaAt(l, b), NEW C \in Readings(l)
  PROVE  \E e \in Nat : /\ IsMember(l, b, e) /\ NotMet(l, b, st)
                        /\ ClosesAt(l, e) \/ CommaAt(l, e)
                        /\ Bounds(l, C) \cap (1..e) = B \cup {e}
<1> DEFINE D == Bounds(l, C)
<1>1. /\ D \in SUBSET (1..Len(l)) /\ 1 \in D /\ Len(l) \in D /\ Len(l) > 1
      /\ \A d \in D : d = 1 \/ d = Len(l) \/ CommaAt(l, d)
      /\ ClosesAt(l, Len(l))
  BY ReadingBounds
<1>2. Sound(l, Neighbours(D))
  BY ReadingIs
<1> HIDE DEF D
<1>3. D \cap (1..b) = B /\ b \in B /\ Kept(l, Neighbours(B), st) /\ B \in SUBSET (1..b)
  BY DEF Upto, D
<1>4. Len(l) \in Nat /\ b \in D /\ D \in SUBSET (Nat \ {0})
  BY <1>1, <1>3
<1>5. Len(l) > b
  <2>1. b \in 1..Len(l)
    BY <1>1, <1>4
  <2>2. b # Len(l)
    BY <1>1, OneType
  <2> QED BY <1>4, <2>1, <2>2
<1>6. PICK e \in D : e > b /\ <<b, e>> \in Neighbours(D) /\ D \cap (1..e) = B \cup {e}
  BY <1>1, <1>3, <1>4, <1>5, NextBoundary
<1>7. e \in Nat /\ (ClosesAt(l, e) \/ CommaAt(l, e))
  BY <1>1, <1>4, <1>6
<1>8. IsMember(l, b, e)
  BY <1>2, <1>6 DEF Sound
<1>9. ASSUME NEW m \in Neighbours(B) PROVE ~Clash(l, m, <<b, e>>)
  <2>1. m \in Neighbours(D)
    BY <1>3, <1>4, NeighboursBelow
  <2>2. m[2] \in B
    BY DEF Neighbours
  <2>3. m # <<b, e>>
    BY <1>3, <1>6, <2>2
  <2> QED BY <1>2, <1>6, <2>1, <2>3 DEF Sound
<1>10. NotMet(l, b, st)
  BY <1>3, <1>8, <1>9, NotMetIs
<1> QED BY <1>6, <1>7, <1>8, <1>10 DEF D

LEMMA InLineStep ==
  ASSUME NEW l \in Seq(Tokens), NEW n \in Nat, NEW st \in MemberStates, InLineAt(l, st, n)
  PROVE  InLineAt(l, IF st.status = "more" THEN Member(l, st) ELSE st, n + 1)
<1>1. CASE st.status # "more"
  BY <1>1 DEF InLineAt
<1>2. CASE st.status = "more"
  <2>1. PICK r : r = Member(l, st)
    OBVIOUS
  <2>2. PICK b \in Nat : \E B : Upto(l, st, B, b) /\ b > n /\ (b = 1 \/ CommaAt(l, b))
    BY <1>2 DEF InLineAt
  <2>3. PICK B : Upto(l, st, B, b) /\ b > n /\ (b = 1 \/ CommaAt(l, b))
    BY <2>2
  <2>4. /\ st.i = b + 1 /\ b \in B /\ 1 \in B /\ B \in SUBSET (1..b) /\ B \ {1, b} \subseteq Commas(l)
        /\ Kept(l, Neighbours(B), st)
    BY <2>3 DEF Upto
  <2>5. \A C \in Readings(l) :
          \E e \in Nat : /\ IsMember(l, b, e) /\ NotMet(l, b, st)
                         /\ ClosesAt(l, e) \/ CommaAt(l, e)
                         /\ Bounds(l, C) \cap (1..e) = B \cup {e}
    BY <2>3, ReadingGoesOn
  <2>6. \/ r.status = "bad" /\ \A e \in Nat : IsMember(l, b, e) => ~NotMet(l, b, st)
        \/ \E e \in Nat : /\ IsMember(l, b, e) /\ NotMet(l, b, st)
                          /\ r.i = e + 1 /\ r.status = AfterAt(l, e) /\ Adds(l, b, e, st, r)
    BY <2>1, <2>4, MemberReads, Zenon
  <2>7. CASE r.status = "bad" /\ \A e \in Nat : IsMember(l, b, e) => ~NotMet(l, b, st)
    <3>1. Readings(l) = {}
      BY <2>5, <2>7
    <3>2. InLineAt(l, r, n + 1)
      BY <2>7, <3>1 DEF InLineAt
    <3> QED BY <1>2, <2>1, <3>2
  <2>8. ASSUME NEW e \in Nat, IsMember(l, b, e), NotMet(l, b, st),
               r.i = e + 1, r.status = AfterAt(l, e), Adds(l, b, e, st, r)
        PROVE  InLineAt(l, r, n + 1)
    <3>1. b < e
      BY <2>8, OneMember
    <3>2. \A C \in Readings(l) : /\ ClosesAt(l, e) \/ CommaAt(l, e)
                                 /\ Bounds(l, C) \cap (1..e) = B \cup {e}
      BY <2>5, <2>8, OneMember
    <3>3. CASE ~ClosesAt(l, e) /\ ~CommaAt(l, e)
      <4>1. r.status = "bad"
        BY <2>8, <3>3, AfterToken
      <4>2. Readings(l) = {}
        BY <3>2, <3>3
      <4> QED BY <4>1, <4>2 DEF InLineAt
    <3>4. Kept(l, Neighbours(B \cup {e}), r)
      <4>1. Neighbours(B \cup {e}) = Neighbours(B) \cup {<<b, e>>}
        BY <2>4, <3>1, NeighboursMore
      <4>2. Kept(l, Neighbours(B) \cup {<<b, e>>}, r)
        BY <2>4, <2>8, KeptMore
      <4> QED BY <4>1, <4>2
    <3>5. b = 1 \/ b \in Commas(l)
      <4>1. DOMAIN l = 1..Len(l)
        OBVIOUS
      <4>2. CommaAt(l, b) => b \in DOMAIN l
        BY OneType
      <4> QED BY <2>3, <4>2, Zenon DEF Commas, CommaAt, TypeAt, TokenAt
    <3>6. Upto(l, r, B \cup {e}, e)
      <4>1. (B \cup {e}) \ {1, e} \subseteq Commas(l)
        BY <2>4, <3>5
      <4>2. B \cup {e} \in SUBSET (1..e)
        BY <2>4, <3>1
      <4> QED BY <2>4, <2>8, <3>2, <3>4, <4>1, <4>2 DEF Upto
    <3>7. CASE CommaAt(l, e)
      <4>1. r.status = "more"
        BY <2>8, <3>7, AfterToken
      <4>2. e > n + 1
        BY <2>3, <3>1
      <4> QED BY <3>6, <3>7, <4>1, <4>2 DEF InLineAt
    <3>8. CASE ClosesAt(l, e)
      <4>1. r.status = "end"
        BY <2>8, <3>8, AfterToken, OneType
      <4> QED BY <3>6, <3>8, <4>1 DEF InLineAt
    <3> QED BY <3>3, <3>7, <3>8
  <2> QED BY <1>2, <2>1, <2>6, <2>7, <2>8
<1> QED BY <1>1, <1>2

\* Before the first member.
LEMMA InLineStart ==
  ASSUME NEW l \in Seq(Tokens), NEW st, st.i = 2, st.path = {}, st.maps = [k \in {} |-> <<>>],
         st.status = "more"
  PROVE  InLineAt(l, st, 0)
<1>1. Neighbours({1}) = {}
  <2>1. ASSUME NEW x, NEW y, <<x, y>> \in Neighbours({1}) PROVE FALSE
    <3>1. x \in {1} /\ y \in {1} /\ x < y
      BY <2>1, NeighbourIs, Zenon
    <3> QED BY <3>1
  <2> QED BY <2>1, NeighbourPair
<1>2. DOMAIN st.maps = {}
  OBVIOUS
<1>3. Kept(l, Neighbours({1}), st)
  BY <1>1, <1>2 DEF Kept, Sound
<1>4. \A C \in Readings(l) : Bounds(l, C) \cap (1..1) = {1}
  BY DEF Bounds
<1>5. Upto(l, st, {1}, 1)
  BY <1>3, <1>4 DEF Upto
<1> QED BY <1>5 DEF InLineAt

\* The loop ends before the line does.
LEMMA LineLoop ==
  ASSUME NEW l \in Seq(Tokens), OpensAt(l, 1), NEW start \in MemberStates, start.i = 2,
         start.path = {}, start.maps = [k \in {} |-> <<>>], start.status = "more",
         NEW r, r = WhileMore(Member, l, start)
  PROVE  \/ r.status = "end" /\ \E b \in Nat : \E B : Upto(l, r, B, b) /\ ClosesAt(l, b)
         \/ r.status = "bad" /\ Readings(l) = {}
<1> DEFINE N == Len(l)
<1>3. PICK g \in [0..N -> MemberStates] :
        /\ g[0] = start
        /\ \A n \in 1..N :
             g[n] = IF g[n - 1].status = "more" THEN Member(l, g[n - 1]) ELSE g[n - 1]
        /\ WhileMore(Member, l, start) = g[N]
  BY MemberRounds, Zenon
<1>4. N \in Nat /\ DOMAIN l = 1..N
  OBVIOUS
<1> HIDE DEF N
<1> DEFINE T == {n \in 0..N : InLineAt(l, g[n], n)}
<1>5. 0 \in T
  BY <1>3, <1>4, InLineStart
<1>6. ASSUME NEW n \in 1..N, n - 1 \in T PROVE n \in T
  <2>1. PICK m \in Nat : m = n - 1 /\ n = m + 1 /\ m \in 0..N
    BY <1>4
  <2>2. g[m] \in MemberStates /\ InLineAt(l, g[m], m)
    BY <1>3, <1>6, <2>1
  <2>3. InLineAt(l, IF g[m].status = "more" THEN Member(l, g[m]) ELSE g[m], m + 1)
    BY <2>2, InLineStep
  <2>4. g[n] = IF g[m].status = "more" THEN Member(l, g[m]) ELSE g[m]
    BY <1>3, <2>1
  <2>5. InLineAt(l, g[n], n)
    BY <2>1, <2>3, <2>4
  <2> QED BY <2>5
<1> HIDE DEF T
<1>7. \A n \in 0..N : n \in T
  BY <1>4, <1>5, <1>6, UpTo
<1>8. InLineAt(l, g[N], N) /\ g[N] \in MemberStates
  BY <1>3, <1>4, <1>7 DEF T
<1>9. r = g[N]
  BY <1>3, Zenon
<1>10. r.status # "more"
  <2> SUFFICES ASSUME NEW b \in Nat, b > N, b = 1 \/ CommaAt(l, b) PROVE FALSE
    BY <1>8, <1>9 DEF InLineAt
  <2>1. b \notin DOMAIN l
    BY <1>4
  <2> QED BY <2>1, OneType
<1>11. r.status \in Loops
  BY <1>8, <1>9 DEF MemberStates
<1> QED BY <1>8, <1>9, <1>10, <1>11 DEF InLineAt, Loops

LEMMA NoReading ==
  ASSUME NEW l \in Seq(Tokens), NEW st, st.i = 2, st.path = {}, st.maps = [k \in {} |-> <<>>],
         st.status = "more", ClosesAt(l, 2)
  PROVE  Readings(l) = {}
<1> SUFFICES ASSUME NEW C \in Readings(l) PROVE FALSE
  OBVIOUS
<1>1. PICK b \in Nat : \E B : Upto(l, st, B, b) /\ b > 0 /\ (b = 1 \/ CommaAt(l, b))
  BY InLineStart DEF InLineAt
<1>2. b = 1
  BY <1>1 DEF Upto
<1>3. PICK e \in Nat : IsMember(l, b, e)
  BY <1>1, ReadingGoesOn
<1>4. TextAt(l, b + 1)
  BY <1>3, MemberIs
<1>5. b + 1 = 2
  BY <1>2
<1> QED BY <1>4, <1>5, OneType

\* What parse_line knows of a line in the end.
LEMMA LineEnds ==
  ASSUME NEW l \in Seq(Tokens)
  PROVE  \E st \in MemberStates :
           /\ ParseLine(l) =
                IF st.status = "end" /\ st.i = Len(l) + 1 /\ st.path # {}
                THEN [ok |-> TRUE,
                      fields |-> SetToSeq(st.path) \o Emitted(st.maps, Key("xattrs"))
                                                   \o Emitted(st.maps, Key("xattrs_pb"))]
                ELSE [ok |-> FALSE, fields |-> <<>>]
           /\ \/ /\ OpensAt(l, 1) /\ st.status = "end"
                 /\ \E b \in Nat : \E B : Upto(l, st, B, b) /\ ClosesAt(l, b)
              \/ (st.status = "bad" \/ st.path = {}) /\ Readings(l) = {}
<1> DEFINE start == [i |-> 2, path |-> {}, maps |-> [k \in {} |-> <<>>], status |-> "more"]
           bad == [start EXCEPT !.status = "bad"]
           none == [start EXCEPT !.i = 3, !.status = "end"]
           st == IF ~OpensAt(l, 1) THEN bad ELSE IF ClosesAt(l, 2) THEN none
                 ELSE WhileMore(Member, l, start)
           Ends(s) == \/ s.status = "end" /\ \E b \in Nat : \E B : Upto(l, s, B, b) /\ ClosesAt(l, b)
                      \/ (s.status = "bad" \/ s.path = {}) /\ Readings(l) = {}
<1>1. start \in MemberStates
  <2>1. [k \in {} |-> <<>>] \in [{} -> Seq(Pairs)] /\ {} \in SUBSET MapKeys
    OBVIOUS
  <2> DEFINE nothing == [k \in {} |-> <<>>]
  <2>2. nothing \in MapsOfLine
    BY <2>1 DEF MapsOfLine
  <2>3. start = [i |-> 2, path |-> {}, maps |-> nothing, status |-> "more"]
    OBVIOUS
  <2> HIDE DEF nothing, start
  <2> QED BY <2>2, <2>3 DEF MemberStates, Loops
<1>2. ParseLine(l) =
        IF st.status = "end" /\ st.i = Len(l) + 1 /\ st.path # {}
        THEN [ok |-> TRUE,
              fields |-> SetToSeq(st.path) \o Emitted(st.maps, Key("xattrs"))
                                           \o Emitted(st.maps, Key("xattrs_pb"))]
        ELSE [ok |-> FALSE, fields |-> <<>>]
  BY Zenon DEF ParseLine, OpensAt, ClosesAt
<1>3. /\ start.i = 2 /\ start.path = {} /\ start.maps = [k \in {} |-> <<>>]
      /\ start.status = "more"
  OBVIOUS
<1> HIDE DEF start
<1>4. bad \in MemberStates /\ none \in MemberStates /\ bad.status = "bad" /\ none.path = {}
  BY <1>1, <1>3 DEF MemberStates, Loops
<1>5. WhileMore(Member, l, start) \in MemberStates
  BY <1>1, MembersTyped
<1> HIDE DEF bad, none
<1>6. CASE ~OpensAt(l, 1)
  <2>1. Readings(l) = {}
    BY <1>6, Zenon DEF Readings, OpensAt
  <2>2. st = bad
    BY <1>6
  <2> QED BY <1>2, <1>4, <2>1, <2>2
<1>7. CASE OpensAt(l, 1) /\ ClosesAt(l, 2)
  <2>1. Readings(l) = {}
    BY <1>3, <1>7, NoReading
  <2>2. st = none
    BY <1>7
  <2> QED BY <1>2, <1>4, <2>1, <2>2
<1>8. CASE OpensAt(l, 1) /\ ~ClosesAt(l, 2)
  <2>1. st = WhileMore(Member, l, start)
    BY <1>8, Zenon
  <2>2. Ends(st)
    BY <1>1, <1>3, <1>8, <2>1, LineLoop, Zenon
  <2> HIDE DEF st
  <2> QED BY <1>2, <1>5, <1>8, <2>1, <2>2, Zenon
<1> QED BY <1>6, <1>7, <1>8

\* The path that is meant is the one that was read.
LEMMA PathMeant ==
  ASSUME NEW l, NEW M, NEW st, Kept(l, M, st), HasPath(l, M)
  PROVE  SetToSeq(st.path) = <<MeantPath(l, M)>>
<1> DEFINE Has(m) == KeyAfter(l, m[1]) \in PathKeys
<1>1. PICK m : m = CHOOSE o \in M : Has(o)
  OBVIOUS
<1>2. m \in M /\ Has(m)
  BY <1>1 DEF HasPath
<1>3. {o \in M : Has(o)} = {m}
  BY <1>2 DEF Kept, Sound, Clash
<1>4. st.path = {PathRead(l, m[1])}
  BY <1>3 DEF Kept
<1>5. MeantPath(l, M) = PathRead(l, m[1])
  BY <1>1, Zenon DEF MeantPath, PathRead, Word
<1> QED BY <1>4, <1>5, SeqOfOne

\* And so are the maps.
LEMMA MapMeant ==
  ASSUME NEW l \in Seq(Tokens), NEW M, NEW st, Kept(l, M, st), NEW k \in MapKeys,
         \A m \in M : m[1] \in Nat
  PROVE  Emitted(st.maps, k) = MeantMap(l, M, k)
<1> DEFINE at == {m \in M : KeyAfter(l, m[1]) = k}
<1>1. CASE at = {}
  <2>1. k \notin DOMAIN st.maps
    BY <1>1 DEF Kept
  <2>2. MeantMap(l, M, k) = <<>>
    BY <1>1, Zenon DEF MeantMap
  <2> QED BY <2>1, <2>2 DEF Emitted
<1>2. CASE at # {}
  <2>1. PICK m : m = CHOOSE o \in at : TRUE
    OBVIOUS
  <2>2. m \in M /\ KeyAfter(l, m[1]) = k /\ m[1] \in Nat
    <3>1. m \in at
      BY <1>2, <2>1
    <3> QED BY <3>1
  <2>3. PICK h \in 0..Len(l) : /\ IsMap(l, m[1] + 3, m[2] - 1, h)
                               /\ st.maps[k] = PairsRead(l, m[1] + 3, h)
    BY <2>2 DEF Kept
  <2>4. PICK n : n = CHOOSE o \in 0..Len(l) : IsMap(l, m[1] + 3, m[2] - 1, o)
    OBVIOUS
  <2>5. n \in 0..Len(l) /\ IsMap(l, m[1] + 3, m[2] - 1, n)
    BY <2>3, <2>4, Zenon
  <2>6. n = h
    <3>1. n \in Nat /\ h \in Nat /\ m[1] + 3 \in Nat
      BY <2>2, <2>5
    <3> QED BY <2>3, <2>5, <3>1, OneMap
  <2> DEFINE a == m[1]
             meant == [j \in 1..n |-> [field |-> k, key |-> TokenAt(l, a + 4 * j).text,
                                       value |-> TokenAt(l, a + 4 * j + 2).text]]
             s == PairsRead(l, a + 3, n)
  <2>7. MeantMap(l, M, k) = meant
    BY <1>2, <2>1, <2>4, Zenon DEF MeantMap
  <2>8. k \in DOMAIN st.maps
    BY <2>2 DEF Kept
  <2>9. Emitted(st.maps, k) = [j \in DOMAIN s |-> [field |-> k, key |-> s[j].key, value |-> s[j].value]]
    BY <2>3, <2>6, <2>8, Zenon DEF Emitted
  <2>10. DOMAIN s = 1..n
    BY DEF PairsRead
  <2>11. ASSUME NEW j \in 1..n
         PROVE  s[j].key = TokenAt(l, a + 4 * j).text /\ s[j].value = TokenAt(l, a + 4 * j + 2).text
    <3>1. s[j] = PairRead(l, a + 3 + 4 * j - 3)
      BY DEF PairsRead
    <3>2. a + 3 + 4 * j - 3 = a + 4 * j
      BY <2>2, <2>5
    <3> QED BY <3>1, <3>2 DEF PairRead, Word
  <2> HIDE DEF s, a
  <2> QED BY <2>7, <2>9, <2>10, <2>11
<1> QED BY <1>1, <1>2

\* parse_line accepts the lines that are dump lines and no others, and what it
\* emits is what they say.
LEMMA LineRead ==
  ASSUME NEW l \in Seq(Tokens), NEW parsed, parsed = ParseLine(l)
  PROVE  /\ parsed.fields = IF Readings(l) = {} THEN <<>> ELSE Meaning(l)
         /\ parsed.ok <=> parsed.fields # <<>>
<1>1. PICK st \in MemberStates :
        /\ ParseLine(l) =
             IF st.status = "end" /\ st.i = Len(l) + 1 /\ st.path # {}
             THEN [ok |-> TRUE,
                   fields |-> SetToSeq(st.path) \o Emitted(st.maps, Key("xattrs"))
                                                \o Emitted(st.maps, Key("xattrs_pb"))]
             ELSE [ok |-> FALSE, fields |-> <<>>]
        /\ \/ /\ OpensAt(l, 1) /\ st.status = "end"
              /\ \E b \in Nat : \E B : Upto(l, st, B, b) /\ ClosesAt(l, b)
           \/ (st.status = "bad" \/ st.path = {}) /\ Readings(l) = {}
  BY LineEnds, Zenon
<1> DEFINE whole == SetToSeq(st.path) \o Emitted(st.maps, Key("xattrs"))
                                      \o Emitted(st.maps, Key("xattrs_pb"))
           good == st.status = "end" /\ st.i = Len(l) + 1 /\ st.path # {}
<1>2. parsed = IF good THEN [ok |-> TRUE, fields |-> whole] ELSE [ok |-> FALSE, fields |-> <<>>]
  BY <1>1, Zenon
<1>3. IF parsed.ok THEN parsed.fields \in FieldsOfLine ELSE parsed.fields = <<>>
  BY ParsedType
<1> HIDE DEF whole
<1>4. parsed.ok <=> parsed.fields # <<>>
  <2>1. \A s \in FieldsOfLine : s # <<>>
    BY DEF FieldsOfLine
  <2> QED BY <1>2, <1>3, <2>1
<1>5. CASE (st.status = "bad" \/ st.path = {}) /\ Readings(l) = {}
  BY <1>2, <1>4, <1>5
<1>6. ASSUME NEW b \in Nat, NEW B, OpensAt(l, 1), st.status = "end", Upto(l, st, B, b), ClosesAt(l, b)
      PROVE  parsed.fields = IF Readings(l) = {} THEN <<>> ELSE Meaning(l)
  <2>1. /\ st.i = b + 1 /\ b \in B /\ 1 \in B /\ B \in SUBSET (1..b) /\ B \ {1, b} \subseteq Commas(l)
        /\ Kept(l, Neighbours(B), st)
        /\ \A C \in Readings(l) : Bounds(l, C) \cap (1..b) = B
    BY <1>6 DEF Upto
  <2>2. ASSUME NEW C \in Readings(l) PROVE b = Len(l) /\ Bounds(l, C) = B
    <3>1. PICK D : D = Bounds(l, C)
      OBVIOUS
    <3>2. /\ D \in SUBSET (1..Len(l)) /\ 1 \in D /\ Len(l) \in D /\ Len(l) > 1
          /\ \A d \in D : d = 1 \/ d = Len(l) \/ CommaAt(l, d)
      BY <3>1, ReadingBounds
    <3>3. OpensAt(l, 1)
      BY ReadingIs
    <3>4. b # 1 /\ ~CommaAt(l, b)
      BY <1>6, <3>3, OneType
    <3>5. b \in D
      BY <2>1, <3>1
    <3>6. b = Len(l)
      BY <3>2, <3>4, <3>5
    <3> QED BY <2>1, <3>1, <3>2, <3>6
  <2>3. HasPath(l, Neighbours(B)) <=> st.path # {}
    BY <2>1 DEF Kept, HasPath
  <2>4. CASE ~good
    <3>1. ASSUME NEW C \in Readings(l) PROVE FALSE
      <4>1. b = Len(l) /\ Bounds(l, C) = B
        BY <2>2
      <4>2. HasPath(l, Neighbours(B))
        BY <4>1, ReadingIs
      <4> QED BY <1>6, <2>1, <2>3, <2>4, <4>1, <4>2
    <3> QED BY <1>2, <2>4, <3>1
  <2>5. CASE good
    <3>1. b = Len(l) /\ HasPath(l, Neighbours(B))
      <4>1. Len(l) \in Nat
        OBVIOUS
      <4> QED BY <2>1, <2>3, <2>5, <4>1
    <3> DEFINE M == Neighbours(B)
               C == CHOOSE C \in Readings(l) : TRUE
    <3>2. PICK inner : inner = B \ {1, Len(l)}
      OBVIOUS
    <3>3. Bounds(l, inner) = B /\ inner \in SUBSET Commas(l)
      BY <2>1, <3>1, <3>2 DEF Bounds
    <3>4. inner \in Readings(l)
      BY <1>6, <2>1, <3>1, <3>3, ReadingIs DEF Kept
    <3>5. C \in Readings(l)
      BY <3>4, Zenon
    <3> HIDE DEF C
    <3>6. Members(l, C) = M
      BY <2>2, <3>5 DEF Members, Bounds
    <3>7. Meaning(l) = <<MeantPath(l, M)>> \o MeantMap(l, M, Key("xattrs"))
                                         \o MeantMap(l, M, Key("xattrs_pb"))
      BY <3>6, Zenon DEF Meaning, C
    <3>8. \A m \in M : m[1] \in Nat
      <4>1. \A m \in M : m[1] \in B
        BY DEF Neighbours
      <4>2. \A c \in B : c \in Nat
        BY <2>1
      <4> HIDE DEF M
      <4> QED BY <4>1, <4>2
    <3> HIDE DEF M
    <3>9. Kept(l, M, st) /\ HasPath(l, M)
      BY <2>1, <3>1 DEF M
    <3>10. SetToSeq(st.path) = <<MeantPath(l, M)>>
      BY <3>9, PathMeant
    <3>11. \A k \in MapKeys : Emitted(st.maps, k) = MeantMap(l, M, k)
      BY <3>8, <3>9, MapMeant
    <3>12. whole = Meaning(l)
      BY <3>7, <3>10, <3>11, KeyKinds DEF whole
    <3> QED BY <1>2, <2>5, <3>5, <3>12
  <2> QED BY <2>4, <2>5
<1> QED BY <1>1, <1>4, <1>5, <1>6

\* The lines to come are lines of a dump.
LinesInv == dump \in Dumps /\ input \in Seq(Lines)

LEMMA LinesOfDump ==
  ASSUME NEW d \in Dumps
  PROVE  d \in Seq(Lines)
<1>1. d \in Seq(Seq(Tokens))
  BY LoadAssumption
<1>2. \A i \in 1..Len(d) : d[i] \in Lines
  BY <1>1 DEF Lines, ToSet
<1>3. d \in [1..Len(d) -> Lines] /\ Len(d) \in Nat
  <2> HIDE DEF Lines
  <2> QED BY <1>1, <1>2
<1> HIDE DEF Lines
<1> QED BY <1>3

LEMMA LinesInvariance == Spec => []LinesInv
<1>1. Init => LinesInv
  BY LinesOfDump DEF Init, LinesInv
<1>2. LinesInv /\ [Next]_vars => LinesInv'
  <2> SUFFICES ASSUME LinesInv, [Next]_vars PROVE LinesInv'
    OBVIOUS
  <2>1. dump' = dump
    BY DEF Next, Open, ReadFails, ReadLine, EndOfDump, PathField, AttrField, EndOfLine, Exit,
           history, vars
  <2>2. input' = input \/ (Len(input) > 0 /\ input' = Tail(input))
    BY Zenon DEF Next, Open, ReadFails, ReadLine, EndOfDump, PathField, AttrField, EndOfLine, Exit,
           history, vars
  <2>3. input' \in Seq(Lines)
    BY <2>2 DEF LinesInv
  <2> QED BY <2>1, <2>3 DEF LinesInv
<1> QED BY <1>1, <1>2, PTL DEF Spec

\* parse_line accepts of every dump the lines that are dump lines and no
\* others, and emits what they say (dump.rs:44-54).
THEOREM ParsesAll == Spec => []ParsesExactly
<1>1. LinesInv => ParsesExactly
  <2> SUFFICES ASSUME LinesInv, input # <<>> PROVE
        LET parsed == ParseLine(Head(input))
        IN parsed.fields = Meant[Head(input)] /\ (parsed.ok <=> parsed.fields # <<>>)
    BY DEF ParsesExactly
  <2>1. PICK l : l = Head(input)
    OBVIOUS
  <2>2. l \in Lines
    BY <2>1 DEF LinesInv
  <2>3. l \in Seq(Tokens)
    BY <2>2, LoadAssumption DEF Lines, ToSet
  <2>4. Meant[l] = IF Readings(l) = {} THEN <<>> ELSE Meaning(l)
    BY <2>2 DEF Meant
  <2> QED BY <2>1, <2>3, <2>4, LineRead
<1> QED BY <1>1, LinesInvariance, PTL

-----------------------------------------------------------------------------
(* The guard                                                               *)

LEMMA TwoLong ==
  ASSUME NEW i \in Nat, NEW j \in Nat, i <= j + 1,
         (IF i <= j THEN j - i + 1 ELSE 0) = 2
  PROVE  j = i + 1
OBVIOUS

\* The parts that go up by POSIX rules go up by the rules of both systems, so
\* a guard that looks at both separators sees them (dump.rs:26-31).
LEMMA UpIsSeen ==
  ASSUME NEW S, NEW p \in Seq(S), NEW i \in DOMAIN p, NEW j \in DOMAIN p,
         IsPart(p, PosixSeparators, i, j), SubSeq(p, i, j) = Up
  PROVE  IsPart(p, Separators, i, j)
<1>1. j = i + 1
  <2>1. i <= j + 1 BY DEF IsPart
  <2>2. Len(SubSeq(p, i, j)) = 2 BY DEF Up
  <2>3. i \in Nat /\ j \in Nat /\ DOMAIN p = 1..Len(p) /\ Len(p) \in Nat OBVIOUS
  <2>4. Len(SubSeq(p, i, j)) = IF i <= j THEN j - i + 1 ELSE 0 BY <2>3
  <2>5. (IF i <= j THEN j - i + 1 ELSE 0) = 2 BY <2>2, <2>4
  <2>6. QED BY <2>1, <2>3, <2>5, TwoLong
<1>2. p[i] = "." /\ p[j] = "."
  <2>1. SubSeq(p, i, j)[1] = "." /\ SubSeq(p, i, j)[2] = "." BY DEF Up
  <2>2. QED BY <2>1, <1>1
<1>3. \A n \in i..j : p[n] \notin Separators BY <1>1, <1>2 DEF Separators
<1>4. QED BY <1>3 DEF IsPart, PosixSeparators, Separators

\* A path without a part that goes up never leaves where it starts.
LEMMA NoUpNoClimb ==
  ASSUME NEW p, NEW seps, ~HasUp(p, seps), Len(p) \in Nat, DOMAIN p = 1..Len(p)
  PROVE  ~Climbs(p, seps)
<1>1. SUFFICES ASSUME NEW k \in DOMAIN p
               PROVE  ~(Cardinality(Ups(p, seps, k)) > Cardinality(Downs(p, seps, k)))
  BY DEF Climbs
<1>2. Ups(p, seps, k) = {}
  <2>1. \A i \in 1..k : i \in DOMAIN p OBVIOUS
  <2>2. QED BY <2>1 DEF Ups, HasUp
<1>3. Cardinality(Ups(p, seps, k)) = 0 BY <1>2, FS_EmptySet
<1>4. IsFiniteSet(Downs(p, seps, k))
  <2>1. IsFiniteSet(1..k) BY FS_Interval
  <2>2. Downs(p, seps, k) \subseteq 1..k BY DEF Downs
  <2>3. QED BY <2>1, <2>2, FS_Subset
<1>5. Cardinality(Downs(p, seps, k)) \in Nat BY <1>4, FS_CardinalityType
<1>6. QED BY <1>3, <1>5

\* The guard is_contained_relative_path lets only paths through that stay
\* inside the directory they start from, by POSIX rules and by Windows rules
\* (dump.rs:20-31).
THEOREM GuardContains ==
  ASSUME NEW S, NEW p \in Seq(S), IsContainedRelativePath(p)
  PROVE  StaysInside(p)
<1>1. ~Anchored(p) BY DEF IsContainedRelativePath, IsAbsolutePath, Anchored, Separators
<1>2. ~HasUp(p, Separators) BY DEF IsContainedRelativePath
<1>3. ~HasUp(p, PosixSeparators) BY <1>2, UpIsSeen DEF HasUp
<1>4. Len(p) \in Nat /\ DOMAIN p = 1..Len(p) OBVIOUS
<1>5. ~Climbs(p, Separators) /\ ~Climbs(p, PosixSeparators) BY <1>2, <1>3, <1>4, NoUpNoClimb
<1>6. QED BY <1>1, <1>5 DEF StaysInside

-----------------------------------------------------------------------------
\* Where --allow-unsafe-paths is not given, what is written has passed the
\* guard (main.rs:977-989).
Passed(p) == p \in Seq(ToSet(p)) /\ IsContainedRelativePath(p)

OnlyGuarded ==
  ~settings.unsafe =>
    \A i \in DOMAIN calls : \E p : Passed(p) /\ calls[i].path = Target(p)

\* The path a line's attributes go to has passed it too, unless they are
\* skipped; and `calls` is a sequence.
GuardInv ==
  /\ settings \in Settings
  /\ input \in Seq(Seq(Tokens))
  /\ fields \in Seq(Fields)
  /\ \E C : calls \in Seq(C)
  /\ OnlyGuarded
  /\ ~settings.unsafe /\ ~skip => \E p : Passed(p) /\ path = Target(p)

LEMMA AppendCall ==
  ASSUME NEW C, NEW s \in Seq(C), NEW c
  PROVE  /\ \E D : Append(s, c) \in Seq(D)
         /\ DOMAIN Append(s, c) = 1..(Len(s) + 1)
         /\ \A i \in 1..Len(s) : Append(s, c)[i] = s[i]
         /\ Append(s, c)[Len(s) + 1] = c
<1>1. s \in Seq(C \cup {c}) OBVIOUS
<1>2. Append(s, c) \in Seq(C \cup {c}) BY <1>1
<1>3. QED BY <1>1, <1>2

\* The path of a line, decoded or not, is a sequence.
LEMMA PathTextType ==
  ASSUME NEW f \in Fields
  PROVE  PathText(f) \in Seq(ToSet(PathText(f)))
<1>1. f.value \in Seq(Characters) BY DEF Fields, PathFields, MapFields, Texts
<1>2. PICK t \in Seq(Characters) : t = f.value BY <1>1
<1>3. t \in Seq(ToSet(t)) BY DEF ToSet
<1>4. Decode(t) \in Seq(ToSet(Decode(t)))
  <2>1. Len(t) \in Nat /\ DOMAIN t = 1..Len(t) OBVIOUS
  <2> DEFINE d == Decode(t)
  <2>2. d = [i \in 1..Len(t) |-> Byte[t[i]]] BY <2>1 DEF Decode
  <2>3. \A i \in 1..Len(t) : d[i] \in ToSet(d) BY <2>2 DEF ToSet
  <2>4. d = [i \in 1..Len(t) |-> d[i]] BY <2>2
  <2> HIDE DEF d
  <2>5. d \in [1..Len(t) -> ToSet(d)] BY <2>3, <2>4
  <2>6. d \in Seq(ToSet(d)) BY <2>1, <2>5
  <2>7. QED BY <2>6 DEF d
<1>5. QED BY <1>2, <1>3, <1>4 DEF PathText

LEMMA GuardStep == GuardInv /\ [Next]_vars => GuardInv'
<1> SUFFICES ASSUME GuardInv, [Next]_vars PROVE GuardInv'
  OBVIOUS
<1> USE DEF GuardInv
<1>1. ASSUME UNCHANGED <<settings, input, fields, skip, path, calls>> PROVE GuardInv'
  BY <1>1 DEF OnlyGuarded, Target
<1>2. CASE Open BY <1>2, <1>1 DEF Open
<1>3. CASE ReadFails BY <1>3, <1>1 DEF ReadFails
<1>4. CASE ReadLine
  <2>1. UNCHANGED <<settings, path, calls>> BY <1>4 DEF ReadLine
  <2>2. skip' = TRUE \/ skip' = skip BY <1>4 DEF ReadLine
  <2>3. input # <<>> /\ input' = Tail(input) BY <1>4 DEF ReadLine
  <2>4. Head(input) \in Seq(Tokens) /\ input' \in Seq(Seq(Tokens)) BY <2>3
  <2>5. fields' \in Seq(Fields)
    <3>1. fields' = fields \/ (ParseLine(Head(input)).ok /\ fields' = ParseLine(Head(input)).fields)
      BY <1>4 DEF ReadLine
    <3>2. ParseLine(Head(input)).ok => ParseLine(Head(input)).fields \in FieldsOfLine
      BY <2>4, ParsedType
    <3>3. QED BY <3>1, <3>2 DEF FieldsOfLine
  <2>6. QED BY <2>1, <2>2, <2>4, <2>5 DEF OnlyGuarded, Target
<1>5. CASE EndOfDump BY <1>5, <1>1 DEF EndOfDump, history
<1>6. CASE PathField
  <2>1. UNCHANGED <<settings, input, calls>> BY <1>6 DEF PathField
  <2>2. OnlyGuarded' BY <2>1 DEF OnlyGuarded, Target
  <2>3. fields # <<>> /\ Head(fields) \in Fields /\ fields' \in Seq(Fields)
    BY <1>6 DEF PathField
  <2> DEFINE p == PathText(Head(fields))
  <2>4. ASSUME ~settings.unsafe, ~skip' PROVE \E q : Passed(q) /\ path' = Target(q)'
    <3>1. PICK q : q = p OBVIOUS
    <3>2. q \in Seq(ToSet(q)) BY <2>3, <3>1, PathTextType
    <3>3. Accepts(q) /\ path' = Target(q) BY <1>6, <2>4, <3>1 DEF PathField
    <3>4. Target(q)' = Target(q) BY <2>1 DEF Target
    <3>5. Passed(q) BY <2>1, <2>4, <3>2, <3>3 DEF Accepts, Passed
    <3>6. QED BY <3>3, <3>4, <3>5
  <2>5. QED BY <2>1, <2>2, <2>3, <2>4
<1>7. CASE AttrField
  <2>1. UNCHANGED <<settings, input, skip, path>> BY <1>7 DEF AttrField
  <2>0. fields' \in Seq(Fields) BY <1>7 DEF AttrField
  <2>2. CASE skip
    <3>1. UNCHANGED calls BY <1>7, <2>2 DEF AttrField
    <3>2. QED BY <2>0, <2>1, <3>1 DEF OnlyGuarded, Target
  <2>3. CASE ~skip
    <3>1. PICK c : calls' = Append(calls, c) /\ c.path = path
      <4>1. PICK status \in SetOutcomes(path, AttrName(Head(fields))) :
               calls' = Append(calls, [line |-> line, path |-> path,
                                       name |-> AttrName(Head(fields)),
                                       value |-> Decode(Head(fields).value), status |-> status])
        BY <1>7, <2>3 DEF AttrField
      <4>2. QED BY <4>1
    <3>2. PICK C : calls \in Seq(C) OBVIOUS
    <3>3. \E D : calls' \in Seq(D) BY <3>1, <3>2, AppendCall
    <3>4. DOMAIN calls' = 1..(Len(calls) + 1) BY <3>1, <3>2, AppendCall
    <3>5. ASSUME ~settings.unsafe, NEW i \in DOMAIN calls'
          PROVE  \E p : Passed(p) /\ calls'[i].path = Target(p)
      <4>1. CASE i \in 1..Len(calls)
        <5>1. calls'[i] = calls[i] BY <3>1, <3>2, <4>1, AppendCall
        <5>2. i \in DOMAIN calls BY <3>2, <4>1
        <5>3. QED BY <3>5, <5>1, <5>2 DEF OnlyGuarded
      <4>2. CASE i = Len(calls) + 1
        <5>1. calls'[i] = c BY <3>1, <3>2, <4>2, AppendCall
        <5>2. QED BY <3>1, <3>5, <5>1, <2>3
      <4>3. QED BY <3>2, <3>4, <4>1, <4>2
    <3>6. OnlyGuarded' BY <2>1, <3>5 DEF OnlyGuarded, Target
    <3>7. QED BY <2>0, <2>1, <3>3, <3>6 DEF Target
  <2>4. QED BY <2>2, <2>3
<1>8. CASE EndOfLine BY <1>8, <1>1 DEF EndOfLine, history
<1>9. CASE Exit BY <1>9, <1>1 DEF Exit, history
<1>10. CASE UNCHANGED vars BY <1>10, <1>1 DEF vars, history
<1>11. QED
  BY <1>2, <1>3, <1>4, <1>5, <1>6, <1>7, <1>8, <1>9, <1>10 DEF Next

LEMMA GuardInvariance == Spec => []GuardInv
<1>1. Init => GuardInv
  <2> SUFFICES ASSUME Init PROVE GuardInv
    OBVIOUS
  <2>1. calls \in Seq({}) /\ DOMAIN calls = {} /\ skip = TRUE /\ fields \in Seq(Fields)
    BY DEF Init
  <2>2. settings \in Settings /\ input \in Seq(Seq(Tokens))
    BY LoadAssumption DEF Init
  <2>3. QED BY <2>1, <2>2 DEF GuardInv, OnlyGuarded
<1>2. QED BY <1>1, GuardStep, PTL DEF Spec

\* No attribute is ever written to a path the guard refused, whatever the dump
\* holds and whatever failed before.
THEOREM OnlyGuardedWrites == Spec => []OnlyGuarded
<1>1. GuardInv => OnlyGuarded BY DEF GuardInv
<1>2. QED BY <1>1, GuardInvariance, PTL

\* A path p below a root r, written with a separator between them: r comes
\* first and p is what is left.
LEMMA CutOff ==
  ASSUME NEW R, NEW r \in Seq(R), NEW P, NEW p \in Seq(P), NEW x
  PROVE  /\ IsPrefix(r \o <<x>>, r \o <<x>> \o p)
         /\ SubSeq(r \o <<x>> \o p, Len(r) + 2, Len(r \o <<x>> \o p)) = p
<1> DEFINE S == R \cup P \cup {x}
           a == r \o <<x>>
           b == a \o p
<1>1. /\ r \in Seq(S) /\ p \in Seq(S) /\ <<x>> \in Seq(S) /\ Len(r) \in Nat /\ Len(p) \in Nat
      /\ a \in Seq(S)
  OBVIOUS
<1>2. Len(a) = Len(r) + 1
  BY <1>1
<1> HIDE DEF S, a
<1>3. b \in Seq(S) /\ Len(b) = Len(a) + Len(p)
  BY <1>1
<1>4. \A i \in 1..Len(a) : b[i] = a[i]
  BY <1>1
<1>5. \A i \in 1..Len(p) : b[Len(a) + i] = p[i]
  BY <1>1
<1> HIDE DEF b
<1>6. SubSeq(a, 1, Len(a)) = SubSeq(b, 1, Len(a))
  <2>1. /\ Len(SubSeq(a, 1, Len(a))) = Len(a) /\ SubSeq(a, 1, Len(a)) \in Seq(S)
        /\ Len(SubSeq(b, 1, Len(a))) = Len(a) /\ SubSeq(b, 1, Len(a)) \in Seq(S)
    BY <1>1, <1>2, <1>3
  <2>2. \A i \in 1..Len(a) : SubSeq(a, 1, Len(a))[i] = SubSeq(b, 1, Len(a))[i]
    BY <1>1, <1>2, <1>3, <1>4
  <2> QED BY <2>1, <2>2
<1>7. SubSeq(b, Len(r) + 2, Len(b)) = p
  <2> DEFINE s == SubSeq(b, Len(r) + 2, Len(b))
  <2>1. Len(s) = Len(p) /\ s \in Seq(S)
    BY <1>1, <1>2, <1>3
  <2>2. \A i \in 1..Len(p) : s[i] = b[Len(r) + 1 + i]
    BY <1>1, <1>2, <1>3
  <2> HIDE DEF s
  <2>3. \A i \in 1..Len(p) : s[i] = p[i]
    BY <1>1, <1>2, <1>5, <2>2
  <2> QED BY <1>1, <2>1, <2>3 DEF s
<1> QED BY <1>1, <1>2, <1>3, <1>6, <1>7 DEF IsPrefix, a, b

\* Whatever the dump holds, nothing is written outside the tree that --root or
\* the current directory names unless --allow-unsafe-paths is given
\* (README.md:123-131, main.rs:967-988).
THEOREM NothingOutside == Spec => []StaysBelowRoot
<1>1. GuardInv => StaysBelowRoot
  <2> SUFFICES ASSUME GuardInv, ~settings.unsafe, NEW c \in ToSet(calls)
               PROVE  IF settings.root = NoRoot THEN StaysInside(c.path)
                      ELSE /\ IsPrefix(settings.root \o <<"/">>, c.path)
                           /\ StaysInside(SubSeq(c.path, Len(settings.root) + 2, Len(c.path)))
    BY DEF StaysBelowRoot
  <2>1. PICK i \in DOMAIN calls : c = calls[i]
    BY DEF ToSet
  <2>2. PICK p : Passed(p) /\ c.path = Target(p)
    BY <2>1 DEF GuardInv, OnlyGuarded
  <2>3. p \in Seq(ToSet(p)) /\ StaysInside(p) /\ ~IsAbsolutePath(p)
    BY <2>2, GuardContains DEF Passed, IsContainedRelativePath
  <2>4. CASE settings.root = NoRoot
    BY <2>2, <2>3, <2>4 DEF Target
  <2>5. CASE settings.root # NoRoot
    <3>1. settings.root \in Seq(DOMAIN Byte)
      BY <2>5, LoadAssumption DEF GuardInv
    <3>2. c.path = settings.root \o <<"/">> \o p
      BY <2>2, <2>3, <2>5 DEF Target
    <3> DEFINE r == settings.root
    <3>3. IsPrefix(r \o <<"/">>, r \o <<"/">> \o p)
      BY <2>3, <3>1, CutOff
    <3>4. SubSeq(r \o <<"/">> \o p, Len(r) + 2, Len(r \o <<"/">> \o p)) = p
      BY <2>3, <3>1, CutOff
    <3> QED BY <2>3, <2>5, <3>2, <3>3, <3>4
  <2> QED BY <2>4, <2>5
<1>2. QED BY <1>1, GuardInvariance, PTL

-----------------------------------------------------------------------------
(* Sequences joined                                                        *)

\* h[i] is the join of the first i sequences of ss.
Joins(h, ss) ==
  \A i \in 1..Len(ss) : h[i] = IF i = 1 THEN ss[i] ELSE h[i - 1] \o ss[i]

LEMMA Joined ==
  ASSUME NEW W, NEW ss \in Seq(Seq(W)), Len(ss) > 0
  PROVE  \E h \in [1..Len(ss) -> Seq(W)] : Joins(h, ss) /\ FlattenSeq(ss) = h[Len(ss)]
<1> DEFINE N == Len(ss)
           next(h, i) == IF i = 1 THEN ss[i] ELSE h[i - 1] \o ss[i]
           JoinsTo(n) == {h \in [1..n -> Seq(W)] : \A i \in 1..n : h[i] = next(h, i)}
           T == {n \in Nat : JoinsTo(n) # {}}
           g == CHOOSE h : h = [i \in 1..N |-> next(h, i)]
<1>1. N \in Nat /\ N > 0 /\ \A i \in 1..N : ss[i] \in Seq(W)
  OBVIOUS
<1>2. FlattenSeq(ss) = g[N]
  <2>1. Len(ss) # 0
    BY <1>1
  <2> QED BY <2>1, Zenon DEF FlattenSeq
<1>3. 0 \in T
  <2>1. [i \in 1..0 |-> <<>>] \in JoinsTo(0)
    OBVIOUS
  <2> QED BY <2>1
<1>4. ASSUME NEW n \in 1..N, n - 1 \in T PROVE n \in T
  <2>1. PICK h \in [1..(n - 1) -> Seq(W)] : \A i \in 1..(n - 1) : h[i] = next(h, i)
    BY <1>4
  <2>2. n \in Nat /\ (n # 1 => n - 1 \in 1..(n - 1)) /\ ss[n] \in Seq(W)
    BY <1>1
  <2>3. next(h, n) \in Seq(W)
    BY <2>1, <2>2
  <2> DEFINE k == [i \in 1..n |-> IF i = n THEN next(h, n) ELSE h[i]]
  <2> HIDE DEF N
  <2>4. k \in [1..n -> Seq(W)]
    <3> HIDE DEF next
    <3> QED BY <2>1, <2>2, <2>3
  <2>5. \A i \in 1..(n - 1) : k[i] = h[i]
    <3> HIDE DEF next
    <3> QED BY <2>2
  <2>6. ASSUME NEW i \in 1..n PROVE k[i] = next(k, i)
    <3>1. next(k, i) = next(h, i)
      BY <2>2, <2>5
    <3>2. k[i] = IF i = n THEN next(h, n) ELSE h[i]
      OBVIOUS
    <3> HIDE DEF next, k
    <3> QED BY <2>1, <2>2, <3>1, <3>2
  <2>7. k \in JoinsTo(n)
    <3> HIDE DEF next, k
    <3> QED BY <2>4, <2>6
  <2> QED BY <2>2, <2>7
<1>5. N \in T
  <2>1. \A n \in 1..N : n - 1 \in T => n \in T
    BY <1>4
  <2> HIDE DEF T, N
  <2>2. \A n \in 0..N : n \in T
    BY <1>1, <1>3, <2>1, UpTo
  <2> QED BY <1>1, <2>2
<1>6. PICK h \in [1..N -> Seq(W)] : \A i \in 1..N : h[i] = next(h, i)
  BY <1>5
<1>7. h = [i \in 1..N |-> next(h, i)]
  <2> HIDE DEF next, N
  <2> QED BY <1>6
<1>8. g = [i \in 1..N |-> next(g, i)]
  BY <1>7, Zenon
<1> HIDE DEF g, N
<1>9. \A i \in 1..N : g[i] = next(g, i)
  <2> HIDE DEF next
  <2> QED BY <1>8
<1> DEFINE U == {i \in 0..N : i = 0 \/ g[i] \in Seq(W)}
<1>10. 0 \in U
  BY <1>1
<1>11. ASSUME NEW n \in 1..N, n - 1 \in U PROVE n \in U
  <2>1. n = 1 \/ g[n - 1] \in Seq(W)
    BY <1>1, <1>11
  <2>2. ss[n] \in Seq(W)
    BY <1>1
  <2>3. next(g, n) \in Seq(W)
    BY <2>1, <2>2
  <2>4. g[n] \in Seq(W)
    <3> HIDE DEF next
    <3> QED BY <1>9, <2>3
  <2> QED BY <1>1, <2>4
<1>12. \A n \in 0..N : n \in U
  <2> HIDE DEF U
  <2> QED BY <1>1, <1>10, <1>11, UpTo
<1>13. g \in [1..N -> Seq(W)]
  <2>1. \A n \in 1..N : g[n] \in Seq(W)
    BY <1>1, <1>12
  <2>2. g = [i \in 1..N |-> g[i]]
    <3> HIDE DEF next
    <3> QED BY <1>8
  <2> QED BY <2>1, <2>2
<1> QED BY <1>2, <1>9, <1>13 DEF Joins, N

\* One more sequence.
LEMMA JoinEmpty ==
  ASSUME NEW W, NEW s \in Seq(W), NEW t \in Seq(W)
  PROVE  <<>> \o s = s /\ s \o <<>> = s /\ (s \o t = <<>> <=> s = <<>> /\ t = <<>>)
OBVIOUS

LEMMA FlatStep ==
  ASSUME NEW n \in Nat, NEW W, NEW w \in [1..(n + 1) -> Seq(W)],
         NEW v, v = [i \in 1..n |-> w[i]]
  PROVE  /\ FlattenSeq(w) = FlattenSeq(v) \o w[n + 1]
         /\ FlattenSeq(v) \in Seq(W) /\ FlattenSeq(w) \in Seq(W)
<1>1. /\ w \in Seq(Seq(W)) /\ Len(w) = n + 1 /\ v \in [1..n -> Seq(W)]
      /\ v \in Seq(Seq(W)) /\ Len(v) = n
  <2>1. \A i \in 1..n : w[i] \in Seq(W)
    OBVIOUS
  <2>2. v \in [1..n -> Seq(W)]
    BY <2>1
  <2> QED BY <2>2
<1>2. PICK g \in [1..(n + 1) -> Seq(W)] : Joins(g, w) /\ FlattenSeq(w) = g[n + 1]
  <2>1. Len(w) > 0
    BY <1>1
  <2> QED BY <1>1, <2>1, Joined
<1>3. \A i \in 1..(n + 1) : g[i] = IF i = 1 THEN w[i] ELSE g[i - 1] \o w[i]
  BY <1>1, <1>2 DEF Joins
<1>4. n + 1 \in 1..(n + 1) /\ w[n + 1] \in Seq(W) /\ g[n + 1] \in Seq(W)
  OBVIOUS
<1>5. CASE n = 0
  <2>1. v = <<>>
    BY <1>1, <1>5
  <2>2. FlattenSeq(v) = <<>>
    BY <2>1 DEF FlattenSeq
  <2>3. g[n + 1] = w[n + 1]
    BY <1>3, <1>4, <1>5
  <2>4. <<>> \o w[n + 1] = w[n + 1]
    BY <1>4, JoinEmpty
  <2>5. <<>> \in Seq(W)
    OBVIOUS
  <2> QED BY <1>2, <1>4, <2>2, <2>3, <2>4, <2>5, Zenon
<1>6. CASE n > 0
  <2>1. PICK h \in [1..n -> Seq(W)] : Joins(h, v) /\ FlattenSeq(v) = h[n]
    BY <1>1, <1>6, Joined
  <2>2. \A i \in 1..n : h[i] = IF i = 1 THEN v[i] ELSE h[i - 1] \o v[i]
    BY <1>1, <2>1 DEF Joins
  <2> DEFINE T == {i \in 0..n : i = 0 \/ g[i] = h[i]}
  <2>3. 0 \in T
    BY <1>6
  <2>4. ASSUME NEW i \in 1..n, i - 1 \in T PROVE i \in T
    <3>1. i = 1 \/ g[i - 1] = h[i - 1]
      BY <2>4
    <3>2. i \in 1..(n + 1) /\ v[i] = w[i]
      OBVIOUS
    <3>3. g[i] = h[i]
      <4>1. g[i] = IF i = 1 THEN w[i] ELSE g[i - 1] \o w[i]
        BY <1>3, <3>2
      <4>2. h[i] = IF i = 1 THEN v[i] ELSE h[i - 1] \o v[i]
        BY <2>2
      <4> QED BY <3>1, <3>2, <4>1, <4>2
    <3> QED BY <3>3
  <2>5. \A i \in 1..n : i - 1 \in T => i \in T
    BY <2>4
  <2>6. \A i \in 0..n : i \in T
    <3> HIDE DEF T
    <3> QED BY <2>3, <2>5, UpTo
  <2>7. g[n] = h[n] /\ h[n] \in Seq(W)
    BY <1>6, <2>6
  <2>8. g[n + 1] = g[n] \o w[n + 1]
    <3>1. n + 1 # 1 /\ (n + 1) - 1 = n
      BY <1>6
    <3> QED BY <1>3, <1>4, <3>1
  <2> QED BY <1>2, <1>4, <2>1, <2>7, <2>8
<1>7. n = 0 \/ n > 0
  OBVIOUS
<1> QED BY <1>5, <1>6, <1>7, Zenon

\* The n sequences w are the m sequences v and one more.
OneMore(W, v, m, w, n) ==
  /\ m \in Nat /\ n = m + 1
  /\ w \in [1..n -> Seq(W)] /\ v \in [1..m -> Seq(W)]
  /\ \A i \in 1..m : v[i] = w[i]

LEMMA FlatMore ==
  ASSUME NEW W, NEW v, NEW m, NEW w, NEW n, OneMore(W, v, m, w, n)
  PROVE  /\ FlattenSeq(w) = FlattenSeq(v) \o w[n]
         /\ FlattenSeq(v) \in Seq(W) /\ FlattenSeq(w) \in Seq(W)
<1> USE DEF OneMore
<1>1. w \in [1..(m + 1) -> Seq(W)] /\ m \in Nat
  OBVIOUS
<1>2. v = [i \in 1..m |-> w[i]]
  OBVIOUS
<1>3. /\ FlattenSeq(w) = FlattenSeq(v) \o w[m + 1]
      /\ FlattenSeq(v) \in Seq(W) /\ FlattenSeq(w) \in Seq(W)
  BY <1>1, <1>2, FlatStep, Zenon
<1> QED BY <1>3

\* The join is empty when all of its parts are, and only then.
LEMMA FlatEmpty ==
  ASSUME NEW n \in Nat, NEW W, NEW w \in [1..n -> Seq(W)]
  PROVE  /\ FlattenSeq(w) \in Seq(W)
         /\ FlattenSeq(w) = <<>> <=> \A i \in 1..n : w[i] = <<>>
<1> DEFINE part(k) == [i \in 1..k |-> w[i]]
           T == {k \in 0..n : /\ FlattenSeq(part(k)) \in Seq(W)
                              /\ FlattenSeq(part(k)) = <<>> <=> \A i \in 1..k : w[i] = <<>>}
<1>1. 0 \in T
  <2>1. part(0) = <<>>
    OBVIOUS
  <2>2. FlattenSeq(part(0)) = <<>>
    BY <2>1 DEF FlattenSeq
  <2> HIDE DEF part
  <2>3. FlattenSeq(part(0)) \in Seq(W)
    <3>1. <<>> \in Seq(W)
      OBVIOUS
    <3> QED BY <2>2, <3>1, Zenon
  <2>4. \A i \in 1..0 : w[i] = <<>>
    OBVIOUS
  <2>5. 0 \in 0..n
    OBVIOUS
  <2> QED BY <2>2, <2>3, <2>4, <2>5, Zenon
<1>2. ASSUME NEW k \in 1..n, k - 1 \in T PROVE k \in T
  <2> DEFINE m == k - 1
  <2>1. m \in Nat /\ k \in Nat /\ k = m + 1
    OBVIOUS
  <2>2. /\ part(k) \in [1..k -> Seq(W)] /\ part(m) \in [1..m -> Seq(W)] /\ part(k)[k] = w[k]
        /\ \A i \in 1..m : part(m)[i] = part(k)[i]
    OBVIOUS
  <2>3. w[k] \in Seq(W)
    OBVIOUS
  <2>4. FlattenSeq(part(m)) \in Seq(W) /\ (FlattenSeq(part(m)) = <<>> <=> \A i \in 1..m : w[i] = <<>>)
    BY <1>2
  <2> HIDE DEF part, m, T
  <2>5. FlattenSeq(part(k)) = FlattenSeq(part(m)) \o w[k] /\ FlattenSeq(part(k)) \in Seq(W)
    <3> DEFINE all == part(k)
               less == part(m)
    <3>1. /\ all \in [1..k -> Seq(W)] /\ less \in [1..m -> Seq(W)]
          /\ \A i \in 1..m : less[i] = all[i]
      BY <2>2
    <3>2. all[k] = w[k]
      BY <2>2
    <3> HIDE DEF all, less
    <3>3. OneMore(W, less, m, all, k)
      BY <2>1, <3>1 DEF OneMore
    <3>4. FlattenSeq(all) = FlattenSeq(less) \o all[k] /\ FlattenSeq(all) \in Seq(W)
      BY <3>3, FlatMore
    <3> QED BY <3>2, <3>4 DEF all, less
  <2>6. FlattenSeq(part(k)) = <<>> <=> FlattenSeq(part(m)) = <<>> /\ w[k] = <<>>
    BY <2>3, <2>4, <2>5, JoinEmpty
  <2>7. FlattenSeq(part(k)) = <<>> <=> \A i \in 1..k : w[i] = <<>>
    BY <2>1, <2>4, <2>6
  <2>8. k \in 0..n
    OBVIOUS
  <2> QED BY <2>5, <2>7, <2>8, Zenon DEF T
<1>3. \A k \in 1..n : k - 1 \in T => k \in T
  BY <1>2
<1>4. n \in T
  <2> HIDE DEF T
  <2>1. \A k \in 0..n : k \in T
    BY <1>1, <1>3, UpTo
  <2> QED BY <2>1
<1>5. part(n) = w
  OBVIOUS
<1> HIDE DEF part
<1> QED BY <1>4, <1>5

-----------------------------------------------------------------------------
(* What is restored and what is said of it                                 *)

\* A line of a dump, or none.
Known(i) == Meant[dump[i]] \in FieldsOfLine \cup {<<>>}

\* s is what follows the first k of d.
Rest(s, d, k) ==
  /\ k \in 0..Len(d) /\ Len(s) = Len(d) - k
  /\ \A i \in 1..Len(s) : s[i] = d[k + i]

\* What was read is the lines up to `line`, and the rest waits.
Position ==
  /\ pc \in {"open", "read", "field", "exit", "done"}
  /\ dump \in Dumps /\ settings \in Settings
  /\ input \in Seq(Seq(Tokens)) /\ Rest(input, dump, line)
  /\ \A i \in 1..line : Known(i)

Counted ==
  /\ pc # "done" => failures = Len(reports)
  /\ \A j \in DOMAIN calls : calls[j].line \in 1..line /\ dump[calls[j].line] # <<>>
  /\ cut => pc \in {"exit", "done"}
  /\ pc = "exit" => cut \/ input = <<>>

\* Line n, which means m, is at work and g of its fields were applied: the
\* others wait in order, and its path has decided what becomes of them.
InLine(n, m, g) ==
  /\ n = line /\ n \in 1..Len(dump) /\ dump[n] # <<>>
  /\ m = Meant[dump[n]] /\ m \in FieldsOfLine
  /\ fields \in Seq(Fields) /\ Rest(fields, m, g)
  /\ g = 0 => skip
  /\ g > 0 => /\ skip <=> ~Restored(m)
              /\ ~skip => path = Target(PathOf(m))

\* The calls of line n so far.
Begun(n, m, g) == IF g > 0 /\ Restored(m) THEN SubSeq(Wanted(n), 1, g - 1) ELSE <<>>

\* What has been said of the first n lines, and of the end of the input.
SaidOf(n)  == FlattenSeq([i \in 1..n |-> Told(i)])
OfInput(n) == IF cut THEN <<Problem(n, <<>>, <<>>, "Io")>> ELSE <<>>

During(n, m, g) ==
  /\ Made = Asked(n - 1) \o Begun(n, m, g)
  /\ g = 0 => reports = SaidOf(n - 1) /\ \A j \in DOMAIN calls : calls[j].line # n
  /\ g > 0 => reports = SaidOf(n)

\* No line is at work: n of them were read.
Between(n) ==
  /\ Made = Asked(n)
  /\ pc # "done" => reports = SaidOf(n) \o OfInput(n)
  /\ pc = "done" =>
       \/ exit # 0 /\ \E r \in ToSet(reports) : r.line = 0
       \/ /\ reports = SaidOf(n) \o OfInput(n)
          /\ exit = 0 <=> reports = <<>>
          /\ cut \/ input = <<>>

Progress ==
  /\ pc # "field" => \E n \in 0..Len(dump) : n = line /\ Between(n)
  /\ pc = "field" => \E n \in 1..Len(dump) : \E m \in {Meant[dump[n]]} : \E g \in 0..Len(m) :
                       InLine(n, m, g) /\ During(n, m, g)

LoadInv == Position /\ Counted /\ Progress /\ \E C : calls \in Seq(C)

LEMMA LineType ==
  ASSUME NEW m \in FieldsOfLine
  PROVE  /\ m \in Seq(Fields) /\ Len(m) \in Nat /\ Len(m) >= 1 /\ DOMAIN m = 1..Len(m)
         /\ m # <<>> /\ Head(m) = m[1]
         /\ m[1] \in PathFields /\ \A j \in 2..Len(m) : m[j] \in MapFields
BY DEF FieldsOfLine

LEMMA Widen ==
  ASSUME NEW n \in Nat, NEW f, f = [i \in 1..n |-> f[i]],
         \A i \in 1..n : f[i] \in Seq(ToSet(f[i]))
  PROVE  \E W : f \in [1..n -> Seq(W)]
<1> DEFINE W == UNION {ToSet(f[i]) : i \in 1..n}
<1>1. ASSUME NEW i \in 1..n PROVE f[i] \in Seq(W)
  <2>1. ToSet(f[i]) \subseteq W
    OBVIOUS
  <2>2. f[i] \in Seq(ToSet(f[i]))
    OBVIOUS
  <2> HIDE DEF W
  <2> QED BY <2>1, <2>2
<1> HIDE DEF W
<1>2. f \in [1..n -> Seq(W)]
  BY <1>1
<1> QED BY <1>2

LEMMA WantedType ==
  ASSUME NEW i, Known(i)
  PROVE  /\ Wanted(i) \in Seq(ToSet(Wanted(i)))
         /\ ~Restored(Meant[dump[i]]) => Wanted(i) = <<>>
         /\ Restored(Meant[dump[i]]) => Len(Wanted(i)) = Len(Meant[dump[i]]) - 1
<1> DEFINE m == Meant[dump[i]]
           call(j) == [line |-> i, path |-> Target(PathOf(m)),
                       name |-> IF m[j + 1].field = Key("xattrs_pb") THEN Decode(m[j + 1].key)
                                ELSE m[j + 1].key,
                       value |-> Decode(m[j + 1].value)]
<1>1. Wanted(i) = IF ~Restored(m) THEN <<>> ELSE [j \in 1..(Len(m) - 1) |-> call(j)]
  BY DEF Wanted
<1>2. m \in FieldsOfLine \cup {<<>>}
  BY DEF Known
<1> HIDE DEF m, call
<1>3. CASE ~Restored(m)
  BY <1>1, <1>3 DEF m
<1>4. CASE Restored(m)
  <2>1. m \in FieldsOfLine
    BY <1>2, <1>4 DEF Restored
  <2>2. Len(m) \in Nat /\ Len(m) >= 1
    BY <2>1, LineType
  <2> DEFINE k == Len(m) - 1
             s == [j \in 1..k |-> call(j)]
  <2>3. k \in Nat /\ Wanted(i) = s
    BY <1>1, <1>4, <2>2
  <2>4. \A j \in 1..k : s[j] \in ToSet(s)
    <3> HIDE DEF k
    <3> QED BY DEF ToSet
  <2>5. s = [j \in 1..k |-> s[j]] /\ DOMAIN s = 1..k
    OBVIOUS
  <2> HIDE DEF k, s
  <2>6. s \in Seq(ToSet(s)) /\ Len(s) = k
    BY <2>3, <2>4, <2>5
  <2> QED BY <1>4, <2>3, <2>6 DEF m, k
<1> QED BY <1>3, <1>4

\* w is a sequence of n sequences.
Lists(w, n) ==
  /\ w = [i \in 1..n |-> w[i]]
  /\ \A i \in 1..n : w[i] \in Seq(ToSet(w[i]))

LEMMA MoreOf ==
  ASSUME NEW n \in Nat, n > 0, NEW w, NEW v, Lists(w, n), Lists(v, n - 1),
         \A i \in 1..(n - 1) : v[i] = w[i]
  PROVE  \E W : /\ FlattenSeq(w) = FlattenSeq(v) \o w[n]
                /\ FlattenSeq(v) \in Seq(W) /\ w[n] \in Seq(W) /\ FlattenSeq(w) \in Seq(W)
<1>1. PICK m \in Nat : m = n - 1 /\ n = m + 1 /\ n \in 1..n
  OBVIOUS
<1>2. PICK W : w \in [1..n -> Seq(W)]
  BY Widen DEF Lists
<1>3. OneMore(W, v, m, w, n)
  <2>1. v = [i \in 1..m |-> v[i]]
    BY <1>1 DEF Lists
  <2>2. \A i \in 1..m : v[i] = w[i] /\ v[i] \in Seq(W)
    BY <1>1, <1>2
  <2> QED BY <1>1, <1>2, <2>1, <2>2 DEF OneMore
<1>4. /\ FlattenSeq(w) = FlattenSeq(v) \o w[n]
      /\ FlattenSeq(v) \in Seq(W) /\ FlattenSeq(w) \in Seq(W)
  BY <1>3, FlatMore
<1>5. w[n] \in Seq(W)
  BY <1>1, <1>2
<1> QED BY <1>4, <1>5

\* What the first n lines ask for is what the others before it did, and its own.
LEMMA AskedMore ==
  ASSUME NEW n \in Nat, n > 0, \A i \in 1..n : Known(i)
  PROVE  \E W : /\ Asked(n) = Asked(n - 1) \o Wanted(n)
                /\ Asked(n - 1) \in Seq(W) /\ Wanted(n) \in Seq(W) /\ Asked(n) \in Seq(W)
<1> DEFINE w == [i \in 1..n |-> Wanted(i)]
           v == [i \in 1..(n - 1) |-> Wanted(i)]
<1>1. \A i \in 1..n : Wanted(i) \in Seq(ToSet(Wanted(i)))
  BY WantedType
<1>2. /\ w = [i \in 1..n |-> w[i]] /\ v = [i \in 1..(n - 1) |-> v[i]] /\ w[n] = Wanted(n)
      /\ \A i \in 1..n : w[i] = Wanted(i)
      /\ \A i \in 1..(n - 1) : v[i] = Wanted(i)
  OBVIOUS
<1>3. Asked(n) = FlattenSeq(w) /\ Asked(n - 1) = FlattenSeq(v)
  BY DEF Asked
<1> HIDE DEF w, v
<1>4. Lists(w, n) /\ Lists(v, n - 1) /\ \A i \in 1..(n - 1) : v[i] = w[i]
  BY <1>1, <1>2 DEF Lists
<1>5. PICK W : /\ FlattenSeq(w) = FlattenSeq(v) \o w[n]
               /\ FlattenSeq(v) \in Seq(W) /\ w[n] \in Seq(W) /\ FlattenSeq(w) \in Seq(W)
  BY <1>4, MoreOf
<1> QED BY <1>2, <1>3, <1>5

LEMMA AskedNone == Asked(0) = <<>>
<1>1. [i \in 1..0 |-> Wanted(i)] = <<>>
  OBVIOUS
<1> QED BY <1>1 DEF Asked, FlattenSeq

LEMMA ComplaintType ==
  ASSUME NEW C, NEW i, NEW x \in C
  PROVE  Complaint(x, i) \in Seq({Problem(i, y.path, y.name, y.status) : y \in C})
<1> DEFINE W == {Problem(i, y.path, y.name, y.status) : y \in C}
           p == Problem(i, x.path, x.name, x.status)
<1>1. p \in W
  OBVIOUS
<1>2. Complaint(x, i) = <<p>> \/ Complaint(x, i) = <<>>
  BY DEF Complaint
<1> HIDE DEF W, p
<1>3. <<p>> \in Seq(W) /\ <<>> \in Seq(W)
  BY <1>1
<1>4. Complaint(x, i) \in Seq(W)
  BY <1>2, <1>3, Zenon
<1> QED BY <1>4 DEF W

\* What is said of one more call.
LEMMA OneMoreCall ==
  ASSUME NEW C, NEW cs \in Seq(C), NEW c, NEW i
  PROVE  \E W : /\ Complaints(Append(cs, c), i) = Complaints(cs, i) \o Complaint(c, i)
                /\ Complaints(cs, i) \in Seq(W) /\ Complaint(c, i) \in Seq(W)
<1> DEFINE n == Len(cs)
           ds == Append(cs, c)
           w == [j \in 1..(n + 1) |-> Complaint(ds[j], i)]
           v == [j \in 1..n |-> Complaint(cs[j], i)]
           W == {Problem(i, x.path, x.name, x.status) : x \in C \cup {c}}
<1>1. n \in Nat /\ DOMAIN cs = 1..n /\ DOMAIN ds = 1..(n + 1)
  BY AppendCall
<1>2. (\A j \in 1..n : ds[j] = cs[j] /\ cs[j] \in C) /\ ds[n + 1] = c
  BY AppendCall
<1>3. \A x \in C \cup {c} : Complaint(x, i) \in Seq(W)
  BY ComplaintType
<1>4. Complaints(ds, i) = FlattenSeq(w) /\ Complaints(cs, i) = FlattenSeq(v)
  BY <1>1 DEF Complaints
<1> HIDE DEF W, n, ds
<1>5. OneMore(W, v, n, w, n + 1)
  BY <1>1, <1>2, <1>3 DEF OneMore
<1>6. w[n + 1] = Complaint(c, i)
  BY <1>1, <1>2
<1> HIDE DEF w, v
<1>7. FlattenSeq(w) = FlattenSeq(v) \o w[n + 1] /\ FlattenSeq(v) \in Seq(W)
  BY <1>5, FlatMore
<1>8. Complaint(c, i) \in Seq(W)
  BY <1>3
<1> QED BY <1>4, <1>6, <1>7, <1>8 DEF ds

\* Nothing is said of a line whose calls succeeded.
LEMMA NoComplaint ==
  ASSUME NEW C, NEW cs \in Seq(C), NEW i
  PROVE  /\ Complaints(cs, i) \in Seq(ToSet(Complaints(cs, i)))
         /\ Complaints(cs, i) = <<>> <=> \A j \in DOMAIN cs : cs[j].line = i => cs[j].status = "OK"
<1> DEFINE n == Len(cs)
           w == [j \in 1..n |-> Complaint(cs[j], i)]
           W == {Problem(i, x.path, x.name, x.status) : x \in C}
<1>1. n \in Nat /\ DOMAIN cs = 1..n /\ \A j \in 1..n : cs[j] \in C
  OBVIOUS
<1>2. \A x \in C : Complaint(x, i) \in Seq(W)
  BY ComplaintType
<1>3. Complaints(cs, i) = FlattenSeq(w)
  BY <1>1 DEF Complaints
<1> HIDE DEF W, n
<1>4. w \in [1..n -> Seq(W)] /\ \A j \in 1..n : w[j] = Complaint(cs[j], i)
  BY <1>1, <1>2
<1> HIDE DEF w
<1>5. FlattenSeq(w) \in Seq(W) /\ (FlattenSeq(w) = <<>> <=> \A j \in 1..n : w[j] = <<>>)
  BY <1>1, <1>4, FlatEmpty
<1>6. \A j \in 1..n : w[j] = <<>> <=> (cs[j].line = i => cs[j].status = "OK")
  BY <1>4 DEF Complaint
<1>7. Complaints(cs, i) \in Seq(ToSet(Complaints(cs, i)))
  <2>1. PICK t \in Seq(W) : t = FlattenSeq(w)
    BY <1>5
  <2>2. t \in Seq(ToSet(t))
    BY DEF ToSet
  <2> QED BY <1>3, <2>1, <2>2
<1> QED BY <1>1, <1>3, <1>5, <1>6, <1>7

-----------------------------------------------------------------------------
(* What depends on the dump and the command line alone                     *)

LEMMA SameWishes ==
  ASSUME UNCHANGED <<dump, settings>>
  PROVE  /\ \A n : Asked(n)' = Asked(n)
         /\ \A i : Wanted(i)' = Wanted(i) /\ Known(i)' = Known(i)
         /\ \A m : Restored(m)' = Restored(m)
         /\ \A p : Target(p)' = Target(p)
BY DEF Asked, Wanted, Restored, Accepts, Target, Known

LEMMA SameWords ==
  ASSUME UNCHANGED <<dump, settings, calls>>
  PROVE  \A n : SaidOf(n)' = SaidOf(n)
BY DEF SaidOf, Told, Restored, Accepts

LEMMA ToldType ==
  ASSUME NEW C, calls \in Seq(C), NEW i
  PROVE  Told(i) \in Seq(ToSet(Told(i)))
<1>1. PICK t : t = Complaints(calls, i) /\ t \in Seq(ToSet(t))
  BY NoComplaint
<1>2. PICK q, r : q = <<Problem(i, <<>>, <<>>, "InvalidArgument")>>
               /\ r = <<Problem(i, PathOf(Meant[dump[i]]), <<>>, "InvalidPath")>>
  OBVIOUS
<1>3. q \in Seq(ToSet(q)) /\ r \in Seq(ToSet(r)) /\ <<>> \in Seq(ToSet(<<>>))
  BY <1>2 DEF ToSet
<1> QED BY <1>1, <1>2, <1>3, Zenon DEF Told

\* What is said of the first n lines is what is said of the others before
\* line n, and of it.
LEMMA SaidMore ==
  ASSUME NEW C, calls \in Seq(C), NEW n \in Nat, n > 0
  PROVE  \E W : /\ SaidOf(n) = SaidOf(n - 1) \o Told(n)
                /\ SaidOf(n - 1) \in Seq(W) /\ Told(n) \in Seq(W) /\ SaidOf(n) \in Seq(W)
<1> DEFINE w == [i \in 1..n |-> Told(i)]
           v == [i \in 1..(n - 1) |-> Told(i)]
<1>1. \A i \in 1..n : Told(i) \in Seq(ToSet(Told(i)))
  BY ToldType
<1>2. /\ w = [i \in 1..n |-> w[i]] /\ v = [i \in 1..(n - 1) |-> v[i]] /\ w[n] = Told(n)
      /\ \A i \in 1..n : w[i] = Told(i)
      /\ \A i \in 1..(n - 1) : v[i] = Told(i)
  OBVIOUS
<1>3. SaidOf(n) = FlattenSeq(w) /\ SaidOf(n - 1) = FlattenSeq(v)
  BY DEF SaidOf
<1> HIDE DEF w, v
<1>4. Lists(w, n) /\ Lists(v, n - 1) /\ \A i \in 1..(n - 1) : v[i] = w[i]
  BY <1>1, <1>2 DEF Lists
<1>5. PICK W : /\ FlattenSeq(w) = FlattenSeq(v) \o w[n]
               /\ FlattenSeq(v) \in Seq(W) /\ w[n] \in Seq(W) /\ FlattenSeq(w) \in Seq(W)
  BY <1>4, MoreOf
<1> QED BY <1>2, <1>3, <1>5

LEMMA SaidNone == SaidOf(0) = <<>>
<1>1. [i \in 1..0 |-> Told(i)] = <<>>
  OBVIOUS
<1> QED BY <1>1 DEF SaidOf, FlattenSeq

\* Nothing is said of lines of which nothing is to be said, and only of them.
LEMMA SaidNothing ==
  ASSUME NEW C, calls \in Seq(C), NEW n \in Nat
  PROVE  SaidOf(n) = <<>> <=> \A i \in 1..n : Told(i) = <<>>
<1> DEFINE w == [i \in 1..n |-> Told(i)]
<1>1. w = [i \in 1..n |-> w[i]] /\ \A i \in 1..n : w[i] = Told(i)
  OBVIOUS
<1>2. SaidOf(n) = FlattenSeq(w)
  BY DEF SaidOf
<1> HIDE DEF w
<1>3. \A i \in 1..n : w[i] \in Seq(ToSet(w[i]))
  BY <1>1, ToldType
<1>4. PICK W : w \in [1..n -> Seq(W)]
  BY <1>1, <1>3, Widen
<1>5. FlattenSeq(w) = <<>> <=> \A i \in 1..n : w[i] = <<>>
  BY <1>4, FlatEmpty
<1> QED BY <1>1, <1>2, <1>5

LEMMA SaidType ==
  ASSUME NEW C, calls \in Seq(C), NEW n \in Nat
  PROVE  \E W : SaidOf(n) \in Seq(W)
<1>1. CASE n = 0
  <2>1. SaidOf(n) = <<>>
    BY <1>1, SaidNone
  <2> QED BY <2>1
<1>2. CASE n > 0
  BY <1>2, SaidMore
<1> QED BY <1>1, <1>2

-----------------------------------------------------------------------------
(* The steps                                                               *)

LEMMA AppendOne ==
  ASSUME NEW W, NEW s \in Seq(W), NEW x
  PROVE  /\ Append(s, x) = s \o <<x>> /\ Len(Append(s, x)) = Len(s) + 1 /\ Len(s) \in Nat
         /\ x \in ToSet(Append(s, x)) /\ Append(s, x) # <<>>
<1> DEFINE V == W \cup {x}
           t == Append(s, x)
<1>1. s \in Seq(V) /\ x \in V
  OBVIOUS
<1>2. t \in Seq(V) /\ Len(t) = Len(s) + 1 /\ t[Len(t)] = x /\ t = s \o <<x>> /\ Len(s) \in Nat
  BY <1>1
<1> HIDE DEF V, t
<1>3. Len(t) \in DOMAIN t /\ t # <<>>
  BY <1>2
<1> QED BY <1>2, <1>3 DEF ToSet, t

LEMMA WithOne ==
  ASSUME NEW W, NEW s \in Seq(W), NEW x, NEW t, t = <<x>> \/ t = <<>>
  PROVE  \E V : s \o t \in Seq(V)
<1> DEFINE V == W \cup {x}
<1>1. s \in Seq(V) /\ <<x>> \in Seq(V) /\ <<>> \in Seq(V)
  OBVIOUS
<1> HIDE DEF V
<1>2. s \o <<x>> \in Seq(V) /\ s \o <<>> \in Seq(V)
  BY <1>1
<1> QED BY <1>2

\* What was said while no line is at work.
LEMMA Said ==
  ASSUME LoadInv, pc \notin {"field", "done"}, ~cut, NEW n, n = line
  PROVE  /\ n \in Nat /\ reports = SaidOf(n) /\ Made = Asked(n)
         /\ \E W : reports \in Seq(W)
<1>1. n \in Nat /\ Between(n)
  BY DEF LoadInv, Position, Progress
<1>2. PICK C : calls \in Seq(C)
  BY DEF LoadInv
<1>3. PICK W : SaidOf(n) \in Seq(W)
  BY <1>1, <1>2, SaidType
<1>4. reports = SaidOf(n) \o <<>> /\ Made = Asked(n)
  BY <1>1 DEF Between, OfInput
<1>5. SaidOf(n) \o <<>> = SaidOf(n)
  BY <1>3, JoinEmpty
<1> QED BY <1>1, <1>3, <1>4, <1>5

\* Nothing of the dump is touched.
LEMMA StillThere ==
  ASSUME Position, UNCHANGED <<dump, settings, line, input>>,
         pc' \in {"open", "read", "field", "exit", "done"}
  PROVE  Position'
<1>1. \A i : Known(i)' = Known(i)
  BY SameWishes
<1> QED BY <1>1 DEF Position

LEMMA OpenStep == LoadInv /\ Open => LoadInv'
<1> SUFFICES ASSUME LoadInv, Open PROVE LoadInv'
  OBVIOUS
<1>1. /\ UNCHANGED <<input, settings, line, fields, skip, path, failures, dump, calls, cut>>
      /\ pc = "open" /\ pc' \in {"read", "done"} /\ ~cut
      /\ pc' = "read" => UNCHANGED reports
  BY DEF Open, LoadInv, Counted
<1>2. Position'
  BY <1>1, StillThere DEF LoadInv
<1>3. Counted'
  BY <1>1 DEF LoadInv, Counted
<1>4. PICK n : n = line
  OBVIOUS
<1>5. n \in 0..Len(dump) /\ Between(n) /\ \E W : reports \in Seq(W)
  <2>1. Between(n) /\ n \in 0..Len(dump)
    BY <1>1, <1>4 DEF LoadInv, Progress
  <2> QED BY <1>1, <1>4, <2>1, Said
<1>6. Asked(n)' = Asked(n) /\ SaidOf(n)' = SaidOf(n) /\ Made' = Made /\ OfInput(n)' = OfInput(n)
  <2>1. Asked(n)' = Asked(n) /\ SaidOf(n)' = SaidOf(n)
    BY <1>1, SameWishes, SameWords
  <2> QED BY <1>1, <2>1 DEF Made, OfInput
<1>7. Between(n)'
  <2>1. CASE pc' = "read"
    BY <1>1, <1>5, <1>6, <2>1 DEF Between
  <2>2. CASE pc' = "done"
    <3>1. PICK status \in {"NotFound", "Permission", "Io"} :
             /\ exit' = ExitFor(status)
             /\ reports' = Append(reports, Problem(0, <<>>, <<>>, status))
      BY <2>2 DEF Open
    <3>2. exit' # 0
      BY <3>1 DEF ExitFor, ExitError
    <3>3. Problem(0, <<>>, <<>>, status) \in ToSet(reports')
      BY <1>5, <3>1, AppendOne
    <3>4. Problem(0, <<>>, <<>>, status).line = 0
      BY DEF Problem
    <3>5. \E r \in ToSet(reports') : r.line = 0
      BY <3>3, <3>4
    <3> QED BY <1>1, <1>5, <1>6, <2>2, <3>2, <3>5 DEF Between
  <2> QED BY <1>1, <2>1, <2>2
<1>8. Progress'
  BY <1>1, <1>4, <1>5, <1>7 DEF Progress
<1> QED BY <1>1, <1>2, <1>3, <1>8 DEF LoadInv

LEMMA ReadFailsStep == LoadInv /\ ReadFails => LoadInv'
<1> SUFFICES ASSUME LoadInv, ReadFails PROVE LoadInv'
  OBVIOUS
<1>1. /\ UNCHANGED <<input, settings, line, fields, skip, path, dump, calls>>
      /\ pc = "read" /\ pc' = "exit" /\ ~cut /\ cut'
      /\ failures' = failures + 1
      /\ reports' = Append(reports, Problem(line', <<>>, <<>>, "Io"))
  BY DEF ReadFails, Report, LoadInv, Counted
<1>2. Position'
  BY <1>1, StillThere DEF LoadInv
<1>3. PICK n : n = line
  OBVIOUS
<1>4. /\ n \in 0..Len(dump) /\ reports = SaidOf(n) /\ Made = Asked(n)
      /\ \E W : reports \in Seq(W)
  <2>1. n \in 0..Len(dump)
    BY <1>3 DEF LoadInv, Position, Rest
  <2> QED BY <1>1, <1>3, <2>1, Said
<1>5. /\ reports' = SaidOf(n) \o <<Problem(n, <<>>, <<>>, "Io")>>
      /\ Len(reports') = Len(reports) + 1
  BY <1>1, <1>3, <1>4, AppendOne
<1>6. Counted'
  BY <1>1, <1>5 DEF LoadInv, Counted
<1>7. Asked(n)' = Asked(n) /\ SaidOf(n)' = SaidOf(n)
  BY <1>1, SameWishes, SameWords
<1>8. Made' = Made
  BY <1>1 DEF Made
<1>9. Between(n)'
  BY <1>1, <1>4, <1>5, <1>7, <1>8 DEF Between, OfInput
<1>10. Progress'
  BY <1>1, <1>3, <1>4, <1>9 DEF Progress
<1> QED BY <1>1, <1>2, <1>6, <1>10 DEF LoadInv

LEMMA EndOfDumpStep == LoadInv /\ EndOfDump => LoadInv'
<1> SUFFICES ASSUME LoadInv, EndOfDump PROVE LoadInv'
  OBVIOUS
<1>1. /\ UNCHANGED <<input, settings, line, fields, skip, path, failures, exit,
                     dump, calls, reports, cut>>
      /\ pc = "read" /\ pc' = "exit" /\ input = <<>>
  BY DEF EndOfDump, history
<1>2. Position'
  BY <1>1, StillThere DEF LoadInv
<1>3. Counted'
  BY <1>1 DEF LoadInv, Counted
<1>4. PICK n \in 0..Len(dump) : n = line /\ Between(n)
  BY <1>1 DEF LoadInv, Progress
<1>5. Asked(n)' = Asked(n) /\ SaidOf(n)' = SaidOf(n)
  BY <1>1, SameWishes, SameWords
<1>6. Between(n)'
  BY <1>1, <1>4, <1>5 DEF Between, OfInput, Made
<1>7. Progress'
  BY <1>1, <1>4, <1>6 DEF Progress
<1> QED BY <1>1, <1>2, <1>3, <1>7 DEF LoadInv

LEMMA ExitStep == LoadInv /\ Exit => LoadInv'
<1> SUFFICES ASSUME LoadInv, Exit PROVE LoadInv'
  OBVIOUS
<1>1. /\ UNCHANGED <<input, settings, line, fields, skip, path, failures,
                     dump, calls, reports, cut>>
      /\ pc = "exit" /\ pc' = "done" /\ exit' = IF failures > 0 THEN ExitError ELSE 0
  BY DEF Exit, ExitCode, history
<1>2. Position'
  BY <1>1, StillThere DEF LoadInv
<1>3. Counted'
  BY <1>1 DEF LoadInv, Counted
<1>4. PICK n \in 0..Len(dump) : n = line /\ Between(n)
  BY <1>1 DEF LoadInv, Progress
<1>5. Asked(n)' = Asked(n) /\ SaidOf(n)' = SaidOf(n) /\ OfInput(n)' = OfInput(n)
  <2>1. OfInput(n)' = OfInput(n)
    BY <1>1 DEF OfInput
  <2> QED BY <1>1, <2>1, SameWishes, SameWords
<1>6. \E W : reports \in Seq(W)
  <2>1. PICK C : calls \in Seq(C)
    BY DEF LoadInv
  <2>2. PICK W : SaidOf(n) \in Seq(W)
    BY <1>4, <2>1, SaidType
  <2>3. reports = SaidOf(n) \o OfInput(n)
    BY <1>1, <1>4 DEF Between
  <2> DEFINE p == Problem(n, <<>>, <<>>, "Io")
  <2>4. OfInput(n) = <<p>> \/ OfInput(n) = <<>>
    BY DEF OfInput
  <2> HIDE DEF p
  <2> QED BY <2>2, <2>3, <2>4, WithOne
<1>7. exit' = 0 <=> reports = <<>>
  <2>1. PICK W : reports \in Seq(W)
    BY <1>6
  <2>2. Len(reports) \in Nat /\ (Len(reports) > 0 <=> reports # <<>>)
    BY <2>1
  <2>3. failures = Len(reports)
    BY <1>1 DEF LoadInv, Counted
  <2> QED BY <1>1, <2>2, <2>3 DEF ExitError
<1>8. cut' \/ input' = <<>>
  BY <1>1 DEF LoadInv, Counted
<1>9. Between(n)'
  BY <1>1, <1>4, <1>5, <1>7, <1>8 DEF Between, Made
<1>10. Progress'
  BY <1>1, <1>4, <1>9 DEF Progress
<1> QED BY <1>1, <1>2, <1>3, <1>10 DEF LoadInv

LEMMA HeadOfRest ==
  ASSUME NEW S, NEW d \in Seq(S), NEW s \in Seq(S), NEW k, NEW n, n = k + 1,
         Rest(s, d, k), Len(s) > 0
  PROVE  /\ n \in 1..Len(d) /\ d[n] = Head(s) /\ Head(s) \in S
         /\ Tail(s) \in Seq(S) /\ Rest(Tail(s), d, n)
<1> USE DEF Rest
<1>1. Len(d) \in Nat /\ Len(s) \in Nat /\ s # <<>> /\ n \in 1..Len(d)
  OBVIOUS
<1>2. Head(s) = s[1] /\ Head(s) \in S /\ s[1] = d[k + 1]
  BY <1>1
<1>3. /\ Tail(s) \in Seq(S) /\ Len(Tail(s)) = Len(s) - 1
      /\ \A i \in 1..Len(Tail(s)) : Tail(s)[i] = s[i + 1] /\ i + 1 \in 1..Len(s)
  BY <1>1
<1>4. \A i \in 1..Len(Tail(s)) : Tail(s)[i] = d[n + i]
  BY <1>1, <1>3
<1> QED BY <1>1, <1>2, <1>3, <1>4

\* What is read means what the parser makes of it.
LEMMA NextLine ==
  ASSUME LoadInv, ParsesExactly, ReadLine, NEW n, n = line + 1
  PROVE  /\ n \in 1..Len(dump) /\ dump[n] = Head(input) /\ Known(n)
         /\ dump[n] = <<>> => Meant[dump[n]] = <<>>
         /\ LET parsed == ParseLine(Head(input))
            IN /\ parsed.ok <=> Meant[dump[n]] # <<>>
               /\ parsed.ok => parsed.fields = Meant[dump[n]]
<1>1. pc = "read" /\ input # <<>> /\ Len(input) > 0
  BY DEF ReadLine, LoadInv, Position
<1>2. /\ n \in 1..Len(dump) /\ dump[n] = Head(input) /\ Head(input) \in Seq(Tokens)
  <2>1. dump \in Seq(Seq(Tokens))
    BY LoadAssumption DEF LoadInv, Position
  <2>2. input \in Seq(Seq(Tokens)) /\ Rest(input, dump, line)
    BY DEF LoadInv, Position
  <2> QED BY <1>1, <2>1, <2>2, HeadOfRest
<1>3. PICK l, parsed : l = Head(input) /\ parsed = ParseLine(l)
  OBVIOUS
<1>4. parsed.fields = Meant[l] /\ (parsed.ok <=> parsed.fields # <<>>)
  BY <1>1, <1>3 DEF ParsesExactly
<1>5. parsed.ok => parsed.fields \in FieldsOfLine
  BY <1>2, <1>3, ParsedType
<1>6. dump[n] = <<>> => Meant[dump[n]] = <<>>
  <2>1. dump \in Dumps /\ dump \in Seq(Seq(Tokens))
    BY LoadAssumption DEF LoadInv, Position
  <2>2. dump[n] \in Lines
    BY <1>2, <2>1 DEF Lines, ToSet
  <2>3. dump[n] = <<>> => Len(dump[n]) < 2
    OBVIOUS
  <2>4. dump[n] = <<>> => Readings(dump[n]) = {}
    <3>1. DOMAIN <<>> = {}
      OBVIOUS
    <3>2. ~OpensAt(<<>>, 1)
      BY <3>1, OneType
    <3> QED BY <3>2, Zenon DEF Readings, OpensAt
  <2> QED BY <2>2, <2>4 DEF Meant
<1>7. Known(n)
  BY <1>2, <1>3, <1>4, <1>5 DEF Known
<1> QED BY <1>2, <1>3, <1>4, <1>5, <1>6, <1>7

LEMMA ReadLineStep == LoadInv /\ ParsesExactly /\ ReadLine => LoadInv'
<1> SUFFICES ASSUME LoadInv, ParsesExactly, ReadLine PROVE LoadInv'
  OBVIOUS
<1>1. PICK n : n = line + 1
  OBVIOUS
<1>2. PICK l, parsed : l = Head(input) /\ parsed = ParseLine(l)
  OBVIOUS
<1>3. /\ n \in 1..Len(dump) /\ dump[n] = l /\ Known(n) /\ (l = <<>> => Meant[l] = <<>>)
      /\ parsed.ok <=> Meant[l] # <<>>
      /\ parsed.ok => parsed.fields = Meant[l]
  BY <1>1, <1>2, NextLine
<1>4. /\ UNCHANGED <<settings, path, exit, dump, calls, cut>> /\ pc = "read" /\ ~cut
      /\ line' = n /\ input' = Tail(input) /\ Len(input) > 0
  BY <1>1 DEF ReadLine, LineNumber, CountAll, LoadInv, Counted
<1>5. n - 1 = line /\ n - 1 \in 0..Len(dump) /\ n \in Nat /\ n > 0 /\ \A i \in 1..n : Known(i)
  <2>1. dump \in Seq(Seq(Tokens)) /\ line \in 0..Len(dump) /\ \A i \in 1..line : Known(i)
    BY LoadAssumption DEF LoadInv, Position, Rest
  <2>2. Len(dump) \in Nat
    BY <2>1
  <2>3. n - 1 = line /\ n - 1 \in 0..Len(dump) /\ n \in Nat /\ n > 0
    BY <1>1, <2>1, <2>2
  <2>4. \A i \in 1..n : i \in 1..line \/ i = n
    BY <1>1, <2>3
  <2> QED BY <1>3, <2>1, <2>3, <2>4
<1>6. /\ \/ l = <<>> /\ Quiet /\ pc' = pc
         \/ l # <<>> /\ ~parsed.ok /\ pc' = pc /\ Report(<<>>, <<>>, "InvalidArgument")
         \/ l # <<>> /\ parsed.ok /\ pc' = "field" /\ fields' = parsed.fields /\ skip' /\ Quiet
  BY <1>2 DEF ReadLine
<1>7. Position'
  <2>1. input' \in Seq(Seq(Tokens)) /\ Rest(input', dump', n)
    <3>1. dump \in Seq(Seq(Tokens))
      BY LoadAssumption DEF LoadInv, Position
    <3>2. input \in Seq(Seq(Tokens)) /\ Rest(input, dump, line)
      BY DEF LoadInv, Position
    <3>3. Tail(input) \in Seq(Seq(Tokens)) /\ Rest(Tail(input), dump, n)
      BY <1>1, <1>4, <3>1, <3>2, HeadOfRest
    <3> QED BY <1>4, <3>3
  <2>2. \A i : Known(i)' = Known(i)
    BY <1>4, SameWishes
  <2> QED BY <1>3, <1>4, <1>5, <1>6, <2>1, <2>2 DEF LoadInv, Position
<1>8. /\ reports = SaidOf(n - 1) /\ Made = Asked(n - 1) /\ \E W : reports \in Seq(W)
  BY <1>4, <1>5, Said
<1>9. /\ \A k : Asked(k)' = Asked(k) /\ SaidOf(k)' = SaidOf(k)
      /\ Made' = Made /\ \A i : Wanted(i)' = Wanted(i)
  <2>1. Made' = Made
    BY <1>4 DEF Made
  <2> QED BY <1>4, <2>1, SameWishes, SameWords
<1>10. PICK C : calls \in Seq(C)
  BY DEF LoadInv
<1>11. \A j \in DOMAIN calls : calls[j].line # n /\ calls[j].line \in 1..n /\ dump[calls[j].line] # <<>>
  BY <1>5, <1>3 DEF LoadInv, Counted
<1>12. ASSUME Meant[l] = <<>>
       PROVE  Asked(n) = Asked(n - 1) /\ SaidOf(n) = SaidOf(n - 1) \o Told(n)
  <2>1. Wanted(n) = <<>>
    BY <1>3, <1>12, WantedType DEF Restored
  <2>2. PICK W : /\ Asked(n) = Asked(n - 1) \o Wanted(n) /\ Asked(n - 1) \in Seq(W)
    BY <1>5, AskedMore
  <2>3. Asked(n - 1) \o <<>> = Asked(n - 1)
    BY <2>2, JoinEmpty
  <2> QED BY <1>5, <1>10, <2>1, <2>2, <2>3, SaidMore
<1>13. CASE l = <<>>
  <2>1. UNCHANGED <<failures, reports, pc>>
    BY <1>6, <1>3, <1>13 DEF Quiet
  <2>2. Told(n) = <<>>
    BY <1>3, <1>13 DEF Told
  <2>3. SaidOf(n) = SaidOf(n - 1)
    BY <1>3, <1>8, <1>12, <1>13, <2>2, JoinEmpty
  <2>4. reports' = SaidOf(n) \o <<>>
    BY <1>8, <2>1, <2>3, JoinEmpty
  <2>5. Between(n)'
    BY <1>3, <1>4, <1>8, <1>9, <1>12, <1>13, <2>1, <2>4 DEF Between, OfInput
  <2>6. Progress'
    BY <1>3, <1>4, <1>5, <2>1, <2>5 DEF Progress
  <2>7. Counted'
    BY <1>4, <1>11, <2>1 DEF LoadInv, Counted
  <2> QED BY <1>4, <1>7, <1>10, <2>6, <2>7 DEF LoadInv
<1>14. CASE l # <<>> /\ ~parsed.ok
  <2>1. /\ failures' = failures + 1 /\ pc' = pc
        /\ reports' = Append(reports, Problem(n, <<>>, <<>>, "InvalidArgument"))
    BY <1>4, <1>6, <1>14 DEF Report
  <2>2. Told(n) = <<Problem(n, <<>>, <<>>, "InvalidArgument")>>
    BY <1>3, <1>14 DEF Told
  <2>3. reports' = SaidOf(n) /\ Len(reports') = Len(reports) + 1
    BY <1>3, <1>8, <1>12, <1>14, <2>1, <2>2, AppendOne
  <2>4. reports' = SaidOf(n) \o <<>>
    <3>1. PICK W : SaidOf(n) \in Seq(W)
      BY <1>5, <1>10, SaidType
    <3> QED BY <2>3, <3>1, JoinEmpty
  <2>5. Between(n)'
    BY <1>3, <1>4, <1>8, <1>9, <1>12, <1>14, <2>1, <2>4 DEF Between, OfInput
  <2>6. Progress'
    BY <1>3, <1>4, <1>5, <2>1, <2>5 DEF Progress
  <2>7. Counted'
    BY <1>4, <1>11, <2>1, <2>3 DEF LoadInv, Counted
  <2> QED BY <1>4, <1>7, <1>10, <2>6, <2>7 DEF LoadInv
<1>15. CASE l # <<>> /\ parsed.ok
  <2>1. UNCHANGED <<failures, reports>> /\ pc' = "field" /\ fields' = Meant[l] /\ skip'
    BY <1>3, <1>6, <1>15 DEF Quiet
  <2>2. PICK m : m = Meant[dump[n]]
    OBVIOUS
  <2>3. m \in FieldsOfLine /\ m \in Seq(Fields) /\ Len(m) \in Nat
    BY <1>3, <1>15, <2>2, LineType DEF Known
  <2>4. InLine(n, m, 0)'
    BY <1>3, <1>4, <1>15, <2>1, <2>2, <2>3 DEF InLine, Rest
  <2>5. Begun(n, m, 0)' = <<>>
    BY DEF Begun
  <2>6. Made' = Asked(n - 1)' \o <<>>
    <3>1. PICK W : Asked(n - 1) \in Seq(W)
      BY <1>5, AskedMore
    <3> QED BY <1>8, <1>9, <3>1, JoinEmpty
  <2>7. During(n, m, 0)'
    <3>1. reports' = SaidOf(n - 1)'
      BY <1>8, <1>9, <2>1
    <3>2. Made' = Asked(n - 1)' \o Begun(n, m, 0)'
      BY <2>5, <2>6
    <3> QED BY <1>4, <1>11, <3>1, <3>2 DEF During
  <2>8. Progress'
    BY <1>3, <1>4, <2>1, <2>2, <2>3, <2>4, <2>7 DEF Progress
  <2>9. Counted'
    BY <1>4, <1>11, <2>1 DEF LoadInv, Counted
  <2> QED BY <1>4, <1>7, <1>10, <2>8, <2>9 DEF LoadInv
<1> QED BY <1>13, <1>14, <1>15

\* The field at the head of those that wait.
LEMMA NextField ==
  ASSUME NEW m \in FieldsOfLine, NEW s \in Seq(Fields), NEW g, NEW h, h = g + 1,
         Rest(s, m, g), s # <<>>
  PROVE  /\ Head(s) = m[h] /\ g \in Nat /\ h \in 1..Len(m)
         /\ Tail(s) \in Seq(Fields) /\ Rest(Tail(s), m, h)
         /\ Head(s).field \in PathKeys => g = 0
         /\ Head(s).field \in MapKeys => g > 0
<1>1. /\ m \in Seq(Fields) /\ Len(m) \in Nat /\ m[1] \in PathFields
      /\ \A j \in 2..Len(m) : m[j] \in MapFields
  BY LineType
<1>2. Len(s) > 0
  OBVIOUS
<1>3. h \in 1..Len(m) /\ m[h] = Head(s) /\ Tail(s) \in Seq(Fields) /\ Rest(Tail(s), m, h)
  BY <1>1, <1>2, HeadOfRest
<1>4. g \in Nat /\ g = h - 1
  BY <1>1 DEF Rest
<1>5. ASSUME g > 0 PROVE Head(s).field \notin PathKeys
  <2>1. m[h] \in MapFields
    BY <1>1, <1>3, <1>4, <1>5
  <2>2. PICK f \in MapFields : f = Head(s)
    BY <1>3, <2>1
  <2> QED BY <2>2 DEF MapFields, MapKeys, PathKeys, Key
<1>6. ASSUME g = 0 PROVE Head(s).field \notin MapKeys
  <2>1. h = 1
    BY <1>4, <1>6
  <2>2. PICK f \in PathFields : f = Head(s)
    BY <1>1, <1>3, <2>1
  <2> QED BY <2>2 DEF PathFields, MapKeys, PathKeys, Key
<1>7. g = 0 \/ g > 0
  BY <1>4
<1> QED BY <1>3, <1>4, <1>5, <1>6, <1>7, Zenon

LEMMA EmptyPart ==
  ASSUME NEW s
  PROVE  SubSeq(s, 1, 0) = <<>>
OBVIOUS

\* What is known while a line is at work.
LEMMA AtWork ==
  ASSUME LoadInv, pc = "field"
  PROVE  \E n \in 1..Len(dump), m \in FieldsOfLine, g \in Nat :
           /\ g \in 0..Len(m) /\ InLine(n, m, g) /\ During(n, m, g) /\ ~cut
           /\ n \in Nat /\ n > 0 /\ n - 1 \in Nat /\ \A i \in 1..n : Known(i)
<1>1. PICK n \in 1..Len(dump) : \E m \in {Meant[dump[n]]} : \E g \in 0..Len(m) :
                                  InLine(n, m, g) /\ During(n, m, g)
  BY DEF LoadInv, Progress
<1>2. PICK m, g : g \in 0..Len(m) /\ InLine(n, m, g) /\ During(n, m, g)
  BY <1>1
<1>3. ~cut /\ n = line /\ m \in FieldsOfLine /\ g \in Nat
  BY <1>2, LineType DEF LoadInv, Counted, InLine
<1>4. Len(dump) \in Nat
  <2>1. dump \in Seq(Seq(Tokens))
    BY LoadAssumption DEF LoadInv, Position
  <2> QED BY <2>1
<1>5. n \in Nat /\ n > 0 /\ n - 1 \in Nat /\ \A i \in 1..n : Known(i)
  BY <1>1, <1>3, <1>4 DEF LoadInv, Position
<1> QED BY <1>2, <1>3, <1>5

LEMMA PathFieldStep == LoadInv /\ PathField => LoadInv'
<1> SUFFICES ASSUME LoadInv, PathField PROVE LoadInv'
  OBVIOUS
<1>1. /\ UNCHANGED <<input, settings, pc, line, exit, dump, calls, cut>>
      /\ pc = "field" /\ fields # <<>> /\ Head(fields).field \in PathKeys /\ fields' = Tail(fields)
  BY DEF PathField
<1>2. PICK n \in 1..Len(dump), m \in FieldsOfLine, g \in Nat :
           /\ g \in 0..Len(m) /\ InLine(n, m, g) /\ During(n, m, g) /\ ~cut
           /\ n \in Nat /\ n > 0 /\ n - 1 \in Nat /\ \A i \in 1..n : Known(i)
  BY <1>1, AtWork
<1>3. /\ g = 0 /\ Head(fields) = m[1] /\ fields' \in Seq(Fields) /\ Rest(fields', m, 1)
      /\ m = Meant[dump[n]] /\ n = line /\ dump[n] # <<>>
  <2>1. fields \in Seq(Fields) /\ Rest(fields, m, g)
    BY <1>2 DEF InLine
  <2>2. g = 0
    BY <1>1, <1>2, <2>1, NextField
  <2>3. Head(fields) = m[1] /\ Tail(fields) \in Seq(Fields) /\ Rest(Tail(fields), m, 1)
    BY <1>1, <2>1, <2>2, NextField
  <2> QED BY <1>1, <1>2, <2>2, <2>3 DEF InLine
<1>4. PICK p : p = PathText(Head(fields)) /\ p = PathOf(m)
  BY <1>2, <1>3, LineType DEF PathText, PathOf
<1>5. /\ Restored(m) <=> Accepts(p)
      /\ \/ Accepts(p) /\ path' = Target(p) /\ ~skip' /\ Quiet
         \/ ~Accepts(p) /\ skip' /\ Report(p, <<>>, "InvalidPath")
  BY <1>2, <1>4, LineType DEF PathField, Restored
<1>6. Position'
  BY <1>1, StillThere DEF LoadInv, Position
<1>7. /\ \A k : Asked(k)' = Asked(k) /\ SaidOf(k)' = SaidOf(k)
      /\ Restored(m)' = Restored(m) /\ Target(p)' = Target(p) /\ Made' = Made
  <2>1. Made' = Made
    BY <1>1 DEF Made
  <2> QED BY <1>1, <2>1, SameWishes, SameWords
<1>8. InLine(n, m, 1)'
  <2>1. skip' <=> ~Restored(m)'
    BY <1>5, <1>7
  <2>2. ~skip' => path' = Target(PathOf(m))'
    BY <1>4, <1>5, <1>7
  <2>3. dump' = dump /\ line' = line
    BY <1>1
  <2> QED BY <1>2, <1>3, <2>1, <2>2, <2>3 DEF InLine
<1>9. PICK C : calls \in Seq(C)
  BY DEF LoadInv
<1>10. /\ Made = Asked(n - 1) \o <<>> /\ reports = SaidOf(n - 1)
       /\ \A j \in DOMAIN calls : calls[j].line # n
  BY <1>2, <1>3 DEF During, Begun
<1>11. Begun(n, m, 1)' = <<>>
  BY EmptyPart DEF Begun
<1>12. Told(n) = IF Restored(m) THEN <<>> ELSE <<Problem(n, p, <<>>, "InvalidPath")>>
  <2>1. m # <<>>
    BY <1>2, LineType
  <2>2. Complaints(calls, n) = <<>>
    BY <1>9, <1>10, NoComplaint
  <2> QED BY <1>3, <1>4, <2>1, <2>2 DEF Told
<1>13. PICK W : SaidOf(n) = SaidOf(n - 1) \o Told(n) /\ SaidOf(n - 1) \in Seq(W)
  BY <1>2, <1>9, SaidMore
<1>14. /\ reports' = SaidOf(n)
       /\ failures' = Len(reports')
  <2>1. failures = Len(reports)
    BY <1>1 DEF LoadInv, Counted
  <2>2. CASE Restored(m)
    <3>1. UNCHANGED <<reports, failures>>
      BY <1>5, <2>2 DEF Quiet
    <3>2. SaidOf(n) = SaidOf(n - 1)
      BY <1>12, <1>13, <2>2, JoinEmpty
    <3> QED BY <1>10, <2>1, <3>1, <3>2
  <2>3. CASE ~Restored(m)
    <3>1. failures' = failures + 1 /\ reports' = Append(reports, Problem(n, p, <<>>, "InvalidPath"))
      BY <1>1, <1>3, <1>5, <2>3 DEF Report
    <3> QED BY <1>10, <1>12, <1>13, <2>1, <2>3, <3>1, AppendOne
  <2> QED BY <2>2, <2>3
<1>15. During(n, m, 1)'
  <2>1. Made' = Asked(n - 1)' \o Begun(n, m, 1)'
    BY <1>7, <1>10, <1>11
  <2>2. reports' = SaidOf(n)'
    BY <1>7, <1>14
  <2> QED BY <2>1, <2>2 DEF During
<1>16. Progress'
  <2>1. 1 \in 0..Len(m)
    BY <1>2, LineType
  <2> QED BY <1>1, <1>2, <1>3, <1>8, <1>15, <2>1 DEF Progress
<1>17. Counted'
  BY <1>1, <1>14 DEF LoadInv, Counted
<1> QED BY <1>1, <1>6, <1>9, <1>16, <1>17 DEF LoadInv

LEMMA EndOfLineStep == LoadInv /\ EndOfLine => LoadInv'
<1> SUFFICES ASSUME LoadInv, EndOfLine PROVE LoadInv'
  OBVIOUS
<1>1. /\ UNCHANGED <<input, settings, line, fields, skip, path, failures, exit,
                     dump, calls, reports, cut>>
      /\ pc = "field" /\ fields = <<>> /\ pc' = "read"
  BY DEF EndOfLine, history
<1>2. PICK n \in 1..Len(dump), m \in FieldsOfLine, g \in Nat :
           /\ g \in 0..Len(m) /\ InLine(n, m, g) /\ During(n, m, g) /\ ~cut
           /\ n \in Nat /\ n > 0 /\ n - 1 \in Nat /\ \A i \in 1..n : Known(i)
  BY <1>1, AtWork
<1>3. g = Len(m) /\ g > 0 /\ n = line /\ m = Meant[dump[n]]
  <2>1. Len(fields) = 0 /\ Len(m) \in Nat /\ Len(m) >= 1
    BY <1>1, <1>2, LineType
  <2> QED BY <1>2, <2>1 DEF InLine, Rest
<1>4. PICK C : calls \in Seq(C)
  BY DEF LoadInv
<1>5. Begun(n, m, g) = Wanted(n)
  <2>1. Known(n)
    BY <1>2
  <2>2. CASE Restored(m)
    <3>1. PICK w, W : w = Wanted(n) /\ w \in Seq(W) /\ Len(w) = g - 1
      BY <1>3, <2>1, <2>2, WantedType
    <3>2. SubSeq(w, 1, Len(w)) = w
      BY <3>1
    <3> QED BY <1>3, <2>2, <3>1, <3>2 DEF Begun
  <2>3. CASE ~Restored(m)
    BY <1>3, <2>1, <2>3, WantedType DEF Begun
  <2> QED BY <2>2, <2>3
<1>6. Made = Asked(n) /\ reports = SaidOf(n) \o <<>>
  <2>1. Asked(n) = Asked(n - 1) \o Wanted(n)
    BY <1>2, AskedMore
  <2>2. PICK W : SaidOf(n) \in Seq(W)
    BY <1>2, <1>4, SaidType
  <2> QED BY <1>2, <1>3, <1>5, <2>1, <2>2, JoinEmpty DEF During
<1>7. Position'
  BY <1>1, StillThere DEF LoadInv
<1>8. Counted'
  BY <1>1 DEF LoadInv, Counted
<1>9. Asked(n)' = Asked(n) /\ SaidOf(n)' = SaidOf(n) /\ Made' = Made
  <2>1. Made' = Made
    BY <1>1 DEF Made
  <2> QED BY <1>1, <2>1, SameWishes, SameWords
<1>10. Between(n)'
  BY <1>1, <1>2, <1>6, <1>9 DEF Between, OfInput
<1>11. Progress'
  BY <1>1, <1>2, <1>3, <1>10 DEF Progress
<1> QED BY <1>1, <1>4, <1>7, <1>8, <1>11 DEF LoadInv

LEMMA JoinMore ==
  ASSUME NEW W, NEW a \in Seq(W), NEW b \in Seq(W), NEW c \in Seq(W)
  PROVE  (a \o b) \o c = a \o (b \o c)
BY ConcatAssociative

Associate(a, b, c) == (a \o b) \o c = a \o (b \o c)

LEMMA JoinMixed ==
  ASSUME NEW V, NEW W, NEW a \in Seq(V), NEW b \in Seq(W), NEW c \in Seq(W)
  PROVE  Associate(a, b, c)
<1>1. a \in Seq(V \cup W)
  OBVIOUS
<1>2. b \in Seq(V \cup W) /\ c \in Seq(V \cup W)
  OBVIOUS
<1>3. (a \o b) \o c = a \o (b \o c)
  BY <1>1, <1>2, JoinMore
<1> QED BY <1>3 DEF Associate

LEMMA AppendJoined ==
  ASSUME NEW W, NEW a \in Seq(W), NEW s \in Seq(W), NEW x \in W
  PROVE  Append(a \o s, x) = a \o (s \o <<x>>)
<1>1. PICK y : y = <<x>>
  OBVIOUS
<1>2. y \in Seq(W) /\ a \o s \in Seq(W)
  BY <1>1
<1>3. (a \o s) \o y = a \o (s \o y)
  BY <1>2, JoinMore
<1>4. Append(a \o s, x) = (a \o s) \o y
  BY <1>1, <1>2, AppendOne
<1> QED BY <1>1, <1>3, <1>4

\* One more of what is asked for.
LEMMA PartMore ==
  ASSUME NEW W, NEW a \in Seq(W), NEW w \in Seq(W), NEW g \in 1..Len(w)
  PROVE  Append(a \o SubSeq(w, 1, g - 1), w[g]) = a \o SubSeq(w, 1, g)
<1>1. 1 \in 1..Len(w) /\ w[g] \in W
  OBVIOUS
<1>2. PICK s, x : s = SubSeq(w, 1, g - 1) /\ x = w[g]
  OBVIOUS
<1>3. s \in Seq(W) /\ x \in W
  BY <1>1, <1>2
<1>4. SubSeq(w, 1, g) = s \o <<x>>
  BY <1>1, <1>2, SubSeqRecursiveSecond
<1>5. Append(a \o s, x) = a \o (s \o <<x>>)
  BY <1>3, AppendJoined
<1> QED BY <1>2, <1>4, <1>5

LEMMA MadeMore ==
  ASSUME NEW C, calls \in Seq(C), NEW c, calls' = Append(calls, c)
  PROVE  Made' = Append(Made, [line |-> c.line, path |-> c.path, name |-> c.name, value |-> c.value])
<1> DEFINE part(x) == [line |-> x.line, path |-> x.path, name |-> x.name, value |-> x.value]
<1>1. PICK cs, ds, n : cs = calls /\ ds = calls' /\ n = Len(cs)
  OBVIOUS
<1>2. Made = [j \in DOMAIN cs |-> part(cs[j])] /\ Made' = [j \in DOMAIN ds |-> part(ds[j])]
  BY <1>1 DEF Made
<1>3. /\ n \in Nat /\ DOMAIN cs = 1..n /\ DOMAIN ds = 1..(n + 1)
      /\ \A i \in 1..n : ds[i] = cs[i]
      /\ ds[n + 1] = c
  BY <1>1, AppendCall
<1>4. PICK q : q = part(c)
  OBVIOUS
<1> DEFINE s == [j \in 1..n |-> part(cs[j])]
           t == [j \in 1..(n + 1) |-> part(ds[j])]
           V == {part(x) : x \in ToSet(cs) \cup {c}}
<1>5. /\ \A i \in 1..n : part(cs[i]) \in V /\ ds[i] = cs[i]
      /\ \A i \in 1..(n + 1) : part(ds[i]) \in V
      /\ part(ds[n + 1]) = q
  <2>1. \A i \in 1..n : cs[i] \in ToSet(cs)
    BY <1>3 DEF ToSet
  <2>2. \A i \in 1..(n + 1) : ds[i] \in ToSet(cs) \cup {c}
    BY <1>3, <2>1
  <2> HIDE DEF part
  <2> QED BY <1>3, <1>4, <2>1, <2>2
<1> HIDE DEF part, V
<1>6. /\ s \in [1..n -> V] /\ t \in [1..(n + 1) -> V]
      /\ \A i \in 1..n : t[i] = s[i]
      /\ t[n + 1] = q
  BY <1>3, <1>5
<1> HIDE DEF s, t
<1>7. t = Append(s, q)
  BY <1>3, <1>6, OneLonger
<1> QED BY <1>2, <1>3, <1>4, <1>7 DEF s, t, part

SaidGrows ==
  \A n \in Nat : n > 0 /\ (\E C : calls \in Seq(C)) => SaidOf(n) = SaidOf(n - 1) \o Told(n)

LEMMA SaidNext == SaidGrows'
<1>1. SaidGrows
  BY SaidMore DEF SaidGrows
<1> QED BY <1>1, PTL

\* Field h of line n, which is restored, comes after g others.
Waits(n, m, g, h) ==
  /\ m = Meant[dump[n]] /\ m \in FieldsOfLine /\ Restored(m)
  /\ g \in Nat /\ g > 0 /\ h = g + 1 /\ h \in 1..Len(m)

\* A call made for line n is the next that the line asks for, and what is said
\* of it comes last.
LEMMA NextCall ==
  ASSUME NEW m, NEW n, NEW g, NEW h, Waits(n, m, g, h), NEW f, f = m[h]
  PROVE  /\ g \in 1..Len(Wanted(n))
         /\ Wanted(n)[g] = [line |-> n, path |-> Target(PathOf(m)), name |-> AttrName(f),
                            value |-> Decode(f.value)]
<1> USE DEF Waits
<1>1. Len(m) \in Nat /\ g \in 1..(Len(m) - 1)
  BY LineType
<1> DEFINE call(j) == [line |-> n, path |-> Target(PathOf(m)),
                       name |-> IF m[j + 1].field = Key("xattrs_pb") THEN Decode(m[j + 1].key)
                                ELSE m[j + 1].key,
                       value |-> Decode(m[j + 1].value)]
<1>2. Wanted(n) = [j \in 1..(Len(m) - 1) |-> call(j)]
  BY DEF Wanted
<1>3. call(g) = [line |-> n, path |-> Target(PathOf(m)), name |-> AttrName(f),
                 value |-> Decode(f.value)]
  BY DEF AttrName
<1>4. Len(Wanted(n)) = Len(m) - 1
  BY <1>2, WantedType DEF Known
<1> HIDE DEF call
<1> QED BY <1>1, <1>2, <1>3, <1>4

LEMMA SaidOfCall ==
  ASSUME NEW C, calls \in Seq(C), NEW c, calls' = Append(calls, c), UNCHANGED <<dump, settings>>,
         NEW n \in Nat, n > 0, c.line = n, dump[n] # <<>>, Meant[dump[n]] # <<>>,
         Restored(Meant[dump[n]])
  PROVE  /\ SaidOf(n)' = SaidOf(n) \o Complaint(c, n)
         /\ \E W : SaidOf(n) \in Seq(W)
<1>1. PICK cs, ds : cs = calls /\ ds = calls' /\ cs \in Seq(C) /\ ds = Append(cs, c)
  OBVIOUS
<1>2. \A i : Restored(Meant[dump[i]])' = Restored(Meant[dump[i]])
  BY DEF Restored, Accepts
<1>3. \A i \in 1..(n - 1) : Complaints(ds, i) = Complaints(cs, i)
  <2> TAKE i \in 1..(n - 1)
  <2>1. Complaint(c, i) = <<>>
    BY DEF Complaint
  <2>2. PICK W : /\ Complaints(ds, i) = Complaints(cs, i) \o Complaint(c, i)
                 /\ Complaints(cs, i) \in Seq(W)
    BY <1>1, OneMoreCall
  <2> QED BY <2>1, <2>2, JoinEmpty
<1>4. SaidOf(n - 1)' = SaidOf(n - 1)
  <2>1. \A i \in 1..(n - 1) : Told(i)' = Told(i)
    BY <1>1, <1>2, <1>3 DEF Told
  <2> QED BY <2>1 DEF SaidOf
<1>5. Told(n) = Complaints(cs, n) /\ Told(n)' = Complaints(ds, n)
  BY <1>1, <1>2 DEF Told
<1>6. PICK V : SaidOf(n) = SaidOf(n - 1) \o Told(n) /\ SaidOf(n - 1) \in Seq(V) /\ SaidOf(n) \in Seq(V)
  BY SaidMore
<1>7. SaidOf(n)' = SaidOf(n - 1)' \o Told(n)'
  <2>1. \E D : calls' \in Seq(D)
    BY AppendCall
  <2> QED BY <2>1, SaidNext DEF SaidGrows
<1>8. PICK W : /\ Complaints(ds, n) = Complaints(cs, n) \o Complaint(c, n)
               /\ Complaints(cs, n) \in Seq(W) /\ Complaint(c, n) \in Seq(W)
  BY <1>1, OneMoreCall
<1>9. PICK s, t, u : s = SaidOf(n - 1) /\ t = Complaints(cs, n) /\ u = Complaint(c, n)
  OBVIOUS
<1>10. (s \o t) \o u = s \o (t \o u)
  <2>1. s \in Seq(V) /\ t \in Seq(W) /\ u \in Seq(W)
    BY <1>6, <1>8, <1>9
  <2>2. Associate(s, t, u)
    BY <2>1, JoinMixed, Zenon
  <2> QED BY <2>2 DEF Associate
<1> QED BY <1>4, <1>5, <1>6, <1>7, <1>8, <1>9, <1>10

LEMMA CallsMore ==
  ASSUME NEW C, calls \in Seq(C), NEW c, calls' = Append(calls, c)
  PROVE  /\ DOMAIN calls' = 1..(Len(calls) + 1) /\ Len(calls) \in Nat
         /\ DOMAIN calls = 1..Len(calls)
         /\ \A i \in 1..Len(calls) : calls'[i] = calls[i]
         /\ calls'[Len(calls) + 1] = c
         /\ \E D : calls' \in Seq(D)
<1>1. DOMAIN calls' = 1..(Len(calls) + 1) /\ \E D : calls' \in Seq(D)
  BY AppendCall
<1>2. (\A i \in 1..Len(calls) : calls'[i] = calls[i]) /\ calls'[Len(calls) + 1] = c
  BY AppendCall
<1> QED BY <1>1, <1>2

LEMMA AttrFieldStep == LoadInv /\ AttrField => LoadInv'
<1> SUFFICES ASSUME LoadInv, AttrField PROVE LoadInv'
  OBVIOUS
<1>1. /\ UNCHANGED <<input, settings, pc, line, skip, path, exit, dump, cut>>
      /\ pc = "field" /\ fields # <<>> /\ Head(fields).field \in MapKeys /\ fields' = Tail(fields)
  BY DEF AttrField
<1>2. PICK n \in 1..Len(dump), m \in FieldsOfLine, g \in Nat :
           /\ g \in 0..Len(m) /\ InLine(n, m, g) /\ During(n, m, g) /\ ~cut
           /\ n \in Nat /\ n > 0 /\ n - 1 \in Nat /\ \A i \in 1..n : Known(i)
  BY <1>1, AtWork
<1>3. PICK h, f : h = g + 1 /\ f = Head(fields)
  OBVIOUS
<1>4. /\ g > 0 /\ g \in Nat /\ f = m[h] /\ h \in 1..Len(m)
      /\ fields' \in Seq(Fields) /\ Rest(fields', m, h)
      /\ m = Meant[dump[n]] /\ n = line /\ dump[n] # <<>> /\ m # <<>>
      /\ skip <=> ~Restored(m)
      /\ ~skip => path = Target(PathOf(m))
  <2>1. fields \in Seq(Fields) /\ Rest(fields, m, g)
    BY <1>2 DEF InLine
  <2>2. /\ g > 0 /\ g \in Nat /\ f = m[h] /\ h \in 1..Len(m)
        /\ Tail(fields) \in Seq(Fields) /\ Rest(Tail(fields), m, h)
    BY <1>1, <1>2, <1>3, <2>1, NextField
  <2> QED BY <1>1, <1>2, <2>2, LineType DEF InLine
<1>5. h > 0 /\ h \in 0..Len(m) /\ h - 1 = g
  BY <1>3, <1>4
<1>6. Position'
  BY <1>1, StillThere DEF LoadInv, Position
<1>7. /\ \A k : Asked(k)' = Asked(k) /\ Wanted(k)' = Wanted(k)
      /\ Restored(m)' = Restored(m) /\ Target(PathOf(m))' = Target(PathOf(m))
  BY <1>1, SameWishes
<1>8. InLine(n, m, h)'
  <2>1. skip' <=> ~Restored(m)'
    BY <1>1, <1>4, <1>7
  <2>2. ~skip' => path' = Target(PathOf(m))'
    BY <1>1, <1>4, <1>7
  <2>3. dump' = dump /\ line' = line
    BY <1>1
  <2> QED BY <1>2, <1>4, <1>5, <2>1, <2>2, <2>3 DEF InLine
<1>9. PICK C : calls \in Seq(C)
  BY DEF LoadInv
<1>10. Made = Asked(n - 1) \o Begun(n, m, g) /\ reports = SaidOf(n)
  BY <1>2, <1>4 DEF During
<1>11. failures = Len(reports)
  BY <1>1 DEF LoadInv, Counted
<1>12. /\ \A j \in DOMAIN calls : calls[j].line \in 1..line /\ dump[calls[j].line] # <<>>
       /\ ~cut' /\ pc' = "field"
  BY <1>1, <1>2 DEF LoadInv, Counted
<1>13. CASE skip
  <2>1. UNCHANGED <<calls, failures, reports>>
    BY <1>13 DEF AttrField, Quiet
  <2>2. Begun(n, m, g) = <<>> /\ Begun(n, m, h)' = <<>>
    BY <1>4, <1>7, <1>13 DEF Begun
  <2>3. Made' = Asked(n - 1)' \o Begun(n, m, h)'
    <3>1. Made' = Made
      BY <2>1 DEF Made
    <3> QED BY <1>7, <1>10, <2>2, <3>1
  <2>4. reports' = SaidOf(n)'
    BY <1>1, <1>10, <2>1, SameWords
  <2>5. During(n, m, h)'
    BY <1>5, <2>3, <2>4 DEF During
  <2>6. Progress'
    BY <1>1, <1>2, <1>4, <1>5, <1>8, <2>5 DEF Progress
  <2>7. Counted'
    BY <1>1, <1>11, <1>12, <2>1 DEF Counted
  <2> QED BY <1>6, <1>9, <2>1, <2>6, <2>7 DEF LoadInv
<1>14. CASE ~skip
  <2>1. PICK status \in SetOutcomes(path, AttrName(f)) :
          /\ calls' = Append(calls, [line |-> line, path |-> path, name |-> AttrName(f),
                                     value |-> Decode(f.value), status |-> status])
          /\ IF status = "OK" THEN Quiet ELSE Report(path, AttrName(f), status)
    BY <1>3, <1>14 DEF AttrField
  <2>2. PICK c : c = [line |-> line, path |-> path, name |-> AttrName(f),
                      value |-> Decode(f.value), status |-> status]
    OBVIOUS
  <2>3. /\ calls' = Append(calls, c) /\ c.line = n /\ c.status = status
        /\ c.path = path /\ c.name = AttrName(f)
    BY <1>4, <2>1, <2>2
  <2>4. Restored(m)
    BY <1>4, <1>14
  <2>5. PICK w, W : /\ w = Wanted(n) /\ w \in Seq(W) /\ Asked(n - 1) \in Seq(W)
    BY <1>2, AskedMore
  <2>6. /\ g \in 1..Len(w)
        /\ w[g] = [line |-> c.line, path |-> c.path, name |-> c.name, value |-> c.value]
    <3>1. /\ g \in 1..Len(Wanted(n))
          /\ Wanted(n)[g] = [line |-> n, path |-> Target(PathOf(m)), name |-> AttrName(f),
                             value |-> Decode(f.value)]
      <4>1. Waits(n, m, g, h)
        BY <1>2, <1>3, <1>4, <2>4 DEF Waits
      <4> QED BY <1>4, <4>1, NextCall
    <3> QED BY <1>4, <1>14, <2>2, <2>5, <3>1
  <2>7. Made' = Append(Made, w[g])
    BY <1>9, <2>3, <2>6, MadeMore
  <2>8. Begun(n, m, g) = SubSeq(w, 1, g - 1) /\ Begun(n, m, h)' = SubSeq(w, 1, g)
    BY <1>4, <1>5, <1>7, <2>4, <2>5 DEF Begun
  <2>9. Made' = Asked(n - 1)' \o Begun(n, m, h)'
    <3>1. Append(Asked(n - 1) \o SubSeq(w, 1, g - 1), w[g]) = Asked(n - 1) \o SubSeq(w, 1, g)
      BY <2>5, <2>6, PartMore
    <3> QED BY <1>7, <1>10, <2>7, <2>8, <3>1
  <2>10. /\ SaidOf(n)' = SaidOf(n) \o Complaint(c, n)
         /\ \E V : SaidOf(n) \in Seq(V)
    BY <1>1, <1>2, <1>4, <1>9, <2>3, <2>4, SaidOfCall
  <2>11. reports' = SaidOf(n)' /\ failures' = Len(reports')
    <3>1. CASE status = "OK"
      <4>1. UNCHANGED <<failures, reports>>
        BY <2>1, <3>1 DEF Quiet
      <4>2. Complaint(c, n) = <<>>
        BY <2>3, <3>1 DEF Complaint
      <4> QED BY <1>10, <1>11, <2>10, <4>1, <4>2, JoinEmpty
    <3>2. CASE status # "OK"
      <4>1. /\ failures' = failures + 1
            /\ reports' = Append(reports, Problem(n, c.path, c.name, c.status))
        BY <1>1, <1>4, <2>1, <2>3, <3>2 DEF Report
      <4>2. Complaint(c, n) = <<Problem(n, c.path, c.name, c.status)>>
        BY <2>3, <3>2 DEF Complaint
      <4> QED BY <1>10, <1>11, <2>10, <4>1, <4>2, AppendOne
    <3> QED BY <3>1, <3>2
  <2>12. During(n, m, h)'
    BY <1>5, <2>9, <2>11 DEF During
  <2>13. Progress'
    BY <1>1, <1>2, <1>4, <1>5, <1>8, <2>12 DEF Progress
  <2>14. /\ DOMAIN calls' = 1..(Len(calls) + 1) /\ Len(calls) \in Nat /\ DOMAIN calls = 1..Len(calls)
         /\ \A i \in 1..Len(calls) : calls'[i] = calls[i]
         /\ calls'[Len(calls) + 1] = c
         /\ \E D : calls' \in Seq(D)
    BY <1>9, <2>3, CallsMore
  <2>15. \A j \in DOMAIN calls' : calls'[j].line \in 1..line' /\ dump'[calls'[j].line] # <<>>
    <3> TAKE j \in DOMAIN calls'
    <3>1. CASE j \in 1..Len(calls)
      BY <1>1, <1>12, <2>14, <3>1
    <3>2. CASE j = Len(calls) + 1
      BY <1>1, <1>2, <1>4, <2>3, <2>14, <3>2
    <3> QED BY <2>14, <3>1, <3>2
  <2>16. Counted'
    BY <1>12, <2>11, <2>15 DEF Counted
  <2> QED BY <1>6, <2>13, <2>14, <2>16 DEF LoadInv
<1> QED BY <1>13, <1>14

LEMMA LoadStep == LoadInv /\ ParsesExactly /\ [Next]_vars => LoadInv'
<1> SUFFICES ASSUME LoadInv, ParsesExactly, [Next]_vars PROVE LoadInv'
  OBVIOUS
<1>1. CASE Next
  BY <1>1, OpenStep, ReadFailsStep, ReadLineStep, EndOfDumpStep, PathFieldStep, AttrFieldStep,
     EndOfLineStep, ExitStep DEF Next
<1>2. CASE UNCHANGED vars
  <2>1. /\ UNCHANGED <<input, settings, pc, line, fields, skip, path, failures, exit,
                       dump, calls, reports, cut>>
    BY <1>2 DEF vars, history
  <2>2. Position'
    BY <2>1, StillThere DEF LoadInv, Position
  <2>3. Counted'
    BY <2>1 DEF LoadInv, Counted
  <2>4. /\ \A n : /\ Asked(n)' = Asked(n) /\ SaidOf(n)' = SaidOf(n)
                  /\ Wanted(n)' = Wanted(n) /\ OfInput(n)' = OfInput(n)
        /\ \A m : Restored(m)' = Restored(m)
        /\ \A p : Target(p)' = Target(p)
        /\ Made' = Made
    <3>1. Made' = Made /\ \A n : OfInput(n)' = OfInput(n)
      BY <2>1 DEF Made, OfInput
    <3> QED BY <2>1, <3>1, SameWishes, SameWords
  <2>5. \A n : Between(n) => Between(n)'
    BY <2>1, <2>4 DEF Between
  <2>6. \A n, m, g : InLine(n, m, g) => InLine(n, m, g)'
    BY <2>1, <2>4 DEF InLine
  <2>7. \A n, m, g : Begun(n, m, g)' = Begun(n, m, g)
    BY <2>4 DEF Begun
  <2>8. \A n, m, g : During(n, m, g) => During(n, m, g)'
    BY <2>1, <2>4, <2>7 DEF During
  <2>9. Progress'
    BY <2>1, <2>5, <2>6, <2>8 DEF LoadInv, Progress
  <2> QED BY <2>1, <2>2, <2>3, <2>9 DEF LoadInv
<1> QED BY <1>1, <1>2

LEMMA LoadStart == Init => LoadInv
<1> SUFFICES ASSUME Init PROVE LoadInv
  OBVIOUS
<1>1. /\ dump \in Dumps /\ input = dump /\ settings \in Settings
      /\ pc = "open" /\ line = 0 /\ failures = 0
      /\ calls = <<>> /\ reports = <<>> /\ cut = FALSE
  BY DEF Init
<1>2. dump \in Seq(Seq(Tokens)) /\ Len(dump) \in Nat /\ 0 \in 0..Len(dump)
  BY <1>1, LoadAssumption
<1>3. Position
  <2>1. Rest(input, dump, line)
    BY <1>1, <1>2 DEF Rest
  <2> QED BY <1>1, <1>2, <2>1 DEF Position
<1>4. calls \in Seq({}) /\ DOMAIN calls = {}
  BY <1>1
<1>5. Counted
  BY <1>1, <1>4 DEF Counted
<1>6. Made = <<>>
  BY <1>4 DEF Made
<1>7. Between(0)
  BY <1>1, <1>6, AskedNone, SaidNone, JoinEmpty DEF Between, OfInput
<1>8. Progress
  BY <1>1, <1>2, <1>7 DEF Progress
<1> QED BY <1>3, <1>4, <1>5, <1>8 DEF LoadInv

LEMMA LoadInvariance == Spec => []LoadInv
BY LoadStart, LoadStep, ParsesAll, PTL DEF Spec

-----------------------------------------------------------------------------
(* What load promises                                                      *)

LEMMA StartsWith ==
  ASSUME NEW W, NEW p \in Seq(W), NEW u \in Seq(W)
  PROVE  IsPrefix(p, p \o u)
<1> DEFINE q == p \o u
           s == SubSeq(p, 1, Len(p))
           t == SubSeq(q, 1, Len(p))
<1>1. /\ q \in Seq(W) /\ Len(q) = Len(p) + Len(u) /\ Len(p) \in Nat /\ Len(u) \in Nat
      /\ \A i \in 1..Len(p) : q[i] = p[i]
  OBVIOUS
<1> HIDE DEF q
<1>2. s \in Seq(W) /\ Len(s) = Len(p) /\ \A i \in 1..Len(p) : s[i] = p[i]
  BY <1>1
<1>3. t \in Seq(W) /\ Len(t) = Len(p) /\ \A i \in 1..Len(p) : t[i] = q[i]
  BY <1>1
<1> HIDE DEF s, t
<1>4. s = t
  BY <1>1, <1>2, <1>3, SeqEqual
<1> QED BY <1>1, <1>4 DEF IsPrefix, q, s, t

LEMMA PrefixJoined ==
  ASSUME NEW W, NEW a \in Seq(W), NEW s \in Seq(W), NEW u \in Seq(W)
  PROVE  IsPrefix(a \o s, a \o (s \o u))
<1>1. a \o s \in Seq(W)
  OBVIOUS
<1>2. (a \o s) \o u = a \o (s \o u)
  BY JoinMore
<1>3. IsPrefix(a \o s, (a \o s) \o u)
  BY <1>1, StartsWith
<1> QED BY <1>2, <1>3

LEMMA InTwo ==
  ASSUME NEW W, NEW w \in Seq(W), NEW k \in 0..Len(w)
  PROVE  SubSeq(w, 1, k) \o SubSeq(w, k + 1, Len(w)) = w
<1>1. PICK l : l = Len(w) /\ l \in k..Len(w) /\ k \in (1 - 1)..Len(w) /\ 1 \in 1..(Len(w) + 1)
  OBVIOUS
<1>2. SubSeq(w, 1, k) \o SubSeq(w, k + 1, l) = SubSeq(w, 1, l)
  BY <1>1, ConcatAdjacentSubSeq
<1>3. SubSeq(w, 1, l) = w
  BY <1>1, SubSeqFull
<1> QED BY <1>1, <1>2, <1>3

LEMMA Prefix ==
  ASSUME NEW W, NEW a \in Seq(W), NEW w \in Seq(W), NEW k \in 0..Len(w)
  PROVE  IsPrefix(a \o SubSeq(w, 1, k), a \o w)
<1>1. PICK s, u : s = SubSeq(w, 1, k) /\ u = SubSeq(w, k + 1, Len(w))
  OBVIOUS
<1>2. s \in Seq(W) /\ u \in Seq(W)
  BY <1>1
<1>3. s \o u = w
  BY <1>1, InTwo
<1>4. IsPrefix(a \o s, a \o (s \o u))
  BY <1>2, PrefixJoined
<1> QED BY <1>1, <1>3, <1>4

LEMMA ReadSoFar == LoadInv => Consumed = line /\ line \in Nat /\ (input = <<>> => line = Len(dump))
<1> SUFFICES ASSUME LoadInv PROVE Consumed = line /\ line \in Nat /\ (input = <<>> => line = Len(dump))
  OBVIOUS
<1>1. dump \in Seq(Seq(Tokens))
  BY LoadAssumption DEF LoadInv, Position
<1>2. input \in Seq(Seq(Tokens)) /\ Rest(input, dump, line)
  BY DEF LoadInv, Position
<1> QED BY <1>1, <1>2 DEF Rest, Consumed

\* Every attribute of every line that is accepted is written to that line's
\* path, once and in order, whatever failed before it, and nothing else is, of
\* any dump of any lines (main.rs:974-976).
THEOREM WritesWhatIsAsked == Spec => []RestoresAll
<1>1. LoadInv => RestoresAll
  <2> SUFFICES ASSUME LoadInv PROVE RestoresAll
    OBVIOUS
  <2>1. PICK n : n = line /\ n = Consumed
    BY ReadSoFar
  <2>2. CASE pc # "field"
    <3>1. Made = Asked(n)
      BY <2>1, <2>2 DEF LoadInv, Progress, Between
    <3> QED BY <2>1, <2>2, <3>1 DEF RestoresAll
  <2>3. CASE pc = "field"
    <3>1. PICK k \in 1..Len(dump), m \in FieldsOfLine, g \in Nat :
             /\ g \in 0..Len(m) /\ InLine(k, m, g) /\ During(k, m, g)
             /\ k \in Nat /\ k > 0 /\ \A i \in 1..k : Known(i)
      BY <2>3, AtWork
    <3>2. k = n /\ m = Meant[dump[n]] /\ Made = Asked(n - 1) \o Begun(n, m, g)
      BY <2>1, <3>1 DEF InLine, During
    <3>3. PICK W, w : /\ w = Wanted(n) /\ Asked(n) = Asked(n - 1) \o w
                      /\ Asked(n - 1) \in Seq(W) /\ w \in Seq(W)
      BY <3>1, <3>2, AskedMore
    <3>4. \E j \in 0..Len(w) : Begun(n, m, g) = SubSeq(w, 1, j)
      <4>1. CASE g > 0 /\ Restored(m)
        <5>1. Len(w) = Len(m) - 1 /\ Len(m) \in Nat
          BY <3>1, <3>2, <3>3, <4>1, WantedType, LineType
        <5>2. g - 1 \in 0..Len(w)
          BY <3>1, <4>1, <5>1
        <5> QED BY <3>3, <4>1, <5>2 DEF Begun
      <4>2. CASE ~(g > 0 /\ Restored(m))
        <5>1. Begun(n, m, g) = SubSeq(w, 1, 0)
          BY <4>2, EmptyPart DEF Begun
        <5>2. 0 \in 0..Len(w)
          BY <3>3
        <5> QED BY <5>1, <5>2
      <4> QED BY <4>1, <4>2
    <3>5. IsPrefix(Made, Asked(n))
      BY <3>2, <3>3, <3>4, Prefix
    <3> QED BY <2>1, <2>3, <3>5 DEF RestoresAll
  <2> QED BY <2>2, <2>3
<1> QED BY <1>1, LoadInvariance, PTL

\* Every problem is reported once, in order and under its line, of any dump
\* of any lines (README.md:132-134).
THEOREM ReportsTrue == Spec => []ReportsMatch
<1>1. LoadInv => ReportsMatch
  <2> SUFFICES ASSUME LoadInv, pc \in {"read", "exit"}
               PROVE  reports = FlattenSeq([i \in 1..Consumed |-> Told(i)])
                                \o (IF cut THEN <<Problem(Consumed, <<>>, <<>>, "Io")>> ELSE <<>>)
    BY DEF ReportsMatch
  <2>1. PICK n : n = line /\ n = Consumed
    BY ReadSoFar
  <2>2. reports = SaidOf(n) \o OfInput(n)
    BY <2>1 DEF LoadInv, Progress, Between
  <2> QED BY <2>1, <2>2 DEF SaidOf, OfInput
<1> QED BY <1>1, LoadInvariance, PTL

\* The exit status is 0 when the whole dump was read and everything in it was
\* written, and only then (main.rs:1011-1013).
THEOREM StatusTrue == Spec => []ExitTrue
<1>1. LoadInv => ExitTrue
  <2> SUFFICES ASSUME LoadInv, pc = "done"
               PROVE  exit = 0 <=>
                        /\ input = <<>> /\ ~cut
                        /\ \A i \in DOMAIN dump : dump[i] = <<>> \/ Restored(Meant[dump[i]])
                        /\ Made = Asked(Len(dump)) /\ \A c \in ToSet(calls) : c.status = "OK"
                        /\ \A r \in ToSet(reports) : r.line # 0
    BY DEF ExitTrue
  <2>1. PICK n : n = line /\ n \in Nat /\ (input = <<>> => n = Len(dump)) /\ Between(n)
    BY ReadSoFar DEF LoadInv, Progress
  <2>2. CASE exit # 0 /\ \E r \in ToSet(reports) : r.line = 0
    BY <2>2
  <2>3. CASE /\ reports = SaidOf(n) \o OfInput(n)
             /\ exit = 0 <=> reports = <<>>
             /\ cut \/ input = <<>>
    <3>1. PICK C : calls \in Seq(C)
      BY DEF LoadInv
    <3>2. PICK cs : cs = calls /\ cs \in Seq(C) /\ DOMAIN cs = 1..Len(cs)
      BY <3>1
    <3>3. reports = <<>> <=> ~cut /\ \A i \in 1..n : Told(i) = <<>>
      <4>1. PICK W : SaidOf(n) \in Seq(W)
        BY <2>1, <3>1, SaidType
      <4>2. SaidOf(n) = <<>> <=> \A i \in 1..n : Told(i) = <<>>
        BY <2>1, <3>1, SaidNothing
      <4>3. ~cut => reports = SaidOf(n)
        BY <2>3, <4>1, JoinEmpty DEF OfInput
      <4>4. cut => reports # <<>>
        <5>1. cut => reports = Append(SaidOf(n), Problem(n, <<>>, <<>>, "Io"))
          BY <2>3, <4>1, AppendOne DEF OfInput
        <5> QED BY <4>1, <5>1, AppendOne
      <4> QED BY <4>2, <4>3, <4>4
    <3>4. ASSUME NEW i \in 1..n
          PROVE  Told(i) = <<>> <=>
                   \/ dump[i] = <<>>
                   \/ /\ Restored(Meant[dump[i]])
                      /\ \A j \in DOMAIN cs : cs[j].line = i => cs[j].status = "OK"
      <4>1. Complaints(calls, i) = <<>> <=>
              \A j \in DOMAIN cs : cs[j].line = i => cs[j].status = "OK"
        BY <3>2, NoComplaint
      <4> QED BY <4>1 DEF Told, Restored
    <3>5. \A j \in DOMAIN cs : cs[j].line \in 1..n /\ dump[cs[j].line] # <<>>
      BY <2>1, <3>2 DEF LoadInv, Counted
    <3>6. (\A c \in ToSet(calls) : c.status = "OK") <=> \A j \in DOMAIN cs : cs[j].status = "OK"
      BY <3>2 DEF ToSet
    <3>7. ~cut => DOMAIN dump = 1..n
      <4>1. dump \in Seq(Seq(Tokens))
        BY LoadAssumption DEF LoadInv, Position
      <4> QED BY <2>1, <2>3, <4>1
    <3>8. Made = Asked(n)
      BY <2>1 DEF Between
    <3>9. exit = 0 => /\ \A i \in DOMAIN dump : dump[i] = <<>> \/ Restored(Meant[dump[i]])
                      /\ \A j \in DOMAIN cs : cs[j].status = "OK"
                      /\ ToSet(reports) = {}
      <4>1. exit = 0 => ToSet(reports) = {}
        BY <2>3 DEF ToSet
      <4> QED BY <2>3, <3>3, <3>4, <3>5, <3>7, <4>1
    <3>10. (/\ ~cut
            /\ \A i \in DOMAIN dump : dump[i] = <<>> \/ Restored(Meant[dump[i]])
            /\ \A j \in DOMAIN cs : cs[j].status = "OK") => exit = 0
      BY <2>3, <3>3, <3>4, <3>7
    <3> QED BY <2>1, <2>3, <3>3, <3>6, <3>8, <3>9, <3>10
  <2> QED BY <2>1, <2>2, <2>3 DEF Between
<1> QED BY <1>1, LoadInvariance, PTL
=============================================================================
