------------------------------- MODULE CliProofs -------------------------------
(***************************************************************************)
(* What the command line tool promises of any arguments, any files, any    *)
(* failure of its calls and any room on the device: what it says of one    *)
(* attribute is true, what it says was written was, each option is in      *)
(* effect as it was last given, what it lists of text is text, and what it *)
(* lists as CSV reads back as what was listed.                             *)
(***************************************************************************)
EXTENDS Cli, TLAPS, FiniteSetTheorems, SequenceTheorems, WellFoundedInduction

-----------------------------------------------------------------------------
(* Repetition                                                              *)

LEMMA LessIsRelated ==
  ASSUME NEW m \in Nat, NEW n \in Nat, m < n
  PROVE  <<m, n>> \in OpToRel(<, Nat)
BY Zenon DEF OpToRel

\* The smallest of a set of numbers.
LEMMA LeastOf ==
  ASSUME NEW T, T \subseteq Nat, T # {}
  PROVE  \E m \in T : \A y \in Nat : y < m => y \notin T
<1> DEFINE R == OpToRel(<, Nat)
<1>1. \A m, n \in Nat : m < n => <<m, n>> \in R
  BY LessIsRelated, Zenon
<1>2. IsWellFoundedOn(R, Nat)
  BY NatLessThanWellFounded, Zenon
<1> HIDE DEF R
<1>3. PICK m \in T : \A y \in T : ~(<<y, m>> \in R)
  BY <1>2, WFMin
<1> QED BY <1>1, <1>3

\* What holds at first and is preserved from each to the next holds of all.
LEMMA UpTo ==
  ASSUME NEW N \in Nat, NEW T, 0 \in T, \A n \in 1..N : n - 1 \in T => n \in T
  PROVE  \A n \in 0..N : n \in T
<1> DEFINE Missed == (0..N) \ T
<1> SUFFICES ASSUME Missed # {} PROVE FALSE
  OBVIOUS
<1>1. Missed \subseteq Nat
  OBVIOUS
<1>2. PICK m \in Missed : \A y \in Nat : y < m => y \notin Missed
  BY <1>1, LeastOf
<1>3. m \in 1..N /\ m - 1 \in 0..N /\ m - 1 < m /\ m - 1 \in Nat
  OBVIOUS
<1>4. m - 1 \in T
  BY <1>2, <1>3
<1> QED BY <1>3, <1>4

-----------------------------------------------------------------------------
(* Types                                                                   *)

Texts == Seq(Seq(0..NonDigit))
Bytestrings == Seq(Byte)

OptionSets ==
  [limit : 0..WordMax, nofollow : BOOLEAN, raw : BOOLEAN, json : BOOLEAN,
   fmt : {"Tsv", "Csv", "Table", "Md"}, utf8 : BOOLEAN, cols : Seq(0..WordMax), quiet : BOOLEAN,
   recurse : BOOLEAN, maxDepth : -1..WordMax, depthFirst : BOOLEAN, values : BOOLEAN,
   debug : BOOLEAN, hex : BOOLEAN, maxWidth : 0..WordMax, color : {"auto", "on", "off"},
   useColor : BOOLEAN, root : {NoRoot} \cup Texts, allowUnsafe : BOOLEAN]

Switches == {"recurse", "depthFirst", "allowUnsafe", "nofollow", "raw", "json", "quiet", "values",
             "debug", "hex", "utf8"}

LEMMA SwitchTyped ==
  ASSUME NEW set \in OptionSets, NEW f \in Switches
  PROVE  [set EXCEPT ![f] = TRUE] \in OptionSets
<1>1. CASE f \in {"recurse", "depthFirst", "allowUnsafe", "nofollow"}
  BY <1>1 DEF OptionSets
<1>2. CASE f \in {"raw", "json", "quiet", "values"}
  BY <1>2 DEF OptionSets
<1>3. CASE f \in {"debug", "hex", "utf8"}
  BY <1>3 DEF OptionSets
<1> QED BY <1>1, <1>2, <1>3 DEF Switches

\* What a flag sets.
LEMMA FlagSets ==
  ASSUME NEW s \in DOMAIN Flag
  PROVE  \E f, v : /\ Flag[s] = [field |-> f, value |-> v]
                   /\ \/ f \in Switches /\ v = TRUE
                      \/ f = "fmt" /\ v \in {"Tsv", "Csv", "Table", "Md"}
                      \/ f = "color" /\ v \in {"on", "off"}
<1>1. s \in Flags
  BY DEF Flag
<1>2. s[2] \in {"r", "nofollow", "raw", "json", "quiet", "values", "debug", "hex", "utf8", "recurse",
            "depth-first", "allow-unsafe-paths", "tsv", "csv", "table", "md", "markdown",
            "color", "no-color", "no-ansi", "simple"}
  BY <1>1 DEF Flags
<1>3. CASE s[2] \in {"r", "recurse", "depth-first", "allow-unsafe-paths"}
  BY <1>1, <1>3 DEF Flag, Sets, Switches
<1>4. CASE s[2] \in {"tsv", "csv", "table", "md", "markdown"}
  BY <1>1, <1>4 DEF Flag, Sets
<1>5. CASE s[2] \in {"color", "no-color", "no-ansi", "simple"}
  BY <1>1, <1>5 DEF Flag, Sets
<1>6. CASE s[2] \in {"nofollow", "raw", "json", "quiet", "values", "debug", "hex", "utf8"}
  BY <1>1, <1>6 DEF Flag, Sets, Switches
<1> QED BY <1>2, <1>3, <1>4, <1>5, <1>6

LEMMA FlagTyped ==
  ASSUME NEW set \in OptionSets, NEW s \in DOMAIN Flag
  PROVE  [set EXCEPT ![Flag[s].field] = Flag[s].value] \in OptionSets
<1>1. PICK f, v : /\ Flag[s] = [field |-> f, value |-> v]
                  /\ \/ f \in Switches /\ v = TRUE
                     \/ f = "fmt" /\ v \in {"Tsv", "Csv", "Table", "Md"}
                     \/ f = "color" /\ v \in {"on", "off"}
  BY FlagSets, Zenon
<1>2. CASE f \in Switches /\ v = TRUE
  BY <1>1, <1>2, SwitchTyped
<1>3. CASE f = "fmt" /\ v \in {"Tsv", "Csv", "Table", "Md"}
  BY <1>1, <1>3 DEF OptionSets
<1>4. CASE f = "color" /\ v \in {"on", "off"}
  BY <1>1, <1>4 DEF OptionSets
<1> QED BY <1>1, <1>2, <1>3, <1>4

-----------------------------------------------------------------------------
(* Folds over sequences                                                    *)

LEMMA InitialParts ==
  ASSUME NEW N \in Nat
  PROVE  /\ 1..0 = {} /\ {} \in SUBSET (1..N)
         /\ \A n \in 1..N : /\ 1..n \in SUBSET (1..N) /\ 1..n # {} /\ Max(1..n) = n
                            /\ (1..n) \ {n} = 1..(n - 1)
<1>1. ASSUME NEW n \in 1..N PROVE Max(1..n) = n
  <2>1. n \in 1..n /\ \A y \in 1..n : n >= y
    OBVIOUS
  <2>3. Max(1..n) = CHOOSE x \in 1..n : \A y \in 1..n : x >= y
    BY DEF Max
  <2>2. Max(1..n) \in 1..n /\ \A y \in 1..n : Max(1..n) >= y
    BY <2>1, <2>3
  <2> QED BY <2>1, <2>2
<1>2. \A n \in 1..N : 1..n \in SUBSET (1..N) /\ 1..n # {} /\ (1..n) \ {n} = 1..(n - 1)
  OBVIOUS
<1> QED BY <1>1, <1>2

LEMMA MaxOfSome ==
  ASSUME NEW N \in Nat, NEW s \in SUBSET (1..N), s # {}
  PROVE  Max(s) \in s /\ \A y \in s : Max(s) >= y
<1> DEFINE T == {N - n : n \in s}
<1>0. s \subseteq Int /\ \A n \in s : n <= N /\ n \in Nat
  OBVIOUS
<1>1. T \subseteq Nat /\ T # {}
  <2>1. PICK x \in s : TRUE
    OBVIOUS
  <2>2. N - x \in T
    BY <2>1
  <2> QED BY <1>0, <2>2
<1>2. PICK m \in T : \A y \in Nat : y < m => y \notin T
  BY <1>1, LeastOf
<1>3. PICK n \in s : m = N - n
  OBVIOUS
<1>4. ASSUME NEW y \in s PROVE n >= y
  <2>1. n \in Int /\ y \in Int /\ y <= N
    BY <1>0
  <2>2. CASE n < y
    <3>1. N - y < m /\ N - y \in Nat
      BY <1>3, <2>1, <2>2
    <3>2. N - y \in T
      OBVIOUS
    <3> QED BY <1>2, <3>1, <3>2
  <2> QED BY <2>1, <2>2
<1>5. Max(s) = CHOOSE x \in s : \A y \in s : x >= y
  BY DEF Max
<1> QED BY <1>4, <1>5

\* What a fold goes through, by the positions it has taken in.
Folds(S, base, N, G) ==
  {it \in [SUBSET (1..N) -> S] :
     \A s \in SUBSET (1..N) :
       it[s] = IF s = {} THEN base ELSE G[<<it[s \ {Max(s)}], Max(s)>>]}

LEMMA FoldExists ==
  ASSUME NEW S, NEW base \in S, NEW N \in Nat, NEW G \in [S \X (1..N) -> S]
  PROVE  Folds(S, base, N, G) # {}
<1> DEFINE T == {n \in Nat : n <= N => Folds(S, base, n, G) # {}}
<1>1. 0 \in T
  <2>1. SUBSET (1..0) = {{}}
    OBVIOUS
  <2>2. [s \in SUBSET (1..0) |-> base] \in Folds(S, base, 0, G)
    BY <2>1 DEF Folds
  <2> QED BY <2>2
<1>2. ASSUME NEW n \in 1..N, n - 1 \in T PROVE n \in T
  <2>1. PICK it \in Folds(S, base, n - 1, G) : TRUE
    BY <1>2
  <2>2. /\ it \in [SUBSET (1..(n - 1)) -> S]
        /\ \A s \in SUBSET (1..(n - 1)) :
             it[s] = IF s = {} THEN base ELSE G[<<it[s \ {Max(s)}], Max(s)>>]
    BY DEF Folds
  <2> DEFINE next == [s \in SUBSET (1..n) |-> IF n \in s THEN G[<<it[s \ {n}], n>>] ELSE it[s]]
  <2>3. ASSUME NEW s \in SUBSET (1..n), n \in s
        PROVE  /\ next[s] \in S /\ s # {} /\ Max(s) = n
               /\ next[s] = G[<<next[s \ {Max(s)}], Max(s)>>]
    <3>1. s \ {n} \in SUBSET (1..(n - 1)) /\ n \notin s \ {n} /\ s \ {n} \in SUBSET (1..n)
      OBVIOUS
    <3>0. n \in Nat /\ s # {}
      BY <2>3
    <3>2. Max(s) \in s /\ Max(s) >= n
      BY <2>3, <3>0, MaxOfSome
    <3>3. Max(s) = n
      <4>1. PICK m \in s : m = Max(s)
        BY <3>2
      <4>2. m \in 1..n /\ m >= n
        BY <3>2, <4>1
      <4> QED BY <4>1, <4>2
    <3>4. it[s \ {n}] \in S
      BY <2>2, <3>1
    <3>5. next[s \ {n}] = it[s \ {n}]
      BY <3>1
    <3>6. next[s] = G[<<it[s \ {n}], n>>]
      BY <2>3
    <3>7. <<it[s \ {n}], n>> \in S \X (1..N)
      BY <3>4
    <3> QED BY <2>3, <3>3, <3>5, <3>6, <3>7
  <2>4. ASSUME NEW s \in SUBSET (1..n), n \notin s
        PROVE  /\ next[s] \in S
               /\ next[s] = IF s = {} THEN base ELSE G[<<next[s \ {Max(s)}], Max(s)>>]
    <3>1. s \in SUBSET (1..(n - 1)) /\ next[s] = it[s]
      BY <2>4
    <3>2. s \ {Max(s)} \in SUBSET (1..n) /\ n \notin s \ {Max(s)}
      BY <2>4
    <3>3. next[s \ {Max(s)}] = it[s \ {Max(s)}]
      BY <3>2
    <3> QED BY <2>2, <3>1, <3>3
  <2>5. next \in [SUBSET (1..n) -> S]
    <3>1. \A s \in SUBSET (1..n) : next[s] \in S
      BY <2>3, <2>4
    <3> QED BY <3>1
  <2>6. \A s \in SUBSET (1..n) :
          next[s] = IF s = {} THEN base ELSE G[<<next[s \ {Max(s)}], Max(s)>>]
    BY <2>3, <2>4
  <2> HIDE DEF next
  <2>7. next \in Folds(S, base, n, G)
    BY <2>5, <2>6 DEF Folds
  <2> QED BY <2>7
<1>3. N \in T
  <2> HIDE DEF T
  <2> QED BY <1>1, <1>2, UpTo
<1> QED BY <1>3

\* From one position to the next.
Stepwise(S, base, N, G) ==
  {f \in [0..N -> S] : f[0] = base /\ \A n \in 1..N : f[n] = G[<<f[n - 1], n>>]}

\* What defines a fold, as far as it is known to be well-typed.
Folding(S, base, N, G, g) ==
  /\ g[{}] = base
  /\ \A s \in SUBSET (1..N) : s # {} /\ g[s \ {Max(s)}] \in S
                             => g[s] = G[<<g[s \ {Max(s)}], Max(s)>>]

\* Such a fold, whatever function it is, goes from one position to the next.
LEMMA FoldOf ==
  ASSUME NEW S, NEW base \in S, NEW N \in Nat, NEW G \in [S \X (1..N) -> S], NEW g,
         Folding(S, base, N, G, g)
  PROVE  \E f \in Stepwise(S, base, N, G) : f[N] = g[1..N]
<1> DEFINE T == {n \in 0..N : g[1..n] \in S}
           f == [n \in 0..N |-> g[1..n]]
<1>1. g[1..0] = base
  BY InitialParts DEF Folding
<1>2. ASSUME NEW n \in 1..N, g[1..(n - 1)] \in S
      PROVE  g[1..n] = G[<<g[1..(n - 1)], n>>] /\ g[1..n] \in S
  <2>1. /\ 1..n \in SUBSET (1..N) /\ 1..n # {} /\ Max(1..n) = n
        /\ (1..n) \ {n} = 1..(n - 1)
    BY InitialParts
  <2>2. g[1..n] = G[<<g[1..(n - 1)], n>>]
    BY <1>2, <2>1 DEF Folding
  <2>3. <<g[1..(n - 1)], n>> \in S \X (1..N)
    BY <1>2
  <2> QED BY <2>2, <2>3
<1>3. \A n \in 0..N : g[1..n] \in S
  <2>1. 0 \in T
    BY <1>1
  <2>2. ASSUME NEW n \in 1..N, n - 1 \in T PROVE n \in T
    <3>1. g[1..(n - 1)] \in S
      BY <2>2
    <3>2. g[1..n] \in S
      BY <1>2, <3>1, Zenon
    <3> QED BY <3>2
  <2> HIDE DEF T
  <2>3. \A n \in 0..N : n \in T
    BY <2>1, <2>2, UpTo
  <2> QED BY <2>3 DEF T
<1>4. f \in [0..N -> S] /\ f[0] = base /\ f[N] = g[1..N]
  BY <1>1, <1>3
<1>5. \A n \in 1..N : f[n] = G[<<f[n - 1], n>>]
  <2> SUFFICES ASSUME NEW n \in 1..N PROVE f[n] = G[<<f[n - 1], n>>]
    OBVIOUS
  <2>1. n \in 0..N /\ n - 1 \in 0..N
    OBVIOUS
  <2>2. g[1..n] = G[<<g[1..(n - 1)], n>>]
    BY <1>2, <1>3, <2>1
  <2> QED BY <2>1, <2>2
<1> HIDE DEF f
<1>6. f \in Stepwise(S, base, N, G)
  BY <1>4, <1>5 DEF Stepwise
<1> QED BY <1>4, <1>6

\* How a fold ends.
Ends(S, base, N, G, g) == \E f \in Stepwise(S, base, N, G) : f[N] = g[1..N]

LEMMA FoldEnds ==
  ASSUME NEW S, NEW base \in S, NEW N \in Nat, NEW G \in [S \X (1..N) -> S], NEW g,
         Folding(S, base, N, G, g)
  PROVE  Ends(S, base, N, G, g)
BY FoldOf DEF Ends

LEMMA SeqTyped ==
  ASSUME NEW S, NEW s \in Seq(S)
  PROVE  Len(s) \in Nat /\ DOMAIN s = 1..Len(s) /\ \A n \in 1..Len(s) : s[n] \in S
OBVIOUS

\* The digits of a number, one at a time.
Digits == Seq(0..NonDigit)
Sums   == {NotANumber} \cup 0..WordMax
DigitStep(v, d) == IF v = NotANumber THEN v
                   ELSE LET tens == InRange(v * 10)
                        IN IF tens = NotANumber THEN tens ELSE InRange(tens + d)
DigitSum(item) == FoldLeft(DigitStep, 0, item)

LEMMA DigitTyped ==
  ASSUME NEW v \in Sums, NEW d \in 0..NonDigit
  PROVE  DigitStep(v, d) \in Sums
BY OptionsAssumption DEF DigitStep, Sums, InRange, Checked, NotANumber, NonDigit

LEMMA DigitRun ==
  ASSUME NEW item \in Digits
  PROVE  \E f \in [0..Len(item) -> Sums] :
           /\ f[0] = 0 /\ f[Len(item)] = DigitSum(item)
           /\ \A n \in 1..Len(item) : f[n] = DigitStep(f[n - 1], item[n])
<1> DEFINE N == Len(item)
           G == [p \in Sums \X (1..N) |-> DigitStep(p[1], item[p[2]])]
           Is(g) == g = [s \in SUBSET (1..N) |-> IF s = {} THEN 0
                           ELSE DigitStep(g[s \ {Max(s)}], item[Max(s)])]
           g == CHOOSE g : Is(g)
<1>1. N \in Nat /\ DOMAIN item = 1..N /\ \A n \in 1..N : item[n] \in 0..NonDigit
  BY SeqTyped DEF Digits
<1>2. DigitSum(item) = g[1..N]
  BY <1>1, Zenon DEF FoldLeft, MapThenFoldSet, DigitSum
<1>3. 0 \in Sums /\ G \in [Sums \X (1..N) -> Sums]
  <2>1. WordMax \in Nat
    BY OptionsAssumption
  <2>2. 0 \in Sums
    BY <2>1 DEF Sums
  <2>3. \A v \in Sums, d \in 0..NonDigit : DigitStep(v, d) \in Sums
    BY DigitTyped
  <2> QED BY <1>1, <2>2, <2>3
<1>4. \A v \in Sums, n \in 1..N : G[<<v, n>>] = DigitStep(v, item[n])
  OBVIOUS
<1> HIDE DEF G
<1>5. PICK it \in Folds(Sums, 0, N, G) : TRUE
  BY <1>1, <1>3, FoldExists, Zenon
<1>6. Is(it)
  <2>1. it \in [SUBSET (1..N) -> Sums]
    BY DEF Folds
  <2>2. \A s \in SUBSET (1..N) : s # {} => Max(s) \in 1..N
    BY <1>1, MaxOfSome
  <2>3. \A s \in SUBSET (1..N) : it[s] = IF s = {} THEN 0
                           ELSE DigitStep(it[s \ {Max(s)}], item[Max(s)])
    BY <1>4, <2>1, <2>2 DEF Folds
  <2> QED BY <2>1, <2>3
<1>7. Is(g)
  BY <1>6, Zenon
<1> HIDE DEF g
<1>9. Folding(Sums, 0, N, G, g)
  BY <1>1, <1>4, <1>7, MaxOfSome DEF Folding
<1> HIDE DEF Is
<1>10. PICK f \in Stepwise(Sums, 0, N, G) : f[N] = g[1..N]
  <2>1. N \in Nat
    BY <1>1
  <2>2. Ends(Sums, 0, N, G, g)
    BY <1>3, <1>9, <2>1, FoldEnds, Zenon
  <2> QED BY <2>2, Zenon DEF Ends
<1>11. /\ f \in [0..N -> Sums] /\ f[0] = 0
       /\ \A n \in 1..N : f[n] = DigitStep(f[n - 1], item[n])
  <2>1. f \in [0..N -> Sums] /\ f[0] = 0 /\ \A n \in 1..N : f[n] = G[<<f[n - 1], n>>]
    BY DEF Stepwise
  <2>2. \A n \in 1..N : f[n - 1] \in Sums
    BY <1>1, <2>1
  <2> QED BY <1>4, <2>1, <2>2
<1> QED BY <1>2, <1>10, <1>11, Zenon

TenStep(v, d) == v * 10 + d

LEMMA TenTyped ==
  ASSUME NEW v \in Nat, NEW d \in 0..NonDigit
  PROVE  TenStep(v, d) \in Nat
BY DEF TenStep, NonDigit

LEMMA TenRun ==
  ASSUME NEW item \in Digits
  PROVE  \E f \in [0..Len(item) -> Nat] :
           /\ f[0] = 0 /\ f[Len(item)] = Number10(item)
           /\ \A n \in 1..Len(item) : f[n] = TenStep(f[n - 1], item[n])
<1> DEFINE N == Len(item)
           S == Nat
           G == [p \in S \X (1..N) |-> TenStep(p[1], item[p[2]])]
           Is(g) == g = [s \in SUBSET (1..N) |-> IF s = {} THEN 0
                           ELSE TenStep(g[s \ {Max(s)}], item[Max(s)])]
           g == CHOOSE g : Is(g)
<1>1. N \in Nat /\ DOMAIN item = 1..N /\ \A n \in 1..N : item[n] \in 0..NonDigit
  BY SeqTyped DEF Digits
<1>2. Number10(item) = g[1..N]
  BY <1>1, Zenon DEF FoldLeft, MapThenFoldSet, Number10, TenStep
<1>3. 0 \in S
  OBVIOUS
<1>4. \A v \in S, n \in 1..N : TenStep(v, item[n]) \in S
  BY <1>1, TenTyped
<1>5. G \in [S \X (1..N) -> S] /\ \A v \in S, n \in 1..N : G[<<v, n>>] = TenStep(v, item[n])
  BY <1>4
<1> HIDE DEF G, S
<1>6. PICK it \in Folds(S, 0, N, G) : TRUE
  <2>1. N \in Nat /\ G \in [S \X (1..N) -> S]
    BY <1>1, <1>5
  <2>2. Folds(S, 0, N, G) # {}
    BY <1>3, <2>1, FoldExists
  <2> QED BY <2>2
<1>7. Is(it)
  <2>1. it \in [SUBSET (1..N) -> S]
    BY DEF Folds
  <2>2. \A s \in SUBSET (1..N) : s # {} => Max(s) \in 1..N
    BY <1>1, MaxOfSome
  <2>3. \A s \in SUBSET (1..N) : it[s] = IF s = {} THEN 0
                           ELSE TenStep(it[s \ {Max(s)}], item[Max(s)])
    BY <1>5, <2>1, <2>2 DEF Folds
  <2> QED BY <2>1, <2>3
<1>8. Is(g)
  BY <1>7, Zenon
<1> HIDE DEF g
<1>9. Folding(S, 0, N, G, g)
  BY <1>1, <1>5, <1>8, MaxOfSome DEF Folding
<1> HIDE DEF Is
<1>10. PICK f \in Stepwise(S, 0, N, G) : f[N] = g[1..N]
  <2>1. N \in Nat /\ G \in [S \X (1..N) -> S]
    BY <1>1, <1>5
  <2>2. Ends(S, 0, N, G, g)
    BY <1>3, <1>9, <2>1, FoldEnds, Zenon
  <2> QED BY <2>2, Zenon DEF Ends
<1>11. /\ f \in [0..N -> S] /\ f[0] = 0
       /\ \A n \in 1..N : f[n] = TenStep(f[n - 1], item[n])
  <2>1. f \in [0..N -> S] /\ f[0] = 0 /\ \A n \in 1..N : f[n] = G[<<f[n - 1], n>>]
    BY DEF Stepwise
  <2>2. \A n \in 1..N : f[n - 1] \in S
    BY <1>1, <2>1
  <2> QED BY <1>5, <2>1, <2>2
<1>12. f \in [0..N -> Nat]
  BY <1>11 DEF S
<1> QED BY <1>2, <1>10, <1>11, <1>12, Zenon

\* A number that is accepted is the one that was written.
LEMMA ParseExact ==
  ASSUME NEW item \in Digits
  PROVE  /\ ParseDigits(item) \in Sums
         /\ ParseDigits(item) # NotANumber => ParseDigits(item) = Number10(item)
<1>1. PICK f \in [0..Len(item) -> Sums] :
           /\ f[0] = 0 /\ f[Len(item)] = DigitSum(item)
           /\ \A n \in 1..Len(item) : f[n] = DigitStep(f[n - 1], item[n])
  BY DigitRun
<1>2. PICK h \in [0..Len(item) -> Nat] :
           /\ h[0] = 0 /\ h[Len(item)] = Number10(item)
           /\ \A n \in 1..Len(item) : h[n] = TenStep(h[n - 1], item[n])
  BY TenRun
<1>3. Len(item) \in Nat /\ \A n \in 1..Len(item) : item[n] \in 0..NonDigit
  BY SeqTyped DEF Digits
<1> DEFINE T == {n \in 0..Len(item) : f[n] # NotANumber => f[n] = h[n]}
<1>4. 0 \in T
  BY <1>1, <1>2, <1>3
<1>5. ASSUME NEW n \in 1..Len(item), n - 1 \in T PROVE n \in T
  <2>1. f[n] = DigitStep(f[n - 1], item[n]) /\ h[n] = TenStep(h[n - 1], item[n])
    BY <1>1, <1>2
  <2>2. f[n - 1] # NotANumber => f[n - 1] = h[n - 1]
    BY <1>5
  <2>3. h[n - 1] \in Nat /\ item[n] \in 0..10
    BY <1>3 DEF NonDigit
  <2>4. f[n] # NotANumber => f[n] = h[n]
    BY <2>1, <2>2, <2>3, OptionsAssumption DEF DigitStep, TenStep, InRange, Checked, NotANumber
  <2> QED BY <1>3, <2>4
<1> HIDE DEF T
<1>6. Len(item) \in T
  <2>1. \A n \in 0..Len(item) : n \in T
    BY <1>3, <1>4, <1>5, UpTo
  <2> QED BY <1>3, <2>1
<1>7. DigitSum(item) \in Sums /\ (DigitSum(item) # NotANumber => DigitSum(item) = Number10(item))
  BY <1>1, <1>2, <1>3, <1>6 DEF T
<1>8. ParseDigits(item) = NotANumber \/ ParseDigits(item) = DigitSum(item)
  BY Zenon DEF ParseDigits, DigitSum, DigitStep
<1> HIDE DEF T
<1> QED BY <1>7, <1>8 DEF Sums

-----------------------------------------------------------------------------
(* Options                                                                 *)

Fields == {"cols", "maxWidth", "root", "maxDepth", "limit"}

LEMMA ValuedFields ==
  ASSUME NEW s \in DOMAIN Valued
  PROVE  Valued[s] \in Fields
<1>1. s[2] \in {"w", "d", "cols", "columns", "max-width", "depth", "root", "limit"}
  BY DEF Valued
<1> QED BY <1>1 DEF Valued, Fields

\* What is not a number is not accepted.
LEMMA WithValueTyped ==
  ASSUME NEW set \in OptionSets, NEW field \in Fields, NEW text \in Texts
  PROVE  WithValue(set, field, text) \subseteq OptionSets
<1>1. \A n \in DOMAIN text : text[n] \in Digits /\ ParseDigits(text[n]) \in Sums
  <2>1. \A n \in DOMAIN text : text[n] \in Digits
    BY SeqTyped DEF Texts, Digits
  <2> QED BY <2>1, ParseExact
<1>2. DOMAIN text = 1..Len(text) /\ Len(text) \in Nat
  BY SeqTyped DEF Texts
<1> DEFINE number == ParseNumber(text)
           widths == [n \in DOMAIN text |-> ParseDigits(text[n])]
<1>3. number \in Sums
  <2>1. 1 \in DOMAIN text \/ Len(text) # 1
    BY <1>2
  <2> QED BY <1>1, <2>1 DEF ParseNumber, Sums
<1>4. NotANumber \notin ToSet(widths) => widths \in Seq(0..WordMax)
  <2> SUFFICES ASSUME NotANumber \notin ToSet(widths) PROVE widths \in Seq(0..WordMax)
    OBVIOUS
  <2>1. \A n \in 1..Len(text) : widths[n] \in 0..WordMax
    BY <1>1, <1>2 DEF ToSet, Sums
  <2>2. widths \in [1..Len(text) -> 0..WordMax]
    BY <1>2, <2>1
  <2> QED BY <1>2, <2>2
<1>5. number # NotANumber => number \in 0..WordMax
  BY <1>3 DEF Sums
<1> HIDE DEF number, widths
<1>6. CASE field = "cols"
  <2>1. WithValue(set, field, text) \subseteq
          IF NotANumber \in ToSet(widths) THEN {} ELSE {SetColumns(set, widths)}
    BY <1>6 DEF WithValue, widths
  <2>2. ASSUME NotANumber \notin ToSet(widths) PROVE SetColumns(set, widths) \in OptionSets
    BY <1>4, <2>2 DEF OptionSets, SetColumns, NewColumns
  <2> QED BY <2>1, <2>2
<1>7. CASE field = "maxWidth"
  <2>1. WithValue(set, field, text) =
          IF number = NotANumber THEN {} ELSE {[set EXCEPT !.maxWidth = number]}
    BY <1>7 DEF WithValue, number
  <2>2. ASSUME number # NotANumber PROVE [set EXCEPT !.maxWidth = number] \in OptionSets
    BY <1>5, <2>2 DEF OptionSets
  <2> QED BY <2>1, <2>2
<1>8. CASE field = "root"
  <2>1. WithValue(set, field, text) \subseteq {[set EXCEPT !.root = text]}
    BY <1>8 DEF WithValue
  <2>2. [set EXCEPT !.root = text] \in OptionSets
    BY DEF OptionSets
  <2> QED BY <2>1, <2>2
<1>9. CASE field = "maxDepth"
  <2>1. WithValue(set, field, text) \subseteq
          IF number = NotANumber THEN {} ELSE {[set EXCEPT !.maxDepth = number, !.recurse = TRUE]}
    BY <1>9 DEF WithValue, number
  <2>2. ASSUME number # NotANumber
        PROVE  [set EXCEPT !.maxDepth = number, !.recurse = TRUE] \in OptionSets
    <3>1. number \in -1..WordMax
      BY <1>5, <2>2, OptionsAssumption
    <3> QED BY <3>1 DEF OptionSets
  <2> QED BY <2>1, <2>2
<1>10. CASE field = "limit"
  <2>1. WithValue(set, field, text) =
          IF number = NotANumber THEN {} ELSE {[set EXCEPT !.limit = number]}
    BY <1>10 DEF WithValue, number
  <2>2. ASSUME number # NotANumber PROVE [set EXCEPT !.limit = number] \in OptionSets
    BY <1>5, <2>2 DEF OptionSets
  <2> QED BY <2>1, <2>2
<1> QED BY <1>6, <1>7, <1>8, <1>9, <1>10 DEF Fields

\* Arguments, spelled with dashes or not.
Switched == [lead : {Empty, "-", "--", "/"}, name : STRING \cup {"h"}, eq : {Empty, "=", ":"},
             value : Texts]

LEMMA SwitchOfArgument ==
  ASSUME NEW arg \in Arguments
  PROVE  arg \in Switched /\ SlashSwitch(arg) \in Switched
<1> DEFINE switch == [lead |-> IF Len(arg.name) = 1 THEN "-" ELSE "--",
                      name |-> IF arg.name = "?" THEN "h" ELSE arg.name,
                      eq |-> IF arg.eq = Empty THEN Empty ELSE "=", value |-> arg.value]
<1>1. switch \in Switched
  <2>1. PICK l \in {"-", "--"} : l = IF Len(arg.name) = 1 THEN "-" ELSE "--"
    OBVIOUS
  <2>2. PICK n \in STRING \cup {"h"} : n = IF arg.name = "?" THEN "h" ELSE arg.name
    <3>1. arg.name \in STRING
      BY DEF Arguments
    <3> QED BY <3>1
  <2>3. PICK e \in {Empty, "="} : e = IF arg.eq = Empty THEN Empty ELSE "="
    OBVIOUS
  <2>4. arg.value \in Texts
    BY DEF Arguments, Texts
  <2>5. [lead |-> l, name |-> n, eq |-> e, value |-> arg.value] \in Switched
    BY <2>4 DEF Switched
  <2> QED BY <2>1, <2>2, <2>3, <2>5
<1>2. SlashSwitch(arg) \in {arg, switch}
  BY DEF SlashSwitch
<1>3. arg \in Switched
  BY DEF Arguments, Switched, Texts
<1> QED BY <1>1, <1>2, <1>3

ScanTyped ==
  /\ env \in Environments /\ args \in CommandLines /\ i \in Nat \ {0}
  /\ o \in OptionSets /\ pos \in Seq(Switched)
  /\ colsGiven \in BOOLEAN /\ onlyPositional \in BOOLEAN

LEMMA EnvTyped ==
  ASSUME ScanTyped
  PROVE  /\ env.windows \in BOOLEAN /\ env.noColor \in BOOLEAN /\ env.terminal \in BOOLEAN
         /\ env.debug \in BOOLEAN
BY OptionsAssumption DEF ScanTyped

LEMMA ArgTyped ==
  ASSUME ScanTyped, NEW n \in 1..Len(args)
  PROVE  /\ Arg(n) \in Switched /\ args[n] \in Switched
         /\ Arg(n).value \in Texts /\ AsValue(args[n]) \in Texts
<1>1. args \in Seq(Arguments)
  BY OptionsAssumption DEF ScanTyped
<1>2. args[n] \in Arguments
  BY <1>1, SeqTyped
<1>3. Arg(n) \in Switched /\ args[n] \in Switched
  BY <1>2, SwitchOfArgument DEF Arg
<1>4. \A arg \in Switched : arg.value \in Texts
  BY DEF Switched
<1>5. <<<<NonDigit>>>> \in Texts
  BY DEF Texts, NonDigit
<1> QED BY <1>3, <1>4, <1>5 DEF AsValue

LEMMA ArgsCount ==
  ASSUME ScanTyped
  PROVE  Len(args) \in Nat
BY OptionsAssumption DEF ScanTyped

LEMMA ScanStart ==
  ASSUME ScanInit
  PROVE  ScanTyped
<1>1. env.debug \in BOOLEAN
  BY OptionsAssumption DEF ScanInit
<1>2. Default \in OptionSets
  <2>1. <<>> \in Seq(0..WordMax) /\ -1 \in -1..WordMax /\ 0 \in 0..WordMax
    BY OptionsAssumption
  <2> QED BY <1>1, <2>1, OptionsAssumption DEF Default, OptionSets
<1>3. <<>> \in Seq(Switched) /\ 1 \in Nat \ {0}
  OBVIOUS
<1> QED BY <1>2, <1>3 DEF ScanInit, ScanTyped

\* What an option's value is taken from, and what it makes of the options.
LEMMA ValueSet ==
  ASSUME ScanTyped, SetValue
  PROVE  \/ phase' = "exit" /\ exit' = 2 /\ UNCHANGED optionVars
         \/ /\ o' \in OptionSets /\ colsGiven' \in BOOLEAN /\ i' \in {i + 1, i + 2}
            /\ UNCHANGED <<env, args, pos, onlyPositional, phase, exit>>
<1> DEFINE inline == Arg(i).eq = "="
           field  == Valued[Spelling(Arg(i))]
           text   == IF inline THEN {Arg(i).value}
                     ELSE IF i < Len(args) THEN {AsValue(args[i + 1])} ELSE {}
           set    == UNION {WithValue(o, field, t) : t \in text}
<1>1. i \in 1..Len(args) /\ Spelling(Arg(i)) \in DOMAIN Valued
  BY ArgsCount DEF SetValue, AtOption, Scanning, ScanTyped
<1>2. field \in Fields
  BY <1>1, ValuedFields
<1>3. text \subseteq Texts
  <2>1. Arg(i).value \in Texts
    BY <1>1, ArgTyped
  <2>2. i < Len(args) => AsValue(args[i + 1]) \in Texts
    BY <1>1, ArgTyped, ArgsCount
  <2> QED BY <2>1, <2>2
<1>4. IF set = {} THEN UsageError /\ UNCHANGED optionVars
      ELSE /\ o' \in set
           /\ colsGiven' = (colsGiven \/ field = "cols")
           /\ i' = IF inline THEN i + 1 ELSE i + 2
           /\ UNCHANGED <<env, args, pos, onlyPositional, phase, exit>>
  BY Zenon DEF SetValue
<1> HIDE DEF text, field, inline
<1>5. set \subseteq OptionSets
  BY <1>2, <1>3, WithValueTyped DEF ScanTyped
<1> HIDE DEF set
<1>6. CASE set = {}
  BY <1>4, <1>6 DEF UsageError, Exit
<1>7. CASE set # {}
  BY <1>4, <1>5, <1>7 DEF ScanTyped
<1> QED BY <1>6, <1>7

ScanSteps == EndOptions \/ SetFlag \/ SetValue \/ PrintAndExit \/ UnknownOption \/ Positional

LEMMA ScanStepTyped ==
  ASSUME ScanTyped, ScanSteps
  PROVE  ScanTyped' /\ phase = "scan"
         /\ \/ phase' = "scan" /\ exit' = exit
            \/ phase' \in {"help", "version"} /\ exit' = exit
            \/ phase' = "exit" /\ exit' = 2
<1>1. CASE EndOptions
  BY <1>1 DEF EndOptions, AtOption, Scanning, ScanTyped
<1>2. CASE SetFlag
  <2>1. o' = [o EXCEPT ![Flag[Spelling(Arg(i))].field] = Flag[Spelling(Arg(i))].value]
        /\ Spelling(Arg(i)) \in DOMAIN Flag
    BY <1>2 DEF SetFlag
  <2>2. o' \in OptionSets
    BY <2>1, FlagTyped DEF ScanTyped
  <2> QED BY <1>2, <2>2 DEF SetFlag, AtOption, Scanning, ScanTyped
<1>3. CASE SetValue
  <2>1. phase = "scan"
    BY <1>3 DEF SetValue, AtOption, Scanning
  <2>2. CASE phase' = "exit" /\ exit' = 2 /\ UNCHANGED optionVars
    BY <2>1, <2>2 DEF ScanTyped, optionVars
  <2>3. CASE /\ o' \in OptionSets /\ colsGiven' \in BOOLEAN /\ i' \in {i + 1, i + 2}
             /\ UNCHANGED <<env, args, pos, onlyPositional, phase, exit>>
    BY <2>1, <2>3 DEF ScanTyped
  <2> QED BY <1>3, <2>2, <2>3, ValueSet
<1>4. CASE PrintAndExit
  <2>1. \A s \in DOMAIN Prints : Prints[s] \in {"help", "version"}
    BY DEF Prints
  <2> QED BY <1>4, <2>1 DEF PrintAndExit, AtOption, Scanning, ScanTyped, optionVars
<1>5. CASE UnknownOption
  BY <1>5 DEF UnknownOption, AtOption, Scanning, ScanTyped, optionVars, UsageError, Exit
<1>6. CASE Positional
  <2>1. i \in 1..Len(args)
    BY <1>6, ArgsCount DEF Positional, Scanning, ScanTyped
  <2>2. Arg(i) \in Switched
    BY <2>1, ArgTyped
  <2>3. Append(pos, Arg(i)) \in Seq(Switched)
    BY <2>2 DEF ScanTyped
  <2>4. phase = "scan" /\ i + 1 \in Nat \ {0}
    BY <1>6 DEF Positional, Scanning, ScanTyped
  <2>5. CASE Len(pos) = 3
    BY <1>6, <2>4, <2>5 DEF Positional, ScanTyped, optionVars, UsageError, Exit
  <2>6. CASE Len(pos) # 3
    <3>1. /\ pos' = Append(pos, Arg(i)) /\ i' = i + 1
          /\ UNCHANGED <<env, args, o, colsGiven, onlyPositional, phase, exit>>
      BY <1>6, <2>6 DEF Positional
    <3> QED BY <2>3, <2>4, <3>1 DEF ScanTyped
  <2> QED BY <2>5, <2>6
<1> QED BY <1>1, <1>2, <1>3, <1>4, <1>5, <1>6 DEF ScanSteps

LEMMA DispatchTyped ==
  ASSUME ScanTyped, Dispatch
  PROVE  ScanTyped' /\ phase = "scan"
         /\ \/ phase' = "exit" /\ exit' = 2
            \/ phase' \in Verbs /\ exit' = exit
<1> DEFINE name == pos[1].name
           set  == [o EXCEPT !.fmt = IF colsGiven /\ @ \notin {"Md", "Csv"} THEN "Table" ELSE @,
                             !.values = @ \/ name \in {"dump", "dmp"}]
<1>1. set \in OptionSets
  <2>1. o \in OptionSets
    BY DEF ScanTyped
  <2>2. o.fmt \in {"Tsv", "Csv", "Table", "Md"} /\ o.values \in BOOLEAN
    BY <2>1 DEF OptionSets
  <2>3. PICK f \in {"Tsv", "Csv", "Table", "Md"} :
          f = IF colsGiven /\ o.fmt \notin {"Md", "Csv"} THEN "Table" ELSE o.fmt
    BY <2>2
  <2>4. PICK b \in BOOLEAN : b = (o.values \/ name \in {"dump", "dmp"})
    BY <2>2
  <2>5. set = [o EXCEPT !.fmt = f, !.values = b]
    BY <2>3, <2>4
  <2> HIDE DEF set, name
  <2> QED BY <2>1, <2>5 DEF OptionSets
<1>2. \/ UsageError /\ UNCHANGED o
      \/ name \in DOMAIN Arity /\ phase' = Command(name) /\ UNCHANGED exit /\ o' = set
  BY Zenon DEF Dispatch
<1>3. ASSUME NEW n \in DOMAIN Arity PROVE Command(n) \in Verbs
  BY DEF Arity, Command, Verbs, OnPath, OnAttribute
<1> HIDE DEF set, name
<1> QED BY <1>1, <1>2, <1>3 DEF Dispatch, ScanTyped, UsageError, Exit

-----------------------------------------------------------------------------
(* One command on one path                                                 *)

LEMMA LesserOf ==
  ASSUME NEW m \in Nat, NEW n \in Nat
  PROVE  /\ Min({m, n}) \in {m, n} /\ Min({m, n}) <= m /\ Min({m, n}) <= n
         /\ Min({m, n}) = IF m <= n THEN m ELSE n
BY DEF Min

LEMMA WholePrefix ==
  ASSUME NEW S, NEW s \in Seq(S)
  PROVE  SubSeq(s, 1, Len(s)) = s
OBVIOUS

\* Only success exits with 0.
LEMMA ExitOfFault ==
  /\ ExitFor("OK") = 0
  /\ \A status \in CallFaults \cup ReadFaults : ExitFor(status) # 0
<1>1. \A status \in Status \ {"OK"} : ExitFor(status) # 0
  BY DEF Status, ExitFor, ExitError
<1> QED BY <1>1, CliAssumption DEF ExitFor

Phases == Verbs \cup {"scan", "help", "version", "set", "list", "rows", "tail", "exit"}

\* What the command is, by what it is at.
VerbRight ==
  /\ phase \in {"scan", "help", "version"} => verb = "none"
  /\ phase \in {"put", "set"} => verb = "put"
  /\ phase \in {"get", "len", "del", "limits", "load"} => verb = phase
  /\ phase \in {"lst", "list", "rows", "tail"} => verb = "lst"

Listing == {"list", "rows", "tail"}
NothingOut == device = <<>> /\ buffered = <<>> /\ written = <<>> /\ rows = <<>>

ToolTyped ==
  /\ ScanTyped /\ room \in Nat /\ phase \in Phases /\ VerbRight
  /\ value \in Bytestrings \cup {Absent}
  /\ stdin \in Bytestrings /\ Len(stdin) <= WordMax

\* Until a command ends its value is as it was, and nothing is written before a
\* listing begins; put has all of standard input once it may store it.
CommandsInv ==
  /\ ToolTyped
  /\ phase \notin Listing \cup {"exit"} => NothingOut
  /\ phase # "exit" => value = value0
  /\ phase = "set" => taken = stdin /\ Len(stdin) <= o.limit
  /\ CommandsTrue

LEMMA CommandsAtFirst ==
  ASSUME Init
  PROVE  CommandsInv
<1>1. ScanTyped
  BY ScanStart DEF Init
<1>2. room \in Nat /\ <<>> \in Bytestrings /\ Len(<<>>) <= WordMax
  BY CliAssumption, OptionsAssumption DEF Init, Bytestrings
<1>3. phase = "scan" /\ phase \in Phases
  BY DEF Init, ScanInit, Phases
<1> QED BY <1>1, <1>2, <1>3 DEF Init, CommandsInv, ToolTyped, VerbRight, NothingOut, CommandsTrue,
           Listing

\* The world of a step that leaves the options and the input alone.
LEMMA SameOptions ==
  ASSUME ToolTyped, UNCHANGED <<optionVars, stdin, room>>
  PROVE  ScanTyped' /\ room' \in Nat /\ stdin' \in Bytestrings /\ Len(stdin') <= WordMax
BY DEF ToolTyped, ScanTyped, optionVars

\* What a whole write leaves on the device.
LEMMA SentWhole ==
  ASSUME NEW S, NEW dev \in Seq(S), NEW bytes \in Seq(S), room \in Nat
  PROVE  /\ Whole(dev, bytes) => Sent(dev, bytes) = dev \o bytes
         /\ ~Whole(dev, bytes) => Sent(dev, bytes) = SubSeq(dev \o bytes, 1, room)
         /\ Sent(dev, bytes) \in Seq(S)
         /\ Whole(dev, bytes) \/ Len(dev) > room => Len(Sent(dev, bytes)) <= Len(dev) + Len(bytes)
<1> DEFINE all == dev \o bytes
<1>1. all \in Seq(S) /\ Len(all) = Len(dev) + Len(bytes) /\ Len(dev) \in Nat /\ Len(bytes) \in Nat
  OBVIOUS
<1>2. Min({room, Len(dev) + Len(bytes)}) =
        IF room <= Len(dev) + Len(bytes) THEN room ELSE Len(dev) + Len(bytes)
  BY <1>1, LesserOf
<1> HIDE DEF all
<1>3. SubSeq(all, 1, Len(all)) = all
  BY <1>1, WholePrefix
<1>4. CASE Whole(dev, bytes)
  <2>1. Min({room, Len(dev) + Len(bytes)}) = Len(all)
    <3>1. PICK n \in Nat : n = Len(dev) + Len(bytes)
      BY <1>1
    <3>2. n <= room /\ (room <= n => n = room)
      BY <1>4, <3>1 DEF Whole
    <3>3. Min({room, n}) = n
      BY <3>2, LesserOf
    <3> QED BY <1>1, <3>1, <3>3
  <2>2. Sent(dev, bytes) = all
    BY <1>3, <2>1 DEF Sent, all
  <2> QED BY <1>1, <1>4, <2>2 DEF all
<1>5. CASE ~Whole(dev, bytes)
  <2>1. Min({room, Len(dev) + Len(bytes)}) = room /\ room <= Len(all)
    BY <1>1, <1>2, <1>5 DEF Whole
  <2>2. Sent(dev, bytes) = SubSeq(all, 1, room)
    BY <2>1 DEF Sent, all
  <2>3. SubSeq(all, 1, room) \in Seq(S) /\ Len(SubSeq(all, 1, room)) = room
    BY <1>1, <2>1
  <2> QED BY <1>1, <1>5, <2>1, <2>2, <2>3 DEF all, Whole
<1> QED BY <1>4, <1>5

LEMMA CommandsScan ==
  ASSUME CommandsInv, TakeArgument
  PROVE  CommandsInv'
<1>1. ScanSteps /\ UNCHANGED <<world, output, listing, history>>
  BY DEF TakeArgument, ScanSteps
<1>2. ScanTyped' /\ phase = "scan" /\ phase' \in {"scan", "help", "version", "exit"}
      /\ (phase' = "exit" => exit' = 2)
  BY <1>1, ScanStepTyped DEF CommandsInv, ToolTyped
<1>3. verb = "none" /\ value = value0 /\ NothingOut
  BY <1>2 DEF CommandsInv, ToolTyped, VerbRight, Listing
<1>4. ToolTyped'
  BY <1>1, <1>2, <1>3 DEF CommandsInv, ToolTyped, VerbRight, Phases, world, history
<1> QED BY <1>1, <1>2, <1>3, <1>4 DEF CommandsInv, CommandsTrue, NothingOut, world, output, history

LEMMA CommandsStart ==
  ASSUME CommandsInv, Start
  PROVE  CommandsInv'
<1>1. Dispatch /\ UNCHANGED <<room, output, listing, written, rows>>
  BY DEF Start
<1>2. ScanTyped' /\ phase = "scan" /\ ((phase' = "exit" /\ exit' = 2) \/ phase' \in Verbs)
  BY <1>1, DispatchTyped DEF CommandsInv, ToolTyped
<1>3. verb = "none" /\ value = value0 /\ NothingOut
  BY <1>2 DEF CommandsInv, ToolTyped, VerbRight, Listing
<1>4. NothingOut'
  BY <1>1, <1>3 DEF NothingOut, output
<1>5. CASE phase' = "exit" /\ exit' = 2
  <2>1. UNCHANGED <<file, value, stdin, verb, value0>>
    BY <1>5 DEF Start
  <2> QED BY <1>1, <1>2, <1>3, <1>4, <1>5, <2>1
          DEF CommandsInv, ToolTyped, VerbRight, Phases, CommandsTrue
<1>6. CASE phase' \in Verbs
  <2>1. phase' # "exit" /\ phase' # "set"
    BY <1>6 DEF Verbs
  <2>2. /\ value' \in Values \cup {Absent, value} /\ stdin' \in Stdins \cup {stdin}
        /\ verb' = phase' /\ value0' = value'
    BY <2>1 DEF Start
  <2>3. value' \in Bytestrings \cup {Absent} /\ stdin' \in Bytestrings /\ Len(stdin') <= WordMax
    BY <2>2, CliAssumption DEF CommandsInv, ToolTyped, Bytestrings
  <2>4. ToolTyped'
    BY <1>1, <1>2, <1>6, <2>2, <2>3 DEF CommandsInv, ToolTyped, VerbRight, Phases, Verbs
  <2> QED BY <1>4, <2>1, <2>2, <2>4 DEF CommandsInv, CommandsTrue
<1> QED BY <1>2, <1>5, <1>6

\* put reads a byte more than it may store: what is within the limit is all of
\* the input.
LEMMA CommandsRead ==
  ASSUME CommandsInv, ReadStdin
  PROVE  CommandsInv'
<1> DEFINE got == SubSeq(stdin, 1, Min({ReadCap(o.limit), Len(stdin)}))
<1>1. phase = "put" /\ verb = "put" /\ value = value0 /\ UNCHANGED <<optionVars, world>>
  BY DEF ReadStdin, CommandsInv, ToolTyped, VerbRight
<1>2. ScanTyped' /\ room' \in Nat /\ stdin' \in Bytestrings /\ Len(stdin') <= WordMax
  BY <1>1, SameOptions DEF CommandsInv, world
<1>3. \/ Fail("Io") \/ Fail("TooLarge")
      \/ Len(got) <= o.limit /\ taken' = got /\ phase' = "set" /\ UNCHANGED <<exit, output, history>>
  BY DEF ReadStdin
<1>4. CASE Fail("Io") \/ Fail("TooLarge")
  <2>1. phase' = "exit" /\ exit' # 0 /\ UNCHANGED <<output, history>>
    BY <1>4 DEF Fail, Exit, ExitFor, ExitError
  <2> QED BY <1>1, <1>2, <2>1 DEF CommandsInv, ToolTyped, VerbRight, Phases, CommandsTrue, world, history
<1>5. CASE Len(got) <= o.limit /\ taken' = got /\ phase' = "set" /\ UNCHANGED <<exit, output, history>>
  <2>1. o.limit \in Nat /\ o.limit <= WordMax /\ WordMax \in Nat
    BY OptionsAssumption DEF CommandsInv, ToolTyped, ScanTyped, OptionSets
  <2>2. stdin \in Seq(Byte) /\ Len(stdin) \in Nat /\ Len(stdin) <= WordMax
    BY DEF CommandsInv, ToolTyped, Bytestrings
  <2>3. PICK c \in Nat : c = ReadCap(o.limit)
    BY <2>1 DEF ReadCap, SaturatingSuccessor
  <2>4. c > o.limit \/ c = WordMax
    BY <2>1, <2>3 DEF ReadCap, SaturatingSuccessor
  <2>5. Min({c, Len(stdin)}) = IF c <= Len(stdin) THEN c ELSE Len(stdin)
    BY <2>2, LesserOf
  <2>6. got = stdin
    <3>1. CASE c <= Len(stdin)
      <4>1. Len(got) = c
        BY <2>2, <2>3, <2>5, <3>1
      <4>2. c <= o.limit
        BY <1>5, <4>1
      <4>3. c = Len(stdin)
        BY <2>1, <2>2, <2>4, <3>1, <4>2
      <4> QED BY <2>2, <2>3, <2>5, <4>3, WholePrefix
    <3>2. CASE ~(c <= Len(stdin))
      BY <2>2, <2>3, <2>5, <3>2, WholePrefix
    <3> QED BY <3>1, <3>2
  <2>7. NothingOut'
    BY <1>1, <1>5 DEF CommandsInv, Listing, NothingOut, output, history
  <2>8. taken' = stdin' /\ Len(stdin') <= o'.limit
    BY <1>1, <1>5, <2>6 DEF optionVars, world
  <2> QED BY <1>1, <1>2, <1>5, <2>7, <2>8
          DEF CommandsInv, ToolTyped, VerbRight, Phases, CommandsTrue, world, history
<1> QED BY <1>3, <1>4, <1>5

LEMMA CommandsSet ==
  ASSUME CommandsInv, SetValueOf
  PROVE  CommandsInv'
<1>1. /\ phase = "set" /\ verb = "put" /\ value = value0 /\ taken = stdin
      /\ UNCHANGED <<optionVars, file, stdin, room, listing>>
  BY DEF SetValueOf, CommandsInv, ToolTyped, VerbRight
<1>2. ScanTyped' /\ room' \in Nat /\ stdin' \in Bytestrings /\ Len(stdin') <= WordMax
  BY <1>1, SameOptions DEF CommandsInv
<1>3. /\ phase' = "exit" /\ UNCHANGED <<output, history>>
      /\ \/ exit' # 0 /\ value' \in LeftBehind
         \/ exit' = 0 /\ value' = stdin
  <2>1. ExitFor("TooLarge") # 0 /\ value \in LeftBehind
    BY DEF ExitFor, LeftBehind
  <2> QED BY <1>1, <2>1, ExitOfFault DEF SetValueOf, Fail, Exit
<1>4. ASSUME NEW v \in LeftBehind
      PROVE  /\ v = value0 \/ (env.streams /\ Len(stdin) <= o.limit /\ v \in Prefixes(stdin))
             /\ v \in Bytestrings \cup {Absent}
  <2>1. stdin \in Seq(Byte) /\ Len(stdin) <= o.limit /\ value \in Bytestrings \cup {Absent}
    BY <1>1 DEF CommandsInv, ToolTyped, Bytestrings
  <2>2. \A n \in 0..Len(stdin) : SubSeq(stdin, 1, n) \in Seq(Byte)
    BY <2>1
  <2>3. Prefixes(stdin) \subseteq Bytestrings
    BY <2>2 DEF Prefixes, Bytestrings
  <2> QED BY <1>1, <2>1, <2>3 DEF LeftBehind
<1>5. UNCHANGED <<env, o>>
  BY <1>1 DEF optionVars
<1> QED BY <1>1, <1>2, <1>3, <1>4, <1>5
        DEF CommandsInv, ToolTyped, VerbRight, Phases, CommandsTrue, history

\* A command that ends without touching the value.
LEMMA CommandsEnd ==
  ASSUME CommandsInv, phase \notin Listing \cup {"exit"}, phase' = "exit",
         UNCHANGED <<optionVars, world>>, UNCHANGED <<verb, value0>>,
         verb \in {"put", "del"} => exit' # 0,
         verb = "get" /\ exit' = 0 => device' = value
  PROVE  CommandsInv'
<1>1. ScanTyped' /\ room' \in Nat /\ stdin' \in Bytestrings /\ Len(stdin') <= WordMax
  BY SameOptions DEF CommandsInv, world
<1> QED BY <1>1 DEF CommandsInv, ToolTyped, VerbRight, Phases, CommandsTrue, world

LEMMA CommandsGet ==
  ASSUME CommandsInv, CmdGet
  PROVE  CommandsInv'
<1>1. phase = "get" /\ verb = "get" /\ NothingOut /\ UNCHANGED <<optionVars, world, listing>>
  BY DEF CmdGet, CommandsInv, ToolTyped, VerbRight, Listing
<1>2. /\ phase' = "exit" /\ UNCHANGED <<verb, value0>>
      /\ exit' = 0 => device' = value
  <2>1. CASE \E status \in CallFaults \cup {"Missing", "TooLarge"} : Fail(status)
    <3>1. ExitFor("TooLarge") # 0 /\ ExitFor("Missing") # 0
      BY DEF ExitFor
    <3> QED BY <2>1, <3>1, ExitOfFault DEF Fail, Exit, history
  <2>2. CASE value # Absent /\ PrintOut(value, FALSE)
    <3>1. device = <<>> /\ device \in Bytestrings /\ value \in Bytestrings /\ room \in Nat
      BY <1>1, <2>2 DEF NothingOut, CommandsInv, ToolTyped, Bytestrings
    <3>2. /\ device' = Sent(device, value) /\ UNCHANGED <<verb, value0>>
          /\ phase' = "exit" /\ exit' = IF Whole(device, value) THEN 0 ELSE ExitError
      BY <2>2 DEF PrintOut, Exit
    <3>3. Whole(device, value) => Sent(device, value) = device \o value
      BY <3>1, SentWhole DEF Bytestrings
    <3>4. device \o value = value
      BY <3>1 DEF Bytestrings
    <3> QED BY <3>2, <3>3, <3>4 DEF ExitError
  <2> QED BY <2>1, <2>2 DEF CmdGet
<1> QED BY <1>1, <1>2, CommandsEnd DEF Listing

LEMMA CommandsDel ==
  ASSUME CommandsInv, CmdDel
  PROVE  CommandsInv'
<1>1. /\ phase = "del" /\ verb = "del" /\ value = value0
      /\ UNCHANGED <<optionVars, file, stdin, room, listing>>
  BY DEF CmdDel, CommandsInv, ToolTyped, VerbRight
<1>2. ScanTyped' /\ room' \in Nat /\ stdin' \in Bytestrings /\ Len(stdin') <= WordMax
  BY <1>1, SameOptions DEF CommandsInv
<1>3. /\ phase' = "exit" /\ UNCHANGED <<output, history>>
      /\ \/ exit' # 0 /\ UNCHANGED value
         \/ exit' = 0 /\ value' = Absent
  BY <1>1, ExitOfFault DEF CmdDel, Fail, Exit
<1> QED BY <1>1, <1>2, <1>3 DEF CommandsInv, ToolTyped, VerbRight, Phases, CommandsTrue, history

\* The commands that only say something.
LEMMA CommandsSay ==
  ASSUME CommandsInv, CmdLen \/ CmdLimits \/ CmdLoad \/ PrintHelp \/ PrintVersion
  PROVE  CommandsInv'
<1>1. /\ phase \in {"len", "limits", "load", "help", "version"}
      /\ UNCHANGED <<optionVars, world>>
  BY DEF CmdLen, CmdLimits, CmdLoad, PrintHelp, PrintVersion
<1>2. verb \notin {"put", "del", "get"}
  BY <1>1 DEF CommandsInv, ToolTyped, VerbRight
<1>3. phase' = "exit" /\ UNCHANGED <<verb, value0>>
  <2>1. \A line : Say(line) => phase' = "exit" /\ UNCHANGED <<verb, value0>>
    BY Zenon DEF Say, PrintOut, Exit
  <2>2. \A status : Fail(status) => phase' = "exit" /\ UNCHANGED <<verb, value0>>
    BY DEF Fail, Exit, history
  <2>3. CASE CmdLen
    BY <2>1, <2>2, <2>3, Zenon DEF CmdLen
  <2>4. CASE CmdLimits
    BY <2>1, <2>4, Zenon DEF CmdLimits
  <2>5. CASE CmdLoad
    BY <2>5 DEF CmdLoad, Exit, history
  <2>6. CASE PrintHelp
    BY <2>6 DEF PrintHelp, Exit, history
  <2>7. CASE PrintVersion
    BY <2>1, <2>7, Zenon DEF PrintVersion
  <2> QED BY <2>3, <2>4, <2>5, <2>6, <2>7
<1>4. phase \notin Listing \cup {"exit"}
  BY <1>1 DEF Listing
<1> QED BY <1>1, <1>2, <1>3, <1>4, CommandsEnd

\* A listing never touches the value.
LEMMA CommandsListing ==
  ASSUME CommandsInv, LstStart \/ LstList \/ LstRow \/ LstRowsEnd \/ LstTail
  PROVE  CommandsInv'
<1>1. phase \in {"lst", "list", "rows", "tail"} /\ verb = "lst"
  BY DEF LstStart, LstList, LstRow, LstRowsEnd, LstTail, CommandsInv, ToolTyped, VerbRight
<1>2. \A lines : Emit(lines) => UNCHANGED <<verb, value0>>
  BY Zenon DEF Emit
<1>3. UNCHANGED <<world, verb, value0>> /\ phase' \in Listing \cup {"exit"} /\ ScanTyped'
  <2>1. UNCHANGED optionVars => ScanTyped'
    BY DEF CommandsInv, ToolTyped, ScanTyped, optionVars
  <2>2. CASE LstStart
    <3>1. /\ o' = [o EXCEPT !.useColor = ResolveColor] /\ UNCHANGED <<verb, value0>> /\ phase' = "list"
          /\ UNCHANGED <<env, args, i, colsGiven, pos, onlyPositional, exit, world, listing>>
      BY <1>2, <2>2, Zenon DEF LstStart
    <3>2. ScanTyped
      BY DEF CommandsInv, ToolTyped
    <3>3. ResolveColor \in BOOLEAN /\ o \in OptionSets
      BY <3>2 DEF ResolveColor, ScanTyped
    <3>4. o' \in OptionSets
      BY <3>1, <3>3 DEF OptionSets
    <3> QED BY <3>1, <3>2, <3>4 DEF ScanTyped, Listing
  <2>3. CASE LstList
    <3>1. UNCHANGED <<optionVars, world, history>> /\ phase' \in {"rows", "tail"}
      BY <2>3, Zenon DEF LstList
    <3> QED BY <2>1, <3>1 DEF history, Listing
  <2>4. CASE LstRow
    <3>1. UNCHANGED <<optionVars, phase, world>> /\ UNCHANGED <<verb, value0>> /\ phase = "rows"
      BY <1>2, <2>4, Zenon DEF LstRow, history
    <3> QED BY <2>1, <3>1 DEF Listing
  <2>5. CASE LstRowsEnd
    <3>1. UNCHANGED <<optionVars, world>> /\ UNCHANGED <<verb, value0>> /\ phase' = "tail"
      BY <1>2, <2>5, Zenon DEF LstRowsEnd, history
    <3> QED BY <2>1, <3>1 DEF Listing
  <2>6. CASE LstTail
    <3>1. UNCHANGED <<optionVars, world>> /\ UNCHANGED <<verb, value0>> /\ phase' = "exit"
      BY <2>6, Zenon DEF LstTail, Exit
    <3> QED BY <2>1, <3>1
  <2> QED BY <2>2, <2>3, <2>4, <2>5, <2>6
<1>4. phase' # "set" /\ phase' \in Phases /\ phase' \in {"list", "rows", "tail", "exit"}
  BY <1>3 DEF Listing, Phases
<1> QED BY <1>1, <1>3, <1>4 DEF CommandsInv, ToolTyped, VerbRight, Listing, CommandsTrue, world

LEMMA CommandsStep ==
  ASSUME CommandsInv, [Next]_vars
  PROVE  CommandsInv'
<1>1. CASE UNCHANGED vars
  BY <1>1 DEF CommandsInv, ToolTyped, VerbRight, NothingOut, CommandsTrue, ScanTyped, vars, optionVars,
             world, output, listing, history
<1> QED BY <1>1, CommandsScan, CommandsStart, CommandsRead, CommandsSet, CommandsGet, CommandsDel,
           CommandsSay, CommandsListing DEF Next

\* A command that succeeds did what it says: put stored all of standard input,
\* get wrote all of the value, del removed it; one that fails left the value as
\* it was (cmd_put, cmd_get, cmd_del, read_stdin of main.rs).
THEOREM CommandsAreTrue == Spec => []CommandsTrue
<1>1. Init => CommandsInv
  BY CommandsAtFirst
<1>2. CommandsInv /\ [Next]_vars => CommandsInv'
  BY CommandsStep
<1>3. CommandsInv => CommandsTrue
  BY DEF CommandsInv
<1> QED BY <1>1, <1>2, <1>3, PTL DEF Spec

-----------------------------------------------------------------------------
(* Sequences put together                                                  *)

LEMMA StepwiseExists ==
  ASSUME NEW S, NEW base \in S, NEW N \in Nat, NEW G \in [S \X (1..N) -> S]
  PROVE  Stepwise(S, base, N, G) # {}
<1>1. \E it : Folding(S, base, N, G, it)
  <2>1. PICK it \in Folds(S, base, N, G) : TRUE
    BY FoldExists
  <2>2. /\ it \in [SUBSET (1..N) -> S]
        /\ \A s \in SUBSET (1..N) :
             it[s] = IF s = {} THEN base ELSE G[<<it[s \ {Max(s)}], Max(s)>>]
    BY DEF Folds
  <2>3. it[{}] = base
    BY <2>2
  <2>4. \A s \in SUBSET (1..N) : s # {} => it[s] = G[<<it[s \ {Max(s)}], Max(s)>>]
    BY <2>2
  <2> QED BY <2>3, <2>4 DEF Folding
<1>2. PICK it : Folding(S, base, N, G, it)
  BY <1>1
<1>3. Ends(S, base, N, G, it)
  BY <1>2, FoldEnds, Zenon
<1> QED BY <1>3 DEF Ends

\* A sequence by its elements.
LEMMA ListOf ==
  ASSUME NEW S, NEW N \in Nat, NEW s \in [1..N -> S]
  PROVE  s \in Seq(S) /\ Len(s) = N
OBVIOUS

LEMMA Appending ==
  ASSUME NEW S, NEW a \in Seq(S), NEW b \in Seq(S), NEW c \in Seq(S)
  PROVE  /\ a \o b \in Seq(S) /\ <<>> \o a = a /\ a \o <<>> = a
         /\ (a \o b) \o c = a \o (b \o c)
<1>1. a \o b \in Seq(S) /\ <<>> \o a = a /\ a \o <<>> = a
  OBVIOUS
<1> QED BY <1>1, ConcatAssociative

LEMMA EmptyFirst ==
  ASSUME NEW S, NEW a \in Seq(S)
  PROVE  <<>> \o a = a /\ a \o <<>> = a
OBVIOUS

PartsIn(S, N, parts) == \A n \in 1..N : parts[n] \in Seq(S)
PutTogether(g, N, parts) ==
  \A n \in 1..N : g[n] = IF n = 1 THEN parts[n] ELSE g[n - 1] \o parts[n]

\* The parts so far.
Flattening(S, N, parts) ==
  {f \in [0..N -> Seq(S)] : f[0] = <<>> /\ \A n \in 1..N : f[n] = f[n - 1] \o parts[n]}

LEMMA FlatteningExists ==
  ASSUME NEW S, NEW N \in Nat, NEW parts, PartsIn(S, N, parts)
  PROVE  Flattening(S, N, parts) # {}
<1> DEFINE T == Seq(S)
           G == [p \in T \X (1..N) |-> p[1] \o parts[p[2]]]
<1>1. \A v \in T, n \in 1..N : v \o parts[n] \in T
  BY Appending DEF PartsIn
<1>2. <<>> \in T
  OBVIOUS
<1> HIDE DEF T
<1>3. G \in [T \X (1..N) -> T]
  BY <1>1
<1>4. \A v \in T, n \in 1..N : G[<<v, n>>] = v \o parts[n]
  OBVIOUS
<1> HIDE DEF G
<1>5. PICK f \in Stepwise(T, <<>>, N, G) : TRUE
  <2>1. Stepwise(T, <<>>, N, G) # {}
    BY <1>2, <1>3, StepwiseExists
  <2> QED BY <2>1
<1>6. f \in [0..N -> T] /\ f[0] = <<>> /\ \A n \in 1..N : f[n] = G[<<f[n - 1], n>>]
  BY DEF Stepwise
<1>7. \A n \in 1..N : f[n] = f[n - 1] \o parts[n]
  <2> TAKE n \in 1..N
  <2>1. f[n - 1] \in T
    BY <1>6
  <2> QED BY <1>4, <1>6, <2>1
<1>8. f \in Flattening(S, N, parts)
  BY <1>6, <1>7 DEF Flattening, T
<1> QED BY <1>8

\* Two descriptions of the same thing.
LEMMA FlatteningSame ==
  ASSUME NEW S, NEW N \in Nat, NEW parts, NEW f \in Flattening(S, N, parts),
         PartsIn(S, N, parts), NEW g, PutTogether(g, N, parts)
  PROVE  \A n \in 1..N : g[n] = f[n]
<1> DEFINE T == {n \in 0..N : n = 0 \/ g[n] = f[n]}
<1>1. f[0] = <<>> /\ \A n \in 1..N : f[n] = f[n - 1] \o parts[n]
  BY DEF Flattening
<1>2. ASSUME NEW n \in 1..N, n - 1 \in T PROVE n \in T
  <2>1. CASE n = 1
    <3>1. 1 \in 1..N /\ 1 - 1 = 0
      BY <2>1
    <3>2. f[1] = f[1 - 1] \o parts[1] /\ parts[1] \in Seq(S) /\ g[1] = parts[1]
      BY <1>1, <3>1 DEF PartsIn, PutTogether
    <3>3. f[1] = parts[1]
      BY <1>1, <3>1, <3>2, EmptyFirst
    <3> QED BY <2>1, <3>2, <3>3
  <2>2. CASE n # 1
    <3>1. g[n - 1] = f[n - 1]
      BY <1>2, <2>2
    <3>2. g[n] = f[n]
      BY <1>1, <2>2, <3>1 DEF PutTogether
    <3> QED BY <3>2
  <2> QED BY <2>1, <2>2
<1>3. 0 \in T
  OBVIOUS
<1> HIDE DEF T
<1>4. \A n \in 0..N : n \in T
  BY <1>2, <1>3, UpTo
<1>5. \A n \in 1..N : n \in 0..N /\ n # 0
  OBVIOUS
<1> QED BY <1>4, <1>5 DEF T

LEMMA FlattenRun ==
  ASSUME NEW S, NEW parts \in Seq(Seq(S))
  PROVE  \E f \in Flattening(S, Len(parts), parts) : f[Len(parts)] = FlattenSeq(parts)
<1>1. PICK N \in Nat : N = Len(parts)
  OBVIOUS
<1>2. PartsIn(S, N, parts)
  BY <1>1, SeqTyped DEF PartsIn
<1>3. PICK f \in Flattening(S, N, parts) : TRUE
  BY <1>2, FlatteningExists
<1>4. f[0] = <<>> /\ \A n \in 1..N : f[n] = f[n - 1] \o parts[n]
  BY DEF Flattening
<1>5. CASE N = 0
  <2>1. parts = <<>>
    BY <1>1, <1>5, EmptySeq
  <2>2. FlattenSeq(parts) = parts
    BY <1>1, <1>5, Zenon DEF FlattenSeq
  <2> QED BY <1>1, <1>4, <1>5, <2>1, <2>2
<1>6. CASE N # 0
  <2> DEFINE Is(g) == g = [n \in 1..N |-> IF n = 1 THEN parts[n] ELSE g[n - 1] \o parts[n]]
             g == CHOOSE g : Is(g)
             h == [n \in 1..N |-> f[n]]
  <2>1. FlattenSeq(parts) = g[N]
    BY <1>1, <1>6, Zenon DEF FlattenSeq
  <2>2. Is(h)
    <3>1. ASSUME NEW n \in 1..N PROVE f[n] = IF n = 1 THEN parts[n] ELSE h[n - 1] \o parts[n]
      <4>1. CASE n = 1
        <5>1. 1 \in 1..N /\ 1 - 1 = 0
          BY <4>1
        <5>2. f[1] = f[1 - 1] \o parts[1] /\ parts[1] \in Seq(S)
          BY <1>2, <1>4, <5>1 DEF PartsIn
        <5>3. f[1] = parts[1]
          BY <1>4, <5>1, <5>2, EmptyFirst
        <5> QED BY <4>1, <5>3
      <4>2. CASE n # 1
        <5>1. n - 1 \in 1..N
          BY <4>2
        <5>2. h[n - 1] = f[n - 1]
          BY <5>1
        <5> HIDE DEF h
        <5> QED BY <1>4, <4>2, <5>2
      <4> QED BY <4>1, <4>2
    <3> QED BY <3>1
  <2>3. Is(g)
    BY <2>2, Zenon
  <2> HIDE DEF g
  <2>4. PutTogether(g, N, parts)
    BY <2>3 DEF PutTogether
  <2> HIDE DEF Is
  <2>5. \A n \in 1..N : g[n] = f[n]
    BY <1>2, <2>4, FlatteningSame
  <2>6. N \in 1..N
    BY <1>6
  <2> QED BY <1>1, <2>1, <2>5, <2>6
<1> QED BY <1>5, <1>6

LEMMA FlattenTyped ==
  ASSUME NEW S, NEW parts \in Seq(Seq(S))
  PROVE  FlattenSeq(parts) \in Seq(S)
<1>1. PICK f \in Flattening(S, Len(parts), parts) : f[Len(parts)] = FlattenSeq(parts)
  BY FlattenRun
<1>2. Len(parts) \in 0..Len(parts)
  OBVIOUS
<1>3. f \in [0..Len(parts) -> Seq(S)]
  BY DEF Flattening
<1> QED BY <1>1, <1>2, <1>3

LEMMA FlattenNone ==
  FlattenSeq(<<>>) = <<>>
BY DEF FlattenSeq

\* Parts behind others.
Behind(M, N, K, p, q, all) ==
  K = M + N /\ (\A n \in 1..M : all[n] = p[n]) /\ (\A n \in 1..N : all[M + n] = q[n])

Joins(S, M, N, K, p, q, all) ==
  \A f \in Flattening(S, M, p), g \in Flattening(S, N, q), h \in Flattening(S, K, all) :
    h[K] = f[M] \o g[N]

LEMMA FlatteningOn ==
  ASSUME NEW S, NEW M \in Nat, NEW N \in Nat, NEW K \in Nat, NEW p, NEW q, NEW all,
         PartsIn(S, M, p), PartsIn(S, N, q),
         Behind(M, N, K, p, q, all)
  PROVE  Joins(S, M, N, K, p, q, all)
<1> SUFFICES ASSUME NEW f \in Flattening(S, M, p), NEW g \in Flattening(S, N, q),
                    NEW h \in Flattening(S, K, all)
             PROVE  h[K] = f[M] \o g[N]
  BY DEF Joins
<1>1. /\ f \in [0..M -> Seq(S)] /\ f[0] = <<>> /\ \A n \in 1..M : f[n] = f[n - 1] \o p[n]
  BY DEF Flattening
<1>2. /\ g \in [0..N -> Seq(S)] /\ g[0] = <<>> /\ \A n \in 1..N : g[n] = g[n - 1] \o q[n]
  BY DEF Flattening
<1>3. /\ h \in [0..K -> Seq(S)] /\ h[0] = <<>>
      /\ \A n \in 1..K : h[n] = h[n - 1] \o all[n]
  BY DEF Flattening
<1>0. K = M + N
  BY DEF Behind
<1> DEFINE T == {n \in 0..M : h[n] = f[n]}
<1>4. h[M] = f[M]
  <2>1. 0 \in T
    BY <1>1, <1>3
  <2>2. ASSUME NEW n \in 1..M, n - 1 \in T PROVE n \in T
    <3>1. h[n - 1] = f[n - 1] /\ n \in 1..K
      BY <1>0, <2>2
    <3>2. h[n] = h[n - 1] \o all[n] /\ f[n] = f[n - 1] \o p[n] /\ all[n] = p[n]
      BY <1>1, <1>3, <3>1 DEF Behind
    <3>3. h[n] = f[n]
      BY <3>1, <3>2
    <3> QED BY <3>3
  <2> HIDE DEF T
  <2>3. \A n \in 0..M : n \in T
    BY <2>1, <2>2, UpTo
  <2>4. M \in 0..M
    OBVIOUS
  <2> QED BY <2>3, <2>4 DEF T
<1> DEFINE U == {n \in 0..N : h[M + n] = f[M] \o g[n]}
<1>5. f[M] \in Seq(S)
  BY <1>1
<1>6. 0 \in U
  <2>1. f[M] \o <<>> = f[M]
    BY <1>5, EmptyFirst
  <2>2. M + 0 = M /\ 0 \in 0..N
    OBVIOUS
  <2>3. h[M + 0] = f[M] \o g[0]
    BY <1>2, <1>4, <2>1, <2>2
  <2> QED BY <2>2, <2>3
<1>7. ASSUME NEW n \in 1..N, n - 1 \in U PROVE n \in U
  <2>1. M + n \in 1..K /\ (M + n) - 1 = M + (n - 1) /\ n - 1 \in 0..N
    BY <1>0
  <2>2. h[M + n] = h[(M + n) - 1] \o all[M + n] /\ all[M + n] = q[n]
    BY <1>3, <2>1 DEF Behind
  <2>3. h[M + (n - 1)] = f[M] \o g[n - 1]
    BY <1>7
  <2>4. g[n] = g[n - 1] \o q[n] /\ g[n - 1] \in Seq(S) /\ q[n] \in Seq(S)
    BY <1>2, <2>1 DEF PartsIn
  <2>5. (f[M] \o g[n - 1]) \o q[n] = f[M] \o (g[n - 1] \o q[n])
    <3>1. PICK a \in Seq(S), b \in Seq(S), c \in Seq(S) : a = f[M] /\ b = g[n - 1] /\ c = q[n]
      BY <1>5, <2>4
    <3>2. (a \o b) \o c = a \o (b \o c)
      BY ConcatAssociative
    <3> QED BY <3>1, <3>2
  <2>6. h[M + n] = f[M] \o g[n]
    BY <2>1, <2>2, <2>3, <2>4, <2>5, Zenon
  <2>7. n \in 0..N
    OBVIOUS
  <2> QED BY <2>6, <2>7
<1> HIDE DEF U
<1>8. \A n \in 0..N : n \in U
  BY <1>6, <1>7, UpTo
<1>9. N \in 0..N
  OBVIOUS
<1> QED BY <1>0, <1>8, <1>9, Zenon DEF U

\* Two sequences of parts are put together one behind the other.
LEMMA FlattenJoins ==
  ASSUME NEW S, NEW p \in Seq(Seq(S)), NEW q \in Seq(Seq(S))
  PROVE  FlattenSeq(p \o q) = FlattenSeq(p) \o FlattenSeq(q)
<1>1. PICK M \in Nat : M = Len(p)
  OBVIOUS
<1>2. PICK N \in Nat : N = Len(q)
  OBVIOUS
<1>0. PICK K \in Nat : K = M + N
  OBVIOUS
<1>3. PICK all \in Seq(Seq(S)) : all = p \o q
  BY Appending
<1>4. Len(all) = M + N /\ PartsIn(S, M, p) /\ PartsIn(S, N, q) /\ Behind(M, N, K, p, q, all)
  <2>1. Len(all) = M + N /\ PartsIn(S, M, p) /\ PartsIn(S, N, q)
    BY <1>1, <1>2, <1>3 DEF PartsIn
  <2>2. Behind(M, N, K, p, q, all)
    BY <1>0, <1>1, <1>2, <1>3 DEF Behind
  <2> QED BY <2>1, <2>2
<1>5. PICK f \in Flattening(S, M, p) : f[M] = FlattenSeq(p)
  BY <1>1, FlattenRun
<1>6. PICK g \in Flattening(S, N, q) : g[N] = FlattenSeq(q)
  BY <1>2, FlattenRun
<1>7. PICK h \in Flattening(S, K, all) : h[K] = FlattenSeq(all)
  BY <1>0, <1>4, FlattenRun
<1>8. h[K] = f[M] \o g[N]
  <2>1. Joins(S, M, N, K, p, q, all)
    BY <1>4, FlatteningOn
  <2> QED BY <2>1 DEF Joins
<1> QED BY <1>3, <1>5, <1>6, <1>7, <1>8

LEMMA FlattenOne ==
  ASSUME NEW S, NEW p \in Seq(S)
  PROVE  FlattenSeq(<<p>>) = p
<1>1. <<p>> \in Seq(Seq(S)) /\ Len(<<p>>) = 1 /\ <<p>>[1] = p
  OBVIOUS
<1>2. PICK f \in Flattening(S, 1, <<p>>) : f[1] = FlattenSeq(<<p>>)
  BY <1>1, FlattenRun
<1>3. f[0] = <<>> /\ \A n \in 1..1 : f[n] = f[n - 1] \o <<p>>[n]
  BY DEF Flattening
<1>4. 1 \in 1..1 /\ 1 - 1 = 0
  OBVIOUS
<1>5. f[1] = f[1 - 1] \o <<p>>[1]
  BY <1>3, <1>4
<1> QED BY <1>1, <1>2, <1>3, <1>4, <1>5, EmptyFirst

-----------------------------------------------------------------------------
(* The lines of a listing                                                  *)

Line == Seq(Nat)

LEMMA Flat ==
  ASSUME NEW S, NEW N \in Nat, NEW parts \in [1..N -> Seq(S)]
  PROVE  FlattenSeq(parts) \in Seq(S)
<1>1. parts \in Seq(Seq(S))
  BY ListOf
<1> QED BY <1>1, FlattenTyped

LEMMA LineParts ==
  ASSUME NEW a \in Line, NEW b \in Line
  PROVE  /\ a \o b \in Line /\ <<>> \in Line
         /\ \A n \in Nat : <<n>> \in Line
         /\ Len(a) \in Nat /\ DOMAIN a = 1..Len(a) /\ \A n \in 1..Len(a) : a[n] \in Nat
BY DEF Line

LEMMA BytesAreLines == Bytestrings \subseteq Line
<1>1. Byte \subseteq Nat
  BY DEF Byte
<1> QED BY <1>1, SeqMonotonic DEF Bytestrings, Line

LEMMA Utf8Typed ==
  ASSUME NEW cp \in Nat
  PROVE  Utf8(cp) \in Line
BY DEF Utf8, Line

LEMMA GlyphTyped ==
  ASSUME NEW b \in Byte
  PROVE  Glyph[b] \in Line
<1>1. LowGlyphs \in [1..128 -> Nat]
  BY DEF LowGlyphs
<1>2. HighGlyphs \in [1..128 -> Nat]
  BY DEF HighGlyphs
<1>3. GlyphOf(b) \in Nat
  BY <1>1, <1>2 DEF GlyphOf, Byte
<1> QED BY <1>3, Utf8Typed DEF Glyph

LEMMA EncodeTyped ==
  ASSUME NEW s \in Bytestrings
  PROVE  Encode(s) \in Line
<1> DEFINE parts == [n \in DOMAIN s |-> IF s[n] = 32 THEN <<32>> ELSE Glyph[s[n]]]
<1>1. Len(s) \in Nat /\ DOMAIN s = 1..Len(s) /\ \A n \in 1..Len(s) : s[n] \in Byte
  BY SeqTyped DEF Bytestrings
<1>2. <<32>> \in Line
  BY DEF Line
<1>3. \A n \in 1..Len(s) : parts[n] \in Line
  BY <1>1, <1>2, GlyphTyped
<1>4. parts \in [1..Len(s) -> Line]
  BY <1>1, <1>3
<1> HIDE DEF parts
<1>5. FlattenSeq(parts) \in Line
  BY <1>1, <1>4, Flat DEF Line
<1> QED BY <1>5 DEF Encode, parts

\* A line put together from a part for each element.
LEMMA PartsTyped ==
  ASSUME NEW N \in Nat, NEW parts, DOMAIN parts = 1..N, parts = [n \in 1..N |-> parts[n]],
         \A n \in 1..N : parts[n] \in Line
  PROVE  FlattenSeq(parts) \in Line
<1>1. parts \in [1..N -> Line]
  OBVIOUS
<1> QED BY <1>1, Flat DEF Line

LEMMA HexDigitTyped ==
  ASSUME NEW n \in 1..16
  PROVE  HexDigit[n] \in Nat
<1>1. HexDigit \in [1..16 -> Nat]
  BY DEF HexDigit
<1> QED BY <1>1

LEMMA HexTyped ==
  ASSUME NEW s \in Bytestrings
  PROVE  Hex(s) \in Line
<1> DEFINE parts == [n \in DOMAIN s |-> <<HexDigit[s[n] \div 16 + 1], HexDigit[(s[n] % 16) + 1]>>]
<1>1. Len(s) \in Nat /\ DOMAIN s = 1..Len(s) /\ \A n \in 1..Len(s) : s[n] \in Byte
  BY SeqTyped DEF Bytestrings
<1>2. ASSUME NEW n \in 1..Len(s) PROVE parts[n] \in Line
  <2>1. PICK b \in 0..255 : b = s[n]
    BY <1>1 DEF Byte
  <2>2. b \div 16 + 1 \in 1..16 /\ (b % 16) + 1 \in 1..16
    OBVIOUS
  <2>3. PICK x \in Nat : x = HexDigit[b \div 16 + 1]
    BY <2>2, HexDigitTyped
  <2>4. PICK y \in Nat : y = HexDigit[(b % 16) + 1]
    BY <2>2, HexDigitTyped
  <2>5. parts[n] = <<x, y>>
    BY <1>1, <2>1, <2>3, <2>4
  <2>6. <<x, y>> \in Line
    BY DEF Line
  <2> QED BY <2>5, <2>6
<1>3. DOMAIN parts = 1..Len(s) /\ parts = [n \in 1..Len(s) |-> parts[n]]
  BY <1>1
<1> HIDE DEF parts
<1>4. FlattenSeq(parts) \in Line
  BY <1>1, <1>2, <1>3, PartsTyped
<1> QED BY <1>4, Zenon DEF Hex, parts

LEMMA EscapeTyped ==
  ASSUME NEW c \in Nat
  PROVE  Escape(c) \in Line
<1>1. CASE c \in {Quote, Backslash}
  <2>1. Escape(c) = <<Backslash, c>>
    BY <1>1 DEF Escape
  <2> QED BY <2>1 DEF Line, Backslash
<1>2. CASE c \notin {Quote, Backslash} /\ c < 32
  <2>1. c \div 16 + 1 \in 1..16 /\ (c % 16) + 1 \in 1..16
    BY <1>2
  <2>2. PICK x \in Nat : x = HexDigit[c \div 16 + 1]
    BY <2>1, HexDigitTyped
  <2>3. PICK y \in Nat : y = HexDigit[(c % 16) + 1]
    BY <2>1, HexDigitTyped
  <2>4. Escape(c) = <<Backslash, 117, 48, 48, x, y>>
    BY <1>2, <2>2, <2>3 DEF Escape
  <2> QED BY <2>4 DEF Line, Backslash
<1>3. CASE c \notin {Quote, Backslash} /\ ~(c < 32)
  <2>1. Escape(c) = <<c>>
    BY <1>3 DEF Escape
  <2> QED BY <2>1 DEF Line
<1> QED BY <1>1, <1>2, <1>3

LEMMA JsonTyped ==
  ASSUME NEW s \in Line
  PROVE  JsonString(s) \in Line
<1> DEFINE parts == [n \in DOMAIN s |-> Escape(s[n])]
<1>1. Len(s) \in Nat /\ DOMAIN s = 1..Len(s) /\ \A n \in 1..Len(s) : s[n] \in Nat
  BY SeqTyped DEF Line
<1>2. DOMAIN parts = 1..Len(s) /\ parts = [n \in 1..Len(s) |-> parts[n]]
  BY <1>1
<1>3. \A n \in 1..Len(s) : parts[n] \in Line
  BY <1>1, EscapeTyped
<1>4. JsonString(s) = <<Quote>> \o FlattenSeq(parts) \o <<Quote>>
  BY Zenon DEF JsonString
<1> HIDE DEF parts
<1>5. FlattenSeq(parts) \in Line
  BY <1>1, <1>2, <1>3, PartsTyped
<1>6. <<Quote>> \in Line
  BY DEF Quote, Line
<1> QED BY <1>4, <1>5, <1>6, LineParts

LEMMA Utf8OrPbTyped ==
  ASSUME NEW key \in Line, NEW keyPb \in Line, NEW s \in Bytestrings
  PROVE  Utf8OrPb(key, keyPb, s).key \in Line /\ Utf8OrPb(key, keyPb, s).text \in Line
<1>1. JsonString(s) \in Line /\ JsonString(Encode(s)) \in Line
  BY JsonTyped, EncodeTyped, BytesAreLines
<1> QED BY <1>1 DEF Utf8OrPb

LEMMA FieldTyped ==
  ASSUME NEW key \in Line, NEW s \in Bytestrings
  PROVE  Field(key, s) \in Line
<1>1. PICK f : f = Utf8OrPb(key, PbKey(key), s)
  OBVIOUS
<1>2. <<95, 112, 98>> \in Line /\ <<Quote>> \in Line /\ <<58>> \in Line
  BY DEF Line, Quote
<1>3. PbKey(key) \in Line
  BY <1>2, LineParts DEF PbKey
<1>4. f.key \in Line /\ f.text \in Line
  BY <1>1, <1>3, Utf8OrPbTyped
<1>5. Field(key, s) = <<Quote>> \o f.key \o <<Quote>> \o <<58>> \o f.text
  BY <1>1, Zenon DEF Field, ColonByte
<1> QED BY <1>2, <1>4, <1>5, LineParts

LEMMA BracedTyped ==
  ASSUME NEW s \in Line
  PROVE  Braced(s) \in Line
<1>1. <<123>> \in Line /\ <<125>> \in Line
  BY DEF Line
<1> QED BY <1>1, LineParts DEF Braced

LEMMA JoinedTyped ==
  ASSUME NEW N \in Nat, NEW parts, DOMAIN parts = 1..N, \A n \in 1..N : parts[n] \in Line,
         NEW sep \in Line
  PROVE  Joined(parts, sep) \in Line
<1> DEFINE pieces == [n \in DOMAIN parts |-> (IF n = 1 THEN <<>> ELSE sep) \o parts[n]]
<1>1. \A n \in 1..N : pieces[n] \in Line
  <2> TAKE n \in 1..N
  <2>1. (IF n = 1 THEN <<>> ELSE sep) \in Line
    BY LineParts
  <2> QED BY <2>1, LineParts
<1>2. DOMAIN pieces = 1..N /\ pieces = [n \in 1..N |-> pieces[n]]
  OBVIOUS
<1> HIDE DEF pieces
<1>3. FlattenSeq(pieces) \in Line
  BY <1>1, <1>2, PartsTyped
<1> QED BY <1>3, Zenon DEF Joined, pieces

\* The attributes that are read.
Attribute == [name : Bytestrings, value : Bytestrings]

LEMMA ThoseTyped ==
  ASSUME NEW read \in Seq(Attribute), NEW utf8 \in BOOLEAN
  PROVE  Those(read, utf8) \in Seq(Attribute)
<1> DEFINE parts == [n \in DOMAIN read |-> IF InSection(read[n].name, utf8) THEN <<read[n]>> ELSE <<>>]
<1>1. Len(read) \in Nat /\ DOMAIN read = 1..Len(read) /\ \A n \in 1..Len(read) : read[n] \in Attribute
  BY SeqTyped
<1>2. \A e \in Attribute : <<e>> \in Seq(Attribute)
  OBVIOUS
<1>3. parts \in [1..Len(read) -> Seq(Attribute)]
  <2>1. \A n \in 1..Len(read) : parts[n] \in Seq(Attribute)
    BY <1>1, <1>2
  <2> QED BY <1>1, <2>1
<1> HIDE DEF parts
<1>4. FlattenSeq(parts) \in Seq(Attribute)
  BY <1>1, <1>3, Flat
<1> QED BY <1>4, Zenon DEF Those, parts

LEMMA LabelTyped ==
  /\ ToSet(Column) = {"path", "name", "type", "value"}
  /\ \A c \in ToSet(Column) : Label[c] \in Line
<1>1. ToSet(Column) = {"path", "name", "type", "value"}
  BY DEF Column, ToSet
<1>2. \A c \in {"path", "name", "type", "value"} : Label[c] \in Line
  BY <1>1 DEF Label, Line
<1> QED BY <1>1, <1>2

LEMMA SectionTyped ==
  ASSUME NEW read \in Seq(Attribute), NEW utf8 \in BOOLEAN
  PROVE  Section(read, utf8) \in Line
<1> DEFINE in == Those(read, utf8)
           pair(r) == JsonString(IF utf8 THEN r.name ELSE Encode(r.name)) \o ColonByte
                      \o JsonString(Encode(r.value))
           pairs == [n \in DOMAIN in |-> pair(in[n])]
<1>1. in \in Seq(Attribute)
  BY ThoseTyped
<1> HIDE DEF in
<1>2. Len(in) \in Nat /\ DOMAIN in = 1..Len(in) /\ \A n \in 1..Len(in) : in[n] \in Attribute
  BY <1>1, SeqTyped
<1>3. <<58>> \in Line /\ <<Comma, Quote>> \in Line /\ <<Quote>> \in Line /\ <<Comma>> \in Line
      /\ <<>> \in Line
  BY DEF Line, Comma, Quote
<1>4. ASSUME NEW r \in Attribute PROVE pair(r) \in Line
  <2>1. r.name \in Bytestrings /\ r.value \in Bytestrings
    BY DEF Attribute
  <2>2. r.name \in Line /\ Encode(r.name) \in Line /\ Encode(r.value) \in Line
    BY <2>1, EncodeTyped, BytesAreLines
  <2>3. (IF utf8 THEN r.name ELSE Encode(r.name)) \in Line
    BY <2>2
  <2>4. JsonString(IF utf8 THEN r.name ELSE Encode(r.name)) \in Line /\ JsonString(Encode(r.value)) \in Line
    BY <2>2, <2>3, JsonTyped
  <2> QED BY <1>3, <2>4, LineParts DEF ColonByte
<1>5. \A n \in 1..Len(in) : pairs[n] \in Line
  BY <1>2, <1>4
<1>6. DOMAIN pairs = 1..Len(in)
  BY <1>2
<1>8. Section(read, utf8) =
        IF in = <<>> THEN <<>>
        ELSE <<Comma, Quote>> \o (IF utf8 THEN XattrsKey ELSE PbKey(XattrsKey)) \o <<Quote>> \o <<58>>
             \o Braced(Joined(pairs, <<Comma>>))
  BY Zenon DEF Section, in, ColonByte
<1> HIDE DEF pairs
<1>7. Joined(pairs, <<Comma>>) \in Line
  BY <1>2, <1>3, <1>5, <1>6, JoinedTyped
<1>9. XattrsKey \in Line /\ PbKey(XattrsKey) \in Line
  <2>1. XattrsKey \in Line /\ <<95, 112, 98>> \in Line
    BY DEF XattrsKey, Line
  <2> QED BY <2>1, LineParts DEF PbKey
<1>10. (IF utf8 THEN XattrsKey ELSE PbKey(XattrsKey)) \in Line
  BY <1>9
<1>11. Braced(Joined(pairs, <<Comma>>)) \in Line
  BY <1>7, BracedTyped
<1> QED BY <1>3, <1>8, <1>10, <1>11, LineParts

LEMMA JsonFileTyped ==
  ASSUME NEW path \in Bytestrings, NEW read \in Seq(Attribute)
  PROVE  JsonFile(path, read) \in Line
<1>1. Field(PathKey, path) \in Line
  BY FieldTyped, LabelTyped DEF PathKey
<1>2. Section(read, TRUE) \in Line /\ Section(read, FALSE) \in Line
  BY SectionTyped
<1>3. <<LineFeed>> \in Line /\ <<>> \in Line
  BY DEF LineFeed, Line
<1>4. Field(PathKey, path) \o Section(read, TRUE) \o Section(read, FALSE) \in Line
  BY <1>1, <1>2, LineParts
<1> QED BY <1>3, <1>4, LineParts, BracedTyped DEF JsonFile

LEMMA JsonEntryTyped ==
  ASSUME NEW set \in OptionSets, NEW first \in BOOLEAN, NEW path \in Bytestrings, NEW name \in Bytestrings
  PROVE  JsonEntry(set, first, path, name) \in Line
<1>1. Field(PathKey, path) \in Line /\ Field(NameKey, name) \in Line /\ JsonString(name) \in Line
  BY FieldTyped, LabelTyped, JsonTyped, BytesAreLines DEF PathKey, NameKey
<1>2. <<Comma>> \in Line /\ <<>> \in Line
  BY DEF Comma, Line
<1>3. Braced(Field(PathKey, path) \o <<Comma>> \o Field(NameKey, name)) \in Line
  BY <1>1, <1>2, LineParts, BracedTyped
<1> QED BY <1>1, <1>2, <1>3, LineParts DEF JsonEntry

-----------------------------------------------------------------------------
(* Cells                                                                   *)

LEMMA GreaterOf ==
  ASSUME NEW m \in Int, NEW n \in Int
  PROVE  Max({m, n}) = IF m <= n THEN n ELSE m
BY DEF Max

LEMMA RepeatTyped ==
  ASSUME NEW b \in Nat, NEW n \in Int
  PROVE  Repeat(b, n) \in Line /\ Len(Repeat(b, n)) = IF n < 0 THEN 0 ELSE n
<1>1. PICK m \in Nat : m = Max({0, n}) /\ m = IF n < 0 THEN 0 ELSE n
  BY GreaterOf
<1>2. [k_ \in 1..m |-> b] \in Line /\ Len([k_ \in 1..m |-> b]) = m
  BY DEF Line
<1> QED BY <1>1, <1>2 DEF Repeat

DigitsAt(d, m) == IF m < 10 THEN <<48 + m>> ELSE d[m \div 10] \o <<48 + (m % 10)>>

Decimals(N) == {d \in [0..N -> Seq(48..57)] : \A m \in 0..N : d[m] = DigitsAt(d, m)}

\* The digits of m need those of smaller numbers only.
LEMMA DigitsLocal ==
  ASSUME NEW m \in Nat, NEW d, NEW e, \A l \in 0..(m - 1) : d[l] = e[l]
  PROVE  DigitsAt(d, m) = DigitsAt(e, m)
<1>1. ~(m < 10) => m \div 10 \in 0..(m - 1)
  OBVIOUS
<1>2. ~(m < 10) => d[m \div 10] = e[m \div 10]
  BY <1>1
<1> QED BY <1>2, Zenon DEF DigitsAt

LEMMA DigitsTyped ==
  ASSUME NEW m \in Nat, NEW d, \A l \in 0..(m - 1) : d[l] \in Seq(48..57)
  PROVE  DigitsAt(d, m) \in Seq(48..57)
<1>1. CASE m < 10
  <2>1. <<48 + m>> \in Seq(48..57)
    BY <1>1
  <2> QED BY <1>1, <2>1, Zenon DEF DigitsAt
<1>2. CASE ~(m < 10)
  <2>1. m \div 10 \in 0..(m - 1) /\ 48 + (m % 10) \in 48..57
    BY <1>2
  <2>2. PICK b : b = 48 + (m % 10)
    OBVIOUS
  <2>3. d[m \div 10] \in Seq(48..57)
    BY <2>1
  <2>4. <<b>> \in Seq(48..57)
    BY <2>1, <2>2
  <2>5. d[m \div 10] \o <<b>> \in Seq(48..57)
    BY <2>3, <2>4, ConcatProperties
  <2> QED BY <1>2, <2>2, <2>5, Zenon DEF DigitsAt
<1> QED BY <1>1, <1>2

LEMMA DecimalsExist ==
  ASSUME NEW N \in Nat
  PROVE  Decimals(N) # {}
<1> DEFINE T == {n \in Nat : Decimals(n) # {}}
<1>1. 0 \in T
  <2>1. PICK d : d = [m \in 0..0 |-> <<48>>]
    OBVIOUS
  <2>2. d \in [0..0 -> Seq(48..57)] /\ \A m \in 0..0 : m = 0 /\ d[m] = <<48>>
    BY <2>1
  <2>3. 0 < 10 /\ 48 + 0 = 48
    OBVIOUS
  <2>4. DigitsAt(d, 0) = <<48>>
    BY <2>3, Zenon DEF DigitsAt
  <2>5. \A m \in 0..0 : d[m] = DigitsAt(d, m)
    BY <2>2, <2>4
  <2>6. d \in Decimals(0)
    BY <2>2, <2>5 DEF Decimals
  <2> QED BY <2>6
<1>2. ASSUME NEW n \in 1..N, n - 1 \in T PROVE n \in T
  <2>1. PICK d \in Decimals(n - 1) : TRUE
    BY <1>2
  <2>2. d \in [0..(n - 1) -> Seq(48..57)] /\ \A m \in 0..(n - 1) : d[m] = DigitsAt(d, m)
    BY DEF Decimals
  <2>3. DigitsAt(d, n) \in Seq(48..57)
    BY <2>2, DigitsTyped
  <2>4. PICK e : e = [m \in 0..n |-> IF m = n THEN DigitsAt(d, n) ELSE d[m]]
    OBVIOUS
  <2>5. \A m \in 0..n : m = n \/ m \in 0..(n - 1)
    OBVIOUS
  <2>6. e \in [0..n -> Seq(48..57)]
    BY <2>2, <2>3, <2>4, <2>5
  <2>7. ASSUME NEW m \in 0..n PROVE e[m] = DigitsAt(e, m)
    <3>1. \A l \in 0..(m - 1) : e[l] = d[l]
      BY <2>4
    <3>2. DigitsAt(e, m) = DigitsAt(d, m)
      BY <3>1, DigitsLocal
    <3>3. e[m] = DigitsAt(d, m)
      BY <2>2, <2>4, <2>5
    <3> QED BY <3>2, <3>3
  <2>8. e \in Decimals(n)
    BY <2>6, <2>7 DEF Decimals
  <2> QED BY <2>8
<1> HIDE DEF T
<1>3. \A n \in 0..N : n \in T
  BY <1>1, <1>2, UpTo
<1>4. N \in 0..N
  OBVIOUS
<1> QED BY <1>3, <1>4 DEF T

\* A number is written in digits.
LEMMA DecimalDigits ==
  ASSUME NEW n \in Nat
  PROVE  Decimal(n) \in Seq(48..57)
<1> DEFINE Is(d) == d = [m \in 0..n |-> DigitsAt(d, m)]
           digits == CHOOSE d : Is(d)
<1>1. Decimal(n) = digits[n]
  BY Zenon DEF Decimal, DigitsAt
<1>2. PICK e \in Decimals(n) : TRUE
  BY DecimalsExist
<1>3. e \in [0..n -> Seq(48..57)] /\ \A m \in 0..n : e[m] = DigitsAt(e, m)
  BY DEF Decimals
<1>4. e = [m \in 0..n |-> DigitsAt(e, m)]
  BY <1>3
<1>5. Is(digits)
  BY <1>4, Zenon
<1> HIDE DEF digits
<1>6. \A m \in 0..n : digits[m] = DigitsAt(digits, m)
  BY <1>5
<1> HIDE DEF Is
<1> DEFINE T == {m \in 0..n : \A l \in 0..m : digits[l] = e[l]}
<1>7. 0 \in T
  <2>1. DigitsAt(digits, 0) = DigitsAt(e, 0)
    BY DigitsLocal
  <2> QED BY <1>3, <1>6, <2>1
<1>8. ASSUME NEW m \in 1..n, m - 1 \in T PROVE m \in T
  <2>1. \A l \in 0..(m - 1) : digits[l] = e[l]
    BY <1>8
  <2>2. DigitsAt(digits, m) = DigitsAt(e, m)
    BY <2>1, DigitsLocal
  <2>3. digits[m] = e[m]
    BY <1>3, <1>6, <2>2
  <2>4. \A l \in 0..m : l = m \/ l \in 0..(m - 1)
    OBVIOUS
  <2> QED BY <2>1, <2>3, <2>4
<1> HIDE DEF T
<1>9. n \in T
  <2>1. \A m \in 0..n : m \in T
    BY <1>7, <1>8, UpTo
  <2> QED BY <2>1
<1>10. digits[n] = e[n] /\ e[n] \in Seq(48..57)
  BY <1>3, <1>9 DEF T
<1> QED BY <1>1, <1>10

LEMMA DecimalTyped ==
  ASSUME NEW n \in Nat
  PROVE  Decimal(n) \in Line
<1>1. 48..57 \subseteq Nat
  OBVIOUS
<1> QED BY <1>1, DecimalDigits, SeqMonotonic DEF Line

LEMMA StartsTyped ==
  ASSUME NEW s \in Line
  PROVE  /\ Starts(s) \subseteq 1..Len(s) /\ IsFiniteSet(Starts(s)) /\ CountCodePoints(s) \in Nat
         /\ \A T \in SUBSET Starts(s) : IsFiniteSet(T) /\ Cardinality(T) \in Nat
<1>1. Len(s) \in Nat /\ DOMAIN s = 1..Len(s)
  BY SeqTyped DEF Line
<1>2. Starts(s) \subseteq 1..Len(s)
  BY <1>1 DEF Starts
<1>3. IsFiniteSet(1..Len(s))
  BY <1>1, FS_Interval
<1>4. \A T \in SUBSET Starts(s) : IsFiniteSet(T) /\ Cardinality(T) \in Nat
  BY <1>2, <1>3, FS_Subset, FS_CardinalityType
<1> QED BY <1>2, <1>4 DEF CountCodePoints

LEMMA MinOfSome ==
  ASSUME NEW T, T \subseteq Nat, T # {}
  PROVE  Min(T) \in T /\ \A y \in T : Min(T) <= y
<1>1. PICK m \in T : \A y \in Nat : y < m => y \notin T
  BY LeastOf
<1>2. \A y \in T : m <= y
  BY <1>1
<1>3. Min(T) = CHOOSE x \in T : \A y \in T : x <= y
  BY DEF Min
<1> QED BY <1>2, <1>3

LEMMA PrefixTyped ==
  ASSUME NEW s \in Line, NEW n
  PROVE  PrefixBytes(s, n) \in 0..Len(s)
<1> DEFINE after == {x \in Starts(s) : Cardinality({y \in Starts(s) : y < x}) = n}
<1>1. Len(s) \in Nat /\ after \subseteq 1..Len(s)
  BY StartsTyped, SeqTyped DEF Line
<1>2. PrefixBytes(s, n) = IF after = {} THEN Len(s) ELSE Min(after) - 1
  BY Zenon DEF PrefixBytes
<1> HIDE DEF after
<1>3. after # {} => Min(after) \in 1..Len(s)
  <2>1. after \subseteq Nat
    BY <1>1
  <2> QED BY <1>1, <2>1, MinOfSome
<1> QED BY <1>1, <1>2, <1>3

LEMMA SuffixTyped ==
  ASSUME NEW s \in Line, NEW n
  PROVE  SuffixStart(s, n) \in 1..(Len(s) + 1)
<1> DEFINE at == {x \in Starts(s) : Cardinality({y \in Starts(s) : y >= x}) = n}
<1>1. Len(s) \in Nat /\ at \subseteq 1..Len(s)
  BY StartsTyped, SeqTyped DEF Line
<1>2. SuffixStart(s, n) = IF at = {} THEN 1 ELSE Min(at)
  BY Zenon DEF SuffixStart
<1> HIDE DEF at
<1>3. at # {} => Min(at) \in 1..Len(s)
  <2>1. at \subseteq Nat
    BY <1>1
  <2> QED BY <1>1, <2>1, MinOfSome
<1> QED BY <1>1, <1>2, <1>3

LEMMA PieceTyped ==
  ASSUME NEW s \in Line, NEW a \in 1..(Len(s) + 1), NEW b \in 0..Len(s)
  PROVE  SubSeq(s, a, b) \in Line
BY DEF Line

LEMMA EllipsisTyped == Ellipsis \in Line /\ Divides \in Line
BY Utf8Typed DEF Ellipsis, Divides

LEMMA FitTyped ==
  ASSUME NEW s \in Line, NEW width \in Nat, NEW keepEnd \in BOOLEAN
  PROVE  FitCell(s, width, keepEnd) \in Line
<1>1. Len(s) \in Nat /\ Len(s) \in 0..Len(s) /\ 1 \in 1..(Len(s) + 1)
  BY SeqTyped DEF Line
<1>2. PICK n : n = Kept(width)
  OBVIOUS
<1>3. SubSeq(s, SuffixStart(s, n), Len(s)) \in Line /\ SubSeq(s, 1, PrefixBytes(s, n)) \in Line
  BY <1>1, PieceTyped, PrefixTyped, SuffixTyped
<1>4. Ellipsis \in Line /\ <<>> \in Line
  BY EllipsisTyped, LineParts
<1>5. FitCell(s, width, keepEnd) \in
        {s, Ellipsis \o (IF n = 0 THEN <<>> ELSE SubSeq(s, SuffixStart(s, n), Len(s))),
         SubSeq(s, 1, PrefixBytes(s, n)) \o Ellipsis}
  BY <1>2, Zenon DEF FitCell
<1>6. (IF n = 0 THEN <<>> ELSE SubSeq(s, SuffixStart(s, n), Len(s))) \in Line
  BY <1>3, <1>4
<1> QED BY <1>3, <1>4, <1>5, <1>6, LineParts

LEMMA EscapeBarsTyped ==
  ASSUME NEW set, NEW s \in Line
  PROVE  EscapeBars(set, s) \in Line
<1> DEFINE parts == [n \in DOMAIN s |-> IF s[n] # Bar THEN <<s[n]>>
                             ELSE IF set.fmt = "Table" THEN Divides ELSE <<Backslash, Bar>>]
<1>1. Len(s) \in Nat /\ DOMAIN s = 1..Len(s) /\ \A n \in 1..Len(s) : s[n] \in Nat
  BY SeqTyped DEF Line
<1>2. Divides \in Line /\ <<Backslash, Bar>> \in Line /\ \A n \in Nat : <<n>> \in Line
  BY EllipsisTyped DEF Line, Backslash, Bar
<1>3. \A n \in 1..Len(s) : parts[n] \in Line
  BY <1>1, <1>2
<1>4. DOMAIN parts = 1..Len(s) /\ parts = [n \in 1..Len(s) |-> parts[n]]
  BY <1>1
<1> HIDE DEF parts
<1>5. FlattenSeq(parts) \in Line
  BY <1>1, <1>3, <1>4, PartsTyped
<1> QED BY <1>5, Zenon DEF EscapeBars, parts

LEMMA CsvTyped ==
  ASSUME NEW s \in Line
  PROVE  CsvField(s) \in Line
<1> DEFINE parts == [n \in DOMAIN s |-> IF s[n] = Quote THEN <<Quote, Quote>> ELSE <<s[n]>>]
<1>1. Len(s) \in Nat /\ DOMAIN s = 1..Len(s) /\ \A n \in 1..Len(s) : s[n] \in Nat
  BY SeqTyped DEF Line
<1>2. <<Quote, Quote>> \in Line /\ <<Quote>> \in Line /\ \A n \in Nat : <<n>> \in Line
  BY DEF Line, Quote
<1>3. \A n \in 1..Len(s) : parts[n] \in Line
  BY <1>1, <1>2
<1>4. DOMAIN parts = 1..Len(s) /\ parts = [n \in 1..Len(s) |-> parts[n]]
  BY <1>1
<1>5. Quoted(s) = FlattenSeq(parts)
  BY Zenon DEF Quoted, DoublesQuotes
<1> HIDE DEF parts
<1>6. Quoted(s) \in Line
  BY <1>1, <1>3, <1>4, <1>5, PartsTyped
<1> QED BY <1>2, <1>6, LineParts DEF CsvField

LEMMA ValueTyped ==
  ASSUME NEW set \in OptionSets, NEW raw \in Bytestrings
  PROVE  RenderValue(set, raw).text \in Line /\ RenderValue(set, raw).type \in {"utf8", "pb", "hex"}
BY HexTyped, EncodeTyped, BytesAreLines DEF RenderValue

\* The columns of a listing, in their order.
LEMMA ColumnsTyped ==
  ASSUME NEW set \in OptionSets
  PROVE  /\ Len(Columns(set)) \in Nat /\ DOMAIN Columns(set) = 1..Len(Columns(set))
         /\ \A n \in 1..Len(Columns(set)) : Columns(set)[n] \in ToSet(Column) /\ Width(set, Columns(set)[n]) \in Nat
<1> DEFINE cols == Columns(set)
<1>0. {"path", "name", "type", "value"} = ToSet(Column)
  BY LabelTyped
<1>1. cols \in Seq(ToSet(Column))
  <2> DEFINE C == {"path", "name", "type", "value"}
  <2>1. /\ <<>> \in Seq(C) /\ <<"path">> \in Seq(C) /\ <<"name">> \in Seq(C)
        /\ <<"type">> \in Seq(C) /\ <<"value">> \in Seq(C)
    OBVIOUS
  <2>2. C = ToSet(Column)
    BY <1>0
  <2> HIDE DEF C
  <2>3. /\ (IF set.recurse THEN <<"path">> ELSE <<>>) \in Seq(C)
        /\ (IF set.values /\ set.utf8 /\ set.fmt # "Csv" THEN <<"type">> ELSE <<>>) \in Seq(C)
        /\ (IF set.values THEN <<"value">> ELSE <<>>) \in Seq(C)
    BY <2>1
  <2>4. cols \in Seq(C)
    BY <2>1, <2>3, Appending DEF Columns
  <2> QED BY <2>2, <2>4
<1> HIDE DEF cols
<1>2. Len(cols) \in Nat /\ DOMAIN cols = 1..Len(cols) /\ \A n \in 1..Len(cols) : cols[n] \in ToSet(Column)
  BY <1>1, SeqTyped
<1>3. ASSUME NEW n \in 1..Len(cols) PROVE Width(set, cols[n]) \in Nat
  <2> DEFINE at == CHOOSE m \in DOMAIN cols : cols[m] = cols[n]
  <2>1. at \in 1..Len(cols)
    BY <1>2
  <2>2. Width(set, cols[n]) = IF at <= Len(set.cols) THEN set.cols[at] ELSE DefaultWidth[cols[n]]
    BY Zenon DEF Width, cols
  <2> HIDE DEF at
  <2>3. Len(set.cols) \in Nat /\ \A m \in 1..Len(set.cols) : set.cols[m] \in 0..WordMax
    BY SeqTyped DEF OptionSets
  <2>4. DefaultWidth[cols[n]] \in Nat
    BY <1>2, CliAssumption
  <2> QED BY <2>1, <2>2, <2>3, <2>4, OptionsAssumption
<1> QED BY <1>2, <1>3 DEF cols

LEMMA CellTyped ==
  ASSUME NEW set, NEW column, Width(set, column) \in Nat, NEW text \in Line
  PROVE  Cell(set, column, text) \in Line
<1>1. AnsiName \in Line /\ AnsiValue \in Line /\ AnsiReset \in Line
  BY DEF AnsiName, AnsiValue, AnsiReset, Line
<1>2. Repeat(Blank, Width(set, column) - CountCodePoints(text)) \in Line
  BY RepeatTyped, StartsTyped DEF Blank
<1>3. (IF column = "name" THEN AnsiName ELSE AnsiValue) \in Line
  BY <1>1
<1>4. (IF Colored(set, column) THEN (IF column = "name" THEN AnsiName ELSE AnsiValue) \o text \o AnsiReset
       ELSE text) \in Line
  BY <1>1, <1>3, LineParts
<1> QED BY <1>2, <1>4, LineParts DEF Cell

\* A row of cells.
RowOf(set, cells) ==
  FlattenSeq([n \in DOMAIN Columns(set) |->
            <<Bar, Blank>> \o Cell(set, Columns(set)[n], cells[n]) \o <<Blank>>])
  \o <<Bar, LineFeed>>

LEMMA RowTyped ==
  ASSUME NEW set \in OptionSets, NEW cells, \A n \in 1..Len(Columns(set)) : cells[n] \in Line
  PROVE  RowOf(set, cells) \in Line
<1> DEFINE parts == [n \in DOMAIN Columns(set) |->
            <<Bar, Blank>> \o Cell(set, Columns(set)[n], cells[n]) \o <<Blank>>]
<1>1. Len(Columns(set)) \in Nat /\ DOMAIN Columns(set) = 1..Len(Columns(set))
  BY ColumnsTyped
<1>2. <<Bar, Blank>> \in Line /\ <<Blank>> \in Line /\ <<Bar, LineFeed>> \in Line
  BY DEF Bar, Blank, LineFeed, Line
<1>3. ASSUME NEW n \in 1..Len(Columns(set)) PROVE parts[n] \in Line
  <2>1. Cell(set, Columns(set)[n], cells[n]) \in Line
    BY ColumnsTyped, CellTyped
  <2> QED BY <1>1, <1>2, <2>1, LineParts
<1>4. DOMAIN parts = 1..Len(Columns(set)) /\ parts = [n \in 1..Len(Columns(set)) |-> parts[n]]
  BY <1>1
<1>5. RowOf(set, cells) = FlattenSeq(parts) \o <<Bar, LineFeed>>
  BY Zenon DEF RowOf
<1> HIDE DEF parts
<1>6. FlattenSeq(parts) \in Line
  BY <1>1, <1>3, <1>4, PartsTyped
<1> QED BY <1>2, <1>5, <1>6, LineParts

LEMMA HeaderRowTyped ==
  ASSUME NEW set \in OptionSets
  PROVE  HeaderRow(set) \in Line
<1> DEFINE cols == Columns(set)
           cells == [n \in DOMAIN cols |-> FitCell(Label[cols[n]], Width(set, cols[n]), FALSE)]
<1>1. DOMAIN cols = 1..Len(cols)
  BY ColumnsTyped
<1>2. \A n \in 1..Len(cols) : cells[n] \in Line
  BY <1>1, ColumnsTyped, LabelTyped, FitTyped
<1>3. HeaderRow(set) = RowOf(set, cells)
  BY DEF HeaderRow, FramedRow, RowOf
<1> HIDE DEF cells
<1> QED BY <1>2, <1>3, RowTyped

LEMMA TableRowTyped ==
  ASSUME NEW set \in OptionSets, NEW path \in Bytestrings, NEW name \in Bytestrings,
         NEW val \in Bytestrings
  PROVE  TableRow(set, path, name, val) \in Line
<1> DEFINE cols == Columns(set)
           cells == [n \in DOMAIN cols |-> EscapeBars(set, CellText(set, cols[n], path, name, val))]
<1>1. DOMAIN cols = 1..Len(cols)
  BY ColumnsTyped
<1>2. \A n \in 1..Len(cols) : cells[n] \in Line
  <2> TAKE n \in 1..Len(cols)
  <2>1. cols[n] \in {"path", "name", "type", "value"} /\ Width(set, cols[n]) \in Nat
    BY ColumnsTyped, LabelTyped
  <2>2. path \in Line /\ Encode(name) \in Line
    BY EncodeTyped, BytesAreLines
  <2>3. RenderValue(set, val).text \in Line /\ TypeName[RenderValue(set, val).type] \in Line
    <3>1. \A t \in {"utf8", "pb", "hex"} : TypeName[t] \in Line
      BY DEF TypeName, Line
    <3> QED BY <3>1, ValueTyped
  <2>4. CellText(set, cols[n], path, name, val) \in Line
    <3> DEFINE w == Width(set, cols[n])
    <3>1. CASE cols[n] = "path"
      <4>1. CellText(set, cols[n], path, name, val) = FitCell(path, w, TRUE)
        BY <3>1 DEF CellText
      <4> QED BY <2>1, <2>2, <4>1, FitTyped
    <3>2. CASE cols[n] = "name"
      <4>1. CellText(set, cols[n], path, name, val) = FitCell(Encode(name), w, FALSE)
        BY <3>2 DEF CellText
      <4> QED BY <2>1, <2>2, <4>1, FitTyped
    <3>3. CASE cols[n] = "type"
      <4>1. CellText(set, cols[n], path, name, val) = FitCell(TypeName[RenderValue(set, val).type], w, FALSE)
        BY <3>3 DEF CellText
      <4> QED BY <2>1, <2>3, <4>1, FitTyped
    <3>4. CASE cols[n] = "value"
      <4>1. CellText(set, cols[n], path, name, val) = FitCell(RenderValue(set, val).text, w, FALSE)
        BY <3>4 DEF CellText
      <4> QED BY <2>1, <2>3, <4>1, FitTyped
    <3> QED BY <2>1, <3>1, <3>2, <3>3, <3>4
  <2> QED BY <1>1, <2>4, EscapeBarsTyped
<1>3. TableRow(set, path, name, val) = RowOf(set, cells)
  BY DEF TableRow, FramedRow, RowOf
<1> HIDE DEF cells
<1> QED BY <1>2, <1>3, RowTyped

LEMMA BorderTyped ==
  ASSUME NEW set \in OptionSets
  PROVE  Border(set) \in Line
<1> DEFINE cols == Columns(set)
           corner == IF set.fmt = "Table" THEN <<43>> ELSE <<Bar>>
           width(c) == IF Width(set, c) # 0 THEN Width(set, c) ELSE Len(Label[c])
           parts == [n \in DOMAIN cols |-> Repeat(45, width(cols[n]) + 2) \o corner]
<1>1. Len(cols) \in Nat /\ DOMAIN cols = 1..Len(cols)
  BY ColumnsTyped
<1>2. corner \in Line /\ <<LineFeed>> \in Line
  BY DEF Bar, LineFeed, Line
<1>3. ASSUME NEW n \in 1..Len(cols) PROVE parts[n] \in Line
  <2>1. Width(set, cols[n]) \in Nat /\ Len(Label[cols[n]]) \in Nat
    BY ColumnsTyped, LabelTyped, LineParts
  <2>2. width(cols[n]) + 2 \in Int
    BY <2>1
  <2> HIDE DEF width, corner
  <2>3. Repeat(45, width(cols[n]) + 2) \in Line
    BY <2>2, RepeatTyped
  <2> QED BY <1>1, <1>2, <2>3, LineParts
<1>4. DOMAIN parts = 1..Len(cols) /\ parts = [n \in 1..Len(cols) |-> parts[n]]
  BY <1>1
<1>5. Border(set) = corner \o FlattenSeq(parts) \o <<LineFeed>>
  BY Zenon DEF Border
<1> HIDE DEF parts, corner
<1>6. FlattenSeq(parts) \in Line
  BY <1>1, <1>3, <1>4, PartsTyped
<1> QED BY <1>2, <1>5, <1>6, LineParts

LEMMA PaintTyped ==
  ASSUME NEW set, NEW text \in Line
  PROVE  Paint(set, AnsiValue, text) \in Line /\ Paint(set, AnsiName, text) \in Line
<1>1. AnsiName \in Line /\ AnsiValue \in Line /\ AnsiReset \in Line
  BY DEF AnsiName, AnsiValue, AnsiReset, Line
<1> QED BY <1>1, LineParts DEF Paint

LEMMA TsvValueTyped ==
  ASSUME NEW set, NEW text \in Line, NEW rawLen \in Nat
  PROVE  TsvValue(set, text, rawLen) \in Line
<1> DEFINE shown == IF set.maxWidth > 0 THEN PrefixBytes(text, set.maxWidth) ELSE Len(text)
<1>1. Len(text) \in Nat
  BY SeqTyped DEF Line
<1>2. shown \in 0..Len(text)
  BY <1>1, PrefixTyped
<1>3. TsvValue(set, text, rawLen) =
        Paint(set, AnsiValue, SubSeq(text, 1, shown))
        \o IF shown = Len(text) THEN <<>>
           ELSE Ellipsis \o <<40>> \o Decimal(rawLen) \o <<32, 98, 121, 116, 101, 115, 41>>
  BY Zenon DEF TsvValue
<1> HIDE DEF shown
<1>4. SubSeq(text, 1, shown) \in Line
  <2>1. 1 \in 1..(Len(text) + 1)
    BY <1>1
  <2> QED BY <1>2, <2>1, PieceTyped
<1>5. <<40>> \in Line /\ <<32, 98, 121, 116, 101, 115, 41>> \in Line
  BY DEF Line
<1>6. Ellipsis \o <<40>> \o Decimal(rawLen) \o <<32, 98, 121, 116, 101, 115, 41>> \in Line
  BY <1>5, EllipsisTyped, DecimalTyped, LineParts
<1>7. (IF shown = Len(text) THEN <<>>
       ELSE Ellipsis \o <<40>> \o Decimal(rawLen) \o <<32, 98, 121, 116, 101, 115, 41>>) \in Line
  BY <1>5, <1>6, LineParts
<1> QED BY <1>3, <1>4, <1>7, PaintTyped, LineParts

LEMMA TsvRowTyped ==
  ASSUME NEW set, NEW path \in Bytestrings, NEW name \in Bytestrings,
         NEW val \in Bytestrings, set \in OptionSets
  PROVE  TsvRow(set, path, name, val) \in Line
<1>1. path \in Line /\ name \in Line /\ val \in Line
  BY BytesAreLines
<1>2. PICK v : v = RenderValue(set, val)
  OBVIOUS
<1>3. v.text \in Line /\ TypeName[v.type] \in Line
  <2>1. \A t \in {"utf8", "pb", "hex"} : TypeName[t] \in Line
    BY DEF TypeName, Line
  <2> QED BY <1>2, <2>1, ValueTyped
<1>4. <<Tab>> \in Line /\ <<LineFeed>> \in Line /\ <<>> \in Line
  BY DEF Tab, LineFeed, Line
<1>5. (IF set.recurse THEN path \o <<Tab>> ELSE <<>>) \in Line
  BY <1>1, <1>4, LineParts
<1>6. (IF "type" \in Present(set) THEN <<Tab>> \o TypeName[v.type] ELSE <<>>) \in Line
  BY <1>3, <1>4, LineParts
<1>7. <<Tab>> \o TsvValue(set, v.text, Len(val)) \in Line
  <2>1. Len(val) \in Nat
    BY <1>1, LineParts
  <2> QED BY <1>3, <1>4, <2>1, TsvValueTyped, LineParts
<1>8. (IF ~set.values THEN <<>>
       ELSE (IF "type" \in Present(set) THEN <<Tab>> \o TypeName[v.type] ELSE <<>>)
            \o <<Tab>> \o TsvValue(set, v.text, Len(val))) \in Line
  <2>1. (IF "type" \in Present(set) THEN <<Tab>> \o TypeName[v.type] ELSE <<>>)
            \o <<Tab>> \o TsvValue(set, v.text, Len(val)) \in Line
    <3>1. TsvValue(set, v.text, Len(val)) \in Line
      <4>1. Len(val) \in Nat
        BY <1>1, LineParts
      <4> QED BY <1>3, <4>1, TsvValueTyped
    <3> QED BY <1>4, <1>6, <3>1, LineParts
  <2> QED BY <1>4, <2>1
<1>9. TsvRow(set, path, name, val) =
        (IF set.recurse THEN path \o <<Tab>> ELSE <<>>) \o Paint(set, AnsiName, name)
        \o (IF ~set.values THEN <<>>
            ELSE (IF "type" \in Present(set) THEN <<Tab>> \o TypeName[v.type] ELSE <<>>)
                 \o <<Tab>> \o TsvValue(set, v.text, Len(val)))
        \o <<LineFeed>>
  BY <1>2, Zenon DEF TsvRow
<1> QED BY <1>1, <1>4, <1>5, <1>8, <1>9, PaintTyped, LineParts

LEMMA CsvHeaderTyped ==
  ASSUME NEW set \in OptionSets
  PROVE  CsvHeader(set) \in Line
<1> DEFINE labels == [n \in DOMAIN Columns(set) |-> Label[Columns(set)[n]]]
<1>1. Len(Columns(set)) \in Nat /\ DOMAIN labels = 1..Len(Columns(set))
  BY ColumnsTyped
<1>2. \A n \in 1..Len(Columns(set)) : labels[n] \in Line
  BY <1>1, ColumnsTyped, LabelTyped
<1>3. CsvHeader(set) = Joined(labels, <<Comma>>) \o <<LineFeed>>
  BY Zenon DEF CsvHeader
<1> HIDE DEF labels
<1>4. <<Comma>> \in Line /\ <<LineFeed>> \in Line
  BY DEF Comma, LineFeed, Line
<1>5. Joined(labels, <<Comma>>) \in Line
  BY <1>1, <1>2, <1>4, JoinedTyped
<1> QED BY <1>3, <1>4, <1>5, LineParts

LEMMA CsvRowTyped ==
  ASSUME NEW set \in OptionSets, NEW path \in Bytestrings, NEW name \in Bytestrings,
         NEW val \in Bytestrings
  PROVE  CsvRow(set, path, name, val) \in Line
<1>1. CsvField(path) \in Line /\ CsvField(Encode(name)) \in Line
      /\ CsvField(RenderValue(set, val).text) \in Line
  BY BytesAreLines, EncodeTyped, ValueTyped, CsvTyped
<1>2. PICK a \in Line, b \in Line, c \in Line :
        a = CsvField(path) /\ b = CsvField(Encode(name)) /\ c = CsvField(RenderValue(set, val).text)
  BY <1>1
<1> DEFINE parts == (IF set.recurse THEN <<a>> ELSE <<>>) \o <<b>> \o (IF set.values THEN <<c>> ELSE <<>>)
<1>3. parts \in Seq(Line)
  <2>1. (IF set.recurse THEN <<a>> ELSE <<>>) \in Seq(Line) /\ <<b>> \in Seq(Line)
        /\ (IF set.values THEN <<c>> ELSE <<>>) \in Seq(Line)
    OBVIOUS
  <2> QED BY <2>1, Appending
<1>4. CsvRow(set, path, name, val) = Joined(parts, <<Comma>>) \o <<LineFeed>>
  BY <1>2, Zenon DEF CsvRow
<1> HIDE DEF parts
<1>5. Len(parts) \in Nat /\ DOMAIN parts = 1..Len(parts) /\ \A n \in 1..Len(parts) : parts[n] \in Line
  BY <1>3, SeqTyped
<1>6. <<Comma>> \in Line /\ <<LineFeed>> \in Line
  BY DEF Comma, LineFeed, Line
<1>7. Joined(parts, <<Comma>>) \in Line
  BY <1>5, <1>6, JoinedTyped
<1> QED BY <1>4, <1>6, <1>7, LineParts

\* Every line a listing prints is one.
Kinds == {"array", "border", "header", "labels", "row", "json"}
Lines == Seq([kind : Kinds, name : Bytestrings, value : Bytestrings, line : Line])

LEMMA RowMade ==
  ASSUME NEW kind \in Kinds, NEW line \in Line
  PROVE  <<Row(kind, line)>> \in Lines
<1>1. Row(kind, line) \in [kind : Kinds, name : Bytestrings, value : Bytestrings, line : Line]
  <2>1. <<>> \in Bytestrings
    BY DEF Bytestrings
  <2> QED BY <2>1 DEF Row
<1> QED BY <1>1 DEF Lines

LEMMA HeaderTyped ==
  ASSUME NEW set \in OptionSets
  PROVE  Header(set) \in Lines
<1>1. <<91>> \in Line
  BY DEF Line
<1>2. /\ <<Row("array", <<91>>)>> \in Lines /\ <<Row("border", Border(set))>> \in Lines
      /\ <<Row("header", HeaderRow(set))>> \in Lines /\ <<Row("labels", CsvHeader(set))>> \in Lines
  <2>1. \A kind \in {"array", "border", "header", "labels"} : kind \in Kinds
    BY DEF Kinds
  <2> QED BY <1>1, <2>1, RowMade, BorderTyped, HeaderRowTyped, CsvHeaderTyped
<1>3. <<>> \in Lines
  BY DEF Lines
<1>4. <<Row("header", HeaderRow(set)), Row("border", Border(set))>> \in Lines
  <2>1. \A a, b : <<a>> \in Lines /\ <<b>> \in Lines => <<a, b>> \in Lines
    BY DEF Lines
  <2> QED BY <1>2, <2>1
<1>5. (IF set.fmt = "Table" THEN <<Row("border", Border(set))>> ELSE <<>>)
      \o <<Row("header", HeaderRow(set)), Row("border", Border(set))>> \in Lines
  <2>1. (IF set.fmt = "Table" THEN <<Row("border", Border(set))>> ELSE <<>>) \in Lines
    BY <1>2, <1>3
  <2> QED BY <1>4, <2>1, Appending DEF Lines
<1> QED BY <1>2, <1>3, <1>5 DEF Header

LEMMA NumberTyped ==
  ASSUME NEW key \in Line, NEW n \in {-1} \cup Nat
  PROVE  NumberLine(key, n) \in Line
<1>1. Number(n) \in Line
  <2>1. <<45>> \in Line
    BY DEF Line
  <2>2. CASE n = -1
    <3>1. Number(n) = <<45>> \o Decimal(1)
      BY <2>2 DEF Number
    <3> QED BY <2>1, <3>1, DecimalTyped, LineParts
  <2>3. CASE n \in Nat
    <3>1. Number(n) = Decimal(n)
      BY <2>3 DEF Number
    <3> QED BY <2>3, <3>1, DecimalTyped
  <2> QED BY <2>2, <2>3
<1>2. <<Quote>> \in Line /\ <<58>> \in Line
  BY DEF Quote, Line
<1>3. <<Quote>> \o key \o <<Quote>> \o <<58>> \o Number(n) \in Line
  BY <1>1, <1>2, LineParts
<1>4. Braced(<<Quote>> \o key \o <<Quote>> \o <<58>> \o Number(n)) \in Line
  BY <1>3, BracedTyped
<1> QED BY <1>1, <1>4, Zenon DEF NumberLine, ColonByte

\* What is listed, once there is something to list.
FileTyped == file.path \in Bytestrings /\ file.attrs \in Seq(Attribute)

LEMMA EntryTyped ==
  ASSUME o \in OptionSets, FileTyped, NEW entry \in Attribute, ~ValueLines(o)
  PROVE  <<Entry(entry)>> \in Lines
<1>1. entry.name \in Bytestrings /\ entry.value \in Bytestrings /\ file.path \in Bytestrings
  BY DEF Attribute, FileTyped
<1>2. EntryLine(entry) \in Line
  <2>1. /\ o.json \in BOOLEAN /\ o.values \in BOOLEAN
        /\ o.fmt \in {"Tsv", "Csv", "Table", "Md"}
    BY DEF OptionSets
  <2>2. CASE o.json
    <3>1. EntryLine(entry) = JsonEntry(o, taken = <<>>, file.path, entry.name)
      BY <2>1, <2>2 DEF EntryLine, NamesArray, ValueLines, Framed
    <3>2. (taken = <<>>) \in BOOLEAN
      OBVIOUS
    <3>3. \A first \in BOOLEAN : JsonEntry(o, first, file.path, entry.name) \in Line
      BY <1>1, JsonEntryTyped
    <3> QED BY <3>1, <3>2, <3>3, Zenon
  <2>3. CASE ~o.json /\ o.fmt = "Tsv"
    <3>1. EntryLine(entry) = TsvRow(o, file.path, entry.name, entry.value)
      BY <2>1, <2>3 DEF EntryLine, NamesArray, ValueLines, Framed
    <3> QED BY <1>1, <3>1, TsvRowTyped
  <2>4. CASE ~o.json /\ o.fmt = "Csv"
    <3>1. EntryLine(entry) = CsvRow(o, file.path, entry.name, entry.value)
      BY <2>1, <2>4 DEF EntryLine, NamesArray, ValueLines, Framed
    <3> QED BY <1>1, <3>1, CsvRowTyped
  <2>5. CASE ~o.json /\ o.fmt \in {"Table", "Md"}
    <3>1. EntryLine(entry) = TableRow(o, file.path, entry.name, entry.value)
      BY <2>1, <2>5 DEF EntryLine, NamesArray, ValueLines, Framed
    <3> QED BY <1>1, <3>1, TableRowTyped
  <2> QED BY <2>1, <2>2, <2>3, <2>4, <2>5
<1>3. Entry(entry) \in [kind : Kinds, name : Bytestrings, value : Bytestrings, line : Line]
  <2>1. "row" \in Kinds
    BY DEF Kinds
  <2> QED BY <1>1, <1>2, <2>1 DEF Entry
<1> QED BY <1>3 DEF Lines

LEMMA OrderTyped ==
  ASSUME FileTyped
  PROVE  Order \in Seq(Attribute)
<1>1. Those(file.attrs, TRUE) \in Seq(Attribute) /\ Those(file.attrs, FALSE) \in Seq(Attribute)
  BY ThoseTyped DEF FileTyped
<1>2. Those(file.attrs, TRUE) \o Those(file.attrs, FALSE) \in Seq(Attribute)
  BY <1>1, Appending
<1> QED BY <1>2 DEF Order, FileTyped

-----------------------------------------------------------------------------
(* Ends of lines                                                           *)

LineEnds(text) == [n \in DOMAIN text |-> IF text[n] = LineFeed THEN <<Return, LineFeed>> ELSE <<text[n]>>]

LEMMA LineEndsTyped ==
  ASSUME NEW text \in Line
  PROVE  LineEnds(text) \in Seq(Line) /\ Len(LineEnds(text)) = Len(text) /\ Crlf(text) = FlattenSeq(LineEnds(text))
<1>1. Len(text) \in Nat /\ DOMAIN text = 1..Len(text) /\ \A n \in 1..Len(text) : text[n] \in Nat
  BY SeqTyped DEF Line
<1>2. \A n \in Nat : <<n>> \in Line
  BY DEF Line
<1>3. <<Return, LineFeed>> \in Line
  BY DEF Return, LineFeed, Line
<1>4. LineEnds(text) \in [1..Len(text) -> Line]
  BY <1>1, <1>2, <1>3 DEF LineEnds
<1>5. Crlf(text) = FlattenSeq(LineEnds(text))
  BY Zenon DEF Crlf, CrlfEnds, LineEnds
<1> QED BY <1>1, <1>4, <1>5, ListOf

LEMMA CrlfTyped ==
  ASSUME NEW text \in Line
  PROVE  Crlf(text) \in Line /\ Translated(text) \in Line
<1>1. Crlf(text) \in Line
  BY LineEndsTyped, FlattenTyped DEF Line
<1> QED BY <1>1 DEF Translated

\* What is written in pieces is translated piece by piece.
LEMMA CrlfJoins ==
  ASSUME NEW a \in Line, NEW b \in Line
  PROVE  /\ Crlf(a \o b) = Crlf(a) \o Crlf(b)
         /\ Translated(a \o b) = Translated(a) \o Translated(b)
<1>1. LineEnds(a \o b) = LineEnds(a) \o LineEnds(b)
  <2>1. /\ Len(a) \in Nat /\ DOMAIN a = 1..Len(a) /\ Len(b) \in Nat /\ DOMAIN b = 1..Len(b)
        /\ a \o b \in Line /\ Len(a \o b) = Len(a) + Len(b)
        /\ DOMAIN (a \o b) = 1..(Len(a) + Len(b))
    BY DEF Line
  <2>2. PICK p \in Seq(Line) : p = LineEnds(a) /\ Len(p) = Len(a)
    BY LineEndsTyped
  <2>3. PICK q \in Seq(Line) : q = LineEnds(b) /\ Len(q) = Len(b)
    BY LineEndsTyped
  <2>4. PICK r \in Seq(Line) : r = LineEnds(a \o b) /\ Len(r) = Len(a) + Len(b)
    BY <2>1, LineEndsTyped
  <2>5. p \o q \in Seq(Line) /\ Len(p \o q) = Len(a) + Len(b)
    <3>1. p \o q \in Seq(Line) /\ Len(p \o q) = Len(p) + Len(q)
      BY <2>2, <2>3, ConcatProperties
    <3> QED BY <2>2, <2>3, <3>1
  <2>6. ASSUME NEW n \in 1..(Len(a) + Len(b)) PROVE r[n] = (p \o q)[n]
    <3>1. CASE n <= Len(a)
      <4>1. n \in 1..Len(a)
        BY <2>1, <3>1
      <4>2. (a \o b)[n] = a[n]
        BY <2>1, <3>1, ConcatProperties DEF Line
      <4>3. (p \o q)[n] = p[n]
        BY <2>1, <2>2, <2>3, <3>1, ConcatProperties
      <4> QED BY <2>1, <2>2, <2>4, <4>1, <4>2, <4>3 DEF LineEnds
    <3>2. CASE ~(n <= Len(a))
      <4>1. PICK la \in Nat, lb \in Nat : la = Len(a) /\ lb = Len(b)
        <5>1. Len(a) \in Nat /\ Len(b) \in Nat
          BY <2>1
        <5> QED BY <5>1, Zenon
      <4>2. PICK m \in 1..lb : m = n - la /\ n \in 1..(la + lb) /\ n > la
        <5>1. n \in 1..(la + lb) /\ n > la
          BY <3>2, <4>1
        <5> QED BY <5>1
      <4>3. (a \o b)[n] = b[m]
        BY <4>1, <4>2, ConcatProperties DEF Line
      <4>4. (p \o q)[n] = q[m]
        BY <2>2, <2>3, <4>1, <4>2, ConcatProperties
      <4>5. m \in 1..Len(b)
        BY <4>1, <4>2
      <4>6. q[m] = IF b[m] = LineFeed THEN <<Return, LineFeed>> ELSE <<b[m]>>
        BY <2>1, <2>3, <4>5 DEF LineEnds
      <4>7. n \in DOMAIN (a \o b)
        BY <2>1, Zenon
      <4>8. r[n] = IF (a \o b)[n] = LineFeed THEN <<Return, LineFeed>> ELSE <<(a \o b)[n]>>
        BY <2>4, <4>7, Zenon DEF LineEnds
      <4> QED BY <4>3, <4>4, <4>6, <4>8, Zenon
    <3> QED BY <3>1, <3>2
  <2>7. r = p \o q
    BY <2>4, <2>5, <2>6, SeqEqual
  <2> QED BY <2>2, <2>3, <2>4, <2>7
<1>2. a \o b \in Line
  BY LineParts
<1>3. Crlf(a \o b) = Crlf(a) \o Crlf(b)
  <2>1. PICK p \in Seq(Line), q \in Seq(Line) : p = LineEnds(a) /\ q = LineEnds(b)
    BY LineEndsTyped
  <2>2. Crlf(a) = FlattenSeq(p) /\ Crlf(b) = FlattenSeq(q) /\ Crlf(a \o b) = FlattenSeq(p \o q)
    BY <1>1, <1>2, <2>1, LineEndsTyped, Zenon
  <2>3. FlattenSeq(p \o q) = FlattenSeq(p) \o FlattenSeq(q)
    BY FlattenJoins DEF Line
  <2> QED BY <2>2, <2>3, Zenon
<1> QED BY <1>3 DEF Translated

\* One sequence behind another, by its elements.
LEMMA ConcatAt ==
  ASSUME NEW S, NEW a \in Seq(S), NEW b \in Seq(S), NEW la, NEW lb, la = Len(a), lb = Len(b)
  PROVE  /\ la \in Nat /\ lb \in Nat
         /\ a \o b \in Seq(S) /\ Len(a \o b) = la + lb /\ DOMAIN (a \o b) = 1..(la + lb)
         /\ \A n \in 1..(la + lb) : (a \o b)[n] = IF n <= la THEN a[n] ELSE b[n - la]
<1>1. la \in Nat /\ lb \in Nat
  OBVIOUS
<1>2. /\ a \o b \in Seq(S) /\ Len(a \o b) = la + lb
      /\ \A n \in 1..(la + lb) : (a \o b)[n] = IF n <= la THEN a[n] ELSE b[n - la]
  BY ConcatProperties, Zenon
<1>3. DOMAIN (a \o b) = 1..Len(a \o b)
  BY <1>2, LenProperties
<1> QED BY <1>1, <1>2, <1>3

\* What is left of a text on the device when its marks of a line's end go.
Unmarked(dev) == [n \in DOMAIN dev |->
                   IF dev[n] = Return /\ n < Len(dev) /\ dev[n + 1] = LineFeed THEN <<>> ELSE <<dev[n]>>]
Marked(dev) == \A n \in DOMAIN dev : dev[n] = LineFeed => n > 1 /\ dev[n - 1] = Return

LEMMA UnmarkedTyped ==
  ASSUME NEW dev \in Line
  PROVE  Unmarked(dev) \in Seq(Line) /\ Len(Unmarked(dev)) = Len(dev)
<1>1. Len(dev) \in Nat /\ DOMAIN dev = 1..Len(dev) /\ \A n \in 1..Len(dev) : dev[n] \in Nat
  BY SeqTyped DEF Line
<1>2. <<>> \in Line /\ \A n \in Nat : <<n>> \in Line
  BY DEF Line
<1>3. Unmarked(dev) \in [1..Len(dev) -> Line]
  BY <1>1, <1>2 DEF Unmarked
<1> QED BY <1>1, <1>3, ListOf

\* What comes behind without a LF in front leaves what is there as it is.
LEMMA UnmarkedJoins ==
  ASSUME NEW a \in Line, NEW b \in Line, b # <<>>, b[1] # LineFeed
  PROVE  Unmarked(a \o b) = Unmarked(a) \o Unmarked(b)
<1>1. PICK la \in Nat : la = Len(a)
  BY DEF Line
<1>2. PICK lb \in Nat : lb = Len(b) /\ lb > 0
  BY EmptySeq DEF Line
<1>3. PICK c \in Line : c = a \o b
  BY LineParts
<1>4. /\ Len(c) = la + lb /\ DOMAIN c = 1..(la + lb)
      /\ \A n \in 1..(la + lb) : c[n] = IF n <= la THEN a[n] ELSE b[n - la]
  BY <1>1, <1>2, <1>3, ConcatProperties DEF Line
<1>5. PICK p \in Seq(Line) : p = Unmarked(a) /\ Len(p) = la
  BY <1>1, UnmarkedTyped
<1>6. PICK q \in Seq(Line) : q = Unmarked(b) /\ Len(q) = lb
  BY <1>2, UnmarkedTyped
<1>7. PICK r \in Seq(Line) : r = Unmarked(c) /\ Len(r) = la + lb
  BY <1>4, UnmarkedTyped
<1>8. /\ p \o q \in Seq(Line) /\ Len(p \o q) = la + lb
      /\ \A n \in 1..(la + lb) : (p \o q)[n] = IF n <= la THEN p[n] ELSE q[n - la]
  BY <1>5, <1>6, ConcatAt
<1>9. ASSUME NEW n \in 1..(la + lb) PROVE r[n] = (p \o q)[n]
  <2>1. r[n] = IF c[n] = Return /\ n < la + lb /\ c[n + 1] = LineFeed THEN <<>> ELSE <<c[n]>>
    BY <1>4, <1>7 DEF Unmarked
  <2>2. CASE n < la
    <3>1. c[n] = a[n] /\ c[n + 1] = a[n + 1] /\ n < la + lb /\ n \in DOMAIN a
      <4>1. n + 1 \in 1..(la + lb) /\ n <= la /\ n + 1 <= la /\ n < la + lb
        BY <1>2, <2>2
      <4>2. n \in DOMAIN a
        BY <1>1, <4>1 DEF Line
      <4> QED BY <1>4, <4>1, <4>2
    <3>2. p[n] = IF a[n] = Return /\ n < la /\ a[n + 1] = LineFeed THEN <<>> ELSE <<a[n]>>
      BY <1>1, <1>5, <3>1 DEF Unmarked
    <3>3. (p \o q)[n] = p[n]
      BY <1>8, <2>2
    <3> QED BY <2>1, <2>2, <3>1, <3>2, <3>3
  <2>3. CASE n = la
    <3>1. c[n] = a[n] /\ c[n + 1] = b[1] /\ n \in DOMAIN a
      <4>1. n + 1 \in 1..(la + lb) /\ n <= la /\ ~(n + 1 <= la) /\ (n + 1) - la = 1
        BY <1>2, <2>3
      <4>2. n \in DOMAIN a
        BY <1>1, <4>1 DEF Line
      <4>3. c[n] = a[n]
        BY <1>4, <4>1
      <4>4. c[n + 1] = b[(n + 1) - la]
        BY <1>4, <4>1
      <4> QED BY <4>1, <4>2, <4>3, <4>4
    <3>2. p[n] = IF a[n] = Return /\ n < la /\ a[n + 1] = LineFeed THEN <<>> ELSE <<a[n]>>
      BY <1>1, <1>5, <3>1 DEF Unmarked
    <3>3. (p \o q)[n] = p[n]
      BY <1>8, <2>3
    <3> QED BY <2>1, <2>3, <3>1, <3>2, <3>3
  <2>4. CASE n > la
    <3>1. PICK m \in 1..lb : m = n - la
      BY <2>4
    <3>2. c[n] = b[m] /\ (p \o q)[n] = q[m]
      <4>1. ~(n <= la)
        BY <2>4
      <4> QED BY <1>4, <1>8, <3>1, <4>1
    <3>3. m < lb => c[n + 1] = b[m + 1]
      <4>1. m < lb => n + 1 \in 1..(la + lb) /\ ~(n + 1 <= la) /\ (n + 1) - la = m + 1
        BY <3>1, <2>4
      <4> QED BY <1>4, <4>1
    <3>4. n < la + lb <=> m < lb
      BY <3>1
    <3>5. m \in DOMAIN b
      BY <1>2, <3>1 DEF Line
    <3>6. q[m] = IF b[m] = Return /\ m < lb /\ b[m + 1] = LineFeed THEN <<>> ELSE <<b[m]>>
      BY <1>2, <1>6, <3>5 DEF Unmarked
    <3> QED BY <2>1, <3>2, <3>3, <3>4, <3>6
  <2>5. n < la \/ n = la \/ n > la
    OBVIOUS
  <2> QED BY <2>2, <2>3, <2>4, <2>5, Zenon
<1>10. r = p \o q
  BY <1>7, <1>8, <1>9, SeqEqual
<1> QED BY <1>3, <1>5, <1>6, <1>7, <1>10

\* The marks of one byte.
LEMMA MarksOfByte ==
  ASSUME NEW c \in Nat
  PROVE  \E b \in Line : /\ b = Crlf(<<c>>) /\ b # <<>> /\ b[1] # LineFeed
                         /\ b \in {<<c>>, <<Return, LineFeed>>} /\ (c = LineFeed => b # <<c>>)
                         /\ FlattenSeq(Unmarked(b)) = <<c>>
<1>1. <<c>> \in Line /\ <<Return, LineFeed>> \in Line
  BY DEF Line, Return, LineFeed
<1> DEFINE b == IF c = LineFeed THEN <<Return, LineFeed>> ELSE <<c>>
<1>2. LineEnds(<<c>>) = <<b>>
  BY DEF LineEnds
<1>3. b \in Line
  BY <1>1
<1>4. Crlf(<<c>>) = b
  <2> HIDE DEF b
  <2>1. FlattenSeq(<<b>>) = b
    BY <1>3, FlattenOne DEF Line
  <2> QED BY <1>1, <1>2, <2>1, LineEndsTyped, Zenon
<1>5. b # <<>> /\ b[1] # LineFeed /\ b \in {<<c>>, <<Return, LineFeed>>} /\ (c = LineFeed => b # <<c>>)
  BY DEF Return, LineFeed
<1>6. FlattenSeq(Unmarked(b)) = <<c>>
  <2>1. CASE c = LineFeed
    <3>1. Unmarked(<<Return, LineFeed>>) = <<<<>>, <<LineFeed>>>>
      BY DEF Unmarked, Return, LineFeed
    <3>2. <<<<>>>> \in Seq(Seq(Nat)) /\ <<<<LineFeed>>>> \in Seq(Seq(Nat)) /\ <<LineFeed>> \in Seq(Nat)
          /\ <<>> \in Seq(Nat) /\ <<<<>>, <<LineFeed>>>> = <<<<>>>> \o <<<<LineFeed>>>>
      BY DEF LineFeed
    <3>3. FlattenSeq(<<<<>>>> \o <<<<LineFeed>>>>) = FlattenSeq(<<<<>>>>) \o FlattenSeq(<<<<LineFeed>>>>)
      BY <3>2, FlattenJoins
    <3>4. FlattenSeq(<<<<>>>>) = <<>> /\ FlattenSeq(<<<<LineFeed>>>>) = <<LineFeed>>
      BY <3>2, FlattenOne
    <3>5. <<>> \o <<LineFeed>> = <<LineFeed>>
      BY <3>2, EmptyFirst
    <3> QED BY <2>1, <3>1, <3>2, <3>3, <3>4, <3>5, Zenon
  <2>2. CASE c # LineFeed
    <3>1. Unmarked(<<c>>) = <<<<c>>>>
      BY DEF Unmarked
    <3>2. FlattenSeq(<<<<c>>>>) = <<c>>
      BY <1>1, FlattenOne DEF Line
    <3> QED BY <2>2, <3>1, <3>2, Zenon
  <2> QED BY <2>1, <2>2
<1> HIDE DEF b
<1> QED BY <1>3, <1>4, <1>5, <1>6

\* The device can be read back: what was translated is all there.
LEMMA CrlfHolds ==
  ASSUME NEW text \in Line
  PROVE  Marked(Crlf(text)) /\ FlattenSeq(Unmarked(Crlf(text))) = text
<1> DEFINE Good(t) == Marked(Crlf(t)) /\ FlattenSeq(Unmarked(Crlf(t))) = t
           T == {n \in 0..Len(text) : Good(SubSeq(text, 1, n))}
<1>1. Len(text) \in Nat /\ \A n \in 1..Len(text) : text[n] \in Nat
  BY SeqTyped DEF Line
<1>2. Good(<<>>)
  <2>1. LineEnds(<<>>) = <<>> /\ <<>> \in Line
    BY DEF LineEnds, Line
  <2>2. Crlf(<<>>) = <<>>
    BY <2>1, LineEndsTyped, FlattenNone, Zenon
  <2>3. Marked(<<>>) /\ Unmarked(<<>>) = <<>>
    BY DEF Marked, Unmarked
  <2> QED BY <2>2, <2>3, FlattenNone, Zenon
<1>3. ASSUME NEW a \in Line, NEW c \in Nat, Good(a) PROVE Good(a \o <<c>>)
  <2>1. PICK b \in Line : /\ b = Crlf(<<c>>) /\ b # <<>> /\ b[1] # LineFeed
                          /\ b \in {<<c>>, <<Return, LineFeed>>} /\ (c = LineFeed => b # <<c>>)
                          /\ FlattenSeq(Unmarked(b)) = <<c>>
    BY MarksOfByte
  <2>2. PICK d \in Line : d = Crlf(a)
    BY CrlfTyped
  <2>3. Crlf(a \o <<c>>) = d \o b
    <3>1. <<c>> \in Line
      BY DEF Line
    <3> QED BY <2>1, <2>2, <3>1, CrlfJoins
  <2>4. FlattenSeq(Unmarked(d \o b)) = a \o <<c>>
    <3>1. PICK p \in Seq(Line), q \in Seq(Line) : p = Unmarked(d) /\ q = Unmarked(b)
      BY UnmarkedTyped
    <3>2. Unmarked(d \o b) = p \o q
      BY <2>1, <3>1, UnmarkedJoins
    <3>3. FlattenSeq(p \o q) = FlattenSeq(p) \o FlattenSeq(q)
      BY FlattenJoins DEF Line
    <3>4. FlattenSeq(p) = a /\ FlattenSeq(q) = <<c>>
      BY <1>3, <2>1, <2>2, <3>1, Zenon
    <3> QED BY <3>2, <3>3, <3>4, Zenon
  <2>5. Marked(d \o b)
    <3>1. Marked(d)
      BY <1>3, <2>2
    <3>2. Len(d) \in Nat /\ DOMAIN d = 1..Len(d)
      BY SeqTyped DEF Line
    <3>3. Len(b) \in {1, 2} /\ b[1] # LineFeed /\ (Len(b) = 2 => b[1] = Return)
      <4>1. CASE b = <<c>>
        <5>1. Len(b) = 1
          BY <4>1
        <5> QED BY <2>1, <5>1
      <4>2. CASE b = <<Return, LineFeed>>
        <5>1. Len(b) = 2 /\ b[1] = Return
          BY <4>2
        <5> QED BY <2>1, <5>1
      <4> QED BY <2>1, <4>1, <4>2
    <3>5. PICK ld \in Nat : ld = Len(d)
      BY <3>2, Zenon
    <3>6. PICK lb \in {1, 2} : lb = Len(b)
      BY <3>3, Zenon
    <3>7. PICK e : e = d \o b
      OBVIOUS
    <3>8. /\ DOMAIN e = 1..(ld + lb)
          /\ \A n \in 1..(ld + lb) : e[n] = IF n <= ld THEN d[n] ELSE b[n - ld]
      <4>1. d \in Seq(Nat) /\ b \in Seq(Nat)
        BY DEF Line
      <4> QED BY <3>5, <3>6, <3>7, <4>1, ConcatAt
    <3>9. ASSUME NEW n \in DOMAIN e, e[n] = LineFeed PROVE n > 1 /\ e[n - 1] = Return
      <4>1. CASE n <= ld
        <5>0. n \in 1..(ld + lb)
          BY <3>8, <3>9
        <5>1. d[n] = LineFeed /\ n \in DOMAIN d
          BY <3>2, <3>5, <3>6, <3>8, <3>9, <4>1, <5>0
        <5>2. n > 1 /\ d[n - 1] = Return
          BY <3>1, <5>1 DEF Marked
        <5>3. n - 1 \in 1..(ld + lb) /\ n - 1 <= ld
          BY <3>6, <4>1, <5>0, <5>2
        <5> QED BY <3>8, <5>2, <5>3
      <4>2. CASE n = ld + 1
        <5>1. n - ld = 1 /\ ~(n <= ld)
          BY <4>2
        <5>2. e[n] = b[1]
          BY <3>8, <5>1
        <5> QED BY <3>3, <3>9, <5>2
      <4>3. CASE n = ld + 2
        <5>1. n - 1 \in 1..(ld + lb) /\ ~(n - 1 <= ld) /\ (n - 1) - ld = 1 /\ lb = 2 /\ n > 1
          BY <3>8, <4>3
        <5>2. e[n - 1] = b[1]
          BY <3>8, <5>1
        <5> QED BY <3>3, <3>6, <5>1, <5>2
      <4> QED BY <3>8, <4>1, <4>2, <4>3
    <3> QED BY <3>7, <3>9 DEF Marked
  <2> QED BY <2>3, <2>4, <2>5, Zenon
<1> HIDE DEF Good
<1>4. 0 \in T
  <2>1. SubSeq(text, 1, 0) = <<>>
    BY DEF Line
  <2>2. 0 \in 0..Len(text)
    BY <1>1
  <2> QED BY <1>2, <2>1, <2>2, Zenon
<1>5. ASSUME NEW n \in 1..Len(text), n - 1 \in T PROVE n \in T
  <2>1. SubSeq(text, 1, n - 1) \in Line /\ text[n] \in Nat
    BY <1>1 DEF Line
  <2>2. SubSeq(text, 1, n) = SubSeq(text, 1, n - 1) \o <<text[n]>>
    <3>1. 1 \in 1..Len(text) /\ n \in 1..Len(text)
      BY <1>1
    <3> QED BY <3>1, SubSeqRecursiveSecond DEF Line
  <2>3. Good(SubSeq(text, 1, n - 1))
    BY <1>5
  <2>4. Good(SubSeq(text, 1, n))
    BY <1>3, <2>1, <2>2, <2>3
  <2> QED BY <2>4
<1> HIDE DEF T
<1>6. Len(text) \in T
  <2>1. \A n \in 0..Len(text) : n \in T
    BY <1>1, <1>4, <1>5, UpTo
  <2> QED BY <1>1, <2>1
<1>7. SubSeq(text, 1, Len(text)) = text
  BY WholePrefix DEF Line
<1> QED BY <1>6, <1>7 DEF T, Good

LEMMA TranslatedHolds ==
  ASSUME NEW text \in Line, env.windows \in BOOLEAN
  PROVE  Holds(Translated(text), text)
<1>1. CASE ~env.windows
  BY <1>1 DEF Holds, Translated
<1>2. CASE env.windows
  <2>1. Translated(text) = Crlf(text)
    BY <1>2 DEF Translated
  <2>2. Marked(Crlf(text)) /\ text = FlattenSeq(Unmarked(Crlf(text)))
    BY CrlfHolds, Zenon
  <2> QED BY <1>2, <2>1, <2>2, Zenon DEF Holds, Marked, Unmarked
<1> QED BY <1>1, <1>2

-----------------------------------------------------------------------------
(* The buffer                                                              *)

LEMMA LineAssociative ==
  ASSUME NEW a \in Line, NEW b \in Line, NEW c \in Line
  PROVE  (a \o b) \o c = a \o (b \o c)
<1>1. a \in Seq(Nat) /\ b \in Seq(Nat) /\ c \in Seq(Nat)
  BY DEF Line
<1> QED BY <1>1, ConcatAssociative

Outs == [buf : Line, dev : Line]

LEMMA OutTyped ==
  ASSUME NEW buf \in Line, NEW dev \in Line
  PROVE  Out(buf, dev) \in Outs /\ Out(buf, dev).buf = buf /\ Out(buf, dev).dev = dev
BY DEF Out, Outs

\* Nothing is lost so far, or what is in the buffer never leaves it.
Arrives(out, text) ==
  \/ out.dev \o Translated(out.buf) = Translated(text) /\ Len(out.dev) <= room
  \/ Len(out.dev) = room /\ Len(Translated(out.buf)) > 0

\* What a flush makes of it.
LEMMA FlushArrives ==
  ASSUME room \in Nat, NEW out \in Outs, NEW text \in Line
  PROVE  /\ Flushed(out) \in Outs
         /\ Arrives(out, text) /\ Flushes(out)
              => /\ Flushed(out).buf = <<>> /\ Flushed(out).dev = Translated(text)
                 /\ Len(Translated(text)) <= room
         /\ Arrives(out, text) /\ ~Flushes(out)
              => /\ Flushed(out).buf = out.buf /\ Len(Flushed(out).dev) = room
                 /\ Len(Translated(out.buf)) > 0
<1>1. out.buf \in Line /\ out.dev \in Line
  BY DEF Outs
<1>2. PICK d \in Line : d = out.dev
  BY <1>1
<1>3. PICK b \in Line : b = Translated(out.buf)
  BY <1>1, CrlfTyped
<1>4. PICK ld \in Nat, lb \in Nat : ld = Len(d) /\ lb = Len(b)
  <2>1. Len(d) \in Nat /\ Len(b) \in Nat
    BY DEF Line
  <2> QED BY <2>1, Zenon
<1>5. /\ Whole(d, b) => Sent(d, b) = d \o b
      /\ ~Whole(d, b) => Sent(d, b) = SubSeq(d \o b, 1, room)
      /\ Sent(d, b) \in Line
  <2>1. d \in Seq(Nat) /\ b \in Seq(Nat)
    BY DEF Line
  <2> QED BY <2>1, SentWhole DEF Line
<1>6. Flushes(out) <=> ld + lb <= room
  BY <1>2, <1>3, <1>4 DEF Flushes, Whole
<1>7. /\ Flushed(out) \in Outs
      /\ Flushed(out).buf = (IF Flushes(out) THEN <<>> ELSE out.buf)
      /\ Flushed(out).dev = Sent(d, b)
  <2>1. PICK x \in Line : x = IF Flushes(out) THEN <<>> ELSE out.buf
    <3>1. <<>> \in Line
      BY DEF Line
    <3> QED BY <1>1, <3>1
  <2>2. PICK y \in Line : y = Sent(d, b)
    BY <1>5
  <2>3. Flushed(out) = Out(x, y)
    BY <1>2, <1>3, <2>1, <2>2 DEF Flushed
  <2> QED BY <2>1, <2>2, <2>3, OutTyped
<1>8. d \o b \in Line /\ Len(d \o b) = ld + lb
  BY <1>4, ConcatProperties DEF Line
<1>9. ASSUME Arrives(out, text), Flushes(out)
      PROVE  Flushed(out).dev = Translated(text) /\ Len(Translated(text)) <= room
  <2>1. ld + lb <= room /\ Whole(d, b)
    BY <1>4, <1>6, <1>9 DEF Whole
  <2>2. ~(ld = room /\ lb > 0)
    BY <2>1
  <2>3. d \o b = Translated(text)
    BY <1>2, <1>3, <1>4, <1>9, <2>2 DEF Arrives
  <2> QED BY <1>5, <1>7, <1>8, <2>1, <2>3
<1>10. ASSUME Arrives(out, text), ~Flushes(out)
       PROVE  Len(Flushed(out).dev) = room /\ Len(Translated(out.buf)) > 0
  <2>1. ~(ld + lb <= room) /\ ~Whole(d, b)
    BY <1>4, <1>6, <1>10 DEF Whole
  <2>0. Len(out.dev) = ld
    BY <1>2, <1>4
  <2>00. ld <= room \/ ld = room
    BY <1>10, <2>0, Zenon DEF Arrives
  <2>2. ld <= room
    BY <2>00
  <2>3. lb > 0 /\ room <= ld + lb
    BY <2>1, <2>2
  <2>4. Len(SubSeq(d \o b, 1, room)) = room
    <3>1. PICK e \in Line : e = d \o b /\ Len(e) = ld + lb
      BY <1>8, Zenon
    <3>2. Len(SubSeq(e, 1, room)) = room
      BY <2>3, <3>1 DEF Line
    <3> QED BY <3>1, <3>2
  <2> QED BY <1>3, <1>4, <1>5, <1>7, <2>1, <2>3, <2>4
<1> QED BY <1>7, <1>9, <1>10

LEMMA PutTyped ==
  ASSUME room \in Nat, NEW out \in Outs, NEW chunk \in Line
  PROVE  Put(out, chunk) \in Outs
<1>1. PICK f \in Outs : f = Flushed(out)
  <2>1. chunk \in Line
    OBVIOUS
  <2> QED BY <2>1, FlushArrives
<1>2. \A g \in {out, f} : /\ Out(g.buf, Sent(g.dev, Translated(chunk))) \in Outs
                          /\ Out(g.buf \o chunk, g.dev) \in Outs
  <2> TAKE g \in {out, f}
  <2>1. g.buf \in Line /\ g.dev \in Line
    BY <1>1 DEF Outs
  <2>2. Sent(g.dev, Translated(chunk)) \in Line
    <3>1. g.dev \in Seq(Nat) /\ Translated(chunk) \in Seq(Nat)
      BY <2>1, CrlfTyped DEF Line
    <3> QED BY <3>1, SentWhole DEF Line
  <2>3. g.buf \o chunk \in Line
    BY <2>1, LineParts
  <2> QED BY <2>1, <2>2, <2>3, OutTyped
<1> QED BY <1>1, <1>2, Zenon DEF Put

\* A chunk that fits in the buffer is behind what was put before it.
LEMMA PutArrives ==
  ASSUME room \in Nat, BufCap \in Nat, NEW out \in Outs, NEW chunk \in Line, NEW text \in Line,
         Arrives(out, text), Len(chunk) < BufCap
  PROVE  Arrives(Put(out, chunk), text \o chunk)
<1>1. out.buf \in Line /\ out.dev \in Line
  BY DEF Outs
<1>2. Translated(text \o chunk) = Translated(text) \o Translated(chunk)
  BY CrlfJoins
<1>3. Translated(chunk) \in Line /\ Translated(text) \in Line /\ Translated(out.buf) \in Line
  BY <1>1, CrlfTyped
<1>4. ~(Len(chunk) >= BufCap)
  BY DEF Line
<1>5. ASSUME NEW g \in Outs, Put(out, chunk) = Out(g.buf \o chunk, g.dev), Arrives(g, text)
      PROVE  Arrives(Put(out, chunk), text \o chunk)
  <2>1. g.buf \in Line /\ g.dev \in Line
    BY <1>5 DEF Outs
  <2>2. g.buf \o chunk \in Line
    BY <2>1, LineParts
  <2>3. Put(out, chunk).buf = g.buf \o chunk /\ Put(out, chunk).dev = g.dev
    <3>1. PICK x \in Line, y \in Line : x = g.buf \o chunk /\ y = g.dev
      BY <2>1, <2>2, Zenon
    <3>2. Out(x, y).buf = x /\ Out(x, y).dev = y
      BY OutTyped
    <3> QED BY <1>5, <3>1, <3>2, Zenon
  <2>4. Translated(g.buf \o chunk) = Translated(g.buf) \o Translated(chunk)
    BY <2>1, CrlfJoins
  <2>5. PICK d \in Line, b \in Line, c \in Line :
          d = g.dev /\ b = Translated(g.buf) /\ c = Translated(chunk)
    BY <1>3, <2>1, CrlfTyped
  <2>6. CASE d \o b = Translated(text) /\ Len(d) <= room
    <3>1. (d \o b) \o c = d \o (b \o c)
      BY LineAssociative, ZenonT(60)
    <3> QED BY <1>2, <2>3, <2>4, <2>5, <2>6, <3>1 DEF Arrives
  <2>7. CASE Len(d) = room /\ Len(b) > 0
    <3>1. Len(b \o c) = Len(b) + Len(c) /\ Len(b) \in Nat /\ Len(c) \in Nat
      BY ConcatProperties DEF Line
    <3>2. Len(b \o c) > 0
      BY <2>7, <3>1
    <3> QED BY <2>3, <2>4, <2>5, <2>7, <3>2 DEF Arrives
  <2> QED BY <1>5, <2>5, <2>6, <2>7 DEF Arrives
<1>6. CASE ~(Len(out.buf) + Len(chunk) > BufCap)
  <2>1. Put(out, chunk) = Out(out.buf \o chunk, out.dev)
    BY <1>4, <1>6, Zenon DEF Put
  <2> QED BY <1>5, <2>1
<1>7. CASE Len(out.buf) + Len(chunk) > BufCap /\ Flushes(out)
  <2>1. PICK f \in Outs : f = Flushed(out)
    BY FlushArrives
  <2>2. Put(out, chunk) = Out(f.buf \o chunk, f.dev)
    BY <1>4, <1>7, <2>1, Zenon DEF Put
  <2>3. f.buf = <<>> /\ f.dev = Translated(text) /\ Len(Translated(text)) <= room
    BY <1>7, <2>1, FlushArrives
  <2>4. Translated(<<>>) = <<>>
    <3>1. LineEnds(<<>>) = <<>> /\ <<>> \in Line
      BY DEF LineEnds, Line
    <3>2. Crlf(<<>>) = <<>>
      BY <3>1, LineEndsTyped, FlattenNone, Zenon
    <3> QED BY <3>2 DEF Translated
  <2>5. Translated(text) \o <<>> = Translated(text)
    BY <1>3, EmptyFirst DEF Line
  <2>6. Arrives(f, text)
    BY <2>3, <2>4, <2>5 DEF Arrives
  <2> QED BY <1>5, <2>2, <2>6
<1>8. CASE Len(out.buf) + Len(chunk) > BufCap /\ ~Flushes(out)
  <2>1. Put(out, chunk) = Flushed(out)
    BY <1>8, Zenon DEF Put
  <2>2. /\ Flushed(out).buf = out.buf /\ Len(Flushed(out).dev) = room
        /\ Len(Translated(out.buf)) > 0
    BY <1>8, FlushArrives
  <2> QED BY <2>1, <2>2 DEF Arrives
<1> QED BY <1>6, <1>7, <1>8

LEMMA PutRun ==
  ASSUME room \in Nat, NEW base \in Outs, NEW chunks \in Seq(Line)
  PROVE  \E f \in [0..Len(chunks) -> Outs] :
           /\ f[0] = base /\ f[Len(chunks)] = FoldLeft(Put, base, chunks)
           /\ \A n \in 1..Len(chunks) : f[n] = Put(f[n - 1], chunks[n])
<1> DEFINE N == Len(chunks)
           S == Outs
           G == [p \in S \X (1..N) |-> Put(p[1], chunks[p[2]])]
           Is(g) == g = [s \in SUBSET (1..N) |-> IF s = {} THEN base
                           ELSE Put(g[s \ {Max(s)}], chunks[Max(s)])]
           g == CHOOSE g : Is(g)
<1>1. N \in Nat /\ DOMAIN chunks = 1..N /\ \A n \in 1..N : chunks[n] \in Line
  BY SeqTyped
<1>2. FoldLeft(Put, base, chunks) = g[1..N]
  BY <1>1, Zenon DEF FoldLeft, MapThenFoldSet
<1>3. base \in S
  OBVIOUS
<1>4. \A v \in S, n \in 1..N : Put(v, chunks[n]) \in S
  BY <1>1, PutTyped
<1>5. G \in [S \X (1..N) -> S] /\ \A v \in S, n \in 1..N : G[<<v, n>>] = Put(v, chunks[n])
  BY <1>4
<1> HIDE DEF G, S
<1>6. PICK it \in Folds(S, base, N, G) : TRUE
  <2>1. N \in Nat /\ G \in [S \X (1..N) -> S]
    BY <1>1, <1>5
  <2>2. Folds(S, base, N, G) # {}
    BY <1>3, <2>1, FoldExists
  <2> QED BY <2>2
<1>7. Is(it)
  <2>1. it \in [SUBSET (1..N) -> S]
    BY DEF Folds
  <2>2. \A s \in SUBSET (1..N) : s # {} => Max(s) \in 1..N
    BY <1>1, MaxOfSome
  <2>3. \A s \in SUBSET (1..N) : it[s] = IF s = {} THEN base
                           ELSE Put(it[s \ {Max(s)}], chunks[Max(s)])
    BY <1>5, <2>1, <2>2 DEF Folds
  <2> QED BY <2>1, <2>3
<1>8. Is(g)
  BY <1>7, Zenon
<1> HIDE DEF g
<1>9. Folding(S, base, N, G, g)
  BY <1>1, <1>5, <1>8, MaxOfSome DEF Folding
<1> HIDE DEF Is, N
<1>10. PICK f \in Stepwise(S, base, N, G) : f[N] = g[1..N]
  <2>1. N \in Nat /\ G \in [S \X (1..N) -> S]
    BY <1>1, <1>5
  <2>2. Ends(S, base, N, G, g)
    BY <1>3, <1>9, <2>1, FoldEnds
  <2> QED BY <2>2, Zenon DEF Ends
<1>11. /\ f \in [0..N -> S] /\ f[0] = base
       /\ \A n \in 1..N : f[n] = Put(f[n - 1], chunks[n])
  <2>1. f \in [0..N -> S] /\ f[0] = base /\ \A n \in 1..N : f[n] = G[<<f[n - 1], n>>]
    BY DEF Stepwise
  <2>2. \A n \in 1..N : f[n - 1] \in S
    BY <1>1, <2>1
  <2> QED BY <1>5, <2>1, <2>2
<1>12. f \in [0..N -> Outs]
  BY <1>11 DEF S
<1> QED BY <1>2, <1>10, <1>11, <1>12, Zenon DEF N

\* So are all of several, each of which fits.
LEMMA PutsArrive ==
  ASSUME room \in Nat, BufCap \in Nat, NEW base \in Outs, NEW chunks \in Seq(Line), NEW text \in Line
  PROVE  /\ FoldLeft(Put, base, chunks) \in Outs
         /\ text \o FlattenSeq(chunks) \in Line
         /\ Arrives(base, text) /\ (\A n \in DOMAIN chunks : Len(chunks[n]) < BufCap)
              => Arrives(FoldLeft(Put, base, chunks), text \o FlattenSeq(chunks))
<1>1. PICK N \in Nat : N = Len(chunks) /\ DOMAIN chunks = 1..N /\ \A n \in 1..N : chunks[n] \in Line
  BY SeqTyped
<1>2. PICK f \in [0..N -> Outs] : /\ f[0] = base /\ f[N] = FoldLeft(Put, base, chunks)
                                  /\ \A n \in 1..N : f[n] = Put(f[n - 1], chunks[n])
  BY <1>1, PutRun, Zenon
<1>3. PICK h \in Flattening(Nat, N, chunks) : h[N] = FlattenSeq(chunks)
  BY <1>1, FlattenRun DEF Line
<1>4. /\ h \in [0..N -> Line] /\ h[0] = <<>>
      /\ \A n \in 1..N : h[n] = h[n - 1] \o chunks[n]
  BY DEF Flattening, Line
<1>5. N \in 0..N
  OBVIOUS
<1>6. FoldLeft(Put, base, chunks) \in Outs
  <2>1. f[N] \in Outs
    BY <1>5
  <2> QED BY <1>2, <2>1, Zenon
<1>7. text \o FlattenSeq(chunks) \in Line
  <2>1. h[N] \in Line
    BY <1>4, <1>5
  <2> QED BY <1>3, <2>1, LineParts, Zenon
<1>8. ASSUME Arrives(base, text), \A n \in DOMAIN chunks : Len(chunks[n]) < BufCap
      PROVE  Arrives(FoldLeft(Put, base, chunks), text \o FlattenSeq(chunks))
  <2> DEFINE T == {n \in 0..N : Arrives(f[n], text \o h[n])}
  <2>1. 0 \in T
    <3>1. text \o <<>> = text
      BY EmptyFirst DEF Line
    <3>2. Arrives(f[0], text \o h[0])
      BY <1>2, <1>4, <1>8, <3>1, Zenon
    <3>3. 0 \in 0..N
      OBVIOUS
    <3> QED BY <3>2, <3>3, Zenon
  <2>2. ASSUME NEW n \in 1..N, n - 1 \in T PROVE n \in T
    <3>1. n - 1 \in 0..N /\ n \in 0..N
      OBVIOUS
    <3>2. PICK g \in Outs, t \in Line, c \in Line : g = f[n - 1] /\ t = h[n - 1] /\ c = chunks[n]
      <4>1. f[n - 1] \in Outs /\ h[n - 1] \in Line /\ chunks[n] \in Line
        BY <1>1, <1>4, <3>1
      <4> QED BY <4>1, Zenon
    <3>3. Arrives(g, text \o t) /\ Len(c) < BufCap
      BY <1>1, <1>8, <2>2, <3>2
    <3>4. text \o t \in Line
      BY LineParts
    <3>5. Arrives(Put(g, c), (text \o t) \o c)
      BY <3>3, <3>4, PutArrives
    <3>6. (text \o t) \o c = text \o (t \o c)
      BY LineAssociative, ZenonT(60)
    <3>7. f[n] = Put(g, c) /\ h[n] = t \o c
      BY <1>2, <1>4, <3>2
    <3>8. Arrives(f[n], text \o h[n])
      BY <3>5, <3>6, <3>7, Zenon
    <3> QED BY <3>1, <3>8, Zenon
  <2> HIDE DEF T
  <2>3. \A n \in 0..N : n \in T
    BY <2>1, <2>2, UpTo
  <2>4. Arrives(f[N], text \o h[N])
    BY <1>5, <2>3, Zenon DEF T
  <2> QED BY <1>2, <1>3, <2>4, Zenon
<1> QED BY <1>6, <1>7, <1>8, Zenon

-----------------------------------------------------------------------------
(* What a listing leaves on the device                                     *)

LineOf(lines) == [n \in DOMAIN lines |-> lines[n].line]

LEMMA LineOfTyped ==
  ASSUME NEW lines \in Lines
  PROVE  /\ LineOf(lines) \in Seq(Line) /\ DOMAIN LineOf(lines) = DOMAIN lines
         /\ \A n \in DOMAIN lines : LineOf(lines)[n] = lines[n].line
<1>1. Len(lines) \in Nat /\ DOMAIN lines = 1..Len(lines) /\ \A n \in 1..Len(lines) : lines[n].line \in Line
  <2> DEFINE R == [kind : Kinds, name : Bytestrings, value : Bytestrings, line : Line]
  <2>1. \A x \in R : x.line \in Line
    OBVIOUS
  <2>2. lines \in Seq(R)
    BY DEF Lines
  <2> HIDE DEF R
  <2>3. Len(lines) \in Nat /\ DOMAIN lines = 1..Len(lines) /\ \A n \in 1..Len(lines) : lines[n] \in R
    BY <2>2, SeqTyped
  <2> QED BY <2>1, <2>3
<1>2. LineOf(lines) \in [1..Len(lines) -> Line]
  BY <1>1 DEF LineOf
<1>3. LineOf(lines) \in Seq(Line)
  BY <1>1, <1>2, ListOf
<1> QED BY <1>3 DEF LineOf

\* No line is as long as the buffer: one that is goes past what could not be
\* flushed (Lst::put ignores that the flush failed).
LinesFit == \A n \in DOMAIN rows : Len(rows[n].line) < BufCap

SoFar == Arrives(Out(buffered, device), written)

ListingTyped ==
  /\ rows \in Lines /\ written \in Line /\ buffered \in Line /\ device \in Line

\* Lines put behind those that are there.
LEMMA LinesArrive ==
  ASSUME room \in Nat, BufCap \in Nat, ListingTyped, NEW lines \in Lines,
         LinesFit => SoFar
  PROVE  LET out == FoldLeft(Put, Out(buffered, device), LineOf(lines))
         IN /\ rows \o lines \in Lines
            /\ written \o FlattenSeq(LineOf(lines)) \in Line
            /\ out \in Outs
            /\ (\A n \in DOMAIN (rows \o lines) : Len((rows \o lines)[n].line) < BufCap)
                 => Arrives(out, written \o FlattenSeq(LineOf(lines)))
<1>1. PICK base \in Outs : base = Out(buffered, device)
  BY OutTyped DEF ListingTyped
<1>2. PICK chunks \in Seq(Line) : chunks = LineOf(lines)
  BY LineOfTyped
<1>3. rows \in Lines /\ written \in Line
  BY DEF ListingTyped
<1>4. rows \o lines \in Lines
  <2> DEFINE R == [kind : Kinds, name : Bytestrings, value : Bytestrings, line : Line]
  <2>1. rows \in Seq(R) /\ lines \in Seq(R)
    BY <1>3 DEF Lines
  <2> HIDE DEF R
  <2>2. rows \o lines \in Seq(R)
    BY <2>1, Appending
  <2> QED BY <2>2 DEF Lines, R
<1>5. /\ FoldLeft(Put, base, chunks) \in Outs
      /\ written \o FlattenSeq(chunks) \in Line
      /\ Arrives(base, written) /\ (\A n \in DOMAIN chunks : Len(chunks[n]) < BufCap)
              => Arrives(FoldLeft(Put, base, chunks), written \o FlattenSeq(chunks))
  BY <1>3, PutsArrive
<1>6. ASSUME \A n \in DOMAIN (rows \o lines) : Len((rows \o lines)[n].line) < BufCap
      PROVE  LinesFit /\ \A n \in DOMAIN chunks : Len(chunks[n]) < BufCap
  <2>1. PICK la \in Nat, lb \in Nat : la = Len(rows) /\ lb = Len(lines)
    <3>1. Len(rows) \in Nat /\ Len(lines) \in Nat
      BY <1>3 DEF Lines
    <3> QED BY <3>1, Zenon
  <2>2. PICK all : all = rows \o lines
    OBVIOUS
  <2>3. /\ DOMAIN all = 1..(la + lb)
        /\ \A n \in 1..(la + lb) : all[n] = IF n <= la THEN rows[n] ELSE lines[n - la]
    <3> DEFINE R == [kind : Kinds, name : Bytestrings, value : Bytestrings, line : Line]
    <3>1. rows \in Seq(R) /\ lines \in Seq(R)
      BY <1>3 DEF Lines
    <3> HIDE DEF R
    <3> QED BY <2>1, <2>2, <3>1, ConcatAt
  <2>4. \A n \in DOMAIN all : Len(all[n].line) < BufCap
    BY <1>6, <2>2
  <2>5. LinesFit
    <3> SUFFICES ASSUME NEW n \in DOMAIN rows PROVE Len(rows[n].line) < BufCap
      BY DEF LinesFit
    <3>1. n \in 1..la
      BY <1>3, <2>1 DEF Lines
    <3>2. n \in 1..(la + lb) /\ n <= la
      BY <3>1
    <3>3. all[n] = rows[n] /\ n \in DOMAIN all
      BY <2>3, <3>2
    <3> QED BY <2>4, <3>3
  <2>6. ASSUME NEW n \in DOMAIN chunks PROVE Len(chunks[n]) < BufCap
    <3>1. n \in DOMAIN lines /\ chunks[n] = lines[n].line
      BY <1>2, LineOfTyped
    <3>2. n \in 1..lb
      BY <2>1, <3>1 DEF Lines
    <3>3. PICK m \in 1..(la + lb) : m = la + n /\ ~(m <= la) /\ m - la = n
      BY <3>2
    <3>4. all[m] = lines[n] /\ m \in DOMAIN all
      BY <2>3, <3>3
    <3> QED BY <2>4, <3>1, <3>4
  <2> QED BY <2>5, <2>6
<1>7. ASSUME \A n \in DOMAIN (rows \o lines) : Len((rows \o lines)[n].line) < BufCap
      PROVE  Arrives(FoldLeft(Put, base, chunks), written \o FlattenSeq(chunks))
  <2>1. SoFar
    BY <1>6, <1>7
  <2>2. Arrives(base, written)
    BY <1>1, <2>1 DEF SoFar
  <2> QED BY <1>5, <1>6, <1>7, <2>2, Zenon
<1> QED BY <1>1, <1>2, <1>4, <1>5, <1>7, Zenon

LEMMA EmitArrives ==
  ASSUME room \in Nat, BufCap \in Nat, ListingTyped, NEW lines \in Lines, Emit(lines),
         LinesFit => SoFar, UNCHANGED <<env, room>>
  PROVE  ListingTyped' /\ (LinesFit => SoFar)'
<1> DEFINE out == FoldLeft(Put, Out(buffered, device), LineOf(lines))
<1>1. /\ buffered' = out.buf /\ device' = out.dev
      /\ written' = written \o FlattenSeq(LineOf(lines)) /\ rows' = rows \o lines
  BY Zenon DEF Emit, PutAll, LineOf
<1>2. /\ rows \o lines \in Lines
      /\ written \o FlattenSeq(LineOf(lines)) \in Line
      /\ out \in Outs
      /\ (\A n \in DOMAIN (rows \o lines) : Len((rows \o lines)[n].line) < BufCap)
           => Arrives(out, written \o FlattenSeq(LineOf(lines)))
  BY LinesArrive, Zenon
<1> HIDE DEF out
<1>3. out.buf \in Line /\ out.dev \in Line
  BY <1>2 DEF Outs
<1>4. ListingTyped'
  BY <1>1, <1>2, <1>3 DEF ListingTyped
<1>5. LinesFit' => Arrives(out, written')
  BY <1>1, <1>2, Zenon DEF LinesFit
<1>6. Arrives(out, written') => SoFar'
  <2>1. Out(out.buf, out.dev).buf = out.buf /\ Out(out.buf, out.dev).dev = out.dev
    BY <1>3, OutTyped
  <2> QED BY <1>1, <2>1, Zenon DEF Arrives, SoFar, Translated
<1> QED BY <1>4, <1>5, <1>6

\* What is read of the file, and how the listing ends.
ReadTyped ==
  /\ FileTyped /\ taken \in Seq(Attribute) /\ k \in Nat \ {0}
  /\ result \in CallFaults \cup {"OK"}

OutputInv ==
  /\ CommandsInv
  /\ phase = "scan" => taken = <<>> /\ k = 1 /\ result = "OK" /\ FileTyped
  /\ phase \in Listing \cup {"lst"} => ReadTyped
  /\ phase \in Listing => ListingTyped /\ (LinesFit => SoFar)
  /\ LinesFit => OutputWhole

LEMMA RoomTyped ==
  ASSUME CommandsInv
  PROVE  room \in Nat /\ BufCap \in Nat /\ env.windows \in BOOLEAN /\ o \in OptionSets
<1>1. ScanTyped /\ room \in Nat
  BY DEF CommandsInv, ToolTyped
<1> QED BY <1>1, EnvTyped, CliAssumption DEF ScanTyped

LEMMA OutputAtFirst ==
  ASSUME Init
  PROVE  OutputInv
<1>1. phase = "scan" /\ taken = <<>> /\ k = 1 /\ result = "OK" /\ verb = "none"
      /\ file = [path |-> <<>>, attrs |-> <<>>]
  BY DEF Init, ScanInit
<1>2. FileTyped
  BY <1>1 DEF FileTyped, Bytestrings
<1> QED BY <1>1, <1>2, CommandsAtFirst DEF OutputInv, OutputWhole, Listing

\* A step that ends no command and lists nothing.
LEMMA OutputElsewhere ==
  ASSUME OutputInv, CommandsInv',
         phase' \notin {"scan", "lst"} \cup Listing,
         phase' = "exit" => exit' # 0 \/ verb' \notin {"lst", "len", "limits"}
  PROVE  OutputInv'
BY DEF OutputInv, OutputWhole

LEMMA OutputScan ==
  ASSUME OutputInv, CommandsInv', TakeArgument
  PROVE  OutputInv'
<1>1. ScanSteps /\ UNCHANGED <<world, output, listing, history>>
  BY DEF TakeArgument, ScanSteps
<1>2. phase = "scan" /\ phase' \in {"scan", "help", "version", "exit"} /\ (phase' = "exit" => exit' = 2)
  BY <1>1, ScanStepTyped DEF OutputInv, CommandsInv, ToolTyped
<1>3. CASE phase' = "scan"
  <2>1. FileTyped'
    BY <1>1, <1>2 DEF OutputInv, FileTyped, world
  <2> QED BY <1>1, <1>2, <1>3, <2>1 DEF OutputInv, OutputWhole, Listing, listing
<1>4. CASE phase' # "scan"
  BY <1>2, <1>4, OutputElsewhere DEF Listing
<1> QED BY <1>3, <1>4

LEMMA OutputStart ==
  ASSUME OutputInv, CommandsInv', Start
  PROVE  OutputInv'
<1>1. Dispatch /\ UNCHANGED <<room, output, listing, written, rows>>
  BY DEF Start
<1>2. phase = "scan" /\ ((phase' = "exit" /\ exit' = 2) \/ phase' \in Verbs)
  BY <1>1, DispatchTyped DEF OutputInv, CommandsInv, ToolTyped
<1>3. CASE phase' = "lst"
  <2>1. file' \in Files
    BY <1>3 DEF Start
  <2>2. FileTyped'
    BY <2>1, CliAssumption DEF FileTyped, Bytestrings, Attribute
  <2>3. ReadTyped'
    BY <1>1, <1>2, <2>2 DEF OutputInv, ReadTyped, listing
  <2> QED BY <1>3, <2>3 DEF OutputInv, OutputWhole, Listing
<1>4. CASE phase' # "lst"
  BY <1>2, <1>4, OutputElsewhere DEF Listing, Verbs
<1> QED BY <1>3, <1>4

\* A line said at once is all there, or the command fails.
LEMMA SaidWhole ==
  ASSUME OutputInv, NEW line \in Line, Say(line), phase \notin Listing \cup {"exit"}, UNCHANGED <<env, room>>
  PROVE  OutputWhole'
<1>1. PICK text \in Line : text = line \o <<LineFeed>>
  <2>1. <<LineFeed>> \in Line
    BY DEF LineFeed, Line
  <2> QED BY <2>1, LineParts
<1>2. PICK all \in Line : all = Translated(text)
  BY CrlfTyped
<1>3. /\ device' = Sent(device, all) /\ written' = text /\ phase' = "exit"
      /\ exit' = IF Whole(device, all) THEN 0 ELSE ExitError
  BY <1>1, <1>2 DEF Say, PrintOut, Exit
<1>4. device = <<>>
  BY DEF OutputInv, CommandsInv, NothingOut
<1>5. Whole(device, all) => Sent(device, all) = all
  <2>1. device \in Seq(Nat) /\ all \in Seq(Nat) /\ room \in Nat
    BY <1>4, RoomTyped DEF OutputInv, Line
  <2>2. Whole(device, all) => Sent(device, all) = device \o all
    BY <2>1, SentWhole
  <2> QED BY <1>4, <2>1, <2>2, EmptyFirst
<1>6. Holds(all, text)
  BY <1>2, RoomTyped, TranslatedHolds DEF OutputInv
<1>7. exit' = 0 => device' = all
  BY <1>3, <1>5 DEF ExitError
<1>8. exit' = 0 => Holds(device', written')
  BY <1>3, <1>6, <1>7, Zenon
<1>9. Holds(device', written') => Holds(device, written)'
  BY DEF Holds
<1> QED BY <1>8, <1>9 DEF OutputWhole

LEMMA OutputSay ==
  ASSUME OutputInv, CommandsInv', CmdLen \/ CmdLimits
  PROVE  OutputInv'
<1>1. /\ phase \in {"len", "limits"} /\ UNCHANGED <<optionVars, world, listing>>
  BY DEF CmdLen, CmdLimits
<1>2. LenKey \in Line /\ LimitsKey \in Line
  BY DEF LenKey, LimitsKey, Line
<1>3. ASSUME NEW line \in Line, Say(line) PROVE OutputInv'
  <2>1. OutputWhole'
    BY <1>1, <1>3, SaidWhole DEF Listing, optionVars, world
  <2>2. phase' = "exit"
    BY <1>3, Zenon DEF Say, PrintOut, Exit
  <2> QED BY <2>1, <2>2 DEF OutputInv, Listing
<1>4. CASE CmdLen
  <2>1. CASE \E status \in CallFaults : Fail(status)
    <3>1. phase' = "exit" /\ exit' # 0
      BY <2>1, ExitOfFault DEF Fail, Exit
    <3> QED BY <3>1, OutputElsewhere DEF Listing
  <2>2. CASE Say(NumberLine(LenKey, IF value = Absent THEN -1 ELSE Len(value)))
    <3>1. value \in Seq(Byte) \/ value = Absent
      BY DEF OutputInv, CommandsInv, ToolTyped, Bytestrings
    <3>2. PICK n \in {-1} \cup Nat : n = IF value = Absent THEN -1 ELSE Len(value)
      BY <3>1
    <3>3. NumberLine(LenKey, n) \in Line
      BY <1>2, NumberTyped
    <3> QED BY <1>3, <2>2, <3>2, <3>3
  <2> QED BY <1>4, <2>1, <2>2, Zenon DEF CmdLen
<1>5. CASE CmdLimits
  <2>1. PICK n \in Limits : Say(NumberLine(LimitsKey, n))
    BY <1>5, Zenon DEF CmdLimits
  <2>2. n \in {-1} \cup Nat
    BY CliAssumption, OptionsAssumption
  <2>3. NumberLine(LimitsKey, n) \in Line
    BY <1>2, <2>2, NumberTyped
  <2> QED BY <1>3, <2>1, <2>3
<1> QED BY <1>4, <1>5

LEMMA OutputOther ==
  ASSUME OutputInv, CommandsInv',
         ReadStdin \/ SetValueOf \/ CmdGet \/ CmdDel \/ CmdLoad \/ PrintHelp \/ PrintVersion
  PROVE  OutputInv'
<1>1. verb \notin {"lst", "len", "limits"}
  <2>1. phase \in {"put", "set", "get", "del", "load", "help", "version"}
    BY DEF ReadStdin, SetValueOf, CmdGet, CmdDel, CmdLoad, PrintHelp, PrintVersion
  <2> QED BY <2>1 DEF OutputInv, CommandsInv, ToolTyped, VerbRight
<1>2. phase' \in {"exit", "set"} /\ verb' = verb
  <2>1. \A bytes, text : PrintOut(bytes, text) => phase' = "exit" /\ verb' = verb
    BY Zenon DEF PrintOut, Exit
  <2>2. \A status : Fail(status) => phase' = "exit" /\ verb' = verb
    BY DEF Fail, Exit, history
  <2>3. CASE ReadStdin
    BY <2>2, <2>3, Zenon DEF ReadStdin, history
  <2>4. CASE SetValueOf
    BY <2>2, <2>4, Zenon DEF SetValueOf
  <2>5. CASE CmdGet
    BY <2>1, <2>2, <2>5, Zenon DEF CmdGet
  <2>6. CASE CmdDel
    BY <2>2, <2>6, Zenon DEF CmdDel
  <2>7. CASE CmdLoad
    BY <2>7 DEF CmdLoad, Exit, history
  <2>8. CASE PrintHelp
    BY <2>8 DEF PrintHelp, Exit, history
  <2>9. CASE PrintVersion
    BY <2>1, <2>9, Zenon DEF PrintVersion, Say
  <2> QED BY <2>3, <2>4, <2>5, <2>6, <2>7, <2>8, <2>9
<1> QED BY <1>1, <1>2, OutputElsewhere DEF Listing
LEMMA OutputLists ==
  ASSUME OutputInv, CommandsInv', LstStart \/ LstList
  PROVE  OutputInv'
<1>1. CASE LstStart
  <2>1. /\ phase = "lst" /\ phase' = "list" /\ Emit(Header(o'))
        /\ UNCHANGED <<env, world, listing>>
    BY <1>1 DEF LstStart
  <2>2. o' \in OptionSets
    BY RoomTyped DEF CommandsInv, ToolTyped, ScanTyped
  <2>3. NothingOut /\ ReadTyped
    BY <2>1 DEF OutputInv, CommandsInv, Listing
  <2>4. ListingTyped
    BY <2>3 DEF NothingOut, ListingTyped, Lines, Line
  <2>5. SoFar
    <3>1. <<>> \in Line
      BY DEF Line
    <3>2. Out(<<>>, <<>>).buf = <<>> /\ Out(<<>>, <<>>).dev = <<>>
      BY <3>1, OutTyped
    <3>3. <<>> \o Translated(<<>>) = Translated(<<>>)
      <4>1. Translated(<<>>) \in Seq(Nat)
        BY <3>1, CrlfTyped DEF Line
      <4> QED BY <4>1, EmptyFirst
    <3>4. Len(<<>>) <= room
      BY RoomTyped DEF OutputInv
    <3> QED BY <2>3, <3>2, <3>3, <3>4, Zenon DEF SoFar, Arrives, NothingOut
  <2>6. Header(o') \in Lines
    BY <2>2, HeaderTyped
  <2>7. ListingTyped' /\ (LinesFit => SoFar)'
    BY <2>1, <2>4, <2>5, <2>6, RoomTyped, EmitArrives DEF OutputInv, world
  <2>8. ReadTyped'
    BY <2>1, <2>3 DEF ReadTyped, FileTyped, world, listing
  <2> QED BY <2>1, <2>7, <2>8 DEF OutputInv, OutputWhole, Listing
<1>2. CASE LstList
  <2>1. /\ phase = "list" /\ phase' \in {"rows", "tail"}
        /\ UNCHANGED <<optionVars, world, output, taken, history>>
        /\ k' \in {1, k} /\ result' \in CallFaults \cup {result}
    BY <1>2, Zenon DEF LstList
  <2>2. ReadTyped'
    BY <2>1 DEF OutputInv, ReadTyped, FileTyped, Listing, world
  <2>3. ListingTyped' /\ (LinesFit => SoFar)'
    BY <2>1 DEF OutputInv, Listing, ListingTyped, LinesFit, SoFar, Arrives, Translated, Out,
               optionVars, world, output, history
  <2> QED BY <2>1, <2>2, <2>3 DEF OutputInv, OutputWhole, Listing
<1> QED BY <1>1, <1>2

\* What stays as it was, as far as lines go.
LEMMA SameLines ==
  ASSUME OutputInv, phase \in Listing, UNCHANGED <<optionVars, world, output, history>>
  PROVE  ListingTyped' /\ (LinesFit => SoFar)'
BY DEF OutputInv, Listing, ListingTyped, LinesFit, SoFar, Arrives, Translated, Out,
       optionVars, world, output, history

LEMMA OutputRow ==
  ASSUME OutputInv, CommandsInv', LstRow
  PROVE  OutputInv'
<1>1. /\ phase = "rows" /\ phase' = "rows" /\ k <= Len(Order) /\ k' = k + 1
      /\ UNCHANGED <<optionVars, world, result>>
  BY DEF LstRow
<1>2. ReadTyped /\ ListingTyped /\ (LinesFit => SoFar)
  BY <1>1 DEF OutputInv, Listing
<1>3. Order[k] \in Attribute
  <2>1. Order \in Seq(Attribute) /\ k \in Nat \ {0}
    BY <1>2, OrderTyped DEF ReadTyped
  <2>2. PICK s \in Seq(Attribute) : s = Order
    BY <2>1
  <2>3. k \in 1..Len(s)
    BY <1>1, <2>1, <2>2
  <2> QED BY <2>2, <2>3, ElementOfSeq
<1>4. \/ UNCHANGED <<taken, output, history>>
      \/ /\ taken' = Append(taken, Order[k])
         /\ IF ValueLines(o) THEN UNCHANGED <<output, history>> ELSE Emit(<<Entry(Order[k])>>)
  BY Zenon DEF LstRow
<1>5. taken' \in Seq(Attribute)
  BY <1>2, <1>3, <1>4 DEF ReadTyped
<1>6. ReadTyped'
  BY <1>1, <1>2, <1>5 DEF ReadTyped, FileTyped, world
<1>7. ListingTyped' /\ (LinesFit => SoFar)'
  <2>1. CASE UNCHANGED <<output, history>>
    BY <1>1, <2>1, SameLines DEF Listing
  <2>2. CASE ~ValueLines(o) /\ Emit(<<Entry(Order[k])>>)
    <3>1. <<Entry(Order[k])>> \in Lines
      BY <1>2, <1>3, <2>2, EntryTyped, RoomTyped DEF ReadTyped, OutputInv
    <3> QED BY <1>1, <1>2, <2>2, <3>1, RoomTyped, EmitArrives DEF OutputInv, optionVars, world
  <2> QED BY <1>4, <2>1, <2>2
<1> QED BY <1>1, <1>6, <1>7 DEF OutputInv, OutputWhole, Listing

LEMMA OutputRowsEnd ==
  ASSUME OutputInv, CommandsInv', LstRowsEnd
  PROVE  OutputInv'
<1>1. /\ phase = "rows" /\ phase' = "tail" /\ UNCHANGED <<optionVars, world, listing>>
  BY DEF LstRowsEnd
<1>2. ReadTyped /\ ListingTyped /\ (LinesFit => SoFar)
  BY <1>1 DEF OutputInv, Listing
<1>3. \/ Emit(<<Row("json", JsonFile(file.path, taken))>>)
      \/ UNCHANGED <<output, history>>
  BY Zenon DEF LstRowsEnd
<1>4. ReadTyped'
  BY <1>1, <1>2 DEF ReadTyped, FileTyped, world, listing
<1>5. ListingTyped' /\ (LinesFit => SoFar)'
  <2>1. CASE UNCHANGED <<output, history>>
    BY <1>1, <2>1, SameLines DEF Listing
  <2>2. CASE Emit(<<Row("json", JsonFile(file.path, taken))>>)
    <3>1. JsonFile(file.path, taken) \in Line
      BY <1>2, JsonFileTyped DEF ReadTyped, FileTyped
    <3>2. <<Row("json", JsonFile(file.path, taken))>> \in Lines
      <4>1. "json" \in Kinds
        BY DEF Kinds
      <4> QED BY <3>1, <4>1, RowMade
    <3> QED BY <1>1, <1>2, <2>2, <3>2, RoomTyped, EmitArrives DEF OutputInv, optionVars, world
  <2> QED BY <1>3, <2>1, <2>2
<1> QED BY <1>1, <1>4, <1>5 DEF OutputInv, OutputWhole, Listing

\* The flush at the end sees what was lost before it.
LEMMA OutputTail ==
  ASSUME OutputInv, CommandsInv', LstTail
  PROVE  OutputInv'
<1> DEFINE lines == IF NamesArray(o) THEN <<Row("array", <<93, LineFeed>>)>>
                    ELSE IF Framed(o) /\ o.fmt = "Table" THEN <<Row("border", Border(o))>> ELSE <<>>
           out == FoldLeft(Put, Out(buffered, device), LineOf(lines))
<1>1. /\ phase = "tail" /\ phase' = "exit" /\ UNCHANGED <<optionVars, world, listing, verb, value0>>
      /\ device' = Flushed(out).dev
      /\ written' = written \o FlattenSeq(LineOf(lines)) /\ rows' = rows \o lines
      /\ exit' = IF result # "OK" THEN ExitFor(result)
                 ELSE IF ~Flushes(out) \/ failures > 0 THEN ExitError ELSE 0
  BY Zenon DEF LstTail, Exit, LineOf
<1>2. ReadTyped /\ ListingTyped /\ (LinesFit => SoFar)
  BY <1>1 DEF OutputInv, Listing
<1>3. lines \in Lines
  <2>1. <<93, LineFeed>> \in Line /\ Border(o) \in Line
    BY RoomTyped, BorderTyped DEF OutputInv, Line, LineFeed
  <2>2. "array" \in Kinds /\ "border" \in Kinds /\ <<>> \in Lines
    BY DEF Kinds, Lines
  <2> QED BY <2>1, <2>2, RowMade
<1> HIDE DEF lines
<1>4. /\ written \o FlattenSeq(LineOf(lines)) \in Line
      /\ out \in Outs
      /\ (\A n \in DOMAIN (rows \o lines) : Len((rows \o lines)[n].line) < BufCap)
           => Arrives(out, written \o FlattenSeq(LineOf(lines)))
  <2>1. room \in Nat /\ BufCap \in Nat
    BY RoomTyped DEF OutputInv
  <2> QED BY <1>2, <1>3, <2>1, LinesArrive, Zenon
<1> HIDE DEF out
<1>5. ASSUME LinesFit', exit' = 0 PROVE Holds(device', written')
  <2>1. Flushes(out)
    <3>1. result \in CallFaults => ExitFor(result) # 0
      BY ExitOfFault
    <3>2. result = "OK"
      BY <1>1, <1>2, <1>5, <3>1 DEF ReadTyped
    <3> QED BY <1>1, <1>5, <3>2 DEF ExitError
  <2>2. PICK text \in Line : text = written \o FlattenSeq(LineOf(lines))
    BY <1>4
  <2>3. Arrives(out, text)
    BY <1>1, <1>4, <1>5, <2>2, Zenon DEF LinesFit
  <2>4. device' = Translated(text)
    BY <1>1, <1>4, <2>1, <2>3, RoomTyped, FlushArrives DEF OutputInv
  <2>5. Holds(Translated(text), text)
    BY RoomTyped, TranslatedHolds DEF OutputInv
  <2> QED BY <1>1, <2>2, <2>4, <2>5, Zenon
<1>6. Holds(device', written') => Holds(device, written)'
  BY <1>1 DEF Holds, optionVars
<1>7. (LinesFit => OutputWhole)'
  BY <1>5, <1>6 DEF OutputWhole
<1> QED BY <1>1, <1>7 DEF OutputInv, Listing

LEMMA OutputStep ==
  ASSUME OutputInv, [Next]_vars
  PROVE  OutputInv'
<1>1. CommandsInv'
  BY CommandsStep DEF OutputInv
<1>2. CASE UNCHANGED vars
  <2>1. ListingTyped' = ListingTyped /\ ReadTyped' = ReadTyped /\ LinesFit' = LinesFit
        /\ FileTyped' = FileTyped
    BY <1>2 DEF ListingTyped, ReadTyped, FileTyped, LinesFit, vars, optionVars, world, output,
               listing, history
  <2>2. SoFar' = SoFar
    BY <1>2 DEF SoFar, Arrives, Translated, Out, vars, optionVars, world, output, listing, history
  <2>3. OutputWhole' = OutputWhole
    BY <1>2 DEF OutputWhole, Holds, vars, optionVars, world, output, listing, history
  <2> QED BY <1>1, <1>2, <2>1, <2>2, <2>3 DEF OutputInv, vars, optionVars, listing
<1> QED BY <1>1, <1>2, OutputScan, OutputStart, OutputSay, OutputOther, OutputLists, OutputRow,
           OutputRowsEnd, OutputTail DEF Next

\* However full the device becomes, whenever the buffer is flushed and
\* whatever fails: an exit status of 0 says that the whole output arrived
\* (Lst::put, the flush at the end of cmd_lst, println_out of main.rs), as long
\* as each line fits in the buffer.
THEOREM OutputIsWhole == Spec => [](LinesFit => OutputWhole)
<1>1. Init => OutputInv
  BY OutputAtFirst
<1>2. OutputInv /\ [Next]_vars => OutputInv'
  BY OutputStep
<1>3. OutputInv => (LinesFit => OutputWhole)
  BY DEF OutputInv
<1> QED BY <1>1, <1>2, <1>3, PTL DEF Spec

-----------------------------------------------------------------------------
(* What each argument is                                                   *)

Roles == {"option", "value", "positional"}

\* The "--" that ends the options came before.
Ended(n) == \E m \in 1..(n - 1) : Dashes(m) /\ RoleOf[m] = "option"

RoleAt(r, n) ==
  IF n = 0 THEN "option"
  ELSE IF \E m \in 1..(n - 1) : Dashes(m) /\ r[m] = "option" THEN "positional"
  ELSE IF n > 1 /\ r[n - 1] = "option" /\ NeedsValue(n - 1) THEN "value"
  ELSE IF IsOption(Dashed(n)) THEN "option" ELSE "positional"

RolesUpTo(N) == {r \in [0..N -> Roles] : \A n \in 0..N : r[n] = RoleAt(r, n)}

\* The role of an argument only depends on those in front of it.
LEMMA RoleBefore ==
  ASSUME NEW n \in Nat, NEW r, NEW q, \A m \in 0..(n - 1) : r[m] = q[m]
  PROVE  RoleAt(r, n) = RoleAt(q, n)
<1>1. \A m \in 1..(n - 1) : m \in 0..(n - 1)
  OBVIOUS
<1>2. n > 1 => n - 1 \in 0..(n - 1)
  OBVIOUS
<1>3. (\E m \in 1..(n - 1) : Dashes(m) /\ r[m] = "option")
        <=> (\E m \in 1..(n - 1) : Dashes(m) /\ q[m] = "option")
  BY <1>1
<1>4. (n > 1 /\ r[n - 1] = "option" /\ NeedsValue(n - 1))
        <=> (n > 1 /\ q[n - 1] = "option" /\ NeedsValue(n - 1))
  BY <1>2
<1> QED BY <1>3, <1>4, Zenon DEF RoleAt

LEMMA RolesExist ==
  ASSUME NEW N \in Nat
  PROVE  RolesUpTo(N) # {}
<1> DEFINE T == {n \in Nat : RolesUpTo(n) # {}}
<1>0. \A r, n : RoleAt(r, n) \in Roles
  BY Zenon DEF RoleAt, Roles
<1>1. 0 \in T
  <2>1. PICK r : r = [n \in 0..0 |-> "option"]
    OBVIOUS
  <2>2. \A n \in 0..0 : n = 0
    OBVIOUS
  <2>3. RoleAt(r, 0) = "option" /\ "option" \in Roles
    BY DEF RoleAt, Roles
  <2>4. r \in RolesUpTo(0)
    BY <2>1, <2>2, <2>3 DEF RolesUpTo
  <2> QED BY <2>4
<1>2. ASSUME NEW n \in 1..N, n - 1 \in T PROVE n \in T
  <2>1. PICK r \in RolesUpTo(n - 1) : TRUE
    BY <1>2
  <2>2. r \in [0..(n - 1) -> Roles] /\ \A m \in 0..(n - 1) : r[m] = RoleAt(r, m)
    BY DEF RolesUpTo
  <2>3. PICK q : q = [m \in 0..n |-> IF m = n THEN RoleAt(r, n) ELSE r[m]]
    OBVIOUS
  <2>4. \A m \in 0..(n - 1) : q[m] = r[m]
    BY <2>3
  <2>5. ASSUME NEW m \in 0..n PROVE RoleAt(q, m) = RoleAt(r, m)
    <3>1. m \in Nat /\ \A l \in 0..(m - 1) : q[l] = r[l]
      BY <2>4
    <3> QED BY <3>1, RoleBefore
  <2>6. \A m \in 0..n : m = n \/ m \in 0..(n - 1)
    OBVIOUS
  <2>7. q \in [0..n -> Roles]
    BY <1>0, <2>2, <2>3, <2>6
  <2>8. \A m \in 0..n : q[m] = RoleAt(q, m)
    BY <2>2, <2>3, <2>5, <2>6
  <2>9. q \in RolesUpTo(n) /\ n \in Nat
    BY <2>7, <2>8 DEF RolesUpTo
  <2> QED BY <2>9
<1> HIDE DEF T
<1>3. \A n \in 0..N : n \in T
  BY <1>1, <1>2, UpTo
<1>4. N \in 0..N
  OBVIOUS
<1> QED BY <1>3, <1>4 DEF T

LEMMA RolesKnown ==
  ASSUME ScanTyped
  PROVE  /\ RoleOf \in [0..Len(args) -> Roles]
         /\ \A n \in 0..Len(args) : RoleOf[n] = RoleAt(RoleOf, n)
<1>1. PICK r \in RolesUpTo(Len(args)) : TRUE
  BY ArgsCount, RolesExist
<1>2. r = [n \in 0..Len(args) |-> RoleAt(r, n)]
  BY DEF RolesUpTo
<1>3. RoleOf = [n \in 0..Len(args) |-> RoleAt(RoleOf, n)]
  BY <1>2, Zenon DEF RoleOf, RoleAt
<1>4. \A n \in 0..Len(args) : RoleAt(RoleOf, n) \in Roles
  BY Zenon DEF RoleAt, Roles
<1>5. PICK q : q = RoleOf
  OBVIOUS
<1>6. \A n \in 0..Len(args) : q[n] = RoleAt(q, n)
  BY <1>3, <1>5
<1>7. q = [n \in 0..Len(args) |-> RoleAt(q, n)]
  BY <1>3, <1>5
<1>8. q \in [0..Len(args) -> Roles]
  BY <1>4, <1>5, <1>7
<1> QED BY <1>5, <1>6, <1>8

LEMMA SameRoles ==
  ASSUME UNCHANGED <<env, args>>
  PROVE  RoleOf' = RoleOf
BY DEF RoleOf, Dashes, Dashed, NeedsValue

LEMMA RoleHere ==
  ASSUME ScanTyped, NEW n \in 1..Len(args)
  PROVE  RoleOf[n] = IF Ended(n) THEN "positional"
                     ELSE IF n > 1 /\ RoleOf[n - 1] = "option" /\ NeedsValue(n - 1) THEN "value"
                     ELSE IF IsOption(Dashed(n)) THEN "option" ELSE "positional"
<1>1. n \in 0..Len(args) /\ n # 0
  BY ArgsCount
<1>2. RoleOf[n] = RoleAt(RoleOf, n)
  BY <1>1, RolesKnown
<1> QED BY <1>1, <1>2, Zenon DEF RoleAt, Ended

\* The text an option is given, and what it sets.
TextAt(n) == IF Dashed(n).eq = "=" THEN Dashed(n).value ELSE AsValue(args[n + 1])

Below(field, n) == {m \in Setters(field) : m < n}
LastOf(field, n) == IF Below(field, n) = {} THEN 0 ELSE Max(Below(field, n))

LEMMA LastOfTyped ==
  ASSUME ScanTyped, NEW field, NEW n \in Nat
  PROVE  /\ LastOf(field, n) \in 0..Len(args)
         /\ LastOf(field, n) # 0 => LastOf(field, n) \in Setters(field) /\ LastOf(field, n) < n
<1>1. args \in Seq(Arguments)
  BY OptionsAssumption DEF ScanTyped
<1>2. Len(args) \in Nat /\ DOMAIN args = 1..Len(args)
  BY <1>1, SeqTyped
<1>3. Below(field, n) \in SUBSET (1..Len(args))
  BY <1>2 DEF Below, Setters
<1>4. CASE Below(field, n) = {}
  BY <1>2, <1>4 DEF LastOf
<1>5. CASE Below(field, n) # {}
  <2>1. Max(Below(field, n)) \in Below(field, n)
    BY <1>2, <1>3, <1>5, MaxOfSome
  <2>2. LastOf(field, n) \in Below(field, n)
    BY <1>5, <2>1 DEF LastOf
  <2> QED BY <1>2, <1>3, <2>2 DEF Below
<1> QED BY <1>4, <1>5

\* One argument further, or two when the second is no option.
LEMMA LastOfNext ==
  ASSUME ScanTyped, NEW field, NEW n \in 1..Len(args), NEW next \in {n + 1, n + 2},
         next = n + 2 => n + 1 \notin Setters(field)
  PROVE  LastOf(field, next) = IF n \in Setters(field) THEN n ELSE LastOf(field, n)
<1>1. args \in Seq(Arguments)
  BY OptionsAssumption DEF ScanTyped
<1>2. Len(args) \in Nat /\ DOMAIN args = 1..Len(args)
  BY <1>1, SeqTyped
<1>3. Setters(field) \subseteq 1..Len(args)
  BY <1>2 DEF Setters
<1>4. ASSUME NEW m \in Setters(field) PROVE m < next <=> (m < n \/ m = n)
  <2>1. m \in Nat /\ n \in Nat /\ (m < next => m < n + 2)
    BY <1>3
  <2>2. m = n + 1 => ~(m < next)
    BY <1>4, <2>1
  <2> QED BY <2>1, <2>2
<1>5. CASE n \in Setters(field)
  <2>1. Below(field, next) = Below(field, n) \cup {n}
    BY <1>4, <1>5 DEF Below
  <2>2. Below(field, next) \in SUBSET (1..Len(args)) /\ Below(field, next) # {}
    BY <1>3, <2>1 DEF Below
  <2>3. PICK m \in Below(field, next) : m = Max(Below(field, next)) /\ \A y \in Below(field, next) : m >= y
    BY <1>2, <2>2, MaxOfSome
  <2>4. m >= n /\ (m < n \/ m = n)
    BY <1>4, <2>1, <2>3 DEF Below
  <2>5. m = n
    <3>1. m \in Nat /\ n \in Nat
      BY <1>3 DEF Below
    <3> QED BY <2>4, <3>1
  <2> QED BY <1>5, <2>2, <2>3, <2>5 DEF LastOf
<1>6. CASE n \notin Setters(field)
  <2>1. Below(field, next) = Below(field, n)
    BY <1>4, <1>6 DEF Below
  <2> QED BY <1>6, <2>1 DEF LastOf
<1> QED BY <1>5, <1>6

LEMMA EmptyDiffers ==
  /\ "r" # Empty /\ "h" # Empty /\ "w" # Empty /\ "d" # Empty /\ "nofollow" # Empty /\ "raw" # Empty
  /\ "json" # Empty /\ "quiet" # Empty /\ "values" # Empty /\ "debug" # Empty /\ "hex" # Empty
  /\ "utf8" # Empty /\ "recurse" # Empty /\ "depth-first" # Empty /\ "allow-unsafe-paths" # Empty
  /\ "tsv" # Empty /\ "csv" # Empty /\ "table" # Empty /\ "md" # Empty /\ "markdown" # Empty
  /\ "color" # Empty /\ "no-color" # Empty /\ "no-ansi" # Empty /\ "simple" # Empty
  /\ "cols" # Empty /\ "columns" # Empty /\ "max-width" # Empty /\ "depth" # Empty /\ "root" # Empty
  /\ "limit" # Empty /\ "help" # Empty /\ "version" # Empty /\ "about" # Empty /\ "=" # Empty
BY Zenon DEF Empty

EndWord == [Word(Empty) EXCEPT !.lead = "--"]

LEMMA EndWordIs ==
  /\ EndWord.lead = "--" /\ EndWord.name = Empty /\ EndWord.eq = Empty
  /\ IsOption(EndWord)
  /\ Spelling(EndWord) \notin DOMAIN Flag \cup DOMAIN Valued \cup DOMAIN Prints
<1>1. EndWord.lead = "--" /\ EndWord.name = Empty /\ EndWord.eq = Empty
  BY DEF EndWord, Word
<1>2. IsOption(EndWord)
  <2>1. [Word(Empty) EXCEPT !.lead = "-"].lead = "-"
    BY DEF Word
  <2> QED BY <1>1, <2>1 DEF IsOption
<1>3. Spelling(EndWord) = <<"--", Empty>>
  BY <1>1 DEF Spelling
<1>4. <<"--", Empty>> \notin DOMAIN Flag
  BY EmptyDiffers DEF Flag, Flags
<1>5. <<"--", Empty>> \notin DOMAIN Valued
  BY EmptyDiffers DEF Valued
<1>6. <<"--", Empty>> \notin DOMAIN Prints
  BY EmptyDiffers DEF Prints
<1> QED BY <1>1, <1>2, <1>3, <1>4, <1>5, <1>6

\* A switch with a slash is an option, and never the end of them.
LEMMA SlashedOption ==
  ASSUME NEW arg \in Arguments
  PROVE  /\ SlashSwitch(arg) # arg => IsOption(SlashSwitch(arg))
         /\ SlashSwitch(arg) = EndWord <=> arg = EndWord
<1> DEFINE switch == [lead |-> IF Len(arg.name) = 1 THEN "-" ELSE "--",
                      name |-> IF arg.name = "?" THEN "h" ELSE arg.name,
                      eq |-> IF arg.eq = Empty THEN Empty ELSE "=", value |-> arg.value]
<1>1. \/ SlashSwitch(arg) = arg
      \/ SlashSwitch(arg) = switch /\ arg.lead = "/" /\ arg.name # Empty
  BY DEF SlashSwitch
<1>2. ASSUME SlashSwitch(arg) = switch, arg.name # Empty
      PROVE  IsOption(switch) /\ switch # EndWord
  <2>1. switch.lead \in {"-", "--"} /\ switch.name # Empty
    BY <1>2, EmptyDiffers
  <2>2. [Word(Empty) EXCEPT !.lead = "-"].name = Empty
    BY DEF Word
  <2> HIDE DEF switch
  <2> QED BY <2>1, <2>2, EndWordIs DEF IsOption
<1> HIDE DEF switch
<1>3. arg.lead = "/" => arg # EndWord
  BY EndWordIs
<1> QED BY <1>1, <1>2, <1>3

\* An argument and the role it has, where the scan is.
LEMMA ArgIs ==
  ASSUME ScanTyped, i \in 1..Len(args)
  PROVE  /\ onlyPositional => Arg(i) = args[i]
         /\ ~onlyPositional => Arg(i) = Dashed(i)
         /\ ~IsOption(Dashed(i)) => Dashed(i) = args[i]
         /\ Dashed(i) = EndWord <=> Dashes(i)
<1>1. args \in Seq(Arguments)
  BY OptionsAssumption DEF ScanTyped
<1>2. args[i] \in Arguments
  BY <1>1, SeqTyped
<1>3. Dashed(i) \in {args[i], SlashSwitch(args[i])}
  BY DEF Dashed
<1>4. /\ SlashSwitch(args[i]) # args[i] => IsOption(SlashSwitch(args[i]))
      /\ SlashSwitch(args[i]) = EndWord <=> args[i] = EndWord
  BY <1>2, SlashedOption
<1>5. ~IsOption(Dashed(i)) => Dashed(i) = args[i]
  BY <1>3, <1>4
<1>6. Dashed(i) = EndWord <=> Dashes(i)
  BY <1>3, <1>4 DEF Dashes, EndWord
<1> QED BY <1>5, <1>6 DEF Arg, Dashed

\* Where the scan is, it knows whether the options have ended, and the
\* argument there is no option's value.
RolesRight ==
  /\ i \in 1..(Len(args) + 1)
  /\ onlyPositional <=> Ended(i)
  /\ ~onlyPositional /\ i > 1 => ~(RoleOf[i - 1] = "option" /\ NeedsValue(i - 1))

LEMMA RoleAtScan ==
  ASSUME ScanTyped, RolesRight, Scanning
  PROVE  /\ i \in 1..Len(args)
         /\ RoleOf[i] = IF ~onlyPositional /\ IsOption(Arg(i)) THEN "option" ELSE "positional"
<1>1. i \in 1..Len(args)
  BY ArgsCount DEF Scanning, ScanTyped
<1>2. RoleOf[i] = IF Ended(i) THEN "positional"
                  ELSE IF i > 1 /\ RoleOf[i - 1] = "option" /\ NeedsValue(i - 1) THEN "value"
                  ELSE IF IsOption(Dashed(i)) THEN "option" ELSE "positional"
  BY <1>1, RoleHere
<1>3. CASE onlyPositional
  BY <1>1, <1>2, <1>3 DEF RolesRight
<1>4. CASE ~onlyPositional
  BY <1>1, <1>2, <1>4, ArgIs DEF RolesRight
<1> QED BY <1>1, <1>3, <1>4

LEMMA EndedNext ==
  ASSUME NEW n \in Nat \ {0}
  PROVE  Ended(n + 1) <=> Ended(n) \/ (Dashes(n) /\ RoleOf[n] = "option")
<1>1. \A m : m \in 1..((n + 1) - 1) <=> m \in 1..(n - 1) \/ m = n
  OBVIOUS
<1> QED BY <1>1 DEF Ended

\* What the scan has gone past, once it goes on to the argument next.
LEMMA RolesOn ==
  ASSUME ScanTyped, RolesRight, Scanning, UNCHANGED <<env, args>>,
         \/ /\ i' = i + 1 /\ (onlyPositional' <=> onlyPositional \/ (AtOption /\ Arg(i) = EndWord))
            /\ RoleOf[i] = "option" /\ ~onlyPositional' => ~NeedsValue(i)
         \/ /\ i' = i + 2 /\ i < Len(args) /\ onlyPositional' = onlyPositional
            /\ AtOption /\ NeedsValue(i)
  PROVE  RolesRight' /\ (i' = i + 2 => RoleOf[i + 1] = "value")
<1>1. i \in 1..Len(args) /\ Len(args) \in Nat /\ i \in Nat \ {0}
  BY RoleAtScan, ArgsCount
<1>2. RoleOf[i] = IF ~onlyPositional /\ IsOption(Arg(i)) THEN "option" ELSE "positional"
  BY RoleAtScan
<1>3. Ended(i + 1) <=> onlyPositional \/ (AtOption /\ Arg(i) = EndWord)
  <2>1. RoleOf[i] = "option" => ~onlyPositional /\ AtOption /\ Arg(i) = Dashed(i)
    BY <1>1, <1>2, ArgIs DEF AtOption
  <2>2. AtOption => RoleOf[i] = "option"
    BY <1>2 DEF AtOption
  <2> QED BY <1>1, <2>1, <2>2, ArgIs, EndedNext DEF RolesRight
<1>4. RoleOf' = RoleOf
  BY SameRoles
<1>5. ASSUME NEW n \in {i + 1, i + 2}, i' = n
      PROVE  /\ Ended(i)' <=> Ended(n)
             /\ (RoleOf[i - 1] = "option" /\ NeedsValue(i - 1))'
                  <=> RoleOf[n - 1] = "option" /\ NeedsValue(n - 1)
  BY <1>4, <1>5 DEF Ended, Dashes, NeedsValue, Dashed
<1>6. CASE i' = i + 1
  <2>1. /\ onlyPositional' <=> onlyPositional \/ (AtOption /\ Arg(i) = EndWord)
        /\ RoleOf[i] = "option" /\ ~onlyPositional' => ~NeedsValue(i)
    BY <1>1, <1>6
  <2>2. (i + 1) - 1 = i /\ i + 1 \in 1..(Len(args) + 1) /\ i + 1 # i + 2
    BY <1>1
  <2>3. Ended(i)' <=> Ended(i + 1)
    BY <1>5, <1>6
  <2>4. (RoleOf[i - 1] = "option" /\ NeedsValue(i - 1))' <=> RoleOf[i] = "option" /\ NeedsValue(i)
    BY <1>5, <1>6, <2>2
  <2>5. i' \in 1..(Len(args') + 1)
    BY <1>6, <2>2
  <2> QED BY <1>3, <1>6, <2>1, <2>2, <2>3, <2>4, <2>5 DEF RolesRight
<1>7. CASE i' = i + 2
  <2>1. /\ i < Len(args) /\ onlyPositional' = onlyPositional /\ AtOption /\ NeedsValue(i)
    BY <1>1, <1>7
  <2>2. ~onlyPositional /\ RoleOf[i] = "option" /\ Arg(i) = Dashed(i)
    BY <1>1, <1>2, <2>1, ArgIs DEF AtOption
  <2>3. Arg(i) # EndWord
    BY <2>1, <2>2, EndWordIs DEF NeedsValue
  <2>4. ~Ended(i + 1)
    BY <1>3, <2>2, <2>3
  <2>5. i + 1 \in 1..Len(args) /\ i + 1 > 1 /\ (i + 1) - 1 = i /\ i + 1 \in Nat \ {0}
        /\ (i + 1) + 1 = i + 2 /\ (i + 2) - 1 = i + 1 /\ i + 2 \in 1..(Len(args) + 1)
    BY <1>1, <2>1
  <2>6. RoleOf[i + 1] = "value"
    BY <2>1, <2>2, <2>4, <2>5, RoleHere
  <2>7. ~Ended(i + 2)
    <3>1. Ended((i + 1) + 1) <=> Ended(i + 1) \/ (Dashes(i + 1) /\ RoleOf[i + 1] = "option")
      BY <2>5, EndedNext
    <3> QED BY <2>4, <2>5, <2>6, <3>1
  <2>8. Ended(i)' <=> Ended(i + 2)
    BY <1>5, <1>7
  <2>9. (RoleOf[i - 1] = "option" /\ NeedsValue(i - 1))' <=> RoleOf[i + 1] = "option" /\ NeedsValue(i + 1)
    BY <1>5, <1>7, <2>5
  <2>10. i' \in 1..(Len(args') + 1)
    BY <1>7, <2>5
  <2> QED BY <2>1, <2>2, <2>6, <2>7, <2>8, <2>9, <2>10 DEF RolesRight
<1> QED BY <1>6, <1>7

-----------------------------------------------------------------------------
(* What the options are                                                    *)

Numerals == {"limit", "maxWidth", "maxDepth"}
KnownFields == PlainFields \cup Fields

\* What the choice of the command may set again.
ShapeFields == {"fmt", "values"}
KeptFields == KnownFields \cup ShapeFields

\* A field as a text gives it.
Given(v, f, text) ==
  /\ f \in Numerals => v = Number10(text[1])
  /\ f = "cols" => /\ v = [n \in DOMAIN text |-> ParseDigits(text[n])]
                   /\ \A n \in DOMAIN text : v[n] = Number10(text[n])
  /\ f = "root" => v = text

\* A field as the option at m sets it, the default if there is none.
FieldIs(v, f, m) ==
  IF f \in PlainFields THEN v = IF m = 0 THEN Default[f] ELSE Flag[Spelling(Dashed(m))].value
  ELSE IF m # 0 THEN Given(v, f, TextAt(m))
  ELSE f # "root" => v = Default[f]

OptionsAre(set, n) ==
  /\ \A f \in KnownFields : FieldIs(set[f], f, LastOf(f, n))
  /\ set.recurse <=> LastOf("recurse", n) # 0 \/ LastOf("maxDepth", n) # 0
  /\ set.maxDepth <= WordMax \div 2

LEMMA SameReading ==
  ASSUME UNCHANGED <<env, args>>
  PROVE  /\ \A f, n : LastOf(f, n)' = LastOf(f, n)
         /\ \A v, f, m : FieldIs(v, f, m)' <=> FieldIs(v, f, m)
<1>1. \A m : Dashed(m)' = Dashed(m) /\ TextAt(m)' = TextAt(m)
  BY DEF TextAt, Dashed
<1>2. Default' = Default
  BY DEF Default
<1>3. \A f : Setters(f)' = Setters(f)
  BY <1>1, SameRoles DEF Setters
<1>4. \A f, n : LastOf(f, n)' = LastOf(f, n)
  BY <1>3 DEF LastOf, Below
<1>5. \A v, f, m : FieldIs(v, f, m)' <=> FieldIs(v, f, m)
  BY <1>1, <1>2 DEF FieldIs, Given
<1> QED BY <1>4, <1>5

LEMMA SameOptionsAre ==
  ASSUME UNCHANGED <<env, args>>, NEW set, NEW n
  PROVE  OptionsAre(set, n)' <=> OptionsAre(set, n)
<1>1. /\ \A f, m : LastOf(f, m)' = LastOf(f, m)
      /\ \A v, f, m : FieldIs(v, f, m)' <=> FieldIs(v, f, m)
  BY SameReading
<1>2. ASSUME NEW f PROVE FieldIs(set[f], f, LastOf(f, n))' <=> FieldIs(set[f], f, LastOf(f, n))
  <2>1. PICK v, m : v = set[f] /\ m = LastOf(f, n)
    OBVIOUS
  <2>2. LastOf(f, n)' = m
    BY <1>1, <2>1
  <2>3. FieldIs(v, f, m)' <=> FieldIs(v, f, m)
    BY <1>1
  <2>4. FieldIs(set[f], f, LastOf(f, n))' <=> FieldIs(v, f, m)'
    BY <2>1, <2>2 DEF FieldIs
  <2> QED BY <2>1, <2>3, <2>4
<1> QED BY <1>1, <1>2 DEF OptionsAre

\* Which options the argument at the scan sets.
LEMMA SettersHere ==
  ASSUME ScanTyped, NEW n \in 1..Len(args), NEW f
  PROVE  /\ RoleOf[n] # "option" => n \notin Setters(f)
         /\ RoleOf[n] = "option" /\ Spelling(Dashed(n)) \in DOMAIN Flag
              => (n \in Setters(f) <=> Flag[Spelling(Dashed(n))].field = f)
         /\ RoleOf[n] = "option" /\ Spelling(Dashed(n)) \in DOMAIN Valued
              => (n \in Setters(f) <=> Valued[Spelling(Dashed(n))] = f)
         /\ Dashed(n) = EndWord => n \notin Setters(f)
<1>1. DOMAIN args = 1..Len(args)
  <2>1. args \in Seq(Arguments)
    BY OptionsAssumption DEF ScanTyped
  <2> QED BY <2>1, SeqTyped
<1>2. n \in Setters(f) <=>
        /\ RoleOf[n] = "option"
        /\ LET s == Spelling(Dashed(n))
           IN (s \in DOMAIN Flag /\ Flag[s].field = f) \/ (s \in DOMAIN Valued /\ Valued[s] = f)
  BY <1>1 DEF Setters
<1>3. \A s : ~(s \in DOMAIN Flag /\ s \in DOMAIN Valued)
  BY DEF Flag, Flags, Valued
<1>4. Dashed(n) = EndWord => Spelling(Dashed(n)) \notin DOMAIN Flag \cup DOMAIN Valued
  BY EndWordIs
<1> QED BY <1>2, <1>3, <1>4

OptionNames ==
  {"limit", "nofollow", "raw", "json", "fmt", "utf8", "cols", "quiet", "recurse", "maxDepth", "depthFirst",
   "values", "debug", "hex", "maxWidth", "color", "useColor", "root", "allowUnsafe"}

LEMMA ExceptAt ==
  ASSUME NEW set \in OptionSets, NEW f0 \in OptionNames, NEW v, NEW f \in OptionNames
  PROVE  [set EXCEPT ![f0] = v][f] = IF f = f0 THEN v ELSE set[f]
<1>1. DOMAIN set = OptionNames
  BY DEF OptionSets, OptionNames
<1> QED BY <1>1

LEMMA FieldNames ==
  /\ KnownFields \cup {"recurse"} \subseteq OptionNames
  /\ Switches \cup {"fmt", "color"} \subseteq OptionNames
  /\ "recurse" \notin KnownFields /\ "maxDepth" \in KnownFields
  /\ KeptFields \cup {"recurse"} \subseteq OptionNames /\ "recurse" \notin KeptFields
  /\ ShapeFields \cap Fields = {}
  /\ (Switches \cup {"fmt", "color"}) \cap Fields = {}
  /\ PlainFields \cap Fields = {}
BY DEF KeptFields, ShapeFields, KnownFields, PlainFields, Fields, OptionNames, Switches

\* A flag is in effect from here on.
LEMMA FlagTaken ==
  ASSUME ScanTyped, RolesRight, SetFlag
  PROVE  /\ i \in 1..Len(args)
         /\ \E f0, v0 :
              /\ Flag[Spelling(Dashed(i))] = [field |-> f0, value |-> v0]
              /\ \/ f0 \in Switches /\ v0 = TRUE
                 \/ f0 = "fmt" /\ v0 \in {"Tsv", "Csv", "Table", "Md"}
                 \/ f0 = "color" /\ v0 \in {"on", "off"}
              /\ \A f \in OptionNames : o'[f] = IF f = f0 THEN v0 ELSE o[f]
              /\ \A f : LastOf(f, i + 1) = IF f = f0 THEN i ELSE LastOf(f, i)
<1>1. /\ i \in 1..Len(args) /\ RoleOf[i] = "option" /\ Arg(i) = Dashed(i)
      /\ Spelling(Dashed(i)) \in DOMAIN Flag
      /\ o' = [o EXCEPT ![Flag[Spelling(Dashed(i))].field] = Flag[Spelling(Dashed(i))].value]
  <2>1. Scanning /\ ~onlyPositional /\ IsOption(Arg(i))
    BY DEF SetFlag, AtOption
  <2>2. i \in 1..Len(args) /\ RoleOf[i] = "option"
    BY <2>1, RoleAtScan
  <2>3. Arg(i) = Dashed(i)
    BY <2>1, <2>2, ArgIs
  <2> QED BY <2>2, <2>3 DEF SetFlag
<1>2. PICK f0, v0 : /\ Flag[Spelling(Dashed(i))] = [field |-> f0, value |-> v0]
                    /\ \/ f0 \in Switches /\ v0 = TRUE
                       \/ f0 = "fmt" /\ v0 \in {"Tsv", "Csv", "Table", "Md"}
                       \/ f0 = "color" /\ v0 \in {"on", "off"}
  BY <1>1, FlagSets
<1>3. Flag[Spelling(Dashed(i))].field = f0 /\ Flag[Spelling(Dashed(i))].value = v0
  BY <1>2
<1>4. f0 \in OptionNames /\ f0 \notin Fields
  BY <1>2, FieldNames
<1>5. \A f \in OptionNames : o'[f] = IF f = f0 THEN v0 ELSE o[f]
  <2>1. o' = [o EXCEPT ![f0] = v0]
    BY <1>1, <1>3, Zenon
  <2>2. o \in OptionSets
    BY DEF ScanTyped
  <2>3. \A f \in OptionNames : [o EXCEPT ![f0] = v0][f] = IF f = f0 THEN v0 ELSE o[f]
    BY <1>4, <2>2, ExceptAt
  <2> QED BY <2>1, <2>3, Zenon
<1>6. \A f : LastOf(f, i + 1) = IF f = f0 THEN i ELSE LastOf(f, i)
  <2>1. \A f : i \in Setters(f) <=> f0 = f
    BY <1>1, <1>3, SettersHere
  <2>2. i + 1 \in {i + 1, i + 2} /\ i + 1 # i + 2
    BY <1>1
  <2> QED BY <1>1, <2>1, <2>2, LastOfNext
<1> QED BY <1>1, <1>2, <1>5, <1>6, Zenon

LEMMA FlagIs ==
  ASSUME ScanTyped, RolesRight, OptionsAre(o, i), SetFlag
  PROVE  OptionsAre(o', i + 1)
<1>1. i \in 1..Len(args)
  BY FlagTaken
<1>2. PICK f0, v0 : /\ Flag[Spelling(Dashed(i))] = [field |-> f0, value |-> v0]
                    /\ \/ f0 \in Switches /\ v0 = TRUE
                       \/ f0 = "fmt" /\ v0 \in {"Tsv", "Csv", "Table", "Md"}
                       \/ f0 = "color" /\ v0 \in {"on", "off"}
                    /\ \A f \in OptionNames : o'[f] = IF f = f0 THEN v0 ELSE o[f]
                    /\ \A f : LastOf(f, i + 1) = IF f = f0 THEN i ELSE LastOf(f, i)
  BY FlagTaken
<1>3. Flag[Spelling(Dashed(i))].field = f0 /\ Flag[Spelling(Dashed(i))].value = v0
  BY <1>2
<1>4. f0 \in OptionNames /\ f0 \notin Fields
  BY <1>2, FieldNames
<1>5. \A f \in OptionNames : o'[f] = IF f = f0 THEN v0 ELSE o[f]
  BY <1>2
<1>6. \A f : LastOf(f, i + 1) = IF f = f0 THEN i ELSE LastOf(f, i)
  BY <1>2
<1>7. i # 0
  BY <1>1
<1>8. ASSUME NEW f \in KnownFields PROVE FieldIs(o'[f], f, LastOf(f, i + 1))
  <2>1. f \in OptionNames
    BY FieldNames
  <2>2. CASE f = f0
    <3>1. f \in PlainFields
      BY <1>4, <2>2 DEF KnownFields
    <3> QED BY <1>3, <1>5, <1>6, <1>7, <2>1, <2>2, <3>1 DEF FieldIs
  <2>3. CASE f # f0
    <3>1. o'[f] = o[f] /\ LastOf(f, i + 1) = LastOf(f, i)
      BY <1>5, <1>6, <2>1, <2>3
    <3> QED BY <3>1 DEF OptionsAre
  <2> QED BY <2>2, <2>3
<1>9. o'["recurse"] <=> LastOf("recurse", i + 1) # 0 \/ LastOf("maxDepth", i + 1) # 0
  <2>1. f0 # "maxDepth" /\ (f0 = "recurse" => v0 = TRUE) /\ "recurse" \in OptionNames
    BY <1>2, <1>4 DEF Fields, OptionNames
  <2>2. o["recurse"] <=> LastOf("recurse", i) # 0 \/ LastOf("maxDepth", i) # 0
    BY DEF OptionsAre
  <2>3. LastOf("maxDepth", i + 1) = LastOf("maxDepth", i)
    BY <1>6, <2>1
  <2>4. CASE f0 = "recurse"
    BY <1>5, <1>6, <1>7, <2>1, <2>4
  <2>5. CASE f0 # "recurse"
    BY <1>5, <1>6, <2>1, <2>2, <2>3, <2>5
  <2> QED BY <2>4, <2>5
<1>10. o'["maxDepth"] <= WordMax \div 2
  BY <1>4, <1>5, FieldNames DEF OptionsAre, Fields
<1> QED BY <1>8, <1>9, <1>10 DEF OptionsAre

\* What a text makes of the options: nothing but its field, and what is taken
\* as a number is that number.
LEMMA ValueGiven ==
  ASSUME NEW set \in OptionSets, NEW field \in Fields, NEW text \in Texts,
         NEW new \in WithValue(set, field, text)
  PROVE  /\ \A f \in KeptFields : f # field => new[f] = set[f]
         /\ Given(new[field], field, text)
         /\ IF field = "maxDepth" THEN new.recurse = TRUE /\ new.maxDepth <= WordMax \div 2
            ELSE new.recurse = set.recurse
<1>1. \A n \in DOMAIN text : text[n] \in Digits
  BY SeqTyped DEF Texts, Digits
<1>2. DOMAIN text = 1..Len(text) /\ Len(text) \in Nat
  BY SeqTyped DEF Texts
<1> DEFINE number == ParseNumber(text)
           widths == [n \in DOMAIN text |-> ParseDigits(text[n])]
<1>3. number # NotANumber => number = Number10(text[1])
  <2>1. CASE Len(text) = 1
    <3>1. 1 \in DOMAIN text /\ number = ParseDigits(text[1])
      BY <1>2, <2>1 DEF ParseNumber
    <3> QED BY <1>1, <3>1, ParseExact
  <2>2. CASE Len(text) # 1
    BY <2>2 DEF ParseNumber
  <2> QED BY <2>1, <2>2
<1>4. NotANumber \notin ToSet(widths) => \A n \in DOMAIN text : widths[n] = Number10(text[n])
  <2>1. \A n \in DOMAIN text : ParseDigits(text[n]) # NotANumber => ParseDigits(text[n]) = Number10(text[n])
    BY <1>1, ParseExact
  <2>2. \A n \in DOMAIN text : widths[n] = ParseDigits(text[n]) /\ widths[n] \in ToSet(widths)
    BY DEF ToSet
  <2> QED BY <2>1, <2>2
<1>5. KeptFields \cup {"recurse"} \subseteq OptionNames /\ "recurse" \notin KeptFields
      /\ field \in KeptFields
  BY FieldNames DEF KeptFields, KnownFields
<1>6. ASSUME NEW v, new = [set EXCEPT ![field] = v]
      PROVE  /\ \A f \in KeptFields : f # field => new[f] = set[f]
             /\ new[field] = v /\ new["recurse"] = set["recurse"]
  <2>1. \A f \in OptionNames : [set EXCEPT ![field] = v][f] = IF f = field THEN v ELSE set[f]
    BY <1>5, ExceptAt
  <2> QED BY <1>5, <1>6, <2>1
<1> HIDE DEF number, widths
<1>7. CASE field \in {"maxWidth", "limit"}
  <2>1. new = [set EXCEPT ![field] = number] /\ number # NotANumber
    <3>1. CASE field = "maxWidth"
      BY <3>1 DEF WithValue, number
    <3>2. CASE field = "limit"
      BY <3>2 DEF WithValue, number
    <3> QED BY <1>7, <3>1, <3>2
  <2>2. new[field] = number
    BY <1>6, <2>1
  <2>3. Given(new[field], field, text)
    BY <1>3, <1>7, <2>1, <2>2 DEF Given
  <2> QED BY <1>6, <1>7, <2>1, <2>3
<1>8. CASE field = "cols"
  <2>1. new = [set EXCEPT !.cols = widths] /\ NotANumber \notin ToSet(widths)
    BY <1>8 DEF WithValue, widths, SetColumns, NewColumns
  <2>2. new[field] = widths
    BY <1>6, <1>8, <2>1
  <2>3. Given(new[field], field, text)
    BY <1>4, <1>8, <2>1, <2>2 DEF Given, Numerals, widths
  <2> QED BY <1>6, <1>8, <2>1, <2>3
<1>9. CASE field = "root"
  <2>1. new = [set EXCEPT !.root = text]
    BY <1>9 DEF WithValue
  <2>2. new[field] = text
    BY <1>6, <1>9, <2>1
  <2>3. Given(new[field], field, text)
    BY <1>9, <2>2 DEF Given, Numerals
  <2> QED BY <1>6, <1>9, <2>1, <2>3
<1>10. CASE field = "maxDepth"
  <2>1. new = [set EXCEPT !.maxDepth = number, !.recurse = TRUE] /\ number # NotANumber /\ DepthFits(number)
    BY <1>10 DEF WithValue, number
  <2>2. PICK mid \in OptionSets : mid = [set EXCEPT !.recurse = TRUE]
    <3>1. "recurse" \in Switches
      BY DEF Switches
    <3> QED BY <3>1, SwitchTyped
  <2>3. new = [mid EXCEPT !.maxDepth = number]
    BY <2>1, <2>2 DEF OptionSets
  <2>4. \A f \in OptionNames : new[f] = IF f = "maxDepth" THEN number ELSE mid[f]
    BY <1>5, <1>10, <2>3, ExceptAt
  <2>5. \A f \in OptionNames : mid[f] = IF f = "recurse" THEN TRUE ELSE set[f]
    <3>1. PICK yes : yes = TRUE
      OBVIOUS
    <3>2. \A f \in OptionNames : [set EXCEPT !["recurse"] = yes][f] = IF f = "recurse" THEN yes ELSE set[f]
      BY <1>5, ExceptAt
    <3> QED BY <2>2, <3>1, <3>2, Zenon
  <2>6. new["recurse"] = TRUE /\ new["maxDepth"] = number
    BY <1>5, <1>10, <2>4, <2>5
  <2>7. \A f \in KeptFields : f # field => new[f] = set[f]
    BY <1>5, <1>10, <2>4, <2>5
  <2>8. Given(new[field], field, text)
    BY <1>3, <1>10, <2>1, <2>6 DEF Given
  <2> QED BY <1>10, <2>1, <2>6, <2>7, <2>8 DEF DepthFits
<1> QED BY <1>7, <1>8, <1>9, <1>10 DEF Fields

\* So is a value.
LEMMA ValueIs ==
  ASSUME ScanTyped, RolesRight, OptionsAre(o, i), SetValue, phase' # "exit", UNCHANGED <<env, args>>
  PROVE  /\ OptionsAre(o', i') /\ RolesRight'
         /\ i' = i + 2 => RoleOf[i + 1] = "value"
         /\ RoleOf[i] = "option" /\ i' \in {i + 1, i + 2} /\ UNCHANGED pos
         /\ \E f0 \in Fields :
              /\ \A f : LastOf(f, i') = IF f = f0 THEN i ELSE LastOf(f, i)
              /\ \A f \in ShapeFields : o'[f] = o[f]
              /\ colsGiven' = (colsGiven \/ f0 = "cols")
<1> DEFINE inline == Arg(i).eq = "="
           field  == Valued[Spelling(Arg(i))]
           text   == IF inline THEN {Arg(i).value}
                     ELSE IF i < Len(args) THEN {AsValue(args[i + 1])} ELSE {}
           set    == UNION {WithValue(o, field, t) : t \in text}
<1>1. /\ i \in 1..Len(args) /\ RoleOf[i] = "option" /\ Arg(i) = Dashed(i)
      /\ Spelling(Dashed(i)) \in DOMAIN Valued /\ Arg(i).eq # ":" /\ AtOption /\ Scanning /\ ~onlyPositional
  <2>1. AtOption /\ Scanning /\ ~onlyPositional /\ IsOption(Arg(i))
    BY DEF SetValue, AtOption
  <2>2. i \in 1..Len(args) /\ RoleOf[i] = "option"
    BY <2>1, RoleAtScan
  <2>3. Arg(i) = Dashed(i)
    BY <2>1, <2>2, ArgIs
  <2> QED BY <2>1, <2>2, <2>3 DEF SetValue
<1>2. IF set = {} THEN UsageError /\ UNCHANGED optionVars
      ELSE /\ o' \in set
           /\ colsGiven' = (colsGiven \/ field = "cols")
           /\ i' = IF inline THEN i + 1 ELSE i + 2
           /\ UNCHANGED <<env, args, pos, onlyPositional, phase, exit>>
  BY Zenon DEF SetValue
<1>3. field \in Fields /\ field = Valued[Spelling(Dashed(i))]
  BY <1>1, ValuedFields
<1>4. text \subseteq {TextAt(i)} /\ (text # {} /\ ~inline => i < Len(args))
  BY <1>1 DEF TextAt
<1>5. TextAt(i) \in Texts \/ (~inline /\ ~(i < Len(args)))
  <2>1. Arg(i).value \in Texts
    BY <1>1, ArgTyped
  <2>2. i < Len(args) => AsValue(args[i + 1]) \in Texts
    BY <1>1, ArgTyped, ArgsCount
  <2> QED BY <1>1, <2>1, <2>2 DEF TextAt
<1> HIDE DEF text, field
<1>6. set # {}
  BY <1>2 DEF UsageError, Exit
<1>7. PICK t \in text : o' \in WithValue(o, field, t)
  BY <1>2, <1>6
<1>8. /\ t = TextAt(i) /\ TextAt(i) \in Texts /\ (~inline => i < Len(args))
      /\ i' = (IF inline THEN i + 1 ELSE i + 2) /\ UNCHANGED <<pos, onlyPositional>>
  BY <1>2, <1>4, <1>5, <1>6, <1>7
<1> HIDE DEF set
<1>9. Arg(i).eq \in {Empty, "=", ":"} /\ (inline => ~NeedsValue(i)) /\ (~inline => NeedsValue(i))
  <2>1. Arg(i) \in Switched
    BY <1>1, ArgTyped
  <2>2. Arg(i).eq \in {Empty, "=", ":"}
    BY <2>1 DEF Switched
  <2> QED BY <1>1, <2>2, EmptyDiffers DEF NeedsValue
<1>10. RolesRight' /\ (i' = i + 2 => RoleOf[i + 1] = "value")
  <2>1. Arg(i) # EndWord
    BY <1>1, EndWordIs
  <2>2. \/ /\ i' = i + 1 /\ (onlyPositional' <=> onlyPositional \/ (AtOption /\ Arg(i) = EndWord))
           /\ RoleOf[i] = "option" /\ ~onlyPositional' => ~NeedsValue(i)
        \/ /\ i' = i + 2 /\ i < Len(args) /\ onlyPositional' = onlyPositional
           /\ AtOption /\ NeedsValue(i)
    BY <1>1, <1>8, <1>9, <2>1
  <2> QED BY <1>1, <2>2, RolesOn
<1> DEFINE next == IF inline THEN i + 1 ELSE i + 2
<1>11. \A f : LastOf(f, next) = IF f = field THEN i ELSE LastOf(f, i)
  <2>1. \A f : i \in Setters(f) <=> f = field
    BY <1>1, <1>3, SettersHere
  <2>2. next \in {i + 1, i + 2}
    OBVIOUS
  <2>3. \A f : next = i + 2 => i + 1 \notin Setters(f)
    <3>1. next = i + 2 => RoleOf[i + 1] = "value"
      BY <1>8, <1>10
    <3>2. next = i + 2 => i + 1 \in 1..Len(args)
      BY <1>1, <1>8
    <3> QED BY <3>1, <3>2, SettersHere
  <2> HIDE DEF next
  <2> QED BY <1>1, <2>1, <2>2, <2>3, LastOfNext
<1> HIDE DEF next
<1>12. /\ \A f \in KeptFields : f # field => o'[f] = o[f]
       /\ Given(o'[field], field, TextAt(i))
       /\ IF field = "maxDepth" THEN o'.recurse = TRUE /\ o'.maxDepth <= WordMax \div 2
          ELSE o'.recurse = o.recurse
  <2>1. o \in OptionSets
    BY DEF ScanTyped
  <2>2. PICK new : new = o'
    OBVIOUS
  <2>3. new \in WithValue(o, field, TextAt(i))
    BY <1>7, <1>8, <2>2
  <2>4. /\ \A f \in KeptFields : f # field => new[f] = o[f]
        /\ Given(new[field], field, TextAt(i))
        /\ IF field = "maxDepth" THEN new.recurse = TRUE /\ new.maxDepth <= WordMax \div 2
           ELSE new.recurse = o.recurse
    BY <1>3, <1>8, <2>1, <2>3, ValueGiven
  <2> QED BY <2>2, <2>4
<1>13. \A f \in KnownFields : FieldIs(o'[f], f, LastOf(f, next))
  <2> SUFFICES ASSUME NEW f \in KnownFields PROVE FieldIs(o'[f], f, LastOf(f, next))
    OBVIOUS
  <2>1. CASE f = field
    <3>1. LastOf(f, next) = i /\ i # 0 /\ f \notin PlainFields
      BY <1>1, <1>3, <1>11, <2>1, FieldNames
    <3> QED BY <1>12, <2>1, <3>1 DEF FieldIs
  <2>2. CASE f # field
    <3>1. o'[f] = o[f] /\ LastOf(f, next) = LastOf(f, i)
      BY <1>11, <1>12, <2>2 DEF KeptFields
    <3> QED BY <3>1 DEF OptionsAre
  <2> QED BY <2>1, <2>2
<1>14. o'.recurse <=> LastOf("recurse", next) # 0 \/ LastOf("maxDepth", next) # 0
  <2>1. "recurse" # field /\ LastOf("recurse", next) = LastOf("recurse", i)
    BY <1>3, <1>11 DEF Fields
  <2>2. CASE field = "maxDepth"
    BY <1>1, <1>11, <1>12, <2>2
  <2>3. CASE field # "maxDepth"
    BY <1>11, <1>12, <2>1, <2>3 DEF OptionsAre
  <2> QED BY <2>2, <2>3
<1>15. o'.maxDepth <= WordMax \div 2
  <2>1. CASE field = "maxDepth"
    BY <1>12, <2>1
  <2>2. CASE field # "maxDepth"
    BY <1>12, <2>2, FieldNames DEF OptionsAre, KeptFields
  <2> QED BY <2>1, <2>2
<1>16. OptionsAre(o', next)
  BY <1>13, <1>14, <1>15 DEF OptionsAre
<1>17. colsGiven' = (colsGiven \/ field = "cols")
  BY <1>2, <1>6
<1>18. \A f \in ShapeFields : o'[f] = o[f]
  BY <1>3, <1>12, FieldNames DEF KeptFields
<1>19. i' = next
  BY <1>8 DEF next
<1>20. \E f0 \in Fields :
         /\ \A f : LastOf(f, i') = IF f = f0 THEN i ELSE LastOf(f, i)
         /\ \A f \in ShapeFields : o'[f] = o[f]
         /\ colsGiven' = (colsGiven \/ f0 = "cols")
  BY <1>3, <1>11, <1>17, <1>18, <1>19, Zenon
<1> QED BY <1>1, <1>8, <1>10, <1>16, <1>20 DEF next

-----------------------------------------------------------------------------
(* The options that are in effect                                          *)

Rest(n) == {m \in 1..(n - 1) : RoleOf[m] = "positional"}

\* The positional arguments so far, in their order.
PosRight ==
  /\ Len(pos) = Cardinality(Rest(i))
  /\ \A n \in Rest(i) : pos[Cardinality(Rest(n + 1))] = args[n]

LEMMA RestTyped ==
  ASSUME NEW n \in Nat
  PROVE  IsFiniteSet(Rest(n)) /\ Cardinality(Rest(n)) \in Nat
<1>1. IsFiniteSet(1..(n - 1))
  BY FS_Interval
<1>2. Rest(n) \subseteq 1..(n - 1)
  BY DEF Rest
<1>3. IsFiniteSet(Rest(n))
  BY <1>1, <1>2, FS_Subset
<1> QED BY <1>3, FS_CardinalityType

LEMMA SameRest ==
  ASSUME UNCHANGED <<env, args>>
  PROVE  \A n : Rest(n)' = Rest(n)
BY SameRoles DEF Rest

\* What an argument that is not positional leaves as it was.
LEMMA PosKept ==
  ASSUME PosRight, i \in Nat \ {0}, UNCHANGED <<env, args, pos>>, RoleOf[i] # "positional",
         i' \in {i + 1, i + 2}, i' = i + 2 => RoleOf[i + 1] # "positional"
  PROVE  PosRight'
<1>1. ASSUME NEW n \in {i + 1, i + 2}, n = i' PROVE Rest(n) = Rest(i)
  <2>1. \A m : m \in 1..(n - 1) <=> m \in 1..(i - 1) \/ m = i \/ (n = i + 2 /\ m = i + 1)
    OBVIOUS
  <2> QED BY <1>1, <2>1 DEF Rest
<1>2. PICK n : n = i'
  OBVIOUS
<1>3. Rest(n) = Rest(i)
  BY <1>1, <1>2
<1>4. \A m : Rest(m)' = Rest(m)
  BY SameRest
<1>5. Rest(i)' = Rest(n)'
  BY <1>2 DEF Rest
<1>6. Rest(i)' = Rest(i)
  BY <1>3, <1>4, <1>5
<1> QED BY <1>4, <1>6 DEF PosRight

LEMMA PosTaken ==
  ASSUME ScanTyped, PosRight, UNCHANGED <<env, args>>, RoleOf[i] = "positional",
         i' = i + 1, pos' = Append(pos, args[i])
  PROVE  PosRight'
<1>1. i \in Nat \ {0} /\ pos \in Seq(Switched)
  BY DEF ScanTyped
<1>2. Rest(i + 1) = Rest(i) \cup {i} /\ i \notin Rest(i)
  <2>1. \A m : m \in 1..((i + 1) - 1) <=> m \in 1..(i - 1) \/ m = i
    BY <1>1
  <2>2. i \notin 1..(i - 1)
    BY <1>1
  <2> QED BY <2>1, <2>2 DEF Rest
<1>3. Cardinality(Rest(i + 1)) = Len(pos) + 1
  <2>1. IsFiniteSet(Rest(i))
    BY <1>1, RestTyped
  <2> QED BY <1>2, <2>1, FS_AddElement DEF PosRight
<1>4. \A m : Rest(m)' = Rest(m)
  BY SameRest
<1>5. Rest(i)' = Rest(i + 1)
  <2>1. PICK n : n = i' /\ n = i + 1
    OBVIOUS
  <2>2. Rest(i)' = Rest(n)'
    BY <2>1 DEF Rest
  <2> QED BY <1>4, <2>1, <2>2
<1>6. Len(pos') = Len(pos) + 1 /\ pos'[Len(pos) + 1] = args[i]
      /\ \A n \in 1..Len(pos) : pos'[n] = pos[n]
  BY <1>1
<1>7. ASSUME NEW n \in Rest(i) PROVE pos'[Cardinality(Rest(n + 1))] = args[n]
  <2>1. n \in Nat /\ n \in 1..(i - 1) /\ n + 1 \in Nat
    BY <1>1 DEF Rest
  <2>2. Rest(n + 1) \subseteq Rest(i) /\ Rest(n + 1) # {}
    <3>1. \A m \in 1..((n + 1) - 1) : m \in 1..(i - 1)
      BY <1>1, <2>1
    <3>2. n \in 1..((n + 1) - 1)
      BY <2>1
    <3>3. n \in Rest(n + 1)
      BY <3>2 DEF Rest
    <3> QED BY <3>1, <3>3 DEF Rest
  <2>3. IsFiniteSet(Rest(i)) /\ IsFiniteSet(Rest(n + 1)) /\ Cardinality(Rest(n + 1)) \in Nat
    BY <1>1, <2>1, RestTyped
  <2>4. Cardinality(Rest(n + 1)) <= Cardinality(Rest(i))
    BY <2>2, <2>3, FS_Subset
  <2>5. Cardinality(Rest(n + 1)) # 0
    BY <2>2, <2>3, FS_EmptySet
  <2>6. Cardinality(Rest(n + 1)) \in 1..Len(pos)
    BY <2>3, <2>4, <2>5 DEF PosRight
  <2> QED BY <1>6, <2>6 DEF PosRight
<1>8. ASSUME NEW n \in Rest(i + 1) PROVE pos'[Cardinality(Rest(n + 1))] = args[n]
  <2>1. CASE n = i
    BY <1>3, <1>6, <2>1
  <2> QED BY <1>2, <1>7, <2>1
<1> QED BY <1>3, <1>4, <1>5, <1>6, <1>8 DEF PosRight

\* An argument that sets nothing leaves the options as they were.
LEMMA NothingSet ==
  ASSUME ScanTyped, OptionsAre(o, i), i \in 1..Len(args), \A f : i \notin Setters(f), UNCHANGED o
  PROVE  OptionsAre(o', i + 1)
<1>1. i + 1 \in {i + 1, i + 2} /\ i + 1 # i + 2
  OBVIOUS
<1>2. \A f : LastOf(f, i + 1) = LastOf(f, i)
  BY <1>1, LastOfNext
<1>3. OptionsAre(o, i + 1)
  BY <1>2 DEF OptionsAre
<1> QED BY <1>3

\* The options are the same to all that looks at what set them.
LEMMA OptionsKept ==
  ASSUME NEW set, NEW new, NEW n, OptionsAre(set, n),
         \A f \in KnownFields \cup {"recurse"} : new[f] = set[f]
  PROVE  OptionsAre(new, n)
<1>1. new.recurse = set.recurse /\ new.maxDepth = set.maxDepth
  BY FieldNames
<1> QED BY <1>1 DEF OptionsAre

\* The arguments taken so far have set the options and given the positional
\* ones; a command is chosen once all of them are taken.
ScanRight == RolesRight /\ OptionsAre(o, i) /\ PosRight
ScanInv ==
  /\ CommandsInv /\ ScanRight
  /\ phase \in Verbs => i = Len(args) + 1

LEMMA ScanAtFirst ==
  ASSUME Init
  PROVE  ScanInv
<1>1. CommandsInv
  BY CommandsAtFirst
<1>2. i = 1 /\ o = Default /\ pos = <<>> /\ onlyPositional = FALSE /\ phase = "scan" /\ phase \notin Verbs
  BY DEF Init, ScanInit, Verbs
<1>3. ScanTyped
  BY <1>1 DEF CommandsInv, ToolTyped
<1>4. RolesRight
  BY <1>2, <1>3, ArgsCount DEF RolesRight, Ended
<1>5. \A f : LastOf(f, i) = 0
  <2>1. \A f : Below(f, 1) = {}
    <3>1. DOMAIN args = 1..Len(args)
      <4>1. args \in Seq(Arguments)
        BY <1>3, OptionsAssumption DEF ScanTyped
      <4> QED BY <4>1, SeqTyped
    <3>2. \A m \in 1..Len(args) : ~(m < 1)
      BY <1>3, ArgsCount
    <3> QED BY <3>1, <3>2 DEF Below, Setters
  <2> QED BY <1>2, <2>1 DEF LastOf
<1>6. OptionsAre(o, i)
  <2>1. \A f \in KnownFields : FieldIs(o[f], f, LastOf(f, i))
    BY <1>2, <1>5 DEF FieldIs
  <2>2. o.recurse = FALSE /\ o.maxDepth = -1
    BY <1>2 DEF Default
  <2>3. -1 <= WordMax \div 2
    BY OptionsAssumption
  <2> QED BY <1>5, <2>1, <2>2, <2>3 DEF OptionsAre
<1>7. PosRight
  <2>1. Rest(1) = {}
    BY DEF Rest
  <2>2. Cardinality({}) = 0
    BY FS_EmptySet
  <2> QED BY <1>2, <2>1, <2>2 DEF PosRight
<1> QED BY <1>1, <1>2, <1>4, <1>6, <1>7 DEF ScanInv, ScanRight

LEMMA ScanSame ==
  ASSUME ScanRight, UNCHANGED <<env, args, i, pos, onlyPositional>>,
         \A f \in KnownFields \cup {"recurse"} : o'[f] = o[f]
  PROVE  ScanRight'
<1>1. RoleOf' = RoleOf
  BY SameRoles
<1>2. RolesRight'
  BY <1>1 DEF ScanRight, RolesRight, Ended, Dashes, NeedsValue, Dashed
<1>3. OptionsAre(o, i)'
  <2>1. PICK new, n : new = o' /\ n = i
    OBVIOUS
  <2>2. OptionsAre(new, n)
    <3>1. OptionsAre(o, n)
      BY <2>1 DEF ScanRight
    <3>2. \A f \in KnownFields \cup {"recurse"} : new[f] = o[f]
      BY <2>1
    <3> QED BY <3>1, <3>2, OptionsKept
  <2>3. OptionsAre(new, n)'
    BY <2>2, SameOptionsAre
  <2> QED BY <2>1, <2>3 DEF OptionsAre
<1>4. PosRight'
  <2>1. \A n : Rest(n)' = Rest(n)
    BY SameRest
  <2> QED BY <2>1 DEF ScanRight, PosRight
<1> QED BY <1>2, <1>3, <1>4 DEF ScanRight

\* What was set, read again after the step.
LEMMA OptionsOn ==
  ASSUME UNCHANGED <<env, args>>, NEW n, n = i', OptionsAre(o', n)
  PROVE  OptionsAre(o, i)'
<1>1. PICK set : set = o'
  OBVIOUS
<1>2. OptionsAre(set, n)'
  BY <1>1, SameOptionsAre
<1> QED BY <1>1, <1>2 DEF OptionsAre

LEMMA ScanTaken ==
  ASSUME ScanTyped, ScanRight, ScanSteps, phase' = "scan"
  PROVE  ScanRight'
<1>1. CASE EndOptions
  <2>1. /\ AtOption /\ Arg(i) = EndWord /\ onlyPositional' = TRUE /\ i' = i + 1
        /\ UNCHANGED <<env, args, o, pos>> /\ Scanning /\ RolesRight
    BY <1>1 DEF EndOptions, EndWord, AtOption, ScanRight
  <2>2. i \in 1..Len(args) /\ RoleOf[i] = "option" /\ Dashed(i) = EndWord
    <3>1. i \in 1..Len(args) /\ RoleOf[i] = "option"
      BY <2>1, RoleAtScan DEF AtOption
    <3> QED BY <2>1, <3>1, ArgIs DEF AtOption
  <2>3. RolesRight'
    BY <2>1, RolesOn
  <2>4. \A f : i \notin Setters(f)
    BY <2>2, SettersHere
  <2>5. PosRight'
    BY <2>1, <2>2, PosKept DEF ScanRight
  <2>6. OptionsAre(o', i + 1)
    BY <2>1, <2>2, <2>4, NothingSet DEF ScanRight
  <2>7. i' = i + 1
    BY <2>1
  <2> QED BY <2>1, <2>3, <2>5, <2>6, <2>7, OptionsOn DEF ScanRight
<1>2. CASE SetFlag
  <2>1. /\ AtOption /\ Spelling(Arg(i)) \in DOMAIN Flag /\ i' = i + 1
        /\ UNCHANGED <<env, args, pos, onlyPositional>> /\ Scanning /\ RolesRight
    BY <1>2 DEF SetFlag, AtOption, ScanRight
  <2>2. i \in 1..Len(args) /\ RoleOf[i] = "option" /\ Dashed(i) = Arg(i)
    <3>1. i \in 1..Len(args) /\ RoleOf[i] = "option"
      BY <2>1, RoleAtScan DEF AtOption
    <3> QED BY <2>1, <3>1, ArgIs DEF AtOption
  <2>3. ~NeedsValue(i) /\ Arg(i) # EndWord
    <3>1. \A s : ~(s \in DOMAIN Flag /\ s \in DOMAIN Valued)
      BY DEF Flag, Flags, Valued
    <3> QED BY <2>1, <2>2, <3>1, EndWordIs DEF NeedsValue
  <2>4. RolesRight'
    BY <2>1, <2>3, RolesOn
  <2>5. PosRight'
    BY <2>1, <2>2, PosKept DEF ScanRight
  <2>6. OptionsAre(o', i + 1)
    BY <1>2, FlagIs DEF ScanRight
  <2> QED BY <2>1, <2>4, <2>5, <2>6, OptionsOn DEF ScanRight
<1>3. CASE SetValue
  <2>1. UNCHANGED <<env, args>> /\ i \in Nat \ {0} /\ RolesRight
    <3>1. ScanTyped' /\ phase = "scan"
      BY ScanStepTyped
    <3> QED BY <1>3, ValueSet DEF ScanTyped, ScanRight, optionVars
  <2>2. /\ OptionsAre(o', i') /\ RolesRight'
        /\ i' = i + 2 => RoleOf[i + 1] = "value"
        /\ RoleOf[i] = "option" /\ i' \in {i + 1, i + 2} /\ UNCHANGED pos
    BY <1>3, <2>1, ValueIs DEF ScanRight
  <2>3. PosRight'
    BY <2>1, <2>2, PosKept DEF ScanRight
  <2> QED BY <2>1, <2>2, <2>3, OptionsOn DEF ScanRight
<1>4. CASE PrintAndExit
  <2>1. UNCHANGED <<env, args, i, pos, onlyPositional>> /\ o' = o
    BY <1>4 DEF PrintAndExit, optionVars
  <2> QED BY <2>1, ScanSame
<1>5. CASE UnknownOption
  <2>1. UNCHANGED <<env, args, i, pos, onlyPositional>> /\ o' = o
    BY <1>5 DEF UnknownOption, optionVars
  <2> QED BY <2>1, ScanSame
<1>6. CASE Positional
  <2>1. /\ pos' = Append(pos, Arg(i)) /\ i' = i + 1
        /\ UNCHANGED <<env, args, o, onlyPositional>> /\ Scanning /\ RolesRight
        /\ (onlyPositional \/ ~IsOption(Arg(i)))
    BY <1>6 DEF Positional, UsageError, Exit, ScanRight
  <2>2. i \in 1..Len(args) /\ RoleOf[i] = "positional" /\ ~AtOption
    BY <2>1, RoleAtScan DEF AtOption
  <2>3. Arg(i) = args[i]
    BY <2>1, <2>2, ArgIs
  <2>4. RolesRight'
    BY <2>1, <2>2, RolesOn
  <2>5. PosRight'
    BY <2>1, <2>2, <2>3, PosTaken DEF ScanRight
  <2>6. \A f : i \notin Setters(f)
    BY <2>2, SettersHere
  <2>7. OptionsAre(o', i + 1)
    BY <2>1, <2>2, <2>6, NothingSet DEF ScanRight
  <2> QED BY <2>1, <2>4, <2>5, <2>7, OptionsOn DEF ScanRight
<1> QED BY <1>1, <1>2, <1>3, <1>4, <1>5, <1>6 DEF ScanSteps

LEMMA ScanStep ==
  ASSUME ScanInv, [Next]_vars
  PROVE  ScanInv'
<1>1. CommandsInv' /\ ScanTyped
  BY CommandsStep DEF ScanInv, CommandsInv, ToolTyped
<1>2. CASE UNCHANGED vars
  <2>1. UNCHANGED <<env, args, i, pos, onlyPositional, phase>> /\ o' = o
    BY <1>2 DEF vars, optionVars
  <2>2. ScanRight'
    BY <2>1, ScanSame DEF ScanInv
  <2> QED BY <1>1, <2>1, <2>2 DEF ScanInv
<1>3. CASE TakeArgument
  <2>1. ScanSteps
    BY <1>3 DEF TakeArgument, ScanSteps
  <2>2. phase = "scan" /\ phase' \in {"scan", "help", "version", "exit"}
    BY <1>1, <2>1, ScanStepTyped
  <2>3. CASE phase' = "scan"
    BY <1>1, <2>1, <2>3, ScanTaken DEF ScanInv, Verbs
  <2>4. CASE phase' # "scan"
    <3>1. UNCHANGED optionVars
      BY <2>1, <2>2, <2>4, Zenon
         DEF ScanSteps, EndOptions, SetFlag, SetValue, PrintAndExit, UnknownOption, Positional
    <3>2. UNCHANGED <<env, args, i, pos, onlyPositional>> /\ o' = o
      BY <3>1 DEF optionVars
    <3>3. ScanRight'
      BY <3>2, ScanSame DEF ScanInv
    <3> QED BY <1>1, <2>2, <3>3 DEF ScanInv, Verbs
  <2> QED BY <2>3, <2>4
<1>4. CASE Start
  <2>1. i > Len(args) /\ UNCHANGED <<env, args, i, pos, onlyPositional>>
    BY <1>4, Zenon DEF Start, Dispatch
  <2>2. \A f \in KnownFields \cup {"recurse"} : o'[f] = o[f]
    <3>1. "fmt" \notin KnownFields \cup {"recurse"} /\ "values" \notin KnownFields \cup {"recurse"}
      BY DEF KnownFields, PlainFields, Fields
    <3>2. DOMAIN o = OptionNames
      BY <1>1 DEF ScanTyped, OptionSets, OptionNames
    <3>3. \A g \in KnownFields \cup {"recurse"} : g \in OptionNames /\ g # "fmt" /\ g # "values"
      BY <3>1, FieldNames
    <3>5. o' = o \/ \E f, b : o' = [o EXCEPT !.fmt = f, !.values = b]
      BY <1>4, Zenon DEF Start, Dispatch
    <3>6. CASE o' = o
      BY <3>6
    <3>7. CASE \E f, b : o' = [o EXCEPT !.fmt = f, !.values = b]
      <4>1. PICK f, b : o' = [o EXCEPT !.fmt = f, !.values = b]
        BY <3>7, Zenon
      <4>2. ASSUME NEW g \in KnownFields \cup {"recurse"}
            PROVE  [o EXCEPT !.fmt = f, !.values = b][g] = o[g]
        <5>1. g \in OptionNames /\ g # "fmt" /\ g # "values"
          BY <3>3
        <5> QED BY <3>2, <5>1
      <4> QED BY <4>1, <4>2, Zenon
    <3> QED BY <3>5, <3>6, <3>7, Zenon
  <2>3. UNCHANGED <<env, args, i, pos, onlyPositional>> /\ ScanRight
    BY <2>1 DEF ScanInv
  <2>4. ScanRight'
    BY <2>2, <2>3, ScanSame
  <2>5. i \in 1..(Len(args) + 1) /\ Len(args) \in Nat /\ i > Len(args)
    BY <1>1, <2>1, <2>3, ArgsCount DEF ScanRight, RolesRight
  <2>6. i' = Len(args') + 1
    BY <2>3, <2>5
  <2> QED BY <1>1, <2>4, <2>6 DEF ScanInv
<1>5. CASE LstStart
  <2>1. /\ UNCHANGED <<env, args, i, pos, onlyPositional>> /\ phase' = "list"
        /\ \E b : o' = [o EXCEPT !.useColor = b]
    BY <1>5, Zenon DEF LstStart
  <2>2. \A f \in KnownFields \cup {"recurse"} : o'[f] = o[f]
    <3>1. "useColor" \notin KnownFields \cup {"recurse"}
      BY DEF KnownFields, PlainFields, Fields
    <3> QED BY <1>1, <2>1, <3>1, FieldNames DEF ScanTyped, OptionSets, OptionNames
  <2>3. ScanRight'
    BY <2>1, <2>2, ScanSame DEF ScanInv
  <2> QED BY <1>1, <2>1, <2>3 DEF ScanInv, Verbs
<1>6. CASE \/ ReadStdin \/ SetValueOf \/ CmdGet \/ CmdLen \/ CmdDel \/ CmdLimits \/ CmdLoad
           \/ PrintHelp \/ PrintVersion \/ LstList \/ LstRow \/ LstRowsEnd \/ LstTail
  <2>1. UNCHANGED optionVars /\ phase' \notin Verbs
    <3>1. ASSUME NEW bytes, NEW b, PrintOut(bytes, b) PROVE phase' = "exit"
      BY <3>1, Zenon DEF PrintOut, Exit
    <3>2. \A status : Fail(status) => phase' = "exit"
      BY DEF Fail, Exit
    <3>3. \A line : Say(line) => phase' = "exit"
      BY <3>1, Zenon DEF Say
    <3>4. {"set", "exit", "rows", "tail"} \cap Verbs = {}
      BY DEF Verbs
    <3>5. phase' \in {"set", "exit", "rows", "tail"}
      BY <1>6, <3>1, <3>2, <3>3
         DEF ReadStdin, SetValueOf, CmdGet, CmdLen, CmdDel, CmdLimits, CmdLoad, PrintHelp,
             PrintVersion, LstList, LstRow, LstRowsEnd, LstTail, Exit
    <3>6. UNCHANGED optionVars
      BY <1>6, Zenon
         DEF ReadStdin, SetValueOf, CmdGet, CmdLen, CmdDel, CmdLimits, CmdLoad, PrintHelp,
             PrintVersion, LstList, LstRow, LstRowsEnd, LstTail
    <3> QED BY <3>4, <3>5, <3>6
  <2>2. UNCHANGED <<env, args, i, pos, onlyPositional>> /\ o' = o
    BY <2>1 DEF optionVars
  <2>3. ScanRight'
    BY <2>2, ScanSame DEF ScanInv
  <2> QED BY <1>1, <2>1, <2>3 DEF ScanInv
<1> QED BY <1>2, <1>3, <1>4, <1>5, <1>6 DEF Next

LEMMA AllTaken ==
  ASSUME ScanTyped, ScanRight, i = Len(args) + 1, NEW f
  PROVE  /\ DOMAIN args = 1..Len(args) /\ Len(args) \in Nat
         /\ LastOf(f, i) = IF Setters(f) = {} THEN 0 ELSE Max(Setters(f))
         /\ LastOf(f, i) = 0 <=> Setters(f) = {}
         /\ Setters(f) # {} => TextAt(LastOf(f, i)) = LastText(f)
<1>1. DOMAIN args = 1..Len(args) /\ Len(args) \in Nat
  <2>1. args \in Seq(Arguments)
    BY OptionsAssumption DEF ScanTyped
  <2> QED BY <2>1, SeqTyped
<1>2. Setters(f) \in SUBSET (1..Len(args))
  BY <1>1 DEF Setters
<1>3. Below(f, i) = Setters(f)
  <2>1. \A m \in Setters(f) : m < i
    BY <1>1, <1>2
  <2> QED BY <2>1 DEF Below
<1>4. LastOf(f, i) = IF Setters(f) = {} THEN 0 ELSE Max(Setters(f))
  BY <1>3 DEF LastOf
<1>5. Setters(f) # {} => Max(Setters(f)) # 0
  <2>1. Setters(f) # {} => Max(Setters(f)) \in Setters(f)
    BY <1>1, <1>2, MaxOfSome
  <2> QED BY <1>1, <1>2, <2>1
<1>6. Setters(f) # {} => TextAt(LastOf(f, i)) = LastText(f)
  BY <1>4, Zenon DEF LastText, TextAt
<1> QED BY <1>1, <1>4, <1>5, <1>6

-----------------------------------------------------------------------------
(* The format and the values, which the choice of the command sets again   *)

ShapeIs(set, n) ==
  \A f \in ShapeFields :
    set[f] = IF LastOf(f, n) = 0 THEN Default[f] ELSE Flag[Spelling(Dashed(LastOf(f, n)))].value

ShapeRight ==
  /\ o.fmt = IF Setters("cols") # {} /\ LastFlag("fmt") \notin {"Md", "Csv"} THEN "Table"
             ELSE LastFlag("fmt")
  /\ o.values = (LastFlag("values") \/ pos[1].name \in {"dump", "dmp"})

\* Until the command is chosen these are what the flags so far have made them.
ShapeInv ==
  /\ ScanInv
  /\ phase = "scan" => ShapeIs(o, i) /\ (colsGiven <=> LastOf("cols", i) # 0)
  /\ phase \in Verbs => ShapeRight

LEMMA SameFlags ==
  ASSUME UNCHANGED <<env, args>>
  PROVE  \A f : Setters(f)' = Setters(f) /\ LastFlag(f)' = LastFlag(f)
<1>1. \A m : Dashed(m)' = Dashed(m)
  BY DEF Dashed
<1>2. Default' = Default
  BY DEF Default
<1>3. \A f : Setters(f)' = Setters(f)
  BY <1>1, SameRoles DEF Setters
<1> QED BY <1>1, <1>2, <1>3 DEF LastFlag

\* The same, read again after the step.
LEMMA ShapeOn ==
  ASSUME UNCHANGED <<env, args>>, NEW n, n = i', ShapeIs(o', n)
  PROVE  ShapeIs(o, i)'
<1>1. Default' = Default /\ \A m : Dashed(m)' = Dashed(m)
  BY DEF Default, Dashed
<1>2. \A f, m : LastOf(f, m)' = LastOf(f, m)
  BY SameReading
<1>3. ASSUME NEW f \in ShapeFields
      PROVE  (o[f] = IF LastOf(f, i) = 0 THEN Default[f]
                     ELSE Flag[Spelling(Dashed(LastOf(f, i)))].value)'
  <2>1. LastOf(f, i)' = LastOf(f, n)'
    BY DEF LastOf, Below
  <2>2. LastOf(f, i)' = LastOf(f, n)
    BY <1>2, <2>1
  <2>3. Dashed(LastOf(f, i))' = Dashed(LastOf(f, n))
    BY <2>2 DEF Dashed
  <2> QED BY <1>1, <2>2, <2>3 DEF ShapeIs
<1> QED BY <1>3 DEF ShapeIs

LEMMA ShapeTaken ==
  ASSUME ScanTyped, ScanRight, ScanSteps, phase' = "scan", UNCHANGED <<env, args>>,
         ShapeIs(o, i), colsGiven <=> LastOf("cols", i) # 0
  PROVE  ShapeIs(o', i') /\ (colsGiven' <=> LastOf("cols", i') # 0)
<1>1. CASE EndOptions \/ Positional
  <2>1. i' = i + 1 /\ UNCHANGED <<o, colsGiven>> /\ Scanning /\ RolesRight
        /\ (Positional => ~AtOption) /\ (EndOptions => AtOption /\ Arg(i) = EndWord)
    BY <1>1 DEF EndOptions, Positional, UsageError, Exit, EndWord, AtOption, ScanRight
  <2>2. i \in 1..Len(args) /\ RoleOf[i] = (IF AtOption THEN "option" ELSE "positional")
    BY <2>1, RoleAtScan DEF AtOption
  <2>3. EndOptions => Dashed(i) = EndWord
    BY <2>1, <2>2, ArgIs DEF AtOption
  <2>4. \A f : i \notin Setters(f)
    BY <1>1, <2>1, <2>2, <2>3, SettersHere
  <2>5. i + 1 \in {i + 1, i + 2} /\ i + 1 # i + 2
    BY <2>2
  <2>6. \A f : LastOf(f, i + 1) = LastOf(f, i)
    BY <2>2, <2>4, <2>5, LastOfNext
  <2>7. PICK n : n = i + 1
    OBVIOUS
  <2>8. ShapeIs(o, n) /\ (colsGiven <=> LastOf("cols", n) # 0)
    BY <2>6, <2>7 DEF ShapeIs
  <2>9. o' = o /\ i' = n /\ colsGiven' = colsGiven
    BY <2>1, <2>7
  <2> QED BY <2>8, <2>9
<1>2. CASE SetFlag
  <2>1. i \in 1..Len(args) /\ i' = i + 1 /\ UNCHANGED colsGiven /\ i # 0
    <3>1. i \in 1..Len(args)
      BY <1>2, FlagTaken DEF ScanRight
    <3>2. i' = i + 1 /\ UNCHANGED colsGiven
      BY <1>2, Zenon DEF SetFlag
    <3> QED BY <3>1, <3>2
  <2>2. PICK f0, v0 : /\ Flag[Spelling(Dashed(i))] = [field |-> f0, value |-> v0]
                      /\ f0 \in Switches \cup {"fmt", "color"}
                      /\ \A f \in OptionNames : o'[f] = IF f = f0 THEN v0 ELSE o[f]
                      /\ \A f : LastOf(f, i + 1) = IF f = f0 THEN i ELSE LastOf(f, i)
    BY <1>2, FlagTaken DEF ScanRight
  <2>3. Flag[Spelling(Dashed(i))].value = v0
    BY <2>2
  <2>4. ASSUME NEW f \in ShapeFields
        PROVE  o'[f] = IF LastOf(f, i + 1) = 0 THEN Default[f]
                       ELSE Flag[Spelling(Dashed(LastOf(f, i + 1)))].value
    <3>1. f \in OptionNames
      BY FieldNames DEF KeptFields
    <3>2. CASE f = f0
      BY <2>1, <2>2, <2>3, <3>1, <3>2
    <3>3. CASE f # f0
      <4>1. o'[f] = o[f] /\ LastOf(f, i + 1) = LastOf(f, i)
        BY <2>2, <3>1, <3>3
      <4> QED BY <4>1 DEF ShapeIs
    <3> QED BY <3>2, <3>3
  <2>5. f0 # "cols"
    BY <2>2, FieldNames DEF Fields
  <2>6. LastOf("cols", i + 1) = LastOf("cols", i)
    BY <2>2, <2>5
  <2> QED BY <2>1, <2>4, <2>6 DEF ShapeIs
<1>3. CASE SetValue
  <2>1. RolesRight /\ OptionsAre(o, i) /\ i # 0
    BY DEF ScanRight, ScanTyped
  <2>2. PICK f0 \in Fields :
          /\ \A f : LastOf(f, i') = IF f = f0 THEN i ELSE LastOf(f, i)
          /\ \A f \in ShapeFields : o'[f] = o[f]
          /\ colsGiven' = (colsGiven \/ f0 = "cols")
    BY <1>3, <2>1, ValueIs
  <2>3. \A f \in ShapeFields : f # f0
    BY FieldNames
  <2>4. \A f \in ShapeFields : LastOf(f, i') = LastOf(f, i)
    BY <2>2, <2>3
  <2>5. ShapeIs(o', i')
    BY <2>2, <2>4 DEF ShapeIs
  <2>6. colsGiven' <=> LastOf("cols", i') # 0
    BY <2>1, <2>2
  <2> QED BY <2>5, <2>6
<1>4. CASE PrintAndExit \/ UnknownOption
  BY <1>4 DEF PrintAndExit, UnknownOption, UsageError, Exit, Prints
<1> QED BY <1>1, <1>2, <1>3, <1>4 DEF ScanSteps

\* The command is chosen once every argument is taken.
LEMMA ShapeChosen ==
  ASSUME ScanTyped, ScanRight, Start, phase' # "exit", ShapeIs(o, i), colsGiven <=> LastOf("cols", i) # 0
  PROVE  ShapeRight'
<1>1. /\ i > Len(args) /\ UNCHANGED <<env, args, pos>>
      /\ o' = [o EXCEPT !.fmt = IF colsGiven /\ @ \notin {"Md", "Csv"} THEN "Table" ELSE @,
                        !.values = @ \/ pos[1].name \in {"dump", "dmp"}]
  BY Zenon DEF Start, Dispatch, UsageError, Exit
<1>2. i = Len(args) + 1
  BY <1>1, ArgsCount DEF ScanRight, RolesRight
<1>3. \A f : /\ LastOf(f, i) = IF Setters(f) = {} THEN 0 ELSE Max(Setters(f))
             /\ LastOf(f, i) = 0 <=> Setters(f) = {}
  BY <1>2, AllTaken
<1>4. ASSUME NEW f \in ShapeFields PROVE o[f] = LastFlag(f)
  BY <1>3 DEF ShapeIs, LastFlag
<1>5. o.fmt = LastFlag("fmt") /\ o.values = LastFlag("values")
  BY <1>4 DEF ShapeFields
<1>6. o \in OptionSets /\ (colsGiven <=> Setters("cols") # {})
  BY <1>3 DEF ScanTyped
<1>7. /\ o'.fmt = IF colsGiven /\ o.fmt \notin {"Md", "Csv"} THEN "Table" ELSE o.fmt
      /\ o'.values = (o.values \/ pos[1].name \in {"dump", "dmp"})
  BY <1>1, <1>6 DEF OptionSets
<1>8. Setters("cols")' = Setters("cols") /\ LastFlag("fmt")' = LastFlag("fmt")
      /\ LastFlag("values")' = LastFlag("values") /\ pos' = pos
  BY <1>1, SameFlags
<1> QED BY <1>5, <1>6, <1>7, <1>8 DEF ShapeRight

LEMMA ShapeAtFirst ==
  ASSUME Init
  PROVE  ShapeInv
<1>1. ScanInv
  BY ScanAtFirst
<1>2. i = 1 /\ o = Default /\ colsGiven = FALSE /\ phase \notin Verbs
  BY DEF Init, ScanInit, Verbs
<1>3. \A f : LastOf(f, i) = 0
  <2>1. \A f : \A m \in Setters(f) : ~(m < 1)
    <3>1. DOMAIN args = 1..Len(args) /\ Len(args) \in Nat
      <4>1. args \in Seq(Arguments)
        BY <1>1, OptionsAssumption DEF ScanInv, CommandsInv, ToolTyped, ScanTyped
      <4> QED BY <4>1, SeqTyped
    <3> QED BY <3>1 DEF Setters
  <2> QED BY <1>2, <2>1 DEF LastOf, Below
<1> QED BY <1>1, <1>2, <1>3 DEF ShapeInv, ShapeIs

LEMMA ShapeStep ==
  ASSUME ShapeInv, [Next]_vars
  PROVE  ShapeInv'
<1>1. ScanInv' /\ ScanTyped /\ ScanRight
  BY ScanStep DEF ShapeInv, ScanInv, CommandsInv, ToolTyped
<1>2. CASE UNCHANGED vars
  <2>1. UNCHANGED <<env, args>> /\ o' = o /\ i' = i /\ UNCHANGED <<colsGiven, pos, phase>>
    BY <1>2 DEF vars, optionVars
  <2>2. phase = "scan" => ShapeIs(o, i)' /\ LastOf("cols", i)' = LastOf("cols", i)
    <3>1. ShapeIs(o', i) <=> ShapeIs(o, i)
      BY <2>1
    <3>2. LastOf("cols", i)' = LastOf("cols", i)
      BY <2>1, SameFlags DEF LastOf, Below
    <3> QED BY <2>1, <3>1, <3>2, ShapeOn DEF ShapeInv
  <2>3. phase \in Verbs => ShapeRight'
    <3>1. Setters("cols")' = Setters("cols") /\ LastFlag("fmt")' = LastFlag("fmt")
          /\ LastFlag("values")' = LastFlag("values")
      BY <2>1, SameFlags
    <3> QED BY <2>1, <3>1 DEF ShapeInv, ShapeRight
  <2> QED BY <1>1, <2>1, <2>2, <2>3 DEF ShapeInv
<1>3. CASE TakeArgument
  <2>1. ScanSteps
    BY <1>3 DEF TakeArgument, ScanSteps
  <2>2. phase = "scan" /\ phase' \notin Verbs
    BY <1>1, <2>1, ScanStepTyped DEF Verbs
  <2>3. UNCHANGED <<env, args>>
    BY <2>1, Zenon
       DEF ScanSteps, EndOptions, SetFlag, SetValue, PrintAndExit, UnknownOption, Positional, optionVars
  <2>4. ASSUME phase' = "scan"
        PROVE  ShapeIs(o, i)' /\ (colsGiven <=> LastOf("cols", i) # 0)'
    <3>1. ShapeIs(o', i') /\ (colsGiven' <=> LastOf("cols", i') # 0)
      BY <1>1, <2>1, <2>2, <2>3, <2>4, ShapeTaken DEF ShapeInv
    <3>2. PICK n : n = i'
      OBVIOUS
    <3>3. ShapeIs(o', n) /\ LastOf("cols", n) = LastOf("cols", i')
      BY <3>1, <3>2
    <3>4. LastOf("cols", i)' = LastOf("cols", n)
      BY <2>3, <3>2, SameFlags DEF LastOf, Below
    <3> QED BY <2>3, <3>1, <3>2, <3>3, <3>4, ShapeOn
  <2> QED BY <1>1, <2>2, <2>4 DEF ShapeInv
<1>4. CASE Start
  <2>1. phase = "scan" /\ phase' # "scan"
    <3>1. \A name \in DOMAIN Arity : Command(name) # "scan"
      BY DEF Arity, OnAttribute, OnPath, Command
    <3> QED BY <1>4, <3>1 DEF Start, Dispatch, UsageError, Exit
  <2>2. phase' # "exit" => ShapeRight'
    BY <1>1, <1>4, <2>1, ShapeChosen DEF ShapeInv
  <2> QED BY <1>1, <2>1, <2>2 DEF ShapeInv, Verbs
<1>5. CASE \/ ReadStdin \/ SetValueOf \/ CmdGet \/ CmdLen \/ CmdDel \/ CmdLimits \/ CmdLoad
           \/ PrintHelp \/ PrintVersion \/ LstStart \/ LstList \/ LstRow \/ LstRowsEnd \/ LstTail
  <2>1. phase' \notin Verbs \cup {"scan"}
    <3>1. ASSUME NEW bytes, NEW b, PrintOut(bytes, b) PROVE phase' = "exit"
      BY <3>1, Zenon DEF PrintOut, Exit
    <3>2. \A status : Fail(status) => phase' = "exit"
      BY DEF Fail, Exit
    <3>3. \A line : Say(line) => phase' = "exit"
      BY <3>1, Zenon DEF Say
    <3>4. {"set", "exit", "list", "rows", "tail"} \cap (Verbs \cup {"scan"}) = {}
      BY DEF Verbs
    <3>5. phase' \in {"set", "exit", "list", "rows", "tail"}
      BY <1>5, <3>1, <3>2, <3>3
         DEF ReadStdin, SetValueOf, CmdGet, CmdLen, CmdDel, CmdLimits, CmdLoad, PrintHelp,
             PrintVersion, LstStart, LstList, LstRow, LstRowsEnd, LstTail, Exit
    <3> QED BY <3>4, <3>5
  <2> QED BY <1>1, <2>1 DEF ShapeInv
<1> QED BY <1>2, <1>3, <1>4, <1>5 DEF Next

LEMMA OptionsRight ==
  ASSUME ScanTyped, ScanRight, i = Len(args) + 1
  PROVE  (ShapeRight => LastWins) /\ NumbersExact
<1>1. \A f : /\ LastOf(f, i) = IF Setters(f) = {} THEN 0 ELSE Max(Setters(f))
             /\ LastOf(f, i) = 0 <=> Setters(f) = {}
             /\ Setters(f) # {} => TextAt(LastOf(f, i)) = LastText(f)
  BY AllTaken
<1>2. \A f \in KnownFields : FieldIs(o[f], f, LastOf(f, i))
  BY DEF ScanRight, OptionsAre
<1>3. ASSUME NEW f \in PlainFields
      PROVE  o[f] = LastFlag(f)
  <2>1. FieldIs(o[f], f, LastOf(f, i))
    BY <1>2 DEF KnownFields
  <2>2. o[f] = IF LastOf(f, i) = 0 THEN Default[f] ELSE Flag[Spelling(Dashed(LastOf(f, i)))].value
    BY <2>1 DEF FieldIs
  <2>3. CASE Setters(f) = {}
    BY <1>1, <2>2, <2>3 DEF LastFlag
  <2>4. CASE Setters(f) # {}
    <3>1. LastOf(f, i) # 0 /\ LastOf(f, i) = Max(Setters(f))
      BY <1>1, <2>4
    <3> QED BY <2>2, <2>4, <3>1 DEF LastFlag
  <2> QED BY <2>3, <2>4
<1>4. o.recurse = (Setters("recurse") \cup Setters("maxDepth") # {})
  <2>1. o.recurse <=> LastOf("recurse", i) # 0 \/ LastOf("maxDepth", i) # 0
    BY DEF ScanRight, OptionsAre
  <2>2. o.recurse \in BOOLEAN
    BY DEF ScanTyped, OptionSets
  <2>3. o.recurse <=> Setters("recurse") # {} \/ Setters("maxDepth") # {}
    BY <1>1, <2>1
  <2> QED BY <2>2, <2>3
<1>5. ASSUME NEW f \in Fields
      PROVE  IF Setters(f) = {} THEN f # "root" => o[f] = Default[f] ELSE Given(o[f], f, LastText(f))
  <2>1. FieldIs(o[f], f, LastOf(f, i)) /\ f \notin PlainFields
    BY <1>2, FieldNames DEF KnownFields
  <2>2. CASE Setters(f) = {}
    <3>1. LastOf(f, i) = 0
      BY <1>1, <2>2
    <3> QED BY <2>1, <2>2, <3>1 DEF FieldIs
  <2>3. CASE Setters(f) # {}
    <3>1. LastOf(f, i) # 0 /\ TextAt(LastOf(f, i)) = LastText(f)
      BY <1>1, <2>3
    <3>2. Given(o[f], f, TextAt(LastOf(f, i)))
      BY <2>1, <3>1 DEF FieldIs
    <3> QED BY <2>3, <3>1, <3>2
  <2> QED BY <2>2, <2>3
<1>6. Default.cols = <<>>
  BY DEF Default
<1>7. /\ "cols" \in Fields /\ "root" \in Fields /\ Numerals \subseteq Fields
      /\ "root" \notin Numerals /\ "cols" \notin Numerals
  BY DEF Fields, Numerals
<1>8. o.cols = IF Setters("cols") = {} THEN <<>>
               ELSE [n \in DOMAIN LastText("cols") |-> ParseDigits(LastText("cols")[n])]
  BY <1>5, <1>6, <1>7 DEF Given
<1>9. \A n \in DOMAIN o.cols : o.cols[n] = Number10(LastText("cols")[n])
  <2>1. CASE Setters("cols") = {}
    BY <1>8, <2>1
  <2>2. CASE Setters("cols") # {}
    <3>1. \A n \in DOMAIN LastText("cols") : o["cols"][n] = Number10(LastText("cols")[n])
      BY <1>5, <1>7, <2>2 DEF Given
    <3>2. DOMAIN o.cols = DOMAIN LastText("cols")
      BY <1>8, <2>2
    <3> QED BY <3>1, <3>2
  <2> QED BY <2>1, <2>2
<1>10. Setters("root") # {} => o.root = LastText("root")
  BY <1>5, <1>7 DEF Given
<1>11. ASSUME NEW f \in Numerals
       PROVE  o[f] = IF Setters(f) = {} THEN Default[f] ELSE Number10(LastText(f)[1])
  BY <1>5, <1>7 DEF Given
<1>12. o.maxDepth <= WordMax \div 2
  BY DEF ScanRight, OptionsAre
<1> DEFINE rest == {n \in DOMAIN args : RoleOf[n] = "positional"}
<1>13. Len(pos) = Cardinality(rest) /\ \A n \in rest : pos[Cardinality({m \in rest : m <= n})] = args[n]
  <2>1. DOMAIN args = 1..Len(args) /\ Len(args) \in Nat
    BY AllTaken
  <2>2. rest = Rest(i)
    BY <2>1 DEF Rest
  <2>3. ASSUME NEW n \in rest PROVE {m \in rest : m <= n} = Rest(n + 1)
    <3>1. n \in 1..Len(args)
      BY <2>1
    <3>2. \A m : m \in 1..Len(args) /\ m <= n <=> m \in 1..((n + 1) - 1)
      BY <2>1, <3>1
    <3> QED BY <2>1, <3>2 DEF Rest
  <2>4. Len(pos) = Cardinality(Rest(i)) /\ \A n \in Rest(i) : pos[Cardinality(Rest(n + 1))] = args[n]
    BY DEF ScanRight, PosRight
  <2> HIDE DEF rest
  <2>5. ASSUME NEW n \in rest PROVE pos[Cardinality({m \in rest : m <= n})] = args[n]
    BY <2>2, <2>3, <2>4, Zenon
  <2> QED BY <2>2, <2>4, <2>5
<1>14. ShapeRight => LastWins
  BY <1>3, <1>4, <1>8, <1>10, <1>13, Zenon DEF LastWins, ShapeRight
<1>15. NumbersExact
  BY <1>9, <1>11, <1>12, Zenon DEF NumbersExact, Numerals
<1> QED BY <1>14, <1>15

LEMMA OptionsFinal ==
  ASSUME ShapeInv
  PROVE  LastWins /\ NumbersExact
<1>1. CASE phase \in Verbs
  BY <1>1, OptionsRight DEF ShapeInv, ScanInv, CommandsInv, ToolTyped
<1>2. CASE phase \notin Verbs
  BY <1>2, Zenon DEF LastWins, NumbersExact
<1> QED BY <1>1, <1>2

\* Whatever the order of the arguments, each option is in effect with the last
\* value it was given, the format with the exception --cols makes, and the
\* arguments that are left are the positional ones (run of main.rs, opt_value).
THEOREM LastOneWins == Spec => []LastWins
<1>1. Init => ShapeInv
  BY ShapeAtFirst
<1>2. ShapeInv /\ [Next]_vars => ShapeInv'
  BY ShapeStep
<1>3. ShapeInv => LastWins
  BY OptionsFinal
<1> QED BY <1>1, <1>2, <1>3, PTL DEF Spec

\* A number that was accepted is the number that was written, however many
\* digits it has (parse_digits of main.rs), and a depth fits its type.
THEOREM NumbersAreExact == Spec => []NumbersExact
<1>1. Init => ShapeInv
  BY ShapeAtFirst
<1>2. ShapeInv /\ [Next]_vars => ShapeInv'
  BY ShapeStep
<1>3. ShapeInv => NumbersExact
  BY OptionsFinal
<1> QED BY <1>1, <1>2, <1>3, PTL DEF Spec

-----------------------------------------------------------------------------
(* Characters of a line                                                    *)

\* There is a character at s[m], and it is no surrogate.
Reads(s, m) == CodePointAt(s, m).n # 0 /\ CodePointAt(s, m).cp \notin Surrogate

\* Places where characters begin, or the text ends.
Closed(s, B) ==
  /\ B \subseteq 1..(Len(s) + 1) /\ 1 \in B
  /\ \A m \in B : m <= Len(s) => Reads(s, m) /\ m + CodePointAt(s, m).n \in B

\* A line that can be read from its start to its end, character by character.
Text == {s \in Line : \E B : Closed(s, B)}

\* The branches of CodePointAt once its lead byte and its tail are named.
CodeOf(lead, tail, fits) ==
  IF /\ LengthFor(lead) > 0 /\ fits
     /\ LengthFor(lead) > 1 => tail[1] \in SecondByte(lead)
     /\ \A j \in DOMAIN tail : tail[j] \in ContinuationByte
  THEN [cp |-> FoldLeft(LAMBDA cp, b : cp * 64 + (b % 64), LeadBits(lead, LengthFor(lead)), tail),
        n |-> LengthFor(lead)]
  ELSE Malformed

\* The bytes behind the lead byte, and whether the line has them all.
TailAt(s, m) == SubSeq(s, m + 1, m + LengthFor(s[m]) - 1)
FitsAt(s, m) == m + LengthFor(s[m]) - 1 <= Len(s)

LEMMA CodePointIs ==
  ASSUME NEW s, NEW m
  PROVE  CodePointAt(s, m) = CodeOf(s[m], TailAt(s, m), FitsAt(s, m))
BY Zenon DEF CodePointAt, CodeOf, TailAt, FitsAt

\* What a lead byte announces is a whole character's length, or none.
LEMMA LeadLength ==
  ASSUME NEW b \in Nat
  PROVE  /\ LengthFor(b) \in 0..4
         /\ LengthFor(b) # 0 => b \notin ContinuationByte
         /\ LengthFor(b) = 1 <=> b < 128
<1>1. CASE b \in 0..127
  <2>1. LengthFor(b) = 1
    BY <1>1 DEF LengthFor
  <2> QED BY <1>1, <2>1 DEF ContinuationByte
<1>2. CASE b \in 194..223
  <2>1. LengthFor(b) = 2
    BY <1>2 DEF LengthFor
  <2> QED BY <1>2, <2>1 DEF ContinuationByte
<1>3. CASE b \in 224..239
  <2>1. LengthFor(b) = 3
    BY <1>3 DEF LengthFor
  <2> QED BY <1>3, <2>1 DEF ContinuationByte
<1>4. CASE b \in 240..244
  <2>1. LengthFor(b) = 4
    BY <1>4 DEF LengthFor
  <2> QED BY <1>4, <2>1 DEF ContinuationByte
<1>5. CASE b \notin 0..127 /\ b \notin 194..223 /\ b \notin 224..239 /\ b \notin 240..244
  <2>1. LengthFor(b) = 0
    BY <1>5 DEF LengthFor
  <2> QED BY <1>5, <2>1
<1> QED BY <1>1, <1>2, <1>3, <1>4, <1>5

\* A piece of a line, byte by byte.
LEMMA PieceIs ==
  ASSUME NEW s \in Line, NEW a \in 1..(Len(s) + 1), NEW b \in (a - 1)..Len(s)
  PROVE  /\ SubSeq(s, a, b) \in Line /\ Len(SubSeq(s, a, b)) = b - a + 1
         /\ \A l \in 1..(b - a + 1) : SubSeq(s, a, b)[l] = s[a + l - 1]
<1>1. Len(s) \in Nat
  BY SeqTyped DEF Line
<1> QED BY <1>1, SubSeqProperties DEF Line

\* The bytes behind the lead.
LEMMA TailIs ==
  ASSUME NEW s \in Line, NEW m \in 1..Len(s), FitsAt(s, m), LengthFor(s[m]) # 0
  PROVE  /\ TailAt(s, m) \in Line /\ Len(TailAt(s, m)) = LengthFor(s[m]) - 1
         /\ \A l \in 1..(LengthFor(s[m]) - 1) : TailAt(s, m)[l] = s[m + l]
<1>1. s[m] \in Nat /\ Len(s) \in Nat
  BY SeqTyped DEF Line
<1>2. PICK n \in 0..4 : n = LengthFor(s[m])
  BY <1>1, LeadLength
<1>0. PICK a \in 1..(Len(s) + 1) : a = m + 1
  BY <1>1
<1>3. PICK b \in (a - 1)..Len(s) : b = m + n - 1
  BY <1>0, <1>1, <1>2 DEF FitsAt
<1>4. TailAt(s, m) = SubSeq(s, a, b)
  BY <1>0, <1>2, <1>3 DEF TailAt
<1>5. /\ SubSeq(s, a, b) \in Line /\ Len(SubSeq(s, a, b)) = b - a + 1
      /\ \A l \in 1..(b - a + 1) : SubSeq(s, a, b)[l] = s[a + l - 1]
  BY PieceIs
<1>6. b - a + 1 = n - 1 /\ \A l \in 1..(n - 1) : a + l - 1 = m + l
  BY <1>0, <1>3
<1>7. \A l \in 1..(n - 1) : SubSeq(s, a, b)[l] = s[m + l]
  BY <1>5, <1>6
<1> QED BY <1>2, <1>4, <1>5, <1>6, <1>7

\* What a character is made of.
LEMMA CharMade ==
  ASSUME NEW s \in Line, NEW m \in 1..Len(s)
  PROVE  /\ CodePointAt(s, m).n \in 0..4
         /\ CodePointAt(s, m).n # 0 =>
              /\ CodePointAt(s, m).n = LengthFor(s[m]) /\ m + CodePointAt(s, m).n - 1 <= Len(s)
              /\ s[m] \notin ContinuationByte
              /\ CodePointAt(s, m).n = 1 <=> s[m] < 128
              /\ \A j \in (m + 1)..(m + CodePointAt(s, m).n - 1) : s[j] \in ContinuationByte
<1>1. s[m] \in Nat /\ Len(s) \in Nat
  BY SeqTyped DEF Line
<1>2. CodePointAt(s, m) = CodeOf(s[m], TailAt(s, m), FitsAt(s, m))
  BY CodePointIs
<1>3. PICK n \in 0..4 : n = LengthFor(s[m])
  BY <1>1, LeadLength
<1>4. CASE CodePointAt(s, m) = Malformed
  BY <1>4 DEF Malformed
<1>5. CASE CodePointAt(s, m) # Malformed
  <2>1. /\ n > 0 /\ FitsAt(s, m) /\ \A j \in DOMAIN TailAt(s, m) : TailAt(s, m)[j] \in ContinuationByte
        /\ \E cp : CodePointAt(s, m) = [cp |-> cp, n |-> n]
    BY <1>2, <1>3, <1>5, Zenon DEF CodeOf
  <2>2. CodePointAt(s, m).n = n
    BY <2>1
  <2>3. m + n - 1 <= Len(s)
    BY <1>3, <2>1 DEF FitsAt
  <2>4. ASSUME NEW j \in (m + 1)..(m + n - 1) PROVE s[j] \in ContinuationByte
    <3>1. PICK t \in Line : t = TailAt(s, m) /\ Len(t) = n - 1 /\ \A l \in 1..(n - 1) : t[l] = s[m + l]
      BY <1>3, <2>1, TailIs
    <3>2. j - m \in 1..(n - 1) /\ m + (j - m) = j
      BY <1>1
    <3>3. DOMAIN t = 1..(n - 1)
      BY <3>1, LineParts
    <3> QED BY <2>1, <3>1, <3>2, <3>3
  <2>5. n = LengthFor(s[m]) /\ n # 0 => s[m] \notin ContinuationByte /\ (n = 1 <=> s[m] < 128)
    BY <1>1, LeadLength
  <2> QED BY <1>3, <2>1, <2>2, <2>3, <2>4, <2>5
<1> QED BY <1>4, <1>5

\* The same bytes are the same character.
Copied(s, m, t, l, n) == \A j \in 0..(n - 1) : l + j <= Len(t) /\ t[l + j] = s[m + j]

\* Copied bytes read as they did where they were copied from.
LEMMA SameCode ==
  ASSUME NEW s \in Line, NEW m \in 1..Len(s), NEW t \in Line, NEW l \in 1..Len(t),
         CodePointAt(s, m).n # 0, Copied(s, m, t, l, CodePointAt(s, m).n)
  PROVE  CodePointAt(t, l) = CodePointAt(s, m)
<1>1. s[m] \in Nat /\ Len(s) \in Nat /\ t[l] \in Nat /\ Len(t) \in Nat
  BY SeqTyped DEF Line
<1>2. PICK n \in 1..4 : n = CodePointAt(s, m).n
  BY CharMade
<1>3. n = LengthFor(s[m]) /\ m + n - 1 <= Len(s)
  BY <1>2, CharMade
<1>4. t[l] = s[m] /\ l + n - 1 <= Len(t)
  <2>1. 0 \in 0..(n - 1) /\ n - 1 \in 0..(n - 1) /\ l + 0 = l /\ m + 0 = m /\ l + (n - 1) = l + n - 1
    OBVIOUS
  <2>2. t[l + 0] = s[m + 0] /\ l + (n - 1) <= Len(t)
    BY <1>2, <2>1 DEF Copied
  <2> QED BY <2>1, <2>2
<1>5. FitsAt(s, m) /\ FitsAt(t, l) /\ FitsAt(s, m) = FitsAt(t, l)
  BY <1>3, <1>4 DEF FitsAt
<1>6. PICK p \in Line : p = TailAt(s, m) /\ Len(p) = n - 1 /\ \A j \in 1..(n - 1) : p[j] = s[m + j]
  BY <1>3, <1>5, TailIs
<1>7. PICK q \in Line : q = TailAt(t, l) /\ Len(q) = n - 1 /\ \A j \in 1..(n - 1) : q[j] = t[l + j]
  <2>1. LengthFor(t[l]) = n
    BY <1>3, <1>4
  <2> QED BY <2>1, <1>5, TailIs
<1>8. p = q
  <2>1. \A j \in 1..(n - 1) : p[j] = q[j]
    BY <1>2, <1>6, <1>7 DEF Copied
  <2> QED BY <1>6, <1>7, <2>1, SeqEqual DEF Line
<1> QED BY <1>4, <1>5, <1>6, <1>7, <1>8, CodePointIs

\* A line is a function on the places 1 to its length.
LEMMA LineLen ==
  ASSUME NEW s \in Line
  PROVE  Len(s) \in Nat /\ DOMAIN s = 1..Len(s) /\ \A n \in 1..Len(s) : s[n] \in Nat
BY SeqTyped DEF Line

\* A text ends where a character would begin.
LEMMA ClosedEnds ==
  ASSUME NEW s \in Line, NEW B, Closed(s, B)
  PROVE  Len(s) + 1 \in B
<1> DEFINE U == {Len(s) + 1 - m : m \in B}
<1>1. Len(s) \in Nat /\ B \subseteq 1..(Len(s) + 1) /\ 1 \in B
  BY LineLen DEF Closed
<1>2. U \subseteq Nat /\ U # {}
  BY <1>1
<1>3. PICK x \in U : \A y \in Nat : y < x => y \notin U
  BY <1>2, LeastOf
<1>4. PICK m \in B : x = Len(s) + 1 - m
  OBVIOUS
<1>5. CASE m <= Len(s)
  <2>1. CodePointAt(s, m).n # 0 /\ m + CodePointAt(s, m).n \in B /\ m \in 1..Len(s)
    BY <1>1, <1>5 DEF Closed, Reads
  <2>2. PICK n \in 1..4 : n = CodePointAt(s, m).n
    BY <2>1, CharMade
  <2>4. PICK l \in B : l = m + n
    BY <2>1, <2>2
  <2>5. l \in 1..(Len(s) + 1) /\ Len(s) + 1 - l \in Nat /\ Len(s) + 1 - l < x
    BY <1>1, <1>4, <2>1, <2>4
  <2>3. Len(s) + 1 - l \in U /\ Len(s) + 1 - l < x /\ Len(s) + 1 - l \in Nat
    BY <2>5
  <2> QED BY <1>3, <2>3
<1>6. CASE ~(m <= Len(s))
  BY <1>1, <1>6
<1> QED BY <1>5, <1>6

\* Reading on from a place of one line in another.
Follows(s, B, m, t, l) ==
  Reads(t, l) /\ \E n \in 1..4 : n = CodePointAt(t, l).n /\ n = CodePointAt(s, m).n /\ m + n \in B

\* Copied to another line, the character is read and the place behind it too.
LEMMA ReadsAlike ==
  ASSUME NEW s \in Line, NEW B, Closed(s, B), NEW m \in B, m <= Len(s), NEW t \in Line,
         NEW l \in 1..Len(t), Copied(s, m, t, l, CodePointAt(s, m).n)
  PROVE  Follows(s, B, m, t, l)
<1>1. m \in 1..Len(s) /\ Reads(s, m) /\ m + CodePointAt(s, m).n \in B
  BY LineLen DEF Closed
<1>2. CodePointAt(t, l) = CodePointAt(s, m)
  BY <1>1, SameCode DEF Reads
<1>3. CodePointAt(s, m).n \in 1..4
  BY <1>1, CharMade DEF Reads
<1> QED BY <1>1, <1>2, <1>3 DEF Reads, Follows

\* One text behind another is a text.
LEMMA TextJoins ==
  ASSUME NEW p \in Text, NEW q \in Text
  PROVE  p \o q \in Text
<1>1. PICK B : Closed(p, B)
  BY DEF Text
<1>2. PICK C : Closed(q, C)
  BY DEF Text
<1>3. p \in Line /\ q \in Line
  BY DEF Text
<1>4. PICK t \in Line : t = p \o q
  BY <1>3, LineParts
<1>5. PICK M \in Nat : M = Len(p)
  BY <1>3, LineLen
<1>6. PICK N \in Nat : N = Len(q)
  BY <1>3, LineLen
<1>7. Len(t) = M + N /\ (\A j \in 1..M : t[j] = p[j]) /\ \A j \in 1..N : t[M + j] = q[j]
  BY <1>3, <1>4, <1>5, <1>6 DEF Line
<1> DEFINE D == {m \in B : m <= M} \cup {M + m : m \in C}
<1>8. B \subseteq 1..(M + 1) /\ 1 \in B /\ C \subseteq 1..(N + 1) /\ 1 \in C
  BY <1>1, <1>2, <1>5, <1>6 DEF Closed
<1>9. D \subseteq 1..(Len(t) + 1) /\ 1 \in D
  <2>1. \A m \in B : m <= M => m \in 1..(Len(t) + 1)
    BY <1>7, <1>8
  <2>2. \A m \in C : M + m \in 1..(Len(t) + 1)
    BY <1>7, <1>8
  <2>3. 1 \in D
    <3>1. CASE M = 0
      <4>1. M + 1 = 1
        BY <3>1
      <4> QED BY <1>8, <4>1
    <3>2. CASE 1 <= M
      BY <1>8, <3>2
    <3> QED BY <3>1, <3>2
  <2> QED BY <2>1, <2>2, <2>3
<1>10. ASSUME NEW m \in B, m <= M PROVE Reads(t, m) /\ m + CodePointAt(t, m).n \in D
  <2>1. m \in 1..Len(p) /\ m \in 1..Len(t)
    BY <1>5, <1>7, <1>8, <1>10
  <2>2. CodePointAt(p, m).n \in 0..4 /\ (CodePointAt(p, m).n # 0 => m + CodePointAt(p, m).n - 1 <= M)
    BY <1>3, <1>5, <2>1, CharMade
  <2>3. Copied(p, m, t, m, CodePointAt(p, m).n)
    BY <1>5, <1>7, <1>8, <2>1, <2>2 DEF Copied
  <2>4. Follows(p, B, m, t, m)
    BY <1>1, <1>3, <1>5, <1>10, <2>1, <2>3, ReadsAlike
  <2>5. PICK n \in 1..4 : n = CodePointAt(t, m).n /\ n = CodePointAt(p, m).n /\ m + n \in B
    BY <2>4 DEF Follows
  <2>6. m + n <= M + 1
    BY <1>8, <2>5
  <2>7. m + n = M + 1 => M + 1 \in {M + l : l \in C}
    BY <1>8
  <2>8. m + n \in D
    BY <2>5, <2>6, <2>7, <1>8
  <2> QED BY <2>4, <2>5, <2>8 DEF Follows
<1>11. ASSUME NEW m \in C, M + m <= Len(t) PROVE Reads(t, M + m) /\ M + m + CodePointAt(t, M + m).n \in D
  <2>1. m \in 1..Len(q) /\ M + m \in 1..Len(t) /\ m <= Len(q)
    BY <1>6, <1>7, <1>8, <1>11
  <2>2. CodePointAt(q, m).n \in 0..4 /\ (CodePointAt(q, m).n # 0 => m + CodePointAt(q, m).n - 1 <= N)
    BY <1>3, <1>6, <2>1, CharMade
  <2>3. Copied(q, m, t, M + m, CodePointAt(q, m).n)
    <3>0. PICK n \in 0..4 : n = CodePointAt(q, m).n
      BY <2>2
    <3> SUFFICES ASSUME NEW j \in 0..(n - 1)
                 PROVE  M + m + j <= Len(t) /\ t[M + m + j] = q[m + j]
      BY <3>0 DEF Copied
    <3>1. m + j \in 1..N /\ M + m + j = M + (m + j)
      BY <1>6, <2>1, <2>2, <3>0
    <3> QED BY <1>7, <3>1
  <2>4. Follows(q, C, m, t, M + m)
    BY <1>2, <1>3, <2>1, <2>3, ReadsAlike
  <2>5. PICK n \in 1..4 : n = CodePointAt(t, M + m).n /\ n = CodePointAt(q, m).n /\ m + n \in C
    BY <2>4 DEF Follows
  <2>6. M + m + n \in D
    <3>1. M + m + n = M + (m + n)
      BY <1>8
    <3> QED BY <2>5, <3>1
  <2> QED BY <2>4, <2>5, <2>6 DEF Follows
<1>12. ASSUME NEW m \in D, m <= Len(t) PROVE Reads(t, m) /\ m + CodePointAt(t, m).n \in D
  <2>1. CASE m \in B /\ m <= M
    BY <1>10, <2>1
  <2>2. CASE \E l \in C : m = M + l
    BY <1>11, <1>12, <2>2
  <2> QED BY <2>1, <2>2
<1> HIDE DEF D
<1>13. Closed(t, D)
  BY <1>9, <1>12 DEF Closed
<1> QED BY <1>4, <1>13 DEF Text

-----------------------------------------------------------------------------
(* Texts cut and put together                                              *)

\* Whatever is no continuation begins a character.
LEMMA StartsClosed ==
  ASSUME NEW s \in Line, NEW B, Closed(s, B), NEW x \in Starts(s)
  PROVE  x \in B
<1> DEFINE U == {m \in B : m <= x}
<1>1. Len(s) \in Nat /\ B \subseteq 1..(Len(s) + 1) /\ 1 \in B
  BY LineLen DEF Closed
<1>2. x \in 1..Len(s) /\ s[x] \notin ContinuationByte
  BY LineLen DEF Starts, StartsCodePoint, OwnByte
<1>3. U \in SUBSET (1..Len(s)) /\ U # {}
  <2>1. 1 \in U
    BY <1>1, <1>2
  <2>2. \A m \in U : m \in 1..Len(s)
    BY <1>1, <1>2
  <2> QED BY <2>1, <2>2
<1>4. PICK m \in U : \A y \in U : m >= y
  BY <1>1, <1>3, MaxOfSome
<1>5. m \in B /\ m \in 1..Len(s) /\ m <= x
  BY <1>1, <1>2
<1>6. CodePointAt(s, m).n # 0 /\ m + CodePointAt(s, m).n \in B
  BY <1>1, <1>5 DEF Closed, Reads
<1>7. PICK n \in 1..4 : n = CodePointAt(s, m).n
  BY <1>5, <1>6, CharMade
<1>8. m + n \notin U
  BY <1>4, <1>5, <1>7
<1>9. x < m + n
  BY <1>2, <1>5, <1>6, <1>7, <1>8
<1>10. \A j \in (m + 1)..(m + n - 1) : s[j] \in ContinuationByte
  BY <1>5, <1>6, <1>7, CharMade
<1>11. x = m
  BY <1>2, <1>5, <1>7, <1>9, <1>10
<1> QED BY <1>5, <1>11

\* A text may be cut where a character begins, or its end is.
LEMMA CutBefore ==
  ASSUME NEW s \in Text, NEW x \in Starts(s) \cup {Len(s) + 1}
  PROVE  SubSeq(s, 1, x - 1) \in Text
<1>1. s \in Line /\ Len(s) \in Nat
  BY LineLen DEF Text
<1>2. PICK B : Closed(s, B)
  BY DEF Text
<1>3. B \subseteq 1..(Len(s) + 1) /\ 1 \in B
  BY <1>2 DEF Closed
<1>4. x \in 1..(Len(s) + 1) /\ (x <= Len(s) => s[x] \notin ContinuationByte)
  BY <1>1, LineLen DEF Starts, StartsCodePoint, OwnByte
<1>5. PICK t \in Line : t = SubSeq(s, 1, x - 1) /\ Len(t) = x - 1 /\ \A j \in 1..(x - 1) : t[j] = s[j]
  <2>1. 1 \in 1..(Len(s) + 1) /\ x - 1 \in (1 - 1)..Len(s)
    BY <1>1, <1>4
  <2>2. /\ SubSeq(s, 1, x - 1) \in Line /\ Len(SubSeq(s, 1, x - 1)) = (x - 1) - 1 + 1
        /\ \A j \in 1..((x - 1) - 1 + 1) : SubSeq(s, 1, x - 1)[j] = s[1 + j - 1]
    BY <1>1, <2>1, PieceIs
  <2>3. (x - 1) - 1 + 1 = x - 1 /\ \A j \in 1..(x - 1) : 1 + j - 1 = j
    BY <1>4
  <2>4. \A j \in 1..(x - 1) : SubSeq(s, 1, x - 1)[j] = s[j]
    BY <2>2, <2>3
  <2> QED BY <2>2, <2>3, <2>4
<1> DEFINE D == {m \in B : m <= x}
<1>6. D \subseteq 1..(Len(t) + 1) /\ 1 \in D
  <2>1. Len(t) + 1 = x /\ 1 <= x
    BY <1>4, <1>5
  <2>2. \A m \in B : m \in 1..(Len(s) + 1) /\ (m <= x => m \in 1..x)
    BY <1>1, <1>3, <1>4
  <2> QED BY <1>3, <2>1, <2>2
<1>7. ASSUME NEW m \in D, m <= Len(t) PROVE Reads(t, m) /\ m + CodePointAt(t, m).n \in D
  <2>1. m \in B /\ m \in 1..Len(s) /\ m \in 1..Len(t) /\ m < x
    BY <1>3, <1>4, <1>5, <1>7
  <2>2. CodePointAt(s, m).n # 0 /\ m + CodePointAt(s, m).n \in B
    BY <1>2, <2>1 DEF Closed, Reads
  <2>3. PICK n \in 1..4 : n = CodePointAt(s, m).n
    BY <1>1, <2>1, <2>2, CharMade
  <2>4. m + n - 1 <= Len(s) /\ \A j \in (m + 1)..(m + n - 1) : s[j] \in ContinuationByte
    BY <1>1, <2>1, <2>2, <2>3, CharMade
  <2>5. m + n <= x
    BY <1>1, <1>4, <2>1, <2>4
  <2>6. Copied(s, m, t, m, n)
    <3> SUFFICES ASSUME NEW j \in 0..(n - 1) PROVE m + j <= Len(t) /\ t[m + j] = s[m + j]
      BY DEF Copied
    <3>1. PICK y \in 1..(x - 1) : y = m + j
      BY <1>4, <2>1, <2>5
    <3> QED BY <1>4, <1>5, <3>1
  <2>7. Follows(s, B, m, t, m)
    BY <1>1, <1>2, <2>1, <2>3, <2>6, ReadsAlike
  <2>8. CodePointAt(t, m).n = n /\ m + n \in B
    BY <2>3, <2>7 DEF Follows
  <2> QED BY <2>5, <2>7, <2>8 DEF Follows
<1> HIDE DEF D
<1>8. Closed(t, D)
  BY <1>6, <1>7 DEF Closed
<1> QED BY <1>5, <1>8 DEF Text

\* What is left behind such a cut is text too.
LEMMA CutFrom ==
  ASSUME NEW s \in Text, NEW x \in Starts(s) \cup {1}
  PROVE  SubSeq(s, x, Len(s)) \in Text
<1>1. s \in Line /\ Len(s) \in Nat
  BY LineLen DEF Text
<1>2. PICK B : Closed(s, B)
  BY DEF Text
<1>3. B \subseteq 1..(Len(s) + 1) /\ 1 \in B
  BY <1>2 DEF Closed
<1>4. x \in B /\ x \in 1..(Len(s) + 1)
  BY <1>1, <1>2, <1>3, StartsClosed
<1>5. PICK N \in Nat : N = Len(s) - x + 1
  BY <1>1, <1>4
<1>6. PICK t \in Line : t = SubSeq(s, x, Len(s)) /\ Len(t) = N /\ \A j \in 1..N : t[j] = s[x + j - 1]
  <2>1. Len(s) \in (x - 1)..Len(s)
    BY <1>1, <1>4
  <2> QED BY <1>1, <1>4, <1>5, <2>1, PieceIs
<1> DEFINE D == {m - x + 1 : m \in {l \in B : l >= x}}
<1>7. D \subseteq 1..(Len(t) + 1) /\ 1 \in D
  <2>1. \A m \in B : m >= x => m - x + 1 \in 1..(Len(t) + 1)
    BY <1>1, <1>3, <1>4, <1>5, <1>6
  <2>2. x - x + 1 = 1 /\ x >= x
    BY <1>4
  <2> QED BY <1>4, <2>1, <2>2
<1>8. ASSUME NEW m \in B, m >= x, m - x + 1 <= Len(t)
      PROVE  Reads(t, m - x + 1) /\ m - x + 1 + CodePointAt(t, m - x + 1).n \in D
  <2>0. PICK l \in 1..Len(t) : l = m - x + 1
    <3>1. m \in Int /\ x \in Int /\ m - x + 1 >= 1
      BY <1>3, <1>4, <1>8
    <3>2. m - x + 1 \in 1..Len(t)
      BY <1>5, <1>6, <1>8, <3>1
    <3> QED BY <3>2
  <2>1. m \in 1..Len(s) /\ m <= Len(s)
    BY <1>1, <1>3, <1>4, <1>5, <1>6, <1>8
  <2>2. CodePointAt(s, m).n # 0 /\ m + CodePointAt(s, m).n \in B
    BY <1>2, <2>1 DEF Closed, Reads
  <2>3. PICK n \in 1..4 : n = CodePointAt(s, m).n
    BY <1>1, <2>1, <2>2, CharMade
  <2>4. m + n - 1 <= Len(s)
    BY <1>1, <2>1, <2>2, <2>3, CharMade
  <2>5. Copied(s, m, t, l, n)
    <3> SUFFICES ASSUME NEW j \in 0..(n - 1) PROVE l + j <= Len(t) /\ t[l + j] = s[m + j]
      BY DEF Copied
    <3>1. PICK y \in 1..N : y = l + j /\ x + y - 1 = m + j
      BY <1>4, <1>5, <2>0, <2>1, <2>4, <1>1
    <3>2. t[y] = s[x + y - 1]
      BY <1>6
    <3>3. y <= Len(t) /\ t[l + j] = t[y] /\ s[m + j] = s[x + y - 1]
      BY <1>5, <1>6, <3>1
    <3> QED BY <3>1, <3>2, <3>3
  <2>6. Follows(s, B, m, t, l)
    BY <1>1, <1>2, <2>1, <2>3, <2>5, ReadsAlike
  <2>7. CodePointAt(t, l).n = n /\ m + n \in B
    BY <2>3, <2>6 DEF Follows
  <2>8. m + n >= x /\ l + n = (m + n) - x + 1
    BY <1>4, <1>8, <2>0, <2>1
  <2>9. l + n \in D
    BY <2>7, <2>8
  <2> QED BY <2>0, <2>6, <2>7, <2>9 DEF Follows
<1>9. \A l \in D : \E m \in B : m >= x /\ l = m - x + 1
  OBVIOUS
<1> HIDE DEF D
<1>10. Closed(t, D)
  BY <1>7, <1>8, <1>9 DEF Closed
<1> QED BY <1>6, <1>10 DEF Text

\* Texts put together are one.
LEMMA FlattenText ==
  ASSUME NEW N \in Nat, NEW parts \in [1..N -> Text], <<>> \in Text
  PROVE  FlattenSeq(parts) \in Text
<1>1. Text \subseteq Line
  BY DEF Text
<1>2. parts \in Seq(Seq(Nat)) /\ Len(parts) = N
  <2>1. parts \in [1..N -> Seq(Nat)]
    BY <1>1 DEF Line
  <2> QED BY <2>1, ListOf
<1>3. PICK f \in Flattening(Nat, Len(parts), parts) : f[Len(parts)] = FlattenSeq(parts)
  BY <1>2, FlattenRun
<1>4. f[0] = <<>> /\ \A n \in 1..N : f[n] = f[n - 1] \o parts[n]
  BY <1>2 DEF Flattening
<1> DEFINE T == {n \in Nat : f[n] \in Text}
<1>5. 0 \in T
  BY <1>4
<1>6. ASSUME NEW n \in 1..N, n - 1 \in T PROVE n \in T
  <2>1. f[n - 1] \in Text /\ parts[n] \in Text
    BY <1>6
  <2>2. f[n - 1] \o parts[n] \in Text
    BY <2>1, TextJoins
  <2>3. f[n] = f[n - 1] \o parts[n]
    BY <1>4
  <2>4. f[n] \in Text /\ n \in Nat
    <3>1. f[n] \in Text
      BY <2>2, <2>3, Zenon
    <3> QED BY <3>1
  <2> QED BY <2>4
<1> HIDE DEF T
<1>7. N \in T
  <2>1. \A n \in 0..N : n \in T
    BY <1>5, <1>6, UpTo
  <2> QED BY <2>1
<1> QED BY <1>2, <1>3, <1>7 DEF T

-----------------------------------------------------------------------------
(* Code points of bytes                                                    *)

\* What the code point of a tail is, one byte at a time.
CodeStep(v, d) == v * 64 + (d % 64)
CodeFold(base, tail) == FoldLeft(LAMBDA cp, b : cp * 64 + (b % 64), base, tail)

\* The fold of CodePointAt, as the sequence of the values it goes through.
LEMMA CodeRun ==
  ASSUME NEW base \in Nat, NEW tail \in Line
  PROVE  \E f \in [0..Len(tail) -> Nat] :
           /\ f[0] = base /\ f[Len(tail)] = CodeFold(base, tail)
           /\ \A n \in 1..Len(tail) : f[n] = CodeStep(f[n - 1], tail[n])
<1> DEFINE N == Len(tail)
           S == Nat
           G == [p \in S \X (1..N) |-> CodeStep(p[1], tail[p[2]])]
           Is(g) == g = [s \in SUBSET (1..N) |-> IF s = {} THEN base
                           ELSE CodeStep(g[s \ {Max(s)}], tail[Max(s)])]
           g == CHOOSE g : Is(g)
<1>1. N \in Nat /\ DOMAIN tail = 1..N /\ \A n \in 1..N : tail[n] \in Nat
  BY SeqTyped DEF Line
<1>2. CodeFold(base, tail) = g[1..N]
  BY <1>1, Zenon DEF FoldLeft, MapThenFoldSet, CodeFold, CodeStep
<1>3. base \in S
  OBVIOUS
<1>4. \A v \in S, n \in 1..N : CodeStep(v, tail[n]) \in S
  <2>1. \A v, d \in Nat : v * 64 + (d % 64) \in Nat
    OBVIOUS
  <2> QED BY <1>1, <2>1 DEF CodeStep
<1>5. G \in [S \X (1..N) -> S] /\ \A v \in S, n \in 1..N : G[<<v, n>>] = CodeStep(v, tail[n])
  BY <1>4
<1> HIDE DEF G, S
<1>6. PICK it \in Folds(S, base, N, G) : TRUE
  <2>1. N \in Nat /\ G \in [S \X (1..N) -> S]
    BY <1>1, <1>5
  <2>2. Folds(S, base, N, G) # {}
    BY <1>3, <2>1, FoldExists
  <2> QED BY <2>2
<1>7. Is(it)
  <2>1. it \in [SUBSET (1..N) -> S]
    BY DEF Folds
  <2>2. \A s \in SUBSET (1..N) : s # {} => Max(s) \in 1..N
    BY <1>1, MaxOfSome
  <2>3. \A s \in SUBSET (1..N) : it[s] = IF s = {} THEN base
                           ELSE CodeStep(it[s \ {Max(s)}], tail[Max(s)])
    BY <1>5, <2>1, <2>2 DEF Folds
  <2> QED BY <2>1, <2>3
<1>8. Is(g)
  BY <1>7, Zenon
<1> HIDE DEF g
<1>9. Folding(S, base, N, G, g)
  BY <1>1, <1>5, <1>8, MaxOfSome DEF Folding
<1> HIDE DEF Is
<1>10. PICK f \in Stepwise(S, base, N, G) : f[N] = g[1..N]
  <2>1. N \in Nat /\ G \in [S \X (1..N) -> S]
    BY <1>1, <1>5
  <2>2. Ends(S, base, N, G, g)
    BY <1>3, <1>9, <2>1, FoldEnds, Zenon
  <2> QED BY <2>2, Zenon DEF Ends
<1>11. /\ f \in [0..N -> S] /\ f[0] = base
       /\ \A n \in 1..N : f[n] = CodeStep(f[n - 1], tail[n])
  <2>1. f \in [0..N -> S] /\ f[0] = base /\ \A n \in 1..N : f[n] = G[<<f[n - 1], n>>]
    BY DEF Stepwise
  <2>2. \A n \in 1..N : f[n - 1] \in S
    BY <1>1, <2>1
  <2> QED BY <1>5, <2>1, <2>2
<1>12. f \in [0..N -> Nat]
  BY <1>11 DEF S
<1> QED BY <1>2, <1>10, <1>11, <1>12, Zenon

\* The code points of characters of one, two and three bytes.
LEMMA CodeFew ==
  ASSUME NEW base \in Nat, NEW tail \in Line
  PROVE  /\ Len(tail) = 0 => CodeFold(base, tail) = base
         /\ Len(tail) = 1 => CodeFold(base, tail) = CodeStep(base, tail[1])
         /\ Len(tail) = 2 => CodeFold(base, tail) = CodeStep(CodeStep(base, tail[1]), tail[2])
<1>1. PICK f \in [0..Len(tail) -> Nat] :
           /\ f[0] = base /\ f[Len(tail)] = CodeFold(base, tail)
           /\ \A n \in 1..Len(tail) : f[n] = CodeStep(f[n - 1], tail[n])
  BY CodeRun
<1>2. ASSUME Len(tail) = 1 PROVE CodeFold(base, tail) = CodeStep(base, tail[1])
  <2>1. 1 \in 1..Len(tail) /\ 1 - 1 = 0
    BY <1>2
  <2> QED BY <1>1, <1>2, <2>1
<1>3. ASSUME Len(tail) = 2 PROVE CodeFold(base, tail) = CodeStep(CodeStep(base, tail[1]), tail[2])
  <2>1. 1 \in 1..Len(tail) /\ 1 - 1 = 0 /\ 2 \in 1..Len(tail) /\ 2 - 1 = 1
    BY <1>3
  <2> QED BY <1>1, <1>3, <2>1
<1> QED BY <1>1, <1>2, <1>3

\* Bytes that encode a character of length n.
LEMMA CodeGood ==
  ASSUME NEW s \in Line, NEW m \in 1..Len(s), NEW n \in 1..4, LengthFor(s[m]) = n, m + n - 1 <= Len(s),
         \A j \in 1..(n - 1) : s[m + j] \in ContinuationByte,
         n > 1 => s[m + 1] \in SecondByte(s[m])
  PROVE  /\ CodePointAt(s, m).n = n
         /\ CodePointAt(s, m).cp = CodeFold(LeadBits(s[m], n), TailAt(s, m))
<1>1. FitsAt(s, m)
  BY DEF FitsAt
<1>2. PICK t \in Line : t = TailAt(s, m) /\ Len(t) = n - 1 /\ \A l \in 1..(n - 1) : t[l] = s[m + l]
  BY <1>1, TailIs
<1>3. \A j \in DOMAIN t : t[j] \in ContinuationByte
  BY <1>2, LineLen
<1>4. n > 1 => t[1] \in SecondByte(s[m])
  BY <1>2
<1>5. n > 0
  OBVIOUS
<1>6. CodeOf(s[m], t, TRUE) = [cp |-> CodeFold(LeadBits(s[m], n), t), n |-> n]
  BY <1>3, <1>4, <1>5, Zenon DEF CodeOf, CodeFold
<1>7. CodePointAt(s, m) = CodeOf(s[m], t, TRUE)
  <2>1. FitsAt(s, m) = TRUE
    BY <1>1 DEF FitsAt
  <2> QED BY <1>2, <2>1, CodePointIs
<1>8. PICK c : c = CodeFold(LeadBits(s[m], n), t)
  OBVIOUS
<1>9. CodePointAt(s, m) = [cp |-> c, n |-> n]
  BY <1>6, <1>7, <1>8, Zenon
<1> QED BY <1>2, <1>8, <1>9

\* A line of no bytes is text.
LEMMA EmptyIsText == <<>> \in Text
<1>1. <<>> \in Line /\ Len(<<>>) = 0
  BY DEF Line
<1>2. Closed(<<>>, {1})
  BY <1>1 DEF Closed
<1> QED BY <1>1, <1>2 DEF Text

\* One character makes a text.
LEMMA OneText ==
  ASSUME NEW s \in Line, Len(s) \in 1..4, Reads(s, 1), CodePointAt(s, 1).n = Len(s)
  PROVE  s \in Text
<1>1. PICK n \in 1..4 : n = Len(s)
  OBVIOUS
<1>2. Closed(s, {1, n + 1})
  BY <1>1 DEF Closed
<1> QED BY <1>2 DEF Text

\* Neither the surrogates nor what is past the last code point begin below them.
LEMMA OutOfRange ==
  ASSUME NEW a \in Int, NEW b \in Int, NEW x \in Int, x < a \/ x > b
  PROVE  x \notin a..b
OBVIOUS

\* A basic code point is no surrogate.
LEMMA NoSurrogate ==
  ASSUME NEW x \in Nat, x < 55296 \/ x > 57343
  PROVE  x \notin Surrogate
<1>1. PICK a \in Int : a = 55296
  OBVIOUS
<1>2. PICK b \in Int : b = 57343
  OBVIOUS
<1>3. x \notin a..b
  <2>1. x < a \/ x > b
    BY <1>1, <1>2, SMT
  <2> QED BY <2>1, OutOfRange, SMT
<1>4. Surrogate = a..b
  BY <1>1, <1>2, SMT DEF Surrogate
<1> QED BY <1>3, <1>4, SMT

\* An ASCII byte is a character wherever it stands.
LEMMA AsciiReads ==
  ASSUME NEW s \in Line, NEW m \in 1..Len(s), s[m] < 128
  PROVE  Reads(s, m) /\ CodePointAt(s, m).n = 1
<1>1. s[m] \in Nat /\ Len(s) \in Nat
  BY LineLen
<1>2. LengthFor(s[m]) = 1
  BY <1>1, LeadLength
<1>3. /\ CodePointAt(s, m).n = 1
      /\ CodePointAt(s, m).cp = CodeFold(LeadBits(s[m], 1), TailAt(s, m))
  <2>1. PICK n \in 1..4 : n = 1
    OBVIOUS
  <2>2. /\ LengthFor(s[m]) = n /\ m + n - 1 <= Len(s) /\ \A j \in 1..(n - 1) : s[m + j] \in ContinuationByte
        /\ n > 1 => s[m + 1] \in SecondByte(s[m])
    BY <1>1, <1>2, <2>1
  <2>3. CodePointAt(s, m).n = n /\ CodePointAt(s, m).cp = CodeFold(LeadBits(s[m], n), TailAt(s, m))
    BY <2>2, CodeGood
  <2> QED BY <2>1, <2>3
<1>4. LeadBits(s[m], 1) = s[m]
  BY DEF LeadBits
<1>5. TailAt(s, m) \in Line /\ Len(TailAt(s, m)) = 0
  BY <1>1, <1>2, TailIs DEF FitsAt
<1>6. CodePointAt(s, m).cp = s[m]
  BY <1>1, <1>3, <1>4, <1>5, CodeFew
<1>7. s[m] \notin Surrogate
  <2>1. s[m] \in Nat /\ s[m] < 55296
    BY <1>1
  <2> QED BY <2>1, NoSurrogate
<1> QED BY <1>3, <1>6, <1>7 DEF Reads

\* An ASCII byte alone is text.
LEMMA AsciiText ==
  ASSUME NEW s \in Line, \A n \in 1..Len(s) : s[n] < 128
  PROVE  s \in Text
<1>1. Len(s) \in Nat
  BY LineLen
<1>2. ASSUME NEW m \in 1..(Len(s) + 1), m <= Len(s)
      PROVE  Reads(s, m) /\ m + CodePointAt(s, m).n \in 1..(Len(s) + 1)
  <2>1. m \in 1..Len(s)
    BY <1>1, <1>2
  <2>2. Reads(s, m) /\ CodePointAt(s, m).n = 1
    BY <2>1, AsciiReads
  <2> QED BY <1>1, <2>1, <2>2
<1>3. 1 \in 1..(Len(s) + 1)
  BY <1>1
<1>4. Closed(s, 1..(Len(s) + 1))
  BY <1>2, <1>3 DEF Closed
<1> QED BY <1>4 DEF Text

\* The lead bytes of characters of two and of three bytes.
Lead2 == 194..223
Lead3 == 224..239

\* A character of two bytes is text.
LEMMA TwoBytes ==
  ASSUME NEW a \in Lead2, NEW b \in ContinuationByte
  PROVE  <<a, b>> \in Text
<1>a. PICK u \in 194..223 : u = a
  BY DEF Lead2
<1>b. PICK v \in 128..191 : v = b
  BY DEF ContinuationByte
<1>0. <<u, v>> \in Line /\ Len(<<u, v>>) = 2 /\ <<u, v>>[1] = u /\ <<u, v>>[2] = v
  <2>1. u \in Nat /\ v \in Nat
    OBVIOUS
  <2> QED BY <2>1 DEF Line
<1>1. PICK s \in Line : s = <<u, v>> /\ Len(s) = 2 /\ s[1] = u /\ s[2] = v
  BY <1>0
<1>2. LengthFor(u) = 2
  BY DEF LengthFor
<1>3. SecondByte(u) = ContinuationByte
  BY DEF SecondByte
<1>4. PICK n \in 1..4 : n = 2
  OBVIOUS
<1>5. PICK m \in 1..Len(s) : m = 1
  BY <1>1
<1>6. /\ LengthFor(s[m]) = n /\ m + n - 1 <= Len(s) /\ \A j \in 1..(n - 1) : s[m + j] \in ContinuationByte
      /\ n > 1 => s[m + 1] \in SecondByte(s[m])
  <2>1. \A j \in 1..(n - 1) : m + j = 2
    BY <1>4, <1>5
  <2>2. v \in ContinuationByte
    BY DEF ContinuationByte
  <2> QED BY <1>1, <1>2, <1>3, <1>4, <1>5, <2>1, <2>2
<1>7. CodePointAt(s, m).n = n /\ CodePointAt(s, m).cp = CodeFold(LeadBits(s[m], n), TailAt(s, m))
  BY <1>6, CodeGood
<1>8. LeadBits(u, 2) = u % 32
  BY DEF LeadBits
<1>9. PICK t \in Line : t = TailAt(s, m) /\ Len(t) = 1 /\ \A l \in 1..1 : t[l] = s[m + l]
  <2>1. FitsAt(s, m) /\ LengthFor(s[m]) = 2
    BY <1>4, <1>6 DEF FitsAt
  <2>2. /\ TailAt(s, m) \in Line /\ Len(TailAt(s, m)) = LengthFor(s[m]) - 1
        /\ \A l \in 1..(LengthFor(s[m]) - 1) : TailAt(s, m)[l] = s[m + l]
    <3>1. LengthFor(s[m]) # 0
      BY <2>1
    <3> QED BY <2>1, <3>1, TailIs
  <2>3. LengthFor(s[m]) - 1 = 1
    BY <2>1
  <2> QED BY <2>2, <2>3
<1>10. t[1] = v
  BY <1>1, <1>5, <1>9
<1>11. PICK base \in 2..31 : base = u % 32
  OBVIOUS
<1>12. CodeFold(base, t) = CodeStep(base, v)
  BY <1>9, <1>10, <1>11, CodeFew
<1>13. CodeStep(base, v) < 2048
  BY DEF CodeStep
<1>14. CodePointAt(s, m).cp = CodeStep(base, v)
  BY <1>1, <1>4, <1>5, <1>7, <1>8, <1>9, <1>11, <1>12
<1>15. CodeStep(base, v) \notin Surrogate
  <2>1. CodeStep(base, v) \in Nat /\ CodeStep(base, v) < 55296
    <3>1. base * 64 + (v % 64) \in Nat /\ base * 64 + (v % 64) < 2048
      OBVIOUS
    <3> QED BY <3>1 DEF CodeStep
  <2> QED BY <2>1, NoSurrogate
<1>16. Len(s) \in 1..4 /\ CodePointAt(s, 1).n # 0 /\ CodePointAt(s, 1).n = Len(s) /\ CodePointAt(s, 1).cp \notin Surrogate
  BY <1>1, <1>4, <1>5, <1>7, <1>14, <1>15
<1>17. Reads(s, 1)
  BY <1>16 DEF Reads
<1>18. s \in Text
  BY <1>16, <1>17, OneText
<1> QED BY <1>a, <1>b, <1>1, <1>18

\* No overlong one and no surrogate.
Second3(a, b) == (a = 224 => b >= 160) /\ a # 237

\* A character of three bytes is text.
LEMMA ThreeBytes ==
  ASSUME NEW a \in Lead3, NEW b \in ContinuationByte, NEW c \in ContinuationByte, Second3(a, b)
  PROVE  <<a, b, c>> \in Text
<1>a. PICK u \in 224..239 : u = a
  BY DEF Lead3
<1>b. PICK v \in 128..191 : v = b
  BY DEF ContinuationByte
<1>c. PICK w \in 128..191 : w = c
  BY DEF ContinuationByte
<1>d. (u = 224 => v >= 160) /\ u # 237
  BY <1>a, <1>b DEF Second3
<1>0. /\ <<u, v, w>> \in Line /\ Len(<<u, v, w>>) = 3
      /\ <<u, v, w>>[1] = u /\ <<u, v, w>>[2] = v /\ <<u, v, w>>[3] = w
  <2>1. u \in Nat /\ v \in Nat /\ w \in Nat
    OBVIOUS
  <2> QED BY <2>1 DEF Line
<1>1. PICK s \in Line : s = <<u, v, w>> /\ Len(s) = 3 /\ s[1] = u /\ s[2] = v /\ s[3] = w
  BY <1>0
<1>2. LengthFor(u) = 3
  BY DEF LengthFor
<1>3. v \in SecondByte(u)
  <2>1. CASE u = 224
    BY <1>d, <2>1 DEF SecondByte
  <2>2. CASE u # 224
    <3>1. SecondByte(u) = ContinuationByte
      BY <2>2 DEF SecondByte
    <3> QED BY <3>1 DEF ContinuationByte
  <2> QED BY <2>1, <2>2
<1>4. PICK n \in 1..4 : n = 3
  OBVIOUS
<1>5. PICK m \in 1..Len(s) : m = 1
  BY <1>1
<1>6. /\ LengthFor(s[m]) = n /\ m + n - 1 <= Len(s) /\ \A j \in 1..(n - 1) : s[m + j] \in ContinuationByte
      /\ n > 1 => s[m + 1] \in SecondByte(s[m])
  <2>1. \A j \in 1..(n - 1) : m + j = 2 \/ m + j = 3
    BY <1>4, <1>5
  <2>2. v \in ContinuationByte /\ w \in ContinuationByte
    BY DEF ContinuationByte
  <2> QED BY <1>1, <1>2, <1>3, <1>4, <1>5, <2>1, <2>2
<1>7. CodePointAt(s, m).n = n /\ CodePointAt(s, m).cp = CodeFold(LeadBits(s[m], n), TailAt(s, m))
  BY <1>6, CodeGood
<1>8. LeadBits(u, 3) = u % 16
  BY DEF LeadBits
<1>9. PICK t \in Line : t = TailAt(s, m) /\ Len(t) = 2 /\ \A l \in 1..2 : t[l] = s[m + l]
  <2>1. FitsAt(s, m) /\ LengthFor(s[m]) = 3
    BY <1>4, <1>6 DEF FitsAt
  <2>2. /\ TailAt(s, m) \in Line /\ Len(TailAt(s, m)) = LengthFor(s[m]) - 1
        /\ \A l \in 1..(LengthFor(s[m]) - 1) : TailAt(s, m)[l] = s[m + l]
    <3>1. LengthFor(s[m]) # 0
      BY <2>1
    <3> QED BY <2>1, <3>1, TailIs
  <2>3. LengthFor(s[m]) - 1 = 2
    BY <2>1
  <2>4. PICK t \in Line : t = TailAt(s, m)
    BY <2>2
  <2>5. Len(t) = 2 /\ \A l \in 1..2 : t[l] = s[m + l]
    BY <2>2, <2>3, <2>4
  <2> QED BY <2>4, <2>5
<1>10. t[1] = v /\ t[2] = w
  BY <1>1, <1>5, <1>9
<1>11. PICK base \in 0..15 : base = u % 16 /\ base # 13 /\ (base = 0 => v >= 160)
  BY <1>d
<1>12. CodeFold(base, t) = CodeStep(CodeStep(base, v), w)
  BY <1>9, <1>10, <1>11, CodeFew
<1>13. CodeStep(CodeStep(base, v), w) = base * 4096 + (v - 128) * 64 + (w - 128)
  <2>1. v % 64 = v - 128 /\ w % 64 = w - 128
    OBVIOUS
  <2> QED BY <2>1 DEF CodeStep
<1>14. CodePointAt(s, m).cp = CodeStep(CodeStep(base, v), w)
  BY <1>1, <1>4, <1>5, <1>7, <1>8, <1>9, <1>11, <1>12
<1>15. CodeStep(CodeStep(base, v), w) \notin Surrogate
  <2>1. PICK x \in 0..63 : x = v - 128
    OBVIOUS
  <2>2. PICK y \in 0..63 : y = w - 128
    OBVIOUS
  <2>3. base * 4096 + x * 64 + y < 55296 \/ base * 4096 + x * 64 + y > 57343
    BY <1>11
  <2>4. base * 4096 + x * 64 + y \in Nat
    OBVIOUS
  <2>5. base * 4096 + x * 64 + y \notin Surrogate
    BY <2>3, <2>4, NoSurrogate
  <2> QED BY <1>13, <2>1, <2>2, <2>5
<1>16. Len(s) \in 1..4 /\ CodePointAt(s, 1).n # 0 /\ CodePointAt(s, 1).n = Len(s) /\ CodePointAt(s, 1).cp \notin Surrogate
  BY <1>1, <1>4, <1>5, <1>7, <1>14, <1>15
<1>17. Reads(s, 1)
  BY <1>16 DEF Reads
<1>18. s \in Text
  BY <1>16, <1>17, OneText
<1> QED BY <1>a, <1>b, <1>c, <1>1, <1>18

-----------------------------------------------------------------------------
(* Bytes written as text                                                   *)

\* The bytes of a code point below the surrogates.
Basic == {cp \in Nat : cp < 53248}

LEMMA Utf8Text ==
  ASSUME NEW cp \in Basic
  PROVE  Utf8(cp) \in Text
<1>0. cp \in Nat
  BY DEF Basic
<1>1. CASE cp < 128
  <2>1. Utf8(cp) = <<cp>>
    BY <1>0, <1>1 DEF Utf8
  <2>2. <<cp>> \in Line /\ \A n \in 1..Len(<<cp>>) : <<cp>>[n] < 128
    BY <1>0, <1>1 DEF Line
  <2> QED BY <2>1, <2>2, AsciiText
<1>2. CASE cp >= 128 /\ cp < 2048
  <2>1. Utf8(cp) = <<192 + cp \div 64, 128 + (cp % 64)>>
    BY <1>0, <1>2 DEF Utf8
  <2>2. PICK a \in Lead2 : a = 192 + cp \div 64
    BY <1>0, <1>2 DEF Lead2
  <2>3. PICK b \in ContinuationByte : b = 128 + (cp % 64)
    BY <1>0, <1>2 DEF ContinuationByte
  <2>4. <<a, b>> \in Text
    BY TwoBytes, Zenon
  <2>5. Utf8(cp) = <<a, b>>
    BY <2>1, <2>2, <2>3
  <2> QED BY <2>4, <2>5
<1>3. CASE cp >= 2048
  <2>1. Utf8(cp) = <<224 + cp \div 4096, 128 + ((cp \div 64) % 64), 128 + (cp % 64)>>
    BY <1>0, <1>3 DEF Utf8, Basic
  <2>2. PICK a \in Lead3 : a = 224 + cp \div 4096 /\ a # 237
    BY <1>0, <1>3 DEF Basic, Lead3
  <2>3. PICK q \in Nat : q = cp \div 64
    BY <1>0, <1>3
  <2>4. PICK b \in ContinuationByte : b = 128 + (q % 64)
    BY DEF ContinuationByte
  <2>5. PICK c \in ContinuationByte : c = 128 + (cp % 64)
    BY <1>0, <1>3 DEF ContinuationByte
  <2>6. ASSUME a = 224 PROVE b >= 160
    <3>1. cp < 4096
      BY <1>0, <2>2, <2>6
    <3>2. q >= 32 /\ q < 64
      BY <1>0, <1>3, <2>3, <3>1
    <3>3. q % 64 = q
      BY <3>2
    <3> QED BY <2>4, <3>2, <3>3
  <2>7. <<a, b, c>> \in Text
    <3>1. Second3(a, b)
      BY <2>2, <2>6 DEF Second3
    <3> QED BY <3>1, ThreeBytes, Zenon
  <2>8. Utf8(cp) = <<a, b, c>>
    BY <2>1, <2>2, <2>3, <2>4, <2>5
  <2> QED BY <2>7, <2>8
<1> QED BY <1>0, <1>1, <1>2, <1>3

\* The marks and borders of the tables are text.
LEMMA GlyphText ==
  ASSUME NEW b \in Byte
  PROVE  Glyph[b] \in Text
<1>1. \A n \in 1..128 : LowGlyphs[n] \in Basic
  BY DEF LowGlyphs, Basic
<1>2. \A n \in 1..128 : HighGlyphs[n] \in Basic
  BY DEF HighGlyphs, Basic
<1>3. GlyphOf(b) \in Basic
  BY <1>1, <1>2 DEF GlyphOf, Byte
<1> QED BY <1>3, Utf8Text DEF Glyph

\* Text is bytes.
LEMMA TextIsLine == Text \subseteq Line
BY DEF Text

\* The bytes that are characters on their own.
Ascii == 0..127

\* ASCII is text.
LEMMA AsciiIsText == Seq(Ascii) \subseteq Text
<1> SUFFICES ASSUME NEW s \in Seq(Ascii) PROVE s \in Text
  OBVIOUS
<1>1. Ascii \subseteq Nat
  BY DEF Ascii
<1>2. s \in Line
  BY <1>1, SeqMonotonic DEF Line
<1>3. \A n \in 1..Len(s) : s[n] \in Ascii
  BY SeqTyped
<1>5. \A x \in Ascii : x < 128
  BY DEF Ascii
<1>4. \A n \in 1..Len(s) : s[n] < 128
  BY <1>3, <1>5
<1> QED BY <1>2, <1>4, AsciiText

\* What separates and frames the cells is text.
LEMMA MarksText ==
  /\ Ellipsis \in Text /\ Divides \in Text
  /\ AnsiName \in Text /\ AnsiValue \in Text /\ AnsiReset \in Text
  /\ \A n \in Ascii : <<n>> \in Text
  /\ \A m, n \in Ascii : <<m, n>> \in Text
<1>1. 8230 \in Basic /\ 8739 \in Basic
  BY DEF Basic
<1>2. Ellipsis \in Text /\ Divides \in Text
  BY <1>1, Utf8Text DEF Ellipsis, Divides
<1>3. AnsiName \in Seq(Ascii) /\ AnsiValue \in Seq(Ascii) /\ AnsiReset \in Seq(Ascii)
  BY DEF AnsiName, AnsiValue, AnsiReset, Ascii
<1>4. (\A n \in Ascii : <<n>> \in Seq(Ascii)) /\ \A m, n \in Ascii : <<m, n>> \in Seq(Ascii)
  OBVIOUS
<1> QED BY <1>2, <1>3, <1>4, AsciiIsText

\* A text put together from a text for each element.
LEMMA PartsText ==
  ASSUME NEW N \in Nat, NEW parts, DOMAIN parts = 1..N, parts = [n \in 1..N |-> parts[n]],
         \A n \in 1..N : parts[n] \in Text
  PROVE  FlattenSeq(parts) \in Text
<1>1. parts \in [1..N -> Text]
  OBVIOUS
<1> QED BY <1>1, FlattenText, EmptyIsText

\* What the printable codec writes is text, whatever it is given.
LEMMA EncodeText ==
  ASSUME NEW s \in Bytestrings
  PROVE  Encode(s) \in Text
<1> DEFINE parts == [n \in DOMAIN s |-> IF s[n] = 32 THEN <<32>> ELSE Glyph[s[n]]]
<1>1. Len(s) \in Nat /\ DOMAIN s = 1..Len(s) /\ \A n \in 1..Len(s) : s[n] \in Byte
  BY SeqTyped DEF Bytestrings
<1>2. <<32>> \in Text
  <2>1. 32 \in Ascii
    BY DEF Ascii
  <2> QED BY <2>1, MarksText
<1>3. \A n \in 1..Len(s) : parts[n] \in Text
  BY <1>1, <1>2, GlyphText
<1>4. DOMAIN parts = 1..Len(s) /\ parts = [n \in 1..Len(s) |-> parts[n]]
  BY <1>1
<1> HIDE DEF parts
<1>5. FlattenSeq(parts) \in Text
  BY <1>1, <1>3, <1>4, PartsText
<1> QED BY <1>5 DEF Encode, parts

\* Hexadecimal is text.
LEMMA HexText ==
  ASSUME NEW s \in Bytestrings
  PROVE  Hex(s) \in Text
<1> DEFINE parts == [n \in DOMAIN s |-> <<HexDigit[s[n] \div 16 + 1], HexDigit[(s[n] % 16) + 1]>>]
<1>1. Len(s) \in Nat /\ DOMAIN s = 1..Len(s) /\ \A n \in 1..Len(s) : s[n] \in Byte
  BY SeqTyped DEF Bytestrings
<1>2. \A n \in 1..16 : HexDigit[n] \in Ascii
  BY DEF HexDigit, Ascii
<1>3. \A n \in 1..Len(s) : parts[n] \in Text
  <2> SUFFICES ASSUME NEW n \in 1..Len(s) PROVE parts[n] \in Text
    OBVIOUS
  <2>1. PICK b \in Byte : b = s[n]
    BY <1>1
  <2>2. b \div 16 + 1 \in 1..16 /\ (b % 16) + 1 \in 1..16
    BY DEF Byte
  <2>3. <<HexDigit[b \div 16 + 1], HexDigit[(b % 16) + 1]>> \in Text
    BY <1>2, <2>2, MarksText
  <2> QED BY <1>1, <2>1, <2>3
<1>4. DOMAIN parts = 1..Len(s) /\ parts = [n \in 1..Len(s) |-> parts[n]]
  BY <1>1
<1> HIDE DEF parts
<1>5. FlattenSeq(parts) \in Text
  BY <1>1, <1>3, <1>4, PartsText
<1> QED BY <1>5 DEF Hex, parts

-----------------------------------------------------------------------------
(* Texts mapped byte by byte                                               *)

\* A character of a text on its own.
LEMMA CharText ==
  ASSUME NEW s \in Line, NEW B, Closed(s, B), NEW m \in B, m <= Len(s)
  PROVE  \E n \in 1..4 : /\ n = CodePointAt(s, m).n /\ m + n \in B /\ m + n - 1 <= Len(s)
                         /\ SubSeq(s, m, m + n - 1) \in Text
<1>1. m \in 1..Len(s) /\ Reads(s, m) /\ m + CodePointAt(s, m).n \in B
  BY LineLen DEF Closed
<1>2. PICK n \in 1..4 : n = CodePointAt(s, m).n
  BY <1>1, CharMade DEF Reads
<1>3. m + n - 1 <= Len(s) /\ Len(s) \in Nat
  BY <1>1, <1>2, CharMade, LineLen
<1>4. PICK e \in (m - 1)..Len(s) : e = m + n - 1
  BY <1>1, <1>3
<1>5. PICK t \in Line : t = SubSeq(s, m, m + n - 1) /\ Len(t) = n /\ \A j \in 1..n : t[j] = s[m + j - 1]
  <2>1. m \in 1..(Len(s) + 1)
    BY <1>1, <1>3
  <2>2. /\ SubSeq(s, m, e) \in Line /\ Len(SubSeq(s, m, e)) = e - m + 1
        /\ \A l \in 1..(e - m + 1) : SubSeq(s, m, e)[l] = s[m + l - 1]
    BY <2>1, PieceIs
  <2>3. e - m + 1 = n
    BY <1>1, <1>4
  <2>4. PICK t \in Line : t = SubSeq(s, m, e)
    BY <2>2
  <2>5. Len(t) = n /\ \A j \in 1..n : t[j] = s[m + j - 1]
    BY <2>2, <2>3, <2>4
  <2> QED BY <1>4, <2>4, <2>5
<1>51. Len(t) = n
  BY <1>5
<1>52. \A j \in 1..n : t[j] = s[m + j - 1]
  BY <1>5
<1>6. PICK l \in 1..Len(t) : l = 1
  BY <1>51
<1>7. Copied(s, m, t, l, n)
  <2> SUFFICES ASSUME NEW j \in 0..(n - 1) PROVE l + j <= Len(t) /\ t[l + j] = s[m + j]
    BY DEF Copied
  <2>1. PICK y \in 1..n : y = l + j /\ m + y - 1 = m + j
    BY <1>1, <1>6
  <2>2. t[y] = s[m + y - 1]
    BY <1>52
  <2>3. y <= Len(t) /\ t[l + j] = t[y] /\ s[m + j] = s[m + y - 1]
    BY <1>51, <2>1
  <2> QED BY <2>1, <2>2, <2>3
<1>8. Follows(s, B, m, t, l)
  BY <1>1, <1>2, <1>7, ReadsAlike
<1>9. Reads(t, 1) /\ CodePointAt(t, 1).n = Len(t) /\ Len(t) \in 1..4
  BY <1>2, <1>5, <1>6, <1>8 DEF Follows
<1>10. t \in Text
  BY <1>9, OneText
<1> QED BY <1>1, <1>2, <1>3, <1>5, <1>10

\* A mapped prefix grows by one part with each byte.
LEMMA Lengthened ==
  ASSUME NEW p \in Line, NEW x \in Nat
  PROVE  \E r \in Line : /\ r = p \o <<x>> /\ Len(r) = Len(p) + 1
                         /\ (\A j \in 1..Len(p) : r[j] = p[j]) /\ r[Len(p) + 1] = x
<1>1. PICK q \in Line : q = <<x>> /\ Len(q) = 1 /\ q[1] = x
  <2>1. PICK q \in Line : q = <<x>>
    BY LineParts
  <2>2. Len(q) = 1 /\ q[1] = x
    BY <2>1
  <2> QED BY <2>1, <2>2
<1>2. PICK M \in Nat : M = Len(p)
  BY LineLen
<1>3. PICK r \in Line : r = p \o q
  BY LineParts
<1>4. Len(r) = M + 1 /\ (\A j \in 1..M : r[j] = p[j]) /\ \A j \in 1..1 : r[M + j] = q[j]
  BY <1>1, <1>2, <1>3 DEF Line
<1>5. r[M + 1] = x
  BY <1>1, <1>4
<1> QED BY <1>1, <1>2, <1>3, <1>4, <1>5

\* With one more character read, the mapped prefix is still text.
LEMMA OneMore ==
  ASSUME NEW s \in Line, NEW a \in 1..Len(s), NEW b \in a..Len(s)
  PROVE  SubSeq(s, a, b - 1) \o <<s[b]>> = SubSeq(s, a, b)
<1>1. Len(s) \in Nat /\ s[b] \in Nat /\ a \in 1..(Len(s) + 1)
  BY LineLen
<1>2. PICK c \in (a - 1)..Len(s) : c = b - 1
  BY <1>1
<1>3. PICK p \in Line : p = SubSeq(s, a, c) /\ Len(p) = b - a /\ \A j \in 1..(b - a) : p[j] = s[a + j - 1]
  <2>1. /\ SubSeq(s, a, c) \in Line /\ Len(SubSeq(s, a, c)) = c - a + 1
        /\ \A j \in 1..(c - a + 1) : SubSeq(s, a, c)[j] = s[a + j - 1]
    BY <1>1, PieceIs
  <2>2. c - a + 1 = b - a
    BY <1>2
  <2> QED BY <2>1, <2>2
<1>4. PICK q \in Line : q = SubSeq(s, a, b) /\ Len(q) = b - a + 1 /\ \A j \in 1..(b - a + 1) : q[j] = s[a + j - 1]
  <2>1. b \in (a - 1)..Len(s)
    OBVIOUS
  <2> QED BY <1>1, <2>1, PieceIs
<1>5. p \o <<s[b]>> = q
  <2>0. PICK x \in Nat : x = s[b]
    BY <1>1
  <2>4. PICK r \in Line : /\ r = p \o <<x>> /\ Len(r) = Len(p) + 1
                          /\ (\A j \in 1..Len(p) : r[j] = p[j]) /\ r[Len(p) + 1] = x
    BY Lengthened
  <2>1. /\ r = p \o <<s[b]>> /\ Len(r) = b - a + 1
        /\ (\A j \in 1..(b - a) : r[j] = p[j]) /\ r[b - a + 1] = s[b]
    BY <1>3, <2>0, <2>4
  <2>2. ASSUME NEW j \in 1..(b - a + 1) PROVE r[j] = q[j]
    <3>1. CASE j \in 1..(b - a)
      BY <1>3, <1>4, <2>1, <3>1
    <3>2. CASE j = b - a + 1
      <4>1. a + j - 1 = b
        BY <3>2
      <4> QED BY <1>4, <2>1, <3>2, <4>1
    <3> QED BY <3>1, <3>2
  <2>3. r = q
    BY <1>4, <2>1, <2>2, SeqEqual DEF Line
  <2> QED BY <2>1, <2>3
<1> QED BY <1>2, <1>3, <1>4, <1>5

\* Each byte of a text as it is, the ASCII among them as other text.
Mapped(s, parts) ==
  \A n \in 1..Len(s) : (s[n] >= 128 => parts[n] = <<s[n]>>) /\ (s[n] < 128 => parts[n] \in Text)

\* A character that is not ASCII stays as it is.
LEMMA CharKept ==
  ASSUME NEW s \in Line, NEW f, f \in [0..Len(s) -> Line], NEW parts, Mapped(s, parts),
         \A x \in 1..Len(s) : f[x] = f[x - 1] \o parts[x],
         NEW m \in 1..Len(s), NEW n \in 1..4, m + n - 1 <= Len(s),
         \A j \in m..(m + n - 1) : s[j] >= 128
  PROVE  f[m + n - 1] = f[m - 1] \o SubSeq(s, m, m + n - 1)
<1> DEFINE T == {l \in Nat : f[m + l - 1] = f[m - 1] \o SubSeq(s, m, m + l - 1)}
<1>1. Len(s) \in Nat /\ \A x \in 1..Len(s) : s[x] \in Nat
  BY LineLen
<1>2. 0 \in T
  <2>1. m + 0 - 1 = m - 1 /\ m - 1 \in 0..Len(s) /\ f[m - 1] \in Line
    BY <1>1
  <2>2. SubSeq(s, m, m - 1) = <<>>
    BY DEF Line
  <2>3. f[m - 1] \o <<>> = f[m - 1]
    BY <2>1 DEF Line
  <2>4. f[m + 0 - 1] = f[m - 1] \o SubSeq(s, m, m + 0 - 1)
    BY <2>1, <2>2, <2>3
  <2> QED BY <2>4, Zenon
<1>3. ASSUME NEW l \in 1..n, l - 1 \in T PROVE l \in T
  <2>1. PICK x \in m..Len(s) : x = m + l - 1
    BY <1>1
  <2>2. x \in 1..Len(s) /\ x - 1 = m + (l - 1) - 1 /\ s[x] >= 128 /\ s[x] \in Nat
    BY <1>1, <2>1
  <2>3. parts[x] = <<s[x]>>
    BY <2>2 DEF Mapped
  <2>4. f[x] = f[x - 1] \o <<s[x]>>
    BY <2>2, <2>3
  <2>5. f[m + (l - 1) - 1] = f[m - 1] \o SubSeq(s, m, m + (l - 1) - 1)
    BY <1>3
  <2>6. PICK p \in Line : p = SubSeq(s, m, x - 1)
    <3>1. PICK z \in (m - 1)..Len(s) : z = x - 1
      BY <1>1, <2>1
    <3>2. m \in 1..(Len(s) + 1)
      BY <1>1
    <3>3. SubSeq(s, m, z) \in Line
      BY <3>2, PieceIs
    <3> QED BY <3>1, <3>3
  <2>7. f[x] = (f[m - 1] \o p) \o <<s[x]>>
    BY <2>2, <2>4, <2>5, <2>6
  <2>8. f[m - 1] \in Line /\ <<s[x]>> \in Line
    <3>1. m - 1 \in 0..Len(s)
      BY <1>1
    <3>2. f[m - 1] \in Line
      BY <3>1
    <3>3. <<s[x]>> \in Line
      BY <2>2, <2>6, LineParts
    <3> QED BY <3>2, <3>3
  <2>9. f[x] = f[m - 1] \o (p \o <<s[x]>>)
    BY <2>7, <2>8, LineAssociative
  <2>10. p \o <<s[x]>> = SubSeq(s, m, x)
    BY <2>1, <2>6, OneMore
  <2>11. f[m + l - 1] = f[m - 1] \o SubSeq(s, m, m + l - 1)
    BY <2>1, <2>9, <2>10
  <2>12. l \in Nat
    OBVIOUS
  <2> QED BY <2>11, <2>12, Zenon
<1> HIDE DEF T
<1>4. n \in T
  <2>1. n \in Nat /\ n \in 0..n
    OBVIOUS
  <2>2. \A l \in 0..n : l \in T
    BY <1>2, <1>3, <2>1, UpTo
  <2> QED BY <2>1, <2>2
<1> QED BY <1>4, Zenon DEF T

\* A text mapped so is a text.
LEMMA MappedText ==
  ASSUME NEW s \in Text, NEW parts \in [1..Len(s) -> Line], Mapped(s, parts)
  PROVE  FlattenSeq(parts) \in Text
<1>1. s \in Line /\ Len(s) \in Nat /\ \A x \in 1..Len(s) : s[x] \in Nat
  BY LineLen DEF Text
<1>2. PICK B : Closed(s, B)
  BY DEF Text
<1>3. parts \in Seq(Seq(Nat)) /\ Len(parts) = Len(s)
  <2>1. parts \in [1..Len(s) -> Seq(Nat)]
    BY DEF Line
  <2> QED BY <1>1, <2>1, ListOf
<1>4. PICK f \in Flattening(Nat, Len(parts), parts) : f[Len(parts)] = FlattenSeq(parts)
  BY <1>3, FlattenRun
<1>5. f \in [0..Len(s) -> Line] /\ f[0] = <<>> /\ \A n \in 1..Len(s) : f[n] = f[n - 1] \o parts[n]
  BY <1>3 DEF Flattening, Line
<1> DEFINE D == {m \in B : f[m - 1] \in Text}
<1>6. B \subseteq 1..(Len(s) + 1) /\ 1 \in B
  BY <1>2 DEF Closed
<1>7. 1 \in D
  <2>1. 1 - 1 = 0 /\ f[0] \in Text
    BY <1>5, EmptyIsText
  <2> QED BY <1>6, <2>1
<1>8. ASSUME NEW m \in D, m <= Len(s) PROVE Reads(s, m) /\ m + CodePointAt(s, m).n \in D
  <2>1. m \in B /\ f[m - 1] \in Text /\ m \in 1..Len(s)
    BY <1>1, <1>6, <1>8
  <2>2. PICK n \in 1..4 : /\ n = CodePointAt(s, m).n /\ m + n \in B /\ m + n - 1 <= Len(s)
                          /\ SubSeq(s, m, m + n - 1) \in Text
    BY <1>1, <1>2, <1>8, <2>1, CharText
  <2>3. Reads(s, m)
    BY <1>2, <1>8, <2>1 DEF Closed
  <2>4. (n = 1 <=> s[m] < 128) /\ \A j \in (m + 1)..(m + n - 1) : s[j] \in ContinuationByte
    BY <1>1, <2>1, <2>2, CharMade
  <2>5. CASE n = 1
    <3>1. parts[m] \in Text
      BY <2>1, <2>4, <2>5 DEF Mapped
    <3>2. f[m - 1] \o parts[m] \in Text
      BY <2>1, <3>1, TextJoins
    <3>3. f[m] = f[m - 1] \o parts[m]
      BY <1>5, <2>1
    <3>4. PICK z \in B : z = m + n
      BY <2>2
    <3>5. z - 1 = m
      BY <2>1, <2>5, <3>4
    <3>6. f[z - 1] \in Text
      BY <3>2, <3>3, <3>5
    <3>7. z \in D
      BY <3>6, Zenon
    <3> QED BY <2>2, <2>3, <3>4, <3>7
  <2>6. CASE n # 1
    <3>1. \A j \in m..(m + n - 1) : s[j] >= 128
      <4>1. s[m] >= 128
        BY <1>1, <2>1, <2>4, <2>6
      <4>2. \A j \in (m + 1)..(m + n - 1) : s[j] >= 128
        <5>1. \A y \in ContinuationByte : y >= 128
          BY DEF ContinuationByte
        <5> QED BY <2>4, <5>1
      <4> QED BY <2>1, <4>1, <4>2
    <3>2. f[m + n - 1] = f[m - 1] \o SubSeq(s, m, m + n - 1)
      BY <1>1, <1>5, <2>1, <2>2, <3>1, CharKept
    <3>3. f[m - 1] \o SubSeq(s, m, m + n - 1) \in Text
      BY <2>1, <2>2, TextJoins
    <3>4. PICK z \in B : z = m + n
      BY <2>2
    <3>5. z - 1 = m + n - 1
      BY <3>4
    <3>6. f[z - 1] \in Text
      BY <3>2, <3>3, <3>5, Zenon
    <3>7. z \in D
      BY <3>6, Zenon
    <3> QED BY <2>2, <2>3, <3>4, <3>7
  <2> QED BY <2>5, <2>6
<1>9. D \subseteq 1..(Len(s) + 1)
  BY <1>6
<1> HIDE DEF D
<1>10. Closed(s, D)
  BY <1>7, <1>8, <1>9 DEF Closed
<1>11. Len(s) + 1 \in D
  BY <1>1, <1>10, ClosedEnds
<1>12. f[Len(s) + 1 - 1] \in Text
  BY <1>11 DEF D
<1>13. Len(s) + 1 - 1 = Len(s)
  BY <1>1
<1> QED BY <1>3, <1>4, <1>12, <1>13, Zenon

-----------------------------------------------------------------------------
(* Cells that are text                                                     *)

\* Texts with a text between them are one.
LEMMA JoinedText ==
  ASSUME NEW parts, NEW N \in Nat, DOMAIN parts = 1..N, \A n \in 1..N : parts[n] \in Text,
         NEW sep \in Text
  PROVE  Joined(parts, sep) \in Text
<1> DEFINE all == [n \in DOMAIN parts |-> (IF n = 1 THEN <<>> ELSE sep) \o parts[n]]
<1>1. \A n \in 1..N : all[n] \in Text
  <2> SUFFICES ASSUME NEW n \in 1..N PROVE all[n] \in Text
    OBVIOUS
  <2>1. (IF n = 1 THEN <<>> ELSE sep) \in Text
    BY EmptyIsText
  <2>2. (IF n = 1 THEN <<>> ELSE sep) \o parts[n] \in Text
    BY <2>1, TextJoins
  <2> QED BY <2>2
<1>2. DOMAIN all = 1..N /\ all = [n \in 1..N |-> all[n]]
  OBVIOUS
<1>3. Joined(parts, sep) = FlattenSeq(all)
  BY Zenon DEF Joined
<1> HIDE DEF all
<1> QED BY <1>1, <1>2, <1>3, PartsText

\* A cut is never inside a character.
LEMMA PrefixText ==
  ASSUME NEW s \in Text, NEW n
  PROVE  SubSeq(s, 1, PrefixBytes(s, n)) \in Text
<1> DEFINE after == {x \in Starts(s) : Cardinality({y \in Starts(s) : y < x}) = n}
<1>0. s \in Line
  BY DEF Text
<1>1. Len(s) \in Nat /\ after \subseteq 1..Len(s) /\ after \subseteq Starts(s)
  BY <1>0, StartsTyped, LineLen
<1>2. PrefixBytes(s, n) = IF after = {} THEN Len(s) ELSE Min(after) - 1
  BY Zenon DEF PrefixBytes
<1> HIDE DEF after
<1>3. after # {} => Min(after) \in after
  <2>1. after \subseteq Nat
    BY <1>1
  <2> QED BY <2>1, MinOfSome
<1>4. PICK x \in Starts(s) \cup {Len(s) + 1} : PrefixBytes(s, n) = x - 1
  <2>1. CASE after = {}
    <3>1. PrefixBytes(s, n) = (Len(s) + 1) - 1
      BY <1>1, <1>2, <2>1
    <3> QED BY <3>1
  <2>2. CASE after # {}
    BY <1>1, <1>2, <1>3, <2>2
  <2> QED BY <2>1, <2>2
<1> QED BY <1>4, CutBefore

\* utf8_suffix_start begins at a whole character.
LEMMA SuffixText ==
  ASSUME NEW s \in Text, NEW n
  PROVE  SubSeq(s, SuffixStart(s, n), Len(s)) \in Text
<1> DEFINE at == {x \in Starts(s) : Cardinality({y \in Starts(s) : y >= x}) = n}
<1>0. s \in Line
  BY DEF Text
<1>1. Len(s) \in Nat /\ at \subseteq 1..Len(s) /\ at \subseteq Starts(s)
  BY <1>0, StartsTyped, LineLen
<1>2. SuffixStart(s, n) = IF at = {} THEN 1 ELSE Min(at)
  BY Zenon DEF SuffixStart
<1> HIDE DEF at
<1>3. at # {} => Min(at) \in at
  <2>1. at \subseteq Nat
    BY <1>1
  <2> QED BY <2>1, MinOfSome
<1>4. PICK x \in Starts(s) \cup {1} : SuffixStart(s, n) = x
  BY <1>1, <1>2, <1>3
<1> QED BY <1>4, CutFrom

\* fit_cell leaves text.
LEMMA FitText ==
  ASSUME NEW s \in Text, NEW width \in Nat, NEW keepEnd \in BOOLEAN
  PROVE  FitCell(s, width, keepEnd) \in Text
<1>2. PICK n : n = Kept(width)
  OBVIOUS
<1>3. SubSeq(s, SuffixStart(s, n), Len(s)) \in Text /\ SubSeq(s, 1, PrefixBytes(s, n)) \in Text
  BY PrefixText, SuffixText
<1>4. Ellipsis \in Text /\ <<>> \in Text
  BY MarksText, EmptyIsText
<1>5. FitCell(s, width, keepEnd) \in
        {s, Ellipsis \o (IF n = 0 THEN <<>> ELSE SubSeq(s, SuffixStart(s, n), Len(s))),
         SubSeq(s, 1, PrefixBytes(s, n)) \o Ellipsis}
  BY <1>2, Zenon DEF FitCell
<1>6. (IF n = 0 THEN <<>> ELSE SubSeq(s, SuffixStart(s, n), Len(s))) \in Text
  BY <1>3, <1>4
<1> QED BY <1>3, <1>4, <1>5, <1>6, TextJoins

\* escape_bars leaves text.
LEMMA EscapeBarsText ==
  ASSUME NEW set, NEW s \in Text
  PROVE  EscapeBars(set, s) \in Text
<1> DEFINE parts == [n \in DOMAIN s |-> IF s[n] # Bar THEN <<s[n]>>
                             ELSE IF set.fmt = "Table" THEN Divides ELSE <<Backslash, Bar>>]
<1>1. s \in Line /\ Len(s) \in Nat /\ DOMAIN s = 1..Len(s) /\ \A n \in 1..Len(s) : s[n] \in Nat
  BY LineLen DEF Text
<1>2. /\ Divides \in Text /\ <<Backslash, Bar>> \in Text
      /\ \A n \in Nat : <<n>> \in Line /\ (n < 128 => <<n>> \in Text)
  <2>1. Backslash \in Ascii /\ Bar \in Ascii
    BY DEF Backslash, Bar, Ascii
  <2>2. \A n \in Nat : n < 128 => n \in Ascii
    BY DEF Ascii
  <2> QED BY <1>1, <2>1, <2>2, MarksText, LineParts
<1>3. \A n \in 1..Len(s) : parts[n] \in Line
  BY <1>1, <1>2, TextIsLine
<1>4. parts \in [1..Len(s) -> Line]
  BY <1>1, <1>3
<1>5. Mapped(s, parts)
  <2> SUFFICES ASSUME NEW n \in 1..Len(s)
               PROVE  (s[n] >= 128 => parts[n] = <<s[n]>>) /\ (s[n] < 128 => parts[n] \in Text)
    BY Zenon DEF Mapped
  <2>1. s[n] >= 128 => s[n] # Bar
    BY <1>1 DEF Bar
  <2> QED BY <1>1, <1>2, <2>1
<1> HIDE DEF parts
<1>6. FlattenSeq(parts) \in Text
  BY <1>4, <1>5, MappedText
<1> QED BY <1>6, Zenon DEF EscapeBars, parts

\* csv_field leaves text.
LEMMA CsvText ==
  ASSUME NEW s \in Text
  PROVE  CsvField(s) \in Text
<1> DEFINE parts == [n \in DOMAIN s |-> IF s[n] = Quote THEN <<Quote, Quote>> ELSE <<s[n]>>]
<1>1. s \in Line /\ Len(s) \in Nat /\ DOMAIN s = 1..Len(s) /\ \A n \in 1..Len(s) : s[n] \in Nat
  BY LineLen DEF Text
<1>2. /\ <<Quote>> \in Text /\ <<Quote, Quote>> \in Text
      /\ \A n \in Nat : <<n>> \in Line /\ (n < 128 => <<n>> \in Text)
  <2>1. Quote \in Ascii
    BY DEF Quote, Ascii
  <2>2. \A n \in Nat : n < 128 => n \in Ascii
    BY DEF Ascii
  <2> QED BY <1>1, <2>1, <2>2, MarksText, LineParts
<1>3. \A n \in 1..Len(s) : parts[n] \in Line
  BY <1>1, <1>2, TextIsLine
<1>4. parts \in [1..Len(s) -> Line]
  BY <1>1, <1>3
<1>5. Mapped(s, parts)
  <2> SUFFICES ASSUME NEW n \in 1..Len(s)
               PROVE  (s[n] >= 128 => parts[n] = <<s[n]>>) /\ (s[n] < 128 => parts[n] \in Text)
    BY Zenon DEF Mapped
  <2>1. s[n] >= 128 => s[n] # Quote
    BY <1>1 DEF Quote
  <2> QED BY <1>1, <1>2, <2>1
<1>7. Quoted(s) = FlattenSeq(parts)
  BY Zenon DEF Quoted, DoublesQuotes
<1> HIDE DEF parts
<1>6. Quoted(s) \in Text
  BY <1>4, <1>5, <1>7, MappedText
<1> QED BY <1>2, <1>6, TextJoins DEF CsvField

\* A glyph repeated is text.
LEMMA RepeatText ==
  ASSUME NEW b \in Ascii, NEW n \in Int
  PROVE  Repeat(b, n) \in Text
<1>1. Max({0, n}) \in Nat
  BY GreaterOf
<1>2. Repeat(b, n) \in [1..Max({0, n}) -> Ascii]
  BY DEF Repeat
<1>3. Repeat(b, n) \in Seq(Ascii)
  BY <1>1, <1>2, ListOf
<1> QED BY <1>3, AsciiIsText

\* A number is text.
LEMMA DecimalText ==
  ASSUME NEW n \in Nat
  PROVE  Decimal(n) \in Text
<1>1. 48..57 \subseteq Ascii
  BY DEF Ascii
<1> QED BY <1>1, DecimalDigits, SeqMonotonic, AsciiIsText

\* The labels of the columns are text.
LEMMA NamesText ==
  /\ \A c \in ToSet(Column) : Label[c] \in Text
  /\ \A t \in {"utf8", "pb", "hex"} : TypeName[t] \in Text
<1>1. \A t \in {"utf8", "pb", "hex"} : TypeName[t] \in Seq(Ascii)
  <2>1. /\ <<117, 116, 102, 56>> \in Seq(Ascii) /\ <<112, 98>> \in Seq(Ascii)
        /\ <<104, 101, 120>> \in Seq(Ascii)
    BY DEF Ascii
  <2> QED BY <2>1 DEF TypeName
<1>2. \A c \in ToSet(Column) : Label[c] \in Seq(Ascii)
  <2>1. ToSet(Column) = {"path", "name", "type", "value"}
    BY LabelTyped
  <2>2. /\ <<112, 97, 116, 104>> \in Seq(Ascii) /\ <<110, 97, 109, 101>> \in Seq(Ascii)
        /\ <<116, 121, 112, 101>> \in Seq(Ascii) /\ <<118, 97, 108, 117, 101>> \in Seq(Ascii)
    BY DEF Ascii
  <2>3. \A c \in {"path", "name", "type", "value"} : Label[c] \in Seq(Ascii)
    BY <2>1, <2>2 DEF Label
  <2> QED BY <2>1, <2>3
<1> QED BY <1>1, <1>2, AsciiIsText

-----------------------------------------------------------------------------
(* What reads from left to right                                           *)

\* From left to right through the characters of a line.
ReadStep(s, st) ==
  IF ~st.ok \/ st.i > Len(s) THEN st
  ELSE LET found == CodePointAt(s, st.i)
       IN IF found.n = 0 THEN [st EXCEPT !.ok = FALSE]
          ELSE [ok |-> TRUE, i |-> st.i + found.n, out |-> Append(st.out, found.cp)]

\* The states of that read, its first one, and what it ends in.
Read(s) == [ok : BOOLEAN, i : Nat \ {0}, out : Seq({CodePointAt(s, m).cp : m \in 1..Len(s)})]
AtStart == [ok |-> TRUE, i |-> 1, out |-> <<>>]

\* A step of the read keeps its place and what it has read in range.
LEMMA ReadStepTyped ==
  ASSUME NEW s \in Line, NEW st \in Read(s)
  PROVE  ReadStep(s, st) \in Read(s)
<1> DEFINE C == {CodePointAt(s, m).cp : m \in 1..Len(s)}
<1>1. st = [ok |-> st.ok, i |-> st.i, out |-> st.out] /\ st.ok \in BOOLEAN /\ st.i \in Nat \ {0} /\ st.out \in Seq(C)
  BY DEF Read
<1>2. CASE ~st.ok \/ st.i > Len(s)
  BY <1>2 DEF ReadStep
<1>3. CASE st.ok /\ ~(st.i > Len(s))
  <2>1. st.i \in 1..Len(s)
    BY <1>1, <1>3, LineLen
  <2>2. CodePointAt(s, st.i).n \in 0..4 /\ CodePointAt(s, st.i).cp \in C
    BY <2>1, CharMade
  <2>3. PICK found : found = CodePointAt(s, st.i)
    OBVIOUS
  <2>4. ReadStep(s, st) = IF found.n = 0 THEN [st EXCEPT !.ok = FALSE]
          ELSE [ok |-> TRUE, i |-> st.i + found.n, out |-> Append(st.out, found.cp)]
    BY <1>3, <2>3 DEF ReadStep
  <2> HIDE DEF C
  <2>5. Append(st.out, found.cp) \in Seq(C)
    BY <1>1, <2>2, <2>3
  <2>6. st.i + found.n \in Nat \ {0}
    BY <1>1, <2>2, <2>3
  <2>7. Read(s) = [ok : BOOLEAN, i : Nat \ {0}, out : Seq(C)]
    BY DEF Read, C
  <2>8. [st EXCEPT !.ok = FALSE] \in Read(s)
    BY <1>1, <2>7
  <2>9. [ok |-> TRUE, i |-> st.i + found.n, out |-> Append(st.out, found.cp)] \in Read(s)
    BY <2>5, <2>6, <2>7
  <2> QED BY <2>4, <2>8, <2>9
<1> QED BY <1>2, <1>3

ReadFirst(s) == FoldLeft(LAMBDA st, b : ReadStep(s, st), AtStart, s)

\* CodePoints is what that read ends in.
LEMMA ReadIs ==
  ASSUME NEW s
  PROVE  CodePoints(s) = ReadFirst(s)
BY Zenon DEF CodePoints, Scan, ReadFirst, ReadStep, AtStart

\* What one step preserves holds of the whole read.
LEMMA ReadRun ==
  ASSUME NEW s \in Line
  PROVE  \E f \in [0..Len(s) -> Read(s)] :
           /\ f[0] = AtStart /\ f[Len(s)] = CodePoints(s)
           /\ \A n \in 1..Len(s) : f[n] = ReadStep(s, f[n - 1])
<1> DEFINE N == Len(s)
           S == Read(s)
           G == [p \in S \X (1..N) |-> ReadStep(s, p[1])]
           Is(g) == g = [t \in SUBSET (1..N) |-> IF t = {} THEN AtStart
                           ELSE ReadStep(s, g[t \ {Max(t)}])]
           g == CHOOSE g : Is(g)
<1>1. N \in Nat /\ DOMAIN s = 1..N
  BY LineLen
<1>2. CodePoints(s) = g[1..N]
  <2>1. ReadFirst(s) = g[1..N]
    BY <1>1, Zenon DEF FoldLeft, MapThenFoldSet, ReadFirst
  <2> QED BY <2>1, ReadIs, Zenon
<1>3. AtStart \in S
  BY DEF AtStart, Read
<1>4. \A v \in S, n \in 1..N : ReadStep(s, v) \in S
  BY ReadStepTyped
<1>5. G \in [S \X (1..N) -> S] /\ \A v \in S, n \in 1..N : G[<<v, n>>] = ReadStep(s, v)
  BY <1>4
<1> HIDE DEF G, S
<1>6. PICK it \in Folds(S, AtStart, N, G) : TRUE
  <2>1. N \in Nat /\ G \in [S \X (1..N) -> S]
    BY <1>1, <1>5
  <2>2. Folds(S, AtStart, N, G) # {}
    BY <1>3, <2>1, FoldExists
  <2> QED BY <2>2
<1>7. Is(it)
  <2>1. it \in [SUBSET (1..N) -> S]
    BY DEF Folds
  <2>2. \A t \in SUBSET (1..N) : t # {} => Max(t) \in 1..N
    BY <1>1, MaxOfSome
  <2>3. \A t \in SUBSET (1..N) : it[t] = IF t = {} THEN AtStart
                           ELSE ReadStep(s, it[t \ {Max(t)}])
    BY <1>5, <2>1, <2>2 DEF Folds
  <2> QED BY <2>1, <2>3
<1>8. Is(g)
  BY <1>7, Zenon
<1> HIDE DEF g
<1>9. Folding(S, AtStart, N, G, g)
  BY <1>1, <1>5, <1>8, MaxOfSome DEF Folding
<1> HIDE DEF Is
<1>10. PICK f \in Stepwise(S, AtStart, N, G) : f[N] = g[1..N]
  <2>1. N \in Nat /\ G \in [S \X (1..N) -> S]
    BY <1>1, <1>5
  <2>2. Ends(S, AtStart, N, G, g)
    BY <1>3, <1>9, <2>1, FoldEnds, Zenon
  <2> QED BY <2>2, Zenon DEF Ends
<1>11. /\ f \in [0..N -> S] /\ f[0] = AtStart
       /\ \A n \in 1..N : f[n] = ReadStep(s, f[n - 1])
  <2>1. f \in [0..N -> S] /\ f[0] = AtStart /\ \A n \in 1..N : f[n] = G[<<f[n - 1], n>>]
    BY DEF Stepwise
  <2>2. \A n \in 1..N : f[n - 1] \in S
    BY <1>1, <2>1
  <2> QED BY <1>5, <2>1, <2>2
<1>12. f \in [0..N -> Read(s)]
  BY <1>11 DEF S
<1> QED BY <1>2, <1>10, <1>11, <1>12, Zenon

\* What is in a sequence with one element more.
LEMMA AppendSet ==
  ASSUME NEW S, NEW q \in Seq(S), NEW c \in S
  PROVE  ToSet(Append(q, c)) = ToSet(q) \cup {c}
<1>1. Len(q) \in Nat /\ DOMAIN q = 1..Len(q)
  BY SeqTyped
<1>2. /\ DOMAIN Append(q, c) = 1..(Len(q) + 1)
      /\ \A n \in 1..Len(q) : Append(q, c)[n] = q[n]
      /\ Append(q, c)[Len(q) + 1] = c
  BY <1>1
<1>3. \A n \in 1..(Len(q) + 1) : n \in 1..Len(q) \/ n = Len(q) + 1
  BY <1>1
<1>4. Len(q) + 1 \in 1..(Len(q) + 1) /\ 1..Len(q) \subseteq 1..(Len(q) + 1)
  BY <1>1
<1> HIDE <1>1
<1> QED BY <1>1, <1>2, <1>3, <1>4, Zenon DEF ToSet

\* The read goes on where a character begins, and has met no surrogate.
Good(s, B, st) == st.ok /\ st.i \in B /\ \A cp \in ToSet(st.out) : cp \notin Surrogate

\* One step of a read of a text goes on to where the next character begins.
LEMMA GoodOn ==
  ASSUME NEW s \in Line, NEW B, Closed(s, B), NEW st \in Read(s), Good(s, B, st)
  PROVE  Good(s, B, ReadStep(s, st))
<1> DEFINE C == {CodePointAt(s, m).cp : m \in 1..Len(s)}
<1>1. st.ok /\ st.i \in B /\ (\A cp \in ToSet(st.out) : cp \notin Surrogate) /\ st.out \in Seq(C)
      /\ st.i \in Nat \ {0}
  BY DEF Good, Read
<1>2. CASE st.i > Len(s)
  <2>1. ReadStep(s, st) = st
    BY <1>2 DEF ReadStep
  <2> QED BY <2>1
<1>3. CASE ~(st.i > Len(s))
  <2>1. st.i \in 1..Len(s) /\ st.i <= Len(s)
    BY <1>1, <1>3, LineLen
  <2>2. Reads(s, st.i) /\ st.i + CodePointAt(s, st.i).n \in B
    BY <1>1, <2>1 DEF Closed
  <2>3. PICK found : found = CodePointAt(s, st.i)
    OBVIOUS
  <2>4. found.n # 0 /\ found.cp \notin Surrogate /\ st.i + found.n \in B
    BY <2>2, <2>3 DEF Reads
  <2>5. ReadStep(s, st) = [ok |-> TRUE, i |-> st.i + found.n, out |-> Append(st.out, found.cp)]
    BY <1>1, <1>3, <2>3, <2>4 DEF ReadStep
  <2>6. found.cp \in C
    BY <2>1, <2>3
  <2> HIDE DEF C
  <2>7. ToSet(Append(st.out, found.cp)) = ToSet(st.out) \cup {found.cp}
    BY <1>1, <2>6, AppendSet
  <2>8. \A cp \in ToSet(Append(st.out, found.cp)) : cp \notin Surrogate
    BY <1>1, <2>4, <2>7
  <2> QED BY <2>4, <2>5, <2>8 DEF Good
<1> QED BY <1>2, <1>3

\* A text is UTF-8.
LEMMA TextReads ==
  ASSUME NEW s \in Text
  PROVE  IsUtf8(s)
<1>1. s \in Line /\ Len(s) \in Nat
  BY LineLen DEF Text
<1>2. PICK B : Closed(s, B)
  BY DEF Text
<1>3. PICK f \in [0..Len(s) -> Read(s)] :
           /\ f[0] = AtStart /\ f[Len(s)] = CodePoints(s)
           /\ \A n \in 1..Len(s) : f[n] = ReadStep(s, f[n - 1])
  BY <1>1, ReadRun
<1> DEFINE T == {n \in Nat : Good(s, B, f[n])}
<1>4. 0 \in T
  <2>1. 1 \in B
    BY <1>2 DEF Closed
  <2>2. ToSet(<<>>) = {}
    BY DEF ToSet
  <2>3. Good(s, B, AtStart)
    BY <2>1, <2>2 DEF Good, AtStart
  <2> QED BY <1>3, <2>3
<1>5. ASSUME NEW n \in 1..Len(s), n - 1 \in T PROVE n \in T
  <2>1. Good(s, B, f[n - 1])
    BY <1>5, Zenon
  <2>2. f[n - 1] \in Read(s) /\ n \in Nat
    BY <1>1, <1>3
  <2>3. Good(s, B, ReadStep(s, f[n - 1]))
    BY <1>1, <1>2, <2>1, <2>2, GoodOn
  <2>4. f[n] = ReadStep(s, f[n - 1])
    BY <1>3
  <2>5. Good(s, B, f[n])
    BY <2>3, <2>4, Zenon
  <2> QED BY <2>2, <2>5, Zenon
<1> HIDE DEF T
<1>6. Len(s) \in T
  <2>1. \A n \in 0..Len(s) : n \in T
    BY <1>1, <1>4, <1>5, UpTo
  <2> QED BY <1>1, <2>1
<1>7. Good(s, B, CodePoints(s))
  BY <1>3, <1>6, Zenon DEF T
<1> QED BY <1>7, Zenon DEF Good, IsUtf8

\* Where the read has been.
Been(s, B, st, n) ==
  /\ B \subseteq 1..(Len(s) + 1) /\ 1 \in B /\ st.i \in B /\ (st.i > n \/ st.i > Len(s))
  /\ \A m \in B \ {st.i} : m <= Len(s) =>
       /\ CodePointAt(s, m).n # 0 /\ CodePointAt(s, m).cp \in ToSet(st.out)
       /\ m + CodePointAt(s, m).n \in B

\* Where a read that meets no failure has been is closed under reading.
LEMMA BeenOn ==
  ASSUME NEW s \in Line, NEW B, NEW st \in Read(s), NEW n \in 1..Len(s), Been(s, B, st, n - 1),
         ReadStep(s, st).ok
  PROVE  \E D : Been(s, D, ReadStep(s, st), n)
<1> DEFINE C == {CodePointAt(s, m).cp : m \in 1..Len(s)}
<1>1. st.ok \in BOOLEAN /\ st.i \in Nat \ {0} /\ st.out \in Seq(C) /\ Len(s) \in Nat
  BY LineLen DEF Read
<1>2. CASE ~st.ok \/ st.i > Len(s)
  <2>1. ReadStep(s, st) = st
    BY <1>2 DEF ReadStep
  <2>2. st.i > Len(s)
    BY <1>2, <2>1
  <2>3. Been(s, B, st, n)
    BY <2>2 DEF Been
  <2> QED BY <2>1, <2>3
<1>3. CASE st.ok /\ ~(st.i > Len(s))
  <2>1. st.i \in 1..Len(s) /\ st.i <= Len(s)
    BY <1>1, <1>3
  <2>2. PICK found : found = CodePointAt(s, st.i)
    OBVIOUS
  <2>3. ReadStep(s, st) = IF found.n = 0 THEN [st EXCEPT !.ok = FALSE]
          ELSE [ok |-> TRUE, i |-> st.i + found.n, out |-> Append(st.out, found.cp)]
    BY <1>3, <2>2 DEF ReadStep
  <2>4. found.n # 0
    <3>1. st = [ok |-> st.ok, i |-> st.i, out |-> st.out]
      BY DEF Read
    <3>2. [st EXCEPT !.ok = FALSE].ok = FALSE
      BY <3>1
    <3> QED BY <2>3, <3>2
  <2>5. PICK l \in 1..4 : l = found.n
    BY <2>1, <2>2, <2>4, CharMade
  <2>6. st.i + l - 1 <= Len(s)
    BY <2>1, <2>2, <2>5, CharMade
  <2>7. PICK x \in Nat : x = st.i + l
    BY <1>1
  <2>8. x \in 1..(Len(s) + 1) /\ x > st.i
    <3>1. PICK y \in Nat \ {0} : y = st.i
      BY <1>1
    <3>2. PICK N \in Nat : N = Len(s)
      BY LineLen
    <3>3. y + l - 1 <= N /\ x = y + l
      BY <2>6, <2>7, <3>1, <3>2
    <3>4. x \in 1..(N + 1) /\ x > y
      BY <3>3
    <3> QED BY <3>1, <3>2, <3>4
  <2>9. PICK out : out = Append(st.out, found.cp)
    OBVIOUS
  <2>10. ReadStep(s, st) = [ok |-> TRUE, i |-> x, out |-> out]
    BY <2>3, <2>4, <2>5, <2>7, <2>9
  <2>11. ToSet(out) = ToSet(st.out) \cup {found.cp}
    <3>1. found.cp \in C
      BY <2>1, <2>2
    <3> HIDE DEF C
    <3> QED BY <1>1, <2>9, <3>1, AppendSet
  <2>12. Been(s, B \cup {x}, [ok |-> TRUE, i |-> x, out |-> out], n)
    <3>1. /\ B \subseteq 1..(Len(s) + 1) /\ 1 \in B /\ st.i \in B /\ (st.i > n - 1 \/ st.i > Len(s))
          /\ \A m \in B \ {st.i} : m <= Len(s) =>
               /\ CodePointAt(s, m).n # 0 /\ CodePointAt(s, m).cp \in ToSet(st.out)
               /\ m + CodePointAt(s, m).n \in B
      BY DEF Been
    <3>2. B \cup {x} \subseteq 1..(Len(s) + 1) /\ x > n
      BY <1>1, <2>1, <2>8, <3>1
    <3>3. ASSUME NEW m \in (B \cup {x}) \ {x}, m <= Len(s)
          PROVE  /\ CodePointAt(s, m).n # 0 /\ CodePointAt(s, m).cp \in ToSet(out)
                 /\ m + CodePointAt(s, m).n \in B \cup {x}
      <4>1. CASE m = st.i
        BY <2>2, <2>4, <2>5, <2>7, <2>11, <4>1
      <4>2. CASE m # st.i
        BY <2>11, <3>1, <3>3, <4>2
      <4> QED BY <4>1, <4>2
    <3> QED BY <3>1, <3>2, <3>3 DEF Been
  <2> QED BY <2>10, <2>12
<1> QED BY <1>1, <1>2, <1>3

\* UTF-8 is a text.
LEMMA ReadsText ==
  ASSUME NEW s \in Line, IsUtf8(s)
  PROVE  s \in Text
<1>1. Len(s) \in Nat
  BY LineLen
<1>2. PICK f \in [0..Len(s) -> Read(s)] :
           /\ f[0] = AtStart /\ f[Len(s)] = CodePoints(s)
           /\ \A n \in 1..Len(s) : f[n] = ReadStep(s, f[n - 1])
  BY ReadRun
<1> DEFINE So(n) == f[n].ok => \E B : Been(s, B, f[n], n)
           T == {n \in Nat : So(n)}
<1>3. 0 \in T
  <2>1. Been(s, {1}, AtStart, 0)
    BY <1>1 DEF Been, AtStart
  <2>2. So(0)
    BY <1>2, <2>1
  <2> QED BY <2>2
<1>4. ASSUME NEW n \in 1..Len(s), n - 1 \in T PROVE n \in T
  <2>1. So(n - 1)
    BY <1>4, Zenon
  <2>2. f[n - 1] \in Read(s) /\ n \in Nat /\ f[n] = ReadStep(s, f[n - 1])
    BY <1>1, <1>2
  <2>3. ASSUME f[n].ok PROVE \E B : Been(s, B, f[n], n)
    <3>1. f[n - 1].ok
      <4>1. ASSUME ~f[n - 1].ok PROVE FALSE
        <5>1. ReadStep(s, f[n - 1]) = f[n - 1]
          BY <4>1 DEF ReadStep
        <5> QED BY <2>2, <2>3, <4>1, <5>1
      <4> QED BY <4>1
    <3>2. PICK B : Been(s, B, f[n - 1], n - 1)
      BY <2>1, <3>1
    <3>3. ReadStep(s, f[n - 1]).ok
      BY <2>2, <2>3
    <3>4. \E D : Been(s, D, ReadStep(s, f[n - 1]), n)
      BY <2>2, <3>2, <3>3, BeenOn
    <3> QED BY <2>2, <3>4, Zenon
  <2>4. So(n)
    BY <2>3
  <2> QED BY <2>2, <2>4, Zenon
<1> HIDE DEF T
<1>5. Len(s) \in T
  <2>1. \A n \in 0..Len(s) : n \in T
    BY <1>1, <1>3, <1>4, UpTo
  <2> QED BY <1>1, <2>1
<1>6. So(Len(s))
  BY <1>5, Zenon DEF T
<1>7. PICK end : end = CodePoints(s)
  OBVIOUS
<1>8. end.ok /\ \A cp \in ToSet(end.out) : cp \notin Surrogate
  BY <1>7, Zenon DEF IsUtf8
<1>9. PICK B : Been(s, B, end, Len(s))
  BY <1>2, <1>6, <1>7, <1>8
<1>10. Closed(s, B)
  <2>1. /\ B \subseteq 1..(Len(s) + 1) /\ 1 \in B /\ end.i > Len(s)
        /\ \A m \in B \ {end.i} : m <= Len(s) =>
             /\ CodePointAt(s, m).n # 0 /\ CodePointAt(s, m).cp \in ToSet(end.out)
             /\ m + CodePointAt(s, m).n \in B
    BY <1>9 DEF Been
  <2>2. ASSUME NEW m \in B, m <= Len(s) PROVE Reads(s, m) /\ m + CodePointAt(s, m).n \in B
    <3>1. m # end.i
      <4>1. m \in Nat /\ end.i \in Nat
        BY <1>1, <1>9, <2>1 DEF Been
      <4> QED BY <1>1, <2>1, <2>2, <4>1
    <3>2. /\ CodePointAt(s, m).n # 0 /\ CodePointAt(s, m).cp \in ToSet(end.out)
          /\ m + CodePointAt(s, m).n \in B
      BY <2>1, <2>2, <3>1
    <3> QED BY <1>8, <3>2 DEF Reads
  <2> QED BY <2>1, <2>2 DEF Closed
<1> QED BY <1>10 DEF Text

-----------------------------------------------------------------------------
(* Lines that are text                                                     *)

\* A value as it is shown is text, whatever its bytes are.
LEMMA ValueText ==
  ASSUME NEW set, NEW raw \in Bytestrings
  PROVE  RenderValue(set, raw).text \in Text
<1>1. IsDisplayText(raw) => raw \in Text
  <2>1. raw \in Line
    BY BytesAreLines
  <2> QED BY <2>1, ReadsText DEF IsDisplayText
<1>2. Hex(raw) \in Text /\ Encode(raw) \in Text
  BY HexText, EncodeText
<1> QED BY <1>1, <1>2 DEF RenderValue

\* A cell is text.
LEMMA CellIsText ==
  ASSUME NEW set, NEW column, Width(set, column) \in Nat, NEW text \in Text
  PROVE  Cell(set, column, text) \in Text
<1>1. AnsiName \in Text /\ AnsiValue \in Text /\ AnsiReset \in Text
  BY MarksText
<1>2. Repeat(Blank, Width(set, column) - CountCodePoints(text)) \in Text
  <2>1. Width(set, column) - CountCodePoints(text) \in Int
    BY StartsTyped, TextIsLine
  <2>2. Blank \in Ascii
    BY DEF Blank, Ascii
  <2> QED BY <2>1, <2>2, RepeatText
<1>3. (IF column = "name" THEN AnsiName ELSE AnsiValue) \in Text
  BY <1>1
<1>4. (IF Colored(set, column) THEN (IF column = "name" THEN AnsiName ELSE AnsiValue) \o text \o AnsiReset
       ELSE text) \in Text
  BY <1>1, <1>3, TextJoins
<1> QED BY <1>2, <1>4, TextJoins DEF Cell

\* A row of cells is text.
LEMMA RowText ==
  ASSUME NEW set \in OptionSets, NEW cells, \A n \in 1..Len(Columns(set)) : cells[n] \in Text
  PROVE  RowOf(set, cells) \in Text
<1> DEFINE parts == [n \in DOMAIN Columns(set) |->
            <<Bar, Blank>> \o Cell(set, Columns(set)[n], cells[n]) \o <<Blank>>]
<1>1. Len(Columns(set)) \in Nat /\ DOMAIN Columns(set) = 1..Len(Columns(set))
  BY ColumnsTyped
<1>2. <<Bar, Blank>> \in Text /\ <<Blank>> \in Text /\ <<Bar, LineFeed>> \in Text
  <2>1. Bar \in Ascii /\ Blank \in Ascii /\ LineFeed \in Ascii
    BY DEF Bar, Blank, LineFeed, Ascii
  <2> QED BY <2>1, MarksText
<1>3. ASSUME NEW n \in 1..Len(Columns(set)) PROVE parts[n] \in Text
  <2>1. Cell(set, Columns(set)[n], cells[n]) \in Text
    BY ColumnsTyped, CellIsText
  <2> QED BY <1>1, <1>2, <2>1, TextJoins
<1>4. DOMAIN parts = 1..Len(Columns(set)) /\ parts = [n \in 1..Len(Columns(set)) |-> parts[n]]
  BY <1>1
<1>5. RowOf(set, cells) = FlattenSeq(parts) \o <<Bar, LineFeed>>
  BY Zenon DEF RowOf
<1> HIDE DEF parts
<1>6. FlattenSeq(parts) \in Text
  BY <1>1, <1>3, <1>4, PartsText
<1> QED BY <1>2, <1>5, <1>6, TextJoins

\* The row of labels is text.
LEMMA HeaderRowText ==
  ASSUME NEW set \in OptionSets
  PROVE  HeaderRow(set) \in Text
<1> DEFINE cols == Columns(set)
           cells == [n \in DOMAIN cols |-> FitCell(Label[cols[n]], Width(set, cols[n]), FALSE)]
<1>1. DOMAIN cols = 1..Len(cols)
  BY ColumnsTyped
<1>2. \A n \in 1..Len(cols) : cells[n] \in Text
  BY <1>1, ColumnsTyped, NamesText, FitText
<1>3. HeaderRow(set) = RowOf(set, cells)
  BY DEF HeaderRow, FramedRow, RowOf
<1> HIDE DEF cells
<1> QED BY <1>2, <1>3, RowText

\* A row of the table and of Markdown is text.
LEMMA TableRowText ==
  ASSUME NEW set \in OptionSets, NEW path \in Text, NEW name \in Bytestrings,
         NEW val \in Bytestrings
  PROVE  TableRow(set, path, name, val) \in Text
<1> DEFINE cols == Columns(set)
           cells == [n \in DOMAIN cols |-> EscapeBars(set, CellText(set, cols[n], path, name, val))]
<1>1. DOMAIN cols = 1..Len(cols)
  BY ColumnsTyped
<1>2. \A n \in 1..Len(cols) : cells[n] \in Text
  <2> TAKE n \in 1..Len(cols)
  <2>1. cols[n] \in {"path", "name", "type", "value"} /\ Width(set, cols[n]) \in Nat
    BY ColumnsTyped, LabelTyped
  <2>2. Encode(name) \in Text
    BY EncodeText
  <2>3. RenderValue(set, val).text \in Text /\ TypeName[RenderValue(set, val).type] \in Text
    BY ValueTyped, ValueText, NamesText
  <2>4. CellText(set, cols[n], path, name, val) \in Text
    <3> DEFINE w == Width(set, cols[n])
    <3>1. CASE cols[n] = "path"
      <4>1. CellText(set, cols[n], path, name, val) = FitCell(path, w, TRUE)
        BY <3>1 DEF CellText
      <4> QED BY <2>1, <4>1, FitText
    <3>2. CASE cols[n] = "name"
      <4>1. CellText(set, cols[n], path, name, val) = FitCell(Encode(name), w, FALSE)
        BY <3>2 DEF CellText
      <4> QED BY <2>1, <2>2, <4>1, FitText
    <3>3. CASE cols[n] = "type"
      <4>1. CellText(set, cols[n], path, name, val) = FitCell(TypeName[RenderValue(set, val).type], w, FALSE)
        BY <3>3 DEF CellText
      <4> QED BY <2>1, <2>3, <4>1, FitText
    <3>4. CASE cols[n] = "value"
      <4>1. CellText(set, cols[n], path, name, val) = FitCell(RenderValue(set, val).text, w, FALSE)
        BY <3>4 DEF CellText
      <4> QED BY <2>1, <2>3, <4>1, FitText
    <3> QED BY <2>1, <3>1, <3>2, <3>3, <3>4
  <2> QED BY <1>1, <2>4, EscapeBarsText
<1>3. TableRow(set, path, name, val) = RowOf(set, cells)
  BY DEF TableRow, FramedRow, RowOf
<1> HIDE DEF cells
<1> QED BY <1>2, <1>3, RowText

\* The borders of the table are text.
LEMMA BorderText ==
  ASSUME NEW set \in OptionSets
  PROVE  Border(set) \in Text
<1> DEFINE cols == Columns(set)
           corner == IF set.fmt = "Table" THEN <<43>> ELSE <<Bar>>
           width(c) == IF Width(set, c) # 0 THEN Width(set, c) ELSE Len(Label[c])
           parts == [n \in DOMAIN cols |-> Repeat(45, width(cols[n]) + 2) \o corner]
<1>1. Len(cols) \in Nat /\ DOMAIN cols = 1..Len(cols)
  BY ColumnsTyped
<1>2. corner \in Text /\ <<LineFeed>> \in Text
  <2>1. 43 \in Ascii /\ Bar \in Ascii /\ LineFeed \in Ascii
    BY DEF Bar, LineFeed, Ascii
  <2> QED BY <2>1, MarksText
<1>3. ASSUME NEW n \in 1..Len(cols) PROVE parts[n] \in Text
  <2>1. Width(set, cols[n]) \in Nat /\ Len(Label[cols[n]]) \in Nat
    BY ColumnsTyped, LabelTyped, LineParts
  <2>2. width(cols[n]) + 2 \in Int
    BY <2>1
  <2>4. 45 \in Ascii
    BY DEF Ascii
  <2> HIDE DEF width, corner
  <2>3. Repeat(45, width(cols[n]) + 2) \in Text
    BY <2>2, <2>4, RepeatText
  <2> QED BY <1>1, <1>2, <2>3, TextJoins
<1>4. DOMAIN parts = 1..Len(cols) /\ parts = [n \in 1..Len(cols) |-> parts[n]]
  BY <1>1
<1>5. Border(set) = corner \o FlattenSeq(parts) \o <<LineFeed>>
  BY Zenon DEF Border
<1> HIDE DEF parts, corner
<1>6. FlattenSeq(parts) \in Text
  BY <1>1, <1>3, <1>4, PartsText
<1> QED BY <1>2, <1>5, <1>6, TextJoins

\* Painted text is text.
LEMMA PaintText ==
  ASSUME NEW set, NEW text \in Text
  PROVE  Paint(set, AnsiValue, text) \in Text /\ Paint(set, AnsiName, text) \in Text
BY MarksText, TextJoins DEF Paint

\* print_value_tsv writes text.
LEMMA TsvValueText ==
  ASSUME NEW set, NEW text \in Text, NEW rawLen \in Nat
  PROVE  TsvValue(set, text, rawLen) \in Text
<1> DEFINE shown == IF set.maxWidth > 0 THEN PrefixBytes(text, set.maxWidth) ELSE Len(text)
<1>1. text \in Line /\ Len(text) \in Nat
  BY LineLen, TextIsLine
<1>2. TsvValue(set, text, rawLen) =
        Paint(set, AnsiValue, SubSeq(text, 1, shown))
        \o IF shown = Len(text) THEN <<>>
           ELSE Ellipsis \o <<40>> \o Decimal(rawLen) \o <<32, 98, 121, 116, 101, 115, 41>>
  BY Zenon DEF TsvValue
<1>3. SubSeq(text, 1, shown) \in Text
  <2>1. SubSeq(text, 1, Len(text)) = text
    BY <1>1 DEF Line
  <2>2. SubSeq(text, 1, PrefixBytes(text, set.maxWidth)) \in Text
    BY PrefixText
  <2> QED BY <2>1, <2>2
<1> HIDE DEF shown
<1>4. <<40>> \in Text /\ <<32, 98, 121, 116, 101, 115, 41>> \in Text
  <2>1. <<40>> \in Seq(Ascii) /\ <<32, 98, 121, 116, 101, 115, 41>> \in Seq(Ascii)
    BY DEF Ascii
  <2> QED BY <2>1, AsciiIsText
<1>5. Ellipsis \o <<40>> \o Decimal(rawLen) \o <<32, 98, 121, 116, 101, 115, 41>> \in Text
  BY <1>4, MarksText, DecimalText, TextJoins
<1>6. (IF shown = Len(text) THEN <<>>
       ELSE Ellipsis \o <<40>> \o Decimal(rawLen) \o <<32, 98, 121, 116, 101, 115, 41>>) \in Text
  BY <1>5, EmptyIsText
<1> QED BY <1>2, <1>3, <1>6, PaintText, TextJoins

\* A TSV row is text.
LEMMA TsvRowText ==
  ASSUME NEW set \in OptionSets, NEW path \in Text, NEW name \in Text, NEW val \in Bytestrings
  PROVE  TsvRow(set, path, name, val) \in Text
<1>2. PICK v : v = RenderValue(set, val)
  OBVIOUS
<1>3. v.text \in Text /\ TypeName[v.type] \in Text
  BY <1>2, ValueTyped, ValueText, NamesText
<1>4. <<Tab>> \in Text /\ <<LineFeed>> \in Text /\ <<>> \in Text
  <2>1. Tab \in Ascii /\ LineFeed \in Ascii
    BY DEF Tab, LineFeed, Ascii
  <2> QED BY <2>1, MarksText, EmptyIsText
<1>5. (IF set.recurse THEN path \o <<Tab>> ELSE <<>>) \in Text
  BY <1>4, TextJoins
<1>6. (IF "type" \in Present(set) THEN <<Tab>> \o TypeName[v.type] ELSE <<>>) \in Text
  BY <1>3, <1>4, TextJoins
<1>7. TsvValue(set, v.text, Len(val)) \in Text
  <2>1. Len(val) \in Nat
    BY BytesAreLines, LineLen
  <2> QED BY <1>3, <2>1, TsvValueText
<1>8. (IF ~set.values THEN <<>>
       ELSE (IF "type" \in Present(set) THEN <<Tab>> \o TypeName[v.type] ELSE <<>>)
            \o <<Tab>> \o TsvValue(set, v.text, Len(val))) \in Text
  <2>1. (IF "type" \in Present(set) THEN <<Tab>> \o TypeName[v.type] ELSE <<>>)
            \o <<Tab>> \o TsvValue(set, v.text, Len(val)) \in Text
    BY <1>4, <1>6, <1>7, TextJoins
  <2> QED BY <1>4, <2>1
<1>9. TsvRow(set, path, name, val) =
        (IF set.recurse THEN path \o <<Tab>> ELSE <<>>) \o Paint(set, AnsiName, name)
        \o (IF ~set.values THEN <<>>
            ELSE (IF "type" \in Present(set) THEN <<Tab>> \o TypeName[v.type] ELSE <<>>)
                 \o <<Tab>> \o TsvValue(set, v.text, Len(val)))
        \o <<LineFeed>>
  BY <1>2, Zenon DEF TsvRow
<1> QED BY <1>4, <1>5, <1>8, <1>9, PaintText, TextJoins

\* The CSV labels are text.
LEMMA CsvHeaderText ==
  ASSUME NEW set \in OptionSets
  PROVE  CsvHeader(set) \in Text
<1> DEFINE labels == [n \in DOMAIN Columns(set) |-> Label[Columns(set)[n]]]
<1>1. Len(Columns(set)) \in Nat /\ DOMAIN labels = 1..Len(Columns(set))
  BY ColumnsTyped
<1>2. \A n \in 1..Len(Columns(set)) : labels[n] \in Text
  BY <1>1, ColumnsTyped, NamesText
<1>3. CsvHeader(set) = Joined(labels, <<Comma>>) \o <<LineFeed>>
  BY Zenon DEF CsvHeader
<1> HIDE DEF labels
<1>4. <<Comma>> \in Text /\ <<LineFeed>> \in Text
  <2>1. Comma \in Ascii /\ LineFeed \in Ascii
    BY DEF Comma, LineFeed, Ascii
  <2> QED BY <2>1, MarksText
<1>5. Joined(labels, <<Comma>>) \in Text
  BY <1>1, <1>2, <1>4, JoinedText
<1> QED BY <1>3, <1>4, <1>5, TextJoins

\* A CSV row is text.
LEMMA CsvRowText ==
  ASSUME NEW set \in OptionSets, NEW path \in Text, NEW name \in Bytestrings,
         NEW val \in Bytestrings
  PROVE  CsvRow(set, path, name, val) \in Text
<1>1. CsvField(path) \in Text /\ CsvField(Encode(name)) \in Text
      /\ CsvField(RenderValue(set, val).text) \in Text
  BY EncodeText, ValueText, CsvText
<1>2. PICK a \in Text, b \in Text, c \in Text :
        a = CsvField(path) /\ b = CsvField(Encode(name)) /\ c = CsvField(RenderValue(set, val).text)
  BY <1>1
<1> DEFINE parts == (IF set.recurse THEN <<a>> ELSE <<>>) \o <<b>> \o (IF set.values THEN <<c>> ELSE <<>>)
<1>3. parts \in Seq(Text)
  <2>1. (IF set.recurse THEN <<a>> ELSE <<>>) \in Seq(Text) /\ <<b>> \in Seq(Text)
        /\ (IF set.values THEN <<c>> ELSE <<>>) \in Seq(Text)
    OBVIOUS
  <2> QED BY <2>1, Appending
<1>4. CsvRow(set, path, name, val) = Joined(parts, <<Comma>>) \o <<LineFeed>>
  BY <1>2, Zenon DEF CsvRow
<1> HIDE DEF parts
<1>5. Len(parts) \in Nat /\ DOMAIN parts = 1..Len(parts) /\ \A n \in 1..Len(parts) : parts[n] \in Text
  BY <1>3, SeqTyped
<1>6. <<Comma>> \in Text /\ <<LineFeed>> \in Text
  <2>1. Comma \in Ascii /\ LineFeed \in Ascii
    BY DEF Comma, LineFeed, Ascii
  <2> QED BY <2>1, MarksText
<1>7. Joined(parts, <<Comma>>) \in Text
  BY <1>5, <1>6, JoinedText
<1> QED BY <1>4, <1>6, <1>7, TextJoins

-----------------------------------------------------------------------------
(* Listings that are text                                                  *)

\* Every one of the lines is text.
TextLines(lines) == \A n \in DOMAIN lines : lines[n].line \in Text

\* What was asked for can be listed as text.
TextGiven ==
  /\ ~o.json /\ IsUtf8(file.path)
  /\ \A entry \in ToSet(file.attrs) : IsUtf8(entry.name)

\* Lines of text behind lines of text.
LEMMA LinesJoin ==
  ASSUME NEW a \in Lines, NEW b \in Lines, TextLines(a), TextLines(b)
  PROVE  TextLines(a \o b)
<1> DEFINE R == [kind : Kinds, name : Bytestrings, value : Bytestrings, line : Line]
<1>1. a \in Seq(R) /\ b \in Seq(R)
  BY DEF Lines
<1> HIDE DEF R
<1>2. PICK M \in Nat : M = Len(a)
  BY <1>1
<1>3. PICK N \in Nat : N = Len(b)
  BY <1>1
<1>4. DOMAIN a = 1..M /\ DOMAIN b = 1..N
  BY <1>1, <1>2, <1>3
<1>5. PICK c : c = a \o b
  OBVIOUS
<1>6. DOMAIN c = 1..(M + N) /\ (\A n \in 1..M : c[n] = a[n]) /\ \A n \in 1..N : c[M + n] = b[n]
  BY <1>1, <1>2, <1>3, <1>5
<1>7. ASSUME NEW n \in 1..(M + N) PROVE c[n].line \in Text
  <2>1. CASE n <= M
    <3>1. n \in 1..M
      BY <2>1
    <3> QED BY <1>4, <1>6, <3>1 DEF TextLines
  <2>2. CASE ~(n <= M)
    <3>1. PICK m \in 1..N : n = M + m
      <4>1. n - M \in 1..N /\ n = M + (n - M)
        BY <2>2
      <4> QED BY <4>1
    <3>2. c[n] = b[m]
      BY <1>6, <3>1
    <3> QED BY <1>4, <3>2 DEF TextLines
  <2> QED BY <2>1, <2>2
<1> QED BY <1>5, <1>6, <1>7 DEF TextLines

\* One line.
LEMMA RowIsText ==
  ASSUME NEW kind, NEW line \in Text
  PROVE  TextLines(<<Row(kind, line)>>)
<1>1. PICK r : r = Row(kind, line)
  OBVIOUS
<1>2. r.line \in Text
  BY <1>1 DEF Row
<1>3. DOMAIN <<r>> = {1} /\ <<r>>[1] = r
  OBVIOUS
<1> QED BY <1>1, <1>2, <1>3 DEF TextLines

\* The lines a listing begins with are text.
LEMMA HeaderText ==
  ASSUME NEW set \in OptionSets, ~set.json
  PROVE  TextLines(Header(set))
<1>1. /\ TextLines(<<Row("border", Border(set))>>) /\ TextLines(<<Row("header", HeaderRow(set))>>)
      /\ TextLines(<<Row("labels", CsvHeader(set))>>)
  BY RowIsText, BorderText, HeaderRowText, CsvHeaderText
<1>2. /\ <<Row("border", Border(set))>> \in Lines /\ <<Row("header", HeaderRow(set))>> \in Lines
  <2>1. \A kind \in {"border", "header"} : kind \in Kinds
    BY DEF Kinds
  <2> QED BY <2>1, RowMade, BorderTyped, HeaderRowTyped
<1>3. TextLines(<<>>) /\ <<>> \in Lines
  BY DEF TextLines, Lines
<1>4. /\ TextLines(<<Row("header", HeaderRow(set)), Row("border", Border(set))>>)
      /\ <<Row("header", HeaderRow(set)), Row("border", Border(set))>> \in Lines
  <2>1. PICK a : a = Row("header", HeaderRow(set))
    OBVIOUS
  <2>2. PICK b : b = Row("border", Border(set))
    OBVIOUS
  <2>3. <<a>> \in Lines /\ <<b>> \in Lines /\ TextLines(<<a>>) /\ TextLines(<<b>>)
    BY <1>1, <1>2, <2>1, <2>2
  <2>4. <<a>>[1] = a /\ <<b>>[1] = b /\ 1 \in DOMAIN <<a>> /\ 1 \in DOMAIN <<b>>
    OBVIOUS
  <2>5. <<a, b>> \in Lines
    BY <2>3 DEF Lines
  <2>6. TextLines(<<a, b>>)
    <3>1. a.line \in Text /\ b.line \in Text
      BY <2>3, <2>4, Zenon DEF TextLines
    <3>2. DOMAIN <<a, b>> = {1, 2} /\ <<a, b>>[1] = a /\ <<a, b>>[2] = b
      OBVIOUS
    <3> QED BY <3>1, <3>2 DEF TextLines
  <2> QED BY <2>1, <2>2, <2>5, <2>6
<1>5. TextLines((IF set.fmt = "Table" THEN <<Row("border", Border(set))>> ELSE <<>>)
                \o <<Row("header", HeaderRow(set)), Row("border", Border(set))>>)
  <2>1. PICK a : a = IF set.fmt = "Table" THEN <<Row("border", Border(set))>> ELSE <<>>
    OBVIOUS
  <2>2. a \in Lines /\ TextLines(a)
    BY <1>1, <1>2, <1>3, <2>1
  <2> QED BY <1>4, <2>1, <2>2, LinesJoin
<1> QED BY <1>1, <1>3, <1>5 DEF Header, NamesArray

\* The line of an attribute is text.
LEMMA EntryText ==
  ASSUME o \in OptionSets, FileTyped, TextGiven, NEW entry \in Attribute, entry \in ToSet(file.attrs)
  PROVE  TextLines(<<Entry(entry)>>)
<1>1. entry.name \in Bytestrings /\ entry.value \in Bytestrings
  BY DEF Attribute
<1>2. file.path \in Text /\ entry.name \in Text
  <2>1. file.path \in Line /\ entry.name \in Line
    BY <1>1, BytesAreLines DEF FileTyped
  <2> QED BY <2>1, ReadsText DEF TextGiven
<1>3. EntryLine(entry) \in Text
  <2>1. ~o.json /\ o.fmt \in {"Tsv", "Csv", "Table", "Md"}
    BY DEF OptionSets, TextGiven
  <2>3. CASE o.fmt = "Tsv"
    <3>1. EntryLine(entry) = TsvRow(o, file.path, entry.name, entry.value)
      BY <2>1, <2>3 DEF EntryLine, NamesArray, ValueLines, Framed
    <3> QED BY <1>1, <1>2, <3>1, TsvRowText
  <2>4. CASE o.fmt = "Csv"
    <3>1. EntryLine(entry) = CsvRow(o, file.path, entry.name, entry.value)
      BY <2>1, <2>4 DEF EntryLine, NamesArray, ValueLines, Framed
    <3> QED BY <1>1, <1>2, <3>1, CsvRowText
  <2>5. CASE o.fmt \in {"Table", "Md"}
    <3>1. EntryLine(entry) = TableRow(o, file.path, entry.name, entry.value)
      BY <2>1, <2>5 DEF EntryLine, NamesArray, ValueLines, Framed
    <3> QED BY <1>1, <1>2, <3>1, TableRowText
  <2> QED BY <2>1, <2>3, <2>4, <2>5
<1>4. PICK r : r = Entry(entry)
  OBVIOUS
<1>5. r.line \in Text
  BY <1>3, <1>4 DEF Entry
<1>6. DOMAIN <<r>> = {1} /\ <<r>>[1] = r
  OBVIOUS
<1> QED BY <1>4, <1>5, <1>6 DEF TextLines

\* What does not list leaves no listing behind.
LEMMA Elsewhere ==
  ASSUME OutputInv, TakeArgument \/ Start \/ ReadStdin \/ SetValueOf \/ CmdGet \/ CmdLen
           \/ CmdDel \/ CmdLimits \/ CmdLoad \/ PrintHelp \/ PrintVersion
  PROVE  ~(phase' \in Listing \cup {"exit"} /\ verb' = "lst")
<1>1. verb # "lst"
  <2>1. phase \in {"scan", "put", "set", "get", "len", "del", "limits", "load", "help", "version"}
    <3>1. TakeArgument => phase = "scan"
      BY DEF TakeArgument, EndOptions, SetFlag, SetValue, PrintAndExit, UnknownOption, Positional, AtOption, Scanning
    <3>2. Start => phase = "scan"
      BY DEF Start, Dispatch
    <3> QED BY <3>1, <3>2 DEF ReadStdin, SetValueOf, CmdGet, CmdLen, CmdDel, CmdLimits, CmdLoad, PrintHelp,
               PrintVersion
  <2> QED BY <2>1 DEF OutputInv, CommandsInv, ToolTyped, VerbRight
<1>2. phase' \notin Listing /\ (phase' = "exit" => verb' = verb)
  <2>1. \A bytes, text : PrintOut(bytes, text) => phase' = "exit" /\ verb' = verb
    BY Zenon DEF PrintOut, Exit
  <2>2. \A status : Fail(status) => phase' = "exit" /\ verb' = verb
    BY DEF Fail, Exit, history
  <2>3. CASE TakeArgument
    <3>1. ScanSteps /\ UNCHANGED history
      BY <2>3 DEF TakeArgument, ScanSteps
    <3>2. phase' \in {"scan", "help", "version", "exit"}
      BY <3>1, ScanStepTyped DEF OutputInv, CommandsInv, ToolTyped
    <3> QED BY <3>1, <3>2 DEF Listing, history
  <2>4. CASE Start
    <3>1. Dispatch
      BY <2>4 DEF Start
    <3>2. phase' = "exit" \/ phase' \in Verbs
      BY <3>1, DispatchTyped DEF OutputInv, CommandsInv, ToolTyped
    <3>3. phase' = "exit" => verb' = verb
      BY <2>4 DEF Start
    <3> QED BY <3>2, <3>3 DEF Listing, Verbs
  <2>5. CASE ReadStdin
    <3>1. phase' \in {"exit", "set"} /\ verb' = verb
      BY <2>2, <2>5, Zenon DEF ReadStdin, history
    <3> QED BY <3>1 DEF Listing
  <2>6. CASE SetValueOf \/ CmdGet \/ CmdLen \/ CmdDel \/ CmdLimits
    <3>1. phase' = "exit" /\ verb' = verb
      <4>1. CASE SetValueOf
        BY <2>2, <4>1, Zenon DEF SetValueOf
      <4>2. CASE CmdGet
        BY <2>1, <2>2, <4>2, Zenon DEF CmdGet
      <4>3. CASE CmdLen
        BY <2>1, <2>2, <4>3, Zenon DEF CmdLen, Say
      <4>4. CASE CmdDel
        BY <2>2, <4>4, Zenon DEF CmdDel
      <4>5. CASE CmdLimits
        BY <2>1, <4>5, Zenon DEF CmdLimits, Say
      <4> QED BY <2>6, <4>1, <4>2, <4>3, <4>4, <4>5
    <3> QED BY <3>1 DEF Listing
  <2>7. CASE CmdLoad \/ PrintHelp
    BY <2>7 DEF CmdLoad, PrintHelp, Exit, history, Listing
  <2>8. CASE PrintVersion
    <3>1. phase' = "exit" /\ verb' = verb
      BY <2>1, <2>8, Zenon DEF PrintVersion, Say
    <3> QED BY <3>1 DEF Listing
  <2> QED BY <2>3, <2>4, <2>5, <2>6, <2>7, <2>8
<1> QED BY <1>1, <1>2

\* Once a listing has begun its lines are text.
TextInv ==
  /\ OutputInv
  /\ phase \in Listing \cup {"exit"} /\ verb = "lst" /\ TextGiven => TextLines(rows)

\* Outside of a listing no line is written.
LEMMA TextElsewhere ==
  ASSUME TextInv, OutputInv', TakeArgument \/ Start \/ ReadStdin \/ SetValueOf \/ CmdGet \/ CmdLen
           \/ CmdDel \/ CmdLimits \/ CmdLoad \/ PrintHelp \/ PrintVersion
  PROVE  TextInv'
BY Elsewhere DEF TextInv

\* The start of a listing writes its first lines.
LEMMA TextStart ==
  ASSUME TextInv, OutputInv', LstStart
  PROVE  TextInv'
<1>1. /\ phase = "lst" /\ o' = [o EXCEPT !.useColor = ResolveColor] /\ rows' = rows \o Header(o')
  BY Zenon DEF LstStart, Emit
<1>2. rows = <<>>
  BY <1>1 DEF TextInv, OutputInv, CommandsInv, NothingOut, Listing
<1>3. o' \in OptionSets
  BY RoomTyped DEF OutputInv, CommandsInv, ToolTyped, ScanTyped
<1>4. PICK lines \in Lines : lines = Header(o')
  BY <1>3, HeaderTyped
<1>5. rows' = lines
  BY <1>1, <1>2, <1>4, EmptyFirst DEF Lines
<1>6. TextGiven' => ~o'.json
  BY DEF TextGiven
<1>7. ~o'.json => TextLines(Header(o'))
  BY <1>3, HeaderText
<1>8. TextGiven' => TextLines(rows')
  BY <1>4, <1>5, <1>6, <1>7
<1> QED BY <1>8 DEF TextInv, TextLines

\* What is listed stays as it is while it is.
LEMMA SameText ==
  ASSUME UNCHANGED <<o, file>>
  PROVE  TextGiven' = TextGiven
BY DEF TextGiven

\* Each attribute is one line.
LEMMA TextRow ==
  ASSUME TextInv, OutputInv', LstRow
  PROVE  TextInv'
<1>1. /\ phase = "rows" /\ phase' = "rows" /\ k <= Len(Order) /\ UNCHANGED <<optionVars, world>>
  BY DEF LstRow
<1>2. \/ rows' = rows /\ verb' = verb
      \/ ~ValueLines(o) /\ rows' = rows \o <<Entry(Order[k])>> /\ verb' = verb
  BY Zenon DEF LstRow, Emit, history
<1>3. /\ FileTyped /\ k \in Nat \ {0} /\ rows \in Lines /\ o \in OptionSets
  BY <1>1, RoomTyped DEF TextInv, OutputInv, Listing, ReadTyped, ListingTyped
<1>4. ASSUME TextGiven, verb = "lst" PROVE TextLines(rows')
  <2>1. TextLines(rows)
    BY <1>1, <1>4 DEF TextInv, Listing
  <2>2. CASE rows' = rows
    BY <2>1, <2>2
  <2>3. CASE ~ValueLines(o) /\ rows' = rows \o <<Entry(Order[k])>>
    <3>1. ~ValueLines(o) => Order = file.attrs
      BY DEF Order
    <3>2. PICK s \in Seq(Attribute) : s = file.attrs
      BY <1>3 DEF FileTyped
    <3>3. k \in 1..Len(s) /\ Order[k] = s[k]
      BY <1>1, <1>3, <2>3, <3>1, <3>2
    <3>4. s[k] \in Attribute /\ s[k] \in ToSet(s)
      BY <3>3, SeqTyped DEF ToSet
    <3>5. PICK entry \in Attribute : entry = s[k]
      BY <3>4
    <3>6. TextLines(<<Entry(entry)>>)
      BY <1>3, <1>4, <3>2, <3>4, <3>5, EntryText
    <3>7. <<Entry(entry)>> \in Lines
      BY <1>3, <2>3, EntryTyped
    <3>8. TextLines(rows \o <<Entry(entry)>>)
      BY <1>3, <2>1, <3>6, <3>7, LinesJoin
    <3>9. rows' = rows \o <<Entry(entry)>>
      BY <2>3, <3>3, <3>5
    <3> QED BY <3>8, <3>9, Zenon
  <2> QED BY <1>2, <2>2, <2>3
<1>5. TextGiven' = TextGiven
  BY <1>1, SameText DEF optionVars, world
<1>6. verb' = verb
  BY <1>2
<1> QED BY <1>4, <1>5, <1>6 DEF TextInv, TextLines

\* The call and the end of the rows write no line of text.
LEMMA TextOther ==
  ASSUME TextInv, OutputInv', LstList \/ LstRowsEnd
  PROVE  TextInv'
<1>1. /\ phase \in Listing /\ UNCHANGED <<o, file, verb>>
  <2>1. CASE LstList
    BY <2>1 DEF LstList, Listing, optionVars, world, history
  <2>2. CASE LstRowsEnd
    <3>1. phase = "rows" /\ UNCHANGED <<optionVars, world>> /\ UNCHANGED verb
      BY <2>2, Zenon DEF LstRowsEnd, Emit, history
    <3> QED BY <3>1 DEF Listing, optionVars, world
  <2> QED BY <2>1, <2>2
<1>2. ASSUME TextGiven PROVE rows' = rows
  <2>1. ~ValueLines(o)
    BY <1>2 DEF TextGiven, ValueLines
  <2>2. CASE LstList
    BY <2>2 DEF LstList, history
  <2>3. CASE LstRowsEnd
    BY <2>1, <2>3, Zenon DEF LstRowsEnd, history
  <2> QED BY <2>2, <2>3
<1>3. TextGiven' = TextGiven
  BY <1>1, SameText
<1> QED BY <1>1, <1>2, <1>3 DEF TextInv, TextLines

\* The last lines of a listing.
LEMMA TextTail ==
  ASSUME TextInv, OutputInv', LstTail
  PROVE  TextInv'
<1> DEFINE lines == IF NamesArray(o) THEN <<Row("array", <<93, LineFeed>>)>>
                    ELSE IF Framed(o) /\ o.fmt = "Table" THEN <<Row("border", Border(o))>> ELSE <<>>
<1>1. /\ phase = "tail" /\ UNCHANGED <<optionVars, world>> /\ verb' = verb
      /\ rows' = rows \o lines
  BY Zenon DEF LstTail
<1>2. rows \in Lines /\ o \in OptionSets
  BY <1>1, RoomTyped DEF TextInv, OutputInv, Listing, ListingTyped
<1>3. ASSUME TextGiven PROVE lines \in Lines /\ TextLines(lines)
  <2>1. ~NamesArray(o)
    BY <1>3 DEF TextGiven, NamesArray
  <2>2. <<Row("border", Border(o))>> \in Lines /\ TextLines(<<Row("border", Border(o))>>)
    <3>1. "border" \in Kinds
      BY DEF Kinds
    <3> QED BY <1>2, <3>1, RowMade, RowIsText, BorderTyped, BorderText
  <2>3. <<>> \in Lines /\ TextLines(<<>>)
    BY DEF Lines, TextLines
  <2> QED BY <2>1, <2>2, <2>3
<1> HIDE DEF lines
<1>4. ASSUME TextGiven, verb = "lst" PROVE TextLines(rows')
  <2>1. TextLines(rows)
    BY <1>1, <1>4 DEF TextInv, Listing
  <2>2. TextLines(rows \o lines)
    BY <1>2, <1>3, <1>4, <2>1, LinesJoin
  <2> QED BY <1>1, <2>2, Zenon
<1>5. TextGiven' = TextGiven
  BY <1>1, SameText DEF optionVars, world
<1> QED BY <1>1, <1>4, <1>5 DEF TextInv, TextLines

\* Every step leaves the lines text.
LEMMA TextStep ==
  ASSUME TextInv, [Next]_vars
  PROVE  TextInv'
<1>1. OutputInv'
  BY OutputStep DEF TextInv
<1>2. CASE UNCHANGED vars
  <2>1. TextGiven' = TextGiven /\ UNCHANGED <<phase, verb, rows>>
    BY <1>2, SameText DEF vars, optionVars, world, history
  <2> QED BY <1>1, <2>1 DEF TextInv, TextLines
<1> QED BY <1>1, <1>2, TextElsewhere, TextStart, TextRow, TextOther, TextTail DEF Next

\* Cut or not, colored or not, a listing of text is text: no code point is
\* taken apart (fit_cell, print_value_tsv, escape_bars, csv_field,
\* utf8_prefix_bytes, utf8_suffix_start of main.rs).
THEOREM LinesStayText == Spec => []LinesAreText
<1>1. Init => TextInv
  <2>1. Init => phase = "scan"
    BY DEF Init, ScanInit
  <2> QED BY <2>1, OutputAtFirst DEF TextInv, Listing
<1>2. TextInv /\ [Next]_vars => TextInv'
  BY TextStep
<1>3. TextInv => LinesAreText
  <2>1. ASSUME TextLines(rows) PROVE \A n \in DOMAIN rows : IsUtf8(rows[n].line)
    BY <2>1, TextReads DEF TextLines
  <2> QED BY <2>1 DEF TextInv, LinesAreText, TextGiven
<1> QED BY <1>1, <1>2, <1>3, PTL DEF Spec

-----------------------------------------------------------------------------
(* Printable binary read back                                              *)

\* No two bytes share a glyph, and none has the space.
LEMMA GlyphOnce ==
  ASSUME NEW a \in Byte
  PROVE  /\ GlyphOf(a) \in Basic /\ GlyphOf(a) # 32
         /\ \A b \in Byte : GlyphOf(a) = GlyphOf(b) => a = b
<1>1. \A m \in 1..128, n \in 1..128 : LowGlyphs[m] = LowGlyphs[n] => m = n
  BY SMTT(60) DEF LowGlyphs
<1>2. \A m \in 1..128, n \in 1..128 : HighGlyphs[m] = HighGlyphs[n] => m = n
  BY SMTT(60) DEF HighGlyphs
<1>3. \A m \in 1..128, n \in 1..128 : LowGlyphs[m] # HighGlyphs[n]
  BY SMTT(60) DEF LowGlyphs, HighGlyphs
<1>4. \A n \in 1..128 : LowGlyphs[n] \in Basic /\ LowGlyphs[n] # 32
  BY SMTT(60) DEF LowGlyphs, Basic
<1>5. \A n \in 1..128 : HighGlyphs[n] \in Basic /\ HighGlyphs[n] # 32
  BY SMTT(60) DEF HighGlyphs, Basic
<1>6. \A b \in Byte : /\ b < 128 => GlyphOf(b) = LowGlyphs[b + 1] /\ b + 1 \in 1..128
                      /\ ~(b < 128) => GlyphOf(b) = HighGlyphs[b - 127] /\ b - 127 \in 1..128
  BY DEF GlyphOf, Byte
<1>7. GlyphOf(a) \in Basic /\ GlyphOf(a) # 32
  BY <1>4, <1>5, <1>6
<1>8. ASSUME NEW b \in Byte, GlyphOf(a) = GlyphOf(b) PROVE a = b
  <2>1. CASE a < 128 /\ b < 128
    <3>1. PICK m \in 1..128 : m = a + 1 /\ GlyphOf(a) = LowGlyphs[m]
      BY <1>6, <2>1
    <3>2. PICK n \in 1..128 : n = b + 1 /\ GlyphOf(b) = LowGlyphs[n]
      BY <1>6, <2>1
    <3>3. m = n
      BY <1>1, <1>8, <3>1, <3>2, Zenon
    <3> QED BY <3>1, <3>2, <3>3 DEF Byte
  <2>2. CASE ~(a < 128) /\ ~(b < 128)
    <3>1. PICK m \in 1..128 : m = a - 127 /\ GlyphOf(a) = HighGlyphs[m]
      BY <1>6, <2>2
    <3>2. PICK n \in 1..128 : n = b - 127 /\ GlyphOf(b) = HighGlyphs[n]
      BY <1>6, <2>2
    <3>3. m = n
      BY <1>2, <1>8, <3>1, <3>2, Zenon
    <3> QED BY <3>1, <3>2, <3>3 DEF Byte
  <2>3. CASE a < 128 /\ ~(b < 128)
    <3>1. PICK m \in 1..128 : GlyphOf(a) = LowGlyphs[m]
      BY <1>6, <2>3
    <3>2. PICK n \in 1..128 : GlyphOf(b) = HighGlyphs[n]
      BY <1>6, <2>3
    <3> QED BY <1>3, <1>8, <3>1, <3>2, Zenon
  <2>4. CASE ~(a < 128) /\ b < 128
    <3>1. PICK m \in 1..128 : GlyphOf(b) = LowGlyphs[m]
      BY <1>6, <2>4
    <3>2. PICK n \in 1..128 : GlyphOf(a) = HighGlyphs[n]
      BY <1>6, <2>4
    <3> QED BY <1>3, <1>8, <3>1, <3>2, Zenon
  <2> QED BY <2>1, <2>2, <2>3, <2>4
<1> QED BY <1>7, <1>8

\* What the decoder takes of the bytes of a code point is its lead byte's length,
\* and the slot it looks them up in holds no other.
LEMMA SlotIs ==
  ASSUME NEW cp \in Basic
  PROVE  /\ Len(Utf8(cp)) \in 1..3 /\ SeqLen(Utf8(cp)[1]) = Len(Utf8(cp))
         /\ cp < 128 => Slot(Utf8(cp)) = <<cp>>
         /\ cp >= 128 /\ cp < 2048 => Slot(Utf8(cp)) = <<cp \div 64, cp % 64>>
         /\ cp >= 2048 => Slot(Utf8(cp)) = <<224 + cp \div 4096, 128 + ((cp \div 64) % 64), 128 + (cp % 64)>>
<1>0. cp \in Nat /\ cp < 53248
  BY DEF Basic
<1>1. CASE cp < 128
  <2>1. Utf8(cp) = <<cp>>
    BY <1>0, <1>1 DEF Utf8
  <2>2. SeqLen(cp) = 1
    BY <1>0, <1>1 DEF SeqLen
  <2> QED BY <1>0, <1>1, <2>1, <2>2 DEF Slot
<1>2. CASE cp >= 128 /\ cp < 2048
  <2>1. PICK q \in 2..31 : q = cp \div 64
    BY <1>0, <1>2
  <2>2. PICK r \in 0..63 : r = cp % 64
    BY <1>0
  <2>3. Utf8(cp) = <<192 + q, 128 + r>>
    BY <1>0, <1>2, <2>1, <2>2 DEF Utf8
  <2>4. SeqLen(192 + q) = 2 /\ (192 + q) % 32 = q /\ (128 + r) % 64 = r
    BY DEF SeqLen
  <2>5. Slot(<<192 + q, 128 + r>>) = <<q, r>>
    BY <2>4 DEF Slot
  <2> QED BY <1>0, <1>2, <2>1, <2>2, <2>3, <2>4, <2>5
<1>3. CASE cp >= 2048
  <2>1. PICK q \in 0..13 : q = cp \div 4096
    BY <1>0, <1>3
  <2>2. PICK t : t = 128 + ((cp \div 64) % 64)
    OBVIOUS
  <2>3. PICK r : r = 128 + (cp % 64)
    OBVIOUS
  <2>4. Utf8(cp) = <<224 + q, t, r>>
    BY <1>0, <1>3, <2>1, <2>2, <2>3 DEF Utf8
  <2>5. SeqLen(224 + q) = 3
    BY DEF SeqLen
  <2>6. Slot(<<224 + q, t, r>>) = <<224 + q, t, r>>
    BY DEF Slot
  <2> QED BY <1>0, <1>3, <2>1, <2>2, <2>3, <2>4, <2>5, <2>6
<1> QED BY <1>0, <1>1, <1>2, <1>3

LEMMA SlotSplit ==
  ASSUME NEW cp \in Basic
  PROVE  /\ cp < 128 => Len(Slot(Utf8(cp))) = 1 /\ Slot(Utf8(cp))[1] = cp
         /\ cp >= 128 /\ cp < 2048 => /\ Len(Slot(Utf8(cp))) = 2
                                     /\ cp = Slot(Utf8(cp))[1] * 64 + Slot(Utf8(cp))[2]
         /\ cp >= 2048 => /\ Len(Slot(Utf8(cp))) = 3
                          /\ cp = (Slot(Utf8(cp))[1] - 224) * 4096 + (Slot(Utf8(cp))[2] - 128) * 64
                                  + (Slot(Utf8(cp))[3] - 128)
<1>0. cp \in Nat
  BY DEF Basic
<1>1. CASE cp < 128
  <2>1. Slot(Utf8(cp)) = <<cp>>
    BY <1>1, SlotIs
  <2> QED BY <1>0, <1>1, <2>1
<1>2. CASE cp >= 128 /\ cp < 2048
  <2>1. Slot(Utf8(cp)) = <<cp \div 64, cp % 64>>
    BY <1>2, SlotIs
  <2>2. cp = (cp \div 64) * 64 + (cp % 64)
    BY <1>0
  <2> QED BY <1>0, <1>2, <2>1, <2>2
<1>3. CASE cp >= 2048
  <2>1. PICK q \in Nat : q = cp \div 64
    BY <1>0
  <2>2. PICK r \in Nat : r = cp % 64
    BY <1>0
  <2>3. PICK h \in Nat : h = cp \div 4096
    BY <1>0
  <2>4. PICK t \in Nat : t = q % 64
    OBVIOUS
  <2>5. cp = h * 4096 + t * 64 + r
    BY <1>0, <2>1, <2>2, <2>3, <2>4
  <2>6. Slot(Utf8(cp)) = <<224 + h, 128 + t, 128 + r>>
    BY <1>3, <2>1, <2>2, <2>3, <2>4, SlotIs
  <2>7. cp = (224 + h - 224) * 4096 + (128 + t - 128) * 64 + (128 + r - 128)
    BY <2>5
  <2> QED BY <1>0, <1>3, <2>6, <2>7
<1> QED BY <1>0, <1>1, <1>2, <1>3

LEMMA SlotOnce ==
  ASSUME NEW x \in Basic, NEW y \in Basic, Slot(Utf8(x)) = Slot(Utf8(y))
  PROVE  x = y
<1>0. x \in Nat /\ y \in Nat
  BY DEF Basic
<1>1. PICK c : c = Slot(Utf8(x)) /\ c = Slot(Utf8(y))
  OBVIOUS
<1>2. /\ x < 128 => Len(c) = 1 /\ c[1] = x
      /\ x >= 128 /\ x < 2048 => Len(c) = 2 /\ x = c[1] * 64 + c[2]
      /\ x >= 2048 => Len(c) = 3 /\ x = (c[1] - 224) * 4096 + (c[2] - 128) * 64 + (c[3] - 128)
  BY <1>1, SlotSplit
<1>3. /\ y < 128 => Len(c) = 1 /\ c[1] = y
      /\ y >= 128 /\ y < 2048 => Len(c) = 2 /\ y = c[1] * 64 + c[2]
      /\ y >= 2048 => Len(c) = 3 /\ y = (c[1] - 224) * 4096 + (c[2] - 128) * 64 + (c[3] - 128)
  BY <1>1, SlotSplit
<1>4. CASE x < 128
  BY <1>0, <1>2, <1>3, <1>4
<1>5. CASE x >= 128 /\ x < 2048
  BY <1>0, <1>2, <1>3, <1>5
<1>6. CASE x >= 2048
  BY <1>0, <1>2, <1>3, <1>6
<1> QED BY <1>0, <1>4, <1>5, <1>6

\* The bytes a byte is encoded as.
Coded(b) == IF b = 32 THEN <<32>> ELSE Glyph[b]

\* What is decoded of them is that byte.
LEMMA CodedBack ==
  ASSUME NEW b \in Byte
  PROVE  /\ Coded(b) \in Line /\ Len(Coded(b)) \in 1..3 /\ SeqLen(Coded(b)[1]) = Len(Coded(b))
         /\ IF Slot(Coded(b)) \in Slots THEN Tables[Slot(Coded(b))] = b ELSE Coded(b) = <<b>>
<1>1. \A a \in Byte : Glyph[a] = Utf8(GlyphOf(a)) /\ GlyphOf(a) \in Basic /\ GlyphOf(a) # 32
  BY GlyphOnce DEF Glyph
<1>2. CASE b = 32
  <2>1. Coded(b) = <<32>> /\ SeqLen(32) = 1 /\ <<32>> \in Line
    BY <1>2 DEF Coded, SeqLen, Line
  <2>2. Slot(<<32>>) = <<32>>
    BY DEF Slot
  <2>3. 32 \in Basic /\ Utf8(32) = <<32>>
    BY DEF Basic, Utf8
  <2>4. <<32>> \notin Slots
    <3> SUFFICES ASSUME NEW a \in Byte, Utf8(32) = Slot(Glyph[a]) PROVE FALSE
      BY <2>3 DEF Slots
    <3>1. Slot(Utf8(32)) = Slot(Utf8(GlyphOf(a)))
      BY <1>1, <2>2, <2>3
    <3>2. 32 = GlyphOf(a)
      BY <1>1, <2>3, <3>1, SlotOnce
    <3> QED BY <1>1, <3>2
  <2>5. PICK c : c = Coded(b)
    OBVIOUS
  <2>6. c = <<32>> /\ Len(c) = 1 /\ c[1] = 32
    BY <2>1, <2>5
  <2>7. c \in Line /\ Len(c) \in 1..3 /\ SeqLen(c[1]) = Len(c)
    BY <2>1, <2>6
  <2>8. Slot(c) \notin Slots /\ c = <<b>>
    BY <1>2, <2>2, <2>4, <2>6
  <2> QED BY <2>5, <2>7, <2>8, Zenon
<1>3. CASE b # 32
  <2>1. Coded(b) = Utf8(GlyphOf(b)) /\ Coded(b) = Glyph[b]
    BY <1>1, <1>3 DEF Coded
  <2>2. Coded(b) \in Line
    BY <2>1, GlyphTyped
  <2>3. Len(Coded(b)) \in 1..3 /\ SeqLen(Coded(b)[1]) = Len(Coded(b))
    BY <1>1, <2>1, SlotIs
  <2>4. Slot(Coded(b)) \in Slots
    BY <2>1 DEF Slots
  <2>5. {a \in Byte : Slot(Glyph[a]) = Slot(Glyph[b])} = {b}
    <3>1. ASSUME NEW a \in Byte, Slot(Glyph[a]) = Slot(Glyph[b]) PROVE a = b
      <4>1. Slot(Utf8(GlyphOf(a))) = Slot(Utf8(GlyphOf(b)))
        BY <1>1, <3>1
      <4>2. GlyphOf(a) = GlyphOf(b)
        BY <1>1, <4>1, SlotOnce
      <4> QED BY <4>2, GlyphOnce
    <3> QED BY <3>1
  <2>6. Tables[Slot(Glyph[b])] = Max({b})
    BY <2>1, <2>4, <2>5 DEF Tables
  <2>7. Max({b}) = b
    <3>1. b \in {b} /\ \A y \in {b} : b >= y
      BY DEF Byte
    <3>2. Max({b}) \in {b}
      BY <3>1 DEF Max
    <3> QED BY <3>2
  <2> QED BY <2>1, <2>2, <2>3, <2>4, <2>6, <2>7
<1> QED BY <1>2, <1>3

\* p is how w begins.
Begins(p, w) == Len(p) <= Len(w) /\ \A j \in 1..Len(p) : w[j] = p[j]

LEMMA BeginsOn ==
  ASSUME NEW p \in Line, NEW v \in Line, NEW w \in Line, Begins(p, v), Begins(v, w)
  PROVE  Begins(p, w)
<1>1. PICK a \in Nat : a = Len(p)
  BY LineLen
<1>2. PICK b \in Nat : b = Len(v)
  BY LineLen
<1>3. PICK c \in Nat : c = Len(w)
  BY LineLen
<1>4. /\ a <= b /\ \A j \in 1..a : v[j] = p[j]
      /\ b <= c /\ \A j \in 1..b : w[j] = v[j]
  BY <1>1, <1>2, <1>3 DEF Begins
<1>5. a <= c /\ \A j \in 1..a : w[j] = p[j]
  BY <1>4
<1> QED BY <1>1, <1>3, <1>5 DEF Begins

LEMMA BeginsWhole ==
  ASSUME NEW a \in Line, NEW p \in Line
  PROVE  /\ Len(a \o p) = Len(a) + Len(p) /\ Begins(a, a \o p)
         /\ \A j \in 1..Len(p) : (a \o p)[Len(a) + j] = p[j]
<1>1. PICK la \in Nat : la = Len(a)
  BY LineLen
<1>2. PICK lp \in Nat : lp = Len(p)
  BY LineLen
<1>3. /\ Len(a \o p) = la + lp
      /\ \A n \in 1..(la + lp) : (a \o p)[n] = IF n <= la THEN a[n] ELSE p[n - la]
  BY <1>1, <1>2, ConcatAt DEF Line
<1>4. \A j \in 1..la : (a \o p)[j] = a[j]
  BY <1>3
<1>5. \A j \in 1..lp : (a \o p)[la + j] = p[j]
  <2>1. ASSUME NEW j \in 1..lp PROVE (a \o p)[la + j] = p[j]
    <3>1. la + j \in 1..(la + lp) /\ ~(la + j <= la) /\ la + j - la = j
      OBVIOUS
    <3> QED BY <1>3, <3>1
  <2> QED BY <2>1
<1>6. la <= la + lp
  OBVIOUS
<1>7. Begins(a, a \o p)
  BY <1>1, <1>3, <1>4, <1>6, Zenon DEF Begins
<1> QED BY <1>1, <1>2, <1>3, <1>5, <1>7, Zenon

\* Each part is in the line put together, where the parts before it end.
Placed(N, parts, f) ==
  /\ \A n \in 0..N : f[n] \in Line /\ Begins(f[n], f[N])
  /\ \A n \in 1..N : Len(f[n]) = Len(f[n - 1]) + Len(parts[n])
  /\ \A n \in 1..N : \A j \in 1..Len(parts[n]) : f[N][Len(f[n - 1]) + j] = parts[n][j]

\* A line put together has each part where the parts before it end.
LEMMA InPlace ==
  ASSUME NEW N \in Nat, NEW parts, PartsIn(Nat, N, parts), NEW f \in Flattening(Nat, N, parts)
  PROVE  Placed(N, parts, f)
<1>1. f \in [0..N -> Line] /\ \A n \in 1..N : parts[n] \in Line /\ f[n] = f[n - 1] \o parts[n]
  BY DEF Flattening, PartsIn, Line
<1>2. ASSUME NEW n \in 1..N
      PROVE  /\ Len(f[n]) = Len(f[n - 1]) + Len(parts[n]) /\ Begins(f[n - 1], f[n])
             /\ \A j \in 1..Len(parts[n]) : f[n][Len(f[n - 1]) + j] = parts[n][j]
  <2>1. PICK a \in Line : a = f[n - 1]
    BY <1>1
  <2>2. PICK p \in Line : p = parts[n]
    BY <1>1
  <2>3. f[n] = a \o p
    BY <1>1, <2>1, <2>2
  <2>4. /\ Len(a \o p) = Len(a) + Len(p) /\ Begins(a, a \o p)
        /\ \A j \in 1..Len(p) : (a \o p)[Len(a) + j] = p[j]
    BY BeginsWhole
  <2> QED BY <2>1, <2>2, <2>3, <2>4, Zenon
<1> DEFINE T == {m \in 0..N : \A n \in 0..m : Begins(f[n], f[m])}
<1>3. \A n \in 0..N : f[n] \in Line /\ Len(f[n]) \in Nat /\ Begins(f[n], f[n])
  BY <1>1, LineLen DEF Begins
<1>4. 0 \in T
  BY <1>3
<1>5. ASSUME NEW m \in 1..N, m - 1 \in T PROVE m \in T
  <2>1. ASSUME NEW n \in 0..m PROVE Begins(f[n], f[m])
    <3>1. CASE n = m
      BY <1>3, <3>1
    <3>2. CASE n # m
      <4>1. n \in 0..(m - 1) /\ n \in 0..N /\ m - 1 \in 0..N /\ m \in 0..N
        BY <3>2
      <4>2. Begins(f[n], f[m - 1]) /\ Begins(f[m - 1], f[m])
        BY <1>2, <1>5, <4>1
      <4>3. f[n] \in Line /\ f[m - 1] \in Line /\ f[m] \in Line
        BY <1>3, <4>1
      <4> QED BY <4>2, <4>3, BeginsOn
    <3> QED BY <3>1, <3>2
  <2> QED BY <2>1
<1> HIDE DEF T
<1>6. \A m \in 0..N : m \in T
  BY <1>4, <1>5, UpTo
<1>7. \A n \in 0..N : Begins(f[n], f[N])
  <2>1. N \in T
    BY <1>6
  <2> QED BY <2>1 DEF T
<1>8. ASSUME NEW n \in 1..N, NEW j \in 1..Len(parts[n]) PROVE f[N][Len(f[n - 1]) + j] = parts[n][j]
  <2>1. n \in 0..N /\ n - 1 \in 0..N
    OBVIOUS
  <2>2. PICK lp \in Nat : lp = Len(parts[n])
    BY <1>1, LineLen
  <2>3. PICK la \in Nat : la = Len(f[n - 1])
    BY <1>3, <2>1
  <2>4. Len(f[n]) = la + lp /\ f[n][la + j] = parts[n][j]
    BY <1>2, <2>2, <2>3
  <2>5. la + j \in 1..(la + lp)
    BY <2>2
  <2>6. \A x \in 1..Len(f[n]) : f[N][x] = f[n][x]
    BY <1>7, <2>1 DEF Begins
  <2>7. f[N][la + j] = f[n][la + j]
    BY <2>4, <2>5, <2>6
  <2> QED BY <2>3, <2>4, <2>7
<1> QED BY <1>2, <1>3, <1>7, <1>8, Zenon DEF Placed

\* One step of the decoder, from left to right through what was encoded.
DecodeStep(s, st) ==
  IF ~st.ok \/ st.i > Len(s) THEN st
  ELSE LET found == [n |-> Len(Sequence(s, st.i)), bytes |-> Sequence(s, st.i)]
       IN IF found.n = 0 THEN [st EXCEPT !.ok = FALSE]
          ELSE [ok |-> TRUE, i |-> st.i + found.n,
                out |-> LET whole == found.n = SeqLen(found.bytes[1])
                        IN IF whole /\ Slot(found.bytes) \in Slots
                           THEN Append(st.out, Tables[Slot(found.bytes)])
                           ELSE st.out \o found.bytes]

DecodeFirst(s) == FoldLeft(LAMBDA st, b : DecodeStep(s, st), AtStart, s)

LEMMA DecodeIs ==
  ASSUME NEW s
  PROVE  Decode(s) = DecodeFirst(s).out
BY Zenon DEF Decode, Scan, DecodeFirst, DecodeStep, AtStart

\* What the steps of the decoder stay in holds of the whole of it.
LEMMA DecodeRun ==
  ASSUME NEW s \in Line, NEW S, AtStart \in S, \A v \in S : DecodeStep(s, v) \in S
  PROVE  \E f \in [0..Len(s) -> S] :
           /\ f[0] = AtStart /\ f[Len(s)] = DecodeFirst(s)
           /\ \A n \in 1..Len(s) : f[n] = DecodeStep(s, f[n - 1])
<1> DEFINE N == Len(s)
           G == [p \in S \X (1..N) |-> DecodeStep(s, p[1])]
           Is(g) == g = [t \in SUBSET (1..N) |-> IF t = {} THEN AtStart
                           ELSE DecodeStep(s, g[t \ {Max(t)}])]
           g == CHOOSE g : Is(g)
<1>1. N \in Nat /\ DOMAIN s = 1..N
  BY LineLen
<1>2. DecodeFirst(s) = g[1..N]
  BY <1>1, Zenon DEF FoldLeft, MapThenFoldSet, DecodeFirst
<1>5. G \in [S \X (1..N) -> S] /\ \A v \in S, n \in 1..N : G[<<v, n>>] = DecodeStep(s, v)
  OBVIOUS
<1> HIDE DEF G
<1>6. PICK it \in Folds(S, AtStart, N, G) : TRUE
  <2>1. N \in Nat /\ G \in [S \X (1..N) -> S]
    BY <1>1, <1>5
  <2>2. Folds(S, AtStart, N, G) # {}
    BY <2>1, FoldExists
  <2> QED BY <2>2
<1>7. Is(it)
  <2>1. it \in [SUBSET (1..N) -> S]
    BY DEF Folds
  <2>2. \A t \in SUBSET (1..N) : t # {} => Max(t) \in 1..N
    BY <1>1, MaxOfSome
  <2>3. \A t \in SUBSET (1..N) : it[t] = IF t = {} THEN AtStart
                           ELSE DecodeStep(s, it[t \ {Max(t)}])
    BY <1>5, <2>1, <2>2 DEF Folds
  <2> QED BY <2>1, <2>3
<1>8. Is(g)
  BY <1>7, Zenon
<1> HIDE DEF g
<1>9. Folding(S, AtStart, N, G, g)
  BY <1>1, <1>5, <1>8, MaxOfSome DEF Folding
<1> HIDE DEF Is
<1>10. PICK f \in Stepwise(S, AtStart, N, G) : f[N] = g[1..N]
  <2>1. N \in Nat /\ G \in [S \X (1..N) -> S]
    BY <1>1, <1>5
  <2>2. Ends(S, AtStart, N, G, g)
    BY <1>9, <2>1, FoldEnds, Zenon
  <2> QED BY <2>2, Zenon DEF Ends
<1>11. /\ f \in [0..N -> S] /\ f[0] = AtStart
       /\ \A n \in 1..N : f[n] = DecodeStep(s, f[n - 1])
  <2>1. f \in [0..N -> S] /\ f[0] = AtStart /\ \A n \in 1..N : f[n] = G[<<f[n - 1], n>>]
    BY DEF Stepwise
  <2>2. \A n \in 1..N : f[n - 1] \in S
    BY <1>1, <2>1
  <2> QED BY <1>5, <2>1, <2>2
<1> QED BY <1>2, <1>10, <1>11, Zenon

\* What was encoded is, byte by byte, what each byte is encoded as.
LEMMA EncodeParts ==
  ASSUME NEW s \in Bytestrings
  PROVE  \E parts \in Seq(Line) :
           /\ Len(parts) = Len(s) /\ Encode(s) = FlattenSeq(parts)
           /\ \A n \in 1..Len(s) : parts[n] = Coded(s[n])
<1> DEFINE parts == [n \in DOMAIN s |-> IF s[n] = 32 THEN <<32>> ELSE Glyph[s[n]]]
<1>1. Len(s) \in Nat /\ DOMAIN s = 1..Len(s) /\ \A n \in 1..Len(s) : s[n] \in Byte
  BY SeqTyped DEF Bytestrings
<1>2. \A n \in 1..Len(s) : parts[n] = Coded(s[n])
  BY <1>1 DEF Coded
<1>3. \A n \in 1..Len(s) : Coded(s[n]) \in Line
  BY <1>1, CodedBack
<1>4. Encode(s) = FlattenSeq(parts)
  BY Zenon DEF Encode
<1>5. DOMAIN parts = 1..Len(s) /\ parts = [n \in 1..Len(s) |-> parts[n]]
  BY <1>1
<1> HIDE DEF parts
<1>6. parts \in Seq(Line) /\ Len(parts) = Len(s)
  BY <1>1, <1>2, <1>3, <1>5
<1> QED BY <1>2, <1>4, <1>6

\* A piece of a line that is part of it.
LEMMA PieceAt ==
  ASSUME NEW s \in Line, NEW p \in Line, NEW at \in Nat, Len(p) # 0, at + Len(p) <= Len(s),
         \A j \in 1..Len(p) : s[at + j] = p[j]
  PROVE  SubSeq(s, at + 1, at + Len(p)) = p /\ s[at + 1] = p[1]
<1>1. PICK n \in Nat : n = Len(p)
  BY LineLen
<1>2. PICK a \in 1..(Len(s) + 1) : a = at + 1
  BY <1>1, LineLen
<1>3. PICK b \in (a - 1)..Len(s) : b = at + n
  BY <1>1, <1>2, LineLen
<1>4. PICK t \in Line : t = SubSeq(s, a, b)
  BY PieceIs
<1>5. Len(t) = b - a + 1 /\ \A l \in 1..(b - a + 1) : t[l] = s[a + l - 1]
  BY <1>4, PieceIs
<1>6. b - a + 1 = n /\ \A l \in 1..n : a + l - 1 = at + l
  BY <1>2, <1>3
<1>7. Len(t) = n /\ \A l \in 1..n : t[l] = p[l]
  BY <1>1, <1>5, <1>6
<1>8. t = p
  BY <1>1, <1>7, SeqEqual DEF Line
<1>9. 1 \in 1..n
  BY <1>1
<1> QED BY <1>1, <1>2, <1>3, <1>4, <1>8, <1>9

\* What the decoder has read where the n-th byte ends.
DecodedTo(s, f, n) == [ok |-> TRUE, i |-> Len(f[n]) + 1, out |-> SubSeq(s, 1, n)]

\* From where one byte ends the decoder goes on to where the next does.
LEMMA DecodeOn ==
  ASSUME NEW s \in Bytestrings, NEW e \in Line, NEW f, NEW n \in 1..Len(s),
         f[n - 1] \in Line, f[n] \in Line, Len(f[n]) <= Len(e),
         Len(f[n]) = Len(f[n - 1]) + Len(Coded(s[n])),
         \A j \in 1..Len(Coded(s[n])) : e[Len(f[n - 1]) + j] = Coded(s[n])[j]
  PROVE  DecodeStep(e, DecodedTo(s, f, n - 1)) = DecodedTo(s, f, n)
<1>1. PICK b \in Byte : b = s[n]
  BY SeqTyped DEF Bytestrings
<1>2. PICK c \in Line : c = Coded(b)
  BY CodedBack
<1>3. /\ Len(c) \in 1..3 /\ SeqLen(c[1]) = Len(c)
      /\ IF Slot(c) \in Slots THEN Tables[Slot(c)] = b ELSE c = <<b>>
  BY <1>2, CodedBack
<1>4. PICK lc \in 1..3 : lc = Len(c)
  BY <1>3
<1>5. PICK at \in Nat : at = Len(f[n - 1])
  BY LineLen
<1>6. PICK m \in Nat : m = Len(e)
  BY LineLen
<1>7. at + lc <= m /\ Len(f[n]) = at + lc
  BY <1>1, <1>2, <1>4, <1>5, <1>6
<1>8. SubSeq(e, at + 1, at + lc) = c /\ e[at + 1] = c[1]
  <2>1. Len(c) # 0 /\ at + Len(c) <= Len(e) /\ \A j \in 1..Len(c) : e[at + j] = c[j]
    <3>1. Coded(s[n]) = c
      BY <1>1, <1>2
    <3>2. \A j \in 1..Len(c) : e[at + j] = c[j]
      BY <1>5, <3>1, Zenon
    <3>3. Len(c) # 0 /\ at + Len(c) <= Len(e)
      BY <1>4, <1>6, <1>7
    <3> QED BY <3>2, <3>3, Zenon
  <2> QED BY <1>4, <2>1, PieceAt
<1>9. Sequence(e, at + 1) = c
  <2>1. SeqLen(e[at + 1]) = lc
    BY <1>3, <1>4, <1>8
  <2>2. at + 1 + lc - 1 = at + lc /\ at + lc \in Nat
    OBVIOUS
  <2>3. Min({m, at + lc}) = at + lc
    BY <1>7, <2>2, LesserOf
  <2> QED BY <1>6, <1>8, <2>1, <2>2, <2>3 DEF Sequence
<1>10. PICK d : d = SubSeq(s, 1, n - 1)
  OBVIOUS
<1>11. d \in Seq(Byte) /\ SubSeq(s, 1, n) = Append(d, b) /\ Append(d, b) = d \o <<b>>
  <2>1. n \in 1..Len(s) /\ 1 \in 1..Len(s) /\ s \in Seq(Byte)
    BY DEF Bytestrings
  <2>2. SubSeq(s, 1, n) = SubSeq(s, 1, n - 1) \o <<s[n]>>
    BY <2>1, SubSeqRecursiveSecond
  <2>3. d \in Seq(Byte)
    BY <1>10, <2>1
  <2>4. Append(d, b) = d \o <<b>>
    BY <2>3
  <2> QED BY <1>1, <1>10, <2>2, <2>3, <2>4
<1>12. PICK st : st = DecodedTo(s, f, n - 1)
  OBVIOUS
<1>13. st = [ok |-> TRUE, i |-> at + 1, out |-> d]
  BY <1>5, <1>10, <1>12, Zenon DEF DecodedTo
<1>14. st.ok /\ ~(st.i > Len(e)) /\ st.i = at + 1 /\ st.out = d
  BY <1>6, <1>7, <1>13
<1>15. DecodeStep(e, st) = [ok |-> TRUE, i |-> at + 1 + lc, out |-> Append(d, b)]
  <2>1. Len(c) # 0 /\ Len(c) = SeqLen(c[1])
    BY <1>3
  <2>2. DecodeStep(e, st) =
          [ok |-> TRUE, i |-> at + 1 + Len(c),
           out |-> IF Slot(c) \in Slots THEN Append(d, Tables[Slot(c)]) ELSE d \o c]
    BY <1>9, <1>14, <2>1, Zenon DEF DecodeStep
  <2>3. (IF Slot(c) \in Slots THEN Append(d, Tables[Slot(c)]) ELSE d \o c) = Append(d, b)
    BY <1>3, <1>11
  <2> QED BY <1>4, <2>2, <2>3
<1>16. at + 1 + lc = Len(f[n]) + 1
  <2>1. at + 1 + lc = (at + lc) + 1
    OBVIOUS
  <2> QED BY <1>7, <2>1, Zenon
<1> QED BY <1>11, <1>12, <1>15, <1>16 DEF DecodedTo

\* What printable binary encodes it decodes: no byte is lost, none taken for
\* another (encode_preserving_spaces and decode of pb.rs).
THEOREM PbLossless == \A s \in Bytestrings : Decode(Encode(s)) = s
<1> SUFFICES ASSUME NEW s \in Bytestrings PROVE Decode(Encode(s)) = s
  OBVIOUS
<1>1. PICK parts \in Seq(Line) :
        /\ Len(parts) = Len(s) /\ Encode(s) = FlattenSeq(parts)
        /\ \A n \in 1..Len(s) : parts[n] = Coded(s[n])
  BY EncodeParts
<1>2. PICK N \in Nat : N = Len(s)
  BY SeqTyped DEF Bytestrings
<1>3. PICK f \in Flattening(Nat, N, parts) : f[N] = Encode(s)
  BY <1>1, <1>2, FlattenRun DEF Line
<1>4. PICK e \in Line : e = Encode(s)
  BY EncodeTyped
<1>5. PICK M \in Nat : M = Len(e)
  BY LineLen
<1>6. /\ \A n \in 0..N : f[n] \in Line /\ Begins(f[n], e)
      /\ \A n \in 1..N : /\ Len(f[n]) = Len(f[n - 1]) + Len(Coded(s[n]))
                         /\ \A j \in 1..Len(Coded(s[n])) : e[Len(f[n - 1]) + j] = Coded(s[n])[j]
  <2>1. PartsIn(Nat, N, parts)
    BY <1>1, <1>2, SeqTyped DEF PartsIn, Line
  <2>2. Placed(N, parts, f)
    BY <2>1, InPlace
  <2>3. \A n \in 1..N : parts[n] = Coded(s[n])
    BY <1>1, <1>2
  <2>4. \A n \in 0..N : f[n] \in Line /\ Begins(f[n], e)
    BY <1>3, <1>4, <2>2, Zenon DEF Placed
  <2>5. ASSUME NEW n \in 1..N
        PROVE  /\ Len(f[n]) = Len(f[n - 1]) + Len(Coded(s[n]))
               /\ \A j \in 1..Len(Coded(s[n])) : e[Len(f[n - 1]) + j] = Coded(s[n])[j]
    <3>1. parts[n] = Coded(s[n]) /\ f[N] = e
      BY <1>3, <1>4, <2>3
    <3>2. /\ Len(f[n]) = Len(f[n - 1]) + Len(parts[n])
          /\ \A j \in 1..Len(parts[n]) : f[N][Len(f[n - 1]) + j] = parts[n][j]
      BY <2>2, Zenon DEF Placed
    <3> QED BY <3>1, <3>2, Zenon
  <2> QED BY <2>4, <2>5, Zenon
<1>7. \A n \in 1..N : DecodeStep(e, DecodedTo(s, f, n - 1)) = DecodedTo(s, f, n)
  <2> SUFFICES ASSUME NEW n \in 1..N PROVE DecodeStep(e, DecodedTo(s, f, n - 1)) = DecodedTo(s, f, n)
    OBVIOUS
  <2>1. n \in 1..Len(s) /\ n \in 0..N /\ n - 1 \in 0..N
    BY <1>2
  <2>2. f[n - 1] \in Line /\ f[n] \in Line /\ Len(f[n]) <= Len(e)
    BY <1>6, <2>1 DEF Begins
  <2>3. /\ Len(f[n]) = Len(f[n - 1]) + Len(Coded(s[n]))
        /\ \A j \in 1..Len(Coded(s[n])) : e[Len(f[n - 1]) + j] = Coded(s[n])[j]
    BY <1>6, Zenon
  <2> QED BY <2>1, <2>2, <2>3, DecodeOn
<1>8. DecodeStep(e, DecodedTo(s, f, N)) = DecodedTo(s, f, N)
  <2>1. Len(f[N]) = M
    BY <1>3, <1>4, <1>5
  <2>2. DecodedTo(s, f, N).i > Len(e)
    BY <1>5, <2>1 DEF DecodedTo
  <2> QED BY <2>2, Zenon DEF DecodeStep
<1>9. DecodedTo(s, f, 0) = AtStart
  <2>1. f[0] = <<>> /\ SubSeq(s, 1, 0) = <<>>
    BY DEF Flattening, Bytestrings
  <2>2. Len(<<>>) + 1 = 1
    OBVIOUS
  <2> QED BY <2>1, <2>2, Zenon DEF DecodedTo, AtStart
<1>10. N <= M
  <2> DEFINE T == {n \in 0..N : Len(f[n]) >= n}
  <2>1. 0 \in T
    BY DEF Flattening
  <2>2. ASSUME NEW n \in 1..N, n - 1 \in T PROVE n \in T
    <3>1. s[n] \in Byte /\ n \in 0..N /\ n - 1 \in 0..N
      BY <1>2, SeqTyped DEF Bytestrings
    <3>2. PICK c \in 1..3 : c = Len(Coded(s[n]))
      BY <3>1, CodedBack
    <3>3. PICK a \in Nat : a = Len(f[n - 1])
      BY <1>6, <3>1, LineLen
    <3>4. Len(f[n]) = a + c /\ a >= n - 1
      BY <1>6, <2>2, <3>2, <3>3
    <3> QED BY <3>1, <3>4
  <2> HIDE DEF T
  <2>3. \A n \in 0..N : n \in T
    BY <2>1, <2>2, UpTo
  <2>4. N \in T
    BY <2>3
  <2> QED BY <1>3, <1>4, <1>5, <2>4 DEF T
<1> DEFINE S == {DecodedTo(s, f, n) : n \in 0..N}
<1>11. AtStart \in S /\ \A v \in S : DecodeStep(e, v) \in S
  <2>1. AtStart \in S
    BY <1>9
  <2>2. ASSUME NEW n \in 0..N PROVE DecodeStep(e, DecodedTo(s, f, n)) \in S
    <3>1. CASE n = N
      BY <1>8, <3>1
    <3>2. CASE n # N
      <4>1. n + 1 \in 1..N /\ n + 1 \in 0..N /\ (n + 1) - 1 = n
        BY <3>2
      <4>2. DecodeStep(e, DecodedTo(s, f, n)) = DecodedTo(s, f, n + 1)
        BY <1>7, <4>1
      <4> QED BY <4>1, <4>2
    <3> QED BY <3>1, <3>2
  <2> QED BY <2>1, <2>2
<1> HIDE DEF S
<1>12. PICK g : /\ g[0] = AtStart /\ g[M] = DecodeFirst(e)
                /\ \A n \in 1..M : g[n] = DecodeStep(e, g[n - 1])
  BY <1>5, <1>11, DecodeRun
<1>13. g[M] = DecodedTo(s, f, N)
  <2> DEFINE T == {n \in 0..M : g[n] = IF n <= N THEN DecodedTo(s, f, n) ELSE DecodedTo(s, f, N)}
  <2>1. 0 \in T
    BY <1>9, <1>12
  <2>2. ASSUME NEW n \in 1..M, n - 1 \in T PROVE n \in T
    <3>1. g[n] = DecodeStep(e, g[n - 1])
      BY <1>12
    <3>2. CASE n <= N
      <4>1. n \in 1..N /\ n - 1 <= N
        BY <3>2
      <4>2. g[n - 1] = DecodedTo(s, f, n - 1)
        BY <2>2, <4>1
      <4> QED BY <1>7, <3>1, <3>2, <4>1, <4>2
    <3>3. CASE ~(n <= N)
      <4>1. g[n - 1] = DecodedTo(s, f, N)
        <5>1. n - 1 = N \/ ~(n - 1 <= N)
          BY <3>3
        <5> QED BY <2>2, <5>1
      <4> QED BY <1>8, <3>1, <3>3, <4>1
    <3> QED BY <3>2, <3>3
  <2> HIDE DEF T
  <2>3. \A n \in 0..M : n \in T
    BY <2>1, <2>2, UpTo
  <2>4. M \in T
    BY <2>3
  <2>5. g[M] = IF M <= N THEN DecodedTo(s, f, M) ELSE DecodedTo(s, f, N)
    BY <2>4 DEF T
  <2>6. M <= N => M = N
    BY <1>10
  <2> QED BY <2>5, <2>6
<1>14. Decode(e) = SubSeq(s, 1, N)
  <2>1. DecodedTo(s, f, N).out = SubSeq(s, 1, N)
    BY DEF DecodedTo
  <2>2. Decode(e) = DecodeFirst(e).out
    BY DecodeIs, Zenon
  <2> QED BY <1>12, <1>13, <2>1, <2>2, Zenon
<1>15. SubSeq(s, 1, N) = s
  BY <1>2, WholePrefix DEF Bytestrings
<1> QED BY <1>4, <1>14, <1>15

-----------------------------------------------------------------------------
(* CSV read back                                                           *)

\* A byte of CSV read: fields are parted by commas outside of quotes, and a
\* quote behind the end of a quoted part is one of the text.
CsvStep(st, b) ==
  IF b = Quote
  THEN [st EXCEPT !.quoted = ~@,
                  !.fields[Len(st.fields)] = IF ~st.quoted /\ st.last = Quote
                                             THEN Append(@, Quote) ELSE @,
                  !.last = b]
  ELSE IF b = Comma /\ ~st.quoted THEN [st EXCEPT !.fields = Append(@, <<>>), !.last = b]
  ELSE [st EXCEPT !.fields[Len(st.fields)] = Append(@, b), !.last = b]

CsvStart == [fields |-> <<<<>>>>, quoted |-> FALSE, last |-> 0]
CsvEnd(w) == FoldLeft(LAMBDA st, b : CsvStep(st, b), CsvStart, w)

LEMMA CsvIs ==
  ASSUME NEW line
  PROVE  CsvFields(line) = CsvEnd(SubSeq(line, 1, Len(line) - 1)).fields
BY Zenon DEF CsvFields, CsvEnd, CsvStep, CsvStart

\* Some fields, and another so far.
At(done, text, in, last) == [fields |-> Append(done, text), quoted |-> in, last |-> last]
Places == {At(done, text, in, last) : done \in Seq(Line), text \in Line, in \in BOOLEAN, last \in Nat}

LEMMA AppendAt ==
  ASSUME NEW S, NEW q \in Seq(S), NEW c \in S
  PROVE  /\ Append(q, c) \in Seq(S) /\ Len(q) \in Nat /\ Len(Append(q, c)) = Len(q) + 1
         /\ DOMAIN Append(q, c) = 1..(Len(q) + 1) /\ Append(q, c)[Len(q) + 1] = c
         /\ \A j \in 1..Len(q) : Append(q, c)[j] = q[j]
<1>1. Append(q, c) \in Seq(S) /\ Len(q) \in Nat
  OBVIOUS
<1>2. Len(Append(q, c)) = Len(q) + 1 /\ Append(q, c)[Len(q) + 1] = c
  OBVIOUS
<1>3. \A j \in 1..Len(q) : Append(q, c)[j] = q[j]
  OBVIOUS
<1>4. DOMAIN Append(q, c) = 1..Len(Append(q, c))
  BY <1>1, LenProperties, Zenon
<1> QED BY <1>1, <1>2, <1>3, <1>4, Zenon

\* The last of a sequence changed.
LEMMA LastChanged ==
  ASSUME NEW done \in Seq(Line), NEW text \in Line, NEW other \in Line
  PROVE  /\ Len(Append(done, text)) = Len(done) + 1 /\ Append(done, text)[Len(done) + 1] = text
         /\ [Append(done, text) EXCEPT ![Len(done) + 1] = other] = Append(done, other)
<1>1. PICK n \in Nat : n = Len(done)
  BY AppendAt
<1>2. PICK q : q = Append(done, text)
  OBVIOUS
<1>3. PICK r : r = Append(done, other)
  OBVIOUS
<1>4. /\ Len(q) = n + 1 /\ DOMAIN q = 1..(n + 1) /\ q[n + 1] = text
      /\ \A j \in 1..n : q[j] = done[j]
  <2>1. /\ Len(Append(done, text)) = Len(done) + 1 /\ DOMAIN Append(done, text) = 1..(Len(done) + 1)
        /\ Append(done, text)[Len(done) + 1] = text
        /\ \A j \in 1..Len(done) : Append(done, text)[j] = done[j]
    BY AppendAt
  <2> QED BY <1>1, <1>2, <2>1, Zenon
<1>5. /\ Len(r) = n + 1 /\ DOMAIN r = 1..(n + 1) /\ r[n + 1] = other
      /\ \A j \in 1..n : r[j] = done[j]
  <2>1. /\ Len(Append(done, other)) = Len(done) + 1 /\ DOMAIN Append(done, other) = 1..(Len(done) + 1)
        /\ Append(done, other)[Len(done) + 1] = other
        /\ \A j \in 1..Len(done) : Append(done, other)[j] = done[j]
    BY AppendAt
  <2> QED BY <1>1, <1>3, <2>1, Zenon
<1>0. q = [j \in 1..(n + 1) |-> q[j]] /\ r = [j \in 1..(n + 1) |-> r[j]]
  <2>1. q \in Seq(Line) /\ r \in Seq(Line)
    BY <1>2, <1>3, AppendAt
  <2> QED BY <1>4, <1>5, <2>1
<1>6. PICK v : v = [q EXCEPT ![n + 1] = other]
  OBVIOUS
<1>7. v = [j \in 1..(n + 1) |-> IF j = n + 1 THEN other ELSE q[j]]
  BY <1>0, <1>4, <1>6
<1>8. \A j \in 1..(n + 1) : (IF j = n + 1 THEN other ELSE q[j]) = r[j]
  <2>1. \A j \in 1..(n + 1) : j = n + 1 \/ j \in 1..n
    OBVIOUS
  <2> QED BY <1>4, <1>5, <2>1
<1>9. v = r
  BY <1>0, <1>7, <1>8
<1> QED BY <1>1, <1>2, <1>3, <1>4, <1>6, <1>9, Zenon

Place(fields, in, last) == [fields |-> fields, quoted |-> in, last |-> last]
Refilled(st, v, b) == [[st EXCEPT !.fields = v] EXCEPT !.last = b]

LEMMA PlaceChanged ==
  ASSUME NEW f, NEW q, NEW l, NEW v, NEW b
  PROVE  Refilled(Place(f, q, l), v, b) = Place(v, q, b)
<1>1. PICK st : st = Place(f, q, l)
  OBVIOUS
<1>2. st = [fields |-> f, quoted |-> q, last |-> l]
  BY <1>1 DEF Place
<1>3. [st EXCEPT !.fields = v] = [fields |-> v, quoted |-> q, last |-> l]
  BY <1>2
<1>4. [[fields |-> v, quoted |-> q, last |-> l] EXCEPT !.last = b] = [fields |-> v, quoted |-> q, last |-> b]
  OBVIOUS
<1>5. Refilled(st, v, b) = [[fields |-> v, quoted |-> q, last |-> l] EXCEPT !.last = b]
  BY <1>3, Zenon DEF Refilled
<1>6. Refilled(st, v, b) = Place(v, q, b)
  BY <1>4, <1>5, Zenon DEF Place
<1> QED BY <1>1, <1>6, Zenon

\* What a byte does to them.
LEMMA CsvStepIs ==
  ASSUME NEW done \in Seq(Line), NEW text \in Line, NEW in \in BOOLEAN, NEW last \in Nat, NEW b \in Nat
  PROVE  CsvStep(At(done, text, in, last), b) =
           IF b = Quote
           THEN At(done, IF ~in /\ last = Quote THEN Append(text, Quote) ELSE text, ~in, b)
           ELSE IF b = Comma /\ ~in THEN At(Append(done, text), <<>>, in, b)
           ELSE At(done, Append(text, b), in, b)
<1>1. PICK st : st = At(done, text, in, last)
  OBVIOUS
<1>2. st = [fields |-> Append(done, text), quoted |-> in, last |-> last]
  BY <1>1 DEF At
<1>3. PICK q : q = Append(done, text)
  OBVIOUS
<1>4. st.fields = q /\ st.quoted = in /\ st.last = last
  BY <1>2, <1>3
<1>5. PICK n : n = Len(done) + 1
  OBVIOUS
<1>6. Len(q) = n /\ q[n] = text /\ \A other \in Line : [q EXCEPT ![n] = other] = Append(done, other)
  BY <1>3, <1>5, LastChanged, Zenon
<1>8. Append(text, Quote) \in Line /\ Append(text, b) \in Line
  BY DEF Line, Quote
<1>9. CASE b = Quote
  <2>1. PICK other \in Line : other = IF ~in /\ last = Quote THEN Append(text, Quote) ELSE text
    BY <1>8
  <2>2. CsvStep(st, b) = [st EXCEPT !.quoted = ~@,
                  !.fields[Len(st.fields)] = IF ~st.quoted /\ st.last = Quote
                                             THEN Append(@, Quote) ELSE @,
                  !.last = b]
    BY <1>9, Zenon DEF CsvStep
  <2>3. CsvStep(st, b) = [fields |-> [q EXCEPT ![n] = other], quoted |-> ~in, last |-> b]
    <3>1. PICK s2 : s2 = [st EXCEPT !.quoted = ~@]
      OBVIOUS
    <3>2. s2 = [fields |-> q, quoted |-> ~in, last |-> last] /\ s2.fields = q
      BY <1>2, <1>3, <3>1
    <3>3. (IF ~st.quoted /\ st.last = Quote THEN Append(q[n], Quote) ELSE q[n]) = other
      BY <1>4, <1>6, <2>1, Zenon
    <3>4. CsvStep(st, b) = [[s2 EXCEPT !.fields = [q EXCEPT ![n] =
             IF ~st.quoted /\ st.last = Quote THEN Append(q[n], Quote) ELSE q[n]]] EXCEPT !.last = b]
      BY <1>4, <1>6, <2>2, <3>1, <3>2, Zenon
    <3>5. PICK v : v = [q EXCEPT ![n] = other]
      OBVIOUS
    <3>6. CsvStep(st, b) = Refilled(s2, v, b)
      BY <3>3, <3>4, <3>5, Zenon DEF Refilled
    <3>7. s2 = Place(q, ~in, last)
      BY <3>2 DEF Place
    <3>8. CsvStep(st, b) = Place(v, ~in, b)
      <4>1. Refilled(Place(q, ~in, last), v, b) = Place(v, ~in, b)
        BY PlaceChanged
      <4> QED BY <3>6, <3>7, <4>1, Zenon
    <3> QED BY <3>5, <3>8, Zenon DEF Place
  <2> QED BY <1>1, <1>6, <1>9, <2>1, <2>3 DEF At
<1>10. CASE b # Quote /\ b = Comma /\ ~in
  <2>1. CsvStep(st, b) = [st EXCEPT !.fields = Append(@, <<>>), !.last = b]
    BY <1>4, <1>10, Zenon DEF CsvStep
  <2>2. CsvStep(st, b) = [fields |-> Append(q, <<>>), quoted |-> in, last |-> b]
    BY <1>2, <1>3, <2>1
  <2> QED BY <1>1, <1>3, <1>10, <2>2, Zenon DEF At
<1>11. CASE b # Quote /\ ~(b = Comma /\ ~in)
  <2>1. CsvStep(st, b) = [st EXCEPT !.fields[Len(st.fields)] = Append(@, b), !.last = b]
    BY <1>4, <1>11, Zenon DEF CsvStep
  <2>2. CsvStep(st, b) = [fields |-> [q EXCEPT ![n] = Append(text, b)], quoted |-> in, last |-> b]
    <3>1. PICK v : v = [q EXCEPT ![n] = Append(text, b)]
      OBVIOUS
    <3>2. CsvStep(st, b) = Refilled(st, v, b)
      BY <1>4, <1>6, <2>1, <3>1, Zenon DEF Refilled
    <3>3. st = Place(Append(done, text), in, last)
      BY <1>2, Zenon DEF Place
    <3>4. CsvStep(st, b) = Place(v, in, b)
      <4>1. Refilled(Place(Append(done, text), in, last), v, b) = Place(v, in, b)
        BY PlaceChanged
      <4> QED BY <3>2, <3>3, <4>1, Zenon
    <3> QED BY <3>1, <3>4, Zenon DEF Place
  <2>3. [q EXCEPT ![n] = Append(text, b)] = Append(done, Append(text, b))
    BY <1>6, <1>8
  <2> QED BY <1>1, <1>11, <2>2, <2>3, Zenon DEF At
<1> QED BY <1>9, <1>10, <1>11

LEMMA AtPlace ==
  \A d \in Seq(Line), x \in Line, in \in BOOLEAN, l \in Nat : At(d, x, in, l) \in Places
BY DEF Places

LEMMA CsvStepTyped ==
  ASSUME NEW st \in Places, NEW b \in Nat
  PROVE  CsvStep(st, b) \in Places
<1>1. PICK done \in Seq(Line), text \in Line, in \in BOOLEAN, last \in Nat : st = At(done, text, in, last)
  BY DEF Places
<1>0. Quote \in Nat
  BY DEF Quote
<1>2. PICK other \in Line : other = IF ~in /\ last = Quote THEN Append(text, Quote) ELSE text
  BY <1>0, AppendAt DEF Line
<1>3. PICK more \in Line : more = Append(text, b)
  BY AppendAt DEF Line
<1>4. Append(done, text) \in Seq(Line) /\ <<>> \in Line
  BY AppendAt, LineParts
<1>5. CsvStep(st, b) = IF b = Quote THEN At(done, other, ~in, b)
                       ELSE IF b = Comma /\ ~in THEN At(Append(done, text), <<>>, in, b)
                       ELSE At(done, more, in, b)
  BY <1>1, <1>2, <1>3, CsvStepIs
<1>6. /\ At(done, other, ~in, b) \in Places /\ At(Append(done, text), <<>>, in, b) \in Places
      /\ At(done, more, in, b) \in Places
  <2>1. (~in) \in BOOLEAN
    BY Zenon
  <2> QED BY <1>4, <2>1, AtPlace, Zenon
<1> QED BY <1>5, <1>6, Zenon

\* A reading of w, byte by byte.
Reading(w, N, f) == f \in [0..N -> Places] /\ \A n \in 1..N : f[n] = CsvStep(f[n - 1], w[n])

\* Of some text a reader that is in A gets to B.
Leads(w, A, B) == \A f : Reading(w, Len(w), f) /\ f[0] \in A => f[Len(w)] \in B

\* Where the reader of CSV gets to is the end of such a reading.
LEMMA CsvRun ==
  ASSUME NEW w \in Line
  PROVE  \E f : Reading(w, Len(w), f) /\ f[0] = CsvStart /\ f[Len(w)] = CsvEnd(w)
<1> DEFINE N == Len(w)
           S == Places
           G == [p \in S \X (1..N) |-> CsvStep(p[1], w[p[2]])]
           Is(g) == g = [t \in SUBSET (1..N) |-> IF t = {} THEN CsvStart
                           ELSE CsvStep(g[t \ {Max(t)}], w[Max(t)])]
           g == CHOOSE g : Is(g)
<1>1. N \in Nat /\ DOMAIN w = 1..N /\ \A n \in 1..N : w[n] \in Nat
  BY LineLen
<1>2. CsvEnd(w) = g[1..N]
  BY <1>1, Zenon DEF FoldLeft, MapThenFoldSet, CsvEnd
<1>3. CsvStart \in S
  <2>1. CsvStart = At(<<>>, <<>>, FALSE, 0)
    <3>1. Append(<<>>, <<>>) = <<<<>>>>
      OBVIOUS
    <3> QED BY <3>1, Zenon DEF At, CsvStart
  <2>2. <<>> \in Seq(Line) /\ <<>> \in Line /\ FALSE \in BOOLEAN /\ 0 \in Nat
    BY LineParts DEF Line
  <2> QED BY <2>1, <2>2, AtPlace, Zenon
<1>4. \A v \in S, n \in 1..N : CsvStep(v, w[n]) \in S
  BY <1>1, CsvStepTyped
<1> HIDE DEF S
<1>5. G \in [S \X (1..N) -> S] /\ \A v \in S, n \in 1..N : G[<<v, n>>] = CsvStep(v, w[n])
  BY <1>4
<1> HIDE DEF G
<1>6. PICK it \in Folds(S, CsvStart, N, G) : TRUE
  <2>1. N \in Nat /\ G \in [S \X (1..N) -> S]
    BY <1>1, <1>5
  <2>2. Folds(S, CsvStart, N, G) # {}
    BY <1>3, <2>1, FoldExists
  <2> QED BY <2>2
<1>7. Is(it)
  <2>1. it \in [SUBSET (1..N) -> S]
    BY DEF Folds
  <2>2. \A t \in SUBSET (1..N) : t # {} => Max(t) \in 1..N
    BY <1>1, MaxOfSome
  <2>3. \A t \in SUBSET (1..N) : it[t] = IF t = {} THEN CsvStart
                           ELSE CsvStep(it[t \ {Max(t)}], w[Max(t)])
    BY <1>5, <2>1, <2>2 DEF Folds
  <2> QED BY <2>1, <2>3
<1>8. Is(g)
  BY <1>7, Zenon
<1> HIDE DEF g
<1>9. Folding(S, CsvStart, N, G, g)
  BY <1>1, <1>5, <1>8, MaxOfSome DEF Folding
<1> HIDE DEF Is
<1>10. PICK f \in Stepwise(S, CsvStart, N, G) : f[N] = g[1..N]
  <2>1. N \in Nat /\ G \in [S \X (1..N) -> S]
    BY <1>1, <1>5
  <2>2. Ends(S, CsvStart, N, G, g)
    BY <1>3, <1>9, <2>1, FoldEnds, Zenon
  <2> QED BY <2>2, Zenon DEF Ends
<1>11. /\ f \in [0..N -> S] /\ f[0] = CsvStart
       /\ \A n \in 1..N : f[n] = CsvStep(f[n - 1], w[n])
  <2>1. f \in [0..N -> S] /\ f[0] = CsvStart /\ \A n \in 1..N : f[n] = G[<<f[n - 1], n>>]
    BY DEF Stepwise
  <2>2. \A n \in 1..N : f[n - 1] \in S
    BY <1>1, <2>1
  <2> QED BY <1>5, <2>1, <2>2
<1>12. Reading(w, N, f)
  BY <1>11 DEF Reading, S
<1> QED BY <1>2, <1>10, <1>11, <1>12, Zenon

\* One text behind another is read after it.
LEMMA LeadsJoin ==
  ASSUME NEW u \in Line, NEW v \in Line, NEW A, NEW B, NEW C, Leads(u, A, B), Leads(v, B, C)
  PROVE  Leads(u \o v, A, C)
<1>1. PICK m \in Nat : m = Len(u)
  BY LineLen
<1>2. PICK n \in Nat : n = Len(v)
  BY LineLen
<1>3. PICK w : w = u \o v
  OBVIOUS
<1>4. Len(w) = m + n /\ \A j \in 1..(m + n) : w[j] = IF j <= m THEN u[j] ELSE v[j - m]
  BY <1>1, <1>2, <1>3, ConcatAt DEF Line
<1>5. ASSUME NEW f, Reading(w, m + n, f), f[0] \in A PROVE f[m + n] \in C
  <2> DEFINE g == [j \in 0..m |-> f[j]]
             h == [j \in 0..n |-> f[m + j]]
  <2>1. f \in [0..(m + n) -> Places] /\ \A j \in 1..(m + n) : f[j] = CsvStep(f[j - 1], w[j])
    BY <1>5 DEF Reading
  <2>2. Reading(u, m, g)
    <3>1. g \in [0..m -> Places]
      BY <2>1
    <3>2. ASSUME NEW j \in 1..m PROVE g[j] = CsvStep(g[j - 1], u[j])
      <4>1. j \in 1..(m + n) /\ j <= m /\ j \in 0..m /\ j - 1 \in 0..m
        OBVIOUS
      <4>2. f[j] = CsvStep(f[j - 1], w[j]) /\ w[j] = u[j]
        BY <1>4, <2>1, <4>1
      <4> QED BY <4>1, <4>2
    <3> HIDE DEF g
    <3> QED BY <3>1, <3>2 DEF Reading
  <2>3. Reading(v, n, h)
    <3>1. h \in [0..n -> Places]
      BY <2>1
    <3>2. ASSUME NEW j \in 1..n PROVE h[j] = CsvStep(h[j - 1], v[j])
      <4>1. m + j \in 1..(m + n) /\ ~(m + j <= m) /\ j \in 0..n /\ j - 1 \in 0..n
            /\ m + j - 1 = m + (j - 1) /\ m + j - m = j
        OBVIOUS
      <4>2. f[m + j] = CsvStep(f[m + j - 1], w[m + j]) /\ w[m + j] = v[j]
        <5>1. PICK x \in 1..(m + n) : x = m + j
          BY <4>1
        <5>2. f[x] = CsvStep(f[x - 1], w[x])
          BY <2>1
        <5>3. w[x] = v[x - m]
          BY <1>4, <4>1, <5>1
        <5> QED BY <4>1, <5>1, <5>2, <5>3
      <4>3. h[j] = f[m + j] /\ h[j - 1] = f[m + (j - 1)]
        BY <4>1
      <4> HIDE DEF h
      <4> QED BY <4>1, <4>2, <4>3
    <3> HIDE DEF h
    <3> QED BY <3>1, <3>2 DEF Reading
  <2>4. g[0] = f[0] /\ g[m] = f[m] /\ h[0] = f[m] /\ h[n] = f[m + n]
    OBVIOUS
  <2> HIDE DEF g, h
  <2>5. g[m] \in B
    BY <1>1, <1>5, <2>2, <2>4, Zenon DEF Leads
  <2>6. h[n] \in C
    BY <1>2, <2>3, <2>4, <2>5, Zenon DEF Leads
  <2> QED BY <2>4, <2>6
<1> QED BY <1>3, <1>4, <1>5, Zenon DEF Leads

\* A byte by itself.
LEMMA LeadsByte ==
  ASSUME NEW b \in Nat, NEW A, NEW B, \A st \in A : CsvStep(st, b) \in B
  PROVE  Leads(<<b>>, A, B)
<1>1. Len(<<b>>) = 1 /\ <<b>>[1] = b
  OBVIOUS
<1>2. ASSUME NEW f, Reading(<<b>>, 1, f), f[0] \in A PROVE f[1] \in B
  <2>1. f[1] = CsvStep(f[1 - 1], <<b>>[1])
    <3>1. 1 \in 1..1
      OBVIOUS
    <3> QED BY <1>2, <3>1, Zenon DEF Reading
  <2>2. 1 - 1 = 0
    OBVIOUS
  <2> QED BY <1>1, <1>2, <2>1, <2>2
<1> QED BY <1>1, <1>2, Zenon DEF Leads

LEMMA LeadsNowhere ==
  ASSUME NEW A
  PROVE  Leads(<<>>, A, A)
<1>1. Len(<<>>) = 0
  OBVIOUS
<1> QED BY <1>1, Zenon DEF Leads

\* Outside of quotes, and within them.
Outside(done, text, last) == At(done, text, FALSE, last)
Inside(done, text, last)  == At(done, text, TRUE, last)

LEMMA CsvStepBy ==
  ASSUME NEW done \in Seq(Line), NEW text \in Line, NEW last \in Nat, NEW b \in Nat
  PROVE  /\ CsvStep(Outside(done, text, last), b) =
              IF b = Quote THEN Inside(done, IF last = Quote THEN Append(text, Quote) ELSE text, b)
              ELSE IF b = Comma THEN Outside(Append(done, text), <<>>, b) ELSE Outside(done, Append(text, b), b)
         /\ CsvStep(Inside(done, text, last), b) =
              IF b = Quote THEN Outside(done, text, b) ELSE Inside(done, Append(text, b), b)
<1>1. PICK n \in BOOLEAN : n = FALSE
  OBVIOUS
<1>2. PICK y \in BOOLEAN : y = TRUE
  OBVIOUS
<1>3. CsvStep(At(done, text, n, last), b) =
           IF b = Quote
           THEN At(done, IF ~n /\ last = Quote THEN Append(text, Quote) ELSE text, ~n, b)
           ELSE IF b = Comma /\ ~n THEN At(Append(done, text), <<>>, n, b)
           ELSE At(done, Append(text, b), n, b)
  BY CsvStepIs
<1>4. CsvStep(At(done, text, y, last), b) =
           IF b = Quote
           THEN At(done, IF ~y /\ last = Quote THEN Append(text, Quote) ELSE text, ~y, b)
           ELSE IF b = Comma /\ ~y THEN At(Append(done, text), <<>>, y, b)
           ELSE At(done, Append(text, b), y, b)
  BY CsvStepIs
<1>5. (~n) = TRUE /\ (~y) = FALSE
  BY <1>1, <1>2, Zenon
<1>6. CsvStep(Outside(done, text, last), b) =
              IF b = Quote THEN Inside(done, IF last = Quote THEN Append(text, Quote) ELSE text, b)
              ELSE IF b = Comma THEN Outside(Append(done, text), <<>>, b) ELSE Outside(done, Append(text, b), b)
  BY <1>1, <1>3, <1>5, Zenon DEF Outside, Inside
<1>7. CsvStep(Inside(done, text, last), b) =
              IF b = Quote THEN Outside(done, text, b) ELSE Inside(done, Append(text, b), b)
  BY <1>2, <1>4, <1>5, Zenon DEF Outside, Inside
<1> QED BY <1>6, <1>7, Zenon

\* Behind some fields: before another, in one with some text, in the quoted text
\* of one, and at the end of one.
Ready(done)        == {Outside(done, <<>>, l) : l \in Nat \ {Quote}}
Bare(done, text)   == {Outside(done, text, l) : l \in Nat \ {Quote}}
Within(done, text) == {Inside(done, text, l) : l \in Nat}
Closing(done, text) == {Outside(done, text, Quote)}
Past(done, text)   == {Outside(done, text, l) : l \in Nat}

LEMMA ByteLeads ==
  ASSUME NEW done \in Seq(Line), NEW text \in Line, NEW b \in Nat
  PROVE  /\ b \notin {Quote, Comma} => Leads(<<b>>, Bare(done, text), Bare(done, Append(text, b)))
         /\ Leads(<<Quote>>, Ready(done), Within(done, <<>>))
         /\ b # Quote => Leads(<<b>>, Within(done, text), Within(done, Append(text, b)))
         /\ Leads(<<Quote>>, Within(done, text), Closing(done, text))
         /\ Leads(<<Quote>>, Closing(done, text), Within(done, Append(text, Quote)))
         /\ Leads(<<Comma>>, Past(done, text), Ready(Append(done, text)))
<1>0. Quote \in Nat /\ Comma \in Nat /\ Comma # Quote /\ <<>> \in Line
  BY LineParts DEF Quote, Comma
<1>1. \A x \in Line, l \in Nat, c \in Nat :
        /\ CsvStep(Outside(done, x, l), c) =
             IF c = Quote THEN Inside(done, IF l = Quote THEN Append(x, Quote) ELSE x, c)
             ELSE IF c = Comma THEN Outside(Append(done, x), <<>>, c) ELSE Outside(done, Append(x, c), c)
        /\ CsvStep(Inside(done, x, l), c) =
             IF c = Quote THEN Outside(done, x, c) ELSE Inside(done, Append(x, c), c)
  BY CsvStepBy, Zenon
<1>2. b \notin {Quote, Comma} => Leads(<<b>>, Bare(done, text), Bare(done, Append(text, b)))
  BY <1>0, <1>1, LeadsByte DEF Bare
<1>3. Leads(<<Quote>>, Ready(done), Within(done, <<>>))
  BY <1>0, <1>1, LeadsByte DEF Ready, Within
<1>4. b # Quote => Leads(<<b>>, Within(done, text), Within(done, Append(text, b)))
  BY <1>0, <1>1, LeadsByte DEF Within
<1>5. Leads(<<Quote>>, Within(done, text), Closing(done, text))
  BY <1>0, <1>1, LeadsByte DEF Within, Closing
<1>6. Leads(<<Quote>>, Closing(done, text), Within(done, Append(text, Quote)))
  BY <1>0, <1>1, LeadsByte DEF Within, Closing
<1>7. Leads(<<Comma>>, Past(done, text), Ready(Append(done, text)))
  BY <1>0, <1>1, LeadsByte DEF Past, Ready
<1> QED BY <1>2, <1>3, <1>4, <1>5, <1>6, <1>7, Zenon

LEMMA LeadsWider ==
  ASSUME NEW w, NEW A, NEW B, NEW C, Leads(w, A, B), B \subseteq C
  PROVE  Leads(w, A, C)
BY Zenon DEF Leads

\* One behind another, and a third.
LEMMA PairIs ==
  ASSUME NEW S, NEW x \in S, NEW y \in S
  PROVE  <<x>> \o <<y>> = <<x, y>>
<1>0. <<x>> \in Seq(S) /\ Len(<<x>>) = 1 /\ <<x>>[1] = x
  OBVIOUS
<1>1. PICK p \in Seq(S) : p = <<x>>
  BY <1>0
<1>2. Append(p, y) = p \o <<y>>
  OBVIOUS
<1>3. PICK q \in Seq(S) : q = Append(p, y)
  BY AppendAt
<1>4. Len(q) = 2 /\ q[1] = x /\ q[2] = y
  <2>1. Len(p) = 1 /\ p[1] = x
    BY <1>0, <1>1
  <2>2. /\ Len(Append(p, y)) = Len(p) + 1 /\ Append(p, y)[Len(p) + 1] = y
        /\ \A j \in 1..Len(p) : Append(p, y)[j] = p[j]
    BY AppendAt
  <2>3. 1 \in 1..1 /\ 1 + 1 = 2
    OBVIOUS
  <2> QED BY <1>3, <2>1, <2>2, <2>3, Zenon
<1>5. <<x, y>> \in Seq(S) /\ Len(<<x, y>>) = 2 /\ <<x, y>>[1] = x /\ <<x, y>>[2] = y
  OBVIOUS
<1>6. PICK v \in Seq(S) : v = <<x, y>>
  BY <1>5
<1>7. Len(v) = Len(q) /\ \A n \in 1..Len(q) : q[n] = v[n]
  <2>1. Len(v) = 2 /\ v[1] = x /\ v[2] = y
    BY <1>5, <1>6, Zenon
  <2>2. \A n \in 1..2 : n = 1 \/ n = 2
    OBVIOUS
  <2> QED BY <1>4, <2>1, <2>2
<1>8. q = v
  BY <1>7, SeqEqual
<1> QED BY <1>1, <1>2, <1>3, <1>6, <1>8, Zenon

LEMMA TripleIs ==
  ASSUME NEW S, NEW x \in S, NEW y \in S, NEW z \in S
  PROVE  <<x, y>> \o <<z>> = <<x, y, z>>
<1>0. <<x, y>> \in Seq(S) /\ Len(<<x, y>>) = 2 /\ <<x, y>>[1] = x /\ <<x, y>>[2] = y
  OBVIOUS
<1>1. PICK p \in Seq(S) : p = <<x, y>>
  BY <1>0
<1>2. Append(p, z) = p \o <<z>>
  OBVIOUS
<1>3. PICK q \in Seq(S) : q = Append(p, z)
  BY AppendAt
<1>4. Len(q) = 3 /\ q[1] = x /\ q[2] = y /\ q[3] = z
  <2>1. Len(p) = 2 /\ p[1] = x /\ p[2] = y
    BY <1>0, <1>1
  <2>2. /\ Len(Append(p, z)) = Len(p) + 1 /\ Append(p, z)[Len(p) + 1] = z
        /\ \A j \in 1..Len(p) : Append(p, z)[j] = p[j]
    BY AppendAt
  <2>3. 1 \in 1..2 /\ 2 \in 1..2 /\ 2 + 1 = 3
    OBVIOUS
  <2> QED BY <1>3, <2>1, <2>2, <2>3, Zenon
<1>5. /\ <<x, y, z>> \in Seq(S) /\ Len(<<x, y, z>>) = 3
      /\ <<x, y, z>>[1] = x /\ <<x, y, z>>[2] = y /\ <<x, y, z>>[3] = z
  OBVIOUS
<1>6. PICK v \in Seq(S) : v = <<x, y, z>>
  BY <1>5
<1>7. Len(v) = Len(q) /\ \A n \in 1..Len(q) : q[n] = v[n]
  <2>1. Len(v) = 3 /\ v[1] = x /\ v[2] = y /\ v[3] = z
    BY <1>5, <1>6, Zenon
  <2>2. \A n \in 1..3 : n = 1 \/ n = 2 \/ n = 3
    OBVIOUS
  <2> QED BY <1>4, <2>1, <2>2
<1>8. q = v
  BY <1>7, SeqEqual
<1> QED BY <1>1, <1>2, <1>3, <1>6, <1>8, Zenon

\* A line by one byte more.
LEMMA PrefixOn ==
  ASSUME NEW S, NEW s \in Seq(S), NEW n \in 1..Len(s)
  PROVE  /\ SubSeq(s, 1, n - 1) \in Seq(S) /\ s[n] \in S
         /\ SubSeq(s, 1, n) = SubSeq(s, 1, n - 1) \o <<s[n]>>
         /\ SubSeq(s, 1, n) = Append(SubSeq(s, 1, n - 1), s[n])
<1>1. 1 \in 1..Len(s)
  OBVIOUS
<1>2. SubSeq(s, 1, n) = SubSeq(s, 1, n - 1) \o <<s[n]>>
  BY <1>1, SubSeqRecursiveSecond
<1>3. SubSeq(s, 1, n - 1) \in Seq(S) /\ s[n] \in S
  OBVIOUS
<1>4. PICK t \in Seq(S) : t = SubSeq(s, 1, n - 1)
  BY <1>3
<1>5. PICK c \in S : c = s[n]
  BY <1>3
<1>6. Append(t, c) = t \o <<c>>
  OBVIOUS
<1> QED BY <1>2, <1>3, <1>4, <1>5, <1>6, Zenon

\* A field without quotes is read as it stands.
LEMMA BareLeads ==
  ASSUME NEW done \in Seq(Line), NEW s \in Line, \A n \in 1..Len(s) : s[n] \notin {Quote, Comma}
  PROVE  Leads(s, Ready(done), Past(done, s))
<1> DEFINE T == {n \in 0..Len(s) : Leads(SubSeq(s, 1, n), Ready(done), Bare(done, SubSeq(s, 1, n)))}
<1>1. Len(s) \in Nat
  BY LineLen
<1>2. 0 \in T
  <2>1. SubSeq(s, 1, 0) = <<>>
    BY DEF Line
  <2>2. Ready(done) = Bare(done, <<>>)
    BY DEF Ready, Bare
  <2>3. Leads(<<>>, Ready(done), Bare(done, <<>>))
    BY <2>2, LeadsNowhere
  <2>4. 0 \in 0..Len(s)
    BY <1>1
  <2>5. Leads(SubSeq(s, 1, 0), Ready(done), Bare(done, SubSeq(s, 1, 0)))
    BY <2>1, <2>3, Zenon
  <2> QED BY <2>4, <2>5, Zenon
<1>3. ASSUME NEW n \in 1..Len(s), n - 1 \in T PROVE n \in T
  <2>1. PICK t \in Line : t = SubSeq(s, 1, n - 1)
    BY PrefixOn DEF Line
  <2>2. PICK b \in Nat : b = s[n]
    BY PrefixOn DEF Line
  <2>3. SubSeq(s, 1, n) = t \o <<b>> /\ SubSeq(s, 1, n) = Append(t, b)
    BY <2>1, <2>2, PrefixOn DEF Line
  <2>4. Leads(t, Ready(done), Bare(done, t))
    BY <1>3, <2>1
  <2>5. Leads(<<b>>, Bare(done, t), Bare(done, Append(t, b)))
    BY <2>2, ByteLeads
  <2>6. <<b>> \in Line
    BY LineParts
  <2>7. Leads(t \o <<b>>, Ready(done), Bare(done, Append(t, b)))
    BY <2>4, <2>5, <2>6, LeadsJoin
  <2>8. Leads(SubSeq(s, 1, n), Ready(done), Bare(done, SubSeq(s, 1, n)))
    BY <2>3, <2>7, Zenon
  <2>9. n \in 0..Len(s)
    OBVIOUS
  <2> QED BY <2>8, <2>9, Zenon
<1> HIDE DEF T
<1>4. Len(s) \in T
  <2>1. \A n \in 0..Len(s) : n \in T
    BY <1>1, <1>2, <1>3, UpTo
  <2> QED BY <1>1, <2>1
<1>5. SubSeq(s, 1, Len(s)) = s
  BY WholePrefix DEF Line
<1>6. Leads(s, Ready(done), Bare(done, s))
  BY <1>4, <1>5 DEF T
<1>7. Bare(done, s) \subseteq Past(done, s)
  BY DEF Bare, Past
<1> QED BY <1>6, <1>7, LeadsWider

\* Between quotes, what was doubled is read as one.
LEMMA QuotedLeads ==
  ASSUME NEW done \in Seq(Line), NEW s \in Line
  PROVE  Quoted(s) \in Line /\ Leads(Quoted(s), Within(done, <<>>), Within(done, s))
<1> DEFINE parts == [n \in DOMAIN s |-> IF s[n] = Quote THEN <<Quote, Quote>> ELSE <<s[n]>>]
<1>1. Len(s) \in Nat /\ DOMAIN s = 1..Len(s) /\ \A n \in 1..Len(s) : s[n] \in Nat
  BY LineLen
<1>2. <<Quote, Quote>> \in Line /\ <<Quote>> \in Line /\ \A n \in Nat : <<n>> \in Line
  BY DEF Line, Quote
<1>3. \A n \in 1..Len(s) : parts[n] \in Line /\ parts[n] = IF s[n] = Quote THEN <<Quote, Quote>> ELSE <<s[n]>>
  BY <1>1, <1>2
<1>4. DOMAIN parts = 1..Len(s) /\ parts = [n \in 1..Len(s) |-> parts[n]]
  BY <1>1
<1>5. Quoted(s) = FlattenSeq(parts)
  BY Zenon DEF Quoted, DoublesQuotes
<1> HIDE DEF parts
<1>6. parts \in Seq(Line) /\ Len(parts) = Len(s)
  BY <1>1, <1>3, <1>4
<1>7. PICK f \in Flattening(Nat, Len(s), parts) : f[Len(s)] = Quoted(s)
  BY <1>5, <1>6, FlattenRun DEF Line
<1>8. f \in [0..Len(s) -> Line] /\ f[0] = <<>> /\ \A n \in 1..Len(s) : f[n] = f[n - 1] \o parts[n]
  BY DEF Flattening, Line
<1> DEFINE T == {n \in 0..Len(s) : Leads(f[n], Within(done, <<>>), Within(done, SubSeq(s, 1, n)))}
<1>9. 0 \in T
  <2>1. SubSeq(s, 1, 0) = <<>>
    BY DEF Line
  <2>2. Leads(<<>>, Within(done, <<>>), Within(done, <<>>))
    BY LeadsNowhere
  <2>3. Leads(f[0], Within(done, <<>>), Within(done, SubSeq(s, 1, 0)))
    BY <1>8, <2>1, <2>2, Zenon
  <2>4. 0 \in 0..Len(s)
    BY <1>1
  <2> QED BY <2>3, <2>4, Zenon
<1>10. ASSUME NEW n \in 1..Len(s), n - 1 \in T PROVE n \in T
  <2>1. PICK t \in Line : t = SubSeq(s, 1, n - 1)
    BY PrefixOn DEF Line
  <2>2. PICK b \in Nat : b = s[n]
    BY PrefixOn DEF Line
  <2>3. SubSeq(s, 1, n) = Append(t, b)
    BY <2>1, <2>2, PrefixOn DEF Line
  <2>4. Leads(f[n - 1], Within(done, <<>>), Within(done, t))
    BY <1>10, <2>1
  <2>5. Leads(parts[n], Within(done, t), Within(done, Append(t, b)))
    <3>1. CASE b = Quote
      <4>1. Leads(<<Quote>>, Within(done, t), Closing(done, t))
            /\ Leads(<<Quote>>, Closing(done, t), Within(done, Append(t, Quote)))
        BY ByteLeads
      <4>2. Leads(<<Quote>> \o <<Quote>>, Within(done, t), Within(done, Append(t, Quote)))
        BY <1>2, <4>1, LeadsJoin
      <4>3. <<Quote>> \o <<Quote>> = <<Quote, Quote>>
        <5>1. Quote \in Nat
          BY DEF Quote
        <5> QED BY <5>1, PairIs
      <4>4. parts[n] = <<Quote, Quote>>
        BY <1>3, <2>2, <3>1
      <4> QED BY <3>1, <4>2, <4>3, <4>4, Zenon
    <3>2. CASE b # Quote
      <4>1. Leads(<<b>>, Within(done, t), Within(done, Append(t, b)))
        BY <3>2, ByteLeads
      <4>2. parts[n] = <<b>>
        BY <1>3, <2>2, <3>2
      <4> QED BY <4>1, <4>2, Zenon
    <3> QED BY <3>1, <3>2
  <2>6. f[n - 1] \in Line /\ parts[n] \in Line /\ f[n] = f[n - 1] \o parts[n]
    BY <1>3, <1>8
  <2>7. Leads(f[n], Within(done, <<>>), Within(done, Append(t, b)))
    BY <2>4, <2>5, <2>6, LeadsJoin
  <2>8. Leads(f[n], Within(done, <<>>), Within(done, SubSeq(s, 1, n)))
    BY <2>3, <2>7, Zenon
  <2>9. n \in 0..Len(s)
    OBVIOUS
  <2> QED BY <2>8, <2>9, Zenon
<1> HIDE DEF T
<1>11. Len(s) \in T
  <2>1. \A n \in 0..Len(s) : n \in T
    BY <1>1, <1>9, <1>10, UpTo
  <2> QED BY <1>1, <2>1
<1>12. SubSeq(s, 1, Len(s)) = s
  BY WholePrefix DEF Line
<1>13. Quoted(s) \in Line
  BY <1>1, <1>7, <1>8
<1> QED BY <1>7, <1>11, <1>12, <1>13 DEF T

\* A field is read as the text it was made of.
LEMMA FieldLeads ==
  ASSUME NEW done \in Seq(Line), NEW s \in Line
  PROVE  CsvField(s) \in Line /\ Leads(CsvField(s), Ready(done), Past(done, s))
<1>1. CASE ToSet(s) \cap {Comma, Quote, LineFeed, Return} = {}
  <2>1. CsvField(s) = s
    BY <1>1, Zenon DEF CsvField
  <2>2. \A n \in 1..Len(s) : s[n] \notin {Quote, Comma}
    BY <1>1, LineLen DEF ToSet
  <2> QED BY <2>1, <2>2, BareLeads
<1>2. CASE ~(ToSet(s) \cap {Comma, Quote, LineFeed, Return} = {})
  <2>1. CsvField(s) = <<Quote>> \o Quoted(s) \o <<Quote>>
    BY <1>2, Zenon DEF CsvField
  <2>2. <<Quote>> \in Line
    BY DEF Line, Quote
  <2>3. PICK q \in Line : q = Quoted(s) /\ Leads(q, Within(done, <<>>), Within(done, s))
    BY QuotedLeads
  <2>4. Leads(<<Quote>>, Ready(done), Within(done, <<>>)) /\ Leads(<<Quote>>, Within(done, s), Closing(done, s))
    <3>1. 0 \in Nat
      OBVIOUS
    <3> QED BY <3>1, ByteLeads
  <2>5. Leads(<<Quote>> \o q, Ready(done), Within(done, s)) /\ <<Quote>> \o q \in Line
    BY <2>2, <2>3, <2>4, LeadsJoin, LineParts
  <2>6. Leads((<<Quote>> \o q) \o <<Quote>>, Ready(done), Closing(done, s)) /\ (<<Quote>> \o q) \o <<Quote>> \in Line
    BY <2>2, <2>4, <2>5, LeadsJoin, LineParts
  <2>7. Closing(done, s) \subseteq Past(done, s)
    BY DEF Closing, Past, Quote
  <2> QED BY <2>1, <2>3, <2>6, <2>7, LeadsWider
<1> QED BY <1>1, <1>2

\* Behind the n-th of some fields.
UpToField(texts, n) == Past(SubSeq(texts, 1, n - 1), texts[n])

\* Fields joined by commas are read as the texts they were made of.
LEMMA FieldsLead ==
  ASSUME NEW texts \in Seq(Line), NEW N \in Nat \ {0}, N = Len(texts)
  PROVE  LET w == Joined([n \in DOMAIN texts |-> CsvField(texts[n])], <<Comma>>)
         IN w \in Line /\ Leads(w, Ready(<<>>), UpToField(texts, N))
<1> DEFINE fields == [n \in DOMAIN texts |-> CsvField(texts[n])]
           parts == [n \in DOMAIN fields |-> (IF n = 1 THEN <<>> ELSE <<Comma>>) \o fields[n]]
           w == Joined(fields, <<Comma>>)
<1>1. DOMAIN texts = 1..N /\ \A n \in 1..N : texts[n] \in Line
  BY SeqTyped
<1>2. w = FlattenSeq(parts)
  BY Zenon DEF Joined
<1>3. \A n \in 1..N : CsvField(texts[n]) \in Line
  BY <1>1, CsvTyped
<1>4. <<Comma>> \in Line /\ <<>> \in Line
  BY LineParts DEF Comma, Line
<1>5. /\ DOMAIN parts = 1..N /\ parts = [n \in 1..N |-> parts[n]]
      /\ \A n \in 1..N : parts[n] = (IF n = 1 THEN <<>> ELSE <<Comma>>) \o CsvField(texts[n])
  BY <1>1
<1> HIDE DEF parts
<1>6. \A n \in 1..N : parts[n] \in Line /\ parts[n] = IF n = 1 THEN CsvField(texts[n])
                                                     ELSE <<Comma>> \o CsvField(texts[n])
  <2> SUFFICES ASSUME NEW n \in 1..N
               PROVE  parts[n] \in Line /\ parts[n] = IF n = 1 THEN CsvField(texts[n])
                                                      ELSE <<Comma>> \o CsvField(texts[n])
    OBVIOUS
  <2>1. PICK p \in Line : p = CsvField(texts[n])
    BY <1>3
  <2>2. <<>> \o p = p /\ <<Comma>> \o p \in Line
    BY <1>4, Appending DEF Line
  <2>3. parts[n] = (IF n = 1 THEN <<>> ELSE <<Comma>>) \o p
    BY <1>5, <2>1
  <2> QED BY <2>1, <2>2, <2>3, Zenon
<1>7. parts \in Seq(Line) /\ Len(parts) = N
  BY <1>5, <1>6
<1>8. PICK f \in Flattening(Nat, N, parts) : f[N] = w
  BY <1>2, <1>7, FlattenRun DEF Line
<1>9. f \in [0..N -> Line] /\ f[0] = <<>> /\ \A n \in 1..N : f[n] = f[n - 1] \o parts[n]
  BY DEF Flattening, Line
<1> HIDE DEF w
<1> DEFINE T == {n \in 0..N : n = 0 \/ Leads(f[n], Ready(<<>>), UpToField(texts, n))}
<1>10. 0 \in T
  OBVIOUS
<1>11. ASSUME NEW n \in 1..N, n - 1 \in T PROVE n \in T
  <2>1. PICK done \in Seq(Line) : done = SubSeq(texts, 1, n - 1)
    BY PrefixOn
  <2>2. PICK text \in Line : text = texts[n]
    BY <1>1
  <2>3. UpToField(texts, n) = Past(done, text)
    BY <2>1, <2>2, Zenon DEF UpToField
  <2>4. PICK p \in Line : p = CsvField(texts[n]) /\ Leads(p, Ready(done), Past(done, text))
    BY <2>2, FieldLeads
  <2>5. CASE n = 1
    <3>1. SubSeq(texts, 1, 0) = <<>> /\ n - 1 = 0
      BY <2>5
    <3>2. done = <<>>
      BY <2>1, <3>1, Zenon
    <3>3. f[n] = <<>> \o p
      BY <1>6, <1>9, <2>4, <2>5, <3>1
    <3>4. <<>> \o p = p
      BY Appending DEF Line
    <3>5. Leads(f[n], Ready(<<>>), UpToField(texts, n))
      BY <2>3, <2>4, <3>2, <3>3, <3>4, Zenon
    <3> QED BY <2>5, <3>5
  <2>6. CASE n # 1
    <3>1. n - 1 \in 1..N /\ n - 1 # 0 /\ n - 1 \in 0..N /\ n \in 0..N
      BY <2>6
    <3>2. PICK before \in Seq(Line) : before = SubSeq(texts, 1, (n - 1) - 1)
      BY <3>1, PrefixOn
    <3>3. PICK last \in Line : last = texts[n - 1]
      BY <1>1, <3>1
    <3>4. done = Append(before, last)
      BY <2>1, <3>1, <3>2, <3>3, PrefixOn
    <3>5. Leads(f[n - 1], Ready(<<>>), Past(before, last))
      <4>1. Leads(f[n - 1], Ready(<<>>), UpToField(texts, n - 1))
        BY <1>11, <3>1
      <4>2. UpToField(texts, n - 1) = Past(before, last)
        BY <3>2, <3>3, Zenon DEF UpToField
      <4> QED BY <4>1, <4>2, Zenon
    <3>6. Leads(<<Comma>>, Past(before, last), Ready(done))
      <4>1. Leads(<<Comma>>, Past(before, last), Ready(Append(before, last)))
        <5>1. 0 \in Nat
          OBVIOUS
        <5> QED BY <5>1, ByteLeads
      <4> QED BY <3>4, <4>1, Zenon
    <3>7. <<Comma>> \o p \in Line /\ Leads(<<Comma>> \o p, Past(before, last), Past(done, text))
      BY <1>4, <2>4, <3>6, LeadsJoin, LineParts
    <3>8. PICK q \in Line : q = f[n - 1]
      BY <1>9, <3>1
    <3>9. f[n] = q \o (<<Comma>> \o p)
      BY <1>6, <1>9, <2>4, <2>6, <3>8
    <3>10. Leads(q \o (<<Comma>> \o p), Ready(<<>>), Past(done, text))
      BY <3>5, <3>7, <3>8, LeadsJoin
    <3>11. Leads(f[n], Ready(<<>>), UpToField(texts, n))
      BY <2>3, <3>9, <3>10, Zenon
    <3> QED BY <3>1, <3>11
  <2> QED BY <2>5, <2>6
<1> HIDE DEF T
<1>12. N \in T
  <2>1. \A n \in 0..N : n \in T
    BY <1>10, <1>11, UpTo
  <2> QED BY <2>1
<1>13. Leads(f[N], Ready(<<>>), UpToField(texts, N))
  BY <1>12 DEF T
<1>14. w \in Line
  BY <1>8, <1>9
<1>15. Leads(w, Ready(<<>>), UpToField(texts, N))
  BY <1>8, <1>13, Zenon
<1> QED BY <1>14, <1>15, Zenon DEF w

\* A line of CSV reads back as its fields.
LEMMA CsvReads ==
  ASSUME NEW texts \in Seq(Line), texts # <<>>
  PROVE  CsvFields(Joined([n \in DOMAIN texts |-> CsvField(texts[n])], <<Comma>>) \o <<LineFeed>>) = texts
<1>1. PICK N \in Nat \ {0} : N = Len(texts)
  BY EmptySeq
<1>2. PICK w \in Line : /\ w = Joined([n \in DOMAIN texts |-> CsvField(texts[n])], <<Comma>>)
                        /\ Leads(w, Ready(<<>>), UpToField(texts, N))
  BY <1>1, FieldsLead
<1>3. PICK line : line = w \o <<LineFeed>>
  OBVIOUS
<1>4. SubSeq(line, 1, Len(line) - 1) = w
  <2>1. PICK m \in Nat : m = Len(w)
    BY LineLen
  <2>2. <<LineFeed>> \in Line /\ Len(<<LineFeed>>) = 1
    BY LineParts DEF LineFeed
  <2>3. PICK one : one = Len(<<LineFeed>>) /\ one = 1
    BY <2>2
  <2>4. /\ line \in Line /\ Len(line) = m + one
        /\ \A n \in 1..(m + one) : line[n] = IF n <= m THEN w[n] ELSE <<LineFeed>>[n - m]
    BY <1>3, <2>1, <2>2, <2>3, ConcatAt DEF Line
  <2>5. line \in Line /\ Len(line) = m + 1 /\ \A n \in 1..m : line[n] = w[n]
    BY <2>3, <2>4
  <2>6. Len(line) - 1 = m
    BY <2>5
  <2>7. PICK a \in 1..(Len(line) + 1) : a = 1
    BY <2>5
  <2>8. PICK b \in (a - 1)..Len(line) : b = m
    BY <2>5, <2>7
  <2>9. PICK t \in Line : t = SubSeq(line, a, b)
    BY <2>5, PieceIs
  <2>10. Len(t) = b - a + 1 /\ \A l \in 1..(b - a + 1) : t[l] = line[a + l - 1]
    BY <2>5, <2>9, PieceIs
  <2>11. b - a + 1 = m /\ \A l \in 1..m : a + l - 1 = l
    BY <2>7, <2>8
  <2>12. Len(t) = m /\ \A l \in 1..m : t[l] = w[l]
    BY <2>5, <2>10, <2>11
  <2>13. t = w
    BY <2>1, <2>12, SeqEqual DEF Line
  <2> QED BY <2>6, <2>7, <2>8, <2>9, <2>13, Zenon
<1>5. PICK f : Reading(w, Len(w), f) /\ f[0] = CsvStart /\ f[Len(w)] = CsvEnd(w)
  BY CsvRun
<1>6. CsvStart \in Ready(<<>>)
  <2>1. Append(<<>>, <<>>) = <<<<>>>>
    OBVIOUS
  <2>2. CsvStart = Outside(<<>>, <<>>, 0)
    BY <2>1, Zenon DEF At, CsvStart, Outside
  <2>3. 0 \in Nat \ {Quote}
    BY DEF Quote
  <2> QED BY <2>2, <2>3, Zenon DEF Ready
<1>7. CsvEnd(w) \in UpToField(texts, N)
  BY <1>2, <1>5, <1>6, Zenon DEF Leads
<1>8. PICK l \in Nat : CsvEnd(w) = At(SubSeq(texts, 1, N - 1), texts[N], FALSE, l)
  BY <1>7 DEF UpToField, Past, Outside
<1>9. CsvEnd(w).fields = Append(SubSeq(texts, 1, N - 1), texts[N])
  BY <1>8 DEF At
<1>10. Append(SubSeq(texts, 1, N - 1), texts[N]) = texts
  <2>1. N \in 1..Len(texts)
    BY <1>1
  <2>2. SubSeq(texts, 1, N) = Append(SubSeq(texts, 1, N - 1), texts[N])
    BY <2>1, PrefixOn
  <2>3. SubSeq(texts, 1, N) = texts
    BY <1>1, WholePrefix
  <2> QED BY <2>2, <2>3, Zenon
<1>11. CsvFields(line) = CsvEnd(w).fields
  BY <1>4, CsvIs, Zenon
<1> QED BY <1>2, <1>3, <1>9, <1>10, <1>11, Zenon

\* Three fields, or fewer.
Rowed(x, y, z) ==
  /\ <<x>> \o <<y>> \o <<z>> = <<x, y, z>> /\ <<>> \o <<y>> \o <<z>> = <<y, z>>
  /\ <<x>> \o <<y>> \o <<>> = <<x, y>> /\ <<>> \o <<y>> \o <<>> = <<y>>

LEMMA RowedIs ==
  ASSUME NEW x \in Line, NEW y \in Line, NEW z \in Line
  PROVE  Rowed(x, y, z)
<1>1. <<x>> \o <<y>> = <<x, y>> /\ <<y>> \o <<z>> = <<y, z>> /\ <<x, y>> \o <<z>> = <<x, y, z>>
  BY PairIs, TripleIs
<1>2. <<x, y>> \in Seq(Line) /\ <<y>> \in Seq(Line)
  OBVIOUS
<1>3. <<x, y>> \o <<>> = <<x, y>> /\ <<>> \o <<y>> = <<y>> /\ <<y>> \o <<>> = <<y>>
  BY <1>2, Appending
<1> QED BY <1>1, <1>3, Zenon DEF Rowed

\* A row reads back as the path, the name and the value, as they are encoded.
LEMMA CsvRowReads ==
  ASSUME NEW set \in OptionSets, NEW path \in Bytestrings, NEW name \in Bytestrings, NEW val \in Bytestrings
  PROVE  LET fields == CsvFields(CsvRow(set, path, name, val))
             start == IF set.recurse THEN 1 ELSE 0
         IN /\ set.recurse => fields[1] = path
            /\ fields[start + 1] = Encode(name)
            /\ set.values => Len(fields) = start + 2 /\ fields[start + 2] = RenderValue(set, val).text
            /\ ~set.values => Len(fields) = start + 1
<1>1. PICK p \in Line : p = path
  BY BytesAreLines
<1>2. PICK e \in Line : e = Encode(name)
  BY EncodeTyped
<1>3. PICK v \in Line : v = RenderValue(set, val).text
  BY ValueTyped
<1>4. PICK a \in Line, b \in Line, c \in Line : a = CsvField(p) /\ b = CsvField(e) /\ c = CsvField(v)
  BY CsvTyped
<1> DEFINE texts == (IF set.recurse THEN <<p>> ELSE <<>>) \o <<e>> \o (IF set.values THEN <<v>> ELSE <<>>)
           parts == (IF set.recurse THEN <<a>> ELSE <<>>) \o <<b>> \o (IF set.values THEN <<c>> ELSE <<>>)
           start == IF set.recurse THEN 1 ELSE 0
<1>0. /\ Rowed(p, e, v) /\ Rowed(a, b, c)
  BY RowedIs
<1>5. CsvRow(set, path, name, val) = Joined(parts, <<Comma>>) \o <<LineFeed>>
  BY <1>1, <1>2, <1>3, <1>4, Zenon DEF CsvRow
<1>6. CASE set.recurse /\ set.values
  <2>1. texts = <<p, e, v>> /\ parts = <<a, b, c>>
    BY <1>0, <1>6, Zenon DEF Rowed
  <2>0. start = 1
    BY <1>6
  <2>2. <<a, b, c>> = [n \in DOMAIN <<p, e, v>> |-> CsvField(<<p, e, v>>[n])]
    BY <1>4
  <2>3. <<p, e, v>> \in Seq(Line) /\ <<p, e, v>> # <<>>
    OBVIOUS
  <2>4. CsvFields(Joined(<<a, b, c>>, <<Comma>>) \o <<LineFeed>>) = <<p, e, v>>
    BY <2>2, <2>3, CsvReads
  <2>5. CsvFields(CsvRow(set, path, name, val)) = <<p, e, v>>
    BY <1>5, <2>1, <2>4, Zenon
  <2> HIDE DEF texts, parts
  <2> QED BY <1>1, <1>2, <1>3, <1>6, <2>0, <2>5
<1>7. CASE set.recurse /\ ~set.values
  <2>1. texts = <<p, e>> /\ parts = <<a, b>>
    BY <1>0, <1>7, Zenon DEF Rowed
  <2>0. start = 1
    BY <1>7
  <2>2. <<a, b>> = [n \in DOMAIN <<p, e>> |-> CsvField(<<p, e>>[n])]
    BY <1>4
  <2>3. <<p, e>> \in Seq(Line) /\ <<p, e>> # <<>>
    OBVIOUS
  <2>4. CsvFields(Joined(<<a, b>>, <<Comma>>) \o <<LineFeed>>) = <<p, e>>
    BY <2>2, <2>3, CsvReads
  <2>5. CsvFields(CsvRow(set, path, name, val)) = <<p, e>>
    BY <1>5, <2>1, <2>4, Zenon
  <2> HIDE DEF texts, parts
  <2> QED BY <1>1, <1>2, <1>3, <1>7, <2>0, <2>5
<1>8. CASE ~set.recurse /\ set.values
  <2>1. texts = <<e, v>> /\ parts = <<b, c>>
    BY <1>0, <1>8, Zenon DEF Rowed
  <2>0. start = 0
    BY <1>8
  <2>2. <<b, c>> = [n \in DOMAIN <<e, v>> |-> CsvField(<<e, v>>[n])]
    BY <1>4
  <2>3. <<e, v>> \in Seq(Line) /\ <<e, v>> # <<>>
    OBVIOUS
  <2>4. CsvFields(Joined(<<b, c>>, <<Comma>>) \o <<LineFeed>>) = <<e, v>>
    BY <2>2, <2>3, CsvReads
  <2>5. CsvFields(CsvRow(set, path, name, val)) = <<e, v>>
    BY <1>5, <2>1, <2>4, Zenon
  <2> HIDE DEF texts, parts
  <2> QED BY <1>1, <1>2, <1>3, <1>8, <2>0, <2>5
<1>9. CASE ~set.recurse /\ ~set.values
  <2>1. texts = <<e>> /\ parts = <<b>>
    BY <1>0, <1>9, Zenon DEF Rowed
  <2>0. start = 0
    BY <1>9
  <2>2. <<b>> = [n \in DOMAIN <<e>> |-> CsvField(<<e>>[n])]
    BY <1>4
  <2>3. <<e>> \in Seq(Line) /\ <<e>> # <<>>
    OBVIOUS
  <2>4. CsvFields(Joined(<<b>>, <<Comma>>) \o <<LineFeed>>) = <<e>>
    BY <2>2, <2>3, CsvReads
  <2>5. CsvFields(CsvRow(set, path, name, val)) = <<e>>
    BY <1>5, <2>1, <2>4, Zenon
  <2> HIDE DEF texts, parts
  <2> QED BY <1>1, <1>2, <1>3, <1>9, <2>0, <2>5
<1> QED BY <1>6, <1>7, <1>8, <1>9

\* The lines of a listing in CSV, each row that of its name and its value.
CsvRows(set, path) ==
  {row \in [kind : Kinds, name : Bytestrings, value : Bytestrings, line : Line] :
     row.kind = "row" => row.line = CsvRow(set, path, row.name, row.value)}

CsvGiven == ~o.json /\ o.fmt = "Csv"

\* Once a listing in CSV has begun its lines are such.
CsvInv ==
  /\ OutputInv
  /\ phase \in Listing \cup {"exit"} /\ verb = "lst" /\ CsvGiven
     => o \in OptionSets /\ file.path \in Bytestrings /\ rows \in Seq(CsvRows(o, file.path))

\* The listing begins with the labels.
LEMMA CsvBegins ==
  ASSUME CsvInv, OutputInv', LstStart
  PROVE  CsvInv'
<1>1. /\ phase = "lst" /\ rows' = rows \o Header(o') /\ phase' = "list"
  BY Zenon DEF LstStart, Emit
<1>2. rows = <<>>
  BY <1>1 DEF CsvInv, OutputInv, CommandsInv, NothingOut, Listing
<1>3. o' \in OptionSets /\ file'.path \in Bytestrings
  BY <1>1, RoomTyped DEF OutputInv, CommandsInv, ToolTyped, ScanTyped, Listing, ReadTyped, FileTyped
<1>4. ASSUME CsvGiven' PROVE rows' \in Seq(CsvRows(o', file'.path))
  <2>1. Header(o') = <<Row("labels", CsvHeader(o'))>>
    BY <1>4, Zenon DEF Header, NamesArray, Framed, CsvGiven
  <2>2. PICK line \in Line : line = CsvHeader(o')
    BY <1>3, CsvHeaderTyped
  <2>3. PICK r : r = Row("labels", line)
    OBVIOUS
  <2>4. r \in CsvRows(o', file'.path)
    <3>1. "labels" \in Kinds /\ "labels" # "row" /\ <<>> \in Bytestrings
      BY DEF Kinds, Bytestrings
    <3> QED BY <2>2, <2>3, <3>1 DEF CsvRows, Row
  <2>5. <<r>> \in Seq(CsvRows(o', file'.path))
    BY <2>4
  <2>6. <<>> \o <<r>> = <<r>>
    BY <2>5, Appending
  <2> QED BY <1>1, <1>2, <2>1, <2>2, <2>3, <2>5, <2>6, Zenon
<1> QED BY <1>3, <1>4 DEF CsvInv

\* What is listed, and how, stays as it is while it is.
LEMMA SameCsv ==
  ASSUME UNCHANGED <<o, file>>
  PROVE  /\ CsvGiven' = CsvGiven /\ o' = o /\ file'.path = file.path
         /\ CsvRows(o', file'.path) = CsvRows(o, file.path)
BY DEF CsvGiven

\* Each attribute is a row.
LEMMA CsvOn ==
  ASSUME CsvInv, OutputInv', LstRow
  PROVE  CsvInv'
<1>1. /\ phase = "rows" /\ phase' = "rows" /\ k <= Len(Order) /\ UNCHANGED <<optionVars, world>>
  BY DEF LstRow
<1>2. \/ rows' = rows /\ verb' = verb
      \/ ~ValueLines(o) /\ rows' = rows \o <<Entry(Order[k])>> /\ verb' = verb
  BY Zenon DEF LstRow, Emit, history
<1>3. /\ FileTyped /\ k \in Nat \ {0} /\ rows \in Lines /\ o \in OptionSets
  BY <1>1, RoomTyped DEF CsvInv, OutputInv, Listing, ReadTyped, ListingTyped
<1>4. ASSUME CsvGiven, verb = "lst" PROVE rows' \in Seq(CsvRows(o, file.path))
  <2>1. rows \in Seq(CsvRows(o, file.path))
    BY <1>1, <1>4 DEF CsvInv, Listing
  <2>2. CASE rows' = rows
    BY <2>1, <2>2
  <2>3. CASE ~ValueLines(o) /\ rows' = rows \o <<Entry(Order[k])>>
    <3>1. ~ValueLines(o) => Order = file.attrs
      BY DEF Order
    <3>2. PICK s \in Seq(Attribute) : s = file.attrs
      BY <1>3 DEF FileTyped
    <3>3. k \in 1..Len(s) /\ Order[k] = s[k]
      BY <1>1, <1>3, <2>3, <3>1, <3>2
    <3>4. PICK entry \in Attribute : entry = s[k]
      BY <3>3, SeqTyped
    <3>5. PICK r : r = Entry(entry)
      OBVIOUS
    <3>6. EntryLine(entry) = CsvRow(o, file.path, entry.name, entry.value)
      BY <1>4 DEF EntryLine, NamesArray, ValueLines, Framed, CsvGiven
    <3>7. r \in CsvRows(o, file.path)
      <4>1. entry.name \in Bytestrings /\ entry.value \in Bytestrings /\ file.path \in Bytestrings
        BY <1>3 DEF Attribute, FileTyped
      <4>2. PICK line \in Line : line = CsvRow(o, file.path, entry.name, entry.value)
        BY <1>3, <4>1, CsvRowTyped
      <4>3. r = [kind |-> "row", name |-> entry.name, value |-> entry.value, line |-> line]
        BY <3>5, <3>6, <4>2, Zenon DEF Entry
      <4>4. "row" \in Kinds
        BY DEF Kinds
      <4> QED BY <4>1, <4>2, <4>3, <4>4 DEF CsvRows
    <3>8. <<r>> \in Seq(CsvRows(o, file.path))
      BY <3>7
    <3>9. rows \o <<r>> \in Seq(CsvRows(o, file.path))
      BY <2>1, <3>8, Appending
    <3>10. rows' = rows \o <<r>>
      BY <2>3, <3>3, <3>4, <3>5
    <3> QED BY <3>9, <3>10, Zenon
  <2> QED BY <1>2, <2>2, <2>3
<1>5. CsvGiven' = CsvGiven /\ o' = o /\ file' = file
  BY <1>1, SameCsv DEF optionVars, world
<1>6. verb' = verb
  BY <1>2
<1>7. o' \in OptionSets /\ file'.path \in Bytestrings
  BY <1>3, <1>5 DEF FileTyped
<1> QED BY <1>4, <1>5, <1>6, <1>7 DEF CsvInv

\* The rest of a listing in CSV writes nothing.
LEMMA CsvOther ==
  ASSUME CsvInv, OutputInv', LstList \/ LstRowsEnd \/ LstTail
  PROVE  CsvInv'
<1>1. /\ phase \in Listing /\ UNCHANGED <<o, file, verb>>
  <2>1. CASE LstList
    BY <2>1 DEF LstList, Listing, optionVars, world, history
  <2>2. CASE LstRowsEnd
    <3>1. phase = "rows" /\ UNCHANGED <<optionVars, world>> /\ UNCHANGED verb
      BY <2>2, Zenon DEF LstRowsEnd, Emit, history
    <3> QED BY <3>1 DEF Listing, optionVars, world
  <2>3. CASE LstTail
    <3>1. phase = "tail" /\ UNCHANGED <<optionVars, world>> /\ verb' = verb
      BY <2>3, Zenon DEF LstTail
    <3> QED BY <3>1 DEF Listing, optionVars, world
  <2> QED BY <2>1, <2>2, <2>3
<1>2. ASSUME CsvGiven PROVE rows' = rows
  <2>1. ~ValueLines(o) /\ ~NamesArray(o) /\ ~Framed(o)
    BY <1>2 DEF CsvGiven, ValueLines, NamesArray, Framed
  <2>2. CASE LstList
    BY <2>2 DEF LstList, history
  <2>3. CASE LstRowsEnd
    BY <2>1, <2>3, Zenon DEF LstRowsEnd, history
  <2>4. CASE LstTail
    <3>1. rows' = rows \o (IF NamesArray(o) THEN <<Row("array", <<93, LineFeed>>)>>
                    ELSE IF Framed(o) /\ o.fmt = "Table" THEN <<Row("border", Border(o))>> ELSE <<>>)
      BY <2>4, Zenon DEF LstTail
    <3>2. rows' = rows \o <<>>
      BY <2>1, <3>1, Zenon
    <3>3. rows \in Lines
      BY <1>1 DEF CsvInv, OutputInv, ListingTyped
    <3>4. rows \o <<>> = rows
      BY <3>3, Appending DEF Lines
    <3> QED BY <3>2, <3>4, Zenon
  <2> QED BY <2>2, <2>3, <2>4
<1>3. CsvGiven' = CsvGiven
  BY <1>1, SameCsv
<1> QED BY <1>1, <1>2, <1>3 DEF CsvInv

LEMMA CsvKept ==
  ASSUME CsvInv, [Next]_vars
  PROVE  CsvInv'
<1>1. OutputInv'
  BY OutputStep DEF CsvInv
<1>2. CASE UNCHANGED vars
  <2>1. CsvGiven' = CsvGiven /\ UNCHANGED <<phase, verb, rows, o, file>>
    BY <1>2, SameCsv DEF vars, optionVars, world, history
  <2> QED BY <1>1, <2>1 DEF CsvInv
<1>3. CASE TakeArgument \/ Start \/ ReadStdin \/ SetValueOf \/ CmdGet \/ CmdLen
           \/ CmdDel \/ CmdLimits \/ CmdLoad \/ PrintHelp \/ PrintVersion
  BY <1>1, <1>3, Elsewhere DEF CsvInv
<1> QED BY <1>1, <1>2, <1>3, CsvBegins, CsvOn, CsvOther DEF Next

\* A row of CSV reads back as what was listed: the path, the name and the value,
\* a field each, whatever bytes are in them (csv_field and render_value of
\* main.rs, encode_preserving_spaces and decode of pb.rs).
THEOREM CsvIsRead == Spec => []CsvReadsBack
<1>1. Init => CsvInv
  <2>1. Init => phase = "scan"
    BY DEF Init, ScanInit
  <2> QED BY <2>1, OutputAtFirst DEF CsvInv, Listing
<1>2. CsvInv /\ [Next]_vars => CsvInv'
  BY CsvKept
<1>3. CsvInv => CsvReadsBack
  <2> SUFFICES ASSUME CsvInv, phase = "exit", verb = "lst", ~o.json, o.fmt = "Csv",
                      NEW row \in Listed({"row"})
               PROVE  LET fields == CsvFields(row.line)
                          start  == IF o.recurse THEN 1 ELSE 0
                      IN /\ o.recurse => fields[1] = file.path
                         /\ Decode(fields[start + 1]) = row.name
                         /\ IF o.values
                            THEN /\ Len(fields) = start + 2
                                 /\ IF o.hex THEN fields[start + 2] = Hex(row.value)
                                    ELSE Decode(fields[start + 2]) = row.value
                            ELSE Len(fields) = start + 1
    BY Zenon DEF CsvReadsBack
  <2>1. o \in OptionSets /\ file.path \in Bytestrings /\ rows \in Seq(CsvRows(o, file.path))
    BY DEF CsvInv, CsvGiven
  <2>2. row \in CsvRows(o, file.path) /\ row.kind = "row"
    <3>1. PICK n \in DOMAIN rows : row = rows[n] /\ rows[n].kind \in {"row"}
      BY Zenon DEF Listed
    <3> QED BY <2>1, <3>1, SeqTyped
  <2>3. PICK name \in Bytestrings : name = row.name
    BY <2>2 DEF CsvRows
  <2>4. PICK val \in Bytestrings : val = row.value
    BY <2>2 DEF CsvRows
  <2>5. row.line = CsvRow(o, file.path, name, val)
    BY <2>2, <2>3, <2>4 DEF CsvRows
  <2>6. PICK fields : fields = CsvFields(row.line)
    OBVIOUS
  <2>7. PICK start : start = IF o.recurse THEN 1 ELSE 0
    OBVIOUS
  <2>8. /\ o.recurse => fields[1] = file.path
        /\ fields[start + 1] = Encode(name)
        /\ o.values => Len(fields) = start + 2 /\ fields[start + 2] = RenderValue(o, val).text
        /\ ~o.values => Len(fields) = start + 1
    <3>1. LET f == CsvFields(CsvRow(o, file.path, name, val))
              s == IF o.recurse THEN 1 ELSE 0
          IN /\ o.recurse => f[1] = file.path
             /\ f[s + 1] = Encode(name)
             /\ o.values => Len(f) = s + 2 /\ f[s + 2] = RenderValue(o, val).text
             /\ ~o.values => Len(f) = s + 1
      BY <2>1, CsvRowReads
    <3> QED BY <2>5, <2>6, <2>7, <3>1, Zenon
  <2>9. Decode(Encode(name)) = name /\ Decode(Encode(val)) = val
    BY PbLossless
  <2>10. RenderValue(o, val).text = IF o.hex THEN Hex(val) ELSE Encode(val)
    BY DEF RenderValue
  <2> QED BY <2>3, <2>4, <2>6, <2>7, <2>8, <2>9, <2>10, Zenon
<1> QED BY <1>1, <1>2, <1>3, PTL DEF Spec
=============================================================================
