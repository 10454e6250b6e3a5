--------------------------- MODULE CliListProofs ---------------------------
(***************************************************************************)
(* The order of the visits of a walk, and what lst -r and dump -r leave    *)
(* out, for any tree, any names, any walk asked for and any number of      *)
(* changes that others make to the tree while it is walked.                *)
(*                                                                         *)
(* The argument for the order does not look at the tree at all beyond its  *)
(* types: what a listing answers is any set of names, each once.  Whatever *)
(* it answers, what is still to be visited comes after all that has been   *)
(* visited.                                                                *)
(*                                                                         *)
(* The argument for what is left out follows what nothing has happened to  *)
(* since the walk began: its kind is known for good, and from the visit of *)
(* its directory on it is always somewhere, in a listing being read, on    *)
(* the queue or stack, at work or visited, unless a failure was reported.  *)
(***************************************************************************)
EXTENDS CliList, TLAPS, FiniteSetTheorems, SequenceTheorems, WellFoundedInduction

-----------------------------------------------------------------------------
(* Types                                                                   *)

PathNodes == {n \in AllNodes : n.depth = Len(n.path)}
Entries   == [name : Names, kind : Kinds]
Visits    == [path : Paths, kind : Kinds, depth : Nat, status : {"OK", "NotFound"} \cup Faults]

Looking   == {"read", "lstat", "failed"}
Expanding == {"read", "lstat", "failed", "kids"}

WithinLimit(depth) == options.limit = Unlimited \/ depth <= options.limit

Ascending(s) == \A i, j \in DOMAIN s : i < j => Rank[s[i].name] < Rank[s[j].name]

\* The variables by themselves.
Typed ==
  /\ tree \in [Paths -> Things] /\ Rooted(tree)
  /\ options \in Options
  /\ pc \in Labels
  /\ node \in PathNodes
  /\ pending \in Seq(PathNodes)
  /\ head \in 0..Len(pending)
  /\ log \in Seq(Visits)
  /\ failure \in Faults \cup {"NotFound", "none"}
  /\ (pc = "failed") = (failure # "none")

\* The entries of the directory at work: each name once, until they are sorted.
Listing ==
  /\ kids \in Seq(Entries) /\ Ascending(kids)
  /\ found \subseteq Entries /\ IsFiniteSet(found)
  /\ unknown \subseteq Names
  /\ \A i \in DOMAIN kids : Append(node.path, kids[i].name) \in Paths
  /\ \A e \in found : Append(node.path, e.name) \in Paths /\ e.name \notin unknown
  /\ \A n \in unknown : Append(node.path, n) \in Paths
  /\ \A d, e \in found : d.name = e.name => d = e
  /\ pc \notin {"kids", "done"} => kids = <<>>
  /\ pc # "lstat" => found = {} /\ unknown = {}

\* Only directories above the limit are expanded, and nothing is visited or
\* waits below it.
Bounded ==
  /\ pc \in Expanding => node.kind = "directory" /\ Deeper(node.depth)
  /\ pc = "visit" => WithinLimit(node.depth) /\ node.path # Root /\ options.order = "depth"
  /\ \A i \in DOMAIN pending :
       /\ WithinLimit(pending[i].depth)
       /\ options.order = "breadth" \/ pending[i].path = Root
            => pending[i].kind = "directory" /\ Deeper(pending[i].depth)
  /\ options.order = "breadth" \/ head = 0
  /\ pc \in {"inspect", "root"} => log = <<>> /\ pending = <<>> /\ head = 0 /\ node.path = Root

-----------------------------------------------------------------------------
(* Order                                                                   *)

\* Of the visits l: no failure at p, p seen as a directory, both of the parent
\* of p, and all before p.
NotReported(l, p) == \A k \in DOMAIN l : l[k].path = p => Good(l[k])

SeenAsDirectory(l, p) ==
  \E k \in DOMAIN l : Good(l[k]) /\ l[k].path = p /\ l[k].kind = "directory"

Reached(l, p) == SeenAsDirectory(l, Front(p)) /\ NotReported(l, Front(p))

AllBefore(l, p) == \A k \in DOMAIN l : Precedes(l[k].path, p)

\* Depth-first: from its top down, the stack holds paths in ascending order,
\* none below another and all after what was visited; the node at work comes
\* between them.
Falling(stack) == \A i, j \in DOMAIN stack : i < j => Apart(stack[j].path, stack[i].path)

Waiting(l, n) ==
  IF n.path = Root THEN l = <<Visited(n, "OK")>> ELSE Reached(l, n.path) /\ AllBefore(l, n.path)

\* The last visit was that of n, before all that is below n.
JustVisited(l, n) ==
  /\ Len(l) > 0 /\ l[Len(l)] = Visited(n, "OK")
  /\ \A k \in 1..(Len(l) - 1) : Precedes(l[k].path, n.path)

DepthInv ==
  /\ Falling(pending)
  /\ \A i \in DOMAIN pending : Waiting(log, pending[i])
  /\ pc \in Looking \cup {"visit"} \/ (pc = "kids" /\ kids # <<>>) =>
       \A i \in DOMAIN pending : Apart(node.path, pending[i].path)
  /\ pc = "visit" => Reached(log, node.path) /\ AllBefore(log, node.path)
  /\ pc \in Looking => JustVisited(log, node)
  /\ pc = "kids" =>
       /\ SeenAsDirectory(log, node.path) /\ NotReported(log, node.path)
       /\ \A k \in DOMAIN log : log[k].path = node.path \/ Precedes(log[k].path, node.path)

\* Breadth-first: the queue is in ascending order and all of it was visited;
\* what was visited are entries of its consumed part, those of the node at
\* work being the smaller ones.
Level(p, q) == Len(p) < Len(q) \/ (Len(p) = Len(q) /\ Precedes(p, q))

Rising(queue) == \A i, j \in DOMAIN queue : i < j => Level(queue[i].path, queue[j].path)

BreadthInv ==
  /\ Rising(pending)
  /\ \A i \in DOMAIN pending : \E k \in DOMAIN log : log[k] = Visited(pending[i], "OK")
  /\ pc \in Expanding => head > 0 /\ node = pending[head]
  /\ \A k \in DOMAIN log : log[k].path # Root =>
       \E i \in 1..(IF pc \in Looking THEN head - 1 ELSE head) :
         pending[i].path = Front(log[k].path)
  /\ pc = "kids" =>
       \A k \in DOMAIN log : log[k].path # Root /\ Front(log[k].path) = node.path =>
         \A i \in DOMAIN kids : Rank[Last(log[k].path)] < Rank[kids[i].name]
  /\ \A k \in DOMAIN log : ~Good(log[k]) =>
       \E i \in 1..(IF pc \in Expanding THEN head - 1 ELSE head) : pending[i].path = log[k].path

OrderInv ==
  /\ options.order = "depth" => DepthInv
  /\ options.order = "breadth" => BreadthInv
  /\ VisitsInOrder /\ VisitsReached /\ SecondVisits

-----------------------------------------------------------------------------
(* Paths                                                                   *)

LEMMA PathLen ==
  ASSUME NEW p \in Seq(Names)
  PROVE  /\ Len(p) \in Nat /\ DOMAIN p = 1..Len(p)
         /\ \A i \in DOMAIN p : p[i] \in Names /\ Rank[p[i]] \in Nat
BY TreeAssumption, LenProperties

\* Equal beginnings, element by element.
LEMMA SameStart ==
  ASSUME NEW S, NEW p \in Seq(S), NEW q \in Seq(S), NEW n \in Nat, n <= Len(p), n <= Len(q)
  PROVE  SubSeq(p, 1, n) = SubSeq(q, 1, n) <=> \A k \in 1..n : p[k] = q[k]
<1>1. Len(p) \in Nat /\ Len(q) \in Nat
  BY LenProperties
<1>2. /\ \A k \in 1..n : p[k] \in S /\ q[k] \in S
  BY <1>1, ElementOfSeq
<1>3. /\ SubSeq(p, 1, n) \in Seq(S) /\ SubSeq(q, 1, n) \in Seq(S)
      /\ Len(SubSeq(p, 1, n)) = n /\ Len(SubSeq(q, 1, n)) = n
      /\ \A k \in 1..n : SubSeq(p, 1, n)[k] = p[k] /\ SubSeq(q, 1, n)[k] = q[k]
  BY <1>2, SubSeqProperties
<1>4. ASSUME \A k \in 1..n : p[k] = q[k] PROVE SubSeq(p, 1, n) = SubSeq(q, 1, n)
  BY <1>3, <1>4, SeqEqual
<1> QED BY <1>3, <1>4

LEMMA PrefixIff ==
  ASSUME NEW p \in Seq(Names), NEW q \in Seq(Names)
  PROVE  IsPrefix(p, q) <=> Len(p) <= Len(q) /\ \A k \in 1..Len(p) : p[k] = q[k]
BY SameStart, PathLen DEF IsPrefix

LEMMA ApartIff ==
  ASSUME NEW p \in Seq(Names), NEW q \in Seq(Names)
  PROVE  Apart(p, q) <=>
           \E i \in Nat \ {0} : /\ i <= Len(p) /\ i <= Len(q)
                                /\ \A k \in 1..(i - 1) : p[k] = q[k]
                                /\ Rank[p[i]] < Rank[q[i]]
<1>1. ASSUME NEW i \in DOMAIN p \cap DOMAIN q
      PROVE  SubSeq(p, 1, i - 1) = SubSeq(q, 1, i - 1) <=> \A k \in 1..(i - 1) : p[k] = q[k]
  <2>1. i - 1 \in Nat /\ i - 1 <= Len(p) /\ i - 1 <= Len(q)
    BY <1>1, PathLen
  <2> QED BY <2>1, SameStart
<1>2. DOMAIN p \cap DOMAIN q = {i \in Nat \ {0} : i <= Len(p) /\ i <= Len(q)}
  BY PathLen
<1> QED BY <1>1, <1>2 DEF Apart

LEMMA ChildPath ==
  ASSUME NEW p \in Seq(Names), NEW n \in Names
  PROVE  /\ Append(p, n) \in Seq(Names) /\ Len(Append(p, n)) = Len(p) + 1
         /\ \A k \in 1..Len(p) : Append(p, n)[k] = p[k]
         /\ Append(p, n)[Len(p) + 1] = n
         /\ Append(p, n) # Root
         /\ Front(Append(p, n)) = p /\ Last(Append(p, n)) = n
<1>1. /\ Append(p, n) \in Seq(Names) /\ Len(Append(p, n)) = Len(p) + 1
      /\ \A k \in 1..Len(p) : Append(p, n)[k] = p[k]
      /\ Append(p, n)[Len(p) + 1] = n /\ Append(p, n) # << >>
  BY AppendProperties
<1>2. Len(p) \in Nat
  BY PathLen
<1>3. SubSeq(Append(p, n), 1, Len(p)) = SubSeq(p, 1, Len(p))
  BY <1>1, <1>2, SameStart
<1>4. SubSeq(p, 1, Len(p)) = p
  BY SubSeqFull
<1> QED BY <1>1, <1>2, <1>3, <1>4 DEF Front, Last, Root

LEMMA FrontLast ==
  ASSUME NEW q \in Seq(Names), q # Root
  PROVE  /\ Front(q) \in Seq(Names) /\ Last(q) \in Names
         /\ q = Append(Front(q), Last(q)) /\ Len(Front(q)) = Len(q) - 1 /\ Len(q) > 0
<1>1. PICK s \in Seq(Names), n \in Names : q = Append(s, n)
  BY SequenceEmptyOrAppend DEF Root
<1>2. Front(q) = s /\ Last(q) = n /\ Len(q) = Len(s) + 1 /\ Len(s) \in Nat
  BY <1>1, ChildPath, PathLen
<1> QED BY <1>1, <1>2

LEMMA PrecedesIff ==
  ASSUME NEW p \in Seq(Names), NEW q \in Seq(Names)
  PROVE  Precedes(p, q) <=>
           \/ Len(p) < Len(q) /\ \A k \in 1..Len(p) : p[k] = q[k]
           \/ Apart(p, q)
<1>1. ASSUME Len(p) = Len(q), \A k \in 1..Len(p) : p[k] = q[k] PROVE p = q
  BY <1>1, SeqEqual
<1> QED BY <1>1, PrefixIff, PathLen DEF Precedes, IsStrictPrefix

-----------------------------------------------------------------------------
(* The order of siblings and of what is below them                         *)

LEMMA NeverBothWays ==
  ASSUME NEW p \in Seq(Names), NEW q \in Seq(Names), Precedes(p, q)
  PROVE  ~Precedes(q, p) /\ p # q
<1>1. ASSUME NEW i \in Nat \ {0}, i <= Len(p), i <= Len(q), Rank[p[i]] < Rank[q[i]],
             \A k \in 1..Len(q) : q[k] = p[k]
      PROVE  FALSE
  BY <1>1, PathLen
<1>2. ASSUME Apart(p, q), Apart(q, p) PROVE FALSE
  <2>1. PICK i \in Nat \ {0} : /\ i <= Len(p) /\ i <= Len(q)
                               /\ \A k \in 1..(i - 1) : p[k] = q[k]
                               /\ Rank[p[i]] < Rank[q[i]]
    BY <1>2, ApartIff
  <2>2. PICK j \in Nat \ {0} : /\ j <= Len(q) /\ j <= Len(p)
                               /\ \A k \in 1..(j - 1) : q[k] = p[k]
                               /\ Rank[q[j]] < Rank[p[j]]
    BY <1>2, ApartIff
  <2>3. Rank[p[i]] \in Nat /\ Rank[q[i]] \in Nat /\ Rank[p[j]] \in Nat /\ Rank[q[j]] \in Nat
    BY <2>1, <2>2, PathLen
  <2>4. CASE i < j
    <3>1. i \in 1..(j - 1) BY <2>4
    <3>2. q[i] = p[i] BY <2>2, <3>1
    <3> QED BY <2>1, <2>3, <3>2
  <2>5. CASE j < i
    <3>1. j \in 1..(i - 1) BY <2>5
    <3>2. p[j] = q[j] BY <2>1, <3>1
    <3> QED BY <2>2, <2>3, <3>2
  <2>6. CASE i = j
    BY <2>1, <2>2, <2>3, <2>6
  <2> QED BY <2>4, <2>5, <2>6
<1> QED BY <1>1, <1>2, PrecedesIff, ApartIff, PathLen

\* Paths that part ways are not below one another.
LEMMA ApartNotBelow ==
  ASSUME NEW p \in Seq(Names), NEW q \in Seq(Names), Apart(p, q)
  PROVE  p # Root /\ q # Root /\ (q # Root => Front(q) # p)
<1>1. PICK i \in Nat \ {0} : /\ i <= Len(p) /\ i <= Len(q)
                             /\ \A k \in 1..(i - 1) : p[k] = q[k]
                             /\ Rank[p[i]] < Rank[q[i]]
  BY ApartIff
<1>2. Len(Root) = 0
  BY DEF Root
<1>3. ASSUME Front(q) = p, q # Root PROVE FALSE
  <2>1. q = Append(p, Last(q)) /\ Last(q) \in Names
    BY <1>3, FrontLast
  <2>2. q[i] = p[i]
    BY <1>1, <2>1, ChildPath
  <2> QED BY <1>1, <2>2, PathLen
<1> QED BY <1>1, <1>2, <1>3, PathLen

\* What is below paths that part ways parts ways.
LEMMA ApartBelow ==
  ASSUME NEW p \in Seq(Names), NEW q \in Seq(Names), Apart(p, q), NEW n \in Names
  PROVE  Apart(Append(p, n), q) /\ Apart(p, Append(q, n))
<1>1. PICK i \in Nat \ {0} : /\ i <= Len(p) /\ i <= Len(q)
                             /\ \A k \in 1..(i - 1) : p[k] = q[k]
                             /\ Rank[p[i]] < Rank[q[i]]
  BY ApartIff
<1>2. /\ Append(p, n) \in Seq(Names) /\ Len(Append(p, n)) = Len(p) + 1
      /\ \A k \in 1..Len(p) : Append(p, n)[k] = p[k]
      /\ Append(q, n) \in Seq(Names) /\ Len(Append(q, n)) = Len(q) + 1
      /\ \A k \in 1..Len(q) : Append(q, n)[k] = q[k]
      /\ Len(p) \in Nat /\ Len(q) \in Nat
  BY ChildPath, PathLen
<1> DEFINE pn == Append(p, n)
           qn == Append(q, n)
<1> HIDE DEF pn, qn
<1>3. Apart(pn, q)
  <2>1. i <= Len(pn) /\ pn[i] = p[i] /\ \A k \in 1..(i - 1) : pn[k] = p[k]
    BY <1>1, <1>2 DEF pn
  <2>2. i <= Len(q) /\ Rank[pn[i]] < Rank[q[i]] /\ \A k \in 1..(i - 1) : pn[k] = q[k]
    BY <1>1, <2>1
  <2> QED BY <1>2, <2>1, <2>2, ApartIff DEF pn
<1>4. Apart(p, qn)
  <2>1. i <= Len(qn) /\ qn[i] = q[i] /\ \A k \in 1..(i - 1) : qn[k] = q[k]
    BY <1>1, <1>2 DEF qn
  <2>2. i <= Len(p) /\ Rank[p[i]] < Rank[qn[i]] /\ \A k \in 1..(i - 1) : p[k] = qn[k]
    BY <1>1, <2>1
  <2> QED BY <1>2, <2>1, <2>2, ApartIff DEF qn
<1> QED BY <1>3, <1>4 DEF pn, qn

LEMMA Siblings ==
  ASSUME NEW p \in Seq(Names), NEW m \in Names, NEW n \in Names, Rank[m] < Rank[n]
  PROVE  Apart(Append(p, m), Append(p, n))
<1> DEFINE i == Len(p) + 1
           pm == Append(p, m)
           pn == Append(p, n)
<1>1. /\ pm \in Seq(Names) /\ Len(pm) = i /\ pm[i] = m /\ \A k \in 1..Len(p) : pm[k] = p[k]
      /\ pn \in Seq(Names) /\ Len(pn) = i /\ pn[i] = n /\ \A k \in 1..Len(p) : pn[k] = p[k]
      /\ i \in Nat \ {0} /\ i - 1 = Len(p)
  BY ChildPath, PathLen
<1> HIDE DEF i, pm, pn
<1>2. \A k \in 1..(i - 1) : pm[k] = pn[k]
  BY <1>1
<1>3. Apart(pm, pn)
  BY <1>1, <1>2, ApartIff
<1> QED BY <1>3 DEF pm, pn

\* What comes before a path, or is it, comes before what is below it.
LEMMA BeforeChild ==
  ASSUME NEW p \in Seq(Names), NEW q \in Seq(Names), p = q \/ Precedes(p, q), NEW n \in Names
  PROVE  Precedes(p, Append(q, n))
<1>1. CASE Apart(p, q)
  BY <1>1, ApartBelow, ChildPath, PrecedesIff
<1>2. CASE Len(p) <= Len(q) /\ \A k \in 1..Len(p) : p[k] = q[k]
  <2> DEFINE qn == Append(q, n)
  <2>1. /\ qn \in Seq(Names) /\ Len(qn) = Len(q) + 1 /\ Len(p) \in Nat /\ Len(q) \in Nat
        /\ \A k \in 1..Len(q) : qn[k] = q[k]
    BY ChildPath, PathLen
  <2> HIDE DEF qn
  <2>2. Len(p) < Len(qn) /\ \A k \in 1..Len(p) : p[k] = qn[k]
    BY <1>2, <2>1
  <2>3. Precedes(p, qn)
    BY <2>1, <2>2, PrecedesIff
  <2> QED BY <2>3 DEF qn
<1> QED BY <1>1, <1>2, PrecedesIff, PathLen

LEMMA SameLevel ==
  ASSUME NEW p \in Seq(Names), NEW q \in Seq(Names), Len(p) = Len(q), Precedes(p, q)
  PROVE  Apart(p, q)
BY PrecedesIff, PathLen

\* A path comes before another if its parent does, level by level.
LEMMA LevelOrder ==
  ASSUME NEW p \in Seq(Names), NEW q \in Seq(Names), NEW n \in Names, p # Root, Level(Front(p), q)
  PROVE  Level(p, Append(q, n))
<1>1. /\ Front(p) \in Seq(Names) /\ Last(p) \in Names /\ p = Append(Front(p), Last(p))
      /\ Len(Front(p)) = Len(p) - 1 /\ Len(p) \in Nat /\ Len(q) \in Nat
      /\ Append(q, n) \in Seq(Names) /\ Len(Append(q, n)) = Len(q) + 1
  BY FrontLast, ChildPath, PathLen
<1>2. CASE Len(Front(p)) < Len(q)
  BY <1>1, <1>2 DEF Level
<1>3. CASE Len(Front(p)) = Len(q) /\ Precedes(Front(p), q)
  <2>1. Apart(Front(p), q)
    BY <1>1, <1>3, SameLevel
  <2>2. Apart(p, q)
    BY <1>1, <2>1, ApartBelow
  <2>3. Apart(p, Append(q, n))
    BY <2>2, ApartBelow
  <2> QED BY <1>1, <1>3, <2>3 DEF Level, Precedes
<1> QED BY <1>2, <1>3 DEF Level

LEMMA LevelOneWay ==
  ASSUME NEW p \in Seq(Names), NEW q \in Seq(Names), Level(p, q)
  PROVE  p # q
BY NeverBothWays, PathLen DEF Level

-----------------------------------------------------------------------------
(* Sorted listings                                                         *)

\* The place of an entry: how many entries are not after it.
LEMMA Places ==
  ASSUME NEW E, IsFiniteSet(E), E \subseteq Entries, \A d, e \in E : d.name = e.name => d = e
  PROVE  \E place \in [E -> 1..Cardinality(E)] :
           /\ \A d, e \in E : Rank[d.name] < Rank[e.name] => place[d] < place[e]
           /\ \A i \in 1..Cardinality(E) : \E e \in E : place[e] = i
<1> DEFINE n == Cardinality(E)
           upto(e) == {d \in E : Rank[d.name] <= Rank[e.name]}
           place == [e \in E |-> Cardinality(upto(e))]
<1>1. n \in Nat
  BY FS_CardinalityType
<1>2. \A e \in E : e.name \in Names /\ Rank[e.name] \in Nat
  BY TreeAssumption DEF Entries
<1>3. \A e \in E : upto(e) \in SUBSET E /\ e \in upto(e)
  BY <1>2
<1> HIDE DEF upto
<1>4. ASSUME NEW e \in E
      PROVE  IsFiniteSet(upto(e)) /\ Cardinality(upto(e)) \in 1..n
  <2>1. IsFiniteSet(upto(e)) /\ Cardinality(upto(e)) <= n
    BY <1>3, FS_Subset
  <2>2. upto(e) # {} /\ Cardinality(upto(e)) \in Nat
    BY <1>3, <2>1, FS_CardinalityType
  <2>3. Cardinality(upto(e)) # 0
    BY <2>1, <2>2, FS_EmptySet
  <2> QED BY <1>1, <2>1, <2>2, <2>3
<1>5. place \in [E -> 1..n]
  BY <1>4
<1>6. ASSUME NEW d \in E, NEW e \in E, Rank[d.name] < Rank[e.name]
      PROVE  place[d] < place[e]
  <2>1. upto(d) \in SUBSET upto(e) /\ e \notin upto(d)
    BY <1>2, <1>6 DEF upto
  <2>2. IsFiniteSet(upto(e)) /\ e \in upto(e)
    BY <1>3, <1>4
  <2>3. /\ Cardinality(upto(d)) <= Cardinality(upto(e))
        /\ Cardinality(upto(e)) = Cardinality(upto(d)) => upto(e) = upto(d)
    BY <2>1, <2>2, FS_Subset
  <2>4. Cardinality(upto(d)) # Cardinality(upto(e))
    BY <2>1, <2>2, <2>3
  <2>5. Cardinality(upto(d)) \in Nat /\ Cardinality(upto(e)) \in Nat
    BY <1>1, <1>4
  <2>6. Cardinality(upto(d)) < Cardinality(upto(e))
    BY <2>3, <2>4, <2>5
  <2> QED BY <2>6
<1>7. \A d, e \in E : d # e => Rank[d.name] < Rank[e.name] \/ Rank[e.name] < Rank[d.name]
  <2>1. \A d, e \in E : d # e => Rank[d.name] # Rank[e.name]
    BY <1>2, TreeAssumption
  <2> QED BY <1>2, <2>1
<1>8. \A e \in E : place[e] \in Nat
  BY <1>1, <1>5
<1> HIDE DEF place
<1>9. place \in Injection(E, 1..n)
  <2>1. ASSUME NEW d \in E, NEW e \in E, place[d] = place[e] PROVE d = e
    BY <1>6, <1>7, <1>8, <2>1
  <2>2. DOMAIN place = E
    BY <1>5
  <2> QED BY <1>5, <2>1, <2>2 DEF Injection, IsInjective
<1>10. IsFiniteSet(1..n) /\ Cardinality(1..n) = n
  <2>1. IsFiniteSet(1..n) /\ Cardinality(1..n) = IF 1 > n THEN 0 ELSE n - 1 + 1
    BY <1>1, FS_Interval
  <2> QED BY <1>1, <2>1
<1>11. place \in Surjection(E, 1..n)
  BY <1>9, <1>10, FS_Injection
<1> QED BY <1>5, <1>6, <1>11 DEF Surjection

\* A set of entries of different names has a bytewise order, which has each of
\* them (sort_by of walk.rs, std.mem.sort of walk.zig).
LEMMA SortedEntries ==
  ASSUME NEW E, IsFiniteSet(E), E \subseteq Entries, \A d, e \in E : d.name = e.name => d = e
  PROVE  Sorted(E) \in Seq(E) /\ Ascending(Sorted(E)) /\ ToSet(Sorted(E)) = E
<1> DEFINE n == Cardinality(E)
<1>1. n \in Nat
  BY FS_CardinalityType
<1>2. PICK place \in [E -> 1..n] :
        /\ \A d, e \in E : Rank[d.name] < Rank[e.name] => place[d] < place[e]
        /\ \A i \in 1..n : \E e \in E : place[e] = i
  BY Places
<1>3. \A e \in E : Rank[e.name] \in Nat
  BY TreeAssumption DEF Entries
<1> DEFINE s == [i \in 1..n |-> CHOOSE e \in E : place[e] = i]
<1>4. \A i \in 1..n : s[i] \in E /\ place[s[i]] = i
  BY <1>2
<1>5. s \in [1..n -> E]
  BY <1>4
<1> HIDE DEF s
<1>6. ASSUME NEW i \in 1..n, NEW j \in 1..n, i < j PROVE Rank[s[i].name] < Rank[s[j].name]
  <2>1. s[i] \in E /\ s[j] \in E /\ place[s[i]] = i /\ place[s[j]] = j
    BY <1>4
  <2>2. ~(Rank[s[j].name] < Rank[s[i].name])
    BY <1>1, <1>2, <1>6, <2>1
  <2>3. Rank[s[i].name] # Rank[s[j].name]
    <3>1. s[i] # s[j]
      BY <1>6, <2>1
    <3>2. s[i].name # s[j].name /\ s[i].name \in Names /\ s[j].name \in Names
      BY <2>1, <3>1 DEF Entries
    <3> QED BY <3>2, TreeAssumption
  <2> QED BY <1>3, <2>1, <2>2, <2>3
<1>7. \E t \in [1..n -> E] : \A i, j \in DOMAIN t : i < j => Rank[t[i].name] < Rank[t[j].name]
  BY <1>5, <1>6
<1>8. Sorted(E) \in [1..n -> E] /\ Ascending(Sorted(E))
  BY <1>7 DEF Sorted, Ascending
<1>9. Sorted(E) \in Seq(E)
  BY <1>1, <1>8, SeqDef
<1>10. ToSet(Sorted(E)) = E
  <2> DEFINE t == Sorted(E)
  <2>1. t \in [1..n -> E] /\ DOMAIN t = 1..n /\ Ascending(t)
    BY <1>8
  <2> HIDE DEF t
  <2>2. \A i, j \in 1..n : i < j => t[i] # t[j]
    <3>1. \A i, j \in 1..n : i < j => Rank[t[i].name] < Rank[t[j].name]
      BY <2>1 DEF Ascending
    <3> QED BY <1>3, <2>1, <3>1
  <2>3. t \in Injection(1..n, E)
    <3>1. \A i, j \in 1..n : t[i] = t[j] => i = j
      BY <1>1, <2>2
    <3> QED BY <2>1, <3>1 DEF Injection, IsInjective
  <2>4. IsFiniteSet(1..n) /\ Cardinality(1..n) = n
    <3>1. IsFiniteSet(1..n) /\ Cardinality(1..n) = IF 1 > n THEN 0 ELSE n - 1 + 1
      BY <1>1, FS_Interval
    <3> QED BY <1>1, <3>1
  <2>5. t \in Surjection(1..n, E)
    BY <2>3, <2>4, FS_Injection
  <2>6. \A e \in E : \E i \in 1..n : t[i] = e
    BY <2>5 DEF Surjection
  <2>7. ToSet(t) = E
    BY <2>1, <2>6 DEF ToSet
  <2> QED BY <2>7 DEF t
<1> QED BY <1>8, <1>9, <1>10

-----------------------------------------------------------------------------
(* Type correctness                                                        *)

TypeInv == Typed /\ Listing /\ Bounded

LEMMA OptionsType ==
  ASSUME Typed
  PROVE  /\ options.order \in {"breadth", "depth"}
         /\ options.limit = Unlimited \/ options.limit \in Nat
         /\ Unlimited \notin Nat
BY TreeAssumption DEF Typed

LEMMA NodeType ==
  ASSUME NEW n \in PathNodes
  PROVE  /\ n.path \in Paths /\ n.path \in Seq(Names) /\ n.kind \in Kinds
         /\ n.depth \in Nat /\ n.depth = Len(n.path)
         /\ n.path = Root <=> n.depth = 0
<1>1. n.path \in Paths /\ n.kind \in Kinds /\ n.depth \in Nat /\ n.depth = Len(n.path)
  BY DEF PathNodes, AllNodes
<1>2. n.path \in Seq(Names)
  BY <1>1, TreeAssumption
<1>3. n.path = Root <=> Len(n.path) = 0
  BY <1>2, EmptySeq, LenProperties DEF Root
<1> QED BY <1>1, <1>2, <1>3

LEMMA AtType ==
  ASSUME Typed, NEW p \in Paths, At(p) # "none"
  PROVE  KindOf(At(p)) \in Kinds
<1>1. At(p) \in Things
  <2>1. tree[p] \in Things /\ (Ends[p] \in Paths => tree[Ends[p]] \in Things)
    BY DEF Typed
  <2> QED BY <2>1 DEF At
<1> QED BY <1>1 DEF KindOf, Things, Kinds

\* A directory read in one step.
LEMMA EntriesRead ==
  ASSUME Typed, NEW p \in Paths
  PROVE  LET E == {Entry(p, n) : n \in Children(p)}
         IN  /\ E \subseteq Entries /\ IsFiniteSet(E) /\ \A d, e \in E : d.name = e.name => d = e
             /\ \A e \in E : Append(p, e.name) \in Paths
<1> DEFINE E == {Entry(p, n) : n \in Children(p)}
           f == [n \in Children(p) |-> Entry(p, n)]
<1>1. \A n \in Children(p) : /\ n \in Names /\ Append(p, n) \in Paths
                             /\ KindOf(At(Append(p, n))) \in Kinds
  BY AtType DEF Children
<1>2. \A n \in Children(p) : Entry(p, n) \in Entries /\ Entry(p, n).name = n
  BY <1>1 DEF Entry, Entries
<1>3. f \in Surjection(Children(p), E)
  BY DEF Surjection
<1>4. IsFiniteSet(Children(p))
  <2>1. Children(p) \in SUBSET Names
    BY <1>1
  <2> QED BY <2>1, TreeAssumption, FS_Subset
<1>5. IsFiniteSet(E)
  BY <1>3, <1>4, FS_Surjection
<1> QED BY <1>1, <1>2, <1>5

LEMMA NodeOf ==
  ASSUME NEW p \in Paths, NEW k \in Kinds, NEW d \in Nat, d = Len(p)
  PROVE  Node(p, k, d) \in PathNodes /\ Node(p, k, d).path = p /\ Node(p, k, d).kind = k
         /\ Node(p, k, d).depth = d
BY DEF Node, PathNodes, AllNodes

LEMMA ChildType ==
  ASSUME Typed, NEW e \in Entries, Append(node.path, e.name) \in Paths
  PROVE  /\ Child(e) \in PathNodes /\ Child(e).path = Append(node.path, e.name)
         /\ Child(e).kind = e.kind /\ Child(e).depth = node.depth + 1
         /\ Child(e).path # Root
<1>1. e.name \in Names /\ e.kind \in Kinds
  BY DEF Entries
<1>2. node.path \in Seq(Names) /\ node.depth \in Nat /\ node.depth = Len(node.path)
  BY NodeType DEF Typed
<1>3. Len(Append(node.path, e.name)) = node.depth + 1 /\ Append(node.path, e.name) # Root
  BY <1>1, <1>2, ChildPath
<1> DEFINE p == Append(node.path, e.name)
           d == node.depth + 1
<1>4. p \in Paths /\ d \in Nat /\ d = Len(p) /\ p # Root /\ e.kind \in Kinds
  BY <1>1, <1>2, <1>3
<1> HIDE DEF p, d
<1>5. /\ Node(p, e.kind, d) \in PathNodes /\ Node(p, e.kind, d).path = p
      /\ Node(p, e.kind, d).kind = e.kind /\ Node(p, e.kind, d).depth = d
  BY <1>4, NodeOf
<1>6. Child(e) = Node(p, e.kind, d)
  BY DEF Child, p, d
<1> QED BY <1>4, <1>5, <1>6 DEF p, d

LEMMA VisitType ==
  ASSUME NEW n \in PathNodes, NEW s \in {"OK", "NotFound"} \cup Faults
  PROVE  /\ Visited(n, s) \in Visits
         /\ Visited(n, s).path = n.path /\ Visited(n, s).kind = n.kind
         /\ Visited(n, s).depth = n.depth /\ Visited(n, s).status = s
         /\ Good(Visited(n, s)) <=> s = "OK"
BY NodeType DEF Visited, Visits, Good

LEMMA FaultsType == "OK" \notin Faults /\ "none" \notin Faults /\ Faults \subseteq {"Permission", "Io", "OutOfMemory", "InvalidPath"}
BY TreeAssumption

\* What an action leaves alone.
LEMMA ListingKept ==
  ASSUME Listing, UNCHANGED <<node, kids, found, unknown>>,
         pc' \notin {"kids", "done"} => kids = <<>>,
         pc' # "lstat" => found = {} /\ unknown = {}
  PROVE  Listing'
BY DEF Listing, Ascending

LEMMA NoListing ==
  ASSUME kids' = <<>>, found' = {}, unknown' = {}
  PROVE  Listing'
<1>1. kids' \in Seq(Entries) /\ DOMAIN kids' = {}
  BY EmptySeq
<1>2. IsFiniteSet(found')
  BY FS_EmptySet
<1> QED BY <1>1, <1>2 DEF Listing, Ascending

LEMMA BoundedKept ==
  ASSUME Bounded, UNCHANGED <<options, node, pending, head, log>>,
         pc' \in Expanding => pc \in Expanding,
         pc' \notin {"visit", "inspect", "root"}
  PROVE  Bounded'
BY DEF Bounded, WithinLimit, Deeper

LEMMA InspectRootTypes ==
  ASSUME TypeInv, InspectRoot
  PROVE  TypeInv'
<1>1. /\ pc = "inspect" /\ pc' \in {"root", "done"}
      /\ UNCHANGED <<tree, options, pending, head, unknown, found, kids, failure, log>>
  BY DEF InspectRoot, Goto, Finish, history
<1>2. /\ failure = "none" /\ kids = <<>> /\ found = {} /\ unknown = {}
      /\ log = <<>> /\ pending = <<>> /\ head = 0
  BY <1>1 DEF TypeInv, Typed, Listing, Bounded
<1>3. node' \in PathNodes /\ node'.path = Root
  <2>1. CASE tree[Root] # "none" /\ node' = Node(Root, KindOf(tree[Root]), 0)
    <3>1. Root \in Paths /\ Len(Root) = 0 /\ tree[Root] \in Things
      BY TreeAssumption DEF TypeInv, Typed, Root
    <3>2. KindOf(tree[Root]) \in Kinds
      BY <2>1, <3>1 DEF KindOf, Things, Kinds
    <3> QED BY <2>1, <3>1, <3>2, NodeOf
  <2>2. CASE UNCHANGED node
    BY <1>1, <2>2 DEF TypeInv, Typed, Bounded
  <2> QED BY <2>1, <2>2 DEF InspectRoot
<1>4. Typed'
  BY <1>1, <1>2, <1>3 DEF TypeInv, Typed, Labels, Rooted
<1>5. Listing'
  BY <1>1, <1>2, NoListing
<1>6. Bounded'
  BY <1>1, <1>2, <1>3 DEF Bounded, Expanding
<1> QED BY <1>4, <1>5, <1>6 DEF TypeInv

LEMMA SingleSeq ==
  ASSUME NEW S, NEW x \in S
  PROVE  <<x>> \in Seq(S) /\ Len(<<x>>) = 1 /\ DOMAIN <<x>> = {1} /\ <<x>>[1] = x
OBVIOUS

LEMMA VisitRootTypes ==
  ASSUME TypeInv, VisitRoot
  PROVE  TypeInv'
<1>1. /\ pc = "root" /\ pc' \in {"next", "done"}
      /\ UNCHANGED <<tree, options, node, head, unknown, found, kids, failure>>
      /\ log' = Append(log, Visited(node, "OK"))
      /\ \/ /\ pending' = <<node>> /\ node.kind = "directory" /\ options.limit # 0
         \/ pending' = pending
  BY DEF VisitRoot, Onward, Goto, Finish, RunsOut, Visit, Enters
<1>2. /\ failure = "none" /\ kids = <<>> /\ found = {} /\ unknown = {}
      /\ log = <<>> /\ pending = <<>> /\ head = 0 /\ node.path = Root
  BY <1>1 DEF TypeInv, Typed, Listing, Bounded
<1>3. /\ node \in PathNodes /\ node.depth = 0
      /\ options.limit = Unlimited \/ options.limit \in Nat
  BY <1>2, NodeType, OptionsType DEF TypeInv, Typed
<1>4. pending' \in Seq(PathNodes) /\ head' \in 0..Len(pending')
  <2>1. <<node>> \in Seq(PathNodes) /\ Len(<<node>>) = 1
    BY <1>3, SingleSeq
  <2>2. pending \in Seq(PathNodes)
    BY <1>2 DEF TypeInv, Typed
  <2>3. head' = 0 /\ Len(pending') \in Nat
    BY <1>1, <1>2, <2>1, <2>2, LenProperties
  <2>4. pending' \in Seq(PathNodes)
    <3>1. CASE pending' = <<node>> BY <2>1, <3>1
    <3>2. CASE pending' = pending BY <2>2, <3>2
    <3> QED BY <1>1, <3>1, <3>2
  <2> QED BY <2>3, <2>4
<1>5. log' \in Seq(Visits)
  BY <1>1, <1>2, <1>3, VisitType, AppendProperties DEF TypeInv, Typed
<1>6. Typed'
  BY <1>1, <1>2, <1>3, <1>4, <1>5 DEF TypeInv, Typed, Labels, Rooted
<1>7. Listing'
  BY <1>1, <1>2, NoListing
<1>8. \A i \in DOMAIN pending' :
        /\ WithinLimit(pending'[i].depth)
        /\ pending'[i].kind = "directory" /\ Deeper(pending'[i].depth)
  <2>1. CASE pending' = <<node>> /\ node.kind = "directory" /\ options.limit # 0
    <3>1. DOMAIN pending' = {1} /\ pending'[1] = node
      BY <2>1, <1>3, SingleSeq
    <3> QED BY <1>1, <1>3, <2>1, <3>1 DEF WithinLimit, Deeper
  <2>2. CASE pending' = pending
    BY <1>2, <2>2
  <2> QED BY <1>1, <2>1, <2>2
<1>9. Bounded'
  BY <1>1, <1>2, <1>3, <1>8 DEF Bounded, Expanding, WithinLimit, Deeper
<1> QED BY <1>6, <1>7, <1>9 DEF TypeInv

LEMMA TakeFirstTypes ==
  ASSUME TypeInv, TakeFirst
  PROVE  TypeInv'
<1>1. /\ pc = "next" /\ options.order = "breadth"
      /\ UNCHANGED <<tree, options, pending, unknown, found, kids, failure, log>>
      /\ \/ /\ head < Len(pending) /\ node' = pending[head + 1]
            /\ head' = head + 1 /\ pc' = "read"
         \/ pc' = "done" /\ UNCHANGED <<node, head>>
  BY DEF TakeFirst, Goto, Finish, history
<1>2. failure = "none" /\ kids = <<>> /\ found = {} /\ unknown = {}
  BY <1>1 DEF TypeInv, Typed, Listing
<1>3. CASE pc' = "done" /\ UNCHANGED <<node, head>>
  <2>1. Typed'
    BY <1>1, <1>2, <1>3 DEF TypeInv, Typed, Labels, Rooted
  <2> QED BY <1>1, <1>2, <1>3, <2>1, NoListing, BoundedKept DEF TypeInv, Expanding
<1>4. CASE head < Len(pending) /\ node' = pending[head + 1] /\ head' = head + 1 /\ pc' = "read"
  <2>1. pending \in Seq(PathNodes) /\ head \in Nat /\ Len(pending) \in Nat
    BY LenProperties DEF TypeInv, Typed
  <2>2. head + 1 \in 1..Len(pending) /\ head + 1 \in DOMAIN pending
    BY <1>4, <2>1
  <2>3. node' \in PathNodes
    BY <1>4, <2>1, <2>2, ElementOfSeq
  <2>4. Typed'
    BY <1>1, <1>2, <1>4, <2>1, <2>2, <2>3 DEF TypeInv, Typed, Labels, Rooted
  <2>5. node'.kind = "directory" /\ Deeper(node'.depth)
    BY <1>1, <1>4, <2>2 DEF TypeInv, Bounded
  <2>6. Bounded'
    BY <1>1, <1>4, <2>5 DEF TypeInv, Bounded, WithinLimit, Deeper
  <2> QED BY <1>1, <1>2, <2>4, <2>6, NoListing DEF TypeInv
<1> QED BY <1>1, <1>3, <1>4

\* The top of the stack.
LEMMA Popped ==
  ASSUME NEW s \in Seq(PathNodes), s # <<>>
  PROVE  /\ Last(s) \in PathNodes /\ Front(s) \in Seq(PathNodes)
         /\ Len(Front(s)) = Len(s) - 1 /\ Len(s) \in Nat /\ Len(s) > 0
         /\ DOMAIN s = 1..Len(s) /\ DOMAIN Front(s) = 1..(Len(s) - 1)
         /\ \A i \in 1..(Len(s) - 1) : Front(s)[i] = s[i]
         /\ Last(s) = s[Len(s)]
<1>1. Len(s) \in Nat /\ Len(s) > 0 /\ DOMAIN s = 1..Len(s)
  BY EmptySeq, LenProperties
<1>2. \A i \in 1..(Len(s) - 1) : s[i] \in PathNodes
  BY <1>1, ElementOfSeq
<1>3. /\ Front(s) \in Seq(PathNodes) /\ Len(Front(s)) = Len(s) - 1
      /\ \A i \in 1..(Len(s) - 1) : Front(s)[i] = s[i]
  <2>1. /\ SubSeq(s, 1, Len(s) - 1) \in Seq(PathNodes)
        /\ Len(SubSeq(s, 1, Len(s) - 1)) =
             IF 1 <= Len(s) - 1 THEN Len(s) - 1 - 1 + 1 ELSE 0
        /\ \A i \in 1..(Len(s) - 1 - 1 + 1) : SubSeq(s, 1, Len(s) - 1)[i] = s[1 + i - 1]
    BY <1>1, <1>2, SubSeqProperties
  <2> QED BY <1>1, <2>1 DEF Front
<1>4. DOMAIN Front(s) = 1..(Len(s) - 1)
  BY <1>3, LenProperties
<1> QED BY <1>1, <1>3, <1>4, ElementOfSeq DEF Last

LEMMA TakeLastTypes ==
  ASSUME TypeInv, TakeLast
  PROVE  TypeInv'
<1>1. /\ pc = "next" /\ options.order = "depth"
      /\ UNCHANGED <<tree, options, head, unknown, found, kids, failure, log>>
      /\ \/ /\ pending # <<>> /\ node' = Last(pending) /\ pending' = Front(pending)
            /\ pc' = IF node'.depth > 0 THEN "visit" ELSE "read"
         \/ pc' = "done" /\ UNCHANGED <<node, pending>>
  BY DEF TakeLast, Goto, Finish, history
<1>2. failure = "none" /\ kids = <<>> /\ found = {} /\ unknown = {}
  BY <1>1 DEF TypeInv, Typed, Listing
<1>3. CASE pc' = "done" /\ UNCHANGED <<node, pending>>
  <2>1. Typed'
    BY <1>1, <1>2, <1>3 DEF TypeInv, Typed, Labels, Rooted
  <2> QED BY <1>1, <1>2, <1>3, <2>1, NoListing, BoundedKept DEF TypeInv, Expanding
<1>4. CASE /\ pending # <<>> /\ node' = Last(pending) /\ pending' = Front(pending)
           /\ pc' = IF node'.depth > 0 THEN "visit" ELSE "read"
  <2>1. pending \in Seq(PathNodes)
    BY DEF TypeInv, Typed
  <2>2. /\ node' \in PathNodes /\ pending' \in Seq(PathNodes)
        /\ Len(pending) \in DOMAIN pending /\ node' = pending[Len(pending)]
        /\ DOMAIN pending' \subseteq DOMAIN pending
        /\ \A i \in DOMAIN pending' : pending'[i] = pending[i]
    <3>1. /\ Last(pending) \in PathNodes /\ Front(pending) \in Seq(PathNodes)
          /\ Len(pending) \in Nat /\ Len(pending) > 0 /\ DOMAIN pending = 1..Len(pending)
          /\ DOMAIN Front(pending) = 1..(Len(pending) - 1)
          /\ \A i \in 1..(Len(pending) - 1) : Front(pending)[i] = pending[i]
          /\ Last(pending) = pending[Len(pending)]
      BY <1>4, <2>1, Popped
    <3> QED BY <1>4, <3>1
  <2>3. node'.depth \in Nat /\ (node'.path = Root <=> node'.depth = 0)
    BY <2>2, NodeType
  <2>4. head' = 0 /\ Len(pending') \in Nat
    BY <1>1, <2>2, LenProperties DEF TypeInv, Bounded
  <2>5. pc' \in {"visit", "read"}
    BY <1>4
  <2>6. Typed'
    <3>1. head' \in 0..Len(pending')
      BY <2>4
    <3> QED BY <1>1, <1>2, <2>2, <2>5, <3>1 DEF TypeInv, Typed, Labels, Rooted
  <2>7. \A i \in DOMAIN pending' :
          /\ WithinLimit(pending'[i].depth)
          /\ pending'[i].path = Root => pending'[i].kind = "directory" /\ Deeper(pending'[i].depth)
    BY <1>1, <2>2 DEF TypeInv, Bounded, WithinLimit, Deeper
  <2>8. /\ WithinLimit(node'.depth)
        /\ node'.path = Root => node'.kind = "directory" /\ Deeper(node'.depth)
    BY <2>2 DEF TypeInv, Bounded
  <2>9. pc' = "visit" => node'.path # Root
    BY <1>4, <2>3
  <2>10. pc' = "read" => node'.path = Root
    BY <1>4, <2>3
  <2>11. Bounded'
    BY <1>1, <2>4, <2>5, <2>7, <2>8, <2>9, <2>10 DEF Bounded, Expanding, WithinLimit, Deeper
  <2> QED BY <1>1, <1>2, <2>5, <2>6, <2>11, NoListing DEF TypeInv
<1> QED BY <1>1, <1>3, <1>4

LEMMA VisitNodeTypes ==
  ASSUME TypeInv, VisitNode
  PROVE  TypeInv'
<1>1. /\ pc = "visit"
      /\ pc' \in {"read", "next", "done"}
      /\ pc' = "read" => node.kind = "directory" /\ Deeper(node.depth)
      /\ UNCHANGED <<tree, options, node, pending, head, unknown, found, kids, failure>>
      /\ log' = Append(log, Visited(node, "OK"))
  BY DEF VisitNode, Onward, Goto, Finish, Visit, Enters
<1>2. failure = "none" /\ kids = <<>> /\ found = {} /\ unknown = {}
  BY <1>1 DEF TypeInv, Typed, Listing
<1>3. log' \in Seq(Visits)
  BY <1>1, VisitType, AppendProperties DEF TypeInv, Typed
<1>4. Typed'
  BY <1>1, <1>2, <1>3 DEF TypeInv, Typed, Labels, Rooted
<1>5. Bounded'
  BY <1>1 DEF TypeInv, Bounded, Expanding, WithinLimit, Deeper
<1> QED BY <1>1, <1>2, <1>4, <1>5, NoListing DEF TypeInv

LEMMA ReadTypes ==
  ASSUME TypeInv, Read
  PROVE  TypeInv'
<1>1. /\ pc = "read" /\ UNCHANGED <<tree, options, node, pending, head, found, log>>
      /\ \/ /\ kids' = Sorted({Entry(node.path, n) : n \in Children(node.path)})
            /\ pc' = "kids" /\ UNCHANGED <<unknown, failure>>
         \/ /\ unknown' = Children(node.path)
            /\ pc' = "lstat" /\ UNCHANGED <<kids, failure>>
         \/ /\ failure' \in Faults \cup {"NotFound"}
            /\ pc' = "failed" /\ UNCHANGED <<unknown, kids>>
  BY DEF Read, Goto, history
<1>2. failure = "none" /\ kids = <<>> /\ found = {} /\ unknown = {}
  BY <1>1 DEF TypeInv, Typed, Listing
<1>3. node.path \in Paths
  BY NodeType DEF TypeInv, Typed
<1>4. Typed'
  BY <1>1, <1>2, FaultsType DEF TypeInv, Typed, Labels, Rooted
<1>5. Bounded'
  BY <1>1, BoundedKept DEF TypeInv, Expanding
<1>6. Listing'
  <2>1. CASE /\ kids' = Sorted({Entry(node.path, n) : n \in Children(node.path)})
             /\ pc' = "kids" /\ UNCHANGED <<unknown, failure>>
    <3> DEFINE E == {Entry(node.path, n) : n \in Children(node.path)}
    <3>1. /\ E \subseteq Entries /\ IsFiniteSet(E) /\ \A d, e \in E : d.name = e.name => d = e
          /\ \A e \in E : Append(node.path, e.name) \in Paths
      BY <1>3, EntriesRead DEF TypeInv
    <3> HIDE DEF E
    <3>2. kids' \in Seq(E) /\ Ascending(kids') /\ ToSet(kids') = E
      <4>1. kids' = Sorted(E)
        BY <2>1 DEF E
      <4> QED BY <3>1, <4>1, SortedEntries
    <3>3. kids' \in Seq(Entries) /\ \A i \in DOMAIN kids' : kids'[i] \in E
      BY <3>1, <3>2, SeqMonotonic DEF ToSet
    <3>4. \A i \in DOMAIN kids' : Append(node.path, kids'[i].name) \in Paths
      BY <3>1, <3>3
    <3>5. IsFiniteSet({})
      BY FS_EmptySet
    <3>6. Ascending(kids)'
      BY <3>2 DEF Ascending
    <3> QED BY <1>1, <1>2, <2>1, <3>3, <3>4, <3>5, <3>6 DEF Listing
  <2>2. CASE unknown' = Children(node.path) /\ pc' = "lstat" /\ UNCHANGED <<kids, failure>>
    <3>1. \A n \in Children(node.path) : n \in Names /\ Append(node.path, n) \in Paths
      BY DEF Children
    <3> QED BY <1>1, <1>2, <2>2, <3>1 DEF TypeInv, Listing, Ascending
  <2>3. CASE pc' = "failed" /\ UNCHANGED <<unknown, kids>>
    BY <1>1, <1>2, <2>3, NoListing
  <2> QED BY <1>1, <2>1, <2>2, <2>3
<1> QED BY <1>4, <1>5, <1>6 DEF TypeInv

LEMMA LstatTypes ==
  ASSUME TypeInv, Lstat
  PROVE  TypeInv'
<1>1. /\ pc = "lstat" /\ UNCHANGED <<tree, options, node, pending, head, log>>
      /\ \/ /\ unknown = {} /\ kids' = Sorted(found) /\ found' = {} /\ pc' = "kids"
            /\ UNCHANGED <<unknown, failure>>
         \/ \E n \in unknown :
              /\ At(Append(node.path, n)) # "none"
              /\ found' = found \cup {Entry(node.path, n)} /\ unknown' = unknown \ {n}
              /\ pc' = "lstat" /\ UNCHANGED <<kids, failure>>
         \/ /\ found' = {} /\ unknown' = {} /\ failure' = "NotFound" /\ pc' = "failed"
            /\ UNCHANGED kids
  BY DEF Lstat, Goto, history
<1>2. failure = "none" /\ kids = <<>>
  BY <1>1 DEF TypeInv, Typed, Listing
<1>3. Typed'
  BY <1>1, <1>2, FaultsType DEF TypeInv, Typed, Labels, Rooted
<1>4. Bounded'
  BY <1>1, BoundedKept DEF TypeInv, Expanding
<1>5. Listing'
  <2>1. CASE /\ unknown = {} /\ kids' = Sorted(found) /\ found' = {} /\ pc' = "kids"
             /\ UNCHANGED <<unknown, failure>>
    <3>1. /\ found \subseteq Entries /\ IsFiniteSet(found)
          /\ \A d, e \in found : d.name = e.name => d = e
          /\ \A e \in found : Append(node.path, e.name) \in Paths
      BY DEF TypeInv, Listing
    <3>2. kids' \in Seq(found) /\ Ascending(kids') /\ ToSet(kids') = found
      BY <2>1, <3>1, SortedEntries
    <3>3. kids' \in Seq(Entries) /\ \A i \in DOMAIN kids' : kids'[i] \in found
      BY <3>1, <3>2, SeqMonotonic DEF ToSet
    <3>4. \A i \in DOMAIN kids' : Append(node.path, kids'[i].name) \in Paths
      BY <3>1, <3>3
    <3>5. IsFiniteSet({})
      BY FS_EmptySet
    <3>6. Ascending(kids)'
      BY <3>2 DEF Ascending
    <3> QED BY <1>1, <1>2, <2>1, <3>3, <3>4, <3>5, <3>6 DEF Listing
  <2>2. ASSUME NEW n \in unknown, At(Append(node.path, n)) # "none",
               found' = found \cup {Entry(node.path, n)}, unknown' = unknown \ {n},
               pc' = "lstat", UNCHANGED <<kids, failure>>
        PROVE  Listing'
    <3>1. n \in Names /\ Append(node.path, n) \in Paths
      BY DEF TypeInv, Listing
    <3>2. Entry(node.path, n) \in Entries /\ Entry(node.path, n).name = n
      BY <2>2, <3>1, AtType DEF TypeInv, Entry, Entries
    <3>3. IsFiniteSet(found')
      BY <2>2, FS_AddElement DEF TypeInv, Listing
    <3>4. \A d, e \in found' : d.name = e.name => d = e
      BY <2>2, <3>2 DEF TypeInv, Listing
    <3>5. found' \subseteq Entries /\ unknown' \subseteq Names
      BY <2>2, <3>2 DEF TypeInv, Listing
    <3>6. \A e \in found' : Append(node.path, e.name) \in Paths /\ e.name \notin unknown'
      BY <2>2, <3>1, <3>2 DEF TypeInv, Listing
    <3>7. \A k \in unknown' : Append(node.path, k) \in Paths
      BY <2>2 DEF TypeInv, Listing
    <3> QED BY <1>1, <1>2, <2>2, <3>3, <3>4, <3>5, <3>6, <3>7 DEF TypeInv, Listing, Ascending
  <2>3. CASE found' = {} /\ unknown' = {} /\ failure' = "NotFound" /\ pc' = "failed" /\ UNCHANGED kids
    BY <1>2, <2>3, NoListing
  <2> QED BY <1>1, <2>1, <2>2, <2>3
<1> QED BY <1>3, <1>4, <1>5 DEF TypeInv

LEMMA ReportFailureTypes ==
  ASSUME TypeInv, ReportFailure
  PROVE  TypeInv'
<1>1. /\ pc = "failed" /\ pc' \in {"next", "done"} /\ failure' = "none"
      /\ UNCHANGED <<tree, options, node, pending, head, unknown, found, kids>>
      /\ log' = Append(log, Visited(node, failure))
  BY DEF ReportFailure, Onward, Goto, Finish, Visit
<1>2. /\ failure \in Faults \cup {"NotFound"} /\ kids = <<>> /\ found = {} /\ unknown = {}
  BY <1>1 DEF TypeInv, Typed, Listing
<1>3. log' \in Seq(Visits)
  BY <1>1, <1>2, VisitType, AppendProperties DEF TypeInv, Typed
<1>4. Typed'
  BY <1>1, <1>2, <1>3 DEF TypeInv, Typed, Labels, Rooted
<1>5. Bounded'
  BY <1>1 DEF TypeInv, Bounded, Expanding, WithinLimit, Deeper
<1> QED BY <1>1, <1>2, <1>4, <1>5, NoListing DEF TypeInv

\* The rest of the children, behind the one that is visited.
LEMMA RestOfKids ==
  ASSUME Listing, kids # <<>>
  PROVE  /\ Head(kids) \in Entries /\ Append(node.path, Head(kids).name) \in Paths
         /\ Tail(kids) \in Seq(Entries) /\ Ascending(Tail(kids))
         /\ Head(kids) = kids[1] /\ 1 \in DOMAIN kids
         /\ \A i \in DOMAIN Tail(kids) :
              /\ i + 1 \in DOMAIN kids /\ Tail(kids)[i] = kids[i + 1]
              /\ Rank[Head(kids).name] < Rank[Tail(kids)[i].name]
<1>1. /\ kids \in Seq(Entries) /\ DOMAIN kids = 1..Len(kids) /\ Len(kids) \in Nat /\ Len(kids) > 0
  BY EmptySeq, LenProperties DEF Listing
<1>2. /\ Head(kids) \in Entries /\ Tail(kids) \in Seq(Entries) /\ Len(Tail(kids)) = Len(kids) - 1
      /\ \A i \in 1..Len(Tail(kids)) : Tail(kids)[i] = kids[i + 1]
  BY <1>1, HeadTailProperties
<1>3. Head(kids) = kids[1]
  BY <1>1
<1>4. DOMAIN Tail(kids) = 1..(Len(kids) - 1)
  BY <1>2, LenProperties
<1>5. \A i \in DOMAIN Tail(kids) : i + 1 \in DOMAIN kids /\ i \in Nat /\ 1 < i + 1
                                   /\ Tail(kids)[i] = kids[i + 1]
  BY <1>1, <1>2, <1>4
<1>6. 1 \in DOMAIN kids
  BY <1>1
<1>7. \A i \in DOMAIN Tail(kids) : Rank[Head(kids).name] < Rank[Tail(kids)[i].name]
  BY <1>3, <1>5, <1>6 DEF Listing, Ascending
<1>8. Ascending(Tail(kids))
  <2>1. ASSUME NEW i \in DOMAIN Tail(kids), NEW j \in DOMAIN Tail(kids), i < j
        PROVE  Rank[Tail(kids)[i].name] < Rank[Tail(kids)[j].name]
    <3>1. i + 1 < j + 1
      BY <1>5, <2>1
    <3> QED BY <1>5, <3>1 DEF Listing, Ascending
  <2> QED BY <2>1 DEF Ascending
<1> QED BY <1>2, <1>3, <1>5, <1>6, <1>7, <1>8 DEF Listing

LEMMA VisitKidTypes ==
  ASSUME TypeInv, VisitKid
  PROVE  TypeInv'
<1> DEFINE child == Child(Head(kids))
<1>1. /\ pc = "kids" /\ options.order = "breadth" /\ kids # <<>> /\ pc' \in {"kids", "done"}
      /\ UNCHANGED <<tree, options, node, head, unknown, found, failure>>
      /\ kids' = Tail(kids) /\ log' = Append(log, Visited(child, "OK"))
      /\ \/ child.kind = "directory" /\ Deeper(child.depth) /\ pending' = Append(pending, child)
         \/ pending' = pending
  BY DEF VisitKid, Onward, Goto, Finish, RunsOut, Visit, Enters
<1>2. failure = "none" /\ found = {} /\ unknown = {}
  BY <1>1 DEF TypeInv, Typed, Listing
<1>3. /\ Head(kids) \in Entries /\ Append(node.path, Head(kids).name) \in Paths
      /\ Tail(kids) \in Seq(Entries) /\ Ascending(Tail(kids))
      /\ \A i \in DOMAIN Tail(kids) : i + 1 \in DOMAIN kids /\ Tail(kids)[i] = kids[i + 1]
  BY <1>1, RestOfKids DEF TypeInv
<1>4. child \in PathNodes /\ child.depth = node.depth + 1 /\ child.path # Root
  BY <1>3, ChildType DEF TypeInv
<1> HIDE DEF child
<1>5. log' \in Seq(Visits)
  BY <1>1, <1>4, VisitType, AppendProperties DEF TypeInv, Typed
<1>6. /\ pending' \in Seq(PathNodes) /\ head' \in 0..Len(pending')
      /\ \A i \in DOMAIN pending' :
           \/ i \in DOMAIN pending /\ pending'[i] = pending[i]
           \/ pending'[i] = child /\ child.kind = "directory" /\ Deeper(child.depth)
  <2>1. pending \in Seq(PathNodes) /\ head \in 0..Len(pending)
    BY DEF TypeInv, Typed
  <2>2. CASE child.kind = "directory" /\ Deeper(child.depth) /\ pending' = Append(pending, child)
    <3>1. /\ pending' \in Seq(PathNodes) /\ Len(pending') = Len(pending) + 1
          /\ \A i \in 1..Len(pending) : pending'[i] = pending[i]
          /\ pending'[Len(pending) + 1] = child
      BY <1>4, <2>1, <2>2, AppendProperties
    <3>2. Len(pending) \in Nat /\ DOMAIN pending = 1..Len(pending) /\ DOMAIN pending' = 1..Len(pending')
      BY <2>1, <3>1, LenProperties
    <3> QED BY <1>1, <2>1, <2>2, <3>1, <3>2
  <2>3. CASE pending' = pending
    BY <1>1, <2>1, <2>3
  <2> QED BY <1>1, <2>2, <2>3
<1>7. Typed'
  BY <1>1, <1>2, <1>5, <1>6 DEF TypeInv, Typed, Labels, Rooted
<1>8. Listing'
  <2>1. \A i \in DOMAIN kids' : Append(node.path, kids'[i].name) \in Paths
    BY <1>1, <1>3 DEF TypeInv, Listing
  <2>2. Ascending(kids)'
    BY <1>1, <1>3 DEF Ascending
  <2>3. IsFiniteSet({})
    BY FS_EmptySet
  <2> QED BY <1>1, <1>2, <1>3, <2>1, <2>2, <2>3 DEF Listing
<1>9. Bounded'
  <2>1. \A i \in DOMAIN pending' :
          /\ WithinLimit(pending'[i].depth)
          /\ pending'[i].kind = "directory" /\ Deeper(pending'[i].depth)
    <3>1. Deeper(child.depth) => WithinLimit(child.depth)
      BY <1>4, OptionsType, NodeType DEF TypeInv, Deeper, WithinLimit
    <3> QED BY <1>1, <1>6, <3>1 DEF TypeInv, Bounded
  <2> QED BY <1>1, <2>1 DEF TypeInv, Bounded, Expanding, WithinLimit, Deeper
<1> QED BY <1>7, <1>8, <1>9 DEF TypeInv

\* The children as they go onto the stack.
LEMMA Pushed ==
  ASSUME Typed, Listing
  PROVE  LET pushed == PushOrder([i \in DOMAIN kids |-> Child(kids[i])])
             n == Len(kids)
         IN  /\ n \in Nat /\ DOMAIN kids = 1..n /\ pushed \in Seq(PathNodes) /\ Len(pushed) = n
             /\ \A i \in 1..n : n - i + 1 \in 1..n /\ pushed[i] = Child(kids[n - i + 1])
<1> DEFINE n == Len(kids)
           children == [i \in DOMAIN kids |-> Child(kids[i])]
           pushed == PushOrder(children)
<1>1. kids \in Seq(Entries) /\ n \in Nat /\ DOMAIN kids = 1..n
  BY LenProperties DEF Listing
<1>2. \A i \in 1..n : Child(kids[i]) \in PathNodes
  BY <1>1, ChildType, ElementOfSeq DEF Listing
<1> HIDE DEF n
<1>3. children \in [1..n -> PathNodes]
  BY <1>1, <1>2
<1>4. children \in Seq(PathNodes) /\ Len(children) = n
  <2>1. children \in Seq(PathNodes)
    BY <1>1, <1>3, SeqDef
  <2> QED BY <1>1, <1>3, <2>1
<1>5. pushed = [i \in 1..n |-> children[n - i + 1]]
  BY <1>4 DEF PushOrder, PushReversed, Reverse
<1>6. \A i \in 1..n : n - i + 1 \in 1..n
  BY <1>1
<1>7. pushed \in [1..n -> PathNodes]
  BY <1>3, <1>5, <1>6
<1>8. pushed \in Seq(PathNodes) /\ Len(pushed) = n
  <2>1. pushed \in Seq(PathNodes)
    BY <1>1, <1>7, SeqDef
  <2> QED BY <1>1, <1>7, <2>1
<1>9. \A i \in 1..n : pushed[i] = Child(kids[n - i + 1])
  BY <1>1, <1>5, <1>6
<1> QED BY <1>1, <1>6, <1>8, <1>9 DEF n

LEMMA PushKidsTypes ==
  ASSUME TypeInv, PushKids
  PROVE  TypeInv'
<1> DEFINE n == Len(kids)
           pushed == PushOrder([i \in DOMAIN kids |-> Child(kids[i])])
<1>1. /\ pc = "kids" /\ pc' = "kids" /\ options.order = "depth"
      /\ UNCHANGED <<tree, options, node, head, unknown, found, failure, log>>
      /\ pending' = pending \o pushed /\ kids' = <<>>
  BY DEF PushKids, Goto, history
<1>2. failure = "none" /\ found = {} /\ unknown = {}
  BY <1>1 DEF TypeInv, Typed, Listing
<1>3. /\ n \in Nat /\ DOMAIN kids = 1..n /\ pushed \in Seq(PathNodes) /\ Len(pushed) = n
      /\ \A i \in 1..n : n - i + 1 \in 1..n /\ pushed[i] = Child(kids[n - i + 1])
  BY Pushed DEF TypeInv
<1>4. \A i \in 1..n : Child(kids[i]).depth = node.depth + 1 /\ Child(kids[i]).path # Root
  BY <1>3, ChildType, ElementOfSeq DEF TypeInv, Listing
<1> HIDE DEF n, pushed
<1>5. pending \in Seq(PathNodes) /\ Len(pending) \in Nat /\ DOMAIN pending = 1..Len(pending)
  BY LenProperties DEF TypeInv, Typed
<1>6. /\ pending' \in Seq(PathNodes) /\ Len(pending') = Len(pending) + n
      /\ \A i \in 1..(Len(pending) + n) :
           pending'[i] = IF i <= Len(pending) THEN pending[i] ELSE pushed[i - Len(pending)]
  BY <1>1, <1>3, <1>5, ConcatProperties
<1>7. DOMAIN pending' = 1..(Len(pending) + n)
  BY <1>6, LenProperties
<1>8. \A i \in DOMAIN pending' :
        \/ i \in DOMAIN pending /\ pending'[i] = pending[i]
        \/ pending'[i].depth = node.depth + 1 /\ pending'[i].path # Root
  <2> SUFFICES ASSUME NEW i \in DOMAIN pending', ~(i <= Len(pending))
               PROVE  pending'[i].depth = node.depth + 1 /\ pending'[i].path # Root
    BY <1>5, <1>6, <1>7
  <2>1. i - Len(pending) \in 1..n /\ pending'[i] = pushed[i - Len(pending)]
    BY <1>3, <1>5, <1>6, <1>7
  <2> QED BY <1>3, <1>4, <2>1
<1>9. Typed'
  <2>1. head' \in 0..Len(pending')
    BY <1>1, <1>3, <1>5, <1>6 DEF TypeInv, Typed
  <2> QED BY <1>1, <1>2, <1>6, <2>1 DEF TypeInv, Typed, Labels, Rooted
<1>10. Bounded'
  <2>1. WithinLimit(node.depth + 1)
    BY <1>1, OptionsType, NodeType DEF TypeInv, Typed, Bounded, Expanding, WithinLimit, Deeper
  <2>2. \A i \in DOMAIN pending' :
          /\ WithinLimit(pending'[i].depth)
          /\ pending'[i].path = Root => pending'[i].kind = "directory" /\ Deeper(pending'[i].depth)
    BY <1>1, <1>8, <2>1 DEF TypeInv, Bounded
  <2>3. options.order # "breadth"
    BY <1>1
  <2> QED BY <1>1, <2>2, <2>3 DEF TypeInv, Bounded, Expanding, WithinLimit, Deeper
<1> QED BY <1>1, <1>2, <1>9, <1>10, NoListing DEF TypeInv

LEMMA RestTypes ==
  ASSUME TypeInv, KidsDone \/ RunOut
  PROVE  TypeInv'
<1>1. /\ pc = "kids" /\ pc' \in {"next", "done"}
      /\ UNCHANGED <<tree, options, node, pending, head, unknown, found, kids, failure, log>>
      /\ pc' = "next" => kids = <<>>
  BY DEF KidsDone, RunOut, RunsOut, Goto, Finish, history
<1>2. Typed'
  BY <1>1 DEF TypeInv, Typed, Labels, Rooted
<1>3. Listing'
  BY <1>1, ListingKept DEF TypeInv, Listing
<1>4. Bounded'
  BY <1>1, BoundedKept DEF TypeInv, Expanding
<1> QED BY <1>2, <1>3, <1>4 DEF TypeInv

\* Others keep the tree together: they delete what is empty and create in
\* directories.
LEMMA OutsideTypes ==
  ASSUME TypeInv, Outside
  PROVE  TypeInv'
<1>1. PICK p \in Paths, thing \in Things :
        /\ tree' = [tree EXCEPT ![p] = thing]
        /\ UNCHANGED <<walkVars, log>>
        /\ \/ /\ thing = "none" /\ \A n \in Names : Append(p, n) \in Paths => tree[Append(p, n)] = "none"
           \/ tree[p] = "none" /\ (p = Root \/ tree[Front(p)] = "directory")
  <2>1. CASE \E p \in Paths : Delete(p)
    BY <2>1 DEF Delete, Change, Things
  <2>2. CASE \E p \in Paths, thing \in Creatable : Create(p, thing)
    BY <2>2, TreeAssumption DEF Create, Change
  <2> QED BY <2>1, <2>2 DEF Outside
<1>2. tree \in [Paths -> Things] /\ Rooted(tree)
  BY DEF TypeInv, Typed
<1>3. /\ tree' \in [Paths -> Things]
      /\ \A q \in Paths : tree'[q] = IF q = p THEN thing ELSE tree[q]
  BY <1>1, <1>2
<1>4. Rooted(tree')
  <2> SUFFICES ASSUME NEW q \in Paths \ {Root}, tree'[q] # "none"
               PROVE  tree'[Front(q)] = "directory"
    BY DEF Rooted
  <2>1. /\ Front(q) \in Paths /\ Last(q) \in Names /\ q = Append(Front(q), Last(q))
        /\ Front(q) # q
    BY TreeAssumption, FrontLast, PathLen
  <2>2. CASE thing = "none" /\ \A n \in Names : Append(p, n) \in Paths => tree[Append(p, n)] = "none"
    <3>1. q # p /\ tree[q] # "none"
      BY <1>3, <2>2
    <3>2. Front(q) # p
      BY <2>1, <2>2, <3>1
    <3> QED BY <1>2, <1>3, <2>1, <3>1, <3>2 DEF Rooted
  <2>3. CASE tree[p] = "none" /\ (p = Root \/ tree[Front(p)] = "directory")
    <3>1. CASE q = p
      BY <1>3, <2>1, <2>3, <3>1
    <3>2. CASE q # p
      <4>1. tree[Front(q)] = "directory"
        BY <1>2, <1>3, <3>2 DEF Rooted
      <4> QED BY <1>3, <2>1, <2>3, <4>1
    <3> QED BY <3>1, <3>2
  <2> QED BY <1>1, <2>2, <2>3
<1>5. UNCHANGED <<options, pc, node, pending, head, unknown, found, kids, failure, log>>
  BY <1>1 DEF walkVars
<1>6. Typed'
  BY <1>3, <1>4, <1>5 DEF TypeInv, Typed
<1>7. Listing'
  BY <1>5 DEF TypeInv, Listing, Ascending
<1>8. Bounded'
  BY <1>5 DEF TypeInv, Bounded, WithinLimit, Deeper
<1> QED BY <1>6, <1>7, <1>8 DEF TypeInv

LEMMA InitTypes == Init => TypeInv
<1> SUFFICES ASSUME Init PROVE TypeInv
  OBVIOUS
<1>1. Root \in Paths /\ Len(Root) = 0 /\ "directory" \in Kinds
  BY TreeAssumption DEF Root, Kinds
<1>2. node \in PathNodes /\ node.path = Root
  BY <1>1, NodeOf DEF Init, NoNode
<1>3. <<>> \in Seq(PathNodes) /\ <<>> \in Seq(Entries) /\ <<>> \in Seq(Visits)
  BY EmptySeq
<1>4. Typed
  BY <1>2, <1>3, TreeAssumption DEF Init, Typed, Labels
<1>5. Listing
  BY <1>3, FS_EmptySet DEF Init, Listing, Ascending
<1>6. Bounded
  BY <1>2 DEF Init, Bounded, Expanding
<1> QED BY <1>4, <1>5, <1>6 DEF TypeInv

LEMMA StepTypes ==
  ASSUME TypeInv, Step
  PROVE  TypeInv'
BY InspectRootTypes, VisitRootTypes, TakeFirstTypes, TakeLastTypes, VisitNodeTypes, ReadTypes,
   LstatTypes, ReportFailureTypes, VisitKidTypes, PushKidsTypes, RestTypes DEF Step

-----------------------------------------------------------------------------
(* One more visit                                                          *)

LEMMA LogType ==
  ASSUME NEW l \in Seq(Visits)
  PROVE  /\ Len(l) \in Nat /\ DOMAIN l = 1..Len(l)
         /\ \A k \in DOMAIN l : l[k] \in Visits /\ l[k].path \in Paths /\ l[k].path \in Seq(Names)
<1>1. \A v \in Visits : v.path \in Paths /\ v.path \in Seq(Names)
  BY TreeAssumption DEF Visits
<1>2. Len(l) \in Nat /\ DOMAIN l = 1..Len(l) /\ \A k \in 1..Len(l) : l[k] \in Visits
  BY LenProperties, ElementOfSeq
<1> QED BY <1>1, <1>2

LEMMA OneMore ==
  ASSUME NEW l \in Seq(Visits), NEW w \in Visits
  PROVE  /\ Append(l, w) \in Seq(Visits) /\ Len(Append(l, w)) = Len(l) + 1
         /\ Len(l) \in Nat /\ DOMAIN l = 1..Len(l) /\ DOMAIN Append(l, w) = 1..(Len(l) + 1)
         /\ \A k \in 1..Len(l) : Append(l, w)[k] = l[k]
         /\ Append(l, w)[Len(l) + 1] = w
         /\ \A k \in DOMAIN Append(l, w) :
              \/ k \in DOMAIN l /\ Append(l, w)[k] = l[k]
              \/ k = Len(l) + 1 /\ Append(l, w)[k] = w
         /\ \A k \in DOMAIN l : k \in DOMAIN Append(l, w) /\ Append(l, w)[k] = l[k]
<1>1. /\ Append(l, w) \in Seq(Visits) /\ Len(Append(l, w)) = Len(l) + 1
      /\ \A k \in 1..Len(l) : Append(l, w)[k] = l[k] /\ Append(l, w)[Len(l) + 1] = w
  BY AppendProperties
<1>2. Len(l) \in Nat /\ DOMAIN l = 1..Len(l) /\ DOMAIN Append(l, w) = 1..(Len(l) + 1)
  BY <1>1, LenProperties
<1>3. \A k \in 1..(Len(l) + 1) : k \in 1..Len(l) \/ k = Len(l) + 1
  BY <1>2
<1>4. Append(l, w)[Len(l) + 1] = w
  BY AppendProperties
<1> QED BY <1>1, <1>2, <1>3, <1>4

LEMMA Grown ==
  ASSUME NEW l \in Seq(Visits), NEW w \in Visits
  PROVE  /\ \A p : SeenAsDirectory(l, p) => SeenAsDirectory(Append(l, w), p)
         /\ \A p : NotReported(l, p) /\ (Good(w) \/ w.path # p) => NotReported(Append(l, w), p)
         /\ \A p : AllBefore(l, p) /\ Precedes(w.path, p) => AllBefore(Append(l, w), p)
<1> DEFINE m == Append(l, w)
<1>1. /\ \A k \in DOMAIN m : (k \in DOMAIN l /\ m[k] = l[k]) \/ m[k] = w
      /\ \A k \in DOMAIN l : k \in DOMAIN m /\ m[k] = l[k]
  BY OneMore
<1> HIDE DEF m
<1>2. \A p : SeenAsDirectory(l, p) => SeenAsDirectory(m, p)
  BY <1>1 DEF SeenAsDirectory
<1>3. \A p : NotReported(l, p) /\ (Good(w) \/ w.path # p) => NotReported(m, p)
  BY <1>1 DEF NotReported
<1>4. \A p : AllBefore(l, p) /\ Precedes(w.path, p) => AllBefore(m, p)
  BY <1>1 DEF AllBefore
<1> QED BY <1>2, <1>3, <1>4 DEF m

Goals == VisitsInOrder /\ VisitsReached /\ SecondVisits

LEMMA SameLog ==
  ASSUME Goals, UNCHANGED <<log, options>>
  PROVE  Goals'
BY DEF Goals, VisitsInOrder, VisitsReached, SecondVisits, InOrder, Deeper

\* A first visit that comes after all others, of what was reached.
LEMMA FirstVisit ==
  ASSUME Typed, Goals, UNCHANGED options, NEW w \in Visits, Good(w), log' = Append(log, w),
         \A k \in DOMAIN log : Good(log[k]) => InOrder(log[k].path, w.path),
         w.depth = Len(w.path), WithinLimit(w.depth),
         w.path # Root => Reached(log, w.path)
  PROVE  Goals'
<1> DEFINE n == Len(log) + 1
<1>1. /\ log \in Seq(Visits) /\ n \in Nat /\ DOMAIN log = 1..(n - 1) /\ DOMAIN log' = 1..n
      /\ \A k \in 1..(n - 1) : log'[k] = log[k]
      /\ log'[n] = w
  <2>1. log \in Seq(Visits)
    BY DEF Typed
  <2>2. /\ Len(log) \in Nat /\ DOMAIN log = 1..Len(log) /\ DOMAIN log' = 1..(Len(log) + 1)
        /\ \A k \in 1..Len(log) : log'[k] = log[k]
        /\ log'[Len(log) + 1] = w
    BY <2>1, OneMore
  <2> QED BY <2>1, <2>2
<1> HIDE DEF n
<1>2. VisitsInOrder'
  <2>1. ASSUME NEW i \in DOMAIN log', NEW j \in DOMAIN log', i < j, Good(log'[i]), Good(log'[j])
        PROVE  InOrder(log'[i].path, log'[j].path)
    <3>1. i \in DOMAIN log /\ log'[i] = log[i]
      BY <1>1, <2>1
    <3>2. CASE j = n
      BY <1>1, <2>1, <3>1, <3>2
    <3>3. CASE j # n
      <4>1. j \in DOMAIN log /\ log'[j] = log[j]
        BY <1>1, <3>3
      <4> QED BY <2>1, <3>1, <4>1 DEF Goals, VisitsInOrder
    <3> QED BY <3>2, <3>3
  <2> QED BY <2>1 DEF VisitsInOrder, InOrder
<1>3. VisitsReached'
  <2>1. ASSUME NEW j \in DOMAIN log'
        PROVE  /\ log'[j].depth = Len(log'[j].path) /\ WithinLimit(log'[j].depth)
               /\ log'[j].path # Root =>
                    /\ \E i \in 1..(j - 1) : /\ Good(log'[i]) /\ log'[i].path = Front(log'[j].path)
                                             /\ log'[i].kind = "directory"
                    /\ \A i \in DOMAIN log' : log'[i].path = Front(log'[j].path) => Good(log'[i])
    <3>1. CASE j = n
      BY <1>1, <3>1 DEF Reached, SeenAsDirectory, NotReported
    <3>2. CASE j # n
      <4>1. j \in DOMAIN log /\ log'[j] = log[j] /\ \A i \in 1..(j - 1) : i \in DOMAIN log /\ log'[i] = log[i]
        BY <1>1, <3>2
      <4>2. /\ log[j].depth = Len(log[j].path) /\ WithinLimit(log[j].depth)
            /\ log[j].path # Root =>
                 /\ \E i \in 1..(j - 1) : /\ Good(log[i]) /\ log[i].path = Front(log[j].path)
                                          /\ log[i].kind = "directory"
                 /\ \A i \in DOMAIN log : log[i].path = Front(log[j].path) => Good(log[i])
        BY <4>1 DEF Goals, VisitsReached, WithinLimit
      <4> QED BY <1>1, <4>1, <4>2
    <3> QED BY <3>1, <3>2
  <2> QED BY <2>1 DEF VisitsReached, WithinLimit
<1>4. SecondVisits'
  <2>1. ASSUME NEW j \in DOMAIN log', ~Good(log'[j])
        PROVE  /\ log'[j].kind = "directory" /\ Deeper(log'[j].depth)
               /\ options.order = "depth" => j > 1 /\ log'[j - 1] = Visited(log'[j], "OK")
               /\ \E i \in 1..(j - 1) : log'[i] = Visited(log'[j], "OK")
               /\ \A i \in 1..(j - 1) : log'[i].path = log'[j].path => Good(log'[i])
    <3>1. j \in DOMAIN log /\ log'[j] = log[j] /\ \A i \in 1..(j - 1) : i \in DOMAIN log /\ log'[i] = log[i]
      BY <1>1, <2>1
    <3>2. /\ log[j].kind = "directory" /\ Deeper(log[j].depth)
          /\ options.order = "depth" => j > 1 /\ log[j - 1] = Visited(log[j], "OK")
          /\ \E i \in 1..(j - 1) : log[i] = Visited(log[j], "OK")
          /\ \A i \in 1..(j - 1) : log[i].path = log[j].path => Good(log[i])
      BY <2>1, <3>1 DEF Goals, SecondVisits
    <3>3. j > 1 => j - 1 \in 1..(j - 1)
      BY <1>1
    <3> QED BY <3>1, <3>2, <3>3
  <2> QED BY <2>1 DEF SecondVisits, Deeper
<1> QED BY <1>2, <1>3, <1>4 DEF Goals

\* A second visit, of a directory nothing below which was visited.
LEMMA SecondVisit ==
  ASSUME Typed, Goals, UNCHANGED options, NEW w \in Visits, ~Good(w), log' = Append(log, w),
         w.kind = "directory", Deeper(w.depth),
         \E k \in DOMAIN log : log[k] = Visited(w, "OK"),
         options.order = "depth" => Len(log) > 0 /\ log[Len(log)] = Visited(w, "OK"),
         NotReported(log, w.path),
         \A k \in DOMAIN log : log[k].path # Root => Front(log[k].path) # w.path
  PROVE  Goals'
<1> DEFINE n == Len(log) + 1
<1>1. /\ log \in Seq(Visits) /\ n \in Nat /\ DOMAIN log = 1..(n - 1) /\ DOMAIN log' = 1..n
      /\ \A k \in 1..(n - 1) : log'[k] = log[k]
      /\ log'[n] = w /\ Len(log) = n - 1
  <2>1. log \in Seq(Visits)
    BY DEF Typed
  <2>2. /\ Len(log) \in Nat /\ DOMAIN log = 1..Len(log) /\ DOMAIN log' = 1..(Len(log) + 1)
        /\ \A k \in 1..Len(log) : log'[k] = log[k]
        /\ log'[Len(log) + 1] = w
    BY <2>1, OneMore
  <2> QED BY <2>1, <2>2
<1>2. PICK f \in DOMAIN log : log[f] = Visited(w, "OK")
  OBVIOUS
<1>3. /\ log[f].path = w.path /\ log[f].depth = w.depth
  BY <1>2 DEF Visited
<1> HIDE DEF n
<1>4. VisitsInOrder'
  <2>1. ASSUME NEW i \in DOMAIN log', NEW j \in DOMAIN log', i < j, Good(log'[i]), Good(log'[j])
        PROVE  InOrder(log'[i].path, log'[j].path)
    <3>1. i \in DOMAIN log /\ log'[i] = log[i] /\ j \in DOMAIN log /\ log'[j] = log[j]
      BY <1>1, <2>1
    <3> QED BY <2>1, <3>1 DEF Goals, VisitsInOrder
  <2> QED BY <2>1 DEF VisitsInOrder, InOrder
<1>5. \A j \in DOMAIN log : 
        /\ log[j].depth = Len(log[j].path) /\ WithinLimit(log[j].depth)
        /\ log[j].path # Root =>
             /\ \E i \in 1..(j - 1) : /\ Good(log[i]) /\ log[i].path = Front(log[j].path)
                                      /\ log[i].kind = "directory"
             /\ \A i \in DOMAIN log : log[i].path = Front(log[j].path) => Good(log[i])
  BY DEF Goals, VisitsReached, WithinLimit
<1>6. w.path # Root => Front(w.path) # w.path
  <2>1. w.path \in Seq(Names)
    BY <1>1, <1>3, LogType
  <2> QED BY <2>1, FrontLast, PathLen
<1>7. VisitsReached'
  <2>1. ASSUME NEW j \in DOMAIN log'
        PROVE  /\ log'[j].depth = Len(log'[j].path) /\ WithinLimit(log'[j].depth)
               /\ log'[j].path # Root =>
                    /\ \E i \in 1..(j - 1) : /\ Good(log'[i]) /\ log'[i].path = Front(log'[j].path)
                                             /\ log'[i].kind = "directory"
                    /\ \A i \in DOMAIN log' : log'[i].path = Front(log'[j].path) => Good(log'[i])
    <3>1. CASE j = n
      <4>1. /\ w.depth = Len(w.path) /\ WithinLimit(w.depth)
            /\ w.path # Root =>
                 /\ \E i \in 1..(f - 1) : /\ Good(log[i]) /\ log[i].path = Front(w.path)
                                          /\ log[i].kind = "directory"
                 /\ \A i \in DOMAIN log : log[i].path = Front(w.path) => Good(log[i])
        BY <1>3, <1>5
      <4>2. \A i \in 1..(f - 1) : i \in 1..(n - 1) /\ log'[i] = log[i]
        BY <1>1
      <4>3. \A i \in DOMAIN log' : (i \in DOMAIN log /\ log'[i] = log[i]) \/ log'[i] = w
        BY <1>1
      <4> QED BY <1>1, <1>6, <3>1, <4>1, <4>2, <4>3
    <3>2. CASE j # n
      <4>1. j \in DOMAIN log /\ log'[j] = log[j] /\ \A i \in 1..(j - 1) : i \in DOMAIN log /\ log'[i] = log[i]
        BY <1>1, <3>2
      <4>2. \A i \in DOMAIN log' : (i \in DOMAIN log /\ log'[i] = log[i]) \/ log'[i] = w
        BY <1>1
      <4> QED BY <1>5, <4>1, <4>2
    <3> QED BY <3>1, <3>2
  <2> QED BY <2>1 DEF VisitsReached, WithinLimit
<1>8. SecondVisits'
  <2>1. ASSUME NEW j \in DOMAIN log', ~Good(log'[j])
        PROVE  /\ log'[j].kind = "directory" /\ Deeper(log'[j].depth)
               /\ options.order = "depth" => j > 1 /\ log'[j - 1] = Visited(log'[j], "OK")
               /\ \E i \in 1..(j - 1) : log'[i] = Visited(log'[j], "OK")
               /\ \A i \in 1..(j - 1) : log'[i].path = log'[j].path => Good(log'[i])
    <3>1. CASE j = n
      <4>1. \A i \in 1..(j - 1) : i \in DOMAIN log /\ log'[i] = log[i]
        BY <1>1, <3>1
      <4>2. options.order = "depth" => j > 1 /\ log'[j - 1] = Visited(w, "OK")
        BY <1>1, <3>1
      <4>3. \E i \in 1..(j - 1) : log'[i] = Visited(w, "OK")
        BY <1>1, <1>2, <3>1
      <4> QED BY <1>1, <3>1, <4>1, <4>2, <4>3 DEF NotReported
    <3>2. CASE j # n
      <4>1. j \in DOMAIN log /\ log'[j] = log[j] /\ \A i \in 1..(j - 1) : i \in DOMAIN log /\ log'[i] = log[i]
        BY <1>1, <3>2
      <4>2. /\ log[j].kind = "directory" /\ Deeper(log[j].depth)
            /\ options.order = "depth" => j > 1 /\ log[j - 1] = Visited(log[j], "OK")
            /\ \E i \in 1..(j - 1) : log[i] = Visited(log[j], "OK")
            /\ \A i \in 1..(j - 1) : log[i].path = log[j].path => Good(log[i])
        BY <2>1, <4>1 DEF Goals, SecondVisits
      <4>3. j > 1 => j - 1 \in 1..(j - 1)
        BY <1>1
      <4> QED BY <4>1, <4>2, <4>3
    <3> QED BY <3>1, <3>2
  <2> QED BY <2>1 DEF SecondVisits, Deeper
<1> QED BY <1>4, <1>7, <1>8 DEF Goals

-----------------------------------------------------------------------------
(* Every step keeps the order                                              *)

Inv == TypeInv /\ OrderInv

LEMMA OrderFacts ==
  ASSUME Inv
  PROVE  /\ Typed /\ Listing /\ Bounded /\ Goals /\ OrderInv
         /\ log \in Seq(Visits) /\ pending \in Seq(PathNodes) /\ node \in PathNodes
         /\ head \in Nat /\ Len(pending) \in Nat /\ head <= Len(pending)
         /\ DOMAIN pending = 1..Len(pending)
         /\ \A i \in DOMAIN pending : pending[i] \in PathNodes /\ pending[i].path \in Seq(Names)
         /\ node.path \in Seq(Names) /\ node.path \in Paths
<1>1. pending \in Seq(PathNodes) /\ node \in PathNodes /\ head \in 0..Len(pending)
  BY DEF Inv, TypeInv, Typed
<1>2. Len(pending) \in Nat /\ DOMAIN pending = 1..Len(pending)
  BY <1>1, LenProperties
<1>3. \A i \in DOMAIN pending : pending[i] \in PathNodes
  BY <1>1, <1>2, ElementOfSeq
<1>4. \A i \in DOMAIN pending : pending[i].path \in Seq(Names)
  BY <1>3, NodeType
<1> QED BY <1>1, <1>2, <1>3, <1>4, NodeType DEF Inv, TypeInv, Typed, OrderInv, Goals

\* A step that visits nothing and takes no node.
LEMMA QuietOrder ==
  ASSUME Inv, UNCHANGED <<options, node, pending, head, kids, log>>,
         pc' = pc \/ (pc \in Looking /\ pc' \in Looking) \/ pc' \in {"next", "done"}
  PROVE  OrderInv'
<1>1. Goals'
  BY OrderFacts, SameLog
<1>2. ASSUME options.order = "depth" PROVE DepthInv'
  BY <1>2 DEF Inv, OrderInv, DepthInv, Looking
<1>3. ASSUME options.order = "breadth" PROVE BreadthInv'
  <2>1. BreadthInv
    BY <1>3 DEF Inv, OrderInv
  <2>2. /\ pc \in Looking /\ pc' \notin Looking => 1..(head - 1) \subseteq 1..head
        /\ pc \in Expanding /\ pc' \notin Expanding => 1..(head - 1) \subseteq 1..head
        /\ pc' \in Looking => pc \in Looking
        /\ pc' \in Expanding => pc \in Expanding
    BY OrderFacts DEF Looking, Expanding
  <2>3. \A k \in DOMAIN log : log[k].path # Root =>
          \E i \in 1..(IF pc' \in Looking THEN head - 1 ELSE head) :
            pending[i].path = Front(log[k].path)
    BY <2>1, <2>2 DEF BreadthInv
  <2>4. \A k \in DOMAIN log : ~Good(log[k]) =>
          \E i \in 1..(IF pc' \in Expanding THEN head - 1 ELSE head) : pending[i].path = log[k].path
    BY <2>1, <2>2 DEF BreadthInv
  <2>5. pc' = "kids" => pc = "kids"
    BY DEF Looking
  <2> QED BY <2>1, <2>2, <2>3, <2>4, <2>5 DEF BreadthInv
<1> QED BY <1>1, <1>2, <1>3 DEF OrderInv, Goals

\* Nothing visited so far is of a failure at the node at work.
LEMMA NotYetReported ==
  ASSUME Inv, pc \in Expanding
  PROVE  SeenAsDirectory(log, node.path) /\ NotReported(log, node.path)
         /\ \E k \in DOMAIN log : log[k].path = node.path
<1>0. /\ log \in Seq(Visits) /\ node \in PathNodes /\ node.kind = "directory"
      /\ node.path \in Seq(Names)
  BY OrderFacts DEF Bounded
<1>a. /\ Len(log) \in Nat /\ DOMAIN log = 1..Len(log)
      /\ \A k \in DOMAIN log : log[k].path \in Seq(Names)
  BY <1>0, LogType
<1>b. /\ Visited(node, "OK").path = node.path /\ Visited(node, "OK").kind = "directory"
      /\ Good(Visited(node, "OK"))
  BY <1>0 DEF Visited, Good
<1>1. CASE options.order = "depth" /\ pc = "kids"
  BY <1>1 DEF Inv, OrderInv, DepthInv, SeenAsDirectory
<1>2. CASE options.order = "depth" /\ pc \in Looking
  <2>1. JustVisited(log, node)
    BY <1>2 DEF Inv, OrderInv, DepthInv
  <2>2. Len(log) \in DOMAIN log /\ log[Len(log)] = Visited(node, "OK")
    BY <1>a, <2>1 DEF JustVisited
  <2>3. \A k \in DOMAIN log : k # Len(log) => log[k].path # node.path
    <3>1. \A k \in DOMAIN log : k # Len(log) => k \in 1..(Len(log) - 1)
      BY <1>a
    <3> QED BY <1>0, <1>a, <2>1, <3>1, NeverBothWays DEF JustVisited
  <2> QED BY <1>b, <2>2, <2>3 DEF SeenAsDirectory, NotReported
<1>3. CASE options.order = "breadth"
  <2>1. BreadthInv /\ head > 0 /\ node = pending[head]
    BY <1>3 DEF Inv, OrderInv, BreadthInv
  <2>2. head \in DOMAIN pending
    BY <2>1, OrderFacts
  <2>3. \E k \in DOMAIN log : log[k] = Visited(node, "OK")
    BY <2>1, <2>2 DEF BreadthInv
  <2>4. \A i \in 1..(head - 1) : pending[i].path # node.path
    <3>1. \A i \in 1..(head - 1) : i \in DOMAIN pending /\ i < head
      BY <2>1, OrderFacts
    <3>2. \A i \in 1..(head - 1) : Level(pending[i].path, node.path)
      BY <2>1, <2>2, <3>1 DEF BreadthInv, Rising
    <3> QED BY <1>0, <3>1, <3>2, LevelOneWay, OrderFacts
  <2>5. \A k \in DOMAIN log : ~Good(log[k]) => log[k].path # node.path
    BY <2>1, <2>4 DEF BreadthInv
  <2> QED BY <1>b, <2>3, <2>5 DEF SeenAsDirectory, NotReported
<1> QED BY <1>1, <1>2, <1>3, OptionsType, OrderFacts DEF Expanding, Looking

\* The entries of the node at work are known.
LEMMA KidsOrder ==
  ASSUME Inv, pc \in {"read", "lstat"}, pc' = "kids",
         UNCHANGED <<options, node, pending, head, log>>
  PROVE  OrderInv'
<1>1. Goals'
  BY OrderFacts, SameLog
<1>2. SeenAsDirectory(log, node.path) /\ NotReported(log, node.path)
  BY NotYetReported DEF Expanding
<1>3. ASSUME options.order = "depth" PROVE DepthInv'
  <2>1. DepthInv /\ JustVisited(log, node)
    BY <1>3 DEF Inv, OrderInv, DepthInv, Looking
  <2>2. \A k \in DOMAIN log : log[k].path = node.path \/ Precedes(log[k].path, node.path)
    <3>1. Len(log) \in Nat /\ DOMAIN log = 1..Len(log)
      BY OrderFacts, LogType
    <3>2. \A k \in DOMAIN log : k = Len(log) \/ k \in 1..(Len(log) - 1)
      BY <3>1
    <3> QED BY <2>1, <3>2 DEF JustVisited, Visited
  <2> QED BY <1>2, <2>1, <2>2 DEF DepthInv, Looking
<1>4. ASSUME options.order = "breadth" PROVE BreadthInv'
  <2>1. BreadthInv /\ head > 0 /\ node = pending[head] /\ pc \in Looking /\ pc \in Expanding
    BY <1>4 DEF Inv, OrderInv, BreadthInv, Looking, Expanding
  <2>2. head \in DOMAIN pending /\ 1..(head - 1) \subseteq 1..head
        /\ \A i \in 1..(head - 1) : i \in DOMAIN pending /\ i < head
    BY <2>1, OrderFacts
  <2>3. \A i \in 1..(head - 1) : pending[i].path # node.path
    <3>1. \A i \in 1..(head - 1) : Level(pending[i].path, node.path)
      BY <2>1, <2>2 DEF BreadthInv, Rising
    <3> QED BY <2>2, <3>1, LevelOneWay, OrderFacts
  <2>4. \A k \in DOMAIN log : log[k].path # Root => Front(log[k].path) # node.path
    BY <2>1, <2>3 DEF BreadthInv
  <2>5. \A k \in DOMAIN log : log[k].path # Root =>
          \E i \in 1..head : pending[i].path = Front(log[k].path)
    BY <2>1, <2>2 DEF BreadthInv
  <2> QED BY <2>1, <2>4, <2>5 DEF BreadthInv, Looking, Expanding
<1> QED BY <1>1, <1>3, <1>4 DEF OrderInv, Goals

LEMMA InspectRootOrder ==
  ASSUME Inv, InspectRoot
  PROVE  OrderInv'
<1>1. /\ pc = "inspect" /\ pc' \in {"root", "done"}
      /\ UNCHANGED <<options, pending, head, kids, log>>
  BY DEF InspectRoot, Goto, Finish, history
<1>2. pending = <<>> /\ log = <<>>
  BY <1>1, OrderFacts DEF Bounded
<1>3. Goals'
  BY <1>1, OrderFacts, SameLog
<1>4. DepthInv'
  BY <1>1, <1>2 DEF DepthInv, Falling, Looking
<1>5. BreadthInv'
  BY <1>1, <1>2 DEF BreadthInv, Rising, Expanding
<1> QED BY <1>3, <1>4, <1>5 DEF OrderInv, Goals

LEMMA VisitRootOrder ==
  ASSUME Inv, VisitRoot
  PROVE  OrderInv'
<1> DEFINE w == Visited(node, "OK")
<1>1. /\ pc = "root" /\ pc' \in {"next", "done"} /\ UNCHANGED <<options, node, head, kids>>
      /\ log' = Append(log, w) /\ pending' \in {<<node>>, pending}
  BY DEF VisitRoot, Onward, Goto, Finish, RunsOut, Visit
<1>2. /\ log = <<>> /\ pending = <<>> /\ node.path = Root /\ node \in PathNodes
      /\ node.depth = Len(node.path) /\ node.depth = 0
  BY <1>1, OrderFacts, NodeType DEF Bounded
<1>3. w \in Visits /\ w.path = Root /\ Good(w) /\ w.depth = Len(w.path) /\ WithinLimit(w.depth)
  <2>1. w \in Visits /\ w.path = node.path /\ w.depth = node.depth /\ Good(w)
    BY <1>2, VisitType
  <2>2. WithinLimit(0)
    BY OptionsType, OrderFacts DEF WithinLimit
  <2> HIDE DEF w
  <2> QED BY <1>2, <2>1, <2>2
<1>4. Goals'
  BY <1>1, <1>2, <1>3, FirstVisit, OrderFacts
<1>5. log' = <<w>>
  BY <1>1, <1>2
<1> HIDE DEF w
<1>6. /\ DOMAIN log' = {1} /\ log'[1] = w
  BY <1>5
<1>7. \A i \in DOMAIN pending' : i = 1 /\ pending'[i] = node
  BY <1>1, <1>2
<1>8. DepthInv'
  <2>1. Falling(pending')
    BY <1>7 DEF Falling
  <2>2. \A i \in DOMAIN pending' : Waiting(log', pending'[i])
    BY <1>2, <1>5, <1>7 DEF Waiting, w
  <2> QED BY <1>1, <2>1, <2>2 DEF DepthInv, Looking
<1>9. BreadthInv'
  <2>1. Rising(pending')
    BY <1>7 DEF Rising
  <2>2. \A i \in DOMAIN pending' : \E k \in DOMAIN log' : log'[k] = Visited(pending'[i], "OK")
    BY <1>6, <1>7 DEF w
  <2> QED BY <1>1, <1>3, <1>6, <2>1, <2>2 DEF BreadthInv, Expanding
<1> QED BY <1>4, <1>8, <1>9 DEF OrderInv, Goals

LEMMA TakeFirstOrder ==
  ASSUME Inv, TakeFirst
  PROVE  OrderInv'
<1>1. /\ pc = "next" /\ options.order = "breadth"
      /\ UNCHANGED <<options, pending, kids, log>>
      /\ \/ /\ head < Len(pending) /\ node' = pending[head + 1]
            /\ head' = head + 1 /\ pc' = "read"
         \/ pc' = "done" /\ UNCHANGED <<node, head>>
  BY DEF TakeFirst, Goto, Finish, history
<1>2. CASE pc' = "done" /\ UNCHANGED <<node, head>>
  BY <1>1, <1>2, QuietOrder
<1>3. CASE head < Len(pending) /\ node' = pending[head + 1] /\ head' = head + 1 /\ pc' = "read"
  <2>1. BreadthInv /\ head \in Nat
    BY <1>1, OrderFacts DEF OrderInv
  <2>2. Goals'
    BY <1>1, SameLog, OrderFacts
  <2>3. head' - 1 = head /\ head' > 0 /\ node' = pending'[head'] /\ pc' \in Looking /\ pc' \in Expanding
    BY <1>1, <1>3, <2>1 DEF Looking, Expanding
  <2>4. pc \notin Looking /\ pc \notin Expanding
    BY <1>1 DEF Looking, Expanding
  <2>5. BreadthInv'
    BY <1>1, <1>3, <2>1, <2>3, <2>4 DEF BreadthInv
  <2> QED BY <1>1, <2>2, <2>5 DEF OrderInv, Goals
<1> QED BY <1>1, <1>2, <1>3

LEMMA TakeLastOrder ==
  ASSUME Inv, TakeLast
  PROVE  OrderInv'
<1>1. /\ pc = "next" /\ options.order = "depth"
      /\ UNCHANGED <<options, head, kids, log>>
      /\ \/ /\ pending # <<>> /\ node' = Last(pending) /\ pending' = Front(pending)
            /\ pc' = IF node'.depth > 0 THEN "visit" ELSE "read"
         \/ pc' = "done" /\ UNCHANGED <<node, pending>>
  BY DEF TakeLast, Goto, Finish, history
<1>2. CASE pc' = "done" /\ UNCHANGED <<node, pending>>
  BY <1>1, <1>2, QuietOrder
<1>3. CASE /\ pending # <<>> /\ node' = Last(pending) /\ pending' = Front(pending)
           /\ pc' = IF node'.depth > 0 THEN "visit" ELSE "read"
  <2> DEFINE n == Len(pending)
  <2>1. /\ n \in DOMAIN pending /\ node' = pending[n] /\ node' \in PathNodes /\ n \in Nat
        /\ DOMAIN pending = 1..n
        /\ DOMAIN pending' = 1..(n - 1) /\ \A i \in 1..(n - 1) : pending'[i] = pending[i]
    <3>1. /\ Last(pending) \in PathNodes
          /\ n \in Nat /\ n > 0 /\ DOMAIN pending = 1..n
          /\ DOMAIN Front(pending) = 1..(n - 1)
          /\ \A i \in 1..(n - 1) : Front(pending)[i] = pending[i]
          /\ Last(pending) = pending[n]
      BY <1>3, OrderFacts, Popped
    <3> QED BY <1>3, <3>1
  <2> HIDE DEF n
  <2>2. DepthInv /\ Falling(pending) /\ \A i \in DOMAIN pending : Waiting(log, pending[i])
    BY <1>1, OrderFacts DEF OrderInv, DepthInv
  <2>3. Falling(pending')
    BY <2>1, <2>2 DEF Falling
  <2>4. \A i \in DOMAIN pending' : Waiting(log', pending'[i])
    BY <1>1, <2>1, <2>2
  <2>5. \A i \in DOMAIN pending' : Apart(node'.path, pending'[i].path)
    BY <2>1, <2>2 DEF Falling
  <2>6. Waiting(log', node')
    BY <1>1, <2>1, <2>2
  <2>7. pc' = "visit" => Reached(log', node'.path) /\ AllBefore(log', node'.path)
    BY <1>3, <2>1, <2>6, NodeType DEF Waiting
  <2>8. pc' \in Looking => JustVisited(log', node')
    <3> SUFFICES ASSUME pc' \in Looking PROVE JustVisited(log', node')
      OBVIOUS
    <3>1. node'.path = Root
      BY <1>3, <2>1, NodeType DEF Looking
    <3>2. log' = <<Visited(node', "OK")>>
      BY <2>6, <3>1 DEF Waiting
    <3>3. Len(log') = 1 /\ log'[1] = Visited(node', "OK")
      BY <3>2
    <3> QED BY <3>3 DEF JustVisited
  <2>9. pc' # "kids"
    BY <1>3
  <2>10. DepthInv'
    BY <2>3, <2>4, <2>5, <2>7, <2>8, <2>9 DEF DepthInv
  <2>11. Goals'
    BY <1>1, SameLog, OrderFacts
  <2> QED BY <1>1, <2>10, <2>11 DEF OrderInv, Goals
<1> QED BY <1>1, <1>2, <1>3

LEMMA VisitNodeOrder ==
  ASSUME Inv, VisitNode
  PROVE  OrderInv'
<1> DEFINE w == Visited(node, "OK")
<1>1. /\ pc = "visit" /\ pc' \in {"read", "next", "done"}
      /\ UNCHANGED <<options, node, pending, head, kids>> /\ log' = Append(log, w)
  BY DEF VisitNode, Onward, Goto, Finish, Visit
<1>2. /\ options.order = "depth" /\ WithinLimit(node.depth) /\ node.path # Root
      /\ DepthInv /\ Reached(log, node.path) /\ AllBefore(log, node.path)
      /\ \A i \in DOMAIN pending : Apart(node.path, pending[i].path)
  BY <1>1, OrderFacts DEF Bounded, OrderInv, DepthInv
<1>3. /\ w \in Visits /\ w.path = node.path /\ Good(w) /\ w.depth = node.depth
      /\ w.depth = Len(w.path)
  BY OrderFacts, VisitType, NodeType
<1>4. /\ log \in Seq(Visits) /\ Len(log') = Len(log) + 1 /\ Len(log) \in Nat
      /\ DOMAIN log = 1..Len(log) /\ log'[Len(log) + 1] = w
      /\ \A k \in 1..Len(log) : log'[k] = log[k]
  BY <1>1, <1>3, OrderFacts, OneMore
<1>5. Goals'
  <2>1. \A k \in DOMAIN log : Good(log[k]) => InOrder(log[k].path, w.path)
    BY <1>2, <1>3 DEF AllBefore, InOrder
  <2> QED BY <1>1, <1>2, <1>3, <2>1, FirstVisit, OrderFacts
<1>6. \A i \in DOMAIN pending : Waiting(log', pending[i])
  <2> SUFFICES ASSUME NEW i \in DOMAIN pending PROVE Waiting(log', pending[i])
    OBVIOUS
  <2>1. Apart(node.path, pending[i].path) /\ pending[i].path \in Seq(Names)
    BY <1>2, OrderFacts
  <2>2. pending[i].path # Root
    BY <2>1, ApartNotBelow, OrderFacts
  <2>3. Reached(log, pending[i].path) /\ AllBefore(log, pending[i].path)
    BY <1>2, <2>2 DEF DepthInv, Waiting
  <2>4. Reached(log', pending[i].path)
    BY <1>1, <1>3, <1>4, <2>3, Grown DEF Reached
  <2>5. AllBefore(log', pending[i].path)
    BY <1>1, <1>3, <1>4, <2>1, <2>3, Grown DEF Precedes
  <2> QED BY <2>2, <2>4, <2>5 DEF Waiting
<1>7. JustVisited(log', node)
  <2>1. \A k \in 1..(Len(log') - 1) : Precedes(log'[k].path, node.path)
    BY <1>2, <1>4 DEF AllBefore
  <2> QED BY <1>4, <2>1 DEF JustVisited
<1> HIDE DEF w
<1>8. DepthInv'
  BY <1>1, <1>2, <1>6, <1>7 DEF DepthInv
<1> QED BY <1>1, <1>2, <1>5, <1>8 DEF OrderInv, Goals

LEMMA ReadOrder ==
  ASSUME Inv, Read \/ Lstat
  PROVE  OrderInv'
<1>1. /\ pc \in {"read", "lstat"} /\ UNCHANGED <<options, node, pending, head, log>>
      /\ pc' = "kids" \/ (pc' \in {"lstat", "failed"} /\ UNCHANGED kids)
  BY DEF Read, Lstat, Goto, history
<1> QED BY <1>1, KidsOrder, QuietOrder DEF Looking

\* Nothing was visited below a directory that is still to be listed.
LEMMA NothingBelow ==
  ASSUME Inv, pc \in Looking
  PROVE  \A k \in DOMAIN log : log[k].path # Root => Front(log[k].path) # node.path
<1> SUFFICES ASSUME NEW k \in DOMAIN log, log[k].path # Root, Front(log[k].path) = node.path
             PROVE  FALSE
  OBVIOUS
<1>1. log \in Seq(Visits) /\ node.path \in Seq(Names)
  BY OrderFacts
<1>2. Len(log) \in Nat /\ DOMAIN log = 1..Len(log) /\ log[k].path \in Seq(Names)
  BY <1>1, LogType
<1>3. /\ log[k].path = Append(node.path, Last(log[k].path)) /\ Last(log[k].path) \in Names
      /\ log[k].path # node.path
  BY <1>1, <1>2, FrontLast, PathLen
<1>4. CASE options.order = "depth"
  <2>1. JustVisited(log, node)
    BY <1>4 DEF Inv, OrderInv, DepthInv
  <2>2. k # Len(log)
    BY <1>3, <2>1 DEF JustVisited, Visited
  <2>3. Precedes(log[k].path, node.path)
    BY <1>2, <2>1, <2>2 DEF JustVisited
  <2>4. Precedes(node.path, log[k].path)
    BY <1>1, <1>3, BeforeChild
  <2> QED BY <1>1, <1>2, <2>3, <2>4, NeverBothWays
<1>5. CASE options.order = "breadth"
  <2>1. BreadthInv /\ head > 0 /\ node = pending[head]
    BY <1>5 DEF Inv, OrderInv, BreadthInv, Looking, Expanding
  <2>2. PICK i \in 1..(head - 1) : pending[i].path = Front(log[k].path)
    BY <2>1 DEF BreadthInv
  <2>3. head \in DOMAIN pending /\ i \in DOMAIN pending /\ i < head
    BY <2>1, OrderFacts
  <2>4. Level(pending[i].path, node.path)
    BY <2>1, <2>3 DEF BreadthInv, Rising
  <2> QED BY <1>1, <2>2, <2>3, <2>4, LevelOneWay, OrderFacts
<1> QED BY <1>4, <1>5, OptionsType, OrderFacts

LEMMA ReportFailureOrder ==
  ASSUME Inv, ReportFailure
  PROVE  OrderInv'
<1> DEFINE w == Visited(node, failure)
<1>1. /\ pc = "failed" /\ pc' \in {"next", "done"}
      /\ UNCHANGED <<options, node, pending, head, kids>> /\ log' = Append(log, w)
  BY DEF ReportFailure, Onward, Goto, Finish, Visit
<1>2. failure \in Faults \cup {"NotFound"} /\ failure # "OK"
  BY <1>1, OrderFacts, FaultsType DEF Typed
<1>3. /\ w \in Visits /\ w.path = node.path /\ ~Good(w) /\ w.depth = node.depth
      /\ w.kind = "directory" /\ Deeper(w.depth) /\ Visited(w, "OK") = Visited(node, "OK")
  <2>1. node.kind = "directory" /\ Deeper(node.depth)
    BY <1>1, OrderFacts DEF Bounded, Expanding
  <2>2. w \in Visits /\ w.path = node.path /\ ~Good(w) /\ w.depth = node.depth /\ w.kind = node.kind
    <3>1. node \in PathNodes
      BY OrderFacts DEF Typed
    <3>2. failure \in {"OK", "NotFound"} \cup Faults
      BY <1>2
    <3> QED BY <1>2, <3>1, <3>2, VisitType
  <2> HIDE DEF w
  <2>3. Visited(w, "OK") = Visited(node, "OK")
    BY <2>2 DEF Visited
  <2> QED BY <2>1, <2>2, <2>3
<1>4. /\ log \in Seq(Visits) /\ Len(log) \in Nat /\ DOMAIN log = 1..Len(log)
      /\ pc \in Looking /\ pc \in Expanding
  BY <1>1, OrderFacts, LogType DEF Looking, Expanding
<1>5. NotReported(log, node.path)
  BY <1>4, NotYetReported
<1>6. \A k \in DOMAIN log : log[k].path # Root => Front(log[k].path) # node.path
  BY <1>4, NothingBelow
<1>7. options.order = "depth" => JustVisited(log, node)
  BY <1>4, OrderFacts DEF OrderInv, DepthInv
<1>8. options.order = "breadth" => head \in DOMAIN pending /\ node = pending[head] /\ BreadthInv
  BY <1>4, OrderFacts DEF OrderInv, BreadthInv
<1>9. \E k \in DOMAIN log : log[k] = Visited(node, "OK")
  <2>1. CASE options.order = "depth"
    <3>1. Len(log) \in DOMAIN log
      BY <1>4, <1>7, <2>1 DEF JustVisited
    <3> QED BY <1>7, <2>1, <3>1 DEF JustVisited
  <2>2. CASE options.order = "breadth"
    BY <1>8, <2>2 DEF BreadthInv
  <2> QED BY <2>1, <2>2, OptionsType, OrderFacts
<1>10. Goals'
  <2>1. Typed /\ Goals /\ UNCHANGED options /\ log' = Append(log, w)
    BY <1>1, OrderFacts
  <2>2. \E k \in DOMAIN log : log[k] = Visited(w, "OK")
    BY <1>3, <1>9
  <2>3. options.order = "depth" => Len(log) > 0 /\ log[Len(log)] = Visited(w, "OK")
    BY <1>3, <1>7 DEF JustVisited
  <2>4. /\ NotReported(log, w.path)
        /\ \A k \in DOMAIN log : log[k].path # Root => Front(log[k].path) # w.path
    BY <1>3, <1>5, <1>6
  <2> HIDE DEF w
  <2> QED BY <1>3, <2>1, <2>2, <2>3, <2>4, SecondVisit
<1>11. /\ \A k \in DOMAIN log' : (k \in DOMAIN log /\ log'[k] = log[k]) \/ log'[k] = w
       /\ \A k \in DOMAIN log : k \in DOMAIN log' /\ log'[k] = log[k]
  BY <1>1, <1>3, <1>4, OneMore
<1>12. ASSUME options.order = "depth" PROVE DepthInv'
  <2>1. DepthInv
    BY <1>12, OrderFacts DEF OrderInv
  <2>2. ASSUME NEW i \in DOMAIN pending PROVE Waiting(log', pending[i])
    <3>1. Apart(node.path, pending[i].path) /\ pending[i].path \in Seq(Names) /\ node.path \in Seq(Names)
      BY <1>4, <2>1, OrderFacts DEF DepthInv
    <3>2. pending[i].path # Root /\ Front(pending[i].path) # node.path
      BY <3>1, ApartNotBelow
    <3>3. Reached(log, pending[i].path) /\ AllBefore(log, pending[i].path)
      BY <2>1, <3>2 DEF DepthInv, Waiting
    <3>4. Reached(log', pending[i].path)
      BY <1>1, <1>3, <1>4, <3>2, <3>3, Grown DEF Reached
    <3>5. AllBefore(log', pending[i].path)
      BY <1>1, <1>3, <1>4, <3>1, <3>3, Grown DEF Precedes
    <3> QED BY <3>2, <3>4, <3>5 DEF Waiting
  <2> HIDE DEF w
  <2> QED BY <1>1, <2>1, <2>2 DEF DepthInv, Looking
<1>13. ASSUME options.order = "breadth" PROVE BreadthInv'
  <2>1. BreadthInv /\ head \in DOMAIN pending /\ node = pending[head] /\ head \in 1..head
        /\ 1..(head - 1) \subseteq 1..head
    BY <1>8, <1>13, OrderFacts
  <2>2. pc' \notin Looking /\ pc' \notin Expanding /\ pc' # "kids"
    BY <1>1 DEF Looking, Expanding
  <2> HIDE DEF w
  <2>3. \A k \in DOMAIN log : log[k].path # Root =>
          \E i \in 1..head : pending[i].path = Front(log[k].path)
    BY <1>4, <2>1 DEF BreadthInv
  <2>4. node.path # Root => \E i \in 1..head : pending[i].path = Front(node.path)
    <3>1. PICK k \in DOMAIN log : log[k] = Visited(node, "OK")
      BY <1>9
    <3> QED BY <2>3, <3>1 DEF Visited
  <2>5. \A k \in DOMAIN log' : log'[k].path # Root =>
          \E i \in 1..head : pending[i].path = Front(log'[k].path)
    BY <1>3, <1>11, <2>3, <2>4
  <2>6. \A k \in DOMAIN log' : ~Good(log'[k]) => \E i \in 1..head : pending[i].path = log'[k].path
    BY <1>3, <1>4, <1>11, <2>1 DEF BreadthInv
  <2>7. \A i \in DOMAIN pending : \E k \in DOMAIN log' : log'[k] = Visited(pending[i], "OK")
    BY <1>11, <2>1 DEF BreadthInv
  <2> QED BY <1>1, <2>1, <2>2, <2>5, <2>6, <2>7 DEF BreadthInv
<1> HIDE DEF w
<1> QED BY <1>1, <1>10, <1>12, <1>13 DEF OrderInv, Goals

\* Breadth-first, what was visited comes before the next child.
LEMMA BeforeNextKid ==
  ASSUME Inv, pc = "kids", options.order = "breadth", kids # <<>>
  PROVE  \A k \in DOMAIN log : Level(log[k].path, Append(node.path, Head(kids).name))
<1> DEFINE name == Head(kids).name
<1> SUFFICES ASSUME NEW k \in DOMAIN log PROVE Level(log[k].path, Append(node.path, name))
  OBVIOUS
<1>1. /\ node.path \in Seq(Names) /\ log[k].path \in Seq(Names) /\ name \in Names
      /\ Head(kids) = kids[1] /\ 1 \in DOMAIN kids
  BY OrderFacts, LogType, RestOfKids DEF Entries
<1>2. /\ Append(node.path, name) \in Seq(Names) /\ Len(Append(node.path, name)) = Len(node.path) + 1
      /\ Len(node.path) \in Nat
  BY <1>1, ChildPath, PathLen
<1>3. BreadthInv /\ head > 0 /\ node = pending[head] /\ head \in DOMAIN pending
  BY OrderFacts DEF OrderInv, BreadthInv, Expanding
<1>4. CASE log[k].path = Root
  BY <1>2, <1>4 DEF Level, Root
<1>5. CASE log[k].path # Root /\ Front(log[k].path) = node.path
  <2>1. Rank[Last(log[k].path)] < Rank[name]
    BY <1>1, <1>3, <1>5 DEF BreadthInv
  <2>2. /\ log[k].path = Append(node.path, Last(log[k].path)) /\ Last(log[k].path) \in Names
    BY <1>1, <1>5, FrontLast
  <2>3. Apart(log[k].path, Append(node.path, name))
    BY <1>1, <2>1, <2>2, Siblings
  <2>4. Len(log[k].path) = Len(node.path) + 1
    BY <1>1, <2>2, ChildPath
  <2> QED BY <1>2, <2>3, <2>4 DEF Level, Precedes
<1>6. CASE log[k].path # Root /\ Front(log[k].path) # node.path
  <2>1. PICK i \in 1..head : pending[i].path = Front(log[k].path)
    BY <1>3, <1>6 DEF BreadthInv, Looking
  <2>2. i \in DOMAIN pending /\ i < head
    BY <1>3, <1>6, <2>1, OrderFacts
  <2>3. Level(Front(log[k].path), node.path)
    BY <1>3, <2>1, <2>2 DEF BreadthInv, Rising
  <2> QED BY <1>1, <1>6, <2>3, LevelOrder
<1> QED BY <1>4, <1>5, <1>6

LEMMA VisitKidOrder ==
  ASSUME Inv, VisitKid
  PROVE  OrderInv'
<1> DEFINE child == Child(Head(kids))
           w == Visited(child, "OK")
<1>1. /\ pc = "kids" /\ options.order = "breadth" /\ kids # <<>> /\ pc' \in {"kids", "done"}
      /\ UNCHANGED <<options, node, head>>
      /\ kids' = Tail(kids) /\ log' = Append(log, w)
      /\ pending' \in {pending, Append(pending, child)}
  BY DEF VisitKid, Onward, Goto, Finish, RunsOut, Visit
<1>2. /\ Head(kids) \in Entries /\ Append(node.path, Head(kids).name) \in Paths
      /\ \A i \in DOMAIN Tail(kids) :
           /\ i + 1 \in DOMAIN kids /\ Tail(kids)[i] = kids[i + 1]
           /\ Rank[Head(kids).name] < Rank[Tail(kids)[i].name]
  BY <1>1, RestOfKids, OrderFacts
<1>3. /\ child \in PathNodes /\ child.path = Append(node.path, Head(kids).name)
      /\ child.depth = node.depth + 1 /\ child.path # Root /\ child.path \in Seq(Names)
      /\ child.depth = Len(child.path)
  BY <1>2, ChildType, NodeType, OrderFacts
<1>4. Front(child.path) = node.path /\ Last(child.path) = Head(kids).name
  <2> DEFINE name == Head(kids).name
             path == child.path
  <2>1. node.path \in Seq(Names) /\ name \in Names /\ path = Append(node.path, name)
    BY <1>2, <1>3, OrderFacts DEF Entries
  <2> HIDE DEF name, path
  <2>2. Front(path) = node.path /\ Last(path) = name
    BY <2>1, ChildPath
  <2> QED BY <2>2 DEF name, path
<1>5. \A k \in DOMAIN log : Level(log[k].path, child.path)
  BY <1>1, <1>3, BeforeNextKid
<1> HIDE DEF child
<1>6. /\ w \in Visits /\ w.path = child.path /\ Good(w) /\ w.depth = child.depth
  BY <1>3, VisitType
<1>7. /\ head \in DOMAIN pending /\ node = pending[head] /\ BreadthInv /\ pc \in Expanding
      /\ node.kind = "directory" /\ Deeper(node.depth) /\ node.depth \in Nat
  <2>1. pc \in Expanding
    BY <1>1 DEF Expanding
  <2>2. BreadthInv /\ head > 0 /\ node = pending[head]
    BY <1>1, <2>1, OrderFacts DEF OrderInv, BreadthInv
  <2> QED BY <2>1, <2>2, OrderFacts, NodeType DEF Bounded
<1> HIDE DEF w
<1>8. Goals'
  <2>1. \A k \in DOMAIN log : Good(log[k]) => InOrder(log[k].path, w.path)
    BY <1>1, <1>5, <1>6 DEF InOrder, Level
  <2>2. Reached(log, w.path)
    BY <1>4, <1>6, <1>7, NotYetReported DEF Reached
  <2>3. WithinLimit(w.depth)
    BY <1>3, <1>6, <1>7, OptionsType, OrderFacts DEF WithinLimit, Deeper
  <2>4. w.depth = Len(w.path)
    BY <1>3, <1>6
  <2> QED BY <1>1, <1>6, <2>1, <2>2, <2>3, <2>4, FirstVisit, OrderFacts
<1>9. /\ \A k \in DOMAIN log' : (k \in DOMAIN log /\ log'[k] = log[k]) \/ log'[k] = w
      /\ \A k \in DOMAIN log : k \in DOMAIN log' /\ log'[k] = log[k]
      /\ \E k \in DOMAIN log' : log'[k] = w
  <2>1. /\ Len(log) \in Nat /\ DOMAIN log' = 1..(Len(log) + 1) /\ log'[Len(log) + 1] = w
        /\ \A k \in DOMAIN log' : \/ k \in DOMAIN log /\ log'[k] = log[k]
                                  \/ k = Len(log) + 1 /\ log'[k] = w
        /\ \A k \in DOMAIN log : k \in DOMAIN log' /\ log'[k] = log[k]
    BY <1>1, <1>6, OneMore, OrderFacts
  <2>2. Len(log) + 1 \in DOMAIN log'
    BY <2>1
  <2> QED BY <2>1, <2>2
<1>10. /\ \A i \in DOMAIN pending : i \in DOMAIN pending' /\ pending'[i] = pending[i]
       /\ \A i \in DOMAIN pending' :
            \/ i \in DOMAIN pending /\ pending'[i] = pending[i]
            \/ i = Len(pending) + 1 /\ pending'[i] = child
  <2>1. CASE pending' = pending
    BY <2>1
  <2>2. CASE pending' = Append(pending, child)
    <3>1. /\ pending' \in Seq(PathNodes) /\ Len(pending') = Len(pending) + 1
          /\ \A i \in 1..Len(pending) : pending'[i] = pending[i]
          /\ pending'[Len(pending) + 1] = child
      BY <1>3, <2>2, OrderFacts, AppendProperties
    <3>2. DOMAIN pending' = 1..(Len(pending) + 1)
      BY <3>1, LenProperties
    <3> QED BY <3>1, <3>2, OrderFacts
  <2> QED BY <1>1, <2>1, <2>2
<1>11. Rising(pending')
  <2> SUFFICES ASSUME NEW i \in DOMAIN pending', NEW j \in DOMAIN pending', i < j
               PROVE  Level(pending'[i].path, pending'[j].path)
    BY DEF Rising
  <2>1. i \in DOMAIN pending /\ pending'[i] = pending[i]
    <3>1. CASE i = Len(pending) + 1
      BY <1>10, <3>1, OrderFacts
    <3> QED BY <1>10, <3>1
  <2>2. CASE j \in DOMAIN pending /\ pending'[j] = pending[j]
    BY <1>7, <2>1, <2>2 DEF BreadthInv, Rising
  <2>3. CASE pending'[j] = child
    <3>1. PICK k \in DOMAIN log : log[k] = Visited(pending[i], "OK")
      BY <1>7, <2>1 DEF BreadthInv
    <3> QED BY <1>5, <2>1, <2>3, <3>1 DEF Visited
  <2> QED BY <1>10, <2>2, <2>3
<1>12. \A i \in DOMAIN pending' : \E k \in DOMAIN log' : log'[k] = Visited(pending'[i], "OK")
  <2>1. \A i \in DOMAIN pending : \E k \in DOMAIN log : log[k] = Visited(pending[i], "OK")
    BY <1>7 DEF BreadthInv
  <2> QED BY <1>9, <1>10, <2>1 DEF w
<1>13. \A k \in DOMAIN log' : log'[k].path # Root =>
         \E i \in 1..head : pending'[i].path = Front(log'[k].path)
  <2>1. \A k \in DOMAIN log : log[k].path # Root =>
          \E i \in 1..head : pending[i].path = Front(log[k].path)
    BY <1>1, <1>7 DEF BreadthInv, Looking
  <2>2. head \in 1..head /\ 1..head \subseteq DOMAIN pending
    BY <1>7, OrderFacts
  <2> QED BY <1>4, <1>6, <1>7, <1>9, <1>10, <2>1, <2>2
<1>14. ASSUME NEW k \in DOMAIN log', log'[k].path # Root, Front(log'[k].path) = node.path,
              NEW i \in DOMAIN kids'
       PROVE  Rank[Last(log'[k].path)] < Rank[kids'[i].name]
  <2>1. CASE log'[k] = w
    BY <1>1, <1>2, <1>4, <1>6, <2>1
  <2>2. CASE k \in DOMAIN log /\ log'[k] = log[k]
    BY <1>1, <1>2, <1>7, <1>14, <2>2 DEF BreadthInv
  <2> QED BY <1>9, <2>1, <2>2
<1>15. \A k \in DOMAIN log' : ~Good(log'[k]) =>
         \E i \in 1..(head - 1) : pending'[i].path = log'[k].path
  <2>1. 1..(head - 1) \subseteq DOMAIN pending
    BY <1>7, OrderFacts
  <2> QED BY <1>6, <1>7, <1>9, <1>10, <2>1 DEF BreadthInv
<1>16. BreadthInv'
  <2>1. head' > 0 /\ node' = pending'[head']
    BY <1>1, <1>7, <1>10, OrderFacts
  <2>2. pc' \notin Looking /\ 1..(head - 1) \subseteq 1..head
    BY <1>1, <1>7, OrderFacts DEF Looking
  <2>3. \A k \in DOMAIN log' : ~Good(log'[k]) =>
          \E i \in 1..(IF pc' \in Expanding THEN head - 1 ELSE head) : pending'[i].path = log'[k].path
    BY <1>15, <2>2
  <2>4. pc' \in Expanding => head' > 0 /\ node' = pending'[head']
    BY <2>1
  <2>5. \A k \in DOMAIN log' : log'[k].path # Root =>
          \E i \in 1..(IF pc' \in Looking THEN head' - 1 ELSE head') :
            pending'[i].path = Front(log'[k].path)
    BY <1>1, <1>13, <2>2
  <2>6. pc' = "kids" =>
          \A k \in DOMAIN log' : log'[k].path # Root /\ Front(log'[k].path) = node'.path =>
            \A i \in DOMAIN kids' : Rank[Last(log'[k].path)] < Rank[kids'[i].name]
    BY <1>1, <1>14
  <2>7. \A k \in DOMAIN log' : ~Good(log'[k]) =>
          \E i \in 1..(IF pc' \in Expanding THEN head' - 1 ELSE head') :
            pending'[i].path = log'[k].path
    BY <1>1, <2>3
  <2> QED BY <1>11, <1>12, <2>4, <2>5, <2>6, <2>7 DEF BreadthInv
<1> QED BY <1>1, <1>8, <1>16 DEF OrderInv, Goals

LEMMA PushKidsOrder ==
  ASSUME Inv, PushKids
  PROVE  OrderInv'
<1> DEFINE n == Len(kids)
           m == Len(pending)
           pushed == PushOrder([i \in DOMAIN kids |-> Child(kids[i])])
<1>1. /\ pc = "kids" /\ pc' = "kids" /\ options.order = "depth" /\ kids # <<>>
      /\ UNCHANGED <<options, node, head, log>>
      /\ pending' = pending \o pushed /\ kids' = <<>>
  BY DEF PushKids, Goto, history
<1>2. /\ n \in Nat /\ DOMAIN kids = 1..n /\ pushed \in Seq(PathNodes) /\ Len(pushed) = n
      /\ \A i \in 1..n : n - i + 1 \in 1..n /\ pushed[i] = Child(kids[n - i + 1])
  BY Pushed, OrderFacts
<1>3. \A i \in 1..n : /\ kids[i].name \in Names /\ Child(kids[i]).path = Append(node.path, kids[i].name)
                      /\ Child(kids[i]).path # Root
  <2> HIDE DEF n, pushed
  <2> SUFFICES ASSUME NEW i \in 1..n
               PROVE  /\ kids[i].name \in Names
                      /\ Child(kids[i]).path = Append(node.path, kids[i].name)
                      /\ Child(kids[i]).path # Root
    OBVIOUS
  <2> DEFINE e == kids[i]
  <2>1. e \in Entries /\ Append(node.path, e.name) \in Paths
    <3>1. /\ kids \in Seq(Entries) /\ i \in DOMAIN kids /\ i \in 1..Len(kids)
          /\ \A j \in DOMAIN kids : Append(node.path, kids[j].name) \in Paths
      BY <1>2, OrderFacts DEF Listing, n
    <3> QED BY <3>1, ElementOfSeq
  <2>2. e.name \in Names
    BY <2>1 DEF Entries
  <2> HIDE DEF e
  <2>3. Child(e).path = Append(node.path, e.name) /\ Child(e).path # Root
    BY <2>1, ChildType, NodeType, OrderFacts
  <2> QED BY <2>2, <2>3 DEF e
<1> HIDE DEF n, pushed
<1>4. m \in Nat /\ DOMAIN pending = 1..m /\ node.path \in Seq(Names)
  BY OrderFacts
<1>5. /\ pending' \in Seq(PathNodes) /\ Len(pending') = m + n
      /\ \A i \in 1..(m + n) : pending'[i] = IF i <= m THEN pending[i] ELSE pushed[i - m]
  <2>1. pending \in Seq(PathNodes)
    BY OrderFacts
  <2> HIDE DEF m
  <2>2. /\ pending \o pushed \in Seq(PathNodes)
        /\ Len(pending \o pushed) = Len(pending) + Len(pushed)
        /\ \A i \in 1..(Len(pending) + Len(pushed)) :
             (pending \o pushed)[i] =
               IF i <= Len(pending) THEN pending[i] ELSE pushed[i - Len(pending)]
    BY <1>2, <2>1, ConcatProperties
  <2> QED BY <1>1, <1>2, <2>2 DEF m
<1>6. DOMAIN pending' = 1..(m + n)
  BY <1>5, LenProperties
<1> HIDE DEF m
<1>7. \A i \in DOMAIN pending' :
        \/ i \in DOMAIN pending /\ pending'[i] = pending[i]
        \/ /\ i > m /\ n - (i - m) + 1 \in 1..n
           /\ pending'[i] = Child(kids[n - (i - m) + 1])
  <2> SUFFICES ASSUME NEW i \in DOMAIN pending', ~(i <= m)
               PROVE  /\ i > m /\ n - (i - m) + 1 \in 1..n
                      /\ pending'[i] = Child(kids[n - (i - m) + 1])
    BY <1>4, <1>5, <1>6
  <2>1. i \in 1..(m + n) /\ m \in Nat /\ n \in Nat
    BY <1>2, <1>4, <1>6
  <2>2. i - m \in 1..n /\ i > m
    BY <2>1
  <2>3. pending'[i] = pushed[i - m]
    BY <1>5, <2>1
  <2> QED BY <1>2, <2>2, <2>3
<1>8. /\ DepthInv /\ SeenAsDirectory(log, node.path) /\ NotReported(log, node.path)
      /\ \A k \in DOMAIN log : log[k].path = node.path \/ Precedes(log[k].path, node.path)
      /\ \A i \in DOMAIN pending : Apart(node.path, pending[i].path)
  BY <1>1, OrderFacts DEF OrderInv, DepthInv
<1>9. Falling(pending')
  <2> SUFFICES ASSUME NEW i \in DOMAIN pending', NEW j \in DOMAIN pending', i < j
               PROVE  Apart(pending'[j].path, pending'[i].path)
    BY DEF Falling
  <2>1. CASE j \in DOMAIN pending /\ pending'[j] = pending[j]
    <3>1. i \in DOMAIN pending /\ pending'[i] = pending[i]
      BY <1>4, <1>6, <1>7, <2>1
    <3> QED BY <1>8, <2>1, <3>1 DEF DepthInv, Falling
  <2>2. CASE /\ j > m /\ n - (j - m) + 1 \in 1..n
             /\ pending'[j] = Child(kids[n - (j - m) + 1])
    <3> DEFINE y == n - (j - m) + 1
    <3>1. y \in 1..n /\ pending'[j].path = Append(node.path, kids[y].name) /\ kids[y].name \in Names
      BY <1>3, <2>2
    <3>2. CASE i \in DOMAIN pending /\ pending'[i] = pending[i]
      <4>1. Apart(node.path, pending[i].path) /\ pending[i].path \in Seq(Names)
        BY <1>8, <3>2, OrderFacts
      <4> HIDE DEF y
      <4> QED BY <1>4, <3>1, <3>2, <4>1, ApartBelow
    <3>3. CASE /\ i > m /\ n - (i - m) + 1 \in 1..n
               /\ pending'[i] = Child(kids[n - (i - m) + 1])
      <4> DEFINE x == n - (i - m) + 1
      <4>1. x \in 1..n /\ pending'[i].path = Append(node.path, kids[x].name) /\ kids[x].name \in Names
        BY <1>3, <3>3
      <4>2. y < x
        BY <1>2, <1>4, <1>6
      <4> HIDE DEF x, y
      <4>3. Rank[kids[y].name] < Rank[kids[x].name]
        BY <1>2, <3>1, <4>1, <4>2, OrderFacts DEF Listing, Ascending
      <4> QED BY <1>4, <3>1, <4>1, <4>3, Siblings
    <3> QED BY <1>7, <3>2, <3>3
  <2> QED BY <1>7, <2>1, <2>2
<1>10. \A i \in DOMAIN pending' : Waiting(log', pending'[i])
  <2> SUFFICES ASSUME NEW i \in DOMAIN pending' PROVE Waiting(log', pending'[i])
    OBVIOUS
  <2>1. CASE i \in DOMAIN pending /\ pending'[i] = pending[i]
    BY <1>1, <1>8, <2>1 DEF DepthInv
  <2>2. CASE /\ i > m /\ n - (i - m) + 1 \in 1..n
             /\ pending'[i] = Child(kids[n - (i - m) + 1])
    <3> DEFINE x == n - (i - m) + 1
    <3>1. /\ pending'[i].path = Append(node.path, kids[x].name) /\ kids[x].name \in Names
          /\ pending'[i].path # Root
      BY <1>3, <2>2
    <3> HIDE DEF x
    <3>2. Front(pending'[i].path) = node.path
      BY <1>4, <3>1, ChildPath
    <3>3. Reached(log, pending'[i].path)
      BY <1>8, <3>2 DEF Reached
    <3>4. \A k \in DOMAIN log : log[k].path \in Seq(Names)
      BY LogType, OrderFacts
    <3>5. AllBefore(log, pending'[i].path)
      BY <1>4, <1>8, <3>1, <3>4, BeforeChild DEF AllBefore
    <3> QED BY <1>1, <3>1, <3>3, <3>5 DEF Waiting
  <2> QED BY <1>7, <2>1, <2>2
<1>11. DepthInv'
  BY <1>1, <1>8, <1>9, <1>10 DEF DepthInv, Looking
<1>12. Goals'
  BY <1>1, SameLog, OrderFacts
<1> QED BY <1>1, <1>11, <1>12 DEF OrderInv, Goals

LEMMA StepOrder ==
  ASSUME Inv, Step
  PROVE  OrderInv'
<1>1. ASSUME KidsDone \/ RunOut PROVE OrderInv'
  <2>1. pc' \in {"next", "done"} /\ UNCHANGED <<options, node, pending, head, kids, log>>
    BY <1>1 DEF KidsDone, RunOut, RunsOut, Goto, Finish, history
  <2> QED BY <2>1, QuietOrder
<1> QED BY <1>1, InspectRootOrder, VisitRootOrder, TakeFirstOrder, TakeLastOrder, VisitNodeOrder,
           ReadOrder, ReportFailureOrder, VisitKidOrder, PushKidsOrder DEF Step

LEMMA OutsideOrder ==
  ASSUME Inv, Outside
  PROVE  OrderInv'
<1>1. UNCHANGED <<options, node, pending, head, kids, log, pc>>
  BY DEF Outside, Delete, Create, Change, walkVars
<1> QED BY <1>1, QuietOrder

LEMMA InitOrder == Init => OrderInv
<1> SUFFICES ASSUME Init PROVE OrderInv
  OBVIOUS
<1>1. log = <<>> /\ pending = <<>> /\ pc = "inspect"
  BY DEF Init
<1>2. DOMAIN log = {} /\ DOMAIN pending = {}
  BY <1>1
<1>3. DepthInv /\ BreadthInv
  BY <1>1, <1>2 DEF DepthInv, BreadthInv, Falling, Rising, Looking, Expanding
<1> QED BY <1>2, <1>3 DEF OrderInv, VisitsInOrder, VisitsReached, SecondVisits

LEMMA Unmoved ==
  ASSUME Inv, UNCHANGED vars
  PROVE  Inv'
<1>1. TypeInv'
  <2>1. /\ UNCHANGED <<tree, options, pc, node, pending, head, unknown, found, kids, failure>>
        /\ UNCHANGED log
    BY DEF vars, walkVars, history
  <2>2. Typed'
    BY <2>1 DEF Inv, TypeInv, Typed, Rooted
  <2>3. Listing' /\ Bounded'
    BY <2>1 DEF Inv, TypeInv, Listing, Ascending, Bounded, WithinLimit, Deeper
  <2> QED BY <2>2, <2>3 DEF TypeInv
<1>2. UNCHANGED <<options, node, pending, head, kids, log, pc>>
  BY DEF vars, walkVars, history
<1>3. OrderInv'
  BY <1>2, QuietOrder
<1> QED BY <1>1, <1>3 DEF Inv

LEMMA NextInv ==
  ASSUME Inv, [CliNext]_allVars
  PROVE  Inv'
<1>1. CASE Step
  BY <1>1, StepTypes, StepOrder DEF Inv
<1>2. CASE Outside
  BY <1>2, OutsideTypes, OutsideOrder DEF Inv
<1>3. CASE UNCHANGED vars
  BY <1>3, Unmoved
<1> QED BY <1>1, <1>2, <1>3 DEF CliNext, WalkOn, ListOne, GetValues, allVars

LEMMA Invariance == CliSpec => []Inv
<1>1. CliInit => Inv
  BY InitTypes, InitOrder DEF CliInit, Inv
<1>2. Inv /\ [CliNext]_allVars => Inv'
  BY NextInv
<1> QED BY <1>1, <1>2, PTL DEF CliSpec

-----------------------------------------------------------------------------
(* The order of visits                                                     *)

\* However others change the tree under the walk, the first visits come in the
\* strictly ascending order of the walk asked for, so that no path is visited
\* twice, in trees of every size.
THEOREM OrderOfVisits == CliSpec => []VisitsInOrder
BY Invariance, PTL DEF Inv, OrderInv

\* Whatever is visited below the root was reached through an earlier visit of
\* its parent as a directory that could be listed, and lies within the limit.
THEOREM ReachedFirst == CliSpec => []VisitsReached
BY Invariance, PTL DEF Inv, OrderInv

\* A second visit is the failure of a directory above the limit to be listed,
\* once, and in place in a depth-first walk: nothing but directories is listed.
THEOREM FailuresSecond == CliSpec => []SecondVisits
BY Invariance, PTL DEF Inv, OrderInv

-----------------------------------------------------------------------------
(* The types of the listing                                                *)

Calls ==
  /\ call # NoCall => /\ call \in [visit : Visits, step : {"list", "values"}]
                      /\ Good(call.visit) /\ call.visit \in ToSet(log)
  /\ listed \subseteq {log[i].path : i \in DOMAIN log}
  /\ \A c \in complaints : c.path \in Paths

\* A step of the walk visits once or not at all.
LEMMA LogGrows ==
  ASSUME TypeInv, Step
  PROVE  log' = log \/ \E w \in Visits : log' = Append(log, w)
<1>1. CASE VisitRoot \/ VisitNode
  <2>1. Visited(node, "OK") \in Visits
    BY VisitType DEF TypeInv, Typed
  <2> QED BY <1>1, <2>1 DEF VisitRoot, VisitNode, Visit
<1>2. CASE ReportFailure
  <2>1. failure \in Faults \cup {"NotFound"}
    BY <1>2 DEF ReportFailure, TypeInv, Typed
  <2>2. Visited(node, failure) \in Visits
    BY <2>1, NodeType DEF TypeInv, Typed, Visited, Visits
  <2> QED BY <1>2, <2>2 DEF ReportFailure, Visit
<1>3. CASE VisitKid
  <2> DEFINE child == Child(Head(kids))
  <2>1. kids # <<>> /\ log' = Append(log, Visited(child, "OK"))
    BY <1>3 DEF VisitKid, Visit
  <2>2. Head(kids) \in Entries /\ Append(node.path, Head(kids).name) \in Paths
    BY <2>1, RestOfKids DEF TypeInv
  <2>3. child \in PathNodes
    BY <2>2, ChildType DEF TypeInv
  <2> HIDE DEF child
  <2>4. Visited(child, "OK") \in Visits
    BY <2>3, VisitType
  <2> QED BY <2>1, <2>4
<1>4. CASE InspectRoot \/ TakeFirst \/ TakeLast \/ Read \/ Lstat \/ PushKids \/ KidsDone \/ RunOut
  BY <1>4 DEF InspectRoot, TakeFirst, TakeLast, Read, Lstat, PushKids, KidsDone, RunOut, history
<1> QED BY <1>1, <1>2, <1>3, <1>4 DEF Step

\* What was visited stays visited.
LEMMA Remembered ==
  ASSUME NEW l \in Seq(Visits), NEW w \in Visits
  PROVE  /\ ToSet(Append(l, w)) = ToSet(l) \cup {w} /\ Last(Append(l, w)) = w
         /\ {l[i].path : i \in DOMAIN l} \subseteq
              {Append(l, w)[i].path : i \in DOMAIN Append(l, w)}
<1> DEFINE m == Append(l, w)
<1>1. /\ Len(l) \in Nat /\ DOMAIN l = 1..Len(l) /\ DOMAIN m = 1..(Len(l) + 1)
      /\ Len(m) = Len(l) + 1 /\ m[Len(l) + 1] = w /\ \A k \in 1..Len(l) : m[k] = l[k]
  BY OneMore
<1> HIDE DEF m
<1>2. ToSet(m) = ToSet(l) \cup {w}
  BY <1>1 DEF ToSet
<1>3. Last(m) = w
  BY <1>1 DEF Last
<1>4. {l[i].path : i \in DOMAIN l} \subseteq {m[i].path : i \in DOMAIN m}
  BY <1>1
<1> QED BY <1>2, <1>3, <1>4 DEF m

LEMMA NextCalls ==
  ASSUME Inv, Calls, [CliNext]_allVars
  PROVE  Calls'
<1>1. log \in Seq(Visits) /\ \A k \in DOMAIN log : log[k].path \in Paths
  BY OrderFacts, LogType
<1>2. CASE WalkOn
  <2>1. CASE log' = log
    BY <1>2, <2>1 DEF WalkOn, cliVars, Calls
  <2>2. CASE log' # log
    <3>1. PICK w \in Visits : log' = Append(log, w)
      BY <1>2, <2>2, LogGrows DEF WalkOn, Inv
    <3>2. /\ ToSet(log') = ToSet(log) \cup {w} /\ Last(log') = w
          /\ {log[i].path : i \in DOMAIN log} \subseteq {log'[i].path : i \in DOMAIN log'}
      BY <1>1, <3>1, Remembered
    <3>3. listed' = listed
      BY <1>2 DEF WalkOn, Callback, WarnPath, cliVars
    <3>4. w.path \in Paths
      BY DEF Visits
    <3>5. complaints' = complaints \/ complaints' = complaints \cup {Complaint(w.path, w.status)}
      BY <1>2, <3>2 DEF WalkOn, Callback, WarnPath, cliVars
    <3>6. call' = call \/ (Good(w) /\ call' = [visit |-> w, step |-> "list"])
      BY <1>2, <3>2 DEF WalkOn, Callback, WarnPath, cliVars
    <3>7. \A c \in complaints' : c.path \in Paths
      BY <3>4, <3>5 DEF Calls, Complaint
    <3>8. call' # NoCall => /\ call' \in [visit : Visits, step : {"list", "values"}]
                            /\ Good(call'.visit) /\ call'.visit \in ToSet(log')
      BY <3>2, <3>6 DEF Calls
    <3> QED BY <3>2, <3>3, <3>7, <3>8 DEF Calls
  <2> QED BY <2>1, <2>2
<1>3. CASE ListOne \/ GetValues
  <2>1. log' = log /\ call # NoCall
    BY <1>3 DEF ListOne, GetValues, vars, history
  <2>2. /\ Good(call.visit) /\ call.visit \in ToSet(log) /\ call.visit.path \in Paths
        /\ call.visit.path \in {log[i].path : i \in DOMAIN log}
    BY <1>1, <2>1 DEF Calls, ToSet
  <2>3. call' = NoCall \/ call' = [call EXCEPT !.step = "values"]
    BY <1>3 DEF ListOne, GetValues
  <2>4. /\ listed' = listed \/ listed' = listed \cup {call.visit.path}
        /\ \/ complaints' = complaints
           \/ \E s : complaints' = complaints \cup {Complaint(call.visit.path, s)}
    BY <1>3 DEF ListOne, GetValues, PutOut, Failed, Skip, WarnPath
  <2>5. \A c \in complaints' : c.path \in Paths
    BY <2>2, <2>4 DEF Calls, Complaint
  <2>6. listed' \subseteq {log'[i].path : i \in DOMAIN log'}
    BY <2>1, <2>2, <2>4 DEF Calls
  <2>7. call' # NoCall => /\ call' \in [visit : Visits, step : {"list", "values"}]
                          /\ call'.visit = call.visit
    BY <2>1, <2>3 DEF Calls
  <2> QED BY <2>1, <2>2, <2>5, <2>6, <2>7 DEF Calls
<1>4. CASE (Outside /\ UNCHANGED cliVars) \/ UNCHANGED allVars
  <2>1. UNCHANGED <<log, call, listed, complaints>>
    BY <1>4 DEF Outside, Delete, Create, Change, cliVars, allVars, vars, history
  <2> QED BY <2>1 DEF Calls
<1> QED BY <1>2, <1>3, <1>4 DEF CliNext

LEMMA TypesHold ==
  ASSUME Inv, Calls
  PROVE  TypeOK
<1>1. \A n \in ToSet(pending) \cup {node} : n \in AllNodes /\ n.depth = Len(n.path)
  BY OrderFacts DEF ToSet, PathNodes
<1>2. options.order = "breadth" =>
        \A n \in ToSet(pending) : n.kind = "directory" /\ Deeper(n.depth)
  BY OrderFacts DEF Bounded, ToSet
<1>3. \A e \in ToSet(kids) \cup found : e.name \in Names /\ e.kind \in Kinds
  <2>1. \A e \in Entries : e.name \in Names /\ e.kind \in Kinds
    BY DEF Entries
  <2>2. kids \in Seq(Entries) /\ found \subseteq Entries
    BY OrderFacts DEF Listing
  <2>3. DOMAIN kids = 1..Len(kids) /\ \A i \in 1..Len(kids) : kids[i] \in Entries
    BY <2>2, LenProperties, ElementOfSeq
  <2> QED BY <2>1, <2>2, <2>3 DEF ToSet
<1>4. /\ tree \in [Paths -> Things] /\ Rooted(tree) /\ options \in Options /\ pc \in Labels
      /\ head \in 0..Len(pending) /\ (pc = "failed") = (failure # "none")
      /\ unknown \subseteq Names
  BY DEF Inv, TypeInv, Typed, Listing
<1> QED BY <1>1, <1>2, <1>3, <1>4 DEF TypeOK, WalkTypeOK, Calls

\* The variables of the walk and of the listing have their types; the queue of
\* a breadth-first walk holds directories to be expanded only; what walk_visit
\* is at work on, and what was printed, had been visited.
THEOREM TypeCorrect == CliSpec => []TypeOK
<1>1. CliInit => Inv /\ Calls
  BY InitTypes, InitOrder DEF CliInit, Inv, Calls
<1>2. Inv /\ Calls /\ [CliNext]_allVars => Inv' /\ Calls'
  BY NextInv, NextCalls
<1>3. Inv /\ Calls => TypeOK
  BY TypesHold
<1> QED BY <1>1, <1>2, <1>3, PTL DEF CliSpec

-----------------------------------------------------------------------------
(* The invariant                                                           *)

\* A kind that was learned of p is right, p being among the paths s of the
\* tree t that nothing has happened to.
TrueKind(t, s, p, kind) == p \in s => kind = KindOf(t[p])

\* What has stood all the time is in a directory that has.
SteadyInv ==
  /\ steady \subseteq Paths
  /\ \A p \in steady : tree[p] # "none" /\ (p # Root => Front(p) \in steady)

KindsTrue ==
  /\ \A k \in DOMAIN log : TrueKind(tree, steady, log[k].path, log[k].kind)
  /\ \A i \in DOMAIN pending : TrueKind(tree, steady, pending[i].path, pending[i].kind)
  /\ pc \notin {"inspect", "done"} => TrueKind(tree, steady, node.path, node.kind)
  /\ \A i \in DOMAIN kids :
       TrueKind(tree, steady, Append(node.path, kids[i].name), kids[i].kind)
  /\ \A e \in found : TrueKind(tree, steady, Append(node.path, e.name), e.kind)

Seen(l, p)     == \E k \in DOMAIN l : l[k].path = p /\ Good(l[k])
FailedAt(l, p) == \E k \in DOMAIN l : l[k].path = p /\ ~Good(l[k])

\* p has been read from its directory, and will be visited.
Awaited(p) ==
  \/ options.order = "depth" /\ \E i \in DOMAIN pending : pending[i].path = p
  \/ pc = "visit" /\ node.path = p
  \/ pc = "kids" /\ \E i \in DOMAIN kids : Append(node.path, kids[i].name) = p
  \/ pc = "lstat" /\ \E n \in unknown : Append(node.path, n) = p
  \/ pc = "lstat" /\ \E e \in found : Append(node.path, e.name) = p

\* The directory p has been visited, and will be read.
ToBeRead(p) ==
  \/ options.order = "breadth" /\ \E i \in DOMAIN pending : i > head /\ pending[i].path = p
  \/ options.order = "depth" /\ p = Root /\ \E i \in DOMAIN pending : pending[i].path = Root
  \/ pc \in {"read", "failed"} /\ node.path = p

Followed(p) ==
  Seen(log, p) \/ FailedAt(log, Front(p)) \/ Awaited(p) \/ ToBeRead(Front(p))

Stopped == pc = "done" /\ result # "OK"

\* Below a directory that was visited.
Due(l, p) == p # Root /\ WithinLimit(Len(p)) /\ SeenAsDirectory(l, Front(p))

NothingLost == Stopped \/ \A p \in steady : Due(log, p) => Followed(p)

\* The walk begins at the root and ends when nothing waits any more.
BeginsAndEnds ==
  /\ pc \in {"inspect", "root"} \/ Stopped \/ Seen(log, Root)
  /\ pc = "done" /\ result = "OK" =>
       IF options.order = "breadth" THEN head = Len(pending) ELSE pending = <<>>

CompleteInv ==
  /\ SteadyInv
  /\ options.visitor = "walk_visit" => KindsTrue /\ NothingLost /\ BeginsAndEnds

All == Inv /\ CompleteInv

-----------------------------------------------------------------------------
(* Lemmas                                                                  *)

\* What is there is found without going through a link.
LEMMA AtThere ==
  ASSUME NEW p \in Paths, tree[p] # "none"
  PROVE  At(p) = tree[p]
BY DEF At

\* One more visit.
LEMMA SeenGrows ==
  ASSUME NEW l \in Seq(Visits), NEW w \in Visits
  PROVE  /\ \A p : Seen(l, p) => Seen(Append(l, w), p)
         /\ \A p : FailedAt(l, p) => FailedAt(Append(l, w), p)
         /\ Good(w) => Seen(Append(l, w), w.path)
         /\ ~Good(w) => FailedAt(Append(l, w), w.path)
         /\ \A p : SeenAsDirectory(Append(l, w), p) =>
              SeenAsDirectory(l, p) \/ (Good(w) /\ w.path = p /\ w.kind = "directory")
         /\ \A k \in DOMAIN Append(l, w) :
              (k \in DOMAIN l /\ Append(l, w)[k] = l[k]) \/ Append(l, w)[k] = w
<1> DEFINE m == Append(l, w)
<1>1. /\ Len(l) \in Nat /\ DOMAIN m = 1..(Len(l) + 1) /\ m[Len(l) + 1] = w
      /\ \A k \in DOMAIN m : (k \in DOMAIN l /\ m[k] = l[k]) \/ m[k] = w
      /\ \A k \in DOMAIN l : k \in DOMAIN m /\ m[k] = l[k]
  BY OneMore
<1> HIDE DEF m
<1>2. \E k \in DOMAIN m : m[k] = w
  BY <1>1
<1>3. \A p : Seen(l, p) => Seen(m, p)
  BY <1>1 DEF Seen
<1>4. \A p : FailedAt(l, p) => FailedAt(m, p)
  BY <1>1 DEF FailedAt
<1>5. /\ Good(w) => Seen(m, w.path)
      /\ ~Good(w) => FailedAt(m, w.path)
  BY <1>2 DEF Seen, FailedAt
<1>6. \A p : SeenAsDirectory(m, p) =>
        SeenAsDirectory(l, p) \/ (Good(w) /\ w.path = p /\ w.kind = "directory")
  BY <1>1 DEF SeenAsDirectory
<1> QED BY <1>1, <1>3, <1>4, <1>5, <1>6 DEF m

\* The depth of what is visited below the root.
LEMMA DueDepth ==
  ASSUME Inv, NEW p \in steady, steady \subseteq Paths, p # Root, WithinLimit(Len(p)),
         NEW n \in PathNodes, n.path = Front(p)
  PROVE  Deeper(n.depth) /\ options.limit # 0
<1>1. p \in Seq(Names) /\ n.depth = Len(Front(p)) /\ n.depth \in Nat
  BY TreeAssumption, NodeType
<1>2. Len(p) = n.depth + 1
  BY <1>1, FrontLast
<1>3. options.limit \in Nat \cup {Unlimited}
  BY OptionsType, OrderFacts
<1> QED BY <1>1, <1>2, <1>3, TreeAssumption DEF WithinLimit, Deeper

\* A step of the walk leaves alone what stands.
LEMMA StepLeaves ==
  ASSUME Step
  PROVE  UNCHANGED <<tree, options, steady, was>>
BY DEF Step, InspectRoot, VisitRoot, TakeFirst, TakeLast, VisitNode, Read, Lstat, ReportFailure,
       VisitKid, PushKids, KidsDone, RunOut, Visit, history

\* It keeps the invariant when it knows true kinds, loses nothing of what was
\* waiting and takes up what is below the directory it visits.
LEMMA Carried ==
  ASSUME All, UNCHANGED <<tree, options, steady>>, pc \notin {"inspect", "root", "done"},
         NEW w \in Visits, log' \in {log, Append(log, w)},
         options.visitor = "walk_visit" =>
           /\ KindsTrue'
           /\ pc' = "done" /\ result' = "OK" =>
                IF options.order = "breadth" THEN head' = Len(pending') ELSE pending' = <<>>
           /\ Stopped' \/ \A p \in steady :
                /\ Due(log, p) /\ Awaited(p) => Followed(p)'
                /\ Due(log, p) /\ ToBeRead(Front(p)) => Followed(p)'
                /\ Due(log', p) /\ log' # log /\ Good(w) /\ w.path = Front(p) /\ w.kind = "directory"
                     => Followed(p)'
  PROVE  CompleteInv'
<1>1. log \in Seq(Visits)
  BY OrderFacts DEF All
<1>2. SteadyInv'
  BY DEF All, CompleteInv, SteadyInv
<1>3. /\ \A p : Seen(log, p) => Seen(log', p)
      /\ \A p : FailedAt(log, p) => FailedAt(log', p)
      /\ \A p : SeenAsDirectory(log', p) =>
           \/ SeenAsDirectory(log, p)
           \/ log' # log /\ Good(w) /\ w.path = p /\ w.kind = "directory"
  <2>1. CASE log' = log
    BY <2>1
  <2>2. CASE log' = Append(log, w) /\ log' # log
    BY <1>1, <2>2, SeenGrows
  <2> QED BY <2>1, <2>2
<1>4. ASSUME options.visitor = "walk_visit" PROVE (KindsTrue /\ NothingLost /\ BeginsAndEnds)'
  <2>1. ~Stopped /\ NothingLost /\ BeginsAndEnds
    BY <1>4 DEF Stopped, All, CompleteInv
  <2>2. Stopped' \/ Seen(log', Root)
    BY <1>3, <2>1 DEF BeginsAndEnds
  <2>3. BeginsAndEnds'
    <3>1. Stopped' \/ Seen(log, Root)'
      BY <2>2 DEF Seen
    <3> QED BY <1>4, <3>1 DEF BeginsAndEnds
  <2>4. NothingLost'
    <3> SUFFICES ASSUME ~Stopped', NEW p \in steady, Due(log, p)'
                 PROVE  Followed(p)'
      BY DEF NothingLost
    <3>1. /\ p # Root /\ WithinLimit(Len(p)) /\ SeenAsDirectory(log', Front(p)) /\ Due(log', p)
      BY DEF Due, WithinLimit, SeenAsDirectory, Good
    <3>2. CASE SeenAsDirectory(log, Front(p))
      <4>1. Due(log, p) /\ Followed(p)
        BY <2>1, <3>1, <3>2 DEF Due, NothingLost
      <4>2. CASE Seen(log, p) \/ FailedAt(log, Front(p))
        <5>1. Seen(log', p) \/ FailedAt(log', Front(p))
          BY <1>3, <4>2
        <5> QED BY <5>1 DEF Followed, Seen, FailedAt
      <4> QED BY <1>4, <4>1, <4>2 DEF Followed
    <3> QED BY <1>3, <1>4, <3>1, <3>2
  <2> QED BY <1>4, <2>3, <2>4
<1> QED BY <1>2, <1>4 DEF CompleteInv

\* What the steps of the walk know of it.
LEMMA CompleteFacts ==
  ASSUME All
  PROVE  /\ Inv /\ Typed /\ Listing /\ Bounded /\ SteadyInv /\ steady \subseteq Paths
         /\ log \in Seq(Visits) /\ pending \in Seq(PathNodes) /\ node \in PathNodes
         /\ head \in Nat /\ Len(pending) \in Nat /\ head <= Len(pending)
         /\ DOMAIN pending = 1..Len(pending)
         /\ node.path \in Seq(Names) /\ node.path \in Paths
         /\ options.visitor = "walk_visit" => KindsTrue /\ NothingLost /\ BeginsAndEnds
         /\ \A p \in steady : /\ p \in Paths /\ p \in Seq(Names) /\ tree[p] # "none"
                              /\ p # Root => tree[Front(p)] = "directory" /\ Front(p) \in steady
<1>1. SteadyInv /\ Inv
  BY DEF All, CompleteInv
<1>2. Rooted(tree)
  BY <1>1, OrderFacts DEF Typed
<1>3. \A p \in steady : /\ p \in Paths /\ p \in Seq(Names) /\ tree[p] # "none"
                        /\ p # Root => tree[Front(p)] = "directory" /\ Front(p) \in steady
  BY <1>1, <1>2, TreeAssumption DEF SteadyInv, Rooted
<1> QED BY <1>1, <1>3, OrderFacts DEF All, CompleteInv, SteadyInv

-----------------------------------------------------------------------------
(* Steps of the walk                                                       *)

LEMMA InspectRootComplete ==
  ASSUME All, InspectRoot
  PROVE  CompleteInv'
<1>1. /\ UNCHANGED <<tree, options, steady, log, pending, head, kids, found>>
      /\ log = <<>> /\ pending = <<>> /\ kids = <<>> /\ found = {}
  BY CompleteFacts DEF InspectRoot, history, Bounded, Listing
<1>2. /\ pc' = "root" \/ (pc' = "done" /\ result' # "OK")
      /\ pc' = "root" => node' = Node(Root, KindOf(tree[Root]), 0)
  BY FaultsType DEF InspectRoot, Goto, Finish
<1>3. SteadyInv'
  BY <1>1, CompleteFacts DEF SteadyInv
<1>4. DOMAIN log' = {} /\ DOMAIN pending' = {} /\ DOMAIN kids' = {}
  BY <1>1
<1>5. KindsTrue'
  BY <1>1, <1>2, <1>4 DEF KindsTrue, TrueKind, Node
<1>6. NothingLost'
  BY <1>4 DEF NothingLost, Due, SeenAsDirectory
<1>7. BeginsAndEnds'
  BY <1>2 DEF BeginsAndEnds, Stopped
<1> QED BY <1>3, <1>5, <1>6, <1>7 DEF CompleteInv

LEMMA VisitRootComplete ==
  ASSUME All, VisitRoot
  PROVE  CompleteInv'
<1> DEFINE w == Visited(node, "OK")
<1>1. /\ pc = "root" /\ UNCHANGED <<tree, options, steady, node, head, kids, found>>
      /\ log = <<>> /\ pending = <<>> /\ kids = <<>> /\ found = {} /\ head = 0
      /\ node.path = Root /\ log' = Append(log, w)
  BY CompleteFacts DEF VisitRoot, Visit, Bounded, Listing
<1>2. /\ w \in Visits /\ w.path = Root /\ w.kind = node.kind /\ Good(w)
  BY <1>1, VisitType, CompleteFacts
<1> HIDE DEF w
<1>3. SteadyInv'
  BY <1>1, CompleteFacts DEF SteadyInv
<1>4. /\ Seen(log', Root)
      /\ \A p : SeenAsDirectory(log', p) => p = Root /\ node.kind = "directory"
      /\ \A k \in DOMAIN log' : log'[k] = w
  <2>1. log \in Seq(Visits) /\ DOMAIN log = {}
    BY <1>1, CompleteFacts
  <2>2. \A p : ~SeenAsDirectory(log, p)
    BY <2>1 DEF SeenAsDirectory
  <2>3. /\ Seen(Append(log, w), w.path)
        /\ \A p : SeenAsDirectory(Append(log, w), p) =>
             SeenAsDirectory(log, p) \/ (Good(w) /\ w.path = p /\ w.kind = "directory")
        /\ \A k \in DOMAIN Append(log, w) :
             (k \in DOMAIN log /\ Append(log, w)[k] = log[k]) \/ Append(log, w)[k] = w
    BY <1>2, <2>1, SeenGrows
  <2> QED BY <1>1, <1>2, <2>1, <2>2, <2>3
<1>5. ASSUME options.visitor = "walk_visit" PROVE (KindsTrue /\ NothingLost /\ BeginsAndEnds)'
  <2>1. \/ /\ Enters(node.kind) /\ options.limit # 0 /\ pending' = <<node>>
           /\ pc' = "next" \/ (pc' = "done" /\ result' # "OK")
        \/ /\ ~(Enters(node.kind) /\ options.limit # 0) /\ pending' = <<>>
           /\ pc' = "done" /\ result' = "OK"
    BY <1>1, <1>5 DEF VisitRoot, Onward, RunsOut, Goto, Finish
  <2>2. /\ DOMAIN pending' \subseteq {1} /\ DOMAIN kids' = {}
        /\ \A i \in DOMAIN pending' : pending'[i] = node
        /\ pending' = <<node>> => 1 \in DOMAIN pending'
    BY <1>1, <2>1
  <2>3. KindsTrue'
    <3>1. TrueKind(tree, steady, node.path, node.kind)
      BY <1>1, <1>5, CompleteFacts DEF KindsTrue
    <3> QED BY <1>1, <1>2, <1>4, <2>2, <3>1 DEF KindsTrue
  <2>4. NothingLost'
    <3> SUFFICES ASSUME ~Stopped', NEW p \in steady, Due(log, p)'
                 PROVE  Followed(p)'
      BY <1>1 DEF NothingLost
    <3>1. p # Root /\ WithinLimit(Len(p)) /\ SeenAsDirectory(log', Front(p))
      BY <1>1 DEF Due, WithinLimit, SeenAsDirectory, Good
    <3>2. Front(p) = Root /\ node.kind = "directory"
      BY <1>4, <3>1
    <3>3. options.limit # 0
      BY <1>1, <3>1, <3>2, DueDepth, CompleteFacts
    <3>4. pending' = <<node>>
      BY <2>1, <3>2, <3>3 DEF Enters
    <3>5. 1 \in DOMAIN pending' /\ pending'[1].path = Root /\ 1 > head'
      BY <1>1, <2>2, <3>4
    <3>6. options'.order \in {"breadth", "depth"}
      BY <1>1, OptionsType, CompleteFacts
    <3>7. ToBeRead(Front(p))'
      BY <3>2, <3>5, <3>6 DEF ToBeRead
    <3> QED BY <3>7 DEF Followed
  <2>5. BeginsAndEnds'
    <3>1. Seen(log, Root)'
      BY <1>4 DEF Seen
    <3>2. pending' = <<>> => head' = Len(pending')
      BY <1>1
    <3> QED BY <2>1, <3>1, <3>2 DEF BeginsAndEnds
  <2> QED BY <2>3, <2>4, <2>5
<1> QED BY <1>1, <1>3, <1>5 DEF CompleteInv

LEMMA TakeFirstComplete ==
  ASSUME All, TakeFirst
  PROVE  CompleteInv'
<1>1. /\ pc = "next" /\ options.order = "breadth"
      /\ UNCHANGED <<tree, options, steady, log, pending, kids, found>>
      /\ \/ /\ head < Len(pending) /\ node' = pending[head + 1] /\ head' = head + 1
            /\ pc' = "read"
         \/ /\ ~(head < Len(pending)) /\ pc' = "done" /\ UNCHANGED <<node, head>>
  BY DEF TakeFirst, Goto, Finish, history
<1>2. kids = <<>> /\ found = {} /\ DOMAIN kids = {}
  BY <1>1, CompleteFacts DEF Listing
<1>3. head < Len(pending) => head + 1 \in DOMAIN pending
  BY CompleteFacts
<1>4. ASSUME options.visitor = "walk_visit" PROVE KindsTrue'
  <2>1. KindsTrue
    BY <1>4, CompleteFacts
  <2> QED BY <1>1, <1>2, <1>3, <2>1 DEF KindsTrue
<1>5. pc' = "done" => head' = Len(pending')
  BY <1>1, CompleteFacts
<1>6. ASSUME NEW p \in steady, Awaited(p) PROVE Followed(p)'
  BY <1>1, <1>6 DEF Awaited
<1>7. ASSUME NEW p \in steady, ToBeRead(Front(p)) PROVE Followed(p)'
  <2>1. PICK i \in DOMAIN pending : i > head /\ pending[i].path = Front(p)
    BY <1>1, <1>7 DEF ToBeRead
  <2>2. head < Len(pending)
    BY <2>1, CompleteFacts
  <2>3. CASE i = head + 1
    <3>1. pc' = "read" /\ node'.path = Front(p)
      BY <1>1, <2>1, <2>2, <2>3
    <3> QED BY <3>1 DEF Followed, ToBeRead
  <2>4. CASE i # head + 1
    <3>1. i > head' /\ i \in DOMAIN pending' /\ pending'[i].path = Front(p)
      BY <1>1, <2>1, <2>2, <2>4, CompleteFacts
    <3> QED BY <1>1, <3>1 DEF Followed, ToBeRead
  <2> QED BY <2>3, <2>4
<1>8. Visited(node, "OK") \in Visits
  BY VisitType, CompleteFacts
<1> QED BY <1>1, <1>4, <1>5, <1>6, <1>7, <1>8, Carried

LEMMA TakeLastComplete ==
  ASSUME All, TakeLast
  PROVE  CompleteInv'
<1>1. /\ pc = "next" /\ options.order = "depth"
      /\ UNCHANGED <<tree, options, steady, log, head, kids, found>>
      /\ \/ /\ pending # <<>> /\ node' = Last(pending) /\ pending' = Front(pending)
            /\ pc' = IF node'.depth > 0 THEN "visit" ELSE "read"
         \/ pending = <<>> /\ pc' = "done" /\ UNCHANGED <<node, pending>>
  BY DEF TakeLast, Goto, Finish, history
<1>2. kids = <<>> /\ found = {} /\ DOMAIN kids = {}
  BY <1>1, CompleteFacts DEF Listing
<1>3. ASSUME pending # <<>>
      PROVE  /\ Len(pending) \in DOMAIN pending /\ node' = pending[Len(pending)]
             /\ node' \in PathNodes
             /\ \A i \in DOMAIN pending' : i \in DOMAIN pending /\ pending'[i] = pending[i]
             /\ \A i \in DOMAIN pending :
                  i = Len(pending) \/ (i \in DOMAIN pending' /\ pending'[i] = pending[i])
  <2>1. /\ Last(pending) \in PathNodes /\ Len(pending) \in Nat /\ Len(pending) > 0
        /\ DOMAIN pending = 1..Len(pending) /\ DOMAIN Front(pending) = 1..(Len(pending) - 1)
        /\ \A i \in 1..(Len(pending) - 1) : Front(pending)[i] = pending[i]
        /\ Last(pending) = pending[Len(pending)]
    BY <1>3, Popped, CompleteFacts
  <2>2. node' = Last(pending) /\ pending' = Front(pending)
    BY <1>1, <1>3
  <2> DEFINE m == Len(pending)
  <2>3. m \in Nat /\ m > 0 /\ DOMAIN pending = 1..m /\ DOMAIN pending' = 1..(m - 1)
    BY <2>1, <2>2
  <2>4. \A i \in 1..(m - 1) : pending'[i] = pending[i]
    BY <2>1, <2>2
  <2>5. node' = pending[m] /\ node' \in PathNodes
    BY <2>1, <2>2
  <2> HIDE DEF m
  <2>6. /\ m \in DOMAIN pending
        /\ \A i \in DOMAIN pending' : i \in DOMAIN pending /\ pending'[i] = pending[i]
        /\ \A i \in DOMAIN pending : i = m \/ (i \in DOMAIN pending' /\ pending'[i] = pending[i])
    BY <2>3, <2>4
  <2> QED BY <2>5, <2>6 DEF m
<1>4. ASSUME options.visitor = "walk_visit" PROVE KindsTrue'
  <2>1. KindsTrue
    BY <1>4, CompleteFacts
  <2> QED BY <1>1, <1>2, <1>3, <2>1 DEF KindsTrue
<1>5. ASSUME NEW p \in steady, Due(log, p), Awaited(p) PROVE Followed(p)'
  <2>1. PICK i \in DOMAIN pending : pending[i].path = p
    BY <1>1, <1>5 DEF Awaited
  <2>2. pending # <<>>
    BY <2>1
  <2>3. CASE i = Len(pending)
    <3>1. node'.path = p /\ node' \in PathNodes
      BY <1>3, <2>1, <2>2, <2>3
    <3>2. node'.depth > 0
      BY <1>5, <3>1, NodeType DEF Due
    <3>3. pc' = "visit"
      BY <1>1, <2>2, <3>2
    <3> QED BY <3>1, <3>3 DEF Followed, Awaited
  <2>4. CASE i # Len(pending)
    <3>1. i \in DOMAIN pending' /\ pending'[i].path = p
      BY <1>3, <2>1, <2>2, <2>4
    <3> QED BY <1>1, <3>1 DEF Followed, Awaited
  <2> QED BY <2>3, <2>4
<1>6. ASSUME NEW p \in steady, ToBeRead(Front(p)) PROVE Followed(p)'
  <2>1. PICK i \in DOMAIN pending : pending[i].path = Root
    BY <1>1, <1>6 DEF ToBeRead
  <2>2. pending # <<>> /\ Front(p) = Root
    BY <1>1, <1>6, <2>1 DEF ToBeRead
  <2>3. CASE i = Len(pending)
    <3>1. node'.path = Root /\ node'.depth = 0
      BY <1>3, <2>1, <2>2, <2>3, NodeType
    <3>2. pc' = "read"
      BY <1>1, <2>2, <3>1
    <3> QED BY <2>2, <3>1, <3>2 DEF Followed, ToBeRead
  <2>4. CASE i # Len(pending)
    <3>1. i \in DOMAIN pending' /\ pending'[i].path = Root
      BY <1>3, <2>1, <2>2, <2>4
    <3> QED BY <1>1, <2>2, <3>1 DEF Followed, ToBeRead
  <2> QED BY <2>3, <2>4
<1>7. Visited(node, "OK") \in Visits
  BY VisitType, CompleteFacts
<1>8. pc' = "done" => pending' = <<>>
  BY <1>1
<1> QED BY <1>1, <1>4, <1>5, <1>6, <1>7, <1>8, Carried

LEMMA VisitNodeComplete ==
  ASSUME All, VisitNode
  PROVE  CompleteInv'
<1> DEFINE w == Visited(node, "OK")
<1>1. /\ pc = "visit" /\ options.order = "depth" /\ log' = Append(log, w)
      /\ UNCHANGED <<tree, options, steady, node, pending, head, kids, found>>
      /\ options.visitor = "walk_visit" =>
           pc' = IF Enters(node.kind) /\ Deeper(node.depth) THEN "read" ELSE "next"
  BY CompleteFacts DEF VisitNode, Visit, Onward, Goto, Finish, Bounded
<1>2. w \in Visits /\ w.path = node.path /\ w.kind = node.kind /\ Good(w)
  BY VisitType, CompleteFacts
<1> HIDE DEF w
<1>3. kids = <<>> /\ found = {} /\ DOMAIN kids = {}
  BY <1>1, CompleteFacts DEF Listing
<1>4. /\ Seen(log', node.path)
      /\ \A k \in DOMAIN log' : (k \in DOMAIN log /\ log'[k] = log[k]) \/ log'[k] = w
  BY <1>1, <1>2, SeenGrows, CompleteFacts
<1>5. ASSUME options.visitor = "walk_visit" PROVE KindsTrue'
  <2>1. KindsTrue /\ TrueKind(tree, steady, w.path, w.kind)
    BY <1>1, <1>2, <1>5, CompleteFacts DEF KindsTrue
  <2>2. \A k \in DOMAIN log' : TrueKind(tree, steady, log'[k].path, log'[k].kind)
    BY <1>4, <2>1 DEF KindsTrue
  <2> QED BY <1>1, <1>3, <2>1, <2>2 DEF KindsTrue
<1>6. ASSUME NEW p \in steady, Awaited(p) PROVE Followed(p)'
  <2>1. CASE node.path = p
    <3>1. Seen(log', p)
      BY <1>4, <2>1
    <3> QED BY <3>1 DEF Followed, Seen
  <2>2. CASE \E i \in DOMAIN pending : pending[i].path = p
    BY <1>1, <2>2 DEF Followed, Awaited
  <2> QED BY <1>1, <1>6, <2>1, <2>2 DEF Awaited
<1>7. ASSUME NEW p \in steady, ToBeRead(Front(p)) PROVE Followed(p)'
  BY <1>1, <1>7 DEF Followed, ToBeRead
<1>8. ASSUME options.visitor = "walk_visit", NEW p \in steady, Due(log', p),
             w.path = Front(p), w.kind = "directory"
      PROVE  Followed(p)'
  <2>1. Deeper(node.depth)
    BY <1>2, <1>8, DueDepth, CompleteFacts DEF Due
  <2>2. pc' = "read"
    BY <1>1, <1>2, <1>8, <2>1 DEF Enters
  <2>3. node'.path = Front(p)
    BY <1>1, <1>2, <1>8
  <2> QED BY <2>2, <2>3 DEF Followed, ToBeRead
<1>9. options.visitor = "walk_visit" => pc' # "done"
  BY <1>1
<1> QED BY <1>1, <1>2, <1>5, <1>6, <1>7, <1>8, <1>9, Carried

\* A listing has all that stands in the directory, with its kind.
LEMMA Listed ==
  ASSUME All, NEW d \in Paths
  PROVE  /\ \A p \in steady : p # Root /\ Front(p) = d =>
              \E n \in Children(d) : Append(d, n) = p
         /\ \A n \in Names : Append(d, n) \in Paths =>
              TrueKind(tree, steady, Append(d, n), Entry(d, n).kind)
         /\ \A n \in Names : Entry(d, n).name = n
<1>1. ASSUME NEW p \in steady, p # Root, Front(p) = d PROVE \E n \in Children(d) : Append(d, n) = p
  <2>1. p \in Paths /\ p \in Seq(Names) /\ tree[p] # "none"
    BY CompleteFacts
  <2>2. p = Append(d, Last(p)) /\ Last(p) \in Names
    BY <1>1, <2>1, FrontLast
  <2>3. At(p) # "none"
    BY <2>1, AtThere
  <2>4. Last(p) \in Children(d)
    BY <2>1, <2>2, <2>3 DEF Children
  <2> QED BY <2>2, <2>4
<1>2. ASSUME NEW n \in Names, Append(d, n) \in Paths
      PROVE  TrueKind(tree, steady, Append(d, n), Entry(d, n).kind)
  <2> DEFINE p == Append(d, n)
  <2>1. p \in steady => At(p) = tree[p]
    BY <1>2, CompleteFacts, AtThere
  <2> QED BY <2>1 DEF TrueKind, Entry
<1> QED BY <1>1, <1>2 DEF Entry

\* What is sorted is what was there.
LEMMA SortedAll ==
  ASSUME NEW E, IsFiniteSet(E), E \subseteq Entries, \A d, e \in E : d.name = e.name => d = e
  PROVE  /\ \A i \in DOMAIN Sorted(E) : Sorted(E)[i] \in E
         /\ \A e \in E : \E i \in DOMAIN Sorted(E) : Sorted(E)[i] = e
<1>1. ToSet(Sorted(E)) = E
  BY SortedEntries
<1> QED BY <1>1 DEF ToSet

LEMMA ReadComplete ==
  ASSUME All, Read
  PROVE  CompleteInv'
<1> DEFINE E == {Entry(node.path, n) : n \in Children(node.path)}
<1>1. /\ pc = "read" /\ UNCHANGED <<tree, options, steady, log, node, pending, head, found>>
      /\ \/ kids' = Sorted(E) /\ pc' = "kids"
         \/ unknown' = Children(node.path) /\ pc' = "lstat" /\ UNCHANGED kids
         \/ pc' = "failed" /\ UNCHANGED kids
  BY DEF Read, Goto, history
<1>2. kids = <<>> /\ found = {} /\ DOMAIN kids = {}
  BY <1>1, CompleteFacts DEF Listing
<1>3. /\ E \subseteq Entries /\ IsFiniteSet(E) /\ \A d, e \in E : d.name = e.name => d = e
      /\ \A e \in E : Append(node.path, e.name) \in Paths
  BY EntriesRead, CompleteFacts
<1>4. \A n \in Children(node.path) : n \in Names /\ Append(node.path, n) \in Paths
  BY DEF Children
<1>5. /\ \A p \in steady : p # Root /\ Front(p) = node.path =>
           \E n \in Children(node.path) : Append(node.path, n) = p
      /\ \A n \in Children(node.path) :
           /\ TrueKind(tree, steady, Append(node.path, n), Entry(node.path, n).kind)
           /\ Entry(node.path, n).name = n
  BY <1>4, Listed, CompleteFacts
<1>6. \A e \in E : TrueKind(tree, steady, Append(node.path, e.name), e.kind)
  BY <1>5
<1>7. /\ \A n \in Children(node.path) : \E e \in E : e.name = n
  BY <1>5
<1> HIDE DEF E
<1>8. pc' = "kids" => /\ \A i \in DOMAIN kids' : kids'[i] \in E
                      /\ \A e \in E : \E i \in DOMAIN kids' : kids'[i] = e
  BY <1>1, <1>3, SortedAll
<1>9. ASSUME options.visitor = "walk_visit" PROVE KindsTrue'
  <2>1. KindsTrue
    BY <1>9, CompleteFacts
  <2>2. \A i \in DOMAIN kids' :
          TrueKind(tree, steady, Append(node.path, kids'[i].name), kids'[i].kind)
    BY <1>1, <1>2, <1>6, <1>8
  <2> QED BY <1>1, <1>2, <2>1, <2>2 DEF KindsTrue
<1>10. ASSUME NEW p \in steady, Awaited(p) PROVE Followed(p)'
  BY <1>1, <1>10 DEF Followed, Awaited
<1>11. ASSUME NEW p \in steady, Due(log, p), ToBeRead(Front(p)) PROVE Followed(p)'
  <2>1. CASE Front(p) = node.path
    <3>1. PICK n \in Children(node.path) : Append(node.path, n) = p
      BY <1>5, <1>11, <2>1 DEF Due
    <3>2. CASE pc' = "kids"
      <4>1. PICK i \in DOMAIN kids' : kids'[i].name = n
        BY <1>7, <1>8, <3>2
      <4>2. Append(node'.path, kids'[i].name) = p
        BY <1>1, <3>1, <4>1
      <4> QED BY <3>2, <4>1, <4>2 DEF Followed, Awaited
    <3>3. CASE pc' = "lstat"
      <4>1. n \in unknown' /\ Append(node'.path, n) = p
        BY <1>1, <3>1, <3>3
      <4> QED BY <3>3, <4>1 DEF Followed, Awaited
    <3>4. CASE pc' = "failed"
      BY <1>1, <2>1, <3>4 DEF Followed, ToBeRead
    <3> QED BY <1>1, <3>2, <3>3, <3>4
  <2>2. CASE Front(p) # node.path
    BY <1>1, <1>11, <2>2 DEF Followed, ToBeRead
  <2> QED BY <2>1, <2>2
<1>12. Visited(node, "OK") \in Visits
  BY VisitType, CompleteFacts
<1>13. pc' # "done"
  BY <1>1
<1> QED BY <1>1, <1>9, <1>10, <1>11, <1>12, <1>13, Carried

LEMMA LstatComplete ==
  ASSUME All, Lstat
  PROVE  CompleteInv'
<1>1. /\ pc = "lstat" /\ UNCHANGED <<tree, options, steady, log, node, pending, head>>
      /\ \/ unknown = {} /\ kids' = Sorted(found) /\ found' = {} /\ pc' = "kids"
         \/ \E n \in unknown : /\ At(Append(node.path, n)) # "none"
                               /\ found' = found \cup {Entry(node.path, n)}
                               /\ unknown' = unknown \ {n} /\ pc' = "lstat" /\ UNCHANGED kids
         \/ found' = {} /\ pc' = "failed" /\ UNCHANGED kids
  BY DEF Lstat, Goto, history
<1>2. /\ kids = <<>> /\ DOMAIN kids = {} /\ found \subseteq Entries /\ IsFiniteSet(found)
      /\ \A d, e \in found : d.name = e.name => d = e
      /\ unknown \subseteq Names /\ \A n \in unknown : Append(node.path, n) \in Paths
  BY <1>1, CompleteFacts DEF Listing
<1>3. pc' = "kids" => /\ \A i \in DOMAIN kids' : kids'[i] \in found
                      /\ \A e \in found : \E i \in DOMAIN kids' : kids'[i] = e
  BY <1>1, <1>2, SortedAll
<1>4. \A n \in unknown : /\ TrueKind(tree, steady, Append(node.path, n), Entry(node.path, n).kind)
                         /\ Entry(node.path, n).name = n
  BY <1>2, Listed, CompleteFacts
<1>5. ASSUME options.visitor = "walk_visit" PROVE KindsTrue'
  <2>1. KindsTrue
    BY <1>5, CompleteFacts
  <2>2. \A i \in DOMAIN kids' :
          TrueKind(tree, steady, Append(node.path, kids'[i].name), kids'[i].kind)
    BY <1>1, <1>2, <1>3, <2>1 DEF KindsTrue
  <2>3. \A e \in found' : TrueKind(tree, steady, Append(node.path, e.name), e.kind)
    BY <1>1, <1>4, <2>1 DEF KindsTrue
  <2> QED BY <1>1, <2>1, <2>2, <2>3 DEF KindsTrue
<1>6. ASSUME NEW p \in steady, Due(log, p), Awaited(p) PROVE Followed(p)'
  <2>1. CASE options.order = "depth" /\ \E i \in DOMAIN pending : pending[i].path = p
    BY <1>1, <2>1 DEF Followed, Awaited
  <2>2. ASSUME NEW q \in Names, Append(node.path, q) = p PROVE Front(p) = node.path
    <3>1. node.path \in Seq(Names)
      BY CompleteFacts
    <3> QED BY <2>2, <3>1, ChildPath
  <2>3. CASE \E n \in unknown : Append(node.path, n) = p
    <3>1. PICK n \in unknown : Append(node.path, n) = p
      BY <2>3
    <3>2. CASE pc' = "lstat"
      <4>1. \/ n \in unknown'
            \/ \E e \in found' : e.name = n
        BY <1>1, <1>4, <3>2
      <4> QED BY <1>1, <3>1, <3>2, <4>1 DEF Followed, Awaited
    <3>3. CASE pc' = "failed"
      <4>1. node'.path = Front(p)
        BY <1>1, <1>2, <2>2, <3>1
      <4> QED BY <3>3, <4>1 DEF Followed, ToBeRead
    <3> QED BY <1>1, <3>1, <3>2, <3>3
  <2>4. CASE \E e \in found : Append(node.path, e.name) = p
    <3>1. PICK e \in found : Append(node.path, e.name) = p
      BY <2>4
    <3>2. CASE pc' = "lstat"
      <4>1. e \in found' /\ Append(node'.path, e.name) = p
        BY <1>1, <3>1, <3>2
      <4> QED BY <3>2, <4>1 DEF Followed, Awaited
    <3>3. CASE pc' = "failed"
      <4>1. e.name \in Names
        BY <1>2 DEF Entries
      <4>2. node'.path = Front(p)
        BY <1>1, <2>2, <3>1, <4>1
      <4> QED BY <3>3, <4>2 DEF Followed, ToBeRead
    <3>4. CASE pc' = "kids"
      <4>1. PICK i \in DOMAIN kids' : kids'[i] = e
        BY <1>3, <3>4
      <4>2. Append(node'.path, kids'[i].name) = p
        BY <1>1, <3>1, <4>1
      <4> QED BY <3>4, <4>1, <4>2 DEF Followed, Awaited
    <3> QED BY <1>1, <3>2, <3>3, <3>4
  <2> QED BY <1>1, <1>6, <2>1, <2>3, <2>4 DEF Awaited
<1>7. ASSUME NEW p \in steady, ToBeRead(Front(p)) PROVE Followed(p)'
  BY <1>1, <1>7 DEF Followed, ToBeRead
<1>8. Visited(node, "OK") \in Visits
  BY VisitType, CompleteFacts
<1>9. pc' # "done"
  BY <1>1
<1> QED BY <1>1, <1>5, <1>6, <1>7, <1>8, <1>9, Carried

LEMMA ReportFailureComplete ==
  ASSUME All, ReportFailure
  PROVE  CompleteInv'
<1> DEFINE w == Visited(node, failure)
<1>1. /\ pc = "failed" /\ log' = Append(log, w)
      /\ UNCHANGED <<tree, options, steady, node, pending, head, kids, found>>
      /\ options.visitor = "walk_visit" => pc' = "next"
  BY DEF ReportFailure, Visit, Onward, Goto, Finish
<1>2. w \in Visits /\ w.path = node.path /\ w.kind = node.kind /\ ~Good(w)
  <2>1. failure \in Faults \cup {"NotFound"} /\ failure # "OK"
    BY <1>1, FaultsType, CompleteFacts DEF Typed
  <2> QED BY <2>1, VisitType, CompleteFacts
<1> HIDE DEF w
<1>3. kids = <<>> /\ found = {} /\ DOMAIN kids = {}
  BY <1>1, CompleteFacts DEF Listing
<1>4. /\ FailedAt(log', node.path)
      /\ \A k \in DOMAIN log' : (k \in DOMAIN log /\ log'[k] = log[k]) \/ log'[k] = w
  BY <1>1, <1>2, SeenGrows, CompleteFacts
<1>5. ASSUME options.visitor = "walk_visit" PROVE KindsTrue'
  <2>1. KindsTrue /\ TrueKind(tree, steady, w.path, w.kind)
    BY <1>1, <1>2, <1>5, CompleteFacts DEF KindsTrue
  <2>2. \A k \in DOMAIN log' : TrueKind(tree, steady, log'[k].path, log'[k].kind)
    BY <1>4, <2>1 DEF KindsTrue
  <2> QED BY <1>1, <1>3, <2>1, <2>2 DEF KindsTrue
<1>6. ASSUME NEW p \in steady, Awaited(p) PROVE Followed(p)'
  BY <1>1, <1>6 DEF Followed, Awaited
<1>7. ASSUME NEW p \in steady, ToBeRead(Front(p)) PROVE Followed(p)'
  <2>1. CASE node.path = Front(p)
    <3>1. FailedAt(log', Front(p))
      BY <1>4, <2>1
    <3> QED BY <3>1 DEF Followed, FailedAt
  <2>2. CASE node.path # Front(p)
    BY <1>1, <1>7, <2>2 DEF Followed, ToBeRead
  <2> QED BY <2>1, <2>2
<1>8. options.visitor = "walk_visit" => pc' # "done"
  BY <1>1
<1> QED BY <1>1, <1>2, <1>5, <1>6, <1>7, <1>8, Carried

\* The queue or stack with one more at its end.
LEMMA OneMoreNode ==
  ASSUME NEW s \in Seq(PathNodes), NEW n \in PathNodes
  PROVE  /\ \A i \in DOMAIN s : i \in DOMAIN Append(s, n) /\ Append(s, n)[i] = s[i]
         /\ Len(s) + 1 \in DOMAIN Append(s, n) /\ Append(s, n)[Len(s) + 1] = n
         /\ \A i \in DOMAIN Append(s, n) :
              (i \in DOMAIN s /\ Append(s, n)[i] = s[i]) \/ Append(s, n)[i] = n
<1> DEFINE m == Append(s, n)
           z == Len(s)
<1>1. /\ m \in Seq(PathNodes) /\ Len(m) = z + 1
      /\ \A i \in 1..z : m[i] = s[i]
      /\ m[z + 1] = n
  BY AppendProperties
<1>2. z \in Nat /\ DOMAIN s = 1..z
  BY LenProperties
<1>3. DOMAIN m = 1..(z + 1)
  BY <1>1, LenProperties
<1> HIDE DEF m, z
<1>4. \A i \in 1..(z + 1) : i \in 1..z \/ i = z + 1
  BY <1>2
<1>5. z + 1 \in DOMAIN m /\ 1..z \subseteq DOMAIN m
  BY <1>2, <1>3
<1> QED BY <1>1, <1>2, <1>3, <1>4, <1>5 DEF m, z

LEMMA VisitKidComplete ==
  ASSUME All, VisitKid
  PROVE  CompleteInv'
<1> DEFINE name == Head(kids).name
           child == Child(Head(kids))
           w == Visited(child, "OK")
<1>1. /\ pc = "kids" /\ options.order = "breadth" /\ kids # <<>> /\ log' = Append(log, w)
      /\ UNCHANGED <<tree, options, steady, node, head, found>> /\ kids' = Tail(kids)
      /\ pending' \in {pending, Append(pending, child)}
      /\ options.visitor = "walk_visit" /\ ~Stopped' =>
           /\ pc' = "kids"
           /\ Enters(child.kind) /\ Deeper(child.depth) => pending' = Append(pending, child)
      /\ pc' = "done" /\ options.visitor = "walk_visit" => result' # "OK"
  BY DEF VisitKid, Visit, Onward, RunsOut, Goto, Finish, Stopped
<1>2. /\ Head(kids) \in Entries /\ Append(node.path, name) \in Paths
      /\ Head(kids) = kids[1] /\ 1 \in DOMAIN kids
      /\ \A i \in DOMAIN Tail(kids) : i + 1 \in DOMAIN kids /\ Tail(kids)[i] = kids[i + 1]
  BY <1>1, RestOfKids, CompleteFacts
<1>3. child \in PathNodes /\ child.path = Append(node.path, name) /\ child.kind = Head(kids).kind
  BY <1>2, ChildType, CompleteFacts
<1> HIDE DEF child
<1>4. w \in Visits /\ w.path = child.path /\ w.kind = child.kind /\ Good(w)
  BY <1>3, VisitType
<1> HIDE DEF w, name
<1>5. /\ Seen(log', child.path)
      /\ \A k \in DOMAIN log' : (k \in DOMAIN log /\ log'[k] = log[k]) \/ log'[k] = w
  BY <1>1, <1>4, SeenGrows, CompleteFacts
<1>6. /\ \A i \in DOMAIN pending : i \in DOMAIN pending' /\ pending'[i] = pending[i]
      /\ \A i \in DOMAIN pending' : (i \in DOMAIN pending /\ pending'[i] = pending[i]) \/ pending'[i] = child
      /\ pending' = Append(pending, child) =>
           Len(pending) + 1 \in DOMAIN pending' /\ pending'[Len(pending) + 1] = child
  <2>1. pending \in Seq(PathNodes)
    BY CompleteFacts
  <2>2. CASE pending' = Append(pending, child)
    BY <1>3, <2>1, <2>2, OneMoreNode
  <2>3. CASE pending' = pending /\ pending' # Append(pending, child)
    BY <2>3
  <2> QED BY <1>1, <2>2, <2>3
<1>7. \A i \in DOMAIN kids : i = 1 \/ (i - 1 \in DOMAIN Tail(kids) /\ Tail(kids)[i - 1] = kids[i])
  <2>1. /\ kids \in Seq(Entries) /\ Tail(kids) \in Seq(Entries) /\ Len(Tail(kids)) = Len(kids) - 1
        /\ \A i \in 1..Len(Tail(kids)) : Tail(kids)[i] = kids[i + 1]
        /\ Len(kids) \in Nat /\ DOMAIN kids = 1..Len(kids)
    <3>1. kids \in Seq(Entries)
      BY CompleteFacts DEF Listing
    <3> QED BY <1>1, <3>1, HeadTailProperties, LenProperties
  <2>2. DOMAIN Tail(kids) = 1..(Len(kids) - 1)
    BY <2>1, LenProperties
  <2> DEFINE t == Tail(kids)
             m == Len(kids)
  <2>3. m \in Nat /\ DOMAIN kids = 1..m /\ DOMAIN t = 1..(m - 1) /\ \A i \in 1..(m - 1) : t[i] = kids[i + 1]
    BY <2>1, <2>2
  <2> HIDE DEF t, m
  <2>4. ASSUME NEW i \in DOMAIN kids, i # 1 PROVE i - 1 \in DOMAIN t /\ t[i - 1] = kids[i]
    <3>1. i - 1 \in 1..(m - 1) /\ (i - 1) + 1 = i
      BY <2>3, <2>4
    <3>2. t[i - 1] = kids[(i - 1) + 1]
      BY <2>3, <3>1
    <3> QED BY <2>3, <3>1, <3>2
  <2> QED BY <2>4 DEF t
<1>8. ASSUME options.visitor = "walk_visit" PROVE KindsTrue'
  <2>1. KindsTrue
    BY <1>8, CompleteFacts
  <2>2. TrueKind(tree, steady, child.path, child.kind)
    BY <1>2, <1>3, <2>1 DEF KindsTrue, name
  <2>3. \A k \in DOMAIN log' : TrueKind(tree, steady, log'[k].path, log'[k].kind)
    BY <1>4, <1>5, <2>1, <2>2 DEF KindsTrue
  <2>4. \A i \in DOMAIN pending' : TrueKind(tree, steady, pending'[i].path, pending'[i].kind)
    BY <1>6, <2>1, <2>2 DEF KindsTrue
  <2>5. \A i \in DOMAIN kids' :
          TrueKind(tree, steady, Append(node.path, kids'[i].name), kids'[i].kind)
    BY <1>1, <1>2, <2>1 DEF KindsTrue
  <2> QED BY <1>1, <2>1, <2>3, <2>4, <2>5 DEF KindsTrue
<1>9. ASSUME options.visitor = "walk_visit", ~Stopped', NEW p \in steady, Awaited(p)
      PROVE  Followed(p)'
  <2>1. PICK i \in DOMAIN kids : Append(node.path, kids[i].name) = p
    BY <1>1, <1>9 DEF Awaited
  <2>2. CASE i = 1
    <3>1. Seen(log', p)
      BY <1>2, <1>3, <1>5, <2>1, <2>2 DEF name
    <3> QED BY <3>1 DEF Followed, Seen
  <2>3. CASE i # 1
    <3>1. i - 1 \in DOMAIN kids' /\ kids'[i - 1] = kids[i]
      BY <1>1, <1>7, <2>3
    <3>2. Append(node'.path, kids'[i - 1].name) = p
      BY <1>1, <2>1, <3>1
    <3> QED BY <1>1, <1>9, <3>1, <3>2 DEF Followed, Awaited
  <2> QED BY <2>2, <2>3
<1>10. ASSUME NEW p \in steady, ToBeRead(Front(p)) PROVE Followed(p)'
  BY <1>1, <1>6, <1>10 DEF Followed, ToBeRead
<1>11. ASSUME options.visitor = "walk_visit", ~Stopped', NEW p \in steady, Due(log', p),
              w.path = Front(p), w.kind = "directory"
       PROVE  Followed(p)'
  <2>1. Deeper(child.depth)
    BY <1>3, <1>4, <1>11, DueDepth, CompleteFacts DEF Due
  <2>2. pending' = Append(pending, child)
    BY <1>1, <1>4, <1>11, <2>1 DEF Enters
  <2>3. /\ Len(pending) + 1 \in DOMAIN pending' /\ Len(pending) + 1 > head'
        /\ pending'[Len(pending) + 1].path = Front(p)
    <3>1. head' = head /\ head \in Nat /\ Len(pending) \in Nat /\ head <= Len(pending)
      BY <1>1, CompleteFacts
    <3>2. Len(pending) + 1 > head'
      BY <3>1
    <3>3. child.path = Front(p)
      BY <1>4, <1>11
    <3> QED BY <1>6, <2>2, <3>2, <3>3
  <2> QED BY <1>1, <2>3 DEF Followed, ToBeRead
<1> QED BY <1>1, <1>4, <1>8, <1>9, <1>10, <1>11, Carried

LEMMA PushKidsComplete ==
  ASSUME All, PushKids
  PROVE  CompleteInv'
<1> DEFINE n == Len(kids)
           m == Len(pending)
           pushed == PushOrder([i \in DOMAIN kids |-> Child(kids[i])])
<1>1. /\ pc = "kids" /\ pc' = "kids" /\ options.order = "depth"
      /\ UNCHANGED <<tree, options, steady, log, node, head, found>>
      /\ pending' = pending \o pushed /\ kids' = <<>>
  BY DEF PushKids, Goto, history
<1>2. /\ n \in Nat /\ DOMAIN kids = 1..n /\ pushed \in Seq(PathNodes) /\ Len(pushed) = n
      /\ \A i \in 1..n : n - i + 1 \in 1..n /\ pushed[i] = Child(kids[n - i + 1])
  BY Pushed, CompleteFacts
<1>3. pending \in Seq(PathNodes) /\ m \in Nat /\ DOMAIN pending = 1..m
  BY CompleteFacts
<1> HIDE DEF n, pushed
<1>4. /\ pending' \in Seq(PathNodes) /\ Len(pending') = m + n
      /\ \A i \in 1..(m + n) : pending'[i] = IF i <= m THEN pending[i] ELSE pushed[i - m]
  <2> HIDE DEF m
  <2>1. /\ pending \o pushed \in Seq(PathNodes)
        /\ Len(pending \o pushed) = Len(pending) + Len(pushed)
        /\ \A i \in 1..(Len(pending) + Len(pushed)) :
             (pending \o pushed)[i] =
               IF i <= Len(pending) THEN pending[i] ELSE pushed[i - Len(pending)]
    BY <1>2, <1>3, ConcatProperties
  <2> QED BY <1>1, <1>2, <2>1 DEF m
<1>5. DOMAIN pending' = 1..(m + n)
  BY <1>4, LenProperties
<1> HIDE DEF m
<1>6. \A i \in DOMAIN pending : i \in DOMAIN pending' /\ pending'[i] = pending[i]
  BY <1>2, <1>3, <1>4, <1>5
<1>7. ASSUME NEW i \in DOMAIN kids
      PROVE  m + (n - i + 1) \in DOMAIN pending' /\ pending'[m + (n - i + 1)] = Child(kids[i])
  <2> DEFINE j == n - i + 1
  <2>1. j \in 1..n /\ n - j + 1 = i
    BY <1>2, <1>7
  <2> HIDE DEF j
  <2>2. m + j \in 1..(m + n) /\ ~(m + j <= m) /\ (m + j) - m = j
    BY <1>2, <1>3, <2>1
  <2>3. pending'[m + j] = pushed[j]
    BY <1>4, <2>2
  <2>4. pushed[j] = Child(kids[i])
    BY <1>2, <2>1
  <2> QED BY <1>5, <2>2, <2>3, <2>4 DEF j
<1>8. ASSUME NEW i \in DOMAIN pending'
      PROVE  \/ i \in DOMAIN pending /\ pending'[i] = pending[i]
             \/ \E j \in DOMAIN kids : pending'[i] = Child(kids[j])
  <2>1. i \in 1..(m + n) /\ m \in Nat /\ n \in Nat
    BY <1>2, <1>3, <1>5, <1>8
  <2>2. CASE i <= m
    BY <1>3, <1>4, <2>1, <2>2
  <2>3. CASE ~(i <= m)
    <3>1. i - m \in 1..n
      BY <2>1, <2>3
    <3>2. pending'[i] = pushed[i - m]
      BY <1>4, <2>1, <2>3
    <3> QED BY <1>2, <3>1, <3>2
  <2> QED BY <2>2, <2>3
<1>9. ASSUME NEW i \in DOMAIN kids
      PROVE  Child(kids[i]).path = Append(node.path, kids[i].name) /\ Child(kids[i]).kind = kids[i].kind
  BY DEF Child, Node
<1>10. ASSUME options.visitor = "walk_visit" PROVE KindsTrue'
  <2>1. KindsTrue
    BY <1>10, CompleteFacts
  <2>2. \A i \in DOMAIN pending' : TrueKind(tree, steady, pending'[i].path, pending'[i].kind)
    BY <1>8, <1>9, <2>1 DEF KindsTrue
  <2>3. DOMAIN kids' = {}
    BY <1>1
  <2> QED BY <1>1, <2>1, <2>2, <2>3 DEF KindsTrue
<1>11. ASSUME NEW p \in steady, Awaited(p) PROVE Followed(p)'
  <2>1. CASE \E i \in DOMAIN pending : pending[i].path = p
    BY <1>1, <1>6, <2>1 DEF Followed, Awaited
  <2>2. CASE \E i \in DOMAIN kids : Append(node.path, kids[i].name) = p
    <3>1. \E i \in DOMAIN pending' : pending'[i].path = p
      BY <1>7, <1>9, <2>2
    <3> QED BY <1>1, <3>1 DEF Followed, Awaited
  <2> QED BY <1>1, <1>11, <2>1, <2>2 DEF Awaited
<1>12. ASSUME NEW p \in steady, ToBeRead(Front(p)) PROVE Followed(p)'
  BY <1>1, <1>6, <1>12 DEF Followed, ToBeRead
<1>13. Visited(node, "OK") \in Visits
  BY VisitType, CompleteFacts
<1> QED BY <1>1, <1>10, <1>11, <1>12, <1>13, Carried

LEMMA RestComplete ==
  ASSUME All, KidsDone \/ RunOut
  PROVE  CompleteInv'
<1>1. /\ pc = "kids" /\ UNCHANGED <<tree, options, steady, log, node, pending, head, kids, found>>
      /\ \/ pc' = "next" /\ kids = <<>>
         \/ pc' = "done" /\ result' = "OutOfMemory"
  BY DEF KidsDone, RunOut, RunsOut, Goto, Finish, history
<1>2. ASSUME options.visitor = "walk_visit" PROVE KindsTrue'
  BY <1>1, <1>2, CompleteFacts DEF KindsTrue
<1>3. Stopped' \/ \A p \in steady : /\ Awaited(p) => Followed(p)'
                                    /\ ToBeRead(Front(p)) => Followed(p)'
  <2>1. CASE pc' = "done"
    BY <1>1, <2>1 DEF Stopped
  <2>2. CASE pc' = "next"
    <3>1. kids = <<>> /\ DOMAIN kids = {}
      BY <1>1, <2>2
    <3> QED BY <1>1, <3>1 DEF Followed, Awaited, ToBeRead
  <2> QED BY <1>1, <2>1, <2>2
<1>4. Visited(node, "OK") \in Visits
  BY VisitType, CompleteFacts
<1>5. ~(pc' = "done" /\ result' = "OK")
  BY <1>1
<1> QED BY <1>1, <1>2, <1>3, <1>4, <1>5, Carried

LEMMA StepComplete ==
  ASSUME All, Step
  PROVE  CompleteInv'
BY InspectRootComplete, VisitRootComplete, TakeFirstComplete, TakeLastComplete, VisitNodeComplete,
   ReadComplete, LstatComplete, ReportFailureComplete, VisitKidComplete, PushKidsComplete,
   RestComplete DEF Step

-----------------------------------------------------------------------------
(* Changes by others                                                       *)

\* What others do: one path changes, a directory only when it is empty.
LEMMA OneChange ==
  ASSUME Outside
  PROVE  \E q \in Paths, thing \in Things :
           /\ tree' = [tree EXCEPT ![q] = thing] /\ steady' = steady \ {q}
           /\ was' = was \cup {<<q, KindOf(thing)>>}
           /\ UNCHANGED <<options, log, node, pending, head, unknown, found, kids, pc, result, failure>>
           /\ \/ \A n \in Names : Append(q, n) \in Paths => tree[Append(q, n)] = "none"
              \/ tree[q] = "none"
<1>1. CASE \E q \in Paths : Delete(q)
  <2>1. "none" \in Things
    BY DEF Things
  <2> QED BY <1>1, <2>1 DEF Delete, Change, walkVars
<1>2. CASE \E q \in Paths, thing \in Creatable : Create(q, thing)
  BY <1>2, TreeAssumption DEF Create, Change, walkVars
<1> QED BY <1>1, <1>2 DEF Outside

\* What others leave alone keeps its kind, and so does its directory.
LEMMA OutsideComplete ==
  ASSUME All, Outside
  PROVE  CompleteInv'
<1>1. PICK q \in Paths, thing \in Things :
        /\ tree' = [tree EXCEPT ![q] = thing] /\ steady' = steady \ {q}
        /\ UNCHANGED <<options, log, node, pending, head, unknown, found, kids, pc, result>>
        /\ \/ \A n \in Names : Append(q, n) \in Paths => tree[Append(q, n)] = "none"
           \/ tree[q] = "none"
  BY OneChange
<1>2. tree \in [Paths -> Things]
  BY CompleteFacts DEF Typed
<1>3. \A p \in steady' : p \in steady /\ p # q /\ tree'[p] = tree[p]
  BY <1>1, <1>2, CompleteFacts
<1>4. SteadyInv'
  <2> SUFFICES ASSUME NEW p \in steady', p # Root PROVE Front(p) # q
    BY <1>1, <1>3, CompleteFacts DEF SteadyInv
  <2>1. /\ p \in Seq(Names) /\ p \in Paths /\ tree[p] # "none" /\ tree[Front(p)] = "directory"
    BY <1>3, CompleteFacts
  <2>2. p = Append(Front(p), Last(p)) /\ Last(p) \in Names
    BY <2>1, FrontLast
  <2> QED BY <1>1, <2>1, <2>2
<1>5. \A p, kind : TrueKind(tree, steady, p, kind) => TrueKind(tree', steady', p, kind)
  BY <1>3 DEF TrueKind
<1>6. ASSUME KindsTrue PROVE KindsTrue'
  BY <1>1, <1>5, <1>6 DEF KindsTrue
<1>7. ASSUME NothingLost PROVE NothingLost'
  <2>1. \A p \in steady' : p \in steady /\ (Due(log, p)' => Due(log, p)) /\ (Followed(p) => Followed(p)')
    BY <1>1, <1>3 DEF Due, WithinLimit, SeenAsDirectory, Good, Followed, Seen, FailedAt, Awaited, ToBeRead
  <2> QED BY <1>1, <1>7, <2>1 DEF NothingLost, Stopped
<1>8. ASSUME BeginsAndEnds PROVE BeginsAndEnds'
  BY <1>1, <1>8 DEF BeginsAndEnds, Stopped, Seen, Good
<1> QED BY <1>1, <1>4, <1>6, <1>7, <1>8 DEF All, CompleteInv

LEMMA CompleteUnmoved ==
  ASSUME All, UNCHANGED vars
  PROVE  CompleteInv'
<1>1. /\ UNCHANGED <<tree, steady, options, log, node, pending, head, unknown, found, kids>>
      /\ UNCHANGED <<pc, result>>
  BY DEF vars, walkVars, history
<1>2. SteadyInv'
  BY <1>1 DEF All, CompleteInv, SteadyInv
<1>3. KindsTrue => KindsTrue'
  BY <1>1 DEF KindsTrue
<1>4. NothingLost => NothingLost'
  BY <1>1 DEF NothingLost, Stopped, Due, WithinLimit, SeenAsDirectory, Followed, Seen, FailedAt,
              Awaited, ToBeRead
<1>5. BeginsAndEnds => BeginsAndEnds'
  BY <1>1 DEF BeginsAndEnds, Stopped, Seen
<1> QED BY <1>1, <1>2, <1>3, <1>4, <1>5 DEF All, CompleteInv

LEMMA InitComplete == Init => CompleteInv
<1> SUFFICES ASSUME Init PROVE CompleteInv
  OBVIOUS
<1>1. /\ log = <<>> /\ pending = <<>> /\ kids = <<>> /\ found = {} /\ pc = "inspect"
      /\ steady = {p \in Paths : tree[p] # "none"}
  BY DEF Init
<1>2. DOMAIN log = {} /\ DOMAIN pending = {} /\ DOMAIN kids = {}
  BY <1>1
<1>3. Rooted(tree)
  BY TreeAssumption DEF Init
<1>4. SteadyInv
  BY <1>1, <1>3, TreeAssumption DEF SteadyInv, Rooted
<1>5. KindsTrue /\ NothingLost /\ BeginsAndEnds
  BY <1>1, <1>2 DEF KindsTrue, NothingLost, Due, SeenAsDirectory, BeginsAndEnds
<1> QED BY <1>4, <1>5 DEF CompleteInv

-----------------------------------------------------------------------------
(* What walk_visit makes of the visits                                     *)

\* p, not changed since the beginning, is a link to nowhere that is followed.
DanglesIn(t, s, o, p) == p \in s => o.follow /\ t[p] = "dangling"

\* A visit was printed or complained about, or is being worked on; else it is
\* not there to be found.
Answered ==
  options.visitor = "walk_visit" =>
    \A k \in DOMAIN log :
      IF Good(log[k])
      THEN \/ log[k].path \in listed
           \/ complaints # {}
           \/ call # NoCall /\ call.visit.path = log[k].path
           \/ DanglesIn(tree, steady, options, log[k].path)
      ELSE complaints # {}

LEMMA Dangles ==
  ASSUME All, NEW p \in Paths
  PROVE  /\ ~Resolves(p) => DanglesIn(tree, steady, options, p)
         /\ p \in steady => (Resolves(p) <=> ~(options.follow /\ tree[p] = "dangling"))
<1>1. p \in steady => At(p) = tree[p] /\ tree[p] # "none"
  BY CompleteFacts, AtThere
<1> QED BY <1>1 DEF Resolves, DanglesIn

LEMMA NextAnswered ==
  ASSUME All, Calls, Answered, [CliNext]_allVars
  PROVE  Answered'
<1>1. log \in Seq(Visits) /\ \A k \in DOMAIN log : log[k].path \in Paths
  BY CompleteFacts, LogType
<1>2. CASE WalkOn
  <2>1. UNCHANGED <<tree, options, steady>> /\ call = NoCall
    BY <1>2, StepLeaves DEF WalkOn
  <2>2. CASE log' = log
    BY <1>2, <2>1, <2>2 DEF WalkOn, cliVars, Answered
  <2>3. CASE log' # log /\ options.visitor = "walk_visit"
    <3>1. PICK w \in Visits : log' = Append(log, w)
      BY <1>2, <2>3, LogGrows DEF WalkOn, All, Inv
    <3>2. /\ Last(log') = w
          /\ \A k \in DOMAIN log' : (k \in DOMAIN log /\ log'[k] = log[k]) \/ log'[k] = w
      BY <1>1, <3>1, Remembered, SeenGrows
    <3>3. Callback(w)
      BY <1>2, <2>3, <3>2 DEF WalkOn
    <3>4. listed' = listed /\ complaints \subseteq complaints'
      BY <3>3 DEF Callback, WarnPath
    <3>5. IF Good(w) THEN call' # NoCall /\ call'.visit.path = w.path ELSE complaints' # {}
      <4>1. CASE Good(w)
        <5> DEFINE c == [visit |-> w, step |-> "list"]
        <5>1. call' = c
          BY <3>3, <4>1 DEF Callback
        <5>2. w \in [path : Paths, kind : Kinds, depth : Nat, status : {"OK"}]
          BY <4>1 DEF Visits, Good
        <5>3. c # NoCall
          BY <5>2, CallAssumption
        <5> QED BY <4>1, <5>1, <5>3
      <4>2. CASE ~Good(w)
        BY <3>3, <4>2 DEF Callback, WarnPath
      <4> QED BY <4>1, <4>2
    <3> SUFFICES ASSUME NEW k \in DOMAIN log'
                 PROVE  IF Good(log'[k])
                        THEN \/ log'[k].path \in listed'
                             \/ complaints' # {}
                             \/ call' # NoCall /\ call'.visit.path = log'[k].path
                             \/ DanglesIn(tree, steady, options, log'[k].path)
                        ELSE complaints' # {}
      BY <2>1 DEF Answered
    <3>6. CASE log'[k] = w
      BY <3>5, <3>6
    <3>7. CASE k \in DOMAIN log /\ log'[k] = log[k]
      BY <2>1, <2>3, <3>4, <3>7 DEF Answered
    <3> QED BY <3>2, <3>6, <3>7
  <2>4. CASE options.visitor # "walk_visit"
    BY <2>1, <2>4 DEF Answered
  <2> QED BY <2>2, <2>3, <2>4
<1>3. CASE ListOne \/ GetValues
  <2>1. UNCHANGED <<tree, options, log, steady>> /\ call # NoCall
    BY <1>3 DEF ListOne, GetValues, vars, walkVars, history
  <2>2. call.visit \in ToSet(log) /\ call.visit.path \in Paths /\ call.visit.depth = Len(call.visit.path)
    <3>1. call.visit \in ToSet(log)
      BY <2>1 DEF Calls
    <3> QED BY <1>1, <3>1, OrderFacts DEF ToSet, All, Goals, VisitsReached
  <2> DEFINE path == call.visit.path
  <2>3. listed \subseteq listed' /\ complaints \subseteq complaints'
    BY <1>3 DEF ListOne, GetValues, PutOut, Failed, Skip, WarnPath
  <2>4. \/ path \in listed'
        \/ complaints' # {}
        \/ call' = [call EXCEPT !.step = "values"]
        \/ ~Resolves(path)
    <3>1. CASE GetValues
      BY <3>1 DEF GetValues, PutOut, WarnPath
    <3>2. CASE ListOne
      <4>1. CASE \E s \in Faults : Failed(call.visit, s)
        <5>1. PICK s \in Faults : Failed(call.visit, s)
          BY <4>1
        <5>2. s # "NotFound"
          BY FaultsType
        <5> QED BY <5>1, <5>2 DEF Failed, Excused, WarnPath
      <4>2. CASE ~(\E s \in Faults : Failed(call.visit, s))
        BY <3>2, <4>2 DEF ListOne, PutOut
      <4> QED BY <4>1, <4>2
    <3> QED BY <1>3, <3>1, <3>2
  <2>5. ~Resolves(path) => DanglesIn(tree, steady, options, path)
    BY <2>2, Dangles
  <2>6. call' = [call EXCEPT !.step = "values"] => call' # NoCall /\ call'.visit = call.visit
    <3>1. call \in [visit : Visits, step : {"list", "values"}] /\ Good(call.visit)
      BY <2>1 DEF Calls
    <3>2. call.visit \in [path : Paths, kind : Kinds, depth : Nat, status : {"OK"}]
      BY <3>1 DEF Visits, Good
    <3> DEFINE c == [call EXCEPT !.step = "values"]
    <3>3. /\ c \in [visit : [path : Paths, kind : Kinds, depth : Nat, status : {"OK"}],
                    step : {"list", "values"}]
          /\ c.visit = call.visit
      BY <3>1, <3>2
    <3> QED BY <3>3, CallAssumption
  <2> SUFFICES ASSUME options.visitor = "walk_visit", NEW k \in DOMAIN log
               PROVE  IF Good(log[k])
                      THEN \/ log[k].path \in listed'
                           \/ complaints' # {}
                           \/ call' # NoCall /\ call'.visit.path = log[k].path
                           \/ DanglesIn(tree, steady, options, log[k].path)
                      ELSE complaints' # {}
    BY <2>1 DEF Answered
  <2>7. CASE Good(log[k]) /\ call.visit.path = log[k].path
    BY <2>4, <2>5, <2>6, <2>7
  <2>8. CASE ~(Good(log[k]) /\ call.visit.path = log[k].path)
    BY <2>3, <2>8 DEF Answered
  <2> QED BY <2>7, <2>8
<1>4. CASE Outside /\ UNCHANGED cliVars
  <2>1. PICK q \in Paths, thing \in Things :
          /\ tree' = [tree EXCEPT ![q] = thing] /\ steady' = steady \ {q}
          /\ UNCHANGED <<options, log, call, listed, complaints>>
    BY <1>4, OneChange DEF cliVars
  <2>2. tree \in [Paths -> Things] /\ steady \subseteq Paths
    BY CompleteFacts DEF Typed
  <2>3. \A p : DanglesIn(tree, steady, options, p) => DanglesIn(tree', steady', options, p)
    BY <2>1, <2>2 DEF DanglesIn
  <2> QED BY <2>1, <2>3 DEF Answered
<1>5. CASE UNCHANGED allVars
  BY <1>5 DEF allVars, vars, walkVars, history, cliVars, Answered
<1> QED BY <1>2, <1>3, <1>4, <1>5 DEF CliNext

LEMMA LessIsRelated ==
  ASSUME NEW m \in Nat, NEW n \in Nat, m < n
  PROVE  <<m, n>> \in OpToRel(<, Nat)
BY Zenon DEF OpToRel

\* The smallest of a set of numbers.
LEMMA LeastOf ==
  ASSUME NEW T, T \subseteq Nat, T # {}
  PROVE  \E m \in T : \A y \in Nat : y < m => y \notin T
<1> DEFINE R == OpToRel(<, Nat)
<1>1. \A m, n \in Nat : m < n => <<m, n>> \in R
  BY LessIsRelated, Zenon
<1>2. IsWellFoundedOn(R, Nat)
  BY NatLessThanWellFounded, Zenon
<1> HIDE DEF R
<1>3. PICK m \in T : \A y \in T : ~(<<y, m>> \in R)
  BY <1>2, WFMin
<1> QED BY <1>1, <1>3

\* A walk that ended well has visited all that stood: the shallowest path that
\* it missed would be below one that it visited, and so followed.
LEMMA AllSeen ==
  ASSUME All, options.visitor = "walk_visit", pc = "done", result = "OK",
         \A k \in DOMAIN log : Good(log[k])
  PROVE  \A p \in steady : WithinLimit(Len(p)) => Seen(log, p)
<1> DEFINE Missed == {p \in steady : WithinLimit(Len(p)) /\ ~Seen(log, p)}
           Depths == {d \in Nat : \E p \in Missed : Len(p) = d}
<1>1. \A p \in steady : p \in Seq(Names) /\ Len(p) \in Nat
  BY CompleteFacts, PathLen
<1> SUFFICES ASSUME Missed # {} PROVE FALSE
  OBVIOUS
<1>2. PICK d \in Depths : \A y \in Nat : y < d => y \notin Depths
  <2>1. Depths # {} /\ Depths \subseteq Nat
    BY <1>1
  <2> HIDE DEF Depths
  <2> QED BY <2>1, LeastOf
<1>3. PICK p \in Missed : Len(p) = d
  BY <1>2
<1>4. NothingLost /\ BeginsAndEnds /\ KindsTrue
  BY CompleteFacts
<1>5. p # Root
  BY <1>3, <1>4 DEF BeginsAndEnds, Stopped
<1>6. /\ Front(p) \in steady /\ tree[Front(p)] = "directory" /\ Len(Front(p)) = Len(p) - 1
      /\ Len(Front(p)) \in Nat /\ p \in steady
  BY <1>1, <1>3, <1>5, CompleteFacts, FrontLast
<1>7. WithinLimit(Len(Front(p)))
  <2>1. WithinLimit(Len(p)) /\ Len(p) \in Nat
    BY <1>1, <1>3
  <2>2. options.limit = Unlimited \/ options.limit \in Nat
    BY OptionsType, CompleteFacts
  <2> QED BY <1>6, <2>1, <2>2 DEF WithinLimit
<1>8. Seen(log, Front(p))
  <2>1. Len(Front(p)) < d
    BY <1>1, <1>3, <1>6
  <2>2. Front(p) \notin Missed
    BY <1>2, <1>6, <2>1
  <2> QED BY <1>6, <1>7, <2>2
<1>9. SeenAsDirectory(log, Front(p))
  <2>1. PICK k \in DOMAIN log : log[k].path = Front(p) /\ Good(log[k])
    BY <1>8 DEF Seen
  <2>2. log[k].kind = "directory"
    BY <1>4, <1>6, <2>1 DEF KindsTrue, TrueKind, KindOf
  <2> QED BY <2>1, <2>2 DEF SeenAsDirectory
<1>10. Followed(p) /\ ~Seen(log, p)
  BY <1>3, <1>4, <1>5, <1>6, <1>9 DEF NothingLost, Due, Stopped
<1>11. ~FailedAt(log, Front(p))
  BY DEF FailedAt
<1>12. Awaited(p) \/ ToBeRead(Front(p))
  BY <1>10, <1>11 DEF Followed
<1>13. IF options.order = "breadth" THEN head = Len(pending) ELSE pending = <<>>
  BY <1>4 DEF BeginsAndEnds
<1>14. DOMAIN pending = 1..Len(pending) /\ Len(pending) \in Nat
  BY CompleteFacts
<1> QED BY <1>12, <1>13, <1>14 DEF Awaited, ToBeRead

CliInv == All /\ Calls /\ Answered

LEMMA HonestHolds ==
  ASSUME CliInv
  PROVE  ExitHonest
<1> SUFFICES ASSUME Ended, ExitOK, NEW p \in steady, WithinLimit(Len(p)), Resolves(p)
             PROVE  p \in listed
  BY DEF ExitHonest, WithinLimit
<1>1. /\ pc = "done" /\ call = NoCall /\ options.visitor = "walk_visit"
      /\ result = "OK" /\ complaints = {}
  BY DEF Ended, ExitOK
<1>2. \A k \in DOMAIN log : Good(log[k])
  BY <1>1 DEF CliInv, Answered
<1>3. PICK k \in DOMAIN log : log[k].path = p /\ Good(log[k])
  BY <1>1, <1>2, AllSeen DEF CliInv, Seen
<1>4. ~DanglesIn(tree, steady, options, p)
  BY CompleteFacts, Dangles DEF CliInv, DanglesIn
<1> QED BY <1>1, <1>3, <1>4 DEF CliInv, Answered

LEMMA NextCliInv ==
  ASSUME CliInv, [CliNext]_allVars
  PROVE  CliInv'
<1>1. Inv' /\ Calls' /\ Answered'
  BY NextInv, NextCalls, NextAnswered DEF CliInv, All
<1>2. CompleteInv'
  <2>1. CASE Step
    BY <2>1, StepComplete DEF CliInv
  <2>2. CASE Outside
    BY <2>2, OutsideComplete DEF CliInv
  <2>3. CASE UNCHANGED vars
    BY <2>3, CompleteUnmoved DEF CliInv
  <2> QED BY <2>1, <2>2, <2>3 DEF CliNext, WalkOn, ListOne, GetValues, allVars
<1> QED BY <1>1, <1>2 DEF CliInv, All

LEMMA CliInvariance == CliSpec => []CliInv
<1>1. CliInit => CliInv
  <2> SUFFICES ASSUME CliInit PROVE CliInv
    OBVIOUS
  <2>1. DOMAIN log = {}
    BY DEF CliInit, Init
  <2>2. Calls /\ Answered
    BY <2>1 DEF CliInit, Calls, Answered
  <2> QED BY <2>2, InitTypes, InitOrder, InitComplete DEF CliInit, CliInv, All, Inv
<1>2. CliInv /\ [CliNext]_allVars => CliInv'
  BY NextCliInv
<1> QED BY <1>1, <1>2, PTL DEF CliSpec

\* When lst -r or dump -r exits with success, nothing was left out: whatever
\* stood in its place during the whole walk, within the depth limit, has been
\* printed, but for a link to nowhere that was to be followed.
THEOREM NothingLeftOut == CliSpec => []ExitHonest
BY CliInvariance, HonestHolds, PTL

-----------------------------------------------------------------------------
(* What is complained about                                                *)

\* At some time of the walk there was something at p.
Existed(w, p) == \E kind \in Kinds : <<p, kind>> \in w

\* p existed, or what led to it did and has changed since: it was reached
\* through a link that took the place of a directory.
Known(w, s, p) ==
  \E q \in Paths : IsPrefix(q, p) /\ Existed(w, q) /\ (q = p \/ q \notin s)

\* What has stood on the way to p has been a directory.
Straight(t, s, p) == \A q \in s : IsStrictPrefix(q, p) => t[q] = "directory"

\* Disturbed, with the history as a parameter.
Blamed(w, s, p) ==
  \E q \in Paths \ s : (IsPrefix(q, p) \/ (q # Root /\ Front(q) = p)) /\ Existed(w, q)

\* What a visit found, and was to read, stands.
DanglesHere(t, s, o, p) == p \in s /\ o.follow /\ t[p] = "dangling"

\* A node of the walk was there, or its way to it has changed.
Led(t, w, s, p) == Known(w, s, p) /\ Straight(t, s, p)

KnownInv ==
  /\ \A k \in DOMAIN log : Known(was, steady, log[k].path)
  /\ \A i \in DOMAIN pending : Led(tree, was, steady, pending[i].path)
  /\ pc \notin {"inspect", "done"} => Led(tree, was, steady, node.path)
  /\ \A i \in DOMAIN kids : Known(was, steady, Append(node.path, kids[i].name))
  /\ \A e \in found : Known(was, steady, Append(node.path, e.name))
  /\ \A n \in unknown : Known(was, steady, Append(node.path, n))
  /\ pc = "failed" /\ failure = "NotFound" => Blamed(was, steady, node.path)

WasTrue == \A p \in Paths : tree[p] # "none" => Existed(was, p)

CallsBlamed ==
  /\ call # NoCall /\ call.step = "values" => 
       ~DanglesHere(tree, steady, options, call.visit.path)
  /\ \A c \in complaints : c.status = "NotFound" /\ c.path # Root => Blamed(was, steady, c.path)

BlameInv ==
  /\ WasTrue
  /\ options.visitor = "walk_visit" => KnownInv /\ CallsBlamed
  /\ options.visitor # "walk_visit" => call = NoCall /\ complaints = {}

-----------------------------------------------------------------------------
(* Lemmas on what is known                                                 *)

LEMMA PrefixOfChild ==
  ASSUME NEW p \in Seq(Names), NEW n \in Names, NEW q \in Seq(Names), IsPrefix(q, Append(p, n))
  PROVE  q = Append(p, n) \/ IsPrefix(q, p)
<1> DEFINE c == Append(p, n)
<1>1. /\ c \in Seq(Names) /\ Len(c) = Len(p) + 1 /\ \A k \in 1..Len(p) : c[k] = p[k]
      /\ Len(p) \in Nat /\ Len(q) \in Nat
  BY ChildPath, PathLen
<1> HIDE DEF c
<1>2. Len(q) <= Len(c) /\ \A k \in 1..Len(q) : q[k] = c[k]
  BY <1>1, PrefixIff DEF c
<1>3. CASE Len(q) = Len(c)
  BY <1>1, <1>2, <1>3, SeqEqual DEF c
<1>4. CASE Len(q) # Len(c)
  <2>1. Len(q) <= Len(p)
    BY <1>1, <1>2, <1>4
  <2>2. \A k \in 1..Len(q) : q[k] = p[k]
    BY <1>1, <1>2, <2>1
  <2> QED BY <2>1, <2>2, PrefixIff
<1> QED BY <1>3, <1>4

LEMMA PrefixOfSelf ==
  ASSUME NEW p \in Seq(Names)
  PROVE  IsPrefix(p, p)
BY PrefixIff, PathLen

\* The paths of the tree hang together.
LEMMA PrefixInPaths ==
  ASSUME NEW p \in Paths, NEW n \in 0..Len(p)
  PROVE  SubSeq(p, 1, n) \in Paths
<1> DEFINE m == Len(p)
           T == {d \in 0..m : SubSeq(p, 1, m - d) \notin Paths}
<1>1. p \in Seq(Names) /\ m \in Nat /\ \A i \in 1..m : p[i] \in Names
  BY TreeAssumption, PathLen
<1> HIDE DEF m
<1>2. SUFFICES ASSUME T # {} PROVE FALSE
  <2>1. m - n \in 0..m /\ m - (m - n) = n
    BY <1>1 DEF m
  <2>2. m - n \notin T
    BY <1>2
  <2> QED BY <2>1, <2>2
<1>3. PICK d \in T : \A y \in Nat : y < d => y \notin T
  <2>1. T \subseteq Nat
    BY <1>1
  <2> HIDE DEF T
  <2> QED BY <1>2, <2>1, LeastOf
<1>4. d # 0
  <2> SUFFICES ASSUME d = 0 PROVE FALSE
    OBVIOUS
  <2>1. SubSeq(p, 1, m) = p
    BY <1>1, SubSeqFull DEF m
  <2>2. m - d = m
    BY <1>1
  <2> QED BY <1>3, <2>1, <2>2
<1>5. d \in Nat /\ d <= m
  BY <1>1, <1>3
<1> DEFINE j == m - d
           q == SubSeq(p, 1, j + 1)
<1>6. j \in Nat /\ j + 1 <= m /\ j + 1 = m - (d - 1) /\ d - 1 \in 0..m /\ d - 1 < d /\ d - 1 \in Nat
  BY <1>1, <1>4, <1>5
<1>7. q \in Paths
  <2>1. d - 1 \notin T
    BY <1>3, <1>6
  <2> QED BY <1>6, <2>1
<1> HIDE DEF j
<1>8. /\ q \in Seq(Names) /\ Len(q) = j + 1
      /\ \A k \in 1..(j + 1) : q[k] = p[k]
  <2>1. \A i \in 1..(j + 1) : p[i] \in Names
    BY <1>1, <1>6
  <2> QED BY <1>6, <2>1, SubSeqProperties
<1> HIDE DEF q
<1>9. q # Root
  BY <1>6, <1>8 DEF Root
<1>10. SubSeq(q, 1, j) = SubSeq(p, 1, j)
  <2>1. j <= Len(q) /\ j <= Len(p) /\ \A k \in 1..j : q[k] = p[k]
    BY <1>1, <1>6, <1>8 DEF m
  <2> QED BY <1>1, <1>6, <1>8, <2>1, SameStart
<1>11. Front(q) = SubSeq(p, 1, j)
  <2>1. Len(q) - 1 = j
    BY <1>6, <1>8
  <2> QED BY <1>10, <2>1 DEF Front
<1>12. SubSeq(p, 1, j) \in Paths
  BY <1>7, <1>9, <1>11, TreeAssumption
<1> QED BY <1>3, <1>12 DEF j

\* What is found where there is nothing is found through a link on the way.
LEMMA FoundThrough ==
  ASSUME NEW p \in Paths, At(p) # "none", tree[p] = "none"
  PROVE  \E i \in 1..(Len(p) - 1) : tree[SubSeq(p, 1, i)] = "loop"
<1> DEFINE loops == {i \in 1..(Len(p) - 1) : tree[SubSeq(p, 1, i)] = "loop"}
<1> SUFFICES ASSUME loops = {} PROVE FALSE
  OBVIOUS
<1>1. Ends[p] = p
  BY DEF Ends
<1> QED BY <1>1 DEF At

\* A directory at work stands as one, if it has stood all the time.
StillThere(p) == p \in steady => tree[p] = "directory"

LEMMA StraightChild ==
  ASSUME All, NEW d \in Paths, Straight(tree, steady, d), StillThere(d), NEW n \in Names
  PROVE  Straight(tree, steady, Append(d, n))
<1> SUFFICES ASSUME NEW q \in steady, IsStrictPrefix(q, Append(d, n))
             PROVE  tree[q] = "directory"
  BY DEF Straight
<1>1. d \in Seq(Names) /\ q \in Seq(Names)
  BY TreeAssumption, CompleteFacts
<1>2. IsPrefix(q, d)
  BY <1>1, PrefixOfChild DEF IsStrictPrefix
<1> QED BY <1>2 DEF Straight, StillThere, IsStrictPrefix

LEMMA KnownChild ==
  ASSUME All, WasTrue, NEW d \in Paths, Straight(tree, steady, d), StillThere(d),
         NEW n \in Names, Append(d, n) \in Paths, At(Append(d, n)) # "none"
  PROVE  Known(was, steady, Append(d, n))
<1> DEFINE p == Append(d, n)
<1>1. p \in Paths /\ p \in Seq(Names) /\ d \in Seq(Names) /\ At(p) # "none"
  BY TreeAssumption
<1>2. Len(p) = Len(d) + 1 /\ Len(d) \in Nat /\ Straight(tree, steady, p)
  BY <1>1, ChildPath, PathLen, StraightChild
<1> SUFFICES Known(was, steady, p)
  OBVIOUS
<1> HIDE DEF p
<1>3. CASE tree[p] # "none"
  BY <1>1, <1>3, PrefixOfSelf DEF WasTrue, Known
<1>4. CASE tree[p] = "none"
  <2>1. PICK i \in 1..(Len(p) - 1) : tree[SubSeq(p, 1, i)] = "loop"
    BY <1>1, <1>4, FoundThrough
  <2> DEFINE q == SubSeq(p, 1, i)
  <2>2. i \in Nat /\ i <= Len(p) /\ i # Len(p) /\ i \in 0..Len(p)
    BY <1>2, <2>1
  <2>3. q \in Paths /\ q \in Seq(Names) /\ tree[q] = "loop"
    BY <1>1, <2>1, <2>2, PrefixInPaths, TreeAssumption
  <2>4. Len(q) = i /\ \A k \in 1..i : q[k] = p[k]
    <3>1. \A k \in 1..i : p[k] \in Names
      BY <1>1, <2>2, PathLen
    <3> QED BY <2>2, <3>1, SubSeqProperties
  <2> HIDE DEF q
  <2>5. IsStrictPrefix(q, p)
    BY <1>1, <2>2, <2>3, <2>4, PrefixIff DEF IsStrictPrefix
  <2>6. q \notin steady
    BY <1>2, <2>3, <2>5 DEF Straight
  <2>7. Existed(was, q)
    BY <2>3 DEF WasTrue
  <2> QED BY <2>3, <2>5, <2>6, <2>7 DEF Known, IsStrictPrefix
<1> QED BY <1>3, <1>4

\* What is known and has not stood all the time was disturbed.
LEMMA KnownDisturbed ==
  ASSUME NEW p \in Paths, Known(was, steady, p), p \notin steady
  PROVE  Blamed(was, steady, p)
BY DEF Known, Blamed

-----------------------------------------------------------------------------
(* Steps of the walk know what they come upon                              *)

Knowing == All /\ WasTrue /\ KnownInv /\ options.visitor = "walk_visit"

LEMMA WorkStillThere ==
  ASSUME Knowing, pc \in Expanding
  PROVE  /\ StillThere(node.path) /\ Known(was, steady, node.path)
         /\ Straight(tree, steady, node.path)
<1>1. pc \notin {"inspect", "done"}
  BY DEF Expanding
<1>2. node.kind = "directory" /\ TrueKind(tree, steady, node.path, node.kind)
  BY <1>1, CompleteFacts DEF Knowing, Bounded, KindsTrue
<1>3. StillThere(node.path)
  BY <1>2 DEF TrueKind, KindOf, StillThere
<1> QED BY <1>1, <1>3 DEF Knowing, KnownInv, Led

LEMMA InspectRootKnown ==
  ASSUME Knowing, InspectRoot
  PROVE  KnownInv'
<1>1. /\ UNCHANGED <<tree, steady, was, log, pending, kids, found, unknown, failure>>
      /\ pc' \in {"root", "done"}
      /\ pc' = "root" => tree[Root] # "none" /\ node'.path = Root
      /\ log = <<>> /\ pending = <<>> /\ kids = <<>> /\ found = {} /\ unknown = {}
  <2>1. pc = "inspect"
    BY DEF InspectRoot
  <2>2. log = <<>> /\ pending = <<>> /\ kids = <<>> /\ found = {} /\ unknown = {}
    BY <2>1, CompleteFacts DEF Knowing, Bounded, Listing
  <2>3. Node(Root, KindOf(tree[Root]), 0).path = Root
    BY DEF Node
  <2> QED BY <2>2, <2>3 DEF InspectRoot, Goto, Finish, history
<1>2. DOMAIN log = {} /\ DOMAIN pending = {} /\ DOMAIN kids = {}
  BY <1>1
<1>3. Root \in Paths /\ Root \in Seq(Names) /\ Len(Root) = 0
  BY TreeAssumption DEF Root
<1>4. tree[Root] # "none" => Known(was, steady, Root)
  BY <1>3, PrefixOfSelf DEF Knowing, WasTrue, Known
<1>5. Straight(tree, steady, Root)
  <2> SUFFICES ASSUME NEW q \in steady, IsStrictPrefix(q, Root) PROVE FALSE
    BY DEF Straight
  <2>1. q \in Seq(Names)
    BY CompleteFacts DEF Knowing
  <2>2. Len(q) <= 0 /\ q # Root
    BY <1>3, <2>1, PrefixIff DEF IsStrictPrefix
  <2> QED BY <2>1, <2>2, EmptySeq, PathLen DEF Root
<1> QED BY <1>1, <1>2, <1>4, <1>5 DEF KnownInv, Led

LEMMA VisitRootKnown ==
  ASSUME Knowing, VisitRoot
  PROVE  KnownInv'
<1> DEFINE w == Visited(node, "OK")
<1>1. /\ pc = "root" /\ UNCHANGED <<tree, steady, was, node, kids, found, unknown, failure>>
      /\ log = <<>> /\ pending = <<>> /\ kids = <<>> /\ found = {} /\ unknown = {}
      /\ log' = Append(log, w) /\ pending' \in {<<node>>, <<>>} /\ pc' \in {"next", "done"}
  <2>1. pc = "root"
    BY DEF VisitRoot
  <2>2. log = <<>> /\ pending = <<>> /\ kids = <<>> /\ found = {} /\ unknown = {}
    BY <2>1, CompleteFacts DEF Knowing, Bounded, Listing
  <2> QED BY <2>2 DEF VisitRoot, Visit, Onward, RunsOut, Goto, Finish
<1>2. w \in Visits /\ w.path = node.path
  BY VisitType, CompleteFacts DEF Knowing
<1> HIDE DEF w
<1>3. \A k \in DOMAIN log' : log'[k].path = node.path
  <2>1. log \in Seq(Visits) /\ DOMAIN log = {}
    BY <1>1, CompleteFacts DEF Knowing
  <2> QED BY <1>1, <1>2, <2>1, SeenGrows
<1>4. DOMAIN kids = {} /\ \A i \in DOMAIN pending' : pending'[i] = node
  BY <1>1
<1>5. Led(tree, was, steady, node.path)
  BY <1>1 DEF Knowing, KnownInv
<1> QED BY <1>1, <1>3, <1>4, <1>5 DEF KnownInv, Led

LEMMA TakeKnown ==
  ASSUME Knowing, TakeFirst \/ TakeLast
  PROVE  KnownInv'
<1>1. /\ pc = "next" /\ UNCHANGED <<tree, steady, was, log, kids, found, unknown, failure>>
      /\ kids = <<>> /\ found = {} /\ unknown = {} /\ pc' # "failed"
  <2>1. pc = "next" /\ pc' # "failed"
    BY DEF TakeFirst, TakeLast, Goto, Finish
  <2>2. kids = <<>> /\ found = {} /\ unknown = {}
    BY <2>1, CompleteFacts DEF Knowing, Listing
  <2> QED BY <2>1, <2>2 DEF TakeFirst, TakeLast, history
<1>2. /\ \A i \in DOMAIN pending' : \E j \in DOMAIN pending : pending'[i] = pending[j]
      /\ pc' # "done" => \E j \in DOMAIN pending : node' = pending[j]
  <2>1. CASE TakeFirst
    <3>1. /\ UNCHANGED pending
          /\ pc' # "done" => head < Len(pending) /\ node' = pending[head + 1]
      BY <2>1 DEF TakeFirst, Goto, Finish
    <3>2. head < Len(pending) => head + 1 \in DOMAIN pending
      BY CompleteFacts DEF Knowing
    <3> QED BY <3>1, <3>2
  <2>2. CASE TakeLast /\ pending # <<>>
    <3>1. node' = Last(pending) /\ pending' = Front(pending)
      BY <2>2 DEF TakeLast
    <3>2. pending \in Seq(PathNodes)
      BY CompleteFacts DEF Knowing
    <3>3. /\ Last(pending) = pending[Len(pending)] /\ Len(pending) \in DOMAIN pending
          /\ \A i \in DOMAIN Front(pending) : i \in DOMAIN pending /\ Front(pending)[i] = pending[i]
      <4> DEFINE m == Len(pending)
                 f == Front(pending)
      <4>1. /\ m \in Nat /\ m > 0 /\ DOMAIN pending = 1..m /\ DOMAIN f = 1..(m - 1)
            /\ \A i \in 1..(m - 1) : f[i] = pending[i]
            /\ Last(pending) = pending[m]
        BY <2>2, <3>2, Popped
      <4> HIDE DEF m, f
      <4>2. m \in DOMAIN pending /\ \A i \in DOMAIN f : i \in DOMAIN pending /\ f[i] = pending[i]
        BY <4>1
      <4> QED BY <4>1, <4>2 DEF m, f
    <3> QED BY <3>1, <3>3
  <2>3. CASE TakeLast /\ pending = <<>>
    <3>1. pending' = pending /\ pc' = "done"
      BY <2>3 DEF TakeLast, Finish
    <3> QED BY <3>1
  <2> QED BY <2>1, <2>2, <2>3
<1>3. DOMAIN kids = {}
  BY <1>1
<1> QED BY <1>1, <1>2, <1>3 DEF Knowing, KnownInv

LEMMA VisitKnown ==
  ASSUME Knowing, VisitNode \/ ReportFailure
  PROVE  KnownInv'
<1>1. /\ pc \in {"visit", "failed"} /\ UNCHANGED <<tree, steady, was, node, pending, kids, found, unknown>>
      /\ pc' # "failed"
      /\ \E w \in Visits : log' = Append(log, w) /\ w.path = node.path
  <2>1. CASE VisitNode
    <3>1. Visited(node, "OK") \in Visits /\ Visited(node, "OK").path = node.path
      BY VisitType, CompleteFacts DEF Knowing
    <3> QED BY <2>1, <3>1 DEF VisitNode, Visit, Onward, Goto, Finish
  <2>2. CASE ReportFailure
    <3>1. failure \in Faults \cup {"NotFound"}
      BY <2>2, CompleteFacts DEF Knowing, Typed, ReportFailure
    <3>2. Visited(node, failure) \in Visits /\ Visited(node, failure).path = node.path
      BY <3>1, VisitType, CompleteFacts DEF Knowing
    <3> QED BY <2>2, <3>2 DEF ReportFailure, Visit, Onward, Goto, Finish
  <2> QED BY <2>1, <2>2
<1>2. PICK w \in Visits : log' = Append(log, w) /\ w.path = node.path
  BY <1>1
<1>3. \A k \in DOMAIN log' : (k \in DOMAIN log /\ log'[k] = log[k]) \/ log'[k] = w
  BY <1>2, SeenGrows, CompleteFacts DEF Knowing
<1>4. Led(tree, was, steady, node.path)
  BY <1>1 DEF Knowing, KnownInv
<1>5. \A k \in DOMAIN log' : Known(was, steady, log'[k].path)
  BY <1>2, <1>3, <1>4 DEF Knowing, KnownInv, Led
<1> QED BY <1>1, <1>4, <1>5 DEF Knowing, KnownInv

LEMMA ReadKnown ==
  ASSUME Knowing, Read
  PROVE  KnownInv'
<1> DEFINE E == {Entry(node.path, n) : n \in Children(node.path)}
<1>1. /\ pc = "read" /\ UNCHANGED <<tree, steady, was, log, node, pending, found>>
      /\ \/ kids' = Sorted(E) /\ pc' = "kids" /\ UNCHANGED unknown
         \/ unknown' = Children(node.path) /\ pc' = "lstat" /\ UNCHANGED kids
         \/ /\ pc' = "failed" /\ UNCHANGED <<kids, unknown>>
            /\ ~Listable(node.path) \/ failure' \in Faults
  BY DEF Read, Goto, history
<1>2. kids = <<>> /\ found = {} /\ unknown = {} /\ DOMAIN kids = {}
  BY <1>1, CompleteFacts DEF Knowing, Listing
<1>3. /\ StillThere(node.path) /\ Known(was, steady, node.path) /\ node.path \in Paths
      /\ Straight(tree, steady, node.path)
  BY <1>1, WorkStillThere, CompleteFacts DEF Knowing, Expanding
<1>4. \A n \in Children(node.path) :
        Known(was, steady, Append(node.path, n)) /\ Entry(node.path, n).name = n
  <2> SUFFICES ASSUME NEW n \in Children(node.path)
               PROVE  Known(was, steady, Append(node.path, n)) /\ Entry(node.path, n).name = n
    OBVIOUS
  <2>1. n \in Names /\ Append(node.path, n) \in Paths /\ At(Append(node.path, n)) # "none"
    BY DEF Children
  <2> QED BY <1>3, <2>1, KnownChild DEF Knowing, Entry
<1>5. \A e \in E : Known(was, steady, Append(node.path, e.name))
  BY <1>4
<1>6. /\ E \subseteq Entries /\ IsFiniteSet(E) /\ \A d, e \in E : d.name = e.name => d = e
  BY EntriesRead, CompleteFacts DEF Knowing
<1> HIDE DEF E
<1>7. pc' = "kids" => \A i \in DOMAIN kids' : kids'[i] \in E
  BY <1>1, <1>6, SortedAll
<1>8. \A i \in DOMAIN kids' : Known(was, steady, Append(node.path, kids'[i].name))
  BY <1>1, <1>2, <1>5, <1>7
<1>9. \A n \in unknown' : Known(was, steady, Append(node.path, n))
  BY <1>1, <1>2, <1>4
<1>10. pc' = "failed" /\ failure' = "NotFound" => Blamed(was, steady, node.path)
  <2> SUFFICES ASSUME pc' = "failed", failure' = "NotFound" PROVE Blamed(was, steady, node.path)
    OBVIOUS
  <2>1. "NotFound" \notin Faults
    BY FaultsType
  <2>2. ~Listable(node.path)
    BY <1>1, <2>1
  <2>3. node.path \notin steady
    BY <1>3, <2>2, AtThere DEF StillThere, Listable
  <2> QED BY <1>3, <2>3, KnownDisturbed
<1> QED BY <1>1, <1>2, <1>8, <1>9, <1>10 DEF Knowing, KnownInv

LEMMA LstatKnown ==
  ASSUME Knowing, Lstat
  PROVE  KnownInv'
<1>1. /\ pc = "lstat" /\ UNCHANGED <<tree, steady, was, log, node, pending>>
      /\ \/ kids' = Sorted(found) /\ found' = {} /\ pc' = "kids" /\ UNCHANGED unknown
         \/ \E n \in unknown : /\ found' = found \cup {Entry(node.path, n)}
                               /\ unknown' = unknown \ {n} /\ pc' = "lstat" /\ UNCHANGED kids
         \/ /\ \E n \in unknown : At(Append(node.path, n)) = "none"
            /\ found' = {} /\ unknown' = {} /\ pc' = "failed" /\ UNCHANGED kids
  BY DEF Lstat, Goto, history
<1>2. /\ kids = <<>> /\ DOMAIN kids = {} /\ found \subseteq Entries /\ IsFiniteSet(found)
      /\ \A d, e \in found : d.name = e.name => d = e
      /\ unknown \subseteq Names /\ \A n \in unknown : Append(node.path, n) \in Paths
  BY <1>1, CompleteFacts DEF Knowing, Listing
<1>3. /\ \A n \in unknown : Known(was, steady, Append(node.path, n)) /\ Entry(node.path, n).name = n
      /\ \A e \in found : Known(was, steady, Append(node.path, e.name))
  BY DEF Knowing, KnownInv, Entry
<1>4. pc' = "kids" => \A i \in DOMAIN kids' : kids'[i] \in found
  BY <1>1, <1>2, SortedAll
<1>5. \A i \in DOMAIN kids' : Known(was, steady, Append(node.path, kids'[i].name))
  BY <1>1, <1>2, <1>3, <1>4
<1>6. /\ \A n \in unknown' : Known(was, steady, Append(node.path, n))
      /\ \A e \in found' : Known(was, steady, Append(node.path, e.name))
  BY <1>1, <1>3
<1>7. pc' = "failed" => Blamed(was, steady, node.path)
  <2> SUFFICES ASSUME pc' = "failed" PROVE Blamed(was, steady, node.path)
    OBVIOUS
  <2>1. PICK n \in unknown : At(Append(node.path, n)) = "none"
    BY <1>1
  <2> DEFINE p == Append(node.path, n)
  <2>2. /\ p \in Paths /\ n \in Names /\ node.path \in Seq(Names) /\ p # Root /\ Front(p) = node.path
    <3>1. n \in Names /\ node.path \in Seq(Names) /\ p \in Paths
      BY <1>2, CompleteFacts DEF Knowing
    <3>2. p # Root /\ Front(p) = node.path
      BY <3>1, ChildPath
    <3> QED BY <3>1, <3>2
  <2>3. p \notin steady
    BY <2>1, <2>2, AtThere, CompleteFacts DEF Knowing
  <2>4. PICK q \in Paths : IsPrefix(q, p) /\ Existed(was, q) /\ (q = p \/ q \notin steady)
    BY <1>3 DEF Known
  <2>5. q \in Seq(Names) /\ (q = p \/ IsPrefix(q, node.path))
    BY <2>2, <2>4, PrefixOfChild, TreeAssumption
  <2> HIDE DEF p
  <2> QED BY <2>2, <2>3, <2>4, <2>5 DEF Blamed
<1>8. pc # "failed" /\ pc' # "done"
  BY <1>1
<1> QED BY <1>1, <1>5, <1>6, <1>7 DEF Knowing, KnownInv

LEMMA VisitKidKnown ==
  ASSUME Knowing, VisitKid
  PROVE  KnownInv'
<1> DEFINE name == Head(kids).name
           child == Child(Head(kids))
           w == Visited(child, "OK")
<1>1. /\ pc = "kids" /\ kids # <<>> /\ log' = Append(log, w)
      /\ UNCHANGED <<tree, steady, was, node, found, unknown>> /\ kids' = Tail(kids)
      /\ pending' \in {pending, Append(pending, child)} /\ pc' \in {"kids", "done"}
  BY DEF VisitKid, Visit, Onward, RunsOut, Goto, Finish
<1>2. /\ Head(kids) \in Entries /\ Append(node.path, name) \in Paths
      /\ Head(kids) = kids[1] /\ 1 \in DOMAIN kids
      /\ \A i \in DOMAIN Tail(kids) : i + 1 \in DOMAIN kids /\ Tail(kids)[i] = kids[i + 1]
  BY <1>1, RestOfKids, CompleteFacts DEF Knowing
<1>3. /\ StillThere(node.path) /\ node.path \in Paths /\ Straight(tree, steady, node.path)
      /\ Known(was, steady, node.path)
  BY <1>1, WorkStillThere, CompleteFacts DEF Knowing, Expanding
<1>4. child \in PathNodes /\ child.path = Append(node.path, name) /\ name \in Names
  BY <1>2, ChildType, CompleteFacts DEF Knowing, Entries
<1>5. Led(tree, was, steady, child.path)
  <2>1. Known(was, steady, Append(node.path, name))
    BY <1>2 DEF Knowing, KnownInv
  <2>2. Straight(tree, steady, Append(node.path, name))
    <3> HIDE DEF name
    <3> QED BY <1>3, <1>4, StraightChild DEF Knowing
  <2> QED BY <1>4, <2>1, <2>2 DEF Led
<1> HIDE DEF child
<1>6. w \in Visits /\ w.path = child.path
  BY <1>4, VisitType
<1> HIDE DEF w, name
<1>7. \A k \in DOMAIN log' : (k \in DOMAIN log /\ log'[k] = log[k]) \/ log'[k] = w
  BY <1>1, <1>6, SeenGrows, CompleteFacts DEF Knowing
<1>8. \A k \in DOMAIN log' : Known(was, steady, log'[k].path)
  BY <1>5, <1>6, <1>7 DEF Knowing, KnownInv, Led
<1>9. \A i \in DOMAIN pending' : (i \in DOMAIN pending /\ pending'[i] = pending[i]) \/ pending'[i] = child
  <2>1. pending \in Seq(PathNodes)
    BY CompleteFacts DEF Knowing
  <2>2. CASE pending' = Append(pending, child)
    BY <1>4, <2>1, <2>2, OneMoreNode
  <2> QED BY <1>1, <2>2
<1>10. \A i \in DOMAIN pending' : Led(tree, was, steady, pending'[i].path)
  BY <1>5, <1>9 DEF Knowing, KnownInv
<1>11. \A i \in DOMAIN kids' : Known(was, steady, Append(node.path, kids'[i].name))
  BY <1>1, <1>2 DEF Knowing, KnownInv
<1> QED BY <1>1, <1>3, <1>8, <1>10, <1>11 DEF Knowing, KnownInv, Led

LEMMA PushKidsKnown ==
  ASSUME Knowing, PushKids
  PROVE  KnownInv'
<1> DEFINE n == Len(kids)
           m == Len(pending)
           pushed == PushOrder([i \in DOMAIN kids |-> Child(kids[i])])
<1>1. /\ pc = "kids" /\ pc' = "kids" /\ kids' = <<>> /\ pending' = pending \o pushed
      /\ UNCHANGED <<tree, steady, was, log, node, found, unknown>>
  BY DEF PushKids, Goto, history
<1>2. /\ n \in Nat /\ DOMAIN kids = 1..n /\ pushed \in Seq(PathNodes) /\ Len(pushed) = n
      /\ \A i \in 1..n : n - i + 1 \in 1..n /\ pushed[i] = Child(kids[n - i + 1])
  BY Pushed, CompleteFacts DEF Knowing
<1>3. pending \in Seq(PathNodes) /\ m \in Nat /\ DOMAIN pending = 1..m
  BY CompleteFacts DEF Knowing
<1>4. /\ StillThere(node.path) /\ node.path \in Paths /\ Straight(tree, steady, node.path)
      /\ Known(was, steady, node.path)
  BY <1>1, WorkStillThere, CompleteFacts DEF Knowing, Expanding
<1>5. ASSUME NEW i \in DOMAIN kids PROVE Led(tree, was, steady, Child(kids[i]).path)
  <2> DEFINE name == kids[i].name
  <2>1. Child(kids[i]).path = Append(node.path, name)
    BY DEF Child, Node
  <2>2. Known(was, steady, Append(node.path, name))
    BY <1>5 DEF Knowing, KnownInv
  <2>3. name \in Names
    <3>1. kids \in Seq(Entries) /\ i \in 1..Len(kids)
      BY <1>2, <1>5, CompleteFacts DEF Knowing, Listing
    <3>2. kids[i] \in Entries
      BY <3>1, ElementOfSeq
    <3> QED BY <3>2 DEF Entries
  <2> HIDE DEF name
  <2>4. Straight(tree, steady, Append(node.path, name))
    BY <1>4, <2>3, StraightChild DEF Knowing
  <2> QED BY <2>1, <2>2, <2>4 DEF Led
<1> HIDE DEF n, m, pushed
<1>6. /\ pending' \in Seq(PathNodes) /\ Len(pending') = m + n
      /\ \A i \in 1..(m + n) : pending'[i] = IF i <= m THEN pending[i] ELSE pushed[i - m]
  <2>1. /\ pending \o pushed \in Seq(PathNodes)
        /\ Len(pending \o pushed) = Len(pending) + Len(pushed)
        /\ \A i \in 1..(Len(pending) + Len(pushed)) :
             (pending \o pushed)[i] =
               IF i <= Len(pending) THEN pending[i] ELSE pushed[i - Len(pending)]
    BY <1>2, <1>3, ConcatProperties
  <2> QED BY <1>1, <1>2, <2>1 DEF m
<1>7. DOMAIN pending' = 1..(m + n)
  BY <1>6, LenProperties
<1>8. ASSUME NEW i \in DOMAIN pending' PROVE Led(tree, was, steady, pending'[i].path)
  <2>1. i \in 1..(m + n) /\ m \in Nat /\ n \in Nat
    BY <1>2, <1>3, <1>7, <1>8
  <2>2. CASE i <= m
    <3>1. i \in DOMAIN pending /\ pending'[i] = pending[i]
      BY <1>3, <1>6, <2>1, <2>2
    <3> QED BY <3>1 DEF Knowing, KnownInv
  <2>3. CASE ~(i <= m)
    <3>1. i - m \in 1..n
      BY <2>1, <2>3
    <3>2. pending'[i] = pushed[i - m]
      BY <1>6, <2>1, <2>3
    <3>3. pushed[i - m] = Child(kids[n - (i - m) + 1]) /\ n - (i - m) + 1 \in DOMAIN kids
      BY <1>2, <3>1
    <3> QED BY <1>5, <3>2, <3>3
  <2> QED BY <2>2, <2>3
<1>9. DOMAIN kids' = {}
  BY <1>1
<1> QED BY <1>1, <1>8, <1>9 DEF Knowing, KnownInv

LEMMA RestKnown ==
  ASSUME Knowing, KidsDone \/ RunOut
  PROVE  KnownInv'
<1>1. /\ pc = "kids" /\ pc' \in {"next", "done"}
      /\ UNCHANGED <<tree, steady, was, log, node, pending, found, unknown, kids>>
  BY DEF KidsDone, RunOut, RunsOut, Goto, Finish, history
<1> QED BY <1>1 DEF Knowing, KnownInv

LEMMA StepKnown ==
  ASSUME Knowing, Step
  PROVE  KnownInv'
BY InspectRootKnown, VisitRootKnown, TakeKnown, VisitKnown, ReadKnown, LstatKnown, VisitKidKnown,
   PushKidsKnown, RestKnown DEF Step

-----------------------------------------------------------------------------
(* Complaints are true                                                     *)

\* What others do takes away nothing that is known.
LEMMA OutsideKnown ==
  ASSUME All, Outside
  PROVE  /\ WasTrue => WasTrue'
         /\ \A p : Known(was, steady, p) => Known(was', steady', p)
         /\ \A p : Straight(tree, steady, p) => Straight(tree', steady', p)
         /\ \A p : Blamed(was, steady, p) => Blamed(was', steady', p)
         /\ \A o, p : DanglesHere(tree', steady', o, p) => DanglesHere(tree, steady, o, p)
         /\ UNCHANGED <<options, log, node, pending, unknown, found, kids, pc, failure>>
<1>1. PICK q \in Paths, thing \in Things :
        /\ tree' = [tree EXCEPT ![q] = thing] /\ steady' = steady \ {q}
        /\ was' = was \cup {<<q, KindOf(thing)>>}
        /\ UNCHANGED <<options, log, node, pending, unknown, found, kids, pc, failure>>
  BY OneChange
<1>2. tree \in [Paths -> Things] /\ steady \subseteq Paths
  BY CompleteFacts DEF Typed
<1>3. \A p : Existed(was, p) => Existed(was', p)
  BY <1>1 DEF Existed
<1>4. /\ \A p \in steady' : p \in steady /\ p # q /\ tree'[p] = tree[p]
      /\ \A p \in Paths : tree'[p] = IF p = q THEN thing ELSE tree[p]
  BY <1>1, <1>2
<1>5. ASSUME WasTrue PROVE WasTrue'
  <2> SUFFICES ASSUME NEW p \in Paths, tree'[p] # "none" PROVE Existed(was', p)
    BY DEF WasTrue
  <2>1. CASE p = q
    <3>1. thing # "none" /\ KindOf(thing) \in Kinds
      BY <1>4, <2>1 DEF KindOf, Things, Kinds
    <3> QED BY <1>1, <2>1, <3>1 DEF Existed
  <2>2. CASE p # q
    BY <1>3, <1>4, <1>5, <2>2 DEF WasTrue
  <2> QED BY <2>1, <2>2
<1>6. \A p : Known(was, steady, p) => Known(was', steady', p)
  BY <1>3, <1>4 DEF Known
<1>7. \A p : Straight(tree, steady, p) => Straight(tree', steady', p)
  BY <1>4 DEF Straight
<1>8. \A p : Blamed(was, steady, p) => Blamed(was', steady', p)
  BY <1>3, <1>4 DEF Blamed
<1>9. \A o, p : DanglesHere(tree', steady', o, p) => DanglesHere(tree, steady, o, p)
  BY <1>4 DEF DanglesHere
<1> QED BY <1>1, <1>5, <1>6, <1>7, <1>8, <1>9

\* A visit that reports a failure is that of the directory at work.
LEMMA LogGrowsHow ==
  ASSUME TypeInv, Step, NEW w \in Visits, log \in Seq(Visits), log' = Append(log, w), ~Good(w)
  PROVE  pc = "failed" /\ w = Visited(node, failure)
<1>1. log' # log
  <2>1. Len(log') = Len(log) + 1 /\ Len(log) \in Nat
    BY OneMore
  <2> QED BY <2>1
<1>2. ASSUME NEW v \in Visits, log' = Append(log, v) PROVE v = w
  <2>1. Append(log, v)[Len(log) + 1] = v
    BY OneMore
  <2>2. Append(log, w)[Len(log) + 1] = w
    BY OneMore
  <2>3. Append(log, v) = Append(log, w)
    BY <1>2
  <2> QED BY <2>1, <2>2, <2>3
<1>3. CASE VisitRoot \/ VisitNode
  <2>1. Visited(node, "OK") \in Visits /\ Good(Visited(node, "OK"))
    BY VisitType DEF TypeInv, Typed
  <2>2. log' = Append(log, Visited(node, "OK"))
    BY <1>3 DEF VisitRoot, VisitNode, Visit
  <2> QED BY <1>2, <2>1, <2>2
<1>4. CASE ReportFailure
  <2>1. failure \in Faults \cup {"NotFound"} /\ pc = "failed"
    BY <1>4 DEF ReportFailure, TypeInv, Typed
  <2>2. Visited(node, failure) \in Visits
    BY <2>1, VisitType DEF TypeInv, Typed
  <2>3. log' = Append(log, Visited(node, failure))
    BY <1>4 DEF ReportFailure, Visit
  <2> QED BY <1>2, <2>1, <2>2, <2>3
<1>5. CASE VisitKid
  <2> DEFINE child == Child(Head(kids))
  <2>1. kids # <<>> /\ log' = Append(log, Visited(child, "OK"))
    BY <1>5 DEF VisitKid, Visit
  <2>2. Head(kids) \in Entries /\ Append(node.path, Head(kids).name) \in Paths
    BY <2>1, RestOfKids DEF TypeInv
  <2>3. child \in PathNodes
    BY <2>2, ChildType DEF TypeInv
  <2> HIDE DEF child
  <2>4. Visited(child, "OK") \in Visits /\ Good(Visited(child, "OK"))
    BY <2>3, VisitType
  <2> QED BY <1>2, <2>1, <2>4
<1>6. CASE InspectRoot \/ TakeFirst \/ TakeLast \/ Read \/ Lstat \/ PushKids \/ KidsDone \/ RunOut
  <2>1. log' = log
    BY <1>6 DEF InspectRoot, TakeFirst, TakeLast, Read, Lstat, PushKids, KidsDone, RunOut, history
  <2> QED BY <1>1, <2>1
<1> QED BY <1>3, <1>4, <1>5, <1>6 DEF Step

LEMMA NextBlame ==
  ASSUME CliInv, BlameInv, [CliNext]_allVars
  PROVE  BlameInv'
<1>1. All /\ WasTrue /\ log \in Seq(Visits)
  BY CompleteFacts DEF CliInv, BlameInv
<1>2. CASE WalkOn
  <2>1. Step /\ UNCHANGED <<tree, options, steady, was>> /\ call = NoCall
    BY <1>2, StepLeaves DEF WalkOn
  <2>2. WasTrue'
    BY <1>1, <2>1 DEF WasTrue
  <2>3. ASSUME options.visitor = "walk_visit" PROVE KnownInv' /\ CallsBlamed'
    <3>1. KnownInv /\ CallsBlamed /\ Knowing
      BY <1>1, <2>3 DEF BlameInv, Knowing
    <3>2. KnownInv'
      BY <2>1, <3>1, StepKnown
    <3>3. CASE log' = log
      <4>1. UNCHANGED <<call, complaints>>
        BY <1>2, <3>3 DEF WalkOn, cliVars
      <4> QED BY <2>1, <3>1, <3>2, <4>1 DEF CallsBlamed
    <3>4. CASE log' # log
      <4>1. PICK w \in Visits : log' = Append(log, w)
        BY <1>1, <2>1, <3>4, LogGrows DEF All, Inv
      <4>2. Last(log') = w
        BY <1>1, <4>1, Remembered
      <4>3. Callback(w)
        BY <1>2, <2>3, <3>4, <4>2 DEF WalkOn
      <4>4. CASE Good(w)
        <5>1. UNCHANGED complaints /\ call' = [visit |-> w, step |-> "list"]
          BY <4>3, <4>4 DEF Callback
        <5> QED BY <2>1, <3>1, <3>2, <5>1 DEF CallsBlamed
      <4>5. CASE ~Good(w)
        <5>1. complaints' = complaints \cup {Complaint(w.path, w.status)} /\ UNCHANGED call
          BY <4>3, <4>5 DEF Callback, WarnPath
        <5>2. pc = "failed" /\ w = Visited(node, failure)
          BY <1>1, <2>1, <4>1, <4>5, LogGrowsHow DEF All, Inv
        <5>3. w.status = "NotFound" => Blamed(was, steady, w.path)
          BY <3>1, <5>2 DEF KnownInv, Visited
        <5>4. \A c \in complaints' : c.status = "NotFound" /\ c.path # Root =>
                Blamed(was, steady, c.path)
          BY <3>1, <5>1, <5>3 DEF CallsBlamed, Complaint
        <5> QED BY <2>1, <3>1, <3>2, <5>1, <5>4 DEF CallsBlamed
      <4> QED BY <4>4, <4>5
    <3> QED BY <3>3, <3>4
  <2>4. ASSUME options.visitor # "walk_visit" PROVE call' = NoCall /\ complaints' = {}
    BY <1>2, <2>4 DEF WalkOn, cliVars, BlameInv
  <2> QED BY <2>1, <2>2, <2>3, <2>4 DEF BlameInv
<1>3. CASE ListOne \/ GetValues
  <2>1. /\ UNCHANGED <<tree, options, steady, was, log, node, pending, unknown, found, kids, pc, failure>>
        /\ call # NoCall
    BY <1>3 DEF ListOne, GetValues, vars, walkVars, history
  <2>2. WasTrue' /\ (KnownInv => KnownInv')
    BY <1>1, <2>1 DEF WasTrue, KnownInv
  <2> DEFINE path == call.visit.path
  <2>3. /\ call \in [visit : Visits, step : {"list", "values"}] /\ call.visit \in ToSet(log)
        /\ path \in Paths /\ call.visit.depth = Len(path) /\ path \in Seq(Names)
    <3>1. call \in [visit : Visits, step : {"list", "values"}] /\ call.visit \in ToSet(log)
      BY <2>1 DEF CliInv, Calls
    <3>2. call.visit.depth = Len(path)
      BY <1>1, <3>1, OrderFacts DEF ToSet, All, Goals, VisitsReached
    <3> QED BY <1>1, <3>1, <3>2, LogType DEF ToSet
  <2>4. ASSUME options.visitor = "walk_visit" PROVE CallsBlamed'
    <3>1. KnownInv /\ CallsBlamed
      BY <2>4 DEF BlameInv
    <3>2. Known(was, steady, path)
      BY <2>3, <3>1 DEF KnownInv, ToSet
    <3>3. CASE ListOne
      <4>1. \/ UNCHANGED complaints
            \/ \E s \in Faults : complaints' = complaints \cup {Complaint(path, s)}
            \/ path = Root /\ complaints' = complaints \cup {Complaint(path, "NotFound")}
        <5>1. call.visit.depth > 0 \/ path = Root
          BY <2>3, EmptySeq, PathLen DEF Root
        <5> QED BY <3>3, <5>1 DEF ListOne, Failed, Excused, Skip, WarnPath, PutOut
      <4>2. \A c \in complaints' : c.status = "NotFound" /\ c.path # Root => Blamed(was, steady, c.path)
        <5>1. "NotFound" \notin Faults
          BY FaultsType
        <5> QED BY <3>1, <4>1, <5>1 DEF CallsBlamed, Complaint
      <4>3. \/ call' = NoCall
            \/ Resolves(path) /\ call' = [call EXCEPT !.step = "values"]
        BY <3>3 DEF ListOne
      <4>4. call' # NoCall => ~DanglesHere(tree, steady, options, call'.visit.path)
        <5> SUFFICES ASSUME Resolves(path), call' = [call EXCEPT !.step = "values"]
                     PROVE  ~DanglesHere(tree, steady, options, call'.visit.path)
          BY <4>3
        <5>1. call'.visit = call.visit
          BY <2>3
        <5>2. ~DanglesHere(tree, steady, options, path)
          BY <1>1, <2>3, Dangles DEF DanglesHere
        <5> QED BY <5>1, <5>2
      <4> QED BY <2>1, <4>2, <4>4 DEF CallsBlamed
    <3>4. CASE GetValues
      <4>1. /\ call.step = "values" /\ call' = NoCall
            /\ \/ UNCHANGED complaints
               \/ complaints' = complaints \cup {Complaint(path, "Missing")}
               \/ ~Resolves(path) /\ complaints' = complaints \cup {Complaint(path, "NotFound")}
               \/ \E s \in Faults : complaints' = complaints \cup {Complaint(path, s)}
        BY <3>4 DEF GetValues, WarnPath, PutOut
      <4>2. ~Resolves(path) => Blamed(was, steady, path)
        <5>1. ~DanglesHere(tree, steady, options, path)
          BY <2>1, <3>1, <4>1 DEF CallsBlamed
        <5>2. ~Resolves(path) => path \notin steady
          BY <1>1, <2>3, <5>1, Dangles DEF DanglesHere
        <5> QED BY <2>3, <3>2, <5>2, KnownDisturbed
      <4>3. \A c \in complaints' : c.status = "NotFound" /\ c.path # Root => Blamed(was, steady, c.path)
        <5>1. "NotFound" \notin Faults
          BY FaultsType
        <5> QED BY <3>1, <4>1, <4>2, <5>1 DEF CallsBlamed, Complaint
      <4> QED BY <2>1, <4>1, <4>3 DEF CallsBlamed
    <3> QED BY <1>3, <3>3, <3>4
  <2> QED BY <2>1, <2>2, <2>4 DEF BlameInv
<1>4. CASE Outside /\ UNCHANGED cliVars
  <2>1. UNCHANGED <<call, complaints, options>>
    BY <1>1, <1>4, OutsideKnown DEF cliVars
  <2>2. KnownInv => KnownInv'
    BY <1>1, <1>4, OutsideKnown DEF KnownInv, Led
  <2>3. CallsBlamed => CallsBlamed'
    BY <1>1, <1>4, <2>1, OutsideKnown DEF CallsBlamed
  <2> QED BY <1>1, <1>4, <2>1, <2>2, <2>3, OutsideKnown DEF BlameInv
<1>5. CASE UNCHANGED allVars
  BY <1>5 DEF allVars, vars, walkVars, history, cliVars, BlameInv, WasTrue, KnownInv, CallsBlamed
<1> QED BY <1>2, <1>3, <1>4, <1>5 DEF CliNext

LEMMA InitBlame == CliInit => BlameInv
<1> SUFFICES ASSUME CliInit PROVE BlameInv
  OBVIOUS
<1>1. /\ log = <<>> /\ pending = <<>> /\ kids = <<>> /\ found = {} /\ unknown = {}
      /\ pc = "inspect" /\ call = NoCall /\ complaints = {}
      /\ was = {<<p, KindOf(tree[p])>> : p \in Paths} /\ tree \in [Paths -> Things]
  BY TreeAssumption DEF CliInit, Init
<1>2. DOMAIN log = {} /\ DOMAIN pending = {} /\ DOMAIN kids = {}
  BY <1>1
<1>3. KnownInv /\ CallsBlamed
  BY <1>1, <1>2 DEF KnownInv, CallsBlamed
<1>4. ASSUME NEW p \in Paths, tree[p] # "none" PROVE Existed(was, p)
  <2>1. KindOf(tree[p]) \in Kinds
    BY <1>1, <1>4 DEF KindOf, Things, Kinds
  <2> QED BY <1>1, <2>1 DEF Existed
<1>5. WasTrue
  BY <1>4 DEF WasTrue
<1> QED BY <1>1, <1>3, <1>5 DEF BlameInv

\* lst -r never says of something below the root that it cannot be found
\* unless it, what led to it or, where the listing tells no kinds, an entry of
\* it was there and something has happened to it since.
THEOREM ComplaintsTrue == CliSpec => []BlameTrue
<1>1. CliInv /\ BlameInv /\ [CliNext]_allVars => CliInv' /\ BlameInv'
  BY NextCliInv, NextBlame
<1>2. CliInit => BlameInv
  BY InitBlame
<1>3. BlameInv => BlameTrue
  BY DEF BlameInv, CallsBlamed, BlameTrue, Blamed, Disturbed, Existed
<1> QED BY <1>1, <1>2, <1>3, CliInvariance, PTL DEF CliSpec
=============================================================================
