----------------------------- MODULE LibIoProofs -----------------------------
(***************************************************************************)
(* However many threads walk at once, the library's Io is built once and   *)
(* used only when it is built.  The claim of io_state makes the builder    *)
(* unique; what each label of the builder knows carries that to its users. *)
(***************************************************************************)
EXTENDS LibIo, TLAPS

\* There is a builder exactly while io_state is 1, and only one.
OneBuilder ==
  /\ \A t \in Threads : pc[t] \in Building => io_state = 1
  /\ \A s, t \in Threads : pc[s] \in Building /\ pc[t] \in Building => s = t

\* Who has built, in terms of where the building is.
Progress ==
  /\ io_state = 0 => builder = {}
  /\ io_state = 1 => \A t \in builder : pc[t] \in {"finish", "publish"}
  /\ \A t \in Threads : pc[t] = "build" => builder = {}
  /\ \A s, t \in builder : s = t

\* Who relies on it being built.
Built ==
  /\ \A t \in Threads : pc[t] = "publish" => threaded = "built"
  /\ io_state = 2 => threaded = "built"
  /\ \A t \in Threads : pc[t] = "use" => io_state = 2

IInv == TypeOK /\ OneBuilder /\ Progress /\ Built

LEMMA IInvInit == Init => IInv
BY DEF Init, IInv, TypeOK, OneBuilder, Progress, Built, Building

LEMMA IInvStep == IInv /\ [Next]_vars => IInv'
<1> SUFFICES ASSUME IInv, [Next]_vars PROVE IInv'
  OBVIOUS
<1> USE DEF IInv, TypeOK, OneBuilder, Progress, Built, Building, Goto
<1>1. ASSUME NEW t \in Threads, Enter(t) PROVE IInv'
  BY <1>1 DEF Enter
<1>2. ASSUME NEW t \in Threads, Race(t) PROVE IInv'
  <2>1. CASE io_state = 0
    BY <1>2, <2>1 DEF Race
  <2>2. CASE io_state # 0
    BY <1>2, <2>2 DEF Race
  <2> QED BY <2>1, <2>2
<1>3. ASSUME NEW t \in Threads, Build(t) PROVE IInv'
  BY <1>3 DEF Build
<1>4. ASSUME NEW t \in Threads, FinishBuild(t) PROVE IInv'
  BY <1>4 DEF FinishBuild
<1>5. ASSUME NEW t \in Threads, Publish(t) PROVE IInv'
  BY <1>5 DEF Publish, Ready
<1>6. ASSUME NEW t \in Threads, Spin(t) PROVE IInv'
  BY <1>6 DEF Spin, SpinDone
<1>7. ASSUME NEW t \in Threads, Leave(t) PROVE IInv'
  BY <1>7 DEF Leave
<1>8. CASE UNCHANGED vars
  BY <1>8 DEF vars
<1> QED BY <1>1, <1>2, <1>3, <1>4, <1>5, <1>6, <1>7, <1>8 DEF Next, Step

\* Any number of threads in libIo: the Io is built once, and complete before
\* anyone reads a directory with it.
THEOREM BuiltOnce == Spec => []UsedWhenBuilt
<1>1. IInv => UsedWhenBuilt
  BY DEF IInv, UsedWhenBuilt, Progress, Built
<1> QED BY <1>1, IInvInit, IInvStep, PTL DEF Spec
=============================================================================
