--------------------------- MODULE PosixCoreProofs ---------------------------
(***************************************************************************)
(* For any clients, values, lengths, requests and faults: the core answers *)
(* every call as AttrCalls allows, leaks nothing, never allocates past the *)
(* caller's bound, and implements the atomic attribute of AttrStore.       *)
(*                                                                         *)
(* AnswersHold is not inductive.  What makes it so is what a get knows     *)
(* between two system calls: each failed attempt has one write of another  *)
(* process behind it (churn >= attempt), and after a size query either the *)
(* cell is still the value that was measured or one more write happened.   *)
(***************************************************************************)
EXTENDS PosixCore, TLAPS

\* The label of a call's first system call is its operation.
Started(c) ==
  /\ request[c] \in Requests
  /\ answer[c] = NoAnswer
  /\ cell \in seen[c]

Accepted(c) == Started(c) /\ Rejection(request[c]) = "none"

\* What a call knows at each of its labels.
CallInv(c) ==
  /\ pc[c] = "idle" =>
       request[c] = NoRequest /\ answer[c] = NoAnswer /\ attempt[c] = 0
         /\ churn[c] = 0 /\ live[c] = 0
  /\ pc[c] = "check" => Started(c) /\ attempt[c] = 0 /\ live[c] = 0
  /\ pc[c] \in Ops => Accepted(c) /\ request[c].op = pc[c] /\ attempt[c] = 0 /\ live[c] = 0
  /\ pc[c] \in {"sizeQuery", "sizedRead"} =>
       Accepted(c) /\ request[c].op = "get" /\ attempt[c] < MaxAttempts
         /\ churn[c] >= attempt[c]
  /\ pc[c] = "sizeQuery" => live[c] = 0
  /\ pc[c] = "sizedRead" =>
       /\ live[c] = 1
       /\ 0 < expected[c] /\ expected[c] <= request[c].limit
       /\ churn[c] > attempt[c] \/ (cell \in Values /\ LenOf[cell] = expected[c])
  /\ pc[c] = "done" => request[c] \in Requests /\ answer[c] # NoAnswer

ClientInv(c) == Explained(c) /\ Tidy(c) /\ CallInv(c)

IInv == TypeOK /\ \A c \in Clients : ClientInv(c)

-----------------------------------------------------------------------------
(* The kernel and the error map                                            *)

\* An errno the environment may produce at any time maps to a refusal.
LEMMA EnvironmentRefuses ==
  ASSUME NEW e \in EnvironmentErrnos, NEW ctx
  PROVE  MapErrno(e, ctx) \in Refusals
BY DEF EnvironmentErrnos, MapErrno, Refusals

LEMMA MapErrnoType ==
  ASSUME NEW e \in Errnos, NEW ctx
  PROVE  MapErrno(e, ctx) \in Statuses \ {"OK", "Changed"}
BY DEF Errnos, MapErrno, Statuses

\* What a getxattr of `room` bytes may return, in terms of the cell.
LEMMA GetXattrOutcome ==
  ASSUME TypeOK, NEW room \in Nat, NEW k \in GetXattr(room)
  PROVE  \/ k.errno \in EnvironmentErrnos
         \/ k.errno = "NOENT" /\ cell = Gone
         \/ k.errno = "NODATA" /\ cell = Absent
         \/ k.errno = "RANGE" /\ room > 0 /\ cell \in Values /\ LenOf[cell] > room
         \/ /\ k.errno = "SUCCESS" /\ cell \in Values /\ k.got = LenOf[cell]
            /\ room > 0 => k.data = cell /\ LenOf[cell] <= room
BY CellAssumption, KernelAssumption DEF TypeOK, GetXattr, Contents

LEMMA EnvironmentType == EnvironmentErrnos \subseteq Errnos \ {"RANGE", "NOENT", "NODATA"}
BY DEF EnvironmentErrnos, Errnos

-----------------------------------------------------------------------------
(* Answers                                                                 *)

LEMMA ZeroIsALength == 0 \in {LenOf[v] : v \in Values}
BY CellAssumption

LEMMA FailType ==
  ASSUME NEW s \in Statuses
  PROVE  Fail(s) \in Answer /\ Fail(s) # NoAnswer
BY ZeroIsALength, CallAssumption DEF Fail, Answer

LEMMA ReadType ==
  ASSUME NEW v \in Values
  PROVE  /\ Read(v) \in Answer /\ Read(v) # NoAnswer
         /\ Sized(LenOf[v]) \in Answer /\ Sized(LenOf[v]) # NoAnswer
BY CallAssumption DEF Read, Sized, Answer, Statuses

LEMMA DoneType == Done \in Answer /\ Done # NoAnswer
BY ZeroIsALength, CallAssumption DEF Done, Answer, Statuses

\* A reading call may fail with what the errno of a getxattr says.
LEMMA ErrnoAllowed ==
  ASSUME TypeOK, NEW room \in Nat, NEW k \in GetXattr(room), NEW r \in Requests,
         NEW n, NEW S, cell \in S, NEW ctx, r.args = "ok",
         k.errno # "SUCCESS", k.errno # "RANGE"
  PROVE  Fail(MapErrno(k.errno, ctx)) \in MayAnswer(r, S, n)
<1>1. CASE k.errno \in EnvironmentErrnos
  BY <1>1, EnvironmentRefuses DEF MayAnswer, Outcomes
<1>2. CASE k.errno = "NOENT" /\ cell = Gone
  BY <1>2 DEF MayAnswer, Outcomes, MapErrno
<1>3. CASE k.errno = "NODATA" /\ cell = Absent
  BY <1>3 DEF MayAnswer, Outcomes, MapErrno
<1> QED BY <1>1, <1>2, <1>3, GetXattrOutcome

\* What a reading call may answer when the cell is one of the contents it saw.
LEMMA ReadAllowed ==
  ASSUME NEW r \in Requests, NEW n, NEW S, NEW v \in Values, v \in S, r.args = "ok"
  PROVE  /\ r.op \in {"get", "getInto"} /\ LenOf[v] <= r.limit => Read(v) \in MayAnswer(r, S, n)
         /\ r.op = "size" => Sized(LenOf[v]) \in MayAnswer(r, S, n)
         /\ r.op = "get" /\ LenOf[v] > r.limit => Fail("TooLarge") \in MayAnswer(r, S, n)
         /\ r.op = "getInto" /\ LenOf[v] > r.limit => Fail("BufferTooSmall") \in MayAnswer(r, S, n)
<1> r.limit \in Nat /\ LenOf[v] \in Nat
  BY CallAssumption, CellAssumption DEF Request
<1>1. LenOf[v] > r.limit =>
        S \cap Values # {w \in S \cap Values : LenOf[w] <= r.limit}
  OBVIOUS
<1> QED BY <1>1 DEF MayAnswer, Outcomes

LEMMA MemoryAllowed ==
  ASSUME NEW r \in Requests, NEW n, NEW S, r.args = "ok"
  PROVE  Fail("OutOfMemory") \in MayAnswer(r, S, n)
BY DEF MayAnswer, Outcomes, Refusals

LEMMA ChangedAllowed ==
  ASSUME NEW r \in Requests, NEW S, r.args = "ok", r.op = "get"
  PROVE  Fail("Changed") \in MayAnswer(r, S, MaxAttempts)
BY DEF MayAnswer, Outcomes

LEMMA AcceptedRequest ==
  ASSUME NEW r \in Requests, Rejection(r) = "none"
  PROVE  /\ r.args = "ok" /\ r.op \in Ops /\ r.limit \in Nat
         /\ r.op = "set" => r.value \in Values /\ LenOf[r.value] <= r.limit
<1>1. r \in Request
  BY CallAssumption
<1>2. r.args = "ok"
  BY <1>1 DEF Request, Rejection
<1>3. r.op = "set" => ~(LenOf[r.value] > r.limit)
  BY <1>2 DEF Rejection
<1> QED BY <1>1, <1>2, <1>3, CallAssumption, CellAssumption DEF Request

-----------------------------------------------------------------------------
(* Frame: a step of one client disturbs no other.                          *)

\* The step leaves everything client d holds to itself alone.
Spares(d) ==
  /\ request'[d] = request[d] /\ answer'[d] = answer[d] /\ pc'[d] = pc[d]
  /\ attempt'[d] = attempt[d] /\ expected'[d] = expected[d] /\ live'[d] = live[d]

\* The cell as client d sees it change: not at all, or with a witness.
Watches(d) ==
  \/ cell' = cell /\ seen'[d] = seen[d] /\ churn'[d] = churn[d]
  \/ \E x \in Contents : Store!Replace(x)

LEMMA Frame ==
  ASSUME IInv, NEW d \in Clients, Spares(d), Watches(d)
  PROVE  ClientInv(d)'
<1> USE DEF Spares
<1>1. CASE cell' = cell /\ seen'[d] = seen[d] /\ churn'[d] = churn[d]
  BY <1>1 DEF IInv, ClientInv, Explained, Tidy, CallInv, Accepted, Started
<1>2. CASE \E x \in Contents : Store!Replace(x)
  <2>1. CASE Store!Busy(d)
    <3>1. answer[d] = NoAnswer /\ request[d] # NoRequest
      BY <2>1 DEF Store!Busy
    <3>2. cell' \in seen'[d] /\ churn[d] \in 0..MaxAttempts
          /\ churn'[d] = IF churn[d] < MaxAttempts THEN churn[d] + 1 ELSE churn[d]
      BY <1>2, <2>1 DEF Store!Replace, IInv, TypeOK
    <3>3. attempt[d] \in 0..MaxAttempts /\ MaxAttempts \in Nat
      BY CallAssumption DEF IInv, TypeOK
    <3>4. pc[d] \notin {"idle", "done"}
      BY <3>1 DEF IInv, ClientInv, CallInv
    <3>5. Explained(d)' /\ Tidy(d)'
      BY <3>1, <3>4 DEF Explained, Tidy
    <3>6. CallInv(d)'
      BY <3>1, <3>2, <3>3, <3>4 DEF IInv, ClientInv, CallInv, Accepted, Started
    <3> QED BY <3>5, <3>6 DEF ClientInv
  <2>2. CASE ~Store!Busy(d)
    <3>1. seen'[d] = seen[d] /\ churn'[d] = churn[d]
      BY <1>2, <2>2 DEF Store!Replace
    <3>2. pc[d] \in {"idle", "done"}
      <4>1. pc[d] \in Labels
        BY DEF IInv, TypeOK
      <4>2. request[d] \in Requests => request[d] # NoRequest
        BY CallAssumption
      <4> QED BY <4>1, <4>2, <2>2 DEF IInv, ClientInv, CallInv, Accepted, Started, Store!Busy, Labels, Ops
    <3> QED BY <3>1, <3>2 DEF IInv, ClientInv, Explained, Tidy, CallInv, Ops
  <2> QED BY <2>1, <2>2
<1> QED BY <1>1, <1>2 DEF Watches

-----------------------------------------------------------------------------
(* Steps                                                                   *)

\* The state a client's step starts from, without the quantifiers.
LEMMA Local ==
  ASSUME IInv, NEW c \in Clients
  PROVE  /\ ClientInv(c) /\ TypeOK
         /\ pc[c] \in Labels /\ live[c] \in 0..1 /\ attempt[c] \in 0..MaxAttempts
         /\ churn[c] \in 0..MaxAttempts /\ expected[c] \in Nat
         /\ MaxAttempts \in Nat \ {0}
BY CallAssumption DEF IInv, TypeOK

\* A call that ends with an allowed answer, having left the cell alone.
LEMMA FinishQuietly ==
  ASSUME IInv, NEW c \in Clients, NEW a \in Answer, NEW n \in 0..1,
         Finish(c, a, n), Quiet, a # NoAnswer, request[c] \in Requests,
         a \in MayAnswer(request[c], seen[c], churn[c]),
         n = IF request[c].op = "get" /\ a.status = "OK" THEN 1 ELSE 0
  PROVE  /\ ClientInv(c)'
         /\ pc' \in [Clients -> Labels] /\ live' \in [Clients -> 0..1]
         /\ answer' \in [Clients -> Answer \cup {NoAnswer}]
<1>1. /\ pc'[c] = "done" /\ answer'[c] = a /\ live'[c] = n
      /\ pc' \in [Clients -> Labels] /\ live' \in [Clients -> 0..1]
      /\ answer' \in [Clients -> Answer \cup {NoAnswer}]
  BY DEF IInv, TypeOK, Finish, Labels
<1>2. Explained(c)' /\ Tidy(c)'
  BY <1>1 DEF Explained, Tidy, Quiet
<1>3. CallInv(c)'
  BY <1>1 DEF CallInv, Ops, Quiet
<1> QED BY <1>1, <1>2, <1>3 DEF ClientInv

LEMMA RecordType ==
  ASSUME TypeOK, NEW c \in Clients, NEW e \in Errnos \cup {"SUCCESS"}, Record(c, e)
  PROVE  osError' \in [Clients -> Errnos \cup {"SUCCESS"}]
BY DEF TypeOK, Record

LEMMA BeginStep ==
  ASSUME IInv, NEW c \in Clients, NEW r \in Requests, Begin(c, r)
  PROVE  TypeOK' /\ ClientInv(c)'
<1>1. TypeOK /\ CallInv(c) /\ pc[c] = "idle"
  BY DEF IInv, ClientInv, Begin
<1>2. TypeOK'
  BY <1>1 DEF TypeOK, Begin, Store!Begin, Labels
<1>3. /\ request'[c] = r /\ seen'[c] = {cell} /\ answer'[c] = NoAnswer /\ pc'[c] = "check"
      /\ attempt'[c] = 0 /\ live'[c] = 0 /\ cell' = cell
  BY <1>1 DEF TypeOK, Begin, Store!Begin, CallInv
<1> QED BY <1>2, <1>3 DEF ClientInv, Explained, Tidy, CallInv, Started, Ops

LEMMA CheckStep ==
  ASSUME IInv, NEW c \in Clients, Check(c)
  PROVE  TypeOK' /\ ClientInv(c)'
<1> DEFINE r == request[c]
<1>1. /\ TypeOK /\ CallInv(c) /\ pc[c] = "check" /\ Started(c) /\ live[c] = 0 /\ attempt[c] = 0
      /\ r \in Requests /\ r \in Request
  BY CallAssumption DEF IInv, ClientInv, Check, CallInv, Started
<1>2. CASE Rejection(r) # "none" /\ Finish(c, Fail(Rejection(r)), 0)
  <2>1. Rejection(r) \in Statuses \ {"OK"}
    BY <1>2 DEF Rejection, Statuses
  <2>2. Fail(Rejection(r)) \in MayAnswer(r, seen[c], churn[c])
    <3>1. CASE r.args = "badName"
      BY <3>1 DEF Rejection, MayAnswer
    <3>2. CASE r.args = "badPath"
      BY <3>2 DEF Rejection, MayAnswer
    <3>3. CASE r.args = "ok"
      <4>1. r.op = "set" /\ Rejection(r) = "TooLarge"
        BY <1>2, <3>3 DEF Rejection
      <4> QED BY <3>3, <4>1 DEF MayAnswer, Outcomes
    <3> QED BY <1>1, <3>1, <3>2, <3>3 DEF Request
  <2>3. Fail(Rejection(r)).status # "OK"
    BY <2>1 DEF Fail
  <2>4. Quiet /\ UNCHANGED <<attempt, expected, osError>>
    BY DEF Check
  <2>5. /\ ClientInv(c)'
        /\ pc' \in [Clients -> Labels] /\ live' \in [Clients -> 0..1]
        /\ answer' \in [Clients -> Answer \cup {NoAnswer}]
    BY <1>1, <1>2, <2>1, <2>2, <2>3, <2>4, FailType, FinishQuietly
  <2> QED BY <1>1, <2>4, <2>5 DEF TypeOK, Quiet
<1>3. CASE Rejection(r) = "none" /\ Goto(c, r.op) /\ UNCHANGED live
  <2>1. r.op \in Ops /\ r.op \in Labels
    BY <1>1 DEF Request, Ops, Labels
  <2>2. Quiet /\ UNCHANGED <<attempt, expected, osError, live, answer>> /\ pc' = [pc EXCEPT ![c] = r.op]
    BY <1>3 DEF Check, Goto
  <2>3. TypeOK'
    BY <1>1, <2>1, <2>2 DEF TypeOK, Quiet
  <2>4. pc'[c] = r.op
    BY <1>1, <2>2 DEF TypeOK
  <2> QED
    BY <1>1, <1>3, <2>1, <2>2, <2>3, <2>4
       DEF ClientInv, Explained, Tidy, CallInv, Accepted, Started, Quiet, Ops
<1> QED BY <1>2, <1>3 DEF Check

\* A write: it either replaces the cell and answers Done, or leaves the cell
\* alone and fails with what the errno says.
LEMMA ReplaceFinish ==
  ASSUME IInv, NEW c \in Clients, NEW x \in Contents, Store!Replace(x), Finish(c, Done, 0),
         request[c] \in Requests, answer[c] = NoAnswer, request'[c] = request[c],
         request[c].args = "ok",
         \/ request[c].op = "set" /\ x = request[c].value /\ LenOf[x] <= request[c].limit
         \/ request[c].op = "remove" /\ x = Absent
  PROVE  /\ ClientInv(c)'
         /\ cell' \in Contents /\ seen' \in [Clients -> SUBSET Contents]
         /\ churn' \in [Clients -> 0..MaxAttempts]
         /\ pc' \in [Clients -> Labels] /\ live' \in [Clients -> 0..1]
         /\ answer' \in [Clients -> Answer \cup {NoAnswer}]
<1>1. /\ pc'[c] = "done" /\ answer'[c] = Done /\ live'[c] = 0
      /\ pc' \in [Clients -> Labels] /\ live' \in [Clients -> 0..1]
      /\ answer' \in [Clients -> Answer \cup {NoAnswer}]
  BY DoneType DEF IInv, TypeOK, Finish, Labels
<1>2. /\ cell' \in Contents /\ seen' \in [Clients -> SUBSET Contents]
      /\ churn' \in [Clients -> 0..MaxAttempts]
  BY CallAssumption DEF IInv, TypeOK, Store!Replace
<1>3. Store!Busy(c)
  BY CallAssumption DEF Store!Busy
<1>4. x \in seen'[c]
  BY <1>3 DEF Store!Replace
<1>5. Wrote(request'[c], seen'[c], answer'[c])
  BY <1>1, <1>4 DEF Wrote
<1>6. Explained(c)' /\ Tidy(c)' /\ CallInv(c)'
  BY <1>1, <1>5, DoneType DEF Explained, Tidy, CallInv, Ops
<1> QED BY <1>1, <1>2, <1>6 DEF ClientInv

LEMMA WriteFaultAllowed ==
  ASSUME NEW r \in Requests, r.args = "ok", r.op \in {"set", "remove"}, NEW S, NEW n, NEW e, NEW ctx,
         cell \in S,
         \/ e \in WriteFaults \/ e = "2BIG" \/ (e = "NOENT" /\ cell = Gone)
         \/ (e = "NODATA" /\ cell = Absent)
  PROVE  /\ Fail(MapErrno(e, ctx)) \in MayAnswer(r, S, n) /\ e \in Errnos
         /\ Fail(MapErrno(e, ctx)).status # "OK"
<1>1. CASE e \in EnvironmentErrnos
  BY <1>1, EnvironmentRefuses, EnvironmentType DEF MayAnswer, Outcomes, Refusals, Fail
<1>2. CASE e \in {"NOSPC", "DQUOT", "FBIG", "2BIG"}
  <2>1. MapErrno(e, ctx) = "TooLarge"
    BY <1>2 DEF MapErrno
  <2> QED BY <1>2, <2>1 DEF MayAnswer, Outcomes, Fail, Errnos
<1>3. CASE e = "NOENT" /\ cell = Gone
  <2>1. MapErrno(e, ctx) = "NotFound"
    BY <1>3 DEF MapErrno
  <2> QED BY <1>3, <2>1 DEF MayAnswer, Outcomes, Fail, Errnos
<1>4. CASE e = "NODATA" /\ cell = Absent
  <2>1. MapErrno(e, ctx) = "Missing"
    BY <1>4 DEF MapErrno
  <2> QED BY <1>4, <2>1 DEF MayAnswer, Outcomes, Fail, Errnos
<1> QED BY <1>1, <1>2, <1>3, <1>4, KernelAssumption

LEMMA SetStep ==
  ASSUME IInv, NEW c \in Clients, Set(c)
  PROVE  TypeOK' /\ ClientInv(c)'
<1> DEFINE r == request[c]
<1>1. /\ TypeOK /\ pc[c] = "set" /\ Accepted(c) /\ Started(c) /\ r.op = "set" /\ r \in Requests
      /\ UNCHANGED <<request, attempt, expected>>
  BY DEF IInv, ClientInv, Set, CallInv, Accepted, Started, Ops
<1>2. r.args = "ok" /\ r.value \in Values /\ LenOf[r.value] <= r.limit
  BY <1>1, AcceptedRequest DEF Accepted
<1>3. PICK k \in SetXattr(r.value) :
        /\ Record(c, k.errno)
        /\ IF k.errno = "SUCCESS"
           THEN Store!Replace(k.after) /\ Finish(c, Done, 0)
           ELSE UNCHANGED <<cell, seen, churn>> /\ Finish(c, Fail(MapErrno(k.errno, "generic")), 0)
  BY DEF Set
<1>4. CASE k.errno = "SUCCESS"
  <2>1. k.after = r.value /\ r.value \in Contents
    BY <1>2, <1>4, KernelAssumption, EnvironmentType DEF SetXattr, Contents, Errnos, EnvironmentErrnos
  <2>2. osError' \in [Clients -> Errnos \cup {"SUCCESS"}]
    BY <1>1, <1>3, <1>4, RecordType
  <2> QED BY <1>1, <1>2, <1>3, <1>4, <2>1, <2>2, ReplaceFinish DEF TypeOK, Started
<1>5. CASE k.errno # "SUCCESS"
  <2>1. k.errno \in WriteFaults \/ k.errno = "2BIG" \/ (k.errno = "NOENT" /\ cell = Gone)
    BY <1>5 DEF SetXattr
  <2> DEFINE a == Fail(MapErrno(k.errno, "generic"))
  <2>2. a \in MayAnswer(r, seen[c], churn[c]) /\ k.errno \in Errnos /\ a.status # "OK"
    BY <1>1, <1>2, <2>1, WriteFaultAllowed DEF Started
  <2>3. a \in Answer /\ a # NoAnswer
    BY <2>2, MapErrnoType, FailType
  <2>4. osError' \in [Clients -> Errnos \cup {"SUCCESS"}]
    BY <1>1, <1>3, <2>2, RecordType
  <2>5. Quiet
    BY <1>1, <1>3, <1>5 DEF Quiet
  <2> HIDE DEF a
  <2>6. Finish(c, a, 0)
    BY <1>3, <1>5 DEF a
  <2> QED BY <1>1, <2>2, <2>3, <2>4, <2>5, <2>6, FinishQuietly DEF TypeOK, Quiet
<1> QED BY <1>4, <1>5

LEMMA RemoveStep ==
  ASSUME IInv, NEW c \in Clients, Remove(c)
  PROVE  TypeOK' /\ ClientInv(c)'
<1> DEFINE r == request[c]
<1>1. /\ TypeOK /\ pc[c] = "remove" /\ Accepted(c) /\ Started(c) /\ r.op = "remove" /\ r \in Requests
      /\ UNCHANGED <<request, attempt, expected>>
  BY DEF IInv, ClientInv, Remove, CallInv, Accepted, Started, Ops
<1>2. r.args = "ok"
  BY <1>1, AcceptedRequest DEF Accepted
<1>3. PICK k \in RemoveXattr :
        /\ Record(c, k.errno)
        /\ IF k.errno = "SUCCESS"
           THEN Store!Replace(k.after) /\ Finish(c, Done, 0)
           ELSE UNCHANGED <<cell, seen, churn>> /\ Finish(c, Fail(MapErrno(k.errno, "generic")), 0)
  BY DEF Remove
<1>4. CASE k.errno = "SUCCESS"
  <2>1. k.after = Absent /\ Absent \in Contents
    BY <1>4, KernelAssumption, EnvironmentType DEF RemoveXattr, Contents, Errnos, EnvironmentErrnos
  <2>2. osError' \in [Clients -> Errnos \cup {"SUCCESS"}]
    BY <1>1, <1>3, <1>4, RecordType
  <2> QED BY <1>1, <1>2, <1>3, <1>4, <2>1, <2>2, ReplaceFinish DEF TypeOK, Started
<1>5. CASE k.errno # "SUCCESS"
  <2>1. \/ k.errno \in WriteFaults \/ (k.errno = "NOENT" /\ cell = Gone)
        \/ (k.errno = "NODATA" /\ cell = Absent)
    BY <1>5 DEF RemoveXattr
  <2> DEFINE a == Fail(MapErrno(k.errno, "generic"))
  <2>2. a \in MayAnswer(r, seen[c], churn[c]) /\ k.errno \in Errnos /\ a.status # "OK"
    BY <1>1, <1>2, <2>1, WriteFaultAllowed DEF Started
  <2>3. a \in Answer /\ a # NoAnswer
    BY <2>2, MapErrnoType, FailType
  <2>4. osError' \in [Clients -> Errnos \cup {"SUCCESS"}]
    BY <1>1, <1>3, <2>2, RecordType
  <2>5. Quiet
    BY <1>1, <1>3, <1>5 DEF Quiet
  <2> HIDE DEF a
  <2>6. Finish(c, a, 0)
    BY <1>3, <1>5 DEF a
  <2> QED BY <1>1, <2>2, <2>3, <2>4, <2>5, <2>6, FinishQuietly DEF TypeOK, Quiet
<1> QED BY <1>4, <1>5

\* A reading step that fails with its errno.
LEMMA ReadFailure ==
  ASSUME IInv, NEW c \in Clients, Accepted(c), NEW room \in Nat, NEW k \in GetXattr(room),
         k.errno \notin {"SUCCESS", "RANGE"}, NEW ctx
  PROVE  LET a == Fail(MapErrno(k.errno, ctx))
         IN a \in Answer /\ a # NoAnswer /\ a.status # "OK"
              /\ a \in MayAnswer(request[c], seen[c], churn[c])
<1>1. TypeOK /\ request[c] \in Requests /\ request[c].args = "ok" /\ cell \in seen[c]
  BY AcceptedRequest DEF IInv, Accepted, Started
<1>2. k.errno \in Errnos
  BY <1>1, GetXattrOutcome, EnvironmentType DEF Errnos
<1>3. MapErrno(k.errno, ctx) \in Statuses \ {"OK", "Changed"}
  BY <1>2, MapErrnoType
<1>4. Fail(MapErrno(k.errno, ctx)) \in MayAnswer(request[c], seen[c], churn[c])
  BY <1>1, ErrnoAllowed
<1> QED BY <1>3, <1>4, FailType DEF Fail

\* What is true of every step that reads the attribute with getxattr.
LEMMA ReadStart ==
  ASSUME IInv, NEW c \in Clients, pc[c] \in {"size", "getInto", "get", "sizeQuery", "sizedRead"}
  PROVE  /\ TypeOK /\ Accepted(c) /\ request[c] \in Requests /\ request[c].args = "ok"
         /\ request[c].limit \in Nat /\ answer[c] = NoAnswer /\ cell \in seen[c]
         /\ pc[c] \in {"size", "getInto", "get"} => request[c].op = pc[c] /\ live[c] = 0
         /\ pc[c] \in {"sizeQuery", "sizedRead"} => request[c].op = "get"
<1>1. TypeOK /\ CallInv(c)
  BY DEF IInv, ClientInv
<1>2. Accepted(c)
  BY <1>1 DEF CallInv, Ops
<1> QED BY <1>1, <1>2, AcceptedRequest DEF CallInv, Accepted, Started, Ops

LEMMA ErrnoType ==
  ASSUME TypeOK, NEW room \in Nat, NEW k \in GetXattr(room)
  PROVE  k.errno \in Errnos \cup {"SUCCESS"}
BY GetXattrOutcome, EnvironmentType DEF Errnos

LEMMA SizeStep ==
  ASSUME IInv, NEW c \in Clients, Size(c)
  PROVE  TypeOK' /\ ClientInv(c)'
<1> DEFINE r == request[c]
           A(k) == IF k.errno = "SUCCESS" THEN Sized(k.got) ELSE Fail(MapErrno(k.errno, "generic"))
<1>1. /\ TypeOK /\ Accepted(c) /\ r \in Requests /\ r.args = "ok" /\ cell \in seen[c] /\ r.op = "size"
      /\ Quiet /\ UNCHANGED <<attempt, expected>>
  BY ReadStart DEF Size
<1>2. PICK k \in GetXattr(0) : Record(c, k.errno) /\ Finish(c, A(k), 0)
  BY DEF Size
<1>3. osError' \in [Clients -> Errnos \cup {"SUCCESS"}]
  BY <1>1, <1>2, ErrnoType, RecordType
<1>4. A(k) \in Answer /\ A(k) # NoAnswer /\ A(k) \in MayAnswer(r, seen[c], churn[c])
  <2>1. CASE k.errno = "SUCCESS"
    <3>1. cell \in Values /\ k.got = LenOf[cell]
      BY <1>1, <2>1, GetXattrOutcome, EnvironmentType DEF EnvironmentErrnos
    <3> QED BY <1>1, <2>1, <3>1, ReadType, ReadAllowed
  <2>2. CASE k.errno # "SUCCESS"
    <3>1. k.errno # "RANGE"
      BY <1>1, GetXattrOutcome DEF EnvironmentErrnos
    <3> QED BY <1>1, <2>2, <3>1, ReadFailure
  <2> QED BY <2>1, <2>2
<1> HIDE DEF A
<1> QED BY <1>1, <1>2, <1>3, <1>4, FinishQuietly DEF TypeOK, Quiet

LEMMA GetIntoStep ==
  ASSUME IInv, NEW c \in Clients, GetInto(c)
  PROVE  TypeOK' /\ ClientInv(c)'
<1> DEFINE r == request[c]
           room == r.limit
           ctx == IF room = 0 THEN "generic" ELSE "read"
           A(k) == IF k.errno # "SUCCESS" THEN Fail(MapErrno(k.errno, ctx))
                   ELSE IF room > 0 THEN [status |-> "OK", out |-> k.data, len |-> k.got]
                   ELSE IF k.got = 0 THEN Read(Empty)
                   ELSE Fail("BufferTooSmall")
<1>1. /\ TypeOK /\ Accepted(c) /\ r \in Requests /\ r.args = "ok" /\ cell \in seen[c]
      /\ r.op = "getInto" /\ room \in Nat /\ Quiet /\ UNCHANGED <<attempt, expected>>
  BY ReadStart DEF GetInto
<1>2. PICK k \in GetXattr(room) : Record(c, k.errno) /\ Finish(c, A(k), 0)
  BY DEF GetInto
<1>3. osError' \in [Clients -> Errnos \cup {"SUCCESS"}]
  BY <1>1, <1>2, ErrnoType, RecordType
<1>4. A(k) \in Answer /\ A(k) # NoAnswer /\ A(k) \in MayAnswer(r, seen[c], churn[c])
  <2>1. CASE k.errno = "SUCCESS"
    <3>1. cell \in Values /\ k.got = LenOf[cell] /\ (room > 0 => k.data = cell /\ LenOf[cell] <= room)
      BY <1>1, <2>1, GetXattrOutcome, EnvironmentType DEF EnvironmentErrnos
    <3>2. LenOf[cell] \in Nat
      BY <3>1, CellAssumption
    <3>3. CASE room > 0
      BY <1>1, <2>1, <3>1, <3>3, ReadType, ReadAllowed DEF Read
    <3>4. CASE room = 0 /\ k.got = 0
      <4>1. LenOf[cell] = 0 /\ LenOf[cell] <= room
        BY <3>1, <3>4
      <4>2. cell = Empty
        BY <3>1, <4>1, CellAssumption
      <4>3. A(k) = Read(cell)
        BY <2>1, <3>4, <4>2
      <4> HIDE DEF A
      <4> QED BY <1>1, <3>1, <4>1, <4>3, ReadType, ReadAllowed
    <3>5. CASE room = 0 /\ k.got # 0
      <4>1. LenOf[cell] > room
        BY <3>1, <3>2, <3>5
      <4>2. "BufferTooSmall" \in Statuses
        BY DEF Statuses
      <4> QED BY <1>1, <2>1, <3>1, <3>5, <4>1, <4>2, FailType, ReadAllowed
    <3> QED BY <1>1, <3>3, <3>4, <3>5
  <2>2. CASE k.errno = "RANGE"
    <3>1. cell \in Values /\ LenOf[cell] > room /\ room > 0
      BY <1>1, <2>2, GetXattrOutcome, EnvironmentType
    <3>2. A(k) = Fail("BufferTooSmall")
      BY <2>2, <3>1 DEF MapErrno
    <3>3. "BufferTooSmall" \in Statuses
      BY DEF Statuses
    <3> HIDE DEF A
    <3> QED BY <1>1, <3>1, <3>2, <3>3, FailType, ReadAllowed
  <2>3. CASE k.errno \notin {"SUCCESS", "RANGE"}
    BY <1>1, <2>3, ReadFailure
  <2> QED BY <2>1, <2>2, <2>3
<1> HIDE DEF A
<1> QED BY <1>1, <1>2, <1>3, <1>4, FinishQuietly DEF TypeOK, Quiet

\* A read into a buffer of `room` > 0 bytes, as getWith makes it twice.
LEMMA BufferRead ==
  ASSUME IInv, NEW c \in Clients, Accepted(c), request[c].op = "get",
         NEW room \in Nat \ {0}, NEW k \in GetXattr(room), k.errno = "SUCCESS"
  PROVE  LET a == [status |-> "OK", out |-> k.data, len |-> k.got]
         IN /\ k.got \in Nat /\ k.got <= room /\ a \in Answer /\ a # NoAnswer
            /\ k.got <= request[c].limit => a \in MayAnswer(request[c], seen[c], churn[c])
            /\ k.got > request[c].limit =>
                 Fail("TooLarge") \in MayAnswer(request[c], seen[c], churn[c])
<1>1. TypeOK /\ request[c] \in Requests /\ request[c].args = "ok" /\ cell \in seen[c]
  BY AcceptedRequest DEF IInv, Accepted, Started
<1>2. cell \in Values /\ k.got = LenOf[cell] /\ k.data = cell /\ LenOf[cell] <= room
  BY <1>1, GetXattrOutcome, EnvironmentType DEF EnvironmentErrnos
<1>3. LenOf[cell] \in Nat
  BY <1>2, CellAssumption
<1>4. [status |-> "OK", out |-> k.data, len |-> k.got] = Read(cell)
  BY <1>2 DEF Read
<1> QED BY <1>1, <1>2, <1>3, <1>4, ReadType, ReadAllowed

LEMMA FailTypes ==
  /\ Fail("TooLarge") \in Answer /\ Fail("TooLarge") # NoAnswer
  /\ Fail("OutOfMemory") \in Answer /\ Fail("OutOfMemory") # NoAnswer
  /\ Fail("Changed") \in Answer /\ Fail("Changed") # NoAnswer
  /\ Fail("TooLarge").status # "OK" /\ Fail("OutOfMemory").status # "OK" /\ Fail("Changed").status # "OK"
<1>1. {"TooLarge", "OutOfMemory", "Changed"} \subseteq Statuses
  BY DEF Statuses
<1>2. \A s \in {"TooLarge", "OutOfMemory", "Changed"} : Fail(s).status # "OK"
  BY DEF Fail
<1> QED BY <1>1, <1>2, FailType

LEMMA OptimisticReadStep ==
  ASSUME IInv, NEW c \in Clients, OptimisticRead(c)
  PROVE  TypeOK' /\ ClientInv(c)'
<1> DEFINE r == request[c]
           Got(k) == [status |-> "OK", out |-> k.data, len |-> k.got]
           Failed(k) == Fail(MapErrno(k.errno, "read"))
<1>1. /\ TypeOK /\ Accepted(c) /\ r \in Requests /\ r.args = "ok" /\ r.op = "get" /\ live[c] = 0
      /\ r.limit \in Nat /\ answer[c] = NoAnswer /\ cell \in seen[c]
      /\ Quiet /\ UNCHANGED <<attempt, expected>> /\ pc[c] = "get" /\ attempt[c] = 0
  BY ReadStart DEF OptimisticRead, IInv, ClientInv, CallInv, Ops
<1>2. PICK k \in GetXattr(SmallLen) :
        /\ Record(c, k.errno)
        /\ \/ k.errno = "SUCCESS" /\ k.got > r.limit /\ Finish(c, Fail("TooLarge"), 0)
           \/ k.errno = "SUCCESS" /\ k.got <= r.limit /\ Finish(c, Got(k), 1)
           \/ k.errno = "SUCCESS" /\ k.got <= r.limit /\ Finish(c, Fail("OutOfMemory"), 0)
           \/ /\ k.errno # "SUCCESS" /\ MapErrno(k.errno, "read") = "BufferTooSmall"
              /\ Goto(c, "sizeQuery") /\ UNCHANGED live
           \/ /\ k.errno # "SUCCESS" /\ MapErrno(k.errno, "read") # "BufferTooSmall"
              /\ Finish(c, Failed(k), 0)
  BY DEF OptimisticRead
<1>3. SmallLen \in Nat \ {0}
  BY KernelAssumption
<1>4. osError' \in [Clients -> Errnos \cup {"SUCCESS"}]
  BY <1>1, <1>2, <1>3, ErrnoType, RecordType
<1>5. CASE k.errno = "SUCCESS" /\ k.got > r.limit /\ Finish(c, Fail("TooLarge"), 0)
  BY <1>1, <1>3, <1>4, <1>5, BufferRead, FailTypes, FinishQuietly DEF TypeOK, Quiet
<1>6. CASE k.errno = "SUCCESS" /\ k.got <= r.limit /\ Finish(c, Got(k), 1)
  <2>1. Got(k) \in Answer /\ Got(k) # NoAnswer /\ Got(k) \in MayAnswer(r, seen[c], churn[c])
        /\ Got(k).status = "OK"
    BY <1>1, <1>3, <1>6, BufferRead
  <2> HIDE DEF Got
  <2> QED BY <1>1, <1>4, <1>6, <2>1, FinishQuietly DEF TypeOK, Quiet
<1>7. CASE Finish(c, Fail("OutOfMemory"), 0)
  BY <1>1, <1>4, <1>7, MemoryAllowed, FailTypes, FinishQuietly DEF TypeOK, Quiet
<1>8. CASE /\ k.errno # "SUCCESS" /\ MapErrno(k.errno, "read") = "BufferTooSmall"
           /\ Goto(c, "sizeQuery") /\ UNCHANGED live
  <2>1. /\ pc' = [pc EXCEPT ![c] = "sizeQuery"] /\ pc'[c] = "sizeQuery" /\ UNCHANGED answer
        /\ "sizeQuery" \in Labels
    BY <1>1, <1>8 DEF Goto, TypeOK, Labels
  <2>2. TypeOK'
    BY <1>1, <1>4, <1>8, <2>1 DEF TypeOK, Quiet
  <2>3. churn[c] \in Nat /\ MaxAttempts > 0 /\ MaxAttempts \in Nat
    BY <1>1, CallAssumption DEF TypeOK
  <2> QED
    BY <1>1, <1>8, <2>1, <2>2, <2>3
       DEF ClientInv, Explained, Tidy, CallInv, Accepted, Started, Quiet, Ops
<1>9. CASE /\ k.errno # "SUCCESS" /\ MapErrno(k.errno, "read") # "BufferTooSmall"
           /\ Finish(c, Failed(k), 0)
  <2>1. k.errno # "RANGE"
    BY <1>9 DEF MapErrno
  <2>2. /\ Failed(k) \in Answer /\ Failed(k) # NoAnswer /\ Failed(k).status # "OK"
        /\ Failed(k) \in MayAnswer(r, seen[c], churn[c])
    BY <1>1, <1>3, <1>9, <2>1, ReadFailure
  <2> HIDE DEF Failed
  <2> QED BY <1>1, <1>4, <1>9, <2>2, FinishQuietly DEF TypeOK, Quiet
<1> QED BY <1>2, <1>5, <1>6, <1>7, <1>8, <1>9

LEMMA SizeQueryStep ==
  ASSUME IInv, NEW c \in Clients, SizeQuery(c)
  PROVE  TypeOK' /\ ClientInv(c)'
<1> DEFINE r == request[c]
           Failed(k) == Fail(MapErrno(k.errno, "generic"))
<1>1. /\ TypeOK /\ Accepted(c) /\ r \in Requests /\ r.args = "ok" /\ r.op = "get" /\ live[c] = 0
      /\ r.limit \in Nat /\ answer[c] = NoAnswer /\ cell \in seen[c]
      /\ attempt[c] < MaxAttempts /\ churn[c] >= attempt[c]
      /\ Quiet /\ UNCHANGED attempt /\ pc[c] = "sizeQuery"
  BY ReadStart DEF SizeQuery, IInv, ClientInv, CallInv, Ops
<1>2. PICK k \in GetXattr(0) :
        /\ Record(c, k.errno)
        /\ \/ k.errno # "SUCCESS" /\ Finish(c, Failed(k), 0) /\ UNCHANGED expected
           \/ /\ k.errno = "SUCCESS" /\ ~Affords(c, k.got)
              /\ Finish(c, Fail("TooLarge"), 0) /\ UNCHANGED expected
           \/ /\ k.errno = "SUCCESS" /\ Affords(c, k.got) /\ IsEmpty(k.got)
              /\ Finish(c, Read(Empty), 1) /\ UNCHANGED expected
           \/ /\ k.errno = "SUCCESS" /\ Affords(c, k.got) /\ ~IsEmpty(k.got)
              /\ expected' = [expected EXCEPT ![c] = k.got]
              /\ live' = [live EXCEPT ![c] = @ + 1] /\ Goto(c, "sizedRead")
           \/ /\ k.errno = "SUCCESS" /\ Affords(c, k.got)
              /\ Finish(c, Fail("OutOfMemory"), 0) /\ UNCHANGED expected
  BY DEF SizeQuery
<1>3. osError' \in [Clients -> Errnos \cup {"SUCCESS"}]
  BY <1>1, <1>2, ErrnoType, RecordType
<1>4. k.errno = "SUCCESS" => cell \in Values /\ k.got = LenOf[cell] /\ k.got \in Nat
  BY <1>1, GetXattrOutcome, EnvironmentType, CellAssumption DEF EnvironmentErrnos
<1>5. CASE k.errno # "SUCCESS" /\ Finish(c, Failed(k), 0) /\ UNCHANGED expected
  <2>1. k.errno # "RANGE"
    BY <1>1, GetXattrOutcome, EnvironmentType
  <2>2. /\ Failed(k) \in Answer /\ Failed(k) # NoAnswer /\ Failed(k).status # "OK"
        /\ Failed(k) \in MayAnswer(r, seen[c], churn[c])
    BY <1>1, <1>5, <2>1, ReadFailure
  <2> HIDE DEF Failed
  <2> QED BY <1>1, <1>3, <1>5, <2>2, FinishQuietly DEF TypeOK, Quiet
<1>6. CASE /\ k.errno = "SUCCESS" /\ ~Affords(c, k.got)
           /\ Finish(c, Fail("TooLarge"), 0) /\ UNCHANGED expected
  <2>1. LenOf[cell] > r.limit
    BY <1>1, <1>4, <1>6 DEF Affords
  <2>2. Fail("TooLarge") \in MayAnswer(r, seen[c], churn[c])
    BY <1>1, <1>4, <1>6, <2>1, ReadAllowed
  <2> QED BY <1>1, <1>3, <1>6, <2>2, FailTypes, FinishQuietly DEF TypeOK, Quiet
<1>7. CASE /\ k.errno = "SUCCESS" /\ Affords(c, k.got) /\ IsEmpty(k.got)
           /\ Finish(c, Read(Empty), 1) /\ UNCHANGED expected
  <2>1. LenOf[cell] = 0 /\ LenOf[cell] <= r.limit
    BY <1>4, <1>7 DEF Affords, IsEmpty
  <2>2. cell = Empty
    BY <1>4, <1>7, <2>1, CellAssumption
  <2>3. /\ Read(Empty) \in Answer /\ Read(Empty) # NoAnswer
        /\ Read(Empty) \in MayAnswer(r, seen[c], churn[c])
    BY <1>1, <2>1, <2>2, ReadType, ReadAllowed, CellAssumption
  <2>4. Read(Empty).status = "OK"
    BY DEF Read
  <2> QED BY <1>1, <1>3, <1>7, <2>3, <2>4, FinishQuietly DEF TypeOK, Quiet
<1>8. CASE /\ k.errno = "SUCCESS" /\ Affords(c, k.got) /\ ~IsEmpty(k.got)
           /\ expected' = [expected EXCEPT ![c] = k.got]
           /\ live' = [live EXCEPT ![c] = @ + 1] /\ Goto(c, "sizedRead")
  <2>1. /\ pc' = [pc EXCEPT ![c] = "sizedRead"] /\ pc'[c] = "sizedRead" /\ UNCHANGED answer
        /\ expected'[c] = LenOf[cell] /\ live'[c] = 1 /\ "sizedRead" \in Labels
        /\ 0 < expected'[c] /\ expected'[c] <= r.limit
    BY <1>1, <1>4, <1>8 DEF Goto, TypeOK, Affords, IsEmpty, Labels
  <2>2. expected' \in [Clients -> Nat] /\ live' \in [Clients -> 0..1]
    BY <1>1, <1>4, <1>8 DEF TypeOK
  <2>3. TypeOK'
    BY <1>1, <1>3, <2>1, <2>2 DEF TypeOK, Quiet
  <2> QED
    BY <1>1, <1>4, <1>8, <2>1, <2>3
       DEF ClientInv, Explained, Tidy, CallInv, Accepted, Started, Quiet, Ops
<1>9. CASE Finish(c, Fail("OutOfMemory"), 0) /\ UNCHANGED expected
  BY <1>1, <1>3, <1>9, MemoryAllowed, FailTypes, FinishQuietly DEF TypeOK, Quiet
<1> QED BY <1>2, <1>5, <1>6, <1>7, <1>8, <1>9

\* A buffer was outgrown: since the size query of this attempt somebody wrote.
LEMMA RetryStep ==
  ASSUME IInv, NEW c \in Clients, pc[c] = "sizedRead", Retry(c), Quiet, UNCHANGED expected,
         osError' \in [Clients -> Errnos \cup {"SUCCESS"}], cell \in Values, LenOf[cell] > expected[c]
  PROVE  TypeOK' /\ ClientInv(c)'
<1> DEFINE r == request[c]
<1>1. /\ TypeOK /\ Accepted(c) /\ r \in Requests /\ r.args = "ok" /\ r.op = "get" /\ live[c] = 1
      /\ answer[c] = NoAnswer /\ attempt[c] < MaxAttempts
      /\ churn[c] > attempt[c] \/ (cell \in Values /\ LenOf[cell] = expected[c])
  BY ReadStart DEF IInv, ClientInv, CallInv, Ops
<1>2. /\ attempt[c] \in Nat /\ churn[c] \in 0..MaxAttempts /\ MaxAttempts \in Nat
      /\ expected[c] \in Nat /\ LenOf[cell] \in Nat
  BY <1>1, CallAssumption, CellAssumption DEF TypeOK
<1>3. churn[c] >= attempt[c] + 1
  BY <1>1, <1>2
<1>4. attempt' = [attempt EXCEPT ![c] = attempt[c] + 1] /\ attempt' \in [Clients -> 0..MaxAttempts]
      /\ attempt'[c] = attempt[c] + 1
  BY <1>1, <1>2 DEF Retry, NextAttempt, TypeOK
<1>5. CASE attempt[c] + 1 < MaxAttempts
  <2>1. /\ pc' = [pc EXCEPT ![c] = "sizeQuery"] /\ UNCHANGED answer
        /\ live' = [live EXCEPT ![c] = live[c] - 1]
    BY <1>5 DEF Retry, NextAttempt, AttemptLimit, Goto, FreeBuffer
  <2>2. /\ pc'[c] = "sizeQuery" /\ live'[c] = 0 /\ pc' \in [Clients -> Labels]
        /\ live' \in [Clients -> 0..1]
    BY <1>1, <2>1 DEF TypeOK, Labels
  <2>3. TypeOK'
    BY <1>1, <1>4, <2>1, <2>2 DEF TypeOK, Quiet
  <2> QED
    BY <1>1, <1>3, <1>4, <1>5, <2>1, <2>2, <2>3
       DEF ClientInv, Explained, Tidy, CallInv, Accepted, Started, Quiet, Ops
<1>6. CASE ~(attempt[c] + 1 < MaxAttempts)
  <2>1. Finish(c, Fail("Changed"), 0)
    BY <1>1, <1>6 DEF Retry, NextAttempt, AttemptLimit, FreeBuffer
  <2>2. churn[c] = MaxAttempts
    BY <1>2, <1>3, <1>6
  <2>3. Fail("Changed") \in MayAnswer(r, seen[c], churn[c])
    BY <1>1, <2>2, ChangedAllowed
  <2> QED BY <1>1, <1>4, <2>1, <2>3, FailTypes, FinishQuietly DEF TypeOK, Quiet
<1> QED BY <1>5, <1>6

LEMMA SizedReadStep ==
  ASSUME IInv, NEW c \in Clients, SizedRead(c)
  PROVE  TypeOK' /\ ClientInv(c)'
<1> DEFINE r == request[c]
           Got(k) == [status |-> "OK", out |-> k.data, len |-> k.got]
           Failed(k) == Fail(MapErrno(k.errno, "read"))
<1>1. /\ TypeOK /\ Accepted(c) /\ r \in Requests /\ r.args = "ok" /\ r.op = "get" /\ live[c] = 1
      /\ r.limit \in Nat /\ answer[c] = NoAnswer /\ cell \in seen[c]
      /\ 0 < expected[c] /\ expected[c] <= r.limit
      /\ Quiet /\ UNCHANGED expected /\ pc[c] = "sizedRead"
  BY ReadStart DEF SizedRead, IInv, ClientInv, CallInv, Ops
<1>2. PICK k \in GetXattr(expected[c]) :
        /\ Record(c, k.errno)
        /\ \/ k.errno # "SUCCESS" /\ MapErrno(k.errno, "read") = "BufferTooSmall" /\ Retry(c)
           \/ /\ k.errno # "SUCCESS" /\ MapErrno(k.errno, "read") # "BufferTooSmall"
              /\ Finish(c, Failed(k), FreeBuffer(c)) /\ UNCHANGED attempt
           \/ k.errno = "SUCCESS" /\ Finish(c, Got(k), live[c]) /\ UNCHANGED attempt
           \/ /\ k.errno = "SUCCESS" /\ k.got # expected[c]
              /\ Finish(c, Fail("OutOfMemory"), FreeBuffer(c)) /\ UNCHANGED attempt
  BY DEF SizedRead
<1>3. expected[c] \in Nat \ {0} /\ FreeBuffer(c) = 0
  BY <1>1 DEF TypeOK, FreeBuffer
<1>4. osError' \in [Clients -> Errnos \cup {"SUCCESS"}]
  BY <1>1, <1>2, <1>3, ErrnoType, RecordType
<1>5. CASE k.errno # "SUCCESS" /\ MapErrno(k.errno, "read") = "BufferTooSmall" /\ Retry(c)
  <2>1. k.errno = "RANGE"
    BY <1>1, <1>3, <1>5, GetXattrOutcome, EnvironmentRefuses DEF MapErrno, Refusals
  <2>2. cell \in Values /\ LenOf[cell] > expected[c]
    BY <1>1, <1>3, <2>1, GetXattrOutcome, EnvironmentType
  <2> QED BY <1>1, <1>4, <1>5, <2>2, RetryStep
<1>6. CASE /\ k.errno # "SUCCESS" /\ MapErrno(k.errno, "read") # "BufferTooSmall"
           /\ Finish(c, Failed(k), FreeBuffer(c)) /\ UNCHANGED attempt
  <2>1. k.errno # "RANGE"
    BY <1>6 DEF MapErrno
  <2>2. /\ Failed(k) \in Answer /\ Failed(k) # NoAnswer /\ Failed(k).status # "OK"
        /\ Failed(k) \in MayAnswer(r, seen[c], churn[c])
    BY <1>1, <1>3, <1>6, <2>1, ReadFailure
  <2> HIDE DEF Failed
  <2> QED BY <1>1, <1>3, <1>4, <1>6, <2>2, FinishQuietly DEF TypeOK, Quiet
<1>7. CASE k.errno = "SUCCESS" /\ Finish(c, Got(k), live[c]) /\ UNCHANGED attempt
  <2>1. k.got \in Nat /\ k.got <= expected[c]
    BY <1>1, <1>3, <1>7, BufferRead
  <2>2. k.got <= r.limit
    BY <1>1, <1>3, <2>1
  <2>3. Got(k) \in Answer /\ Got(k) # NoAnswer /\ Got(k) \in MayAnswer(r, seen[c], churn[c])
        /\ Got(k).status = "OK"
    BY <1>1, <1>3, <1>7, <2>2, BufferRead
  <2> HIDE DEF Got
  <2> QED BY <1>1, <1>4, <1>7, <2>3, FinishQuietly DEF TypeOK, Quiet
<1>8. CASE Finish(c, Fail("OutOfMemory"), FreeBuffer(c)) /\ UNCHANGED attempt
  BY <1>1, <1>3, <1>4, <1>8, MemoryAllowed, FailTypes, FinishQuietly DEF TypeOK, Quiet
<1> QED BY <1>2, <1>5, <1>6, <1>7, <1>8

LEMMA EndStep ==
  ASSUME IInv, NEW c \in Clients, End(c)
  PROVE  TypeOK' /\ ClientInv(c)'
<1>1. TypeOK'
  BY CallAssumption DEF IInv, TypeOK, End, Store!End, Labels
<1>2. /\ pc'[c] = "idle" /\ request'[c] = NoRequest /\ answer'[c] = NoAnswer
      /\ attempt'[c] = 0 /\ churn'[c] = 0 /\ live'[c] = 0
  BY DEF IInv, TypeOK, End, Store!End
<1> QED BY <1>1, <1>2 DEF ClientInv, Explained, Tidy, CallInv, Ops

LEMMA OutsideStep ==
  ASSUME IInv, NEW x \in Outsiders, Outside(x)
  PROVE  TypeOK' /\ \A d \in Clients : ClientInv(d)'
<1>1. x \in Contents /\ Store!Replace(x) /\ UNCHANGED <<request, answer>> /\ UNCHANGED callVars
  BY KernelAssumption DEF Outside, Store!Outside
<1>2. TypeOK'
  BY <1>1, CallAssumption DEF IInv, TypeOK, Store!Replace, callVars
<1>3. ASSUME NEW d \in Clients PROVE ClientInv(d)'
  <2>1. Spares(d) /\ Watches(d)
    BY <1>1 DEF Spares, Watches, callVars
  <2> QED BY <2>1, Frame
<1> QED BY <1>2, <1>3

-----------------------------------------------------------------------------
(* The invariant                                                           *)

\* A step of the call of client c leaves the other clients alone.
LEMMA OthersSpared ==
  ASSUME IInv, NEW c \in Clients, NEW d \in Clients \ {c},
         Step(c) \/ End(c) \/ \E r \in Requests : Begin(c, r)
  PROVE  Spares(d) /\ Watches(d)
<1> USE DEF Spares, Watches
<1>0. TypeOK
  BY DEF IInv
<1>1. CASE \E r \in Requests : Begin(c, r)
  BY <1>0, <1>1 DEF Begin, Store!Begin, TypeOK
<1>2. CASE Check(c)
  BY <1>0, <1>2 DEF Check, Finish, Goto, Quiet, TypeOK
<1>3. CASE Set(c)
  <2>1. PICK k \in SetXattr(request[c].value) :
          IF k.errno = "SUCCESS"
          THEN Store!Replace(k.after) /\ Finish(c, Done, 0)
          ELSE UNCHANGED <<cell, seen, churn>> /\ Finish(c, Fail(MapErrno(k.errno, "generic")), 0)
    BY <1>3 DEF Set
  <2>2. k.errno = "SUCCESS" => k.after \in Contents
    <3>1. request[c].value \in Values
      BY <1>3, AcceptedRequest DEF Set, IInv, ClientInv, CallInv, Accepted, Started, Ops
    <3> QED BY <1>0, <3>1 DEF SetXattr, TypeOK, Contents
  <2>3. request' = request /\ attempt' = attempt /\ expected' = expected
    BY <1>3 DEF Set
  <2> QED BY <1>0, <2>1, <2>2, <2>3 DEF Finish, TypeOK
<1>4. CASE Remove(c)
  <2>1. PICK k \in RemoveXattr :
          IF k.errno = "SUCCESS"
          THEN Store!Replace(k.after) /\ Finish(c, Done, 0)
          ELSE UNCHANGED <<cell, seen, churn>> /\ Finish(c, Fail(MapErrno(k.errno, "generic")), 0)
    BY <1>4 DEF Remove
  <2>2. k.after \in Contents
    BY <1>0 DEF RemoveXattr, TypeOK, Contents
  <2>3. request' = request /\ attempt' = attempt /\ expected' = expected
    BY <1>4 DEF Remove
  <2> QED BY <1>0, <2>1, <2>2, <2>3 DEF Finish, TypeOK
<1>5. CASE Size(c)
  BY <1>0, <1>5 DEF Size, Finish, Quiet, TypeOK
<1>6. CASE GetInto(c)
  BY <1>0, <1>6 DEF GetInto, Finish, Quiet, TypeOK
<1>7. CASE OptimisticRead(c)
  BY <1>0, <1>7 DEF OptimisticRead, Finish, Goto, Quiet, TypeOK
<1>8. CASE SizeQuery(c)
  BY <1>0, <1>8 DEF SizeQuery, Finish, Goto, Quiet, TypeOK
<1>9. CASE SizedRead(c)
  BY <1>0, <1>9 DEF SizedRead, Retry, Finish, Goto, Quiet, TypeOK
<1>10. CASE End(c)
  BY <1>0, <1>10 DEF End, Store!End, TypeOK
<1> QED BY <1>1, <1>2, <1>3, <1>4, <1>5, <1>6, <1>7, <1>8, <1>9, <1>10 DEF Step

LEMMA ClientStep ==
  ASSUME IInv, NEW c \in Clients, Step(c) \/ End(c) \/ \E r \in Requests : Begin(c, r)
  PROVE  TypeOK' /\ ClientInv(c)'
BY BeginStep, CheckStep, SetStep, RemoveStep, SizeStep, GetIntoStep, OptimisticReadStep,
   SizeQueryStep, SizedReadStep, EndStep DEF Step

LEMMA IInvInit == Init => IInv
<1> SUFFICES ASSUME Init PROVE IInv
  OBVIOUS
<1>1. TypeOK
  BY CallAssumption DEF Init, Store!Init, TypeOK, Labels, Contents, Store!Contents
<1>2. ASSUME NEW c \in Clients PROVE ClientInv(c)
  BY DEF Init, Store!Init, ClientInv, Explained, Tidy, CallInv, Ops
<1> QED BY <1>1, <1>2 DEF IInv

LEMMA IInvStep == IInv /\ [Next]_vars => IInv'
<1> SUFFICES ASSUME IInv, [Next]_vars PROVE IInv'
  OBVIOUS
<1>1. ASSUME NEW c \in Clients, Step(c) \/ End(c) \/ \E r \in Requests : Begin(c, r)
      PROVE  IInv'
  <2>1. TypeOK' /\ ClientInv(c)'
    BY <1>1, ClientStep
  <2>2. ASSUME NEW d \in Clients \ {c} PROVE ClientInv(d)'
    BY <1>1, <2>2, OthersSpared, Frame
  <2> QED BY <2>1, <2>2 DEF IInv
<1>2. ASSUME NEW x \in Outsiders, Outside(x) PROVE IInv'
  BY <1>2, OutsideStep DEF IInv
<1>3. CASE UNCHANGED vars
  BY <1>3 DEF vars, IInv, TypeOK, ClientInv, Explained, Tidy, CallInv, Accepted, Started
<1> QED BY <1>1, <1>2, <1>3 DEF Next

\* The inductive invariant holds throughout.
THEOREM Invariance == Spec => []IInv
BY IInvInit, IInvStep, PTL DEF Spec

\* Every variable keeps its type: in particular a call never holds more than
\* one allocation and never counts past max_get_attempts.
THEOREM TypeCorrect == Spec => []TypeOK
<1>1. IInv => TypeOK
  BY DEF IInv
<1> QED BY <1>1, Invariance, PTL

\* Every answer is one the contract allows (set, get, getInto, size, remove).
THEOREM AnswersCorrect == Spec => []AnswersHold
<1>1. ASSUME IInv PROVE AnswersHold
  <2> SUFFICES ASSUME NEW c \in Clients PROVE Explained(c)
    BY Zenon DEF AnswersHold
  <2> QED BY <1>1, Zenon DEF IInv, ClientInv
<1> QED BY <1>1, Invariance, PTL

\* getWith frees what it does not return.
THEOREM NothingLeaks == Spec => []NoLeak
<1>1. ASSUME IInv PROVE NoLeak
  <2> SUFFICES ASSUME NEW c \in Clients PROVE Tidy(c)
    BY Zenon DEF NoLeak
  <2> QED BY <1>1, Zenon DEF IInv, ClientInv
<1> QED BY <1>1, Invariance, PTL

\* getWith's buffer is never empty and never larger than max_value_len.
THEOREM BuffersFit == Spec => []BufferFits
<1>1. IInv => BufferFits
  BY DEF IInv, ClientInv, CallInv, BufferFits
<1> QED BY <1>1, Invariance, PTL

-----------------------------------------------------------------------------
(* The OS error a thread is given                                          *)

OsStatuses == {"Missing", "NotFound", "Permission", "ReadOnly", "Unsupported", "Io"}

OsExplained(c) ==
  pc[c] = "done" /\ answer[c].status \in OsStatuses =>
    osError[c] # "SUCCESS" /\ MapErrno(osError[c], "generic") = answer[c].status

OsInv == \A c \in Clients : OsExplained(c)

\* The errno recorded last explains a status whichever context mapped it: the
\* contexts of map_errno differ on RANGE only, and both its statuses have
\* causes other than the OS.
LEMMA ContextIrrelevant ==
  ASSUME NEW e, NEW ctx, MapErrno(e, ctx) \in OsStatuses
  PROVE  MapErrno(e, "generic") = MapErrno(e, ctx)
BY DEF MapErrno, OsStatuses

LEMMA Recorded ==
  ASSUME TypeOK, NEW c \in Clients, NEW e, NEW ctx, NEW n, e # "SUCCESS", Record(c, e),
         Finish(c, Fail(MapErrno(e, ctx)), n)
  PROVE  OsExplained(c)'
<1>1. osError'[c] = e /\ answer'[c] = Fail(MapErrno(e, ctx))
  BY DEF TypeOK, Record, Finish
<1>2. answer'[c].status = MapErrno(e, ctx)
  BY <1>1 DEF Fail
<1> QED BY <1>1, <1>2, ContextIrrelevant DEF OsExplained

\* Statuses the library decides by itself need no errno.
LEMMA Unblamed ==
  ASSUME TypeOK, NEW c \in Clients, NEW a, NEW n, Finish(c, a, n), a.status \notin OsStatuses
  PROVE  OsExplained(c)'
<1>1. answer'[c] = a
  BY DEF TypeOK, Finish
<1> QED BY <1>1 DEF OsExplained

LEMMA OwnStatuses ==
  /\ Done.status \notin OsStatuses
  /\ \A s \in {"TooLarge", "OutOfMemory", "Changed", "BufferTooSmall", "InvalidName", "InvalidPath"} :
       Fail(s).status \notin OsStatuses
  /\ \A v : Read(v).status \notin OsStatuses
  /\ \A n : Sized(n).status \notin OsStatuses
BY DEF Done, Fail, Read, Sized, OsStatuses

\* A step of a call that does not answer it.
LEMMA Continues ==
  ASSUME TypeOK, NEW c \in Clients, NEW label, Goto(c, label), label # "done"
  PROVE  OsExplained(c)'
BY DEF TypeOK, Goto, OsExplained

LEMMA OsStep ==
  ASSUME IInv, NEW c \in Clients, Step(c) \/ End(c) \/ \E r \in Requests : Begin(c, r)
  PROVE  OsExplained(c)'
<1> USE OwnStatuses
<1>0. TypeOK
  BY DEF IInv
<1>1. CASE \E r \in Requests : Begin(c, r)
  BY <1>0, <1>1 DEF TypeOK, Begin, OsExplained
<1>2. CASE End(c)
  BY <1>0, <1>2 DEF TypeOK, End, OsExplained
<1>3. CASE Check(c)
  <2>1. CASE Finish(c, Fail(Rejection(request[c])), 0) /\ Rejection(request[c]) # "none"
    <3>1. Rejection(request[c]) \in {"InvalidName", "InvalidPath", "TooLarge"}
      BY <2>1 DEF Rejection
    <3>2. Fail(Rejection(request[c])).status \notin OsStatuses
      BY <3>1
    <3> QED BY <1>0, <2>1, <3>2, Unblamed
  <2>2. CASE Goto(c, request[c].op) /\ Rejection(request[c]) = "none" /\ UNCHANGED live
    <3>1. request[c] \in Requests
      BY <1>3 DEF Check, IInv, ClientInv, CallInv, Started
    <3>2. request[c].op # "done"
      BY <3>1, <2>2, AcceptedRequest DEF Ops
    <3> QED BY <1>0, <2>2, <3>2, Continues
  <2> QED BY <1>3, <2>1, <2>2 DEF Check
<1>4. CASE Set(c)
  <2>1. PICK k \in SetXattr(request[c].value) :
          /\ Record(c, k.errno)
          /\ \/ Finish(c, Done, 0)
             \/ k.errno # "SUCCESS" /\ Finish(c, Fail(MapErrno(k.errno, "generic")), 0)
    BY <1>4 DEF Set
  <2> QED BY <1>0, <2>1, Recorded, Unblamed
<1>5. CASE Remove(c)
  <2>1. PICK k \in RemoveXattr :
          /\ Record(c, k.errno)
          /\ \/ Finish(c, Done, 0)
             \/ k.errno # "SUCCESS" /\ Finish(c, Fail(MapErrno(k.errno, "generic")), 0)
    BY <1>5 DEF Remove
  <2> QED BY <1>0, <2>1, Recorded, Unblamed
<1>6. CASE Size(c)
  <2>1. PICK k \in GetXattr(0) :
          /\ Record(c, k.errno)
          /\ \/ Finish(c, Sized(k.got), 0)
             \/ k.errno # "SUCCESS" /\ Finish(c, Fail(MapErrno(k.errno, "generic")), 0)
    BY <1>6 DEF Size
  <2> QED BY <1>0, <2>1, Recorded, Unblamed
<1>7. CASE GetInto(c)
  <2> DEFINE room == request[c].limit
             ctx == IF room = 0 THEN "generic" ELSE "read"
  <2>1. PICK k \in GetXattr(room) :
          /\ Record(c, k.errno)
          /\ \/ k.errno # "SUCCESS" /\ Finish(c, Fail(MapErrno(k.errno, ctx)), 0)
             \/ Finish(c, [status |-> "OK", out |-> k.data, len |-> k.got], 0)
             \/ Finish(c, Read(Empty), 0)
             \/ Finish(c, Fail("BufferTooSmall"), 0)
    BY <1>7 DEF GetInto
  <2>2. [status |-> "OK", out |-> k.data, len |-> k.got].status \notin OsStatuses
    BY DEF OsStatuses
  <2> QED BY <1>0, <2>1, <2>2, Recorded, Unblamed
<1>8. CASE OptimisticRead(c)
  <2>1. PICK k \in GetXattr(SmallLen) :
          /\ Record(c, k.errno)
          /\ \/ k.errno # "SUCCESS" /\ Finish(c, Fail(MapErrno(k.errno, "read")), 0)
             \/ Finish(c, Fail("TooLarge"), 0)
             \/ Finish(c, [status |-> "OK", out |-> k.data, len |-> k.got], 1)
             \/ Finish(c, Fail("OutOfMemory"), 0)
             \/ Goto(c, "sizeQuery")
    BY <1>8 DEF OptimisticRead
  <2>2. [status |-> "OK", out |-> k.data, len |-> k.got].status \notin OsStatuses
    BY DEF OsStatuses
  <2> QED BY <1>0, <2>1, <2>2, Recorded, Unblamed, Continues
<1>9. CASE SizeQuery(c)
  <2>1. PICK k \in GetXattr(0) :
          /\ Record(c, k.errno)
          /\ \/ k.errno # "SUCCESS" /\ Finish(c, Fail(MapErrno(k.errno, "generic")), 0)
             \/ Finish(c, Fail("TooLarge"), 0)
             \/ Finish(c, Read(Empty), 1)
             \/ Goto(c, "sizedRead")
             \/ Finish(c, Fail("OutOfMemory"), 0)
    BY <1>9 DEF SizeQuery
  <2> QED BY <1>0, <2>1, Recorded, Unblamed, Continues
<1>10. CASE SizedRead(c)
  <2>1. PICK k \in GetXattr(expected[c]) :
          /\ Record(c, k.errno)
          /\ \/ Retry(c)
             \/ k.errno # "SUCCESS" /\ Finish(c, Fail(MapErrno(k.errno, "read")), FreeBuffer(c))
             \/ Finish(c, [status |-> "OK", out |-> k.data, len |-> k.got], live[c])
             \/ Finish(c, Fail("OutOfMemory"), FreeBuffer(c))
    BY <1>10 DEF SizedRead
  <2>2. [status |-> "OK", out |-> k.data, len |-> k.got].status \notin OsStatuses
    BY DEF OsStatuses
  <2>3. Retry(c) => Goto(c, "sizeQuery") \/ Finish(c, Fail("Changed"), FreeBuffer(c))
    BY DEF Retry
  <2> QED BY <1>0, <2>1, <2>2, <2>3, Recorded, Unblamed, Continues
<1> QED BY <1>1, <1>2, <1>3, <1>4, <1>5, <1>6, <1>7, <1>8, <1>9, <1>10 DEF Step

\* A call leaves the OS error of the other threads alone: it is thread-local.
LEMMA OsErrorSpared ==
  ASSUME IInv, NEW c \in Clients, NEW d \in Clients \ {c},
         Step(c) \/ End(c) \/ \E r \in Requests : Begin(c, r)
  PROVE  osError'[d] = osError[d]
<1> TypeOK
  BY DEF IInv
<1> QED BY DEF Step, Check, Set, Remove, Size, GetInto, OptimisticRead, SizeQuery, SizedRead,
               End, Begin, Record, TypeOK

\* Whatever a call answers for a reason of the OS, last_os_error still holds
\* that reason when the call returns, through every retry of getWith.
THEOREM OsErrorsExplain == Spec => []OsErrorExplainsStatus
<1>1. Init => OsInv
  BY DEF Init, OsInv, OsExplained
<1>2. IInv /\ OsInv /\ [Next]_vars => OsInv'
  <2> SUFFICES ASSUME IInv, OsInv, [Next]_vars PROVE OsInv'
    OBVIOUS
  <2>1. ASSUME NEW c \in Clients, Step(c) \/ End(c) \/ \E r \in Requests : Begin(c, r)
        PROVE  OsInv'
    <3>1. OsExplained(c)'
      BY <2>1, OsStep
    <3>2. ASSUME NEW d \in Clients \ {c} PROVE OsExplained(d)'
      BY <2>1, <3>2, OthersSpared, OsErrorSpared DEF Spares, OsInv, OsExplained
    <3> QED BY <3>1, <3>2 DEF OsInv
  <2>2. ASSUME NEW x \in Outsiders, Outside(x) PROVE OsInv'
    BY <2>2 DEF Outside, Store!Outside, callVars, OsInv, OsExplained
  <2>3. CASE UNCHANGED vars
    BY <2>3 DEF vars, OsInv, OsExplained
  <2> QED BY <2>1, <2>2, <2>3 DEF Next
<1>3. OsInv => OsErrorExplainsStatus
  BY DEF OsInv, OsExplained, OsStatuses, OsErrorExplainsStatus
<1> QED BY <1>1, <1>2, <1>3, Invariance, PTL DEF Spec

-----------------------------------------------------------------------------
(* Refinement                                                              *)

\* A step that leaves the cell alone answers like a read of the store, or is
\* invisible there.
LEMMA QuietRefines ==
  ASSUME IInv, NEW c \in Clients, NEW a, answer' = [answer EXCEPT ![c] = a], Quiet, ClientInv(c)',
         request[c] \in Requests, answer[c] = NoAnswer,
         request[c].op \in {"set", "remove"} => a # Done
  PROVE  Store!AnswerRead(c) \/ UNCHANGED Store!vars
<1>1. UNCHANGED <<cell, request, seen, churn>> /\ answer'[c] = a
  BY DEF Quiet, IInv, TypeOK
<1>2. CASE a = NoAnswer
  <2>1. answer' = answer
    BY <1>2 DEF IInv, TypeOK
  <2> QED BY <1>1, <2>1 DEF Store!vars
<1>3. CASE a # NoAnswer
  <2>1. a \in MayAnswer(request[c], seen[c], churn[c])
    BY <1>1, <1>3 DEF ClientInv, Explained, Wrote
  <2>2. a \in Store!MayAnswer(request[c], seen[c], churn[c])
    BY <2>1 DEF MayAnswer, Store!MayAnswer, Outcomes, Store!Outcomes, Fail, Store!Fail,
                Read, Store!Read, Sized, Store!Sized, Refusals, Store!Refusals
  <2>3. Store!Busy(c)
    BY CallAssumption DEF Store!Busy
  <2> QED BY <1>1, <2>2, <2>3 DEF Store!AnswerRead
<1> QED BY <1>2, <1>3

\* Reading steps touch nothing but the answer.
LEMMA ReadingStep ==
  ASSUME NEW c \in Clients, IInv,
         Size(c) \/ GetInto(c) \/ OptimisticRead(c) \/ SizeQuery(c) \/ SizedRead(c)
  PROVE  /\ Quiet /\ \E a : answer' = [answer EXCEPT ![c] = a]
         /\ request[c] \in Requests /\ answer[c] = NoAnswer
         /\ request[c].op \notin {"set", "remove"}
<1>1. pc[c] \in {"size", "getInto", "get", "sizeQuery", "sizedRead"}
  BY DEF Size, GetInto, OptimisticRead, SizeQuery, SizedRead
<1>2. answer = [answer EXCEPT ![c] = answer[c]]
  BY DEF IInv, TypeOK
<1>3. Quiet
  BY DEF Size, GetInto, OptimisticRead, SizeQuery, SizedRead
<1>4. \E a : answer' = [answer EXCEPT ![c] = a]
  <2>1. CASE Size(c)
    BY <2>1 DEF Size, Finish
  <2>2. CASE GetInto(c)
    BY <2>2 DEF GetInto, Finish
  <2>3. CASE OptimisticRead(c)
    BY <2>3, <1>2 DEF OptimisticRead, Finish, Goto
  <2>4. CASE SizeQuery(c)
    BY <2>4, <1>2 DEF SizeQuery, Finish, Goto
  <2>5. CASE SizedRead(c)
    BY <2>5, <1>2 DEF SizedRead, Retry, Finish, Goto
  <2> QED BY <2>1, <2>2, <2>3, <2>4, <2>5
<1> QED BY <1>1, <1>3, <1>4, ReadStart

\* The step of a call is its effect on the store, an answer, or invisible.
LEMMA StepRefines ==
  ASSUME IInv, NEW c \in Clients, Step(c)
  PROVE  Store!AnswerRead(c) \/ Store!Set(c) \/ Store!Remove(c) \/ UNCHANGED Store!vars
<1>1. ClientInv(c)' /\ TypeOK
  BY ClientStep DEF IInv
<1>2. CASE Size(c) \/ GetInto(c) \/ OptimisticRead(c) \/ SizeQuery(c) \/ SizedRead(c)
  BY <1>1, <1>2, ReadingStep, QuietRefines
<1>3. CASE Check(c)
  <2>1. Quiet /\ request[c] \in Requests /\ answer[c] = NoAnswer
    BY <1>3 DEF Check, IInv, ClientInv, CallInv, Started
  <2>2. \E a : answer' = [answer EXCEPT ![c] = a] /\ a # Done
    <3>1. CASE Finish(c, Fail(Rejection(request[c])), 0)
      <4>1. Fail(Rejection(request[c])) # Done
        BY DEF Rejection, Fail, Done
      <4> QED BY <3>1, <4>1 DEF Finish
    <3>2. CASE UNCHANGED answer
      <4>1. answer' = [answer EXCEPT ![c] = NoAnswer]
        BY <2>1, <3>2 DEF IInv, TypeOK
      <4> QED BY <4>1, DoneType
    <3> QED BY <1>3, <3>1, <3>2 DEF Check, Goto
  <2> QED BY <1>1, <2>1, <2>2, QuietRefines
<1>4. CASE Set(c)
  <2>1. /\ request[c] \in Requests /\ answer[c] = NoAnswer /\ cell \in seen[c] /\ UNCHANGED request
        /\ request[c].op = "set" /\ request[c].args = "ok" /\ request[c].value \in Values
        /\ LenOf[request[c].value] <= request[c].limit
    BY <1>4, AcceptedRequest DEF Set, IInv, ClientInv, CallInv, Accepted, Started, Ops
  <2>2. PICK k \in SetXattr(request[c].value) :
          IF k.errno = "SUCCESS"
          THEN Store!Replace(k.after) /\ Finish(c, Done, 0)
          ELSE UNCHANGED <<cell, seen, churn>> /\ Finish(c, Fail(MapErrno(k.errno, "generic")), 0)
    BY <1>4 DEF Set
  <2>3. CASE k.errno = "SUCCESS"
    <3>1. k.after = request[c].value /\ cell # Gone
      BY <2>3, KernelAssumption, EnvironmentType DEF SetXattr, Errnos, EnvironmentErrnos
    <3>2. Store!Busy(c)
      BY <2>1, CallAssumption DEF Store!Busy
    <3> QED BY <2>1, <2>2, <2>3, <3>1, <3>2 DEF Store!Set, Finish, Done, Store!Done
  <2>4. CASE k.errno # "SUCCESS"
    <3>1. k.errno \in WriteFaults \/ k.errno = "2BIG" \/ (k.errno = "NOENT" /\ cell = Gone)
      BY <2>4 DEF SetXattr
    <3>2. Fail(MapErrno(k.errno, "generic")).status # "OK"
      BY <2>1, <3>1, WriteFaultAllowed
    <3>3. Fail(MapErrno(k.errno, "generic")) # Done
      BY <3>2 DEF Done
    <3>4. Quiet /\ answer' = [answer EXCEPT ![c] = Fail(MapErrno(k.errno, "generic"))]
      BY <2>1, <2>2, <2>4 DEF Quiet, Finish
    <3> QED BY <1>1, <2>1, <3>3, <3>4, QuietRefines
  <2> QED BY <2>3, <2>4
<1>5. CASE Remove(c)
  <2>1. /\ request[c] \in Requests /\ answer[c] = NoAnswer /\ cell \in seen[c] /\ UNCHANGED request
        /\ request[c].op = "remove" /\ request[c].args = "ok"
    BY <1>5, AcceptedRequest DEF Remove, IInv, ClientInv, CallInv, Accepted, Started, Ops
  <2>2. PICK k \in RemoveXattr :
          IF k.errno = "SUCCESS"
          THEN Store!Replace(k.after) /\ Finish(c, Done, 0)
          ELSE UNCHANGED <<cell, seen, churn>> /\ Finish(c, Fail(MapErrno(k.errno, "generic")), 0)
    BY <1>5 DEF Remove
  <2>3. CASE k.errno = "SUCCESS"
    <3>1. k.after = Absent /\ cell \in Values
      BY <1>1, <2>3, KernelAssumption, EnvironmentType
         DEF RemoveXattr, Errnos, EnvironmentErrnos, TypeOK, Contents
    <3>2. Store!Busy(c)
      BY <2>1, CallAssumption DEF Store!Busy
    <3> QED BY <2>1, <2>2, <2>3, <3>1, <3>2 DEF Store!Remove, Finish, Done, Store!Done
  <2>4. CASE k.errno # "SUCCESS"
    <3>1. \/ k.errno \in WriteFaults \/ (k.errno = "NOENT" /\ cell = Gone)
          \/ (k.errno = "NODATA" /\ cell = Absent)
      BY <2>4 DEF RemoveXattr
    <3>2. Fail(MapErrno(k.errno, "generic")).status # "OK"
      BY <2>1, <3>1, WriteFaultAllowed
    <3>3. Fail(MapErrno(k.errno, "generic")) # Done
      BY <3>2 DEF Done
    <3>4. Quiet /\ answer' = [answer EXCEPT ![c] = Fail(MapErrno(k.errno, "generic"))]
      BY <2>1, <2>2, <2>4 DEF Quiet, Finish
    <3> QED BY <1>1, <2>1, <3>3, <3>4, QuietRefines
  <2> QED BY <2>3, <2>4
<1> QED BY <1>2, <1>3, <1>4, <1>5 DEF Step

\* The core implements the atomic attribute: a get, whatever its retries, is
\* one read of one value; a set or a remove is one replacement.
THEOREM Refinement == Spec => Atomic
<1>1. Init => Store!Init
  BY DEF Init
<1>2. IInv /\ [Next]_vars => [Store!Next]_(Store!vars)
  <2> SUFFICES ASSUME IInv, [Next]_vars PROVE [Store!Next]_(Store!vars)
    OBVIOUS
  <2>1. ASSUME NEW c \in Clients, NEW r \in Requests, Begin(c, r) PROVE Store!Next
    BY <2>1 DEF Begin, Store!Next
  <2>2. ASSUME NEW c \in Clients, Step(c) PROVE [Store!Next]_(Store!vars)
    BY <2>2, StepRefines DEF Store!Next
  <2>3. ASSUME NEW c \in Clients, End(c) PROVE Store!Next
    BY <2>3 DEF End, Store!Next
  <2>4. ASSUME NEW x \in Outsiders, Outside(x) PROVE Store!Next
    BY <2>4, KernelAssumption DEF Outside, Store!Next, Contents, Store!Contents
  <2>5. CASE UNCHANGED vars
    BY <2>5 DEF vars, Store!vars
  <2> QED BY <2>1, <2>2, <2>3, <2>4, <2>5 DEF Next
<1> QED BY <1>1, <1>2, Invariance, PTL DEF Spec, Atomic, Store!Spec
=============================================================================
