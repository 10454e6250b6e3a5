-------------------------- MODULE NtfsStreamProofs --------------------------
(***************************************************************************)
(* For any clients, values and calls, with crashes, failed writes and      *)
(* other programs about: what a read of a stream returns is never the      *)
(* middle of a write.  The share modes give two facts, and the theorem is  *)
(* their consequence: a writer's handle is alone, and without one the      *)
(* stream is what the last write left.                                     *)
(***************************************************************************)
EXTENDS NtfsStream, TLAPS, SequenceTheorems

Shapes ==
  /\ handle \in [Clients -> {"none", "reader", "writer"}]
  /\ pc \in [Clients -> {"idle", "base", "open", "body", "done"}]
  /\ DOMAIN answer = Clients /\ DOMAIN seen = Clients
  /\ DOMAIN request = Clients /\ DOMAIN phase = Clients

\* A handle is open exactly inside a body, a writer's is a set's and the only
\* one, and a reader's pins the stream.
HandleInv(c) ==
  /\ Busy(c) => request[c] \in Requests[c]
  /\ handle[c] # "none" <=> pc[c] = "body"
  /\ handle[c] = "writer" => /\ request[c].op = "set"
                             /\ \A d \in Clients \ {c} : handle[d] = "none"
  /\ handle[c] = "reader" => stream # Absent /\ request[c].op \in Reads

\* A call has seen what the stream holds, if it cares, and what it read there.
SeenInv(c) ==
  /\ Busy(c) /\ Watches(request[c].op, current) => current \in seen[c]
  /\ Answers(c, "read") => answer[c].out \in seen[c]

\* Without a writer the stream is what the last write, delete or crash left;
\* without the file there is neither stream nor handle.
Settled ==
  /\ (\A c \in Clients : handle[c] # "writer") =>
       stream = current \/ stream = Absent
  /\ base \/ (stream = Absent /\ \A c \in Clients : handle[c] = "none")

IInv == Shapes /\ Settled /\ \A c \in Clients : HandleInv(c) /\ SeenInv(c)

LEMMA IInvInit == Init => IInv
BY DEF Init, IInv, Shapes, Settled, HandleInv, SeenInv, Busy, Answers

\* What the answers say.
LEMMA Says == /\ \A s : Fail(s).status = s
              /\ \A v : Read(v).status = "OK" /\ Read(v).out = v
BY DEF Fail, Read

\* Only a get or a getInto reads.
LEMMA OnlyReads ==
  ASSUME IInv, NEW c \in Clients, Busy(c)
  PROVE  /\ AdapterOp(c) = "read" => request[c].op \in Reads
         /\ AdapterOp(c) = "set" => request[c].op = "set"
         /\ AdapterOp(c) = "remove" => request[c].op = "remove"
BY NtfsAssumption DEF AdapterOp, Reads, IInv, HandleInv

LEMMA NotARead ==
  ASSUME NEW c \in Clients, request[c].op \in {"set", "remove"}
  PROVE  AdapterOp(c) # "read"
BY DEF AdapterOp

-----------------------------------------------------------------------------
(* Steps that leave the history and the file alone.                        *)

\* The step is of c's call alone.
Own(c) ==
  /\ UNCHANGED request
  /\ DOMAIN phase' = Clients /\ \A d \in Clients \ {c} : phase'[d] = phase[d]

\* Client c moves on, or answers, with bytes it has seen if it read any.
Advances(c) ==
  /\ Own(c)
  /\ \E l \in {"base", "open", "done"} : pc' = [pc EXCEPT ![c] = l]
  /\ DOMAIN answer' = Clients /\ \A d \in Clients \ {c} : answer'[d] = answer[d]
  /\ Answers(c, "read")' => answer'[c].out \in seen[c]

LEMMA FailAdvances ==
  ASSUME IInv, NEW c \in Clients, Own(c), NEW s, s # "OK", Finish(c, Fail(s)) PROVE Advances(c)
BY Says DEF Finish, Advances, Answers, IInv, Shapes

LEMMA GotoAdvances ==
  ASSUME IInv, NEW c \in Clients, Own(c), NEW l \in {"base", "open"}, Goto(c, l) PROVE Advances(c)
BY DEF Goto, Advances, Answers, IInv, Shapes

LEMMA Unmoved ==
  ASSUME IInv, UNCHANGED <<request, phase>>, NEW c \in Clients PROVE Own(c)
BY DEF Own, IInv, Shapes

\* What a step leaves of the answer of another client.
LEMMA Same ==
  ASSUME NEW d \in Clients, pc'[d] = pc[d], answer'[d] = answer[d],
         request'[d] = request[d], phase'[d] = phase[d]
  PROVE  Answers(d, "read")' = Answers(d, "read") /\ Busy(d)' = Busy(d)
BY DEF Answers, AdapterOp, Busy

\* A step that only answers, moves on or gives up, closing what it had open.
LEMMA PlainStep ==
  ASSUME IInv, NEW c \in Clients, Busy(c), UNCHANGED <<ntfs, history>>, Advances(c),
         handle' = [handle EXCEPT ![c] = "none"], handle[c] # "writer"
  PROVE  IInv'
<1>1. /\ UNCHANGED <<base, stream, held, current, seen, churn, request>>
      /\ pc'[c] \in {"base", "open", "done"} /\ handle'[c] = "none"
      /\ \A d \in Clients \ {c} : /\ pc'[d] = pc[d] /\ handle'[d] = handle[d]
                                /\ answer'[d] = answer[d] /\ phase'[d] = phase[d]
  BY DEF IInv, Shapes, ntfs, history, Advances, Own
<1>2. Answers(c, "read")' => answer'[c].out \in seen[c]
  BY DEF Advances
<1>3. Shapes'
  BY <1>1 DEF IInv, Shapes, Advances, Own
<1>4. Settled'
  BY <1>1 DEF IInv, Settled
<1>5. HandleInv(c)' /\ SeenInv(c)'
  BY <1>1, <1>2 DEF IInv, HandleInv, SeenInv, Busy
<1>6. ASSUME NEW d \in Clients \ {c} PROVE HandleInv(d)' /\ SeenInv(d)'
  BY <1>1, Same DEF IInv, HandleInv, SeenInv
<1> QED BY <1>3, <1>4, <1>5, <1>6 DEF IInv

\* The step does not touch c's handle because there is none.
LEMMA NoHandle ==
  ASSUME IInv, NEW c \in Clients, pc[c] # "body"
  PROVE  handle[c] = "none" /\ handle = [handle EXCEPT ![c] = "none"]
BY DEF IInv, Shapes, HandleInv

LEMMA BeginStep ==
  ASSUME IInv, NEW c \in Clients, NEW r \in Requests[c], Begin(c, r)
  PROVE  IInv'
<1>1. /\ UNCHANGED <<base, stream, held, handle, current>> /\ pc[c] = "idle"
      /\ pc'[c] \in {"base", "done"} /\ Shapes' /\ request'[c] = r
      /\ Watches(r.op, current) => current \in seen'[c]
      /\ pc'[c] = "done" => answer'[c].status # "OK"
      /\ \A d \in Clients \ {c} : /\ pc'[d] = pc[d] /\ seen'[d] = seen[d]
                                /\ answer'[d] = answer[d] /\ request'[d] = request[d]
                                /\ phase'[d] = phase[d]
  BY Says DEF Begin, IInv, Shapes, ntfs, Finish, Goto
<1>2. HandleInv(c)' /\ SeenInv(c)'
  BY <1>1 DEF IInv, HandleInv, SeenInv, Busy, Answers
<1>3. ASSUME NEW d \in Clients \ {c} PROVE HandleInv(d)' /\ SeenInv(d)'
  BY <1>1, Same DEF IInv, HandleInv, SeenInv
<1>4. Settled'
  BY <1>1 DEF IInv, Settled
<1> QED BY <1>1, <1>2, <1>3, <1>4 DEF IInv

LEMMA RequireBaseStep ==
  ASSUME IInv, NEW c \in Clients, RequireBase(c)
  PROVE  IInv'
<1>1. Busy(c) /\ UNCHANGED <<ntfs, history>> /\ handle' = [handle EXCEPT ![c] = "none"]
      /\ handle[c] # "writer"
  BY NoHandle DEF RequireBase, Busy, history
<1>2. Own(c)
  BY Unmoved DEF RequireBase
<1>3. Advances(c)
  BY <1>2, FailAdvances, GotoAdvances DEF RequireBase
<1> QED BY <1>1, <1>3, PlainStep

LEMMA BackOffStep ==
  ASSUME IInv, NEW c \in Clients, pc[c] = "open", BackOff(c) \/ Refuse(c)
  PROVE  IInv'
<1>1. Busy(c) /\ UNCHANGED <<ntfs, history>> /\ handle' = [handle EXCEPT ![c] = "none"]
      /\ handle[c] # "writer"
  BY NoHandle DEF BackOff, Refuse, Busy
<1>2. Own(c)
  BY Unmoved DEF BackOff, Refuse
<1>3. "OK" \notin Faults
  BY NtfsAssumption
<1>4. Advances(c)
  BY <1>2, <1>3, FailAdvances, GotoAdvances DEF BackOff, Refuse
<1> QED BY <1>1, <1>4, PlainStep

-----------------------------------------------------------------------------
(* Steps on the stream.                                                    *)

LEMMA OpenReaderStep ==
  ASSUME IInv, NEW c \in Clients, OpenReader(c)
  PROVE  IInv'
<1>1. CASE BackOff(c) \/ Refuse(c)
  BY <1>1, BackOffStep DEF OpenReader
<1>2. CASE /\ ~Violation(c, ReaderShares)
           /\ IF stream = Absent
              THEN Finish(c, Fail("Missing")) /\ UNCHANGED handle
              ELSE Goto(c, "body") /\ handle' = [handle EXCEPT ![c] = "reader"]
           /\ UNCHANGED <<ntfs, history, request, phase, tries, attempt, expected>>
  <2>0. pc[c] = "open" /\ Busy(c) /\ handle[c] = "none" /\ handle = [handle EXCEPT ![c] = "none"]
    BY NoHandle DEF OpenReader, Busy
  <2>1. CASE stream = Absent
    BY <1>2, <2>0, <2>1, PlainStep, FailAdvances, Unmoved
  <2>2. CASE stream # Absent
    <3>1. (\A d \in Clients \ {c} : handle[d] # "writer") /\ request[c].op \in Reads
      BY <1>2, <2>0, OnlyReads DEF Violation, ReaderShares, OpenReader
    <3>2. /\ UNCHANGED <<base, stream, held, current, seen, answer, request, phase>>
          /\ pc'[c] = "body" /\ handle'[c] = "reader" /\ Shapes'
          /\ \A d \in Clients \ {c} : pc'[d] = pc[d] /\ handle'[d] = handle[d]
      BY <1>2, <2>2 DEF IInv, Shapes, ntfs, history, Goto
    <3>3. ASSUME NEW d \in Clients PROVE HandleInv(d)' /\ SeenInv(d)'
      BY <2>0, <2>2, <3>1, <3>2 DEF IInv, HandleInv, SeenInv, Busy, Answers, AdapterOp
    <3>4. Settled'
      BY <2>0, <2>2, <3>2 DEF IInv, Settled
    <3> QED BY <3>2, <3>3, <3>4 DEF IInv
  <2> QED BY <2>1, <2>2
<1> QED BY <1>1, <1>2 DEF OpenReader

\* What Note gives each client.
LEMMA Noted ==
  ASSUME NEW x, Note(x), NEW d \in Clients
  PROVE  /\ current' = x /\ DOMAIN seen' = Clients
         /\ seen'[d] = IF Busy(d) /\ Watches(request[d].op, x) THEN seen[d] \cup {x} ELSE seen[d]
BY DEF Note

LEMMA OpenWriterStep ==
  ASSUME IInv, NEW c \in Clients, OpenWriter(c)
  PROVE  IInv'
<1>1. CASE BackOff(c) \/ Refuse(c)
  BY <1>1, BackOffStep DEF OpenWriter
<1>2. CASE /\ ~Violation(c, WriterShares)
           /\ base' = TRUE /\ stream' = <<>>
           /\ IF base THEN UNCHANGED history ELSE Note(Absent)
           /\ handle' = [handle EXCEPT ![c] = "writer"]
           /\ Goto(c, "body")
           /\ UNCHANGED <<held, request, phase, tries, attempt, expected>>
  <2>1. (\A d \in Clients \ {c} : handle[d] = "none") /\ request[c].op = "set"
    BY <1>2, OnlyReads DEF Violation, WriterShares, IInv, Shapes, OpenWriter, Busy
  <2>2. /\ pc'[c] = "body" /\ handle'[c] = "writer" /\ pc[c] = "open"
        /\ UNCHANGED <<answer, request, phase>>
        /\ \A d \in Clients \ {c} : pc'[d] = pc[d] /\ handle'[d] = handle[d]
    BY <1>2 DEF OpenWriter, IInv, Shapes, Goto
  <2>3. /\ DOMAIN seen' = Clients
        /\ \A d \in Clients :
             /\ seen[d] \subseteq seen'[d]
             /\ Busy(d) /\ Watches(request[d].op, current') => current' \in seen'[d]
    <3>1. CASE base
      BY <1>2, <3>1 DEF history, IInv, Shapes, SeenInv
    <3>2. CASE ~base
      BY <1>2, <3>2, Noted DEF Note
    <3> QED BY <3>1, <3>2
  <2>4. Shapes'
    BY <1>2, <2>2, <2>3 DEF IInv, Shapes, Goto
  <2>5. HandleInv(c)' /\ SeenInv(c)'
    BY <2>1, <2>2, <2>3 DEF IInv, HandleInv, SeenInv, Busy, Answers
  <2>6. ASSUME NEW d \in Clients \ {c} PROVE HandleInv(d)' /\ SeenInv(d)'
    BY <2>1, <2>2, <2>3, Same DEF IInv, HandleInv, SeenInv
  <2>7. Settled'
    BY <1>2, <2>2 DEF Settled
  <2> QED BY <2>4, <2>5, <2>6, <2>7 DEF IInv
<1> QED BY <1>1, <1>2 DEF OpenWriter

LEMMA DeleteStep ==
  ASSUME IInv, NEW c \in Clients, Delete(c)
  PROVE  IInv'
<1>1. CASE BackOff(c) \/ Refuse(c)
  BY <1>1, BackOffStep DEF Delete
<1>2. CASE /\ ~Violation(c, WriterShares)
           /\ IF stream = Absent
              THEN Finish(c, Fail("Missing")) /\ UNCHANGED <<stream, history>>
              ELSE Finish(c, Done) /\ stream' = Absent /\ Note(Absent)
           /\ UNCHANGED <<base, held, handle, request, phase, tries, attempt, expected>>
  <2>0. pc[c] = "open" /\ Busy(c) /\ handle[c] = "none" /\ handle = [handle EXCEPT ![c] = "none"]
    BY NoHandle DEF Delete, Busy
  <2>1. CASE stream = Absent
    BY <1>2, <2>0, <2>1, PlainStep, FailAdvances, Unmoved DEF ntfs
  <2>2. CASE stream # Absent
    <3>1. (\A d \in Clients : handle[d] = "none") /\ request[c].op = "remove"
      BY <1>2, <2>0, OnlyReads DEF Violation, WriterShares, IInv, Shapes, Delete
    <3>2. /\ stream' = Absent /\ UNCHANGED <<handle, request, phase>> /\ pc'[c] = "done"
          /\ \A d \in Clients \ {c} : pc'[d] = pc[d] /\ answer'[d] = answer[d]
          /\ Note(Absent)
      BY <1>2, <2>2 DEF IInv, Shapes, Finish
    <3>3. Shapes'
      BY <1>2, <2>2, <3>2 DEF IInv, Shapes, Finish, Note
    <3>4. HandleInv(c)' /\ SeenInv(c)'
      BY <2>0, <3>1, <3>2 DEF IInv, HandleInv, SeenInv, Busy, Answers, AdapterOp
    <3>5. ASSUME NEW d \in Clients \ {c} PROVE HandleInv(d)' /\ SeenInv(d)'
      <4>1. /\ current' = Absent
            /\ seen'[d] = IF Busy(d) /\ Watches(request[d].op, Absent)
                         THEN seen[d] \cup {Absent} ELSE seen[d]
        BY <3>2, Noted
      <4>2. Busy(d)' = Busy(d) /\ Answers(d, "read")' = Answers(d, "read")
        BY <3>2, Same
      <4>3. HandleInv(d)'
        BY <3>1, <3>2, <4>2 DEF IInv, HandleInv
      <4>4. SeenInv(d)'
        BY <3>2, <4>1, <4>2 DEF IInv, SeenInv
      <4> QED BY <4>3, <4>4
    <3>6. Settled'
      BY <1>2, <3>1, <3>2 DEF Settled
    <3> QED BY <3>3, <3>4, <3>5, <3>6 DEF IInv
  <2> QED BY <2>1, <2>2
<1> QED BY <1>1, <1>2 DEF Delete

LEMMA SizeQueryStep ==
  ASSUME IInv, NEW c \in Clients, SizeQuery(c)
  PROVE  IInv'
<1>1. pc[c] = "open" /\ Busy(c) /\ handle[c] = "none" /\ handle = [handle EXCEPT ![c] = "none"]
  BY NoHandle DEF SizeQuery, Busy
<1>2. CASE Refuse(c)
  BY <1>1, <1>2, BackOffStep
<1>3. CASE ~Refuse(c)
  <2>1. UNCHANGED <<ntfs, handle, history>> /\ AdapterOp(c) = "size" /\ Own(c)
    BY <1>3 DEF SizeQuery, Own, IInv, Shapes
  <2>2. CASE Goto(c, "base")
    BY <1>1, <2>1, <2>2, GotoAdvances, PlainStep
  <2>3. CASE UNCHANGED phase /\ \E a : Finish(c, a)
    <3>1. AdapterOp(c)' = "size"
      BY <2>1, <2>3 DEF Own, AdapterOp
    <3>2. Advances(c)
      BY <2>1, <2>3, <3>1 DEF Finish, Advances, Answers, IInv, Shapes
    <3> QED BY <1>1, <2>1, <3>2, PlainStep
  <2>4. Goto(c, "base") \/ (UNCHANGED phase /\ \E a : Finish(c, a))
    BY <1>3 DEF SizeQuery
  <2> QED BY <2>2, <2>3, <2>4
<1> QED BY <1>2, <1>3

LEMMA ReadBodyStep ==
  ASSUME IInv, NEW c \in Clients, ReadBody(c)
  PROVE  IInv'
<1>1. /\ Busy(c) /\ handle[c] = "reader" /\ UNCHANGED <<ntfs, history>>
      /\ handle' = [handle EXCEPT ![c] = "none"]
  BY DEF ReadBody, Busy, Close, CloseHandle
<1>2. stream \in seen[c]
  <2>1. stream = current /\ request[c].op \in Reads
    BY <1>1 DEF IInv, Settled, HandleInv
  <2> QED BY <1>1, <2>1 DEF IInv, SeenInv, Watches
<1>3. Read(stream).out = stream
  BY DEF Read
<1>4. ASSUME NEW s, s # "OK", Finish(c, Fail(s)), UNCHANGED <<phase, attempt>> PROVE IInv'
  BY <1>1, <1>4, Unmoved, FailAdvances, PlainStep DEF ReadBody
<1>5. CASE TooSmall(c)
  <2>1. Own(c)
    BY <1>5 DEF TooSmall, Own, IInv, Shapes, ReadBody
  <2>2. Advances(c)
    BY <1>5, <2>1, FailAdvances, GotoAdvances DEF TooSmall
  <2> QED BY <1>1, <2>2, PlainStep
<1>6. CASE Finish(c, Read(stream)) /\ UNCHANGED <<phase, attempt>>
  <2>1. Advances(c)
    BY <1>2, <1>3, <1>6 DEF Finish, Advances, Own, ReadBody, IInv, Shapes
  <2> QED BY <1>1, <2>1, PlainStep
<1>7. CASE \E status \in Faults : Finish(c, Fail(status)) /\ UNCHANGED <<phase, attempt>>
  BY <1>4, <1>7, NtfsAssumption
<1>8. CASE Finish(c, Fail("TooLarge")) /\ UNCHANGED <<phase, attempt>>
  BY <1>4, <1>8
<1> QED BY <1>5, <1>6, <1>7, <1>8 DEF ReadBody

LEMMA WriteChunkStep ==
  ASSUME IInv, NEW c \in Clients, WriteChunk(c)
  PROVE  IInv'
<1>1. handle[c] = "writer" /\ UNCHANGED <<base, handle, current, seen, pc, answer, request, phase>>
  BY DEF WriteChunk, history, callVars
<1>2. \A d \in Clients : handle[d] # "reader"
  BY <1>1 DEF IInv, HandleInv
<1> QED BY <1>2, <1>1 DEF IInv, Shapes, Settled, HandleInv, SeenInv, Busy, Answers, AdapterOp

LEMMA EndWriteStep ==
  ASSUME IInv, NEW c \in Clients, EndWrite(c)
  PROVE  IInv'
<1>1. /\ pc[c] = "body" /\ handle[c] = "writer" /\ Note(stream) /\ UNCHANGED stream
      /\ handle' = [handle EXCEPT ![c] = "none"]
  BY DEF EndWrite, Close, CloseHandle, ntfs
<1>2. (\E a : Finish(c, a)) /\ request[c].op = "set" /\ UNCHANGED <<request, phase>>
  BY <1>1 DEF EndWrite, IInv, HandleInv
<1>3. /\ pc'[c] = "done" /\ handle'[c] = "none" /\ Shapes'
      /\ \A d \in Clients \ {c} : pc'[d] = pc[d] /\ answer'[d] = answer[d] /\ handle'[d] = handle[d]
  BY <1>1, <1>2, Noted DEF IInv, Shapes, Finish
<1>4. HandleInv(c)' /\ SeenInv(c)'
  BY <1>2, <1>3 DEF HandleInv, SeenInv, Busy, Answers, AdapterOp
<1>5. ASSUME NEW d \in Clients \ {c} PROVE HandleInv(d)' /\ SeenInv(d)'
  <2>1. seen'[d] = IF Busy(d) /\ Watches(request[d].op, stream) THEN seen[d] \cup {stream} ELSE seen[d]
    BY <1>1, Noted
  <2>2. current' = stream
    BY <1>1 DEF Note
  <2>3. handle[d] = "none"
    BY <1>1 DEF IInv, HandleInv
  <2> QED BY <1>2, <1>3, <2>1, <2>2, <2>3, Same DEF IInv, HandleInv, SeenInv
<1>6. Settled'
  BY <1>1, <1>3 DEF IInv, Settled, Note, EndWrite, ntfs
<1> QED BY <1>3, <1>4, <1>5, <1>6 DEF IInv

LEMMA EndStep ==
  ASSUME IInv, NEW c \in Clients, End(c)
  PROVE  IInv'
<1>1. /\ UNCHANGED <<base, stream, handle, current>> /\ pc[c] = "done" /\ pc'[c] = "idle" /\ Shapes'
      /\ \A d \in Clients \ {c} : /\ pc'[d] = pc[d] /\ answer'[d] = answer[d] /\ seen'[d] = seen[d]
                                /\ request'[d] = request[d] /\ phase'[d] = phase[d]
  BY DEF End, Idle, IInv, Shapes, ntfs
<1>2. HandleInv(c)' /\ SeenInv(c)'
  BY <1>1 DEF IInv, HandleInv, SeenInv, Busy, Answers
<1>3. ASSUME NEW d \in Clients \ {c} PROVE HandleInv(d)' /\ SeenInv(d)'
  BY <1>1, Same DEF IInv, HandleInv, SeenInv
<1> QED BY <1>1, <1>2, <1>3 DEF IInv, Settled

LEMMA CrashStep ==
  ASSUME IInv, NEW c \in Clients, Crash(c)
  PROVE  IInv'
<1>1. /\ UNCHANGED <<base, stream>> /\ pc'[c] = "idle" /\ handle'[c] = "none" /\ Busy(c)
      /\ current' = IF handle[c] = "writer" THEN stream ELSE current
      /\ \A d \in Clients \ {c} : /\ pc'[d] = pc[d] /\ answer'[d] = answer[d] /\ handle'[d] = handle[d]
                                /\ request'[d] = request[d] /\ phase'[d] = phase[d]
      /\ Shapes'
  BY DEF Crash, Idle, IInv, Shapes, ntfs
<1>2. \A d \in Clients \ {c} :
        /\ seen[d] \subseteq seen'[d]
        /\ Busy(d) /\ Watches(request[d].op, current') => current' \in seen'[d]
  BY DEF Crash, IInv, SeenInv
<1>3. HandleInv(c)' /\ SeenInv(c)'
  BY <1>1 DEF IInv, HandleInv, SeenInv, Busy, Answers
<1>4. ASSUME NEW d \in Clients \ {c} PROVE HandleInv(d)' /\ SeenInv(d)'
  BY <1>1, <1>2, Same DEF IInv, HandleInv, SeenInv
<1>5. Settled'
  BY <1>1 DEF IInv, Settled
<1> QED BY <1>1, <1>3, <1>4, <1>5 DEF IInv

LEMMA OutsideStep ==
  ASSUME IInv, Outside
  PROVE  IInv'
<1>1. CASE Hold \/ Release
  BY <1>1 DEF Hold, Release, IInv, Shapes, Settled, HandleInv, SeenInv, Busy, Answers, AdapterOp,
              history, callVars
<1>2. CASE DeleteFile \/ CreateFile
  <2>1. /\ UNCHANGED <<handle, pc, answer, request, phase>>
        /\ \E x \in {Absent, Gone} : Note(x)
        /\ stream' = Absent \/ UNCHANGED stream
    BY <1>2 DEF DeleteFile, CreateFile, callVars
  <2>2. stream' = Absent /\ (stream' # stream => \A c \in Clients : handle[c] = "none")
    BY <1>2 DEF DeleteFile, CreateFile, Unshared, IInv, Settled
  <2>3. Shapes'
    BY <2>1 DEF IInv, Shapes, Note
  <2>4. ASSUME NEW d \in Clients PROVE HandleInv(d)' /\ SeenInv(d)'
    <3>1. PICK x : Note(x)
      BY <2>1
    <3>2. /\ current' = x
          /\ seen'[d] = IF Busy(d) /\ Watches(request[d].op, x) THEN seen[d] \cup {x} ELSE seen[d]
      BY <3>1, Noted
    <3>3. Busy(d)' = Busy(d) /\ Answers(d, "read")' = Answers(d, "read")
      BY <2>1, Same
    <3>4. HandleInv(d)'
      BY <2>1, <2>2, <3>3 DEF IInv, HandleInv
    <3>5. SeenInv(d)'
      BY <2>1, <3>2, <3>3 DEF IInv, SeenInv
    <3> QED BY <3>4, <3>5
  <2>5. Settled'
    BY <1>2, <2>1, <2>2 DEF IInv, Settled, DeleteFile, CreateFile, Unshared
  <2> QED BY <2>3, <2>4, <2>5 DEF IInv
<1> QED BY <1>1, <1>2 DEF Outside

LEMMA IInvStep == IInv /\ [Next]_vars => IInv'
<1> SUFFICES ASSUME IInv, [Next]_vars PROVE IInv'
  OBVIOUS
<1>1. CASE UNCHANGED vars
  BY <1>1 DEF vars, ntfs, history, callVars, IInv, Shapes, Settled, HandleInv, SeenInv, Busy,
              Answers, AdapterOp
<1>2. CASE Outside
  BY <1>2, OutsideStep
<1>3. ASSUME NEW c \in Clients, Step(c) PROVE IInv'
  BY <1>3, RequireBaseStep, OpenReaderStep, OpenWriterStep, DeleteStep, SizeQueryStep,
     ReadBodyStep, WriteChunkStep, EndWriteStep DEF Step
<1>4. ASSUME NEW c \in Clients, End(c) \/ Crash(c) \/ \E r \in Requests[c] : Begin(c, r) PROVE IInv'
  BY <1>4, EndStep, CrashStep, BeginStep
<1> QED BY <1>1, <1>2, <1>3, <1>4 DEF Next

\* Whatever a read of a stream returns was there whole, or was left there by
\* a write that failed or died: the share modes keep readers out of writes.
THEOREM ReadersSeeWhole == Spec => []ReadsWhole
<1>1. IInv => ReadsWhole
  BY DEF IInv, SeenInv, ReadsWhole
<1> QED BY <1>1, IInvInit, IInvStep, PTL DEF Spec

-----------------------------------------------------------------------------
(* Failures tell the truth                                                 *)
(*                                                                         *)
(* FailuresHold needs what ReadsWhole does not: whether the file is there, *)
(* and how many changes each lost attempt of getWith has behind it.  The   *)
(* delicate moment is a size query, which no share mode refuses and which  *)
(* may measure a stream that is being written: that write still has to     *)
(* end, and counts when it does.                                           *)

Writing == \E c \in Clients : handle[c] = "writer"

\* Without the file the last thing noted is that it went; with it, and with
\* nobody writing, the stream is the last thing noted.
FileInv ==
  /\ ~base => current = Gone
  /\ base /\ ~Writing => stream = current
  /\ Writing => stream \in Seq(Nat)

Bounds ==
  /\ base \in BOOLEAN /\ held \in BOOLEAN
  /\ churn \in [Clients -> 0..MaxAttempts]
  /\ phase \in [Clients -> {"first", "size", "sized"}]
  /\ tries \in [Clients -> 0..Retries-1]
  /\ attempt \in [Clients -> 0..MaxAttempts]
  /\ DOMAIN expected = Clients /\ DOMAIN request = Clients

\* The length getWith measured is the stream's, or the stream is being or
\* has been written since.
Measured(c) ==
  /\ expected[c] \in Nat
  /\ churn[c] > attempt[c] \/ Writing \/ (stream # Absent /\ Len(stream) = expected[c])

Truthful(c) ==
  /\ answer[c].status = "NotFound" => Gone \in seen[c]
  /\ answer[c].status = "Missing" => seen[c] \cap {Absent, Gone} # {}
  /\ answer[c].status = "Changed" => churn[c] = MaxAttempts

CallInv(c) ==
  /\ pc[c] = "idle" => attempt[c] = 0
  /\ Busy(c) => request[c] \in Requests[c] /\ attempt[c] < MaxAttempts /\ attempt[c] <= churn[c]
  /\ Busy(c) /\ phase[c] = "sized" => request[c].op = "get" /\ Measured(c)
  /\ pc[c] = "done" => Truthful(c)

FailureInv == Bounds /\ FileInv /\ \A c \in Clients : CallInv(c)

FInv == IInv /\ FailureInv

LEMMA FailureInvInit == Init => FailureInv
<1> SUFFICES ASSUME Init PROVE FailureInv
  OBVIOUS
<1> USE NtfsAssumption
<1>0. 0 \in 0..Retries-1 /\ 0 \in 0..MaxAttempts
  OBVIOUS
<1>1. Bounds
  <2>1. base \in BOOLEAN /\ held \in BOOLEAN
    BY Zenon DEF Init
  <2> QED BY <1>0, <2>1 DEF Init, Bounds
<1>2. FileInv
  BY DEF Init, FileInv, Writing
<1>3. ASSUME NEW c \in Clients PROVE CallInv(c)
  BY DEF Init, CallInv, Busy
<1> QED BY <1>1, <1>2, <1>3 DEF FailureInv

-----------------------------------------------------------------------------
(* What a step does to the calls that do not take it.                      *)

Spares(d) ==
  /\ pc'[d] = pc[d] /\ request'[d] = request[d] /\ answer'[d] = answer[d]
  /\ phase'[d] = phase[d] /\ attempt'[d] = attempt[d] /\ expected'[d] = expected[d]
  /\ Busy(d) \/ seen'[d] = seen[d]

\* A change of the stream counts, or is a writer's who has not finished.
Counts(d) ==
  \/ /\ churn'[d] = churn[d] /\ stream' = stream
     /\ Writing => Writing'
  \/ churn'[d] = churn[d] /\ Writing'
  \/ churn'[d] = IF Getting(d) /\ churn[d] < MaxAttempts THEN churn[d] + 1 ELSE churn[d]

LEMMA Frame ==
  ASSUME FailureInv, NEW d \in Clients, Spares(d), Counts(d)
  PROVE  CallInv(d)'
<1>1. /\ CallInv(d) /\ Busy(d)' = Busy(d)
      /\ churn[d] \in 0..MaxAttempts /\ attempt[d] \in 0..MaxAttempts /\ MaxAttempts \in Nat \ {0}
  BY NtfsAssumption DEF FailureInv, Bounds, Spares, Busy
<1>2. CASE Busy(d)
  <2>1. churn'[d] >= churn[d] /\ churn'[d] \in Nat
    BY <1>1 DEF Counts
  <2>2. phase[d] = "sized" => Measured(d)'
    <3>1. CASE churn'[d] = churn[d] /\ stream' = stream /\ (Writing => Writing')
      BY <1>1, <1>2, <3>1 DEF CallInv, Measured, Spares
    <3>2. CASE churn'[d] = churn[d] /\ Writing'
      BY <1>1, <1>2, <3>2 DEF CallInv, Measured, Spares
    <3>3. CASE churn'[d] = IF Getting(d) /\ churn[d] < MaxAttempts THEN churn[d] + 1 ELSE churn[d]
      <4> SUFFICES ASSUME phase[d] = "sized" PROVE Measured(d)'
        OBVIOUS
      <4>1. churn'[d] > attempt[d]
        BY <1>1, <1>2, <3>3 DEF CallInv, Getting
      <4> QED BY <1>1, <1>2, <4>1 DEF CallInv, Measured, Spares
    <3> QED BY <3>1, <3>2, <3>3 DEF Counts
  <2> QED BY <1>1, <1>2, <2>1, <2>2 DEF CallInv, Spares, Busy
<1>3. CASE ~Busy(d)
  <2>1. churn'[d] = churn[d]
    BY <1>3 DEF Counts, Getting
  <2> QED BY <1>1, <1>3, <2>1 DEF CallInv, Truthful, Spares, Busy
<1> QED BY <1>2, <1>3

\* A step of c's call that touches neither the file nor the history.
LEMMA Local ==
  ASSUME FInv, NEW c \in Clients, UNCHANGED <<ntfs, history, request>>,
         NEW l \in {"base", "open", "body", "done"}, pc' = [pc EXCEPT ![c] = l],
         \A d \in Clients \ {c} : answer'[d] = answer[d],
         handle[c] # "writer", \E h : handle' = [handle EXCEPT ![c] = h] /\ h # "writer",
         phase' \in [Clients -> {"first", "size", "sized"}],
         tries' \in [Clients -> 0..Retries-1], attempt' \in [Clients -> 0..MaxAttempts],
         DOMAIN expected' = Clients,
         \A d \in Clients \ {c} : phase'[d] = phase[d] /\ attempt'[d] = attempt[d]
                                   /\ expected'[d] = expected[d],
         CallInv(c)'
  PROVE  FailureInv'
<1>1. UNCHANGED <<base, stream, held, current, seen, churn, request>>
  BY DEF ntfs, history
<1>2. Writing' = Writing
  BY DEF Writing, FInv, IInv, Shapes
<1>3. Bounds' /\ FileInv'
  BY <1>1, <1>2 DEF FInv, FailureInv, Bounds, FileInv
<1>4. ASSUME NEW d \in Clients \ {c} PROVE CallInv(d)'
  BY <1>1, <1>2, Frame DEF FInv, IInv, Shapes, Spares, Counts
<1> QED BY <1>3, <1>4 DEF FailureInv

\* The facts about c's call that its next step starts from.
LEMMA CallFacts ==
  ASSUME FInv, NEW c \in Clients, Busy(c)
  PROVE  /\ request[c] \in Requests[c] /\ attempt[c] < MaxAttempts /\ attempt[c] <= churn[c]
         /\ attempt[c] \in Nat /\ churn[c] \in 0..MaxAttempts /\ MaxAttempts \in Nat
         /\ phase[c] = "sized" => request[c].op = "get" /\ Measured(c)
         /\ Watches(request[c].op, current) => current \in seen[c]
         /\ request[c].limit \in Nat /\ request[c].value \in Seq(Nat)
BY NtfsAssumption DEF FInv, FailureInv, Bounds, CallInv, IInv, SeenInv

\* Statuses that need no explanation from the history.
Plain == {"OK", "TooLarge", "BufferTooSmall", "Permission", "ReadOnly", "Unsupported",
          "OutOfMemory", "Io"}

LEMMA PlainStatuses ==
  /\ \A s \in Plain : Fail(s).status \in Plain
  /\ \A s : Fail(s).status = s
  /\ Done.status \in Plain
  /\ \A v : Read(v).status \in Plain
  /\ \A n : Sized(n).status \in Plain
  /\ Faults \subseteq Plain
BY NtfsAssumption DEF Plain, Fail, Done, Read, Sized

\* A step of c's call ends it with an answer that is true.
LEMMA Ends ==
  ASSUME FInv, NEW c \in Clients, NEW a, Finish(c, a),
         \/ a.status \in Plain
         \/ a.status = "NotFound" /\ Gone \in seen'[c]
         \/ a.status = "Missing" /\ seen'[c] \cap {Absent, Gone} # {}
         \/ a.status = "Changed" /\ churn'[c] = MaxAttempts
  PROVE  /\ CallInv(c)' /\ pc' = [pc EXCEPT ![c] = "done"]
         /\ \A d \in Clients \ {c} : answer'[d] = answer[d]
<1>1. /\ pc'[c] = "done" /\ answer'[c] = a /\ pc' = [pc EXCEPT ![c] = "done"]
      /\ \A d \in Clients \ {c} : answer'[d] = answer[d]
  BY DEF Finish, FInv, IInv, Shapes
<1> QED BY <1>1 DEF CallInv, Truthful, Busy, Plain

\* A step of c's call that only moves it on.
LEMMA Continues ==
  ASSUME FInv, NEW c \in Clients, Busy(c), NEW l \in {"base", "open", "body"}, Goto(c, l),
         UNCHANGED <<ntfs, history, request, phase, attempt, expected>>, Writing' = Writing
  PROVE  /\ CallInv(c)' /\ pc' = [pc EXCEPT ![c] = l]
         /\ \A d \in Clients \ {c} : answer'[d] = answer[d]
<1>1. pc'[c] = l /\ pc' = [pc EXCEPT ![c] = l] /\ UNCHANGED answer
  BY DEF Goto, FInv, IInv, Shapes
<1>2. UNCHANGED <<stream, churn>>
  BY DEF ntfs, history
<1> QED BY <1>1, <1>2, CallFacts DEF CallInv, Busy, Measured

LEMMA BeginTruth ==
  ASSUME FInv, NEW c \in Clients, NEW r \in Requests[c], Begin(c, r)
  PROVE  FailureInv'
<1>1. /\ UNCHANGED <<base, stream, held, handle, current, churn, tries, attempt, expected>>
      /\ pc[c] = "idle" /\ request'[c] = r /\ phase'[c] = "first"
      /\ Writing' = Writing
  BY DEF Begin, ntfs, Writing, FInv, FailureInv, Bounds
<1>2. Bounds' /\ FileInv'
  BY <1>1 DEF Begin, FInv, FailureInv, Bounds, FileInv
<1>3. CallInv(c)'
  <2>1. attempt[c] = 0 /\ churn[c] \in 0..MaxAttempts /\ MaxAttempts \in Nat \ {0}
    BY <1>1, NtfsAssumption DEF FInv, FailureInv, CallInv, Bounds
  <2>2. CASE Finish(c, Fail("TooLarge"))
    BY <2>2, Ends, PlainStatuses DEF Plain
  <2>3. CASE Goto(c, "base")
    <3>1. pc'[c] = "base"
      BY <2>3 DEF Goto, FInv, IInv, Shapes
    <3> QED BY <1>1, <2>1, <3>1 DEF CallInv, Busy
  <2> QED BY <2>2, <2>3 DEF Begin
<1>4. ASSUME NEW d \in Clients \ {c} PROVE CallInv(d)'
  <2>1. Spares(d)
    BY <1>1 DEF Begin, Spares, Finish, Goto, FInv, IInv, Shapes, FailureInv, Bounds
  <2>2. Counts(d)
    BY <1>1 DEF Counts
  <2> QED BY <2>1, <2>2, Frame DEF FInv
<1> QED BY <1>2, <1>3, <1>4 DEF FailureInv

LEMMA NoWriter ==
  ASSUME FInv, NEW c \in Clients, pc[c] # "body", UNCHANGED handle
  PROVE  /\ handle[c] # "writer" /\ \E h : handle' = [handle EXCEPT ![c] = h] /\ h # "writer"
         /\ Writing' = Writing
<1>1. handle[c] = "none" /\ handle = [handle EXCEPT ![c] = "none"]
  BY NoHandle DEF FInv
<1> QED BY <1>1 DEF Writing

LEMMA RequireBaseTruth ==
  ASSUME FInv, NEW c \in Clients, RequireBase(c)
  PROVE  FailureInv'
<1>1. /\ Busy(c) /\ UNCHANGED <<ntfs, history, request, phase, attempt, expected, handle>>
      /\ handle[c] # "writer" /\ (\E h : handle' = [handle EXCEPT ![c] = h] /\ h # "writer")
      /\ Writing' = Writing /\ UNCHANGED <<base, current, seen>>
  BY NoWriter DEF RequireBase, Busy, ntfs, history
<1>2. phase' \in [Clients -> {"first", "size", "sized"}] /\ attempt' \in [Clients -> 0..MaxAttempts]
      /\ tries' \in [Clients -> 0..Retries-1] /\ DOMAIN expected' = Clients
  BY <1>1, NtfsAssumption DEF RequireBase, FInv, FailureInv, Bounds
<1>3. CASE base /\ Goto(c, "open")
  BY <1>1, <1>2, <1>3, Continues, Local
<1>4. CASE ~base /\ Finish(c, Fail("NotFound"))
  <2>1. Gone \in seen'[c]
    BY <1>1, <1>4, CallFacts DEF FInv, FailureInv, FileInv, Watches
  <2> QED BY <1>1, <1>2, <1>4, <2>1, Ends, PlainStatuses, Local
<1> QED BY <1>3, <1>4 DEF RequireBase

LEMMA BackOffTruth ==
  ASSUME FInv, NEW c \in Clients, pc[c] = "open", BackOff(c) \/ Refuse(c)
  PROVE  FailureInv'
<1>1. /\ Busy(c) /\ UNCHANGED <<ntfs, history, request, phase, attempt, expected, handle>>
      /\ handle[c] # "writer" /\ (\E h : handle' = [handle EXCEPT ![c] = h] /\ h # "writer")
      /\ Writing' = Writing
  BY NoWriter DEF BackOff, Refuse, Busy
<1>2. phase' \in [Clients -> {"first", "size", "sized"}] /\ attempt' \in [Clients -> 0..MaxAttempts]
      /\ DOMAIN expected' = Clients
  BY <1>1 DEF FInv, FailureInv, Bounds
<1>3. tries' \in [Clients -> 0..Retries-1]
  <2>1. tries \in [Clients -> 0..Retries-1] /\ Retries \in Nat \ {0}
    BY NtfsAssumption DEF FInv, FailureInv, Bounds
  <2>2. \/ tries' = tries
        \/ tries[c] + 1 < Retries /\ tries' = [tries EXCEPT ![c] = IF @ < Retries THEN @ + 1 ELSE @]
    BY DEF BackOff, Refuse, TriesLeft
  <2> QED BY <2>1, <2>2
<1>4. CASE Goto(c, "open")
  BY <1>1, <1>2, <1>3, <1>4, Continues, Local
<1>5. CASE \E s \in Plain : Finish(c, Fail(s))
  BY <1>1, <1>2, <1>3, <1>5, Ends, PlainStatuses, Local
<1> QED BY <1>4, <1>5, PlainStatuses DEF BackOff, Refuse, Plain

\* A stream that cannot be opened or measured is really missing.
LEMMA MissingIsSeen ==
  ASSUME FInv, NEW c \in Clients, Busy(c), stream = Absent
  PROVE  seen[c] \cap {Absent, Gone} # {}
<1>1. ~Writing
  BY NtfsAssumption DEF FInv, FailureInv, FileInv
<1>2. current \in {Absent, Gone}
  BY <1>1 DEF FInv, FailureInv, FileInv
<1> QED BY <1>2, CallFacts DEF Watches

LEMMA OpenReaderTruth ==
  ASSUME FInv, NEW c \in Clients, OpenReader(c)
  PROVE  FailureInv'
<1>1. CASE BackOff(c) \/ Refuse(c)
  BY <1>1, BackOffTruth DEF OpenReader
<1>2. CASE /\ ~Violation(c, ReaderShares)
           /\ IF stream = Absent
              THEN Finish(c, Fail("Missing")) /\ UNCHANGED handle
              ELSE Goto(c, "body") /\ handle' = [handle EXCEPT ![c] = "reader"]
           /\ UNCHANGED <<ntfs, history, request, phase, tries, attempt, expected>>
  <2>1. /\ Busy(c) /\ pc[c] = "open" /\ handle[c] = "none" /\ UNCHANGED seen
        /\ phase' \in [Clients -> {"first", "size", "sized"}] /\ attempt' \in [Clients -> 0..MaxAttempts]
        /\ tries' \in [Clients -> 0..Retries-1] /\ DOMAIN expected' = Clients
    BY <1>2, NoHandle DEF OpenReader, Busy, FInv, FailureInv, Bounds, history
  <2>2. CASE stream = Absent
    <3>1. UNCHANGED handle /\ seen'[c] \cap {Absent, Gone} # {}
      BY <1>2, <2>1, <2>2, MissingIsSeen
    <3>2. handle[c] # "writer" /\ (\E h : handle' = [handle EXCEPT ![c] = h] /\ h # "writer")
      BY <2>1, <3>1, NoWriter
    <3>3. CallInv(c)' /\ pc' = [pc EXCEPT ![c] = "done"]
          /\ \A d \in Clients \ {c} : answer'[d] = answer[d]
      BY <1>2, <2>2, <3>1, Ends, PlainStatuses
    <3> QED BY <1>2, <2>1, <3>2, <3>3, Local
  <2>3. CASE stream # Absent
    <3>1. Goto(c, "body") /\ handle' = [handle EXCEPT ![c] = "reader"]
      BY <1>2, <2>3
    <3>2. Writing' = Writing
      BY <2>1, <3>1 DEF Writing, FInv, IInv, Shapes
    <3>3. CallInv(c)' /\ pc' = [pc EXCEPT ![c] = "body"]
          /\ \A d \in Clients \ {c} : answer'[d] = answer[d]
      BY <1>2, <2>1, <3>1, <3>2, Continues
    <3>4. handle[c] # "writer" /\ (\E h : handle' = [handle EXCEPT ![c] = h] /\ h # "writer")
      <4>1. handle[c] # "writer" /\ "reader" # "writer"
        BY <2>1
      <4> QED BY <3>1, <4>1, Zenon
    <3> QED BY <1>2, <2>1, <3>3, <3>4, Local
  <2> QED BY <2>2, <2>3
<1> QED BY <1>1, <1>2 DEF OpenReader

\* The count of changes stops at max_get_attempts.
LEMMA NoteCounts ==
  ASSUME Bounds, NEW x, Note(x)
  PROVE  churn' \in [Clients -> 0..MaxAttempts]
<1>1. churn \in [Clients -> 0..MaxAttempts] /\ MaxAttempts \in Nat
  BY NtfsAssumption DEF Bounds
<1>2. churn' = [c \in Clients |->
                  IF Getting(c) /\ churn[c] < MaxAttempts THEN churn[c] + 1 ELSE churn[c]]
  BY DEF Note
<1> QED BY <1>1, <1>2

LEMMA OpenWriterTruth ==
  ASSUME FInv, NEW c \in Clients, OpenWriter(c)
  PROVE  FailureInv'
<1>1. CASE BackOff(c) \/ Refuse(c)
  BY <1>1, BackOffTruth DEF OpenWriter
<1>2. CASE /\ ~Violation(c, WriterShares)
           /\ base' = TRUE /\ stream' = <<>>
           /\ IF base THEN UNCHANGED history ELSE Note(Absent)
           /\ handle' = [handle EXCEPT ![c] = "writer"]
           /\ Goto(c, "body")
           /\ UNCHANGED <<held, request, phase, tries, attempt, expected>>
  <2>1. Writing' /\ stream' \in Seq(Nat)
    BY <1>2 DEF Writing, FInv, IInv, Shapes
  <2>2. \A d \in Clients : churn'[d] = churn[d]
          \/ churn'[d] = IF Getting(d) /\ churn[d] < MaxAttempts THEN churn[d] + 1 ELSE churn[d]
    BY <1>2 DEF history, Note
  <2>3. churn' \in [Clients -> 0..MaxAttempts]
    <3>1. Bounds
      BY DEF FInv, FailureInv
    <3>2. CASE ~base
      BY <1>2, <3>1, <3>2, NoteCounts
    <3>3. CASE base
      BY <1>2, <3>1, <3>3 DEF history, Bounds
    <3> QED BY <3>2, <3>3
  <2>4. Bounds' /\ FileInv'
    BY <1>2, <2>1, <2>3 DEF FInv, FailureInv, Bounds, FileInv
  <2>5. \A d \in Clients : Counts(d)
    BY <2>1, <2>2 DEF Counts
  <2>6. CallInv(c)'
    <3>1. Busy(c) /\ pc'[c] = "body"
      BY <1>2 DEF OpenWriter, Busy, Goto, FInv, IInv, Shapes
    <3>2. churn'[c] \in Nat /\ churn'[c] >= churn[c]
      BY <2>2, <2>3, <3>1, CallFacts
    <3> QED BY <1>2, <2>1, <3>1, <3>2, CallFacts DEF CallInv, Busy, Measured
  <2>7. ASSUME NEW d \in Clients \ {c} PROVE CallInv(d)'
    <3>1. Spares(d)
      BY <1>2, NtfsAssumption DEF Spares, Goto, history, Note, FInv, IInv, Shapes
    <3> QED BY <2>5, <3>1, Frame DEF FInv
  <2> QED BY <2>4, <2>6, <2>7 DEF FailureInv
<1> QED BY <1>1, <1>2 DEF OpenWriter

\* A step that notes a change, seen by the calls that do not take it.
LEMMA NotedFrame ==
  ASSUME FInv, NEW x, Note(x), NEW c, \A d \in Clients \ {c} : pc'[d] = pc[d] /\ answer'[d] = answer[d],
         UNCHANGED <<request, phase, tries, attempt, expected>>
  PROVE  /\ \A d \in Clients \ {c} : CallInv(d)'
         /\ churn' \in [Clients -> 0..MaxAttempts]
<1>1. churn' \in [Clients -> 0..MaxAttempts]
  BY NoteCounts DEF FInv, FailureInv
<1>2. ASSUME NEW d \in Clients \ {c} PROVE CallInv(d)'
  <2>1. Spares(d) /\ Counts(d)
    BY DEF Spares, Counts, Note
  <2> QED BY <2>1, Frame DEF FInv
<1> QED BY <1>1, <1>2

LEMMA DeleteTruth ==
  ASSUME FInv, NEW c \in Clients, Delete(c)
  PROVE  FailureInv'
<1>1. CASE BackOff(c) \/ Refuse(c)
  BY <1>1, BackOffTruth DEF Delete
<1>2. CASE /\ ~Violation(c, WriterShares)
           /\ IF stream = Absent
              THEN Finish(c, Fail("Missing")) /\ UNCHANGED <<stream, history>>
              ELSE Finish(c, Done) /\ stream' = Absent /\ Note(Absent)
           /\ UNCHANGED <<base, held, handle, request, phase, tries, attempt, expected>>
  <2>1. /\ Busy(c) /\ pc[c] = "open" /\ handle[c] = "none"
        /\ phase' \in [Clients -> {"first", "size", "sized"}] /\ attempt' \in [Clients -> 0..MaxAttempts]
        /\ tries' \in [Clients -> 0..Retries-1] /\ DOMAIN expected' = Clients
        /\ handle[c] # "writer" /\ (\E h : handle' = [handle EXCEPT ![c] = h] /\ h # "writer")
        /\ Writing' = Writing
    BY <1>2, NoHandle, NoWriter DEF Delete, Busy, FInv, FailureInv, Bounds
  <2>2. CASE stream = Absent
    <3>1. UNCHANGED <<ntfs, history>> /\ seen'[c] \cap {Absent, Gone} # {}
      BY <1>2, <2>1, <2>2, MissingIsSeen DEF ntfs, history
    <3>2. CallInv(c)' /\ pc' = [pc EXCEPT ![c] = "done"]
          /\ \A d \in Clients \ {c} : answer'[d] = answer[d]
      BY <1>2, <2>2, <3>1, Ends, PlainStatuses
    <3> QED BY <1>2, <2>1, <3>1, <3>2, Local
  <2>3. CASE stream # Absent
    <3>1. Finish(c, Done) /\ stream' = Absent /\ Note(Absent)
      BY <1>2, <2>3
    <3>2. CallInv(c)' /\ \A d \in Clients \ {c} : pc'[d] = pc[d] /\ answer'[d] = answer[d]
      BY <3>1, Ends, PlainStatuses DEF FInv, IInv, Shapes
    <3>3. base /\ ~Writing
      <4>1. \A d \in Clients : handle[d] # "writer"
        BY <1>2, <2>1 DEF Violation, WriterShares
      <4> QED BY <4>1, <2>3 DEF FInv, IInv, Settled, Writing
    <3>4. FileInv'
      BY <1>2, <2>1, <3>1, <3>3 DEF FileInv, Note
    <3>5. /\ \A d \in Clients \ {c} : CallInv(d)'
          /\ churn' \in [Clients -> 0..MaxAttempts]
      BY <1>2, <3>1, <3>2, NotedFrame
    <3>6. Bounds'
      BY <1>2, <2>1, <3>5 DEF FInv, FailureInv, Bounds
    <3> QED BY <3>2, <3>4, <3>5, <3>6 DEF FailureInv
  <2> QED BY <2>2, <2>3
<1> QED BY <1>1, <1>2 DEF Delete

LEMMA SizeQueryTruth ==
  ASSUME FInv, NEW c \in Clients, SizeQuery(c)
  PROVE  FailureInv'
<1> DEFINE r == request[c]
           n == Len(stream)
<1>0. Busy(c) /\ pc[c] = "open" /\ handle[c] # "writer"
  BY NoHandle DEF SizeQuery, Busy, FInv
<1>1. /\ Busy(c) /\ pc[c] = "open" /\ handle[c] # "writer"
      /\ UNCHANGED handle =>
           /\ \E h : handle' = [handle EXCEPT ![c] = h] /\ h # "writer"
           /\ Writing' = Writing
  BY <1>0, NoWriter
<1>2. CASE Refuse(c)
  BY <1>1, <1>2, BackOffTruth
<1>3. CASE /\ stream = Absent
           /\ Finish(c, Fail("Missing"))
           /\ UNCHANGED <<phase, expected>>
           /\ UNCHANGED <<ntfs, handle, history, request, tries, attempt>>
  <2>1. seen'[c] \cap {Absent, Gone} # {}
    BY <1>1, <1>3, MissingIsSeen DEF history
  <2>2. CallInv(c)' /\ pc' = [pc EXCEPT ![c] = "done"]
        /\ \A d \in Clients \ {c} : answer'[d] = answer[d]
    BY <1>3, <2>1, Ends, PlainStatuses
  <2> QED BY <1>1, <1>3, <2>2, Local DEF FInv, FailureInv, Bounds
<1>4. ASSUME NEW a, a.status \in Plain, Finish(c, a),
             UNCHANGED <<phase, expected>>,
             UNCHANGED <<ntfs, handle, history, request, tries, attempt>>
      PROVE  FailureInv'
  <2>1. CallInv(c)' /\ pc' = [pc EXCEPT ![c] = "done"]
        /\ \A d \in Clients \ {c} : answer'[d] = answer[d]
    BY <1>4, Ends
  <2> QED BY <1>1, <1>4, <2>1, Local DEF FInv, FailureInv, Bounds
<1>5. CASE /\ stream # Absent /\ r.op = "get" /\ n \in 1..r.limit
           /\ expected' = [expected EXCEPT ![c] = n]
           /\ phase' = [phase EXCEPT ![c] = "sized"]
           /\ Goto(c, "base")
           /\ UNCHANGED <<ntfs, handle, history, request, tries, attempt>>
  <2>1. /\ phase' \in [Clients -> {"first", "size", "sized"}] /\ DOMAIN expected' = Clients
        /\ attempt' \in [Clients -> 0..MaxAttempts] /\ tries' \in [Clients -> 0..Retries-1]
        /\ phase'[c] = "sized" /\ expected'[c] = n /\ pc'[c] = "base"
        /\ pc' = [pc EXCEPT ![c] = "base"] /\ answer' = answer
        /\ \A d \in Clients \ {c} : phase'[d] = phase[d] /\ attempt'[d] = attempt[d]
                                    /\ expected'[d] = expected[d]
    BY <1>5 DEF FInv, FailureInv, Bounds, IInv, Shapes, Goto
  <2>2. Measured(c)'
    <3>1. n \in Nat
      BY <1>1, <1>5, CallFacts
    <3>2. stream' = stream
      BY <1>5 DEF ntfs
    <3> QED BY <1>5, <2>1, <3>1, <3>2 DEF Measured
  <2>3. CallInv(c)'
    <3>1. UNCHANGED <<request, attempt, churn>>
      BY <1>5 DEF history
    <3> QED BY <1>1, <1>5, <2>1, <2>2, <3>1, CallFacts DEF CallInv, Busy
  <2> QED BY <1>1, <1>5, <2>1, <2>3, Local
<1>6. \/ Refuse(c)
      \/ /\ stream = Absent
         /\ Finish(c, Fail("Missing"))
         /\ UNCHANGED <<phase, expected>>
         /\ UNCHANGED <<ntfs, handle, history, request, tries, attempt>>
      \/ /\ \/ Finish(c, Sized(n)) \/ Finish(c, Read(<<>>))
            \/ Finish(c, Fail("BufferTooSmall")) \/ Finish(c, Fail("TooLarge"))
         /\ UNCHANGED <<phase, expected>>
         /\ UNCHANGED <<ntfs, handle, history, request, tries, attempt>>
      \/ /\ stream # Absent /\ r.op = "get" /\ n \in 1..r.limit
         /\ expected' = [expected EXCEPT ![c] = n]
         /\ phase' = [phase EXCEPT ![c] = "sized"]
         /\ Goto(c, "base")
         /\ UNCHANGED <<ntfs, handle, history, request, tries, attempt>>
  BY DEF SizeQuery
<1>7. /\ Sized(n).status \in Plain /\ Read(<<>>).status \in Plain
      /\ Fail("BufferTooSmall").status \in Plain /\ Fail("TooLarge").status \in Plain
  BY PlainStatuses DEF Plain
<1> QED BY <1>2, <1>3, <1>4, <1>5, <1>6, <1>7

LEMMA ReadBodyTruth ==
  ASSUME FInv, NEW c \in Clients, ReadBody(c)
  PROVE  FailureInv'
<1>1. /\ Busy(c) /\ pc[c] = "body" /\ handle[c] = "reader" /\ handle[c] # "writer"
      /\ handle' = [handle EXCEPT ![c] = "none"]
      /\ UNCHANGED <<ntfs, history, request, tries, expected>>
  BY DEF ReadBody, Busy, Close, CloseHandle
<1>2. /\ \E h : handle' = [handle EXCEPT ![c] = h] /\ h # "writer"
      /\ tries' \in [Clients -> 0..Retries-1] /\ DOMAIN expected' = Clients
  <2>1. "none" # "writer"
    OBVIOUS
  <2>2. \E h : handle' = [handle EXCEPT ![c] = h] /\ h # "writer"
    BY <1>1, <2>1, Zenon
  <2> QED BY <1>1, <2>2 DEF FInv, FailureInv, Bounds
<1>3. ASSUME NEW a, a.status \in Plain, Finish(c, a), UNCHANGED <<phase, attempt>>
      PROVE  FailureInv'
  <2>1. CallInv(c)' /\ pc' = [pc EXCEPT ![c] = "done"]
        /\ \A d \in Clients \ {c} : answer'[d] = answer[d]
    BY <1>3, Ends
  <2>2. phase' \in [Clients -> {"first", "size", "sized"}] /\ attempt' \in [Clients -> 0..MaxAttempts]
    BY <1>3 DEF FInv, FailureInv, Bounds
  <2> QED BY <1>1, <1>2, <1>3, <2>1, <2>2, Local
<1>4. CASE Len(stream) > Room(c) /\ TooSmall(c)
  <2>1. CASE request[c].op = "getInto"
    <3>1. Finish(c, Fail("BufferTooSmall")) /\ UNCHANGED <<phase, attempt>>
      BY <1>4, <2>1 DEF TooSmall
    <3> QED BY <1>3, <3>1, PlainStatuses DEF Plain
  <2>2. CASE request[c].op # "getInto"
    <3> DEFINE counted == IF phase[c] = "sized" THEN attempt[c] + 1 ELSE attempt[c]
    <3>1. /\ attempt' = [attempt EXCEPT ![c] = counted]
          /\ phase' = [phase EXCEPT ![c] = "size"]
          /\ IF counted < MaxAttempts THEN Goto(c, "base") ELSE Finish(c, Fail("Changed"))
      BY <1>4, <2>2 DEF TooSmall, AttemptLimit
    <3>2. counted \in 0..MaxAttempts /\ counted <= churn[c] /\ churn[c] \in 0..MaxAttempts
      <4>1. CASE phase[c] = "sized"
        <5>1. Room(c) = expected[c] /\ Measured(c)
          BY <1>1, <2>2, <4>1, CallFacts DEF Room
        <5>2. ~Writing
          BY <1>1 DEF Writing, FInv, IInv, HandleInv
        <5>3. churn[c] > attempt[c]
          BY <1>1, <1>4, <5>1, <5>2, CallFacts DEF Measured
        <5> QED BY <1>1, <4>1, <5>3, CallFacts
      <4>2. CASE phase[c] # "sized"
        BY <1>1, <4>2, CallFacts
      <4> QED BY <4>1, <4>2
    <3>3. /\ phase' \in [Clients -> {"first", "size", "sized"}] /\ attempt' \in [Clients -> 0..MaxAttempts]
          /\ attempt'[c] = counted /\ phase'[c] = "size"
          /\ \A d \in Clients \ {c} : phase'[d] = phase[d] /\ attempt'[d] = attempt[d]
      BY <3>1, <3>2 DEF FInv, FailureInv, Bounds
    <3>4. UNCHANGED churn /\ UNCHANGED request
      BY <1>1 DEF history
    <3>5. CASE counted < MaxAttempts
      <4>1. /\ pc' = [pc EXCEPT ![c] = "base"] /\ pc'[c] = "base"
            /\ \A d \in Clients \ {c} : answer'[d] = answer[d]
        BY <3>1, <3>5 DEF Goto, FInv, IInv, Shapes
      <4>2. CallInv(c)'
        BY <1>1, <3>2, <3>3, <3>4, <3>5, <4>1, CallFacts DEF CallInv, Busy
      <4> QED BY <1>1, <1>2, <3>3, <4>1, <4>2, Local
    <3>6. CASE ~(counted < MaxAttempts)
      <4>1. churn'[c] = MaxAttempts
        BY <3>2, <3>4, <3>6, NtfsAssumption
      <4>2. CallInv(c)' /\ pc' = [pc EXCEPT ![c] = "done"]
            /\ \A d \in Clients \ {c} : answer'[d] = answer[d]
        BY <3>1, <3>6, <4>1, Ends, PlainStatuses
      <4> QED BY <1>1, <1>2, <3>3, <4>2, Local
    <3> QED BY <3>5, <3>6
  <2> QED BY <2>1, <2>2
<1>5. CASE \/ Finish(c, Fail("TooLarge")) /\ UNCHANGED <<phase, attempt>>
           \/ Finish(c, Read(stream)) /\ UNCHANGED <<phase, attempt>>
           \/ \E status \in Faults : Finish(c, Fail(status)) /\ UNCHANGED <<phase, attempt>>
  <2>1. Fail("TooLarge").status \in Plain /\ Read(stream).status \in Plain
        /\ \A status \in Faults : Fail(status).status \in Plain
    BY PlainStatuses DEF Plain
  <2> QED BY <1>3, <1>5, <2>1
<1> QED BY <1>4, <1>5 DEF ReadBody

LEMMA WriteChunkTruth ==
  ASSUME FInv, NEW c \in Clients, WriteChunk(c)
  PROVE  FailureInv'
<1>1. /\ handle[c] = "writer" /\ Busy(c) /\ Writing /\ Writing'
      /\ UNCHANGED <<base, held, handle, current, seen, churn>>
      /\ UNCHANGED <<request, answer, pc, phase, tries, attempt, expected>>
  BY DEF WriteChunk, Busy, Writing, history, callVars
<1>2. stream' \in Seq(Nat)
  <2> DEFINE v == request[c].value
  <2>1. PICK n \in Len(stream)+1 .. Len(v) : stream' = SubSeq(v, 1, n)
    BY DEF WriteChunk
  <2>2. v \in Seq(Nat) /\ Len(stream) \in Nat
    BY <1>1, CallFacts DEF FInv, FailureInv, FileInv
  <2>3. n \in 1..Len(v)
    BY <2>1, <2>2
  <2>4. ASSUME NEW i \in 1..n PROVE v[i] \in Nat
    <3>1. i \in 1..Len(v)
      BY <2>2, <2>3
    <3> HIDE DEF v
    <3> QED BY <2>2, <3>1, ElementOfSeq
  <2> QED BY <2>1, <2>3, <2>4, SubSeqProperties
<1>3. Bounds' /\ FileInv'
  BY <1>1, <1>2 DEF FInv, FailureInv, Bounds, FileInv, Settled, IInv
<1>4. ASSUME NEW d \in Clients PROVE CallInv(d)'
  BY <1>1, Frame DEF FInv, Spares, Counts
<1> QED BY <1>3, <1>4 DEF FailureInv

LEMMA EndWriteTruth ==
  ASSUME FInv, NEW c \in Clients, EndWrite(c)
  PROVE  FailureInv'
<1>1. /\ pc[c] = "body" /\ handle[c] = "writer" /\ Note(stream)
      /\ handle' = [handle EXCEPT ![c] = "none"]
      /\ UNCHANGED <<base, stream, held, request, phase, tries, attempt, expected>>
  BY DEF EndWrite, Close, CloseHandle, ntfs
<1>2. PICK a : Finish(c, a) /\ a.status \in Plain
  <2>1. Done.status \in Plain /\ \A s \in Faults \cup {"TooLarge", "Io"} : Fail(s).status \in Plain
    BY PlainStatuses DEF Plain
  <2> QED BY <2>1 DEF EndWrite
<1>3. CallInv(c)' /\ \A d \in Clients \ {c} : pc'[d] = pc[d] /\ answer'[d] = answer[d]
  BY <1>2, Ends DEF FInv, IInv, Shapes
<1>4. base /\ ~Writing'
  BY <1>1 DEF Writing, FInv, IInv, Settled, HandleInv, Shapes
<1>5. /\ \A d \in Clients \ {c} : CallInv(d)'
      /\ churn' \in [Clients -> 0..MaxAttempts]
  BY <1>1, <1>3, NotedFrame
<1>6. Bounds' /\ FileInv'
  BY <1>1, <1>4, <1>5 DEF FInv, FailureInv, Bounds, FileInv, Note
<1> QED BY <1>3, <1>5, <1>6 DEF FailureInv

LEMMA EndTruth ==
  ASSUME FInv, NEW c \in Clients, End(c)
  PROVE  FailureInv'
<1>1. /\ UNCHANGED <<base, stream, held, handle, current>> /\ Writing' = Writing
      /\ pc'[c] = "idle" /\ attempt'[c] = 0
      /\ \A d \in Clients \ {c} : Spares(d) /\ churn'[d] = churn[d]
  BY DEF End, Idle, ntfs, Writing, Spares, FInv, IInv, Shapes, FailureInv, Bounds
<1>2. Bounds'
  BY <1>1, NtfsAssumption DEF End, Idle, FInv, FailureInv, Bounds
<1>3. FileInv'
  BY <1>1 DEF FInv, FailureInv, FileInv
<1>4. CallInv(c)'
  BY <1>1 DEF CallInv, Busy
<1>5. ASSUME NEW d \in Clients \ {c} PROVE CallInv(d)'
  BY <1>1, Frame DEF FInv, Counts
<1> QED BY <1>2, <1>3, <1>4, <1>5 DEF FailureInv

\* A writer that dies leaves what it had written, and its death counts.
LEMMA CrashTruth ==
  ASSUME FInv, NEW c \in Clients, Crash(c)
  PROVE  FailureInv'
<1>1. /\ UNCHANGED <<base, stream, held>> /\ handle' = [handle EXCEPT ![c] = "none"]
      /\ pc'[c] = "idle" /\ attempt'[c] = 0
      /\ current' = IF handle[c] = "writer" THEN stream ELSE current
      /\ \A d \in Clients \ {c} : Spares(d)
  BY DEF Crash, Idle, ntfs, Spares, FInv, IInv, Shapes, FailureInv, Bounds
<1>2. churn' \in [Clients -> 0..MaxAttempts]
  <2>1. churn \in [Clients -> 0..MaxAttempts] /\ MaxAttempts \in Nat
    BY NtfsAssumption DEF FInv, FailureInv, Bounds
  <2>2. churn' = [d \in Clients |-> IF d = c THEN 0
                                   ELSE IF handle[c] = "writer" /\ Getting(d) /\ churn[d] < MaxAttempts
                                   THEN churn[d] + 1 ELSE churn[d]]
    BY DEF Crash
  <2> QED BY <2>1, <2>2
<1>3. Bounds'
  BY <1>1, <1>2, NtfsAssumption DEF Crash, Idle, FInv, FailureInv, Bounds
<1>4. IF handle[c] = "writer" THEN base /\ ~Writing' ELSE Writing' = Writing
  BY <1>1 DEF Writing, FInv, IInv, Settled, HandleInv, Shapes
<1>5. FileInv'
  BY <1>1, <1>4 DEF FInv, FailureInv, FileInv
<1>6. CallInv(c)'
  BY <1>1 DEF CallInv, Busy
<1>7. ASSUME NEW d \in Clients \ {c} PROVE CallInv(d)'
  <2>1. Counts(d)
    BY <1>1, <1>4 DEF Crash, Counts
  <2> QED BY <1>1, <2>1, Frame DEF FInv
<1> QED BY <1>3, <1>5, <1>6, <1>7 DEF FailureInv

LEMMA OutsideTruth ==
  ASSUME FInv, Outside
  PROVE  FailureInv'
<1>1. CASE Hold \/ Release
  <2>1. /\ UNCHANGED <<base, stream, handle, current, seen, churn>> /\ held' \in BOOLEAN
        /\ UNCHANGED <<request, answer, pc, phase, tries, attempt, expected>> /\ Writing' = Writing
    BY <1>1 DEF Hold, Release, history, callVars, Writing
  <2>2. ASSUME NEW d \in Clients PROVE CallInv(d)'
    BY <2>1, Frame DEF FInv, Spares, Counts
  <2> QED BY <2>1, <2>2 DEF FInv, FailureInv, Bounds, FileInv
<1>2. CASE DeleteFile \/ CreateFile
  <2>1. /\ UNCHANGED <<handle, held>> /\ Writing' = Writing
        /\ UNCHANGED <<request, answer, pc, phase, tries, attempt, expected>>
        /\ \E x \in {Absent, Gone} : Note(x)
    BY <1>2 DEF DeleteFile, CreateFile, callVars, Writing
  <2>2. churn' \in [Clients -> 0..MaxAttempts]
    BY <2>1, NoteCounts DEF FInv, FailureInv
  <2>3. FileInv'
    <3>1. ~Writing
      BY <1>2 DEF DeleteFile, CreateFile, Unshared, Writing, FInv, IInv, Settled
    <3> QED BY <1>2, <2>1, <3>1 DEF DeleteFile, CreateFile, Note, FileInv, FInv, IInv, Settled
  <2>4. Bounds'
    BY <1>2, <2>1, <2>2 DEF DeleteFile, CreateFile, FInv, FailureInv, Bounds
  <2>5. ASSUME NEW d \in Clients PROVE CallInv(d)'
    <3>1. Spares(d) /\ Counts(d)
      BY <2>1 DEF Spares, Counts, Note
    <3> QED BY <3>1, Frame DEF FInv
  <2> QED BY <2>3, <2>4, <2>5 DEF FailureInv
<1> QED BY <1>1, <1>2 DEF Outside

LEMMA FailureInvStep == IInv /\ FailureInv /\ [Next]_vars => FailureInv'
<1> SUFFICES ASSUME FInv, [Next]_vars PROVE FailureInv'
  BY DEF FInv
<1>1. CASE UNCHANGED vars
  <2>1. Writing' = Writing
    BY <1>1 DEF vars, Writing
  <2>2. ASSUME NEW d \in Clients PROVE CallInv(d)'
    BY <1>1, <2>1, Frame DEF FInv, Spares, Counts, vars, ntfs, history, callVars
  <2> QED BY <1>1, <2>1, <2>2 DEF vars, ntfs, history, callVars, FInv, FailureInv, Bounds, FileInv
<1>2. CASE Outside
  BY <1>2, OutsideTruth
<1>3. ASSUME NEW c \in Clients, Step(c) PROVE FailureInv'
  BY <1>3, RequireBaseTruth, OpenReaderTruth, OpenWriterTruth, DeleteTruth, SizeQueryTruth,
     ReadBodyTruth, WriteChunkTruth, EndWriteTruth DEF Step
<1>4. ASSUME NEW c \in Clients, End(c) \/ Crash(c) \/ \E r \in Requests[c] : Begin(c, r)
      PROVE  FailureInv'
  BY <1>4, EndTruth, CrashTruth, BeginTruth
<1> QED BY <1>1, <1>2, <1>3, <1>4 DEF Next

\* Both layers of the invariant hold throughout.
THEOREM Invariance == Spec => [](IInv /\ FailureInv)
<1>1. Init => IInv /\ FailureInv
  BY IInvInit, FailureInvInit
<1>2. IInv /\ FailureInv /\ [Next]_vars => IInv' /\ FailureInv'
  BY IInvStep, FailureInvStep
<1> QED BY <1>1, <1>2, PTL DEF Spec

\* Both retry loops keep their bounds, a handle is open exactly inside a
\* body, and without the file there is no stream.
THEOREM TypeCorrect == Spec => []TypeOK
<1>1. IInv /\ FailureInv => TypeOK
  BY DEF IInv, Shapes, Settled, HandleInv, FailureInv, Bounds, TypeOK
<1> QED BY <1>1, Invariance, PTL

\* A file reported missing was gone during the call, a stream reported
\* missing was absent during it, and getWith gives up only after
\* max_get_attempts changes by others, though it measures streams that are
\* being written.
THEOREM FailuresTrue == Spec => []FailuresHold
<1>1. IInv /\ FailureInv => FailuresHold
  BY DEF FailureInv, CallInv, Truthful, FailuresHold
<1> QED BY <1>1, Invariance, PTL
=============================================================================
