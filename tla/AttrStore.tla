------------------------------ MODULE AttrStore ------------------------------
(***************************************************************************)
(* What the attribute API of src/rust/src/lib.rs promises about one        *)
(* attribute of one path, whatever adapter carries it out: a cell that     *)
(* calls read and replace atomically.  A read answers with something the   *)
(* cell really held while the call ran; a write replaces the cell once, in *)
(* one step, before it answers; a call that gives up because the cell kept *)
(* changing has at least MaxAttempts writes of others to show for it.      *)
(*                                                                         *)
(* PosixCore implements this module: its property Atomic is Store!Spec.    *)
(***************************************************************************)
EXTENDS AttrCalls

VARIABLES
  cell,    \* what the filesystem holds for the attribute
  request, \* the call each client is in
  seen,    \* history: everything the cell held since that call began
  churn,   \* history: writes since that call began, counted to MaxAttempts
  answer   \* what the call will return

vars == <<cell, request, seen, churn, answer>>

Busy(c) == request[c] # NoRequest /\ answer[c] = NoAnswer

(***************************************************************************)
(* Every step that replaces the cell is witnessed by every open call.      *)
(***************************************************************************)
Replace(x) ==
  /\ cell' = x
  /\ seen' = [c \in Clients |-> IF Busy(c) THEN seen[c] \cup {x} ELSE seen[c]]
  /\ churn' = [c \in Clients |->
                 IF Busy(c) /\ churn[c] < MaxAttempts THEN churn[c] + 1 ELSE churn[c]]

Begin(c, r) ==
  /\ request[c] = NoRequest
  /\ request' = [request EXCEPT ![c] = r]
  /\ seen' = [seen EXCEPT ![c] = {cell}]
  /\ UNCHANGED <<cell, churn, answer>>

AnswerRead(c) ==
  /\ Busy(c)
  /\ \E a \in MayAnswer(request[c], seen[c], churn[c]) :
       answer' = [answer EXCEPT ![c] = a]
  /\ UNCHANGED <<cell, request, seen, churn>>

Set(c) ==
  /\ Busy(c)
  /\ request[c].op = "set" /\ request[c].args = "ok"
  /\ cell # Gone
  /\ LenOf[request[c].value] <= request[c].limit
  /\ Replace(request[c].value)
  /\ answer' = [answer EXCEPT ![c] = Done]
  /\ UNCHANGED request

Remove(c) ==
  /\ Busy(c)
  /\ request[c].op = "remove" /\ request[c].args = "ok"
  /\ cell \in Values
  /\ Replace(Absent)
  /\ answer' = [answer EXCEPT ![c] = Done]
  /\ UNCHANGED request

End(c) ==
  /\ request[c] # NoRequest /\ answer[c] # NoAnswer
  /\ request' = [request EXCEPT ![c] = NoRequest]
  /\ answer' = [answer EXCEPT ![c] = NoAnswer]
  /\ seen' = [seen EXCEPT ![c] = {}]
  /\ churn' = [churn EXCEPT ![c] = 0]
  /\ UNCHANGED cell

\* Another process writes, deletes the attribute, or moves the path.
Outside(x) == x # cell /\ Replace(x) /\ UNCHANGED <<request, answer>>

Init ==
  /\ cell \in Contents
  /\ request = [c \in Clients |-> NoRequest]
  /\ seen = [c \in Clients |-> {}]
  /\ churn = [c \in Clients |-> 0]
  /\ answer = [c \in Clients |-> NoAnswer]

Next ==
  \/ \E c \in Clients :
       \/ \E r \in Requests : Begin(c, r)
       \/ AnswerRead(c) \/ Set(c) \/ Remove(c) \/ End(c)
  \/ \E x \in Contents : Outside(x)

Spec == Init /\ [][Next]_vars
=============================================================================
