-------------------------------- MODULE LibIo --------------------------------
(***************************************************************************)
(* libIo of src/src/walk.zig: the process-wide Io that every directory     *)
(* read uses, built by whichever thread gets there first.  io_state is 0   *)
(* before, 1 while one thread builds it and 2 ever after; the others spin. *)
(* One atomic operation per step.                                          *)
(***************************************************************************)
EXTENDS Naturals

CONSTANT Threads

VARIABLES
  io_state,  \* the atomic
  threaded,  \* what the plain variable holds: "undefined", "partial" or "built"
  builder,   \* history: the threads that have built it
  pc         \* where each thread is inside libIo

vars == <<io_state, threaded, builder, pc>>

Goto(t, label) == pc' = [pc EXCEPT ![t] = label]

\* A call of libIo, and its first load.
Enter(t) ==
  /\ pc[t] = "outside"
  /\ Goto(t, IF io_state = 2 THEN "use" ELSE "race")
  /\ UNCHANGED <<io_state, threaded, builder>>

\* cmpxchgStrong(0, 1): null, that is success, for exactly one thread.
Race(t) ==
  /\ pc[t] = "race"
  /\ IF io_state = 0
     THEN io_state' = 1 /\ Goto(t, "build")
     ELSE Goto(t, "spin") /\ UNCHANGED io_state
  /\ UNCHANGED <<threaded, builder>>

\* Threaded.init fills a struct, which is not one operation: begun ...
Build(t) ==
  /\ pc[t] = "build"
  /\ threaded' = "partial"
  /\ builder' = builder \cup {t}
  /\ Goto(t, "finish")
  /\ UNCHANGED io_state

\* ... and complete.
FinishBuild(t) ==
  /\ pc[t] = "finish"
  /\ threaded' = "built"
  /\ Goto(t, "publish")
  /\ UNCHANGED <<io_state, builder>>

StillBuilding == 1
Ready         == 2

\* store(2, .release)
Publish(t) ==
  /\ pc[t] = "publish"
  /\ io_state' = Ready
  /\ Goto(t, "use")
  /\ UNCHANGED <<threaded, builder>>

SomeoneBuilds == io_state # 0
SpinDone      == io_state = 2

\* load(.acquire) until it says 2.
Spin(t) ==
  /\ pc[t] = "spin"
  /\ IF SpinDone THEN Goto(t, "use") ELSE UNCHANGED pc
  /\ UNCHANGED <<io_state, threaded, builder>>

\* threaded.io() is taken, and the directory read made with it is over.
Leave(t) ==
  /\ pc[t] = "use"
  /\ Goto(t, "outside")
  /\ UNCHANGED <<io_state, threaded, builder>>

Init ==
  /\ io_state = 0
  /\ threaded = "undefined"
  /\ builder = {}
  /\ pc = [t \in Threads |-> "outside"]

Step(t) == Race(t) \/ Build(t) \/ FinishBuild(t) \/ Publish(t) \/ Spin(t)

Next == \E t \in Threads : Enter(t) \/ Step(t) \/ Leave(t)

Spec == Init /\ [][Next]_vars

\* A thread inside libIo is scheduled again.  One that spins gives the others
\* no other help than that.
FairSpec == Spec /\ \A t \in Threads : WF_vars(Step(t))

-----------------------------------------------------------------------------
(* Properties                                                              *)

Building == {"build", "finish", "publish"}

\* Types.
TypeOK ==
  /\ io_state \in 0..2
  /\ threaded \in {"undefined", "partial", "built"}
  /\ builder \subseteq Threads
  /\ pc \in [Threads -> {"outside", "race", "build", "finish", "publish", "spin", "use"}]

\* Whoever uses the Io uses one that is completely built, and nobody builds it
\* again afterwards, under a thread that is using it.
UsedWhenBuilt ==
  /\ \A t \in Threads : pc[t] = "use" => threaded = "built"
  /\ \A s, t \in builder : s = t

\* No spinner spins for ever: the builder needs nothing the spinners hold.
EveryoneUses == \A t \in Threads : pc[t] = "race" ~> pc[t] = "use"
=============================================================================
