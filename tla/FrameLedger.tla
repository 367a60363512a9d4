----------------------------- MODULE FrameLedger -----------------------------
(***************************************************************************)
(* What the orchestrator promises of the frames it takes in: a frame that  *)
(* arrives waits, and leaves once, executed or dropped; nothing leaves     *)
(* that had not arrived and nothing leaves twice.  Frames are numbered in  *)
(* the order of their arrival.                                             *)
(***************************************************************************)
EXTENDS Integers

VARIABLES
  arrived,    \* the number of frames that have arrived
  waiting, executed, dropped    \* the frames in each condition

vars == <<arrived, waiting, executed, dropped>>

Init ==
  /\ arrived = 0
  /\ waiting = {} /\ executed = {} /\ dropped = {}

\* A frame arrives; at a full queue it, or one that waits, is dropped.
Arrive ==
  /\ arrived' = arrived + 1
  /\ \/ /\ waiting' = waiting \cup {arrived + 1}
        /\ UNCHANGED dropped
     \/ \E f \in waiting \cup {arrived + 1} :
          /\ waiting' = (waiting \cup {arrived + 1}) \ {f}
          /\ dropped' = dropped \cup {f}
  /\ UNCHANGED executed

Execute(f) ==
  /\ waiting' = waiting \ {f}
  /\ executed' = executed \cup {f}
  /\ UNCHANGED <<arrived, dropped>>

Drop(f) ==
  /\ waiting' = waiting \ {f}
  /\ dropped' = dropped \cup {f}
  /\ UNCHANGED <<arrived, executed>>

Next == Arrive \/ \E f \in waiting : Execute(f) \/ Drop(f)

Spec == Init /\ [][Next]_vars
=============================================================================
