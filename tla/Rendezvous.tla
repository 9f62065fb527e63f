------------------------------ MODULE Rendezvous ------------------------------
(***************************************************************************)
(* What a synchronization barrier promises its threads: nobody leaves a    *)
(* round before all have entered it, and one thread per round, not more    *)
(* and not less, is told that it is the one.                               *)
(***************************************************************************)
EXTENDS Naturals

CONSTANTS Threads, MaxRounds

VARIABLES entered,  \* the rounds each thread has entered
          left,     \* the rounds each thread has left
          serial    \* the rounds that some thread has left with TRUE

vars == <<entered, left, serial>>

Init ==
  /\ entered = [t \in Threads |-> 0]
  /\ left = [t \in Threads |-> 0]
  /\ serial = 0

Enter(t) ==
  /\ entered[t] = left[t] /\ entered[t] < MaxRounds
  /\ entered' = [entered EXCEPT ![t] = @ + 1]
  /\ UNCHANGED <<left, serial>>

Complete(t) == left[t] < entered[t] /\ \A u \in Threads : entered[u] >= entered[t]

LeaveTrue(t) ==
  /\ Complete(t)
  /\ serial = left[t]
  /\ serial' = serial + 1
  /\ left' = [left EXCEPT ![t] = @ + 1]
  /\ UNCHANGED entered

\* Someone is left to be told TRUE, or has been.
LeaveFalse(t) ==
  /\ Complete(t)
  /\ serial = entered[t] \/ \E u \in Threads \ {t} : left[u] < entered[t]
  /\ left' = [left EXCEPT ![t] = @ + 1]
  /\ UNCHANGED <<entered, serial>>

Next == \E t \in Threads : Enter(t) \/ LeaveTrue(t) \/ LeaveFalse(t)

Spec == Init /\ [][Next]_vars
=============================================================================
