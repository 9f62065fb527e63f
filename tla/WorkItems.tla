------------------------------- MODULE WorkItems -------------------------------
(***************************************************************************)
(* What the work objects of winpr (winpr/include/winpr/pool.h) promise to  *)
(* those that use them, without threads, queues or events: no submission   *)
(* of a work object runs its callback twice, the wait for the callbacks    *)
(* returns only when those submitted by the caller have run, and a work    *)
(* object is there for as long as a callback may use it: until the caller  *)
(* has waited, or until its last callback closes it.                       *)
(***************************************************************************)
EXTENDS Naturals

CONSTANTS Clients,    \* the threads that submit work, each with a work object
          MaxSubmits  \* the most submissions of a client

VARIABLES live,       \* the clients whose work object exists
          submitted,  \* the submissions of each client so far
          runs,       \* how often the callback of a submission has run
          waited      \* the clients that have waited since they submitted

vars == <<live, submitted, runs, waited>>

Instances == Clients \X (1..MaxSubmits)

Init ==
  /\ live = {} /\ waited = {}
  /\ submitted = [c \in Clients |-> 0]
  /\ runs = [i \in Instances |-> 0]

Create(c) ==
  /\ c \notin live
  /\ live' = live \cup {c}
  /\ UNCHANGED <<submitted, runs, waited>>

Submit(c) ==
  /\ c \in live /\ submitted[c] < MaxSubmits
  /\ submitted' = [submitted EXCEPT ![c] = @ + 1]
  /\ waited' = waited \ {c}
  /\ UNCHANGED <<live, runs>>

\* The callback of the n-th submission of c
Run(c, n) ==
  /\ c \in live
  /\ n <= submitted[c] /\ runs[<<c, n>>] = 0
  /\ runs' = [runs EXCEPT ![<<c, n>>] = 1]
  /\ UNCHANGED <<live, submitted, waited>>

\* The callback of the only submission of c that has not run closes the work
\* object.
RunAndClose(c, n) ==
  /\ c \in live
  /\ n <= submitted[c] /\ runs[<<c, n>>] = 0
  /\ \A m \in 1..submitted[c] : m # n => runs[<<c, m>>] = 1
  /\ runs' = [runs EXCEPT ![<<c, n>>] = 1]
  /\ live' = live \ {c}
  /\ UNCHANGED <<submitted, waited>>

Wait(c) ==
  /\ c \in live
  /\ \A n \in 1..submitted[c] : runs[<<c, n>>] = 1
  /\ waited' = waited \cup {c}
  /\ UNCHANGED <<live, submitted, runs>>

Close(c) ==
  /\ c \in live \cap waited
  /\ live' = live \ {c}
  /\ waited' = waited \ {c}
  /\ UNCHANGED <<submitted, runs>>

Next ==
  \E c \in Clients :
     \/ Create(c) \/ Submit(c) \/ Wait(c) \/ Close(c)
     \/ \E n \in 1..MaxSubmits : Run(c, n) \/ RunAndClose(c, n)

Spec == Init /\ [][Next]_vars
=============================================================================
