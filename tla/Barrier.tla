-------------------------------- MODULE Barrier --------------------------------
(***************************************************************************)
(* The synchronization barrier of winpr                                    *)
(* (winpr/libwinpr/synch/barrier.c): a counter of the threads that are     *)
(* still missing and two manual-reset events, one for the current round    *)
(* and a dormant one, that the last thread of a round swaps. There is no   *)
(* lock: each access to the SYNCHRONIZATION_BARRIER is an action. A thread *)
(* that is not the last spins until it sees the events swapped, or blocks  *)
(* on the event of its round, or does first the one, then the other.       *)
(***************************************************************************)
EXTENDS Integers, FiniteSets

CONSTANTS Threads,     \* the threads of the barrier
          Processors,  \* Reserved4
          MaxRounds    \* bound on the rounds of a thread

ASSUME BarrierAssumption ==
  /\ IsFiniteSet(Threads) /\ Threads # {}
  /\ Processors \in Nat
  /\ MaxRounds \in Nat

\* Reserved2
Total == Cardinality(Threads)

VARIABLES remaining,   \* Reserved1
          current,     \* Reserved3[0]
          dormant,     \* Reserved3[1]
          signalled,   \* the events that are set
          pc,          \* where each thread is
          flags,       \* dwFlags of its call: "block", "spin" or "none"
          hCurrent,    \* hCurrentEvent of its call
          hDormant,    \* hDormantEvent of its call
          \* History, for the properties
          entered,     \* rounds each thread has entered, that is, counted down
          left,        \* rounds each thread has left
          serial,      \* rounds left with TRUE
          round        \* rounds whose counter was refilled

barrier == <<remaining, current, dormant, signalled>>
locals  == <<flags, hCurrent, hDormant>>
history == <<entered, left, serial, round>>
vars == <<barrier, pc, locals, history>>

\* InitializeSynchronizationBarrier
Init ==
  /\ remaining = Total
  /\ current = 0 /\ dormant = 1
  /\ signalled = {}
  /\ pc = [t \in Threads |-> "out"]
  /\ flags = [t \in Threads |-> "none"]
  /\ hCurrent = [t \in Threads |-> 0] /\ hDormant = [t \in Threads |-> 0]
  /\ entered = [t \in Threads |-> 0] /\ left = [t \in Threads |-> 0]
  /\ serial = 0 /\ round = 0

Goto(t, l) == pc' = [pc EXCEPT ![t] = l]

\* EnterSynchronizationBarrier reads the event of the round ...
Enter(t, f) ==
  /\ pc[t] = "out" /\ entered[t] < MaxRounds
  /\ flags' = [flags EXCEPT ![t] = f]
  /\ hCurrent' = [hCurrent EXCEPT ![t] = current]
  /\ Goto(t, "dormant")
  /\ UNCHANGED <<barrier, hDormant, history>>

\* ... and the other one
ReadDormant(t) ==
  /\ pc[t] = "dormant"
  /\ hDormant' = [hDormant EXCEPT ![t] = dormant]
  /\ Goto(t, "count")
  /\ UNCHANGED <<barrier, flags, hCurrent, history>>

\* InterlockedDecrement, and what the thread does next
Decrement(t) ==
  /\ pc[t] = "count"
  /\ remaining' = remaining - 1
  /\ entered' = [entered EXCEPT ![t] = @ + 1]
  /\ Goto(t, IF remaining' <= 0 THEN "last"
             ELSE IF \/ flags[t] = "spin"
                     \/ remaining' < Processors /\ flags[t] # "block"
             THEN "spin" ELSE "block")
  /\ UNCHANGED <<current, dormant, signalled, locals, left, serial, round>>

Leave(t) ==
  /\ left' = [left EXCEPT ![t] = @ + 1]
  /\ Goto(t, "out")
  /\ UNCHANGED <<locals, entered, round>>

\* The spinning thread sees that the events were swapped.
SpinLeave(t) ==
  /\ pc[t] = "spin" /\ current # hCurrent[t]
  /\ Leave(t)
  /\ UNCHANGED <<barrier, serial>>

\* It does not, and exceeds the spin count.
SpinEnds(t) ==
  /\ pc[t] = "spin" /\ current = hCurrent[t] /\ flags[t] # "spin"
  /\ Goto(t, "block")
  /\ UNCHANGED <<barrier, locals, history>>

\* WaitForSingleObject(hCurrentEvent)
BlockLeave(t) ==
  /\ pc[t] = "block" /\ hCurrent[t] \in signalled
  /\ Leave(t)
  /\ UNCHANGED <<barrier, serial>>

\* Defect for NeverTooMany: the blocked threads are released first.
ResetDormant_SignalsFirst(t) ==
  /\ pc[t] = "last"
  /\ signalled' = (signalled \ {hDormant[t]}) \cup {hCurrent[t]}
  /\ Goto(t, "refill")
  /\ UNCHANGED <<remaining, current, dormant, locals, history>>

\* Defect for ImplementsRendezvous: the event of the last round stays set.
ResetDormant_KeepsEvent(t) ==
  /\ pc[t] = "last"
  /\ Goto(t, "refill")
  /\ UNCHANGED <<barrier, locals, history>>

\* The last thread. ResetEvent(hDormantEvent)
ResetDormant(t) ==
  /\ pc[t] = "last"
  /\ signalled' = signalled \ {hDormant[t]}
  /\ Goto(t, "refill")
  /\ UNCHANGED <<remaining, current, dormant, locals, history>>

\* Reserved1 = Reserved2
Refill(t) ==
  /\ pc[t] = "refill"
  /\ remaining' = Total
  /\ round' = round + 1
  /\ Goto(t, "swap1")
  /\ UNCHANGED <<current, dormant, signalled, locals, entered, left, serial>>

\* Reserved3[1] = hCurrentEvent
SwapDormant(t) ==
  /\ pc[t] = "swap1"
  /\ dormant' = hCurrent[t]
  /\ Goto(t, "swap0")
  /\ UNCHANGED <<remaining, current, signalled, locals, history>>

\* Reserved3[0] = hDormantEvent, which releases the spinning threads
SwapCurrent(t) ==
  /\ pc[t] = "swap0"
  /\ current' = hDormant[t]
  /\ Goto(t, "set")
  /\ UNCHANGED <<remaining, dormant, signalled, locals, history>>

\* Defect for EverybodyLeaves: the event is read again after the swap.
SetCurrent_ReadsAgain(t) ==
  /\ pc[t] = "set"
  /\ signalled' = signalled \cup {current}
  /\ serial' = serial + 1
  /\ Leave(t)
  /\ UNCHANGED <<remaining, current, dormant>>

\* SetEvent(hCurrentEvent), which releases the blocked ones; the result is TRUE
SetCurrent(t) ==
  /\ pc[t] = "set"
  /\ signalled' = signalled \cup {hCurrent[t]}
  /\ serial' = serial + 1
  /\ Leave(t)
  /\ UNCHANGED <<remaining, current, dormant>>

Proceed(t) ==
  \/ ReadDormant(t) \/ Decrement(t) \/ SpinLeave(t) \/ SpinEnds(t) \/ BlockLeave(t)
  \/ ResetDormant(t) \/ Refill(t) \/ SwapDormant(t) \/ SwapCurrent(t) \/ SetCurrent(t)

Next ==
  \E t \in Threads : Proceed(t) \/ \E f \in {"none", "block", "spin"} : Enter(t, f)

Spec == Init /\ [][Next]_vars

\* The threads are scheduled. Nobody has to enter the barrier.
FairSpec == Spec /\ \A t \in Threads : WF_vars(Proceed(t))

-----------------------------------------------------------------------------
\* The event of the k-th round
Event(k) == (k + 1) % 2

TypeOK ==
  /\ remaining \in 0..Total
  /\ current \in {0, 1} /\ dormant \in {0, 1}
  /\ signalled \subseteq {0, 1}
  /\ pc \in [Threads -> {"out", "dormant", "count", "spin", "block", "last", "refill",
                         "swap1", "swap0", "set"}]
  /\ flags \in [Threads -> {"none", "block", "spin"}]
  /\ hCurrent \in [Threads -> {0, 1}] /\ hDormant \in [Threads -> {0, 1}]
  /\ entered \in [Threads -> 0..MaxRounds] /\ left \in [Threads -> 0..MaxRounds]
  /\ serial \in Nat /\ round \in Nat

Before   == {"out", "dormant", "count"}        \* not counted
Waiting  == {"spin", "block"}
Closing  == {"last", "refill"}                 \* the last thread, before the refill
Swapping == {"swap1", "swap0"}                 \* after it, with the old current event

\* The threads counted in the round that is being collected
Arrived == {t \in Threads : entered[t] = round + 1}

\* Where a thread is tells which rounds it has entered and left.
RoundsInv ==
  \A t \in Threads :
     /\ pc[t] \in Before => entered[t] = left[t] /\ left[t] = round
     /\ pc[t] \in {"dormant", "count"} => entered[t] < MaxRounds
     /\ pc[t] \in Waiting => left[t] = entered[t] - 1 /\ entered[t] \in {round, round + 1}
     /\ pc[t] \in Closing => left[t] = round /\ entered[t] = round + 1
     /\ pc[t] \in Swapping \cup {"set"} => left[t] = round - 1 /\ entered[t] = round

\* The counter counts the threads that are missing; the last one comes last.
CountInv ==
  /\ remaining = Total - Cardinality(Arrived)
  /\ \A t \in Threads : pc[t] \in Closing => remaining = 0

\* One thread at a time closes a round. While it swaps the events nobody has left
\* the round, and a round nobody is closing has the event of its number.
LastInv ==
  /\ \A t, u \in Threads :
       pc[t] \in Closing \cup Swapping \cup {"set"} /\ pc[u] \in Closing \cup Swapping \cup {"set"}
         => t = u
  /\ remaining = 0 => \E t \in Threads : pc[t] \in Closing
  /\ \A t \in Threads : pc[t] \in Swapping => \A u \in Threads : left[u] = round - 1
  /\ serial = IF \E t \in Threads : pc[t] \in Swapping \cup {"set"} THEN round - 1 ELSE round

\* Which event is which, and which are set. The event of the last round is set
\* for its blocked threads until everyone has arrived at the next; the event of
\* this round is not.
EventInv ==
  /\ current = IF \E t \in Threads : pc[t] \in Swapping THEN Event(round) ELSE Event(round + 1)
  /\ dormant = IF \E t \in Threads : pc[t] = "swap1" THEN Event(round + 1) ELSE Event(round)
  /\ \A t \in Threads :
       /\ pc[t] # "out" => hCurrent[t] = Event(left[t] + 1)
       /\ pc[t] \notin {"out", "dormant"} => hDormant[t] = Event(left[t])
  /\ Event(round + 1) \notin signalled
  /\ Event(round) \in signalled => \A t \in Threads : pc[t] \notin Swapping \cup {"set"}
  /\ \A t \in Threads : pc[t] = "refill" => Event(round) \notin signalled
  /\ \A t \in Threads : pc[t] \in Waiting /\ entered[t] = round
       => Event(round) \in signalled \/ \E u \in Threads : pc[u] \in Swapping \cup {"set"}

\* The inductive invariant of the barrier: counter, events and the unlocked
\* copies of the events in the threads agree on the round each thread is in.
IInv == TypeOK /\ RoundsInv /\ CountInv /\ LastInv /\ EventInv

\* "WINPR_ASSERT(remainingThreads >= 0)": no thread is counted in a round that is
\* complete, although the counter is refilled without a lock.
NeverTooMany == remaining >= 0

R == INSTANCE Rendezvous

\* The barrier lets nobody out of a round before everyone is in it, though
\* fast threads are already in the next one while slow ones are about to wait
\* on the event of the last, and tells exactly one thread per round TRUE.
ImplementsRendezvous == R!Spec

\* When all threads have entered a round, all of them leave it, the spinning
\* and the blocked ones: no wake-up is lost when the events are swapped.
EverybodyLeaves ==
  \A k \in 1..MaxRounds :
     (\A t \in Threads : entered[t] >= k) ~> (\A t \in Threads : left[t] >= k)
=============================================================================
