------------------------ MODULE MultiClientEventProofs ------------------------
(***************************************************************************)
(* Proofs about the multi-client event for any finite set of clients: its  *)
(* counters and events are those of the round in progress, the assertions  *)
(* of the code hold, the server waits for all, and the code implements the *)
(* rounds of FrameRounds.                                                  *)
(***************************************************************************)
EXTENDS MultiClientEvent, FiniteSetTheorems, TLAPS

\* The sets that are counted are finite and empty exactly when their size is 0.
LEMMA Finite ==
  ASSUME NEW S, S \subseteq Clients
  PROVE  /\ IsFiniteSet(S)
         /\ Cardinality(S) \in Nat
         /\ S = {} <=> Cardinality(S) = 0
<1>1. IsFiniteSet(S)
  BY ClientsAssumption, FS_Subset
<1> QED
  BY <1>1, FS_CardinalityType, FS_EmptySet

\* Adding a client to a set, or taking one out, changes its size by one.
LEMMA AddRemove ==
  ASSUME NEW S, S \subseteq Clients, NEW c \in Clients
  PROVE  /\ c \notin S => Cardinality(S \cup {c}) = Cardinality(S) + 1
         /\ c \in S => Cardinality(S \ {c}) = Cardinality(S) - 1
BY Finite, FS_AddElement, FS_RemoveElement

\* Initially nobody is registered and doneEvent is set.
LEMMA InitIInv == Init => IInv
<1> SUFFICES ASSUME Init PROVE IInv
  OBVIOUS
<1>1. Pending = {} /\ AtBarrier = {}
  BY DEF Init, Pending, AtBarrier, event
<1>2. Cardinality({}) = 0
  BY FS_EmptySet
<1>3. TypeOK
  BY DEF Init, TypeOK
<1>6. AssertionsHold
  BY DEF Init, AssertionsHold
<1>4. CountersInv
  BY <1>1, <1>2 DEF Init, CountersInv
<1>5. EventsInv
  BY <1>1 DEF Init, EventsInv, event, barrierEvent, doneEvent
<1> QED
  BY <1>3, <1>4, <1>5, <1>6 DEF IInv

\* What the invariant says of the counted sets: a zero count is an empty set.
LEMMA Counts ==
  ASSUME IInv
  PROVE  /\ Pending \subseteq Clients /\ AtBarrier \subseteq Clients
         /\ consuming \in Nat /\ waiting \in Nat
         /\ consuming = 0 <=> Pending = {}
         /\ waiting = 0 <=> AtBarrier = {}
         /\ consuming = 0 <=> ~event
<1>1. Pending \subseteq Clients /\ AtBarrier \subseteq Clients
  BY DEF IInv, TypeOK, Pending, AtBarrier
<1> QED
  BY <1>1, Finite DEF IInv, CountersInv, EventsInv

\* _Publish under the lock: every registered client gets a share. Nobody is in
\* the barrier, so all of them are in their loops.
LEMMA PublishAndWaitIInv == IInv /\ PublishAndWait => IInv'
<1> SUFFICES ASSUME IInv, PublishAndWait PROVE IInv'
  OBVIOUS
<1> USE DEF PublishAndWait, Publish, WINPR_ASSERT
<1>1. /\ signalled = {"done"}
      /\ Pending = {} /\ AtBarrier = {} /\ consuming = 0 /\ waiting = 0
  BY Counts DEF IInv, TypeOK, EventsInv, event, barrierEvent, doneEvent
<1>2. Cardinality(subscribers) \in Nat /\ (subscribers = {} <=> Cardinality(subscribers) = 0)
  BY Finite DEF IInv, TypeOK
<1>3. AtBarrier' = {}
  BY <1>1 DEF AtBarrier
<1>4. consuming' = Cardinality(subscribers)
  BY <1>1, <1>2
<1>5. CASE subscribers = {}
  <2> HIDE DEF PublishAndWait, Publish
  <2>0. consuming' = 0
    BY <1>2, <1>4, <1>5
  <2>1. UNCHANGED signalled /\ pub' = "run" /\ consuming' = 0
    BY <2>0 DEF PublishAndWait, Publish
  <2> USE DEF PublishAndWait, Publish
  <2>2. Pending' = {}
    BY <1>1, <2>1 DEF Pending, event
  <2>3. TypeOK'
    BY <1>1, <2>1 DEF IInv, TypeOK
  <2>6. AssertionsHold'
    BY <1>1, <2>1 DEF IInv, AssertionsHold, event
  <2>4. CountersInv'
    BY <1>1, <1>3, <2>1, <2>2, FS_EmptySet DEF IInv, CountersInv
  <2>5. EventsInv'
    BY <1>1, <1>3, <2>1, <2>2 DEF IInv, EventsInv, event, barrierEvent, doneEvent
  <2> QED
    BY <2>3, <2>4, <2>5, <2>6 DEF IInv
<1>6. CASE subscribers # {}
  <2>1. signalled' = {"event"} /\ pub' = "doneWait" /\ consuming' > 0
    BY <1>1, <1>2, <1>4, <1>6
  <2>2. Pending' = subscribers
    BY <1>1, <2>1 DEF IInv, TypeOK, CountersInv, AtBarrier, Pending, event
  <2>3. TypeOK'
    BY <1>1, <1>2, <1>4, <2>1 DEF IInv, TypeOK
  <2>6. AssertionsHold'
    BY <1>1, <2>1 DEF IInv, AssertionsHold, event
  <2>4. CountersInv'
    BY <1>1, <1>3, <1>4, <2>2, FS_EmptySet DEF IInv, CountersInv
  <2>5. EventsInv'
    BY <1>1, <1>3, <1>6, <2>1, <2>2 DEF IInv, TypeOK, CountersInv, EventsInv, AtBarrier,
       event, barrierEvent, doneEvent
  <2> QED
    BY <2>3, <2>4, <2>5, <2>6 DEF IInv
<1> QED
  BY <1>5, <1>6

\* The server wakes up and returns; only its own position changes.
LEMMA DoneIInv == IInv /\ (DoneWake \/ DoneReturn) => IInv'
<1> SUFFICES ASSUME IInv, DoneWake \/ DoneReturn PROVE IInv'
  OBVIOUS
<1>1. Pending' = Pending /\ AtBarrier' = AtBarrier
  BY DEF DoneWake, DoneReturn, Pending, AtBarrier, event
<1>2. TypeOK'
  BY DEF IInv, TypeOK, DoneWake, DoneReturn, counts, WINPR_ASSERT
<1>3. CountersInv'
  BY <1>1 DEF IInv, CountersInv, DoneWake, DoneReturn, counts
<1>4. EventsInv'
  BY <1>1 DEF IInv, EventsInv, DoneWake, DoneReturn, event, barrierEvent, doneEvent
<1>5. AssertionsHold'
  BY DEF IInv, TypeOK, EventsInv, AssertionsHold, DoneWake, DoneReturn, WINPR_ASSERT,
     event, doneEvent
<1> QED
  BY <1>2, <1>3, <1>4, <1>5 DEF IInv

\* Steps that only move a client between its loop, the frame and the exit: what
\* is counted stays.
LEMMA MoveIInv ==
  ASSUME IInv, NEW c \in Clients, SendFrame(c) \/ LeaveLoop(c)
  PROVE  IInv'
<1> USE DEF SendFrame, LeaveLoop, Goto, counts
<1>1. Pending' = Pending
  BY DEF IInv, TypeOK, Pending, event
<1>2. AtBarrier' = AtBarrier
  BY DEF IInv, TypeOK, AtBarrier
<1>3. TypeOK' /\ AssertionsHold'
  BY DEF IInv, TypeOK, AssertionsHold
<1>4. CountersInv'
  BY <1>1, <1>2 DEF IInv, TypeOK, CountersInv
<1>5. EventsInv'
  BY <1>1, <1>2 DEF IInv, TypeOK, EventsInv, event, barrierEvent, doneEvent
<1> QED
  BY <1>3, <1>4, <1>5 DEF IInv

\* A client wakes at the open barrier: no share is outstanding.
LEMMA BarrierWakeIInv ==
  ASSUME IInv, NEW c \in Clients, BarrierWake(c)
  PROVE  IInv'
<1> USE DEF BarrierWake, Goto, counts
<1>1. Pending' = Pending
  BY DEF IInv, TypeOK, Pending, event
<1>2. AtBarrier' = AtBarrier
  BY DEF IInv, TypeOK, AtBarrier
<1>3. TypeOK' /\ AssertionsHold'
  BY DEF IInv, TypeOK, AssertionsHold
<1>4. CountersInv'
  BY <1>1, <1>2 DEF IInv, TypeOK, CountersInv
<1>5. EventsInv'
  BY <1>1, <1>2 DEF IInv, TypeOK, EventsInv, event, barrierEvent, doneEvent
<1> QED
  BY <1>3, <1>4, <1>5 DEF IInv

\* A client leaves the barrier; the last one closes it and sets doneEvent.
LEMMA BarrierReturnIInv ==
  ASSUME IInv, NEW c \in Clients, BarrierReturn(c)
  PROVE  IInv'
<1> USE DEF BarrierReturn, Goto
<1>1. /\ signalled = {"barrier"} /\ Pending = {} /\ consuming = 0
      /\ c \in AtBarrier /\ AtBarrier' = AtBarrier \ {c} /\ pub = "doneWait"
  BY Counts DEF IInv, TypeOK, EventsInv, AtBarrier, event, barrierEvent, doneEvent
<1>2. /\ waiting' = Cardinality(AtBarrier')
      /\ waiting = 1 <=> AtBarrier' = {}
  <2>1. AtBarrier' \subseteq Clients
    BY DEF AtBarrier
  <2> QED
    BY <1>1, <2>1, Counts, AddRemove, Finite DEF IInv, CountersInv
<1>3. Pending' = {}
  BY <1>1 DEF Pending, event
<1>4. TypeOK'
  <2>1. waiting' \in Int /\ signalled' \subseteq {"barrier", "done"}
    BY <1>1, Counts
  <2> QED
    BY <2>1 DEF IInv, TypeOK
<1>7. AssertionsHold'
  BY DEF IInv, AssertionsHold
<1>5. CountersInv'
  BY <1>1, <1>2, <1>3 DEF IInv, TypeOK, CountersInv
<1>6. EventsInv'
  BY <1>1, <1>2, <1>3 DEF IInv, TypeOK, EventsInv, event, barrierEvent, doneEvent
<1> QED
  BY <1>4, <1>5, <1>6, <1>7 DEF IInv

\* A client registers: during a round it joins the barrier without a share.
LEMMA GetSubscriberIInv ==
  ASSUME IInv, NEW c \in Clients, GetSubscriber(c)
  PROVE  IInv'
<1> USE DEF GetSubscriber, Consume, Goto
<1>1. c \notin subscribers /\ c \notin pleaseHandle /\ c \notin Pending /\ c \notin AtBarrier
  BY DEF IInv, TypeOK, CountersInv, Pending, AtBarrier
<1>2. consuming' = consuming /\ AssertionsHold'
  BY <1>1, Counts DEF IInv, AssertionsHold, WINPR_ASSERT
<1>3. CASE consuming = 0
  <2>1. ~event /\ Pending = {} /\ AtBarrier' = AtBarrier
    BY <1>1, <1>2, <1>3, Counts DEF IInv, TypeOK, AtBarrier
  <2>2. signalled' = signalled \cup {IF waiting > 0 THEN "barrier" ELSE "done"}
    BY <1>1, <1>2, <1>3, <2>1 DEF event
  <2>3. Pending' = {} /\ ~event'
    BY <2>1, <2>2 DEF Pending, event
  <2>4. TypeOK'
    BY <1>2, <1>3, <2>2, Counts DEF IInv, TypeOK, AssertionsHold
  <2>5. CountersInv'
    BY <1>1, <1>2, <1>3, <2>1, <2>3 DEF IInv, TypeOK, CountersInv
  <2>6. EventsInv'
    BY <1>1, <1>3, <2>1, <2>2, <2>3, Counts
    DEF IInv, TypeOK, EventsInv, event, barrierEvent, doneEvent
  <2> QED
    BY <1>2, <2>4, <2>5, <2>6 DEF IInv
<1>4. CASE consuming # 0
  <2>1. /\ event /\ signalled' = signalled /\ waiting' = waiting + 1
        /\ Pending # {} /\ pc' = [pc EXCEPT ![c] = "barrier"]
    BY <1>1, <1>2, <1>4, Counts
  <2>2. AtBarrier' = AtBarrier \cup {c} /\ Pending' = Pending
    BY <1>1, <2>1 DEF IInv, TypeOK, AtBarrier, Pending, event
  <2>3. waiting' = Cardinality(AtBarrier')
    BY <1>1, <2>1, <2>2, Counts, AddRemove DEF IInv, CountersInv
  <2>4. TypeOK'
    BY <1>2, <2>1, Counts DEF IInv, TypeOK, AssertionsHold
  <2>5. CountersInv'
    BY <1>2, <2>1, <2>2, <2>3 DEF IInv, TypeOK, CountersInv
  <2>6. EventsInv'
    BY <1>1, <2>1, <2>2 DEF IInv, TypeOK, EventsInv, event, barrierEvent, doneEvent
  <2> QED
    BY <1>2, <2>4, <2>5, <2>6 DEF IInv
<1> QED
  BY <1>3, <1>4

\* A client that has sent its frame takes its share: it is one of those the
\* server waits for.
LEMMA ConsumeShareIInv ==
  ASSUME IInv, NEW c \in Clients, ConsumeShare(c)
  PROVE  IInv'
<1> USE DEF ConsumeShare, Consume, Goto
<1>1. event /\ c \in pleaseHandle /\ c \in Pending /\ c \notin AtBarrier
  BY DEF IInv, TypeOK, EventsInv, Pending, AtBarrier
<1>2. /\ consuming' = Cardinality(Pending \ {c}) /\ consuming' = consuming - 1
      /\ consuming' \in Nat
      /\ consuming' = 0 <=> Pending \ {c} = {}
  BY <1>1, Counts, AddRemove, Finite DEF IInv, CountersInv
<1>3. AssertionsHold'
  BY <1>1, <1>2, Counts DEF IInv, AssertionsHold, WINPR_ASSERT
<1>4. CASE consuming' = 0
  <2>1. /\ signalled' = (signalled \ {"event"})
                         \cup {IF waiting > 0 THEN "barrier" ELSE "done"}
        /\ waiting' = waiting /\ pc' = [pc EXCEPT ![c] = "loop"]
    BY <1>1, <1>2, <1>4
  <2>2. AtBarrier' = AtBarrier /\ Pending' = {} /\ ~event' /\ Pending \ {c} = {}
    BY <1>1, <1>2, <1>4, <2>1 DEF IInv, TypeOK, AtBarrier, Pending, event
  <2>3. \A d \in Clients : pc[d] = "sending" => d = c
    BY <1>1, <2>2 DEF IInv, EventsInv, Pending
  <2>4. TypeOK'
    BY <1>2, <2>1, <1>3, Counts DEF IInv, TypeOK, AssertionsHold
  <2>5. CountersInv'
    BY <1>2, <1>4, <2>1, <2>2 DEF IInv, TypeOK, CountersInv
  <2>6. EventsInv'
    BY <1>1, <2>1, <2>2, <2>3, Counts
    DEF IInv, TypeOK, EventsInv, event, barrierEvent, doneEvent
  <2> QED
    BY <1>3, <2>4, <2>5, <2>6 DEF IInv
<1>5. CASE consuming' # 0
  <2>1. /\ signalled' = signalled /\ waiting' = waiting + 1
        /\ pc' = [pc EXCEPT ![c] = "barrier"]
    BY <1>1, <1>2, <1>5
  <2>2. AtBarrier' = AtBarrier \cup {c} /\ Pending' = Pending \ {c}
    BY <1>1, <2>1 DEF IInv, TypeOK, AtBarrier, Pending, event
  <2>3. waiting' = Cardinality(AtBarrier')
    BY <1>1, <2>1, <2>2, Counts, AddRemove DEF IInv, CountersInv
  <2>4. TypeOK'
    BY <1>2, <2>1, <1>3, Counts DEF IInv, TypeOK, AssertionsHold
  <2>5. CountersInv'
    BY <1>2, <2>1, <2>2, <2>3 DEF IInv, TypeOK, CountersInv
  <2>6. EventsInv'
    BY <1>1, <1>2, <1>5, <2>1, <2>2
    DEF IInv, TypeOK, EventsInv, event, barrierEvent, doneEvent
  <2> QED
    BY <1>3, <2>4, <2>5, <2>6 DEF IInv
<1> QED
  BY <1>4, <1>5

\* A client that quits gives back the share it may hold, and does not wait.
LEMMA ReleaseSubscriberIInv ==
  ASSUME IInv, NEW c \in Clients, ReleaseSubscriber(c)
  PROVE  IInv'
<1> USE DEF ReleaseSubscriber, Consume, Goto
<1>1. c \notin AtBarrier /\ (event <=> c \in Pending)
  BY DEF IInv, TypeOK, EventsInv, Pending, AtBarrier
<1>2. /\ consuming' = Cardinality(Pending \ {c}) /\ consuming' \in Nat
      /\ consuming' = 0 <=> Pending \ {c} = {}
  <2>1. CASE event
    <3>1. c \in pleaseHandle /\ c \in Pending
      BY <1>1, <2>1 DEF Pending
    <3> QED
      BY <2>1, <3>1, Counts, AddRemove, Finite DEF IInv, CountersInv
  <2>2. CASE ~event
    <3>1. consuming' = 0 /\ Pending \ {c} = {}
      BY <2>2, Counts
    <3>2. Cardinality({}) = 0
      BY FS_EmptySet
    <3> HIDE DEF ReleaseSubscriber, Consume, Goto
    <3> QED
      BY <3>1, <3>2
  <2> QED
    BY <2>1, <2>2
<1>3. AssertionsHold' /\ waiting' = waiting /\ pc' = [pc EXCEPT ![c] = "out"]
  BY <1>2 DEF IInv, AssertionsHold, WINPR_ASSERT
<1>4. AtBarrier' = AtBarrier
  BY <1>1, <1>3 DEF IInv, TypeOK, AtBarrier
<1>5. CASE consuming' = 0
  <2>1. signalled' = (signalled \ {"event"})
                      \cup {IF waiting > 0 THEN "barrier" ELSE "done"}
    BY <1>5
  <2>2. Pending' = {} /\ ~event' /\ Pending \ {c} = {}
    BY <1>2, <1>5, <2>1 DEF Pending, event
  <2>3. \A d \in Clients : pc[d] # "sending"
    BY <2>2 DEF IInv, EventsInv, Pending
  <2>4. TypeOK'
    BY <1>2, <1>3, <2>1, Counts DEF IInv, TypeOK, AssertionsHold
  <2>5. CountersInv'
    BY <1>2, <1>3, <1>4, <1>5, <2>2 DEF IInv, TypeOK, CountersInv
  <2>6. EventsInv'
    BY <1>3, <1>4, <2>1, <2>2, <2>3, Counts
    DEF IInv, TypeOK, EventsInv, event, barrierEvent, doneEvent
  <2> QED
    BY <1>3, <2>4, <2>5, <2>6 DEF IInv
<1>6. CASE consuming' # 0
  <2>1. signalled' = signalled /\ event
    BY <1>1, <1>2, <1>6 DEF IInv, EventsInv
  <2>2. Pending' = Pending \ {c}
    BY <1>3, <2>1 DEF IInv, TypeOK, Pending, event
  <2>3. TypeOK'
    BY <1>2, <1>3, <2>1, Counts DEF IInv, TypeOK, AssertionsHold
  <2>4. CountersInv'
    BY <1>2, <1>3, <1>4, <2>2 DEF IInv, TypeOK, CountersInv
  <2>5. EventsInv'
    BY <1>2, <1>3, <1>4, <1>6, <2>1, <2>2
    DEF IInv, TypeOK, EventsInv, event, barrierEvent, doneEvent
  <2> QED
    BY <1>3, <2>3, <2>4, <2>5 DEF IInv
<1> QED
  BY <1>5, <1>6

\* Every step keeps the invariant.
LEMMA NextIInv == IInv /\ [Next]_vars => IInv'
<1> SUFFICES ASSUME IInv, [Next]_vars PROVE IInv'
  OBVIOUS
<1>1. CASE UNCHANGED vars
  BY <1>1 DEF vars, IInv, TypeOK, CountersInv, EventsInv, AssertionsHold, Pending,
     AtBarrier, event, barrierEvent, doneEvent
<1>2. CASE Server
  BY <1>2, PublishAndWaitIInv, DoneIInv DEF Server
<1>3. ASSUME NEW c \in Clients, GetSubscriber(c) \/ Serve(c) \/ LeaveLoop(c)
      PROVE  IInv'
  BY <1>3, GetSubscriberIInv, MoveIInv, ConsumeShareIInv, BarrierWakeIInv,
     BarrierReturnIInv, ReleaseSubscriberIInv DEF Serve
<1> QED
  BY <1>1, <1>2, <1>3 DEF Next

\* The counters and events of shadow_mcevent.c are those of the round in
\* progress, whoever joins, is late or quits.
THEOREM Invariance == Spec => []IInv
<1> QED
  BY InitIInv, NextIInv, PTL DEF Spec

\* No WINPR_ASSERT of shadow_mcevent.c fails.
THEOREM NoAssertionFails == Spec => []AssertionsHold
<1>1. IInv => AssertionsHold
  BY DEF IInv
<1> QED
  BY <1>1, Invariance, PTL

\* While the subsystem thread runs between two publications, no client thread
\* reads the frame or is held at the barrier.
THEOREM ServerWaits == Spec => []ServerWaitsForAll
<1>1. IInv => ServerWaitsForAll
  BY DEF IInv, EventsInv, ServerWaitsForAll, AtBarrier
<1> QED
  BY <1>1, Invariance, PTL

\* A client that passed the barrier left nobody behind with an unconsumed share.
THEOREM BarrierHolds == Spec => []BarrierIsForAll
<1>1. IInv => BarrierIsForAll
  BY DEF IInv, EventsInv, BarrierIsForAll
<1> QED
  BY <1>1, Invariance, PTL

\* One round of the abstract specification: registering and quitting, a share
\* taken, the round started and ended; all else is invisible to it.
LEMMA StepRefines ==
  ASSUME IInv, IInv', [Next]_vars
  PROVE  [Rounds!Next]_Rounds!vars
<1> USE DEF Goto, counts
<1>0. SUFFICES ASSUME ~ UNCHANGED vars PROVE [Rounds!Next]_Rounds!vars
  BY DEF vars, Rounds!vars, Pending, event
<1>1. CASE PublishAndWait
  <2>1. Pending = {} /\ pub = "run" /\ UNCHANGED subscribers
    BY <1>1, Counts DEF PublishAndWait, Publish, IInv, EventsInv
  <2>2. CASE pub' = "run"
    <3>1. Pending' = {}
      BY <2>2 DEF IInv, EventsInv
    <3> QED
      BY <2>1, <2>2, <3>1 DEF Rounds!vars
  <2>3. CASE pub' # "run"
    <3>1. pub' = "doneWait" /\ consuming' > 0
      BY <1>1, <2>3 DEF PublishAndWait
    <3>2. Pending' # {} /\ event' /\ pleaseHandle' = subscribers /\ pc' = pc
      BY <1>1, <3>1 DEF PublishAndWait, Publish, event, IInv, EventsInv
    <3>3. AtBarrier = {} /\ subscribers = {c \in Clients : pc[c] # "out"}
      BY <2>1 DEF IInv, EventsInv, CountersInv
    <3>4. Pending' = subscribers
      BY <3>2, <3>3 DEF Pending, AtBarrier, IInv, TypeOK
    <3> QED
      BY <2>1, <2>3, <3>2, <3>4 DEF Rounds!Next, Rounds!StartRound
  <2> QED
    BY <2>2, <2>3
<1>2. CASE DoneWake
  BY <1>2 DEF DoneWake, Rounds!vars, Pending, event
<1>3. CASE DoneReturn
  <2>1. Pending = {} /\ UNCHANGED <<Pending, subscribers>> /\ pub # "run" /\ pub' = "run"
    BY <1>3 DEF DoneReturn, IInv, EventsInv, Pending, event
  <2> QED
    BY <2>1 DEF Rounds!Next, Rounds!EndRound
<1>4. ASSUME NEW c \in Clients, GetSubscriber(c)
      PROVE  [Rounds!Next]_Rounds!vars
  <2>1. c \notin subscribers /\ subscribers' = subscribers \cup {c} /\ UNCHANGED pub
    BY <1>4 DEF GetSubscriber, IInv, CountersInv
  <2>2. Pending' = Pending
    <3>1. c \notin pleaseHandle /\ pleaseHandle' = pleaseHandle
      BY <1>4, <2>1 DEF GetSubscriber, IInv, TypeOK
    <3>2. event' <=> event
      BY <1>4, <3>1, Counts DEF GetSubscriber, Consume, event
    <3>3. \A d \in Clients \ {c} : pc'[d] = pc[d]
      BY <1>4 DEF GetSubscriber, Consume, IInv, TypeOK
    <3> QED
      BY <3>1, <3>2, <3>3 DEF Pending, IInv, TypeOK
  <2> QED
    BY <2>1, <2>2 DEF Rounds!Next, Rounds!Join
<1>5. ASSUME NEW c \in Clients, SendFrame(c) \/ LeaveLoop(c) \/ BarrierWake(c)
      PROVE  [Rounds!Next]_Rounds!vars
  <2>1. Pending' = Pending
    BY <1>5 DEF SendFrame, LeaveLoop, BarrierWake, IInv, TypeOK, Pending, event
  <2> QED
    BY <1>5, <2>1 DEF SendFrame, LeaveLoop, BarrierWake, Rounds!vars
<1>6. ASSUME NEW c \in Clients, BarrierReturn(c)
      PROVE  [Rounds!Next]_Rounds!vars
  <2>1. Pending = {}
    BY <1>6 DEF BarrierReturn, IInv, EventsInv
  <2>2. ~event'
    BY <1>6 DEF BarrierReturn, IInv, EventsInv, event
  <2>3. Pending' = {}
    BY <2>2 DEF Pending
  <2> QED
    BY <1>6, <2>1, <2>3 DEF BarrierReturn, Rounds!vars
<1>7. ASSUME NEW c \in Clients, ConsumeShare(c)
      PROVE  [Rounds!Next]_Rounds!vars
  <2>1. event /\ c \in pleaseHandle /\ c \in Pending /\ UNCHANGED <<subscribers, pleaseHandle, pub>>
    BY <1>7 DEF ConsumeShare, IInv, TypeOK, EventsInv, Pending
  <2>2. Pending' = Pending \ {c}
    <3>1. CASE event'
      <4>1. pc' = [pc EXCEPT ![c] = "barrier"]
        BY <1>7, <3>1 DEF ConsumeShare, Consume, event
      <4> QED
        BY <2>1, <3>1, <4>1 DEF Pending, IInv, TypeOK
    <3>2. CASE ~event'
      <4>1. Pending' = {} /\ consuming' = 0
        BY <3>2, FS_EmptySet DEF Pending, IInv, CountersInv
      <4>2. consuming' = Cardinality(Pending \ {c})
        BY <1>7, <2>1, Counts, AddRemove DEF ConsumeShare, Consume, IInv, CountersInv
      <4> QED
        BY <4>1, <4>2, Counts, Finite
    <3> QED
      BY <3>1, <3>2
  <2> QED
    BY <2>1, <2>2 DEF Rounds!Next, Rounds!TakeShare
<1>8. ASSUME NEW c \in Clients, ReleaseSubscriber(c)
      PROVE  [Rounds!Next]_Rounds!vars
  <2>1. /\ c \in subscribers /\ subscribers' = subscribers \ {c}
        /\ pleaseHandle' = pleaseHandle \ {c} /\ UNCHANGED pub
        /\ pc' = [pc EXCEPT ![c] = "out"]
    BY <1>8 DEF ReleaseSubscriber, Consume, IInv, CountersInv
  <2>2. CASE event'
    <3>1. event
      BY <1>8, <2>2 DEF ReleaseSubscriber, Consume, event
    <3>2. Pending' = Pending \ {c}
      BY <2>1, <2>2, <3>1 DEF Pending, IInv, TypeOK
    <3> QED
      BY <2>1, <3>2 DEF Rounds!Next, Rounds!Quit
  <2>3. CASE ~event'
    <3>1. Pending' = {} /\ consuming' = 0
      BY <2>3, FS_EmptySet DEF Pending, IInv, CountersInv
    <3>2. Pending \ {c} = {}
      <4>1. CASE c \in Pending
        <5>1. consuming' = Cardinality(Pending \ {c})
          BY <1>8, <4>1, Counts, AddRemove
          DEF ReleaseSubscriber, Consume, IInv, CountersInv, Pending
        <5> QED
          BY <3>1, <5>1, Counts, Finite
      <4>2. CASE c \notin Pending
        <5>1. ~event
          BY <1>8, <4>2 DEF ReleaseSubscriber, IInv, EventsInv, Pending
        <5> QED
          BY <5>1, Counts
      <4> QED
        BY <4>1, <4>2
    <3> QED
      BY <2>1, <3>1, <3>2 DEF Rounds!Next, Rounds!Quit
  <2> QED
    BY <2>2, <2>3
<1> QED
  BY <1>0, <1>1, <1>2, <1>3, <1>4, <1>5, <1>6, <1>7, <1>8 DEF Next, Server, Serve

\* shadow_multiclient_publish_and_wait implements the rounds: each starts with
\* the clients registered then and ends when every one of them has taken its
\* share or left.
THEOREM Refinement == Spec => RoundsFollowOneAnother
<1>1. Init => Rounds!Init
  BY DEF Init, Rounds!Init, Pending
<1> QED
  BY <1>1, StepRefines, Invariance, PTL DEF Spec, RoundsFollowOneAnother, Rounds!Spec
=============================================================================
