----------------------------- MODULE BarrierProofs -----------------------------
(***************************************************************************)
(* The invariants of the synchronization barrier, and that it implements a *)
(* rendezvous, for any finite set of threads and any number of rounds.     *)
(***************************************************************************)
EXTENDS Barrier, FiniteSetTheorems, TLAPS

\* The two events take turns.
LEMMA EventParity ==
  ASSUME NEW k \in Int
  PROVE  /\ Event(k) \in {0, 1}
         /\ Event(k + 1) # Event(k)
         /\ Event(k + 2) = Event(k)
         /\ Event(k - 1) = Event(k + 1)
  BY DEF Event

LEMMA TotalType == Total \in Nat /\ Total >= 1
  BY BarrierAssumption, FS_CardinalityType, FS_EmptySet DEF Total

LEMMA ArrivedCount ==
  /\ Arrived \subseteq Threads /\ IsFiniteSet(Arrived)
  /\ Cardinality(Arrived) \in Nat /\ Cardinality(Arrived) <= Total
  /\ Cardinality(Arrived) = Total => Arrived = Threads
  <1>1. Arrived \subseteq Threads
    BY DEF Arrived
  <1>2. QED
    BY <1>1, BarrierAssumption, FS_Subset, FS_CardinalityType DEF Total

\* With nobody missing, everyone is in.
LEMMA EveryoneIn ==
  ASSUME TypeOK, CountInv, remaining = 0
  PROVE  \A t \in Threads : entered[t] = round + 1
  <1>1. Arrived = Threads
    BY ArrivedCount, TotalType DEF CountInv
  <1>2. QED
    BY <1>1 DEF Arrived

Inside == Swapping \cup {"set"}
Last == Closing \cup Swapping \cup {"set"}

\* What the invariants say of a thread
LEMMA ThreadFacts ==
  ASSUME IInv, NEW t \in Threads
  PROVE  /\ entered[t] \in Nat /\ left[t] \in Nat /\ round \in Nat
         /\ entered[t] \in {round, round + 1}
         /\ left[t] \in {round - 1, round}
         /\ entered[t] = left[t] \/ entered[t] = left[t] + 1
         /\ entered[t] <= MaxRounds /\ left[t] <= MaxRounds
  BY BarrierAssumption DEF IInv, TypeOK, RoundsInv, Before, Waiting, Closing, Swapping

\* A thread that has left the round sees its events settled.
LEMMA SettledEvents ==
  ASSUME IInv, NEW t \in Threads, pc[t] \in Before
  PROVE  current = Event(round + 1) /\ dormant = Event(round)
  <1>1. left[t] = round /\ round \in Nat
    BY DEF IInv, RoundsInv, TypeOK
  <1>2. \A u \in Threads : pc[u] \notin Swapping
    BY <1>1 DEF IInv, LastInv
  <1>3. QED
    BY <1>2 DEF IInv, EventInv, Swapping

\* A thread that is let out is in the round before, whose closing is over.
LEMMA MayLeave ==
  ASSUME IInv, NEW t \in Threads, SpinLeave(t) \/ BlockLeave(t)
  PROVE  /\ pc[t] \in Waiting /\ entered[t] = round /\ left[t] = round - 1
         /\ \A u \in Threads : pc[u] \notin Swapping
  <1>1. pc[t] \in Waiting
    BY DEF SpinLeave, BlockLeave, Waiting
  <1>2. /\ left[t] = entered[t] - 1 /\ entered[t] \in {round, round + 1}
        /\ entered[t] \in Nat /\ left[t] \in Nat /\ round \in Nat
    BY <1>1, ThreadFacts DEF IInv, RoundsInv
  <1>3. hCurrent[t] = Event(entered[t])
    <2>1. hCurrent[t] = Event(left[t] + 1)
      BY <1>1 DEF IInv, EventInv, Waiting
    <2>2. left[t] + 1 = entered[t]
      BY <1>2
    <2>3. QED
      BY <2>1, <2>2
  <1>4. CASE SpinLeave(t)
    <2>1. current # Event(entered[t])
      BY <1>3, <1>4 DEF SpinLeave
    <2>2. CASE \E u \in Threads : pc[u] \in Swapping
      <3>1. current = Event(round) /\ left[t] = round - 1
        BY <2>2 DEF IInv, EventInv, LastInv
      <3>2. QED
        BY <1>2, <2>1, <3>1
    <2>3. CASE \A u \in Threads : pc[u] \notin Swapping
      <3>1. current = Event(round + 1)
        BY <2>3 DEF IInv, EventInv
      <3>2. QED
        BY <1>1, <1>2, <2>1, <2>3, <3>1
    <2>4. QED
      BY <2>2, <2>3
  <1>5. CASE BlockLeave(t)
    <2>1. Event(entered[t]) \in signalled
      BY <1>3, <1>5 DEF BlockLeave
    <2>2. entered[t] = round
      BY <1>2, <2>1 DEF IInv, EventInv
    <2>3. \A u \in Threads : pc[u] \notin Swapping
      BY <2>1, <2>2 DEF IInv, EventInv
    <2>4. QED
      BY <1>1, <1>2, <2>2, <2>3
  <1>6. QED
    BY <1>4, <1>5

\* A step of t that stays in the same part of the call keeps what the other
\* threads and the counter know.
LEMMA EnterKeepsIInv ==
  ASSUME IInv, NEW t \in Threads,
         (\E f \in {"none", "block", "spin"} : Enter(t, f)) \/ ReadDormant(t)
  PROVE  IInv'
  <1>1. /\ UNCHANGED <<remaining, current, dormant, signalled, entered, left, serial, round>>
        /\ pc[t] \in Before /\ pc'[t] \in {"dormant", "count"}
        /\ \A u \in Threads : u # t => /\ pc'[u] = pc[u] /\ hCurrent'[u] = hCurrent[u]
                                       /\ hDormant'[u] = hDormant[u]
        /\ pc' \in [Threads -> {"out", "dormant", "count", "spin", "block", "last", "refill",
                                "swap1", "swap0", "set"}]
        /\ flags' \in [Threads -> {"none", "block", "spin"}]
        /\ hCurrent' \in [Threads -> {0, 1}] /\ hDormant' \in [Threads -> {0, 1}]
    BY DEF Enter, ReadDormant, Goto, barrier, history, IInv, TypeOK, Before
  <1>2. current = Event(round + 1) /\ dormant = Event(round)
    BY <1>1, SettledEvents
  <1>3. left[t] = round /\ entered[t] = left[t] /\ entered[t] < MaxRounds
    BY <1>1 DEF IInv, RoundsInv, Before, Enter, ReadDormant
  <1>4. TypeOK'
    BY <1>1 DEF IInv, TypeOK
  <1>5. RoundsInv'
    BY <1>1, <1>3 DEF IInv, RoundsInv, Before, Waiting, Closing, Swapping
  <1>6. Arrived' = Arrived
    BY <1>1 DEF Arrived
  <1>7. \A u \in Threads : /\ pc'[u] \in Closing <=> pc[u] \in Closing
                           /\ pc'[u] \in Swapping <=> pc[u] \in Swapping
                           /\ pc'[u] = "swap1" <=> pc[u] = "swap1"
                           /\ pc'[u] = "set" <=> pc[u] = "set"
                           /\ pc'[u] = "refill" <=> pc[u] = "refill"
                           /\ pc'[u] \in Waiting <=> pc[u] \in Waiting
    BY <1>1 DEF Before, Closing, Swapping, Waiting
  <1>8. CountInv'
    BY <1>1, <1>6, <1>7 DEF IInv, CountInv
  <1>9. LastInv'
    BY <1>1, <1>7 DEF IInv, LastInv
  <1>10. EventInv'
    <2>1. hCurrent'[t] = Event(left[t] + 1)
      BY <1>2, <1>3 DEF Enter, ReadDormant, IInv, TypeOK, EventInv
    <2>2. pc'[t] # "dormant" => hDormant'[t] = Event(left[t])
      BY <1>2, <1>3 DEF Enter, ReadDormant, Goto, IInv, TypeOK
    <2>3. \A u \in Threads : /\ pc'[u] # "out" => hCurrent'[u] = Event(left[u] + 1)
                             /\ pc'[u] \notin {"out", "dormant"} => hDormant'[u] = Event(left[u])
      BY <1>1, <2>1, <2>2 DEF IInv, EventInv
    <2>4. QED
      BY <1>1, <1>7, <2>3 DEF IInv, EventInv
  <1>11. QED
    BY <1>4, <1>5, <1>8, <1>9, <1>10 DEF IInv

\* The thread is counted. If it completes the round, nobody else is closing one.
LEMMA DecrementKeepsIInv ==
  ASSUME IInv, NEW t \in Threads, Decrement(t)
  PROVE  IInv' /\ entered[t] = left[t] /\ entered[t] < MaxRounds
  <1>1. /\ UNCHANGED <<current, dormant, signalled, left, serial, round>>
        /\ UNCHANGED <<flags, hCurrent, hDormant>>
        /\ pc[t] = "count" /\ remaining' = remaining - 1
    BY DEF Decrement, locals
  <1>2. /\ entered[t] = left[t] /\ left[t] = round /\ entered[t] < MaxRounds
        /\ round \in Nat /\ remaining \in Nat /\ remaining <= Total
    BY <1>1, TotalType DEF IInv, RoundsInv, TypeOK, Before
  <1>3. /\ entered' = [entered EXCEPT ![t] = round + 1]
        /\ entered'[t] = round + 1
        /\ \A u \in Threads : u # t => entered'[u] = entered[u]
    BY <1>2 DEF Decrement, IInv, TypeOK
  <1>4. Arrived' = Arrived \cup {t} /\ t \notin Arrived
    <2>1. t \notin Arrived
      BY <1>2 DEF Arrived
    <2>2. \A u \in Threads : u \in Arrived' <=> u \in Arrived \/ u = t
      BY <1>1, <1>3 DEF Arrived
    <2>3. QED
      BY <2>1, <2>2 DEF Arrived
  <1>5. remaining >= 1
    BY <1>2, EveryoneIn DEF IInv
  <1>6. /\ pc'[t] = IF remaining - 1 = 0 THEN "last"
                    ELSE IF flags[t] = "spin" \/ (remaining - 1 < Processors /\ flags[t] # "block")
                    THEN "spin" ELSE "block"
        /\ \A u \in Threads : u # t => pc'[u] = pc[u]
    BY <1>1, <1>2, <1>5 DEF Decrement, Goto, IInv, TypeOK
  <1>7. /\ pc'[t] \in {"last", "spin", "block"}
        /\ pc'[t] = "last" <=> remaining' = 0
    BY <1>1, <1>2, <1>6
  <1>8. pc' \in [Threads -> {"out", "dormant", "count", "spin", "block", "last", "refill",
                            "swap1", "swap0", "set"}]
    <2>1. pc' = [pc EXCEPT ![t] = pc'[t]]
      BY DEF Decrement, Goto, IInv, TypeOK
    <2>2. QED
      BY <1>7, <2>1 DEF IInv, TypeOK
  <1>9. TypeOK'
    <2>1. remaining' \in 0..Total
      BY <1>1, <1>2, <1>5, TotalType
    <2>2. entered' \in [Threads -> 0..MaxRounds]
      BY <1>2, <1>3, BarrierAssumption DEF IInv, TypeOK
    <2>3. QED
      BY <1>1, <1>8, <2>1, <2>2 DEF IInv, TypeOK
  <1>10. RoundsInv'
    BY <1>1, <1>2, <1>3, <1>6, <1>7 DEF IInv, RoundsInv, Before, Waiting, Closing, Swapping
  <1>11. \A u \in Threads : pc[u] \notin Closing
    BY <1>5 DEF IInv, CountInv
  <1>12. remaining' = Total - Cardinality(Arrived')
    <2>1. IsFiniteSet(Arrived) /\ Cardinality(Arrived) \in Nat
      BY ArrivedCount
    <2>2. Cardinality(Arrived \cup {t}) = Cardinality(Arrived) + 1
      BY <1>4, <2>1, FS_AddElement
    <2>3. Cardinality(Arrived') = Cardinality(Arrived) + 1
      BY <1>4, <2>2
    <2>4. remaining = Total - Cardinality(Arrived)
      BY DEF IInv, CountInv
    <2>5. QED
      BY <1>1, <2>1, <2>3, <2>4, TotalType
  <1>13. CountInv'
    <2>1. ASSUME NEW u \in Threads, pc'[u] \in Closing
          PROVE  remaining' = 0
      BY <1>6, <1>7, <1>11, <2>1 DEF Closing
    <2>2. QED
      BY <1>12, <2>1 DEF CountInv, Total
  <1>14. remaining' = 0 => \A u \in Threads : pc[u] \notin Inside
    <2> SUFFICES ASSUME remaining' = 0, NEW u \in Threads, pc[u] \in Inside
                 PROVE  FALSE
      OBVIOUS
    <2>1. Arrived' = Threads
      <3>1. Cardinality(Arrived') = Total
        <4>1. Cardinality(Arrived') \in Nat
          <5>1. IsFiniteSet(Arrived')
            BY <1>4, ArrivedCount, FS_AddElement
          <5>2. QED
            BY <5>1, FS_CardinalityType
        <4>2. QED
          BY <1>12, <4>1, TotalType
      <3>2. Arrived' \subseteq Threads
        BY <1>4, ArrivedCount
      <3>3. QED
        BY <3>1, <3>2, FS_Subset, BarrierAssumption DEF Total
    <2>2. u # t
      BY <1>1 DEF Inside, Swapping
    <2>3. entered[u] = round
      BY DEF Inside, IInv, RoundsInv
    <2>4. u \in Arrived
      BY <1>4, <2>1, <2>2
    <2>5. QED
      BY <1>2, <2>3, <2>4 DEF Arrived
  <1>15. \A u \in Threads : /\ pc'[u] \in Swapping <=> pc[u] \in Swapping
                            /\ pc'[u] = "swap1" <=> pc[u] = "swap1"
                            /\ pc'[u] = "set" <=> pc[u] = "set"
                            /\ pc'[u] = "refill" <=> pc[u] = "refill"
    BY <1>1, <1>6, <1>7 DEF Swapping
  <1>16. LastInv'
    <2>1. ASSUME NEW u \in Threads, NEW v \in Threads, pc'[u] \in Last, pc'[v] \in Last
          PROVE  u = v
      <3>1. CASE remaining' = 0
        BY <1>6, <1>11, <1>14, <2>1, <3>1 DEF Last, Inside
      <3>2. CASE remaining' # 0
        BY <1>6, <1>7, <2>1, <3>2 DEF Last, IInv, LastInv, Closing, Swapping
      <3>3. QED
        BY <3>1, <3>2
    <2>2. remaining' = 0 => pc'[t] \in Closing
      BY <1>7 DEF Closing
    <2>3. QED
      BY <1>1, <1>15, <2>1, <2>2 DEF IInv, LastInv, Last
  <1>17. EventInv'
    <2>1. \A u \in Threads : pc'[u] # "out" => hCurrent[u] = Event(left[u] + 1)
      BY <1>1, <1>6 DEF IInv, EventInv
    <2>2. \A u \in Threads : pc'[u] \notin {"out", "dormant"} => hDormant[u] = Event(left[u])
      BY <1>1, <1>6 DEF IInv, EventInv
    <2>3. \A u \in Threads : pc'[u] \in Waiting /\ entered'[u] = round
            => u # t /\ pc[u] \in Waiting /\ entered[u] = round
      BY <1>2, <1>3, <1>6
    <2>4. QED
      BY <1>1, <1>15, <2>1, <2>2, <2>3 DEF IInv, EventInv
  <1>18. QED
    BY <1>2, <1>9, <1>10, <1>13, <1>16, <1>17 DEF IInv

\* A waiting thread goes on waiting, or leaves.
LEMMA WaitingKeepsIInv ==
  ASSUME IInv, NEW t \in Threads, SpinLeave(t) \/ SpinEnds(t) \/ BlockLeave(t)
  PROVE  IInv'
  <1>1. /\ UNCHANGED <<remaining, current, dormant, signalled, serial, entered, round>>
        /\ UNCHANGED <<flags, hCurrent, hDormant>>
        /\ pc[t] \in Waiting /\ pc'[t] \in {"out", "block"}
        /\ \A u \in Threads : u # t => pc'[u] = pc[u] /\ left'[u] = left[u]
        /\ pc' \in [Threads -> {"out", "dormant", "count", "spin", "block", "last", "refill",
                                "swap1", "swap0", "set"}]
    BY DEF SpinLeave, SpinEnds, BlockLeave, Leave, Goto, barrier, locals, history,
           IInv, TypeOK, Waiting
  <1>2. pc'[t] = "block" => left' = left
    BY DEF SpinLeave, SpinEnds, BlockLeave, Leave, Goto, history, IInv, TypeOK
  <1>3. pc'[t] = "out" => /\ entered[t] = round /\ left[t] = round - 1 /\ left'[t] = round
                          /\ left' = [left EXCEPT ![t] = round]
                          /\ \A u \in Threads : pc[u] \notin Swapping
    <2> SUFFICES ASSUME pc'[t] = "out"
                 PROVE  /\ entered[t] = round /\ left[t] = round - 1 /\ left'[t] = round
                        /\ left' = [left EXCEPT ![t] = round]
                        /\ \A u \in Threads : pc[u] \notin Swapping
      OBVIOUS
    <2>1. SpinLeave(t) \/ BlockLeave(t)
      BY DEF SpinEnds, Goto, IInv, TypeOK
    <2>2. /\ entered[t] = round /\ left[t] = round - 1
          /\ \A u \in Threads : pc[u] \notin Swapping
      BY <2>1, MayLeave
    <2>3. left' = [left EXCEPT ![t] = left[t] + 1] /\ left \in [Threads -> 0..MaxRounds]
      BY <2>1 DEF SpinLeave, BlockLeave, Leave, IInv, TypeOK
    <2>4. round \in Nat /\ left[t] + 1 = round
      BY <2>2 DEF IInv, TypeOK
    <2>5. QED
      BY <2>2, <2>3, <2>4
  <1>4. entered[t] \in 0..MaxRounds /\ left' \in [Threads -> 0..MaxRounds]
    BY <1>1, <1>2, <1>3 DEF IInv, TypeOK
  <1>5. TypeOK'
    BY <1>1, <1>4 DEF IInv, TypeOK
  <1>6. RoundsInv'
    BY <1>1, <1>2, <1>3 DEF IInv, RoundsInv, Before, Waiting, Closing, Swapping
  <1>7. \A u \in Threads : /\ pc'[u] \in Closing <=> pc[u] \in Closing
                           /\ pc'[u] \in Swapping <=> pc[u] \in Swapping
                           /\ pc'[u] = "swap1" <=> pc[u] = "swap1"
                           /\ pc'[u] = "set" <=> pc[u] = "set"
                           /\ pc'[u] = "refill" <=> pc[u] = "refill"
                           /\ pc'[u] \in Waiting => pc[u] \in Waiting
    BY <1>1 DEF Closing, Swapping, Waiting
  <1>8. Arrived' = Arrived
    BY <1>1 DEF Arrived
  <1>9. CountInv'
    BY <1>1, <1>7, <1>8 DEF IInv, CountInv
  <1>10. LastInv'
    <2>1. \A u \in Threads : pc[u] \in Swapping => left' = left
      BY <1>1, <1>2, <1>3
    <2>2. QED
      BY <1>1, <1>7, <2>1 DEF IInv, LastInv
  <1>11. EventInv'
    <2>1. \A u \in Threads : pc'[u] # "out" => left'[u] = left[u] /\ pc[u] # "out"
      BY <1>1, <1>2 DEF Waiting
    <2>2. \A u \in Threads : /\ pc'[u] # "out" => hCurrent[u] = Event(left'[u] + 1)
                             /\ pc'[u] \notin {"out", "dormant"} => hDormant[u] = Event(left'[u])
      BY <1>1, <2>1 DEF IInv, EventInv, Waiting
    <2>3. QED
      BY <1>1, <1>7, <2>2 DEF IInv, EventInv
  <1>12. QED
    BY <1>5, <1>6, <1>9, <1>10, <1>11 DEF IInv

\* The last thread of a round: what it knows before it refills the counter
LEMMA ClosingFacts ==
  ASSUME IInv, NEW t \in Threads, pc[t] \in Closing
  PROVE  /\ remaining = 0 /\ left[t] = round /\ entered[t] = round + 1 /\ round \in Nat
         /\ \A u \in Threads : entered[u] = round + 1
         /\ \A u \in Threads : u # t => pc[u] \in Waiting /\ left[u] = round
         /\ left[t] = round /\ serial = round
         /\ hCurrent[t] = Event(round + 1) /\ hDormant[t] = Event(round)
  <1>1. remaining = 0 /\ left[t] = round /\ entered[t] = round + 1 /\ round \in Nat
    BY DEF IInv, CountInv, RoundsInv, TypeOK
  <1>2. \A u \in Threads : entered[u] = round + 1
    BY <1>1, EveryoneIn DEF IInv
  <1>3. \A u \in Threads : u # t => pc[u] \notin Last
    BY DEF IInv, LastInv, Last
  <1>4. ASSUME NEW u \in Threads, u # t
        PROVE  pc[u] \in Waiting /\ left[u] = round
    <2>1. pc[u] \notin Before
      BY <1>1, <1>2, <1>4 DEF IInv, RoundsInv
    <2>2. pc[u] \in Waiting
      BY <1>3, <1>4, <2>1 DEF IInv, TypeOK, Before, Waiting, Last, Closing, Swapping
    <2>3. QED
      BY <1>1, <1>2, <2>2 DEF IInv, RoundsInv
  <1>5. \A u \in Threads : pc[u] \notin Swapping \cup {"set"}
    BY <1>3 DEF Last, Closing, Swapping
  <1>6. serial = round
    BY <1>5 DEF IInv, LastInv
  <1>7. hCurrent[t] = Event(round + 1) /\ hDormant[t] = Event(round)
    BY <1>1 DEF IInv, EventInv, Closing
  <1>8. QED
    BY <1>1, <1>2, <1>4, <1>6, <1>7

LEMMA ResetDormantKeepsIInv ==
  ASSUME IInv, NEW t \in Threads, ResetDormant(t)
  PROVE  IInv'
  <1>1. /\ UNCHANGED <<remaining, current, dormant, serial, entered, left, round>>
        /\ UNCHANGED <<flags, hCurrent, hDormant>>
        /\ pc[t] = "last" /\ pc'[t] = "refill"
        /\ \A u \in Threads : u # t => pc'[u] = pc[u]
        /\ pc' \in [Threads -> {"out", "dormant", "count", "spin", "block", "last", "refill",
                                "swap1", "swap0", "set"}]
    BY DEF ResetDormant, Goto, locals, history, IInv, TypeOK
  <1>2. pc[t] \in Closing
    BY <1>1 DEF Closing
  <1>3. signalled' = signalled \ {Event(round)}
    BY <1>2, ClosingFacts DEF ResetDormant
  <1>4. TypeOK'
    BY <1>1, <1>3 DEF IInv, TypeOK
  <1>5. RoundsInv'
    BY <1>1 DEF IInv, RoundsInv, Before, Waiting, Closing, Swapping
  <1>6. \A u \in Threads : /\ pc'[u] \in Closing <=> pc[u] \in Closing
                           /\ pc'[u] \in Swapping <=> pc[u] \in Swapping
                           /\ pc'[u] = "swap1" <=> pc[u] = "swap1"
                           /\ pc'[u] = "set" <=> pc[u] = "set"
                           /\ pc'[u] \in Waiting <=> pc[u] \in Waiting
    BY <1>1 DEF Closing, Swapping, Waiting
  <1>7. Arrived' = Arrived
    BY <1>1 DEF Arrived
  <1>8. CountInv'
    BY <1>1, <1>6, <1>7 DEF IInv, CountInv
  <1>9. LastInv'
    BY <1>1, <1>6 DEF IInv, LastInv
  <1>10. EventInv'
    <2>1. \A u \in Threads : entered[u] # round
      BY <1>2, ClosingFacts
    <2>2. \A u \in Threads : /\ pc'[u] # "out" => hCurrent[u] = Event(left[u] + 1)
                             /\ pc'[u] \notin {"out", "dormant"} => hDormant[u] = Event(left[u])
      BY <1>1 DEF IInv, EventInv
    <2>3. Event(round) \notin signalled' /\ Event(round + 1) \notin signalled'
      BY <1>3 DEF IInv, EventInv
    <2>4. QED
      BY <1>1, <1>6, <2>1, <2>2, <2>3 DEF IInv, EventInv
  <1>11. QED
    BY <1>4, <1>5, <1>8, <1>9, <1>10 DEF IInv

\* The counter is refilled: the next round begins, and nobody is in it.
LEMMA RefillKeepsIInv ==
  ASSUME IInv, NEW t \in Threads, Refill(t)
  PROVE  IInv'
  <1>1. /\ UNCHANGED <<current, dormant, signalled, serial, entered, left>>
        /\ UNCHANGED <<flags, hCurrent, hDormant>>
        /\ remaining' = Total /\ round' = round + 1
        /\ pc[t] = "refill" /\ pc'[t] = "swap1"
        /\ \A u \in Threads : u # t => pc'[u] = pc[u]
        /\ pc' \in [Threads -> {"out", "dormant", "count", "spin", "block", "last", "refill",
                                "swap1", "swap0", "set"}]
    BY DEF Refill, Goto, locals, IInv, TypeOK
  <1>2. pc[t] \in Closing
    BY <1>1 DEF Closing
  <1>3. /\ round \in Nat /\ serial = round
        /\ \A u \in Threads : entered[u] = round + 1 /\ left[u] = round
        /\ \A u \in Threads : u # t => pc[u] \in Waiting
    BY <1>2, ClosingFacts
  <1>4. \A u \in Threads : u # t => pc'[u] \in Waiting
    BY <1>1, <1>3
  <1>5. TypeOK'
    BY <1>1, <1>3, TotalType DEF IInv, TypeOK
  <1>6. RoundsInv'
    BY <1>1, <1>3, <1>4 DEF IInv, RoundsInv, Before, Waiting, Closing, Swapping
  <1>7. Arrived' = {}
    BY <1>1, <1>3 DEF Arrived
  <1>8. CountInv'
    <2>1. remaining' = Total - Cardinality(Arrived')
      BY <1>1, <1>7, FS_EmptySet, TotalType
    <2>2. \A u \in Threads : pc'[u] \notin Closing
      BY <1>1, <1>4 DEF Waiting, Closing
    <2>3. QED
      BY <2>1, <2>2 DEF CountInv, Total
  <1>9. LastInv'
    BY <1>1, <1>3, <1>4, TotalType DEF LastInv, Closing, Swapping, Waiting
  <1>10. EventInv'
    <2>1. Event(round + 2) = Event(round) /\ Event(round + 1) # Event(round)
      BY <1>3, EventParity
    <2>2. \A u \in Threads : pc[u] \notin Swapping
      BY <1>1, <1>3 DEF Swapping, Waiting
    <2>3. current = Event(round + 1) /\ dormant = Event(round)
      BY <2>2 DEF IInv, EventInv, Swapping
    <2>4. /\ Event(round') = Event(round + 1)
          /\ Event(round' + 1) = Event(round)
      BY <1>1, <1>3, <2>1
    <2>5. Event(round) \notin signalled /\ Event(round + 1) \notin signalled
      BY <1>1 DEF IInv, EventInv
    <2>6. \A u \in Threads : hCurrent[u] = Event(left[u] + 1) /\ hDormant[u] = Event(left[u])
      BY <1>1, <1>3 DEF IInv, EventInv, Waiting
    <2>7. pc'[t] \in Swapping
      BY <1>1 DEF Swapping
    <2>8. current' = Event(round') /\ dormant' = Event(round' + 1)
      BY <1>1, <2>3, <2>4
    <2>9. \A u \in Threads : pc'[u] # "refill"
      BY <1>1, <1>4 DEF Waiting
    <2>10. /\ Event(round' + 1) \notin signalled' /\ Event(round') \notin signalled'
      BY <1>1, <2>4, <2>5
    <2>11. \A u \in Threads : hCurrent'[u] = Event(left'[u] + 1) /\ hDormant'[u] = Event(left'[u])
      BY <1>1, <2>6
    <2>12. QED
      BY <1>1, <2>7, <2>8, <2>9, <2>10, <2>11 DEF EventInv
  <1>11. QED
    BY <1>5, <1>6, <1>8, <1>9, <1>10 DEF IInv

\* The last thread of a round, once the counter is refilled
LEMMA SwapFacts ==
  ASSUME IInv, NEW t \in Threads, pc[t] \in Inside
  PROVE  /\ round \in Nat \ {0} /\ left[t] = round - 1 /\ entered[t] = round
         /\ serial = round - 1
         /\ \A u \in Threads : u # t => pc[u] \notin Last
         /\ hCurrent[t] = Event(round) /\ hDormant[t] = Event(round + 1)
         /\ Event(round) \notin signalled
         /\ remaining # 0
  <1>1. left[t] = round - 1 /\ entered[t] = round
    BY DEF IInv, RoundsInv, Inside
  <1>2. round \in Nat \ {0}
    BY <1>1 DEF IInv, TypeOK
  <1>3. serial = round - 1
    BY DEF IInv, LastInv, Inside
  <1>4. \A u \in Threads : u # t => pc[u] \notin Last
    BY DEF IInv, LastInv, Last, Inside
  <1>5. hCurrent[t] = Event(round) /\ hDormant[t] = Event(round + 1)
    <2>1. hCurrent[t] = Event(left[t] + 1) /\ hDormant[t] = Event(left[t])
      BY DEF IInv, EventInv, Inside, Swapping
    <2>2. left[t] + 1 = round /\ Event(round - 1) = Event(round + 1)
      BY <1>1, <1>2, EventParity
    <2>3. QED
      BY <1>1, <2>1, <2>2
  <1>6. Event(round) \notin signalled
    BY DEF IInv, EventInv, Inside
  <1>7. remaining # 0
    BY <1>1, <1>2, EveryoneIn DEF IInv
  <1>8. QED
    BY <1>1, <1>2, <1>3, <1>4, <1>5, <1>6, <1>7

\* The two halves of the swap
LEMMA SwapKeepsIInv ==
  ASSUME IInv, NEW t \in Threads, SwapDormant(t) \/ SwapCurrent(t)
  PROVE  IInv'
  <1>1. /\ UNCHANGED <<remaining, signalled, serial, entered, left, round>>
        /\ UNCHANGED <<flags, hCurrent, hDormant>>
        /\ \/ pc[t] = "swap1" /\ pc'[t] = "swap0"
           \/ pc[t] = "swap0" /\ pc'[t] = "set"
        /\ \A u \in Threads : u # t => pc'[u] = pc[u]
        /\ pc' \in [Threads -> {"out", "dormant", "count", "spin", "block", "last", "refill",
                                "swap1", "swap0", "set"}]
    BY DEF SwapDormant, SwapCurrent, Goto, locals, history, IInv, TypeOK
  <1>2. pc[t] \in Inside /\ pc'[t] \in Inside
    BY <1>1 DEF Inside, Swapping
  <1>3. /\ round \in Nat \ {0} /\ serial = round - 1
        /\ \A u \in Threads : u # t => pc[u] \notin Last
        /\ hCurrent[t] = Event(round) /\ hDormant[t] = Event(round + 1)
        /\ Event(round) \notin signalled /\ remaining # 0
    BY <1>2, SwapFacts
  <1>4. \A u \in Threads : u # t => pc'[u] \notin Last
    BY <1>1, <1>3
  <1>5. /\ dormant' = Event(round)
        /\ current' = IF pc'[t] = "swap0" THEN Event(round) ELSE Event(round + 1)
    <2>1. CASE SwapDormant(t)
      <3>1. pc'[t] = "swap0" /\ pc[t] = "swap1"
        BY <1>1, <2>1 DEF SwapDormant
      <3>2. current = Event(round)
        BY <3>1 DEF IInv, EventInv, Swapping
      <3>3. QED
        BY <1>3, <2>1, <3>1, <3>2 DEF SwapDormant
    <2>2. CASE SwapCurrent(t)
      <3>1. pc'[t] = "set" /\ pc[t] = "swap0"
        BY <1>1, <2>2 DEF SwapCurrent
      <3>2. \A u \in Threads : pc[u] # "swap1"
        BY <1>3, <3>1 DEF Last, Swapping
      <3>3. dormant = Event(round)
        BY <3>2 DEF IInv, EventInv
      <3>4. QED
        BY <1>3, <2>2, <3>1, <3>3 DEF SwapCurrent
    <2>3. QED
      BY <2>1, <2>2
  <1>6. TypeOK'
    <2>1. Event(round) \in {0, 1} /\ Event(round + 1) \in {0, 1}
      BY <1>3, EventParity
    <2>2. current' \in {0, 1} /\ dormant' \in {0, 1}
      BY <1>5, <2>1
    <2>3. QED
      BY <1>1, <2>2 DEF IInv, TypeOK
  <1>7. RoundsInv'
    BY <1>1 DEF IInv, RoundsInv, Before, Waiting, Closing, Swapping
  <1>8. Arrived' = Arrived
    BY <1>1 DEF Arrived
  <1>9. CountInv'
    BY <1>1, <1>8 DEF IInv, CountInv, Closing
  <1>10. LastInv'
    <2>1. \A u, v \in Threads : pc'[u] \in Last /\ pc'[v] \in Last => u = v
      BY <1>4
    <2>2. \A u \in Threads : pc'[u] \in Swapping => pc[t] \in Swapping
      BY <1>1, <1>4 DEF Last, Swapping
    <2>3. QED
      BY <1>1, <1>2, <1>3, <2>1, <2>2 DEF IInv, LastInv, Last, Inside
  <1>11. EventInv'
    <2>1. current' = IF \E u \in Threads : pc'[u] \in Swapping
                     THEN Event(round) ELSE Event(round + 1)
      BY <1>1, <1>4, <1>5 DEF Last, Swapping
    <2>2. \A u \in Threads : pc'[u] # "swap1" /\ pc'[u] # "refill"
      BY <1>1, <1>4 DEF Last, Swapping, Closing
    <2>3. \A u \in Threads : /\ pc'[u] # "out" => hCurrent[u] = Event(left[u] + 1)
                             /\ pc'[u] \notin {"out", "dormant"} => hDormant[u] = Event(left[u])
      BY <1>1 DEF IInv, EventInv
    <2>4. Event(round + 1) \notin signalled
      BY DEF IInv, EventInv
    <2>5. \E u \in Threads : pc'[u] \in Swapping \cup {"set"}
      BY <1>2 DEF Inside
    <2>6. QED
      BY <1>1, <1>3, <1>5, <2>1, <2>2, <2>3, <2>4, <2>5 DEF EventInv
  <1>12. QED
    BY <1>6, <1>7, <1>9, <1>10, <1>11 DEF IInv

\* The event of the round that is complete is set.
LEMMA SetCurrentKeepsIInv ==
  ASSUME IInv, NEW t \in Threads, SetCurrent(t)
  PROVE  IInv' /\ serial = left[t]
  <1>1. /\ UNCHANGED <<remaining, current, dormant, entered, round>>
        /\ UNCHANGED <<flags, hCurrent, hDormant>>
        /\ pc[t] = "set" /\ pc'[t] = "out" /\ serial' = serial + 1
        /\ \A u \in Threads : u # t => pc'[u] = pc[u] /\ left'[u] = left[u]
        /\ pc' \in [Threads -> {"out", "dormant", "count", "spin", "block", "last", "refill",
                                "swap1", "swap0", "set"}]
    BY DEF SetCurrent, Leave, Goto, locals, IInv, TypeOK
  <1>2. /\ round \in Nat \ {0} /\ serial = round - 1 /\ remaining # 0
        /\ left[t] = round - 1 /\ entered[t] = round
        /\ \A u \in Threads : u # t => pc[u] \notin Last
        /\ hCurrent[t] = Event(round)
    BY <1>1, SwapFacts DEF Inside
  <1>3. left' = [left EXCEPT ![t] = round] /\ left'[t] = round
    BY <1>2 DEF SetCurrent, Leave, IInv, TypeOK
  <1>4. \A u \in Threads : pc'[u] \notin Last
    BY <1>1, <1>2 DEF Last, Closing, Swapping
  <1>5. signalled' = signalled \cup {Event(round)}
    BY <1>2 DEF SetCurrent
  <1>6. TypeOK'
    <2>1. Event(round) \in {0, 1}
      BY <1>2, EventParity
    <2>2. left' \in [Threads -> 0..MaxRounds]
      BY <1>2, <1>3 DEF IInv, TypeOK
    <2>3. serial' \in Nat
      BY <1>1, <1>2
    <2>4. signalled' \subseteq {0, 1}
      BY <1>5, <2>1 DEF IInv, TypeOK
    <2>5. QED
      BY <1>1, <2>2, <2>3, <2>4 DEF IInv, TypeOK
  <1>7. RoundsInv'
    BY <1>1, <1>2, <1>3 DEF IInv, RoundsInv, Before, Waiting, Closing, Swapping
  <1>8. Arrived' = Arrived
    BY <1>1 DEF Arrived
  <1>9. CountInv'
    BY <1>1, <1>4, <1>8 DEF IInv, CountInv, Last
  <1>10. LastInv'
    BY <1>1, <1>2, <1>4 DEF LastInv, Last
  <1>11. EventInv'
    <2>1. \A u \in Threads : pc'[u] \notin Swapping \cup {"set"} /\ pc'[u] # "refill"
      BY <1>4 DEF Last, Closing
    <2>2. \A u \in Threads : pc[u] \notin Swapping
      BY <1>1, <1>2 DEF Last, Swapping
    <2>3. current = Event(round + 1) /\ dormant = Event(round)
      BY <2>2 DEF IInv, EventInv, Swapping
    <2>4. \A u \in Threads : /\ pc'[u] # "out" => hCurrent[u] = Event(left'[u] + 1)
                             /\ pc'[u] \notin {"out", "dormant"} => hDormant[u] = Event(left'[u])
      BY <1>1 DEF IInv, EventInv
    <2>5. Event(round + 1) \notin signalled'
      BY <1>2, <1>5, EventParity DEF IInv, EventInv
    <2>6. Event(round) \in signalled' /\ \A u \in Threads : pc'[u] # "swap1"
      BY <1>5, <2>1 DEF Swapping
    <2>7. QED
      BY <1>1, <2>1, <2>3, <2>4, <2>5, <2>6 DEF EventInv
  <1>12. QED
    BY <1>2, <1>6, <1>7, <1>9, <1>10, <1>11 DEF IInv

LEMMA InitIInv == Init => IInv
  <1> SUFFICES ASSUME Init PROVE IInv
    OBVIOUS
  <1>1. TypeOK
    <2>1. remaining \in 0..Total
      BY TotalType DEF Init
    <2>2. 0 \in 0..MaxRounds
      BY BarrierAssumption
    <2>3. QED
      BY <2>1, <2>2 DEF Init, TypeOK
  <1>2. RoundsInv
    BY DEF Init, RoundsInv, Before, Waiting, Closing, Swapping
  <1>3. CountInv
    <2>1. Arrived = {}
      BY DEF Arrived, Init
    <2>2. QED
      BY <2>1, FS_EmptySet, TotalType DEF Init, CountInv, Closing
  <1>4. LastInv
    BY TotalType DEF Init, LastInv, Closing, Swapping
  <1>5. EventInv
    BY DEF Init, EventInv, Event, Swapping, Waiting
  <1>6. QED
    BY <1>1, <1>2, <1>3, <1>4, <1>5 DEF IInv

LEMMA StepIInv ==
  ASSUME IInv, [Next]_vars
  PROVE  IInv'
  <1>1. CASE Next
    <2>1. PICK t \in Threads : Proceed(t) \/ \E f \in {"none", "block", "spin"} : Enter(t, f)
      BY <1>1 DEF Next
    <2>2. CASE (\E f \in {"none", "block", "spin"} : Enter(t, f)) \/ ReadDormant(t)
      BY <2>2, EnterKeepsIInv
    <2>3. CASE Decrement(t)
      BY <2>3, DecrementKeepsIInv
    <2>4. CASE SpinLeave(t) \/ SpinEnds(t) \/ BlockLeave(t)
      BY <2>4, WaitingKeepsIInv
    <2>5. CASE ResetDormant(t)
      BY <2>5, ResetDormantKeepsIInv
    <2>6. CASE Refill(t)
      BY <2>6, RefillKeepsIInv
    <2>7. CASE SwapDormant(t) \/ SwapCurrent(t)
      BY <2>7, SwapKeepsIInv
    <2>8. CASE SetCurrent(t)
      BY <2>8, SetCurrentKeepsIInv
    <2>9. QED
      BY <2>1, <2>2, <2>3, <2>4, <2>5, <2>6, <2>7, <2>8 DEF Proceed
  <1>2. CASE UNCHANGED vars
    BY <1>2 DEF vars, barrier, locals, history, IInv, TypeOK, RoundsInv, CountInv, LastInv,
                EventInv, Arrived
  <1>3. QED
    BY <1>1, <1>2

\* The counter, the events and the copies of the events that the threads hold
\* agree on the round each thread is in, whatever the interleaving.
THEOREM Invariance == Spec => []IInv
  <1>1. QED
    BY InitIInv, StepIInv, PTL DEF Spec

\* The assertion of EnterSynchronizationBarrier holds: the counter that is
\* refilled without a lock is never taken below zero.
THEOREM CounterSafe == Spec => []NeverTooMany
  <1>1. IInv => NeverTooMany
    BY TotalType DEF IInv, TypeOK, NeverTooMany
  <1>2. QED
    BY <1>1, Invariance, PTL

\* What a step of the barrier is to the rendezvous
LEMMA StepImplements ==
  ASSUME IInv, [Next]_vars
  PROVE  [R!Next]_R!vars
  <1>1. CASE Next
    <2>1. PICK t \in Threads : Proceed(t) \/ \E f \in {"none", "block", "spin"} : Enter(t, f)
      BY <1>1 DEF Next
    <2>2. CASE \/ (\E f \in {"none", "block", "spin"} : Enter(t, f))
               \/ ReadDormant(t) \/ SpinEnds(t)
               \/ ResetDormant(t) \/ Refill(t) \/ SwapDormant(t) \/ SwapCurrent(t)
      BY <2>2 DEF Enter, ReadDormant, SpinEnds, ResetDormant, Refill, SwapDormant, SwapCurrent,
                  history, R!vars
    <2>3. CASE Decrement(t)
      <3>1. R!Enter(t)
        BY <2>3, DecrementKeepsIInv DEF Decrement, R!Enter
      <3>2. QED
        BY <3>1 DEF R!Next
    <2>4. CASE SpinLeave(t) \/ BlockLeave(t)
      <3>1. /\ pc[t] \in Waiting /\ entered[t] = round /\ left[t] = round - 1
            /\ round \in Nat
        BY <2>4, MayLeave DEF IInv, TypeOK
      <3>2. R!Complete(t)
        BY <3>1, ThreadFacts DEF R!Complete
      <3>3. serial = entered[t] \/ \E u \in Threads \ {t} : left[u] < entered[t]
        <4>1. CASE \E u \in Threads : pc[u] \in Swapping \cup {"set"}
          <5>1. PICK u \in Threads : pc[u] \in Swapping \cup {"set"}
            BY <4>1
          <5>2. u # t
            BY <3>1, <5>1 DEF Waiting, Swapping
          <5>3. left[u] = round - 1
            BY <5>1, SwapFacts DEF Inside
          <5>4. QED
            BY <3>1, <5>2, <5>3
        <4>2. CASE ~ \E u \in Threads : pc[u] \in Swapping \cup {"set"}
          BY <3>1, <4>2 DEF IInv, LastInv
        <4>3. QED
          BY <4>1, <4>2
      <3>4. R!LeaveFalse(t)
        BY <2>4, <3>2, <3>3 DEF R!LeaveFalse, SpinLeave, BlockLeave, Leave
      <3>5. QED
        BY <3>4 DEF R!Next
    <2>5. CASE SetCurrent(t)
      <3>1. /\ entered[t] = round /\ left[t] = round - 1 /\ round \in Nat \ {0}
            /\ serial = left[t]
        BY <2>5, SwapFacts DEF SetCurrent, Inside
      <3>2. R!Complete(t)
        BY <3>1, ThreadFacts DEF R!Complete
      <3>3. R!LeaveTrue(t)
        BY <2>5, <3>1, <3>2 DEF R!LeaveTrue, SetCurrent, Leave
      <3>4. QED
        BY <3>3 DEF R!Next
    <2>6. QED
      BY <2>1, <2>2, <2>3, <2>4, <2>5 DEF Proceed
  <1>2. CASE UNCHANGED vars
    BY <1>2 DEF vars, history, R!vars
  <1>3. QED
    BY <1>1, <1>2

\* The barrier is a rendezvous: nobody leaves a round before everyone is in it,
\* and exactly one thread per round gets TRUE from EnterSynchronizationBarrier.
THEOREM Refinement == Spec => ImplementsRendezvous
  <1>1. Init => R!Init
    BY DEF Init, R!Init
  <1>2. QED
    BY <1>1, StepImplements, Invariance, PTL DEF Spec, ImplementsRendezvous, R!Spec
=============================================================================
