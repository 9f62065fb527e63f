------------------------- MODULE CriticalSectionProofs -------------------------
(***************************************************************************)
(* Proof that the critical section of winpr excludes its threads, counts   *)
(* their calls and posts its semaphore only for a waiter, for any finite   *)
(* set of threads, any spin count and any nesting.                         *)
(***************************************************************************)
EXTENDS CriticalSection, FiniteSetTheorems, TLAPS

\* The threads that lost the race for the counter are finitely many, before and
\* after a step: their number can be added and subtracted.
LEMMA WaitersFinite ==
  /\ IsFiniteSet(Waiters) /\ Cardinality(Waiters) \in Nat
  /\ IsFiniteSet(Waiters') /\ Cardinality(Waiters') \in Nat
<1>1. Waiters \subseteq Threads /\ Waiters' \subseteq Threads
  BY DEF Waiters
<1>2. QED
  BY <1>1, CSAssumption, FS_Subset, FS_CardinalityType

\* Initially nobody has called, and the invariant holds.
LEMMA InitIInv == Init => IInv
<1> SUFFICES ASSUME Init PROVE IInv
  OBVIOUS
<1>1. Waiters = {}
  BY DEF Init, Waiters
<1>2. Cardinality(Waiters) = 0
  BY <1>1, FS_EmptySet
<1>3. TypeOK
  BY CSAssumption DEF Init, TypeOK, Labels
<1>4. MutualExclusion /\ PositionInv
  BY DEF Init, MutualExclusion, PositionInv, Holds
<1>5. OwnerInv
  BY CSAssumption DEF Init, OwnerInv
<1>6. TokenInv
  BY DEF Init, TokenInv, HandOver, Holds
<1>7. CountInv
  BY <1>2 DEF Init, CountInv, Holds
<1> QED
  BY <1>3, <1>4, <1>5, <1>6, <1>7 DEF IInv

\* The caller decides to enter: it has not touched the section yet.
LEMMA EnterCriticalSectionIInv ==
  ASSUME IInv, NEW t \in Threads, EnterCriticalSection(t)
  PROVE  IInv'
<1> USE DEF EnterCriticalSection, Goto
<1>1. TypeOK'
  BY CSAssumption DEF IInv, TypeOK, Labels, OwnerInv
<1>2. MutualExclusion'
  BY DEF IInv, TypeOK, MutualExclusion, PositionInv, OwnerInv, TokenInv,
     HandOver, Holds
<1>3. PositionInv'
  BY DEF IInv, TypeOK, PositionInv, OwnerInv, TokenInv, MutualExclusion, Holds
<1>4. OwnerInv'
  BY CSAssumption DEF IInv, TypeOK, PositionInv, OwnerInv, MutualExclusion, Holds
<1>5. Waiters' = Waiters
  BY DEF IInv, TypeOK, PositionInv, OwnerInv, TokenInv, MutualExclusion,
     Holds, Waiters
<1>6. CountInv'
  BY <1>5, WaitersFinite DEF IInv, TypeOK, PositionInv, OwnerInv, TokenInv,
     CountInv, MutualExclusion, HandOver, Holds, Counted
<1>7. TokenInv'
  BY <1>5, WaitersFinite DEF IInv, TypeOK, PositionInv, OwnerInv, TokenInv,
     CountInv, MutualExclusion, HandOver, Holds, Counted
<1> QED
  BY <1>1, <1>2, <1>3, <1>4, <1>6, <1>7 DEF IInv

\* The caller decides to try: it has not touched the section yet.
LEMMA TryEnterCriticalSectionIInv ==
  ASSUME IInv, NEW t \in Threads, TryEnterCriticalSection(t)
  PROVE  IInv'
<1> USE DEF TryEnterCriticalSection, Goto
<1>1. TypeOK'
  BY CSAssumption DEF IInv, TypeOK, Labels, OwnerInv
<1>2. MutualExclusion'
  BY DEF IInv, TypeOK, MutualExclusion, PositionInv, OwnerInv, TokenInv,
     HandOver, Holds
<1>3. PositionInv'
  BY DEF IInv, TypeOK, PositionInv, OwnerInv, TokenInv, MutualExclusion, Holds
<1>4. OwnerInv'
  BY CSAssumption DEF IInv, TypeOK, PositionInv, OwnerInv, MutualExclusion, Holds
<1>5. Waiters' = Waiters
  BY DEF IInv, TypeOK, PositionInv, OwnerInv, TokenInv, MutualExclusion,
     Holds, Waiters
<1>6. CountInv'
  BY <1>5, WaitersFinite DEF IInv, TypeOK, PositionInv, OwnerInv, TokenInv,
     CountInv, MutualExclusion, HandOver, Holds, Counted
<1>7. TokenInv'
  BY <1>5, WaitersFinite DEF IInv, TypeOK, PositionInv, OwnerInv, TokenInv,
     CountInv, MutualExclusion, HandOver, Holds, Counted
<1> QED
  BY <1>1, <1>2, <1>3, <1>4, <1>6, <1>7 DEF IInv

\* The outermost leave clears the owner but still holds the section: LockCount
\* is decremented later.
LEMMA LeaveCriticalSectionIInv ==
  ASSUME IInv, NEW t \in Threads, LeaveCriticalSection(t)
  PROVE  IInv'
<1> USE DEF LeaveCriticalSection, Goto
<1>1. TypeOK'
  BY CSAssumption DEF IInv, TypeOK, Labels, OwnerInv
<1>2. MutualExclusion'
  BY DEF IInv, TypeOK, MutualExclusion, PositionInv, OwnerInv, TokenInv,
     HandOver, Holds
<1>3. PositionInv'
  BY DEF IInv, TypeOK, PositionInv, OwnerInv, TokenInv, MutualExclusion, Holds
<1>4. OwnerInv'
  BY CSAssumption DEF IInv, TypeOK, PositionInv, OwnerInv, MutualExclusion, Holds
<1>5. Waiters' = Waiters
  BY DEF IInv, TypeOK, PositionInv, OwnerInv, TokenInv, MutualExclusion,
     Holds, Waiters
<1>6. CountInv'
  BY <1>5, WaitersFinite DEF IInv, TypeOK, PositionInv, OwnerInv, TokenInv,
     CountInv, MutualExclusion, HandOver, Holds, Counted
<1>7. TokenInv'
  BY <1>5, WaitersFinite DEF IInv, TypeOK, PositionInv, OwnerInv, TokenInv,
     CountInv, MutualExclusion, HandOver, Holds, Counted
<1> QED
  BY <1>1, <1>2, <1>3, <1>4, <1>6, <1>7 DEF IInv

\* The first compare-exchange takes the section only when nobody holds it and
\* no post is under way.
LEMMA TryCasIInv ==
  ASSUME IInv, NEW t \in Threads, TryCas(t)
  PROVE  IInv'
<1> USE DEF TryCas, CompareExchange, Goto
<1>1. TypeOK'
  BY CSAssumption DEF IInv, TypeOK, Labels, OwnerInv
<1>2. MutualExclusion'
  BY DEF IInv, TypeOK, MutualExclusion, PositionInv, OwnerInv, TokenInv,
     HandOver, Holds
<1>3. PositionInv'
  BY DEF IInv, TypeOK, PositionInv, OwnerInv, TokenInv, MutualExclusion, Holds
<1>4. OwnerInv'
  BY CSAssumption DEF IInv, TypeOK, PositionInv, OwnerInv, MutualExclusion, Holds
<1>5. Waiters' = Waiters
  BY DEF IInv, TypeOK, PositionInv, OwnerInv, TokenInv, MutualExclusion,
     Holds, Waiters
<1>6. CountInv'
  BY <1>5, WaitersFinite DEF IInv, TypeOK, PositionInv, OwnerInv, TokenInv,
     CountInv, MutualExclusion, HandOver, Holds, Counted
<1>7. TokenInv'
  BY <1>5, WaitersFinite DEF IInv, TypeOK, PositionInv, OwnerInv, TokenInv,
     CountInv, MutualExclusion, HandOver, Holds, Counted
<1> QED
  BY <1>1, <1>2, <1>3, <1>4, <1>6, <1>7 DEF IInv

\* The unprotected read of OwningThread recognises exactly the holder.
LEMMA TryOwnerIInv ==
  ASSUME IInv, NEW t \in Threads, TryOwner(t)
  PROVE  IInv'
<1> USE DEF TryOwner, Goto
<1>1. TypeOK'
  BY CSAssumption DEF IInv, TypeOK, Labels, OwnerInv
<1>2. MutualExclusion'
  BY DEF IInv, TypeOK, MutualExclusion, PositionInv, OwnerInv, TokenInv,
     HandOver, Holds
<1>3. PositionInv'
  BY DEF IInv, TypeOK, PositionInv, OwnerInv, TokenInv, MutualExclusion, Holds
<1>4. OwnerInv'
  BY CSAssumption DEF IInv, TypeOK, PositionInv, OwnerInv, MutualExclusion, Holds
<1>5. Waiters' = Waiters
  BY DEF IInv, TypeOK, PositionInv, OwnerInv, TokenInv, MutualExclusion,
     Holds, Waiters
<1>6. CountInv'
  BY <1>5, WaitersFinite DEF IInv, TypeOK, PositionInv, OwnerInv, TokenInv,
     CountInv, MutualExclusion, HandOver, Holds, Counted
<1>7. TokenInv'
  BY <1>5, WaitersFinite DEF IInv, TypeOK, PositionInv, OwnerInv, TokenInv,
     CountInv, MutualExclusion, HandOver, Holds, Counted
<1> QED
  BY <1>1, <1>2, <1>3, <1>4, <1>6, <1>7 DEF IInv

\* The holder counts its nested call.
LEMMA TryIncIInv ==
  ASSUME IInv, NEW t \in Threads, TryInc(t)
  PROVE  IInv'
<1> USE DEF TryInc, ReturnHolding, Goto
<1>1. TypeOK'
  BY CSAssumption DEF IInv, TypeOK, Labels, OwnerInv
<1>2. MutualExclusion'
  BY DEF IInv, TypeOK, MutualExclusion, PositionInv, OwnerInv, TokenInv,
     HandOver, Holds
<1>3. PositionInv'
  BY DEF IInv, TypeOK, PositionInv, OwnerInv, TokenInv, MutualExclusion, Holds
<1>4. OwnerInv'
  BY CSAssumption DEF IInv, TypeOK, PositionInv, OwnerInv, MutualExclusion, Holds
<1>5. Waiters' = Waiters
  BY DEF IInv, TypeOK, PositionInv, OwnerInv, TokenInv, MutualExclusion,
     Holds, Waiters
<1>6. CountInv'
  BY <1>5, WaitersFinite DEF IInv, TypeOK, PositionInv, OwnerInv, TokenInv,
     CountInv, MutualExclusion, HandOver, Holds, Counted
<1>7. TokenInv'
  BY <1>5, WaitersFinite DEF IInv, TypeOK, PositionInv, OwnerInv, TokenInv,
     CountInv, MutualExclusion, HandOver, Holds, Counted
<1> QED
  BY <1>1, <1>2, <1>3, <1>4, <1>6, <1>7 DEF IInv

\* Spinning changes no shared state.
LEMMA SpinIInv ==
  ASSUME IInv, NEW t \in Threads, Spin(t)
  PROVE  IInv'
<1> USE DEF Spin, Goto
<1>1. TypeOK'
  BY CSAssumption DEF IInv, TypeOK, Labels, OwnerInv
<1>2. MutualExclusion'
  BY DEF IInv, TypeOK, MutualExclusion, PositionInv, OwnerInv, TokenInv,
     HandOver, Holds
<1>3. PositionInv'
  BY DEF IInv, TypeOK, PositionInv, OwnerInv, TokenInv, MutualExclusion, Holds
<1>4. OwnerInv'
  BY CSAssumption DEF IInv, TypeOK, PositionInv, OwnerInv, MutualExclusion, Holds
<1>5. Waiters' = Waiters
  BY DEF IInv, TypeOK, PositionInv, OwnerInv, TokenInv, MutualExclusion,
     Holds, Waiters
<1>6. CountInv'
  BY <1>5, WaitersFinite DEF IInv, TypeOK, PositionInv, OwnerInv, TokenInv,
     CountInv, MutualExclusion, HandOver, Holds, Counted
<1>7. TokenInv'
  BY <1>5, WaitersFinite DEF IInv, TypeOK, PositionInv, OwnerInv, TokenInv,
     CountInv, MutualExclusion, HandOver, Holds, Counted
<1> QED
  BY <1>1, <1>2, <1>3, <1>4, <1>6, <1>7 DEF IInv

\* The compare-exchange of the spin loop takes the section like the first one.
LEMMA SpinCasIInv ==
  ASSUME IInv, NEW t \in Threads, SpinCas(t)
  PROVE  IInv'
<1> USE DEF SpinCas, CompareExchange, Goto
<1>1. TypeOK'
  BY CSAssumption DEF IInv, TypeOK, Labels, OwnerInv
<1>2. MutualExclusion'
  BY DEF IInv, TypeOK, MutualExclusion, PositionInv, OwnerInv, TokenInv,
     HandOver, Holds
<1>3. PositionInv'
  BY DEF IInv, TypeOK, PositionInv, OwnerInv, TokenInv, MutualExclusion, Holds
<1>4. OwnerInv'
  BY CSAssumption DEF IInv, TypeOK, PositionInv, OwnerInv, MutualExclusion, Holds
<1>5. Waiters' = Waiters
  BY DEF IInv, TypeOK, PositionInv, OwnerInv, TokenInv, MutualExclusion,
     Holds, Waiters
<1>6. CountInv'
  BY <1>5, WaitersFinite DEF IInv, TypeOK, PositionInv, OwnerInv, TokenInv,
     CountInv, MutualExclusion, HandOver, Holds, Counted
<1>7. TokenInv'
  BY <1>5, WaitersFinite DEF IInv, TypeOK, PositionInv, OwnerInv, TokenInv,
     CountInv, MutualExclusion, HandOver, Holds, Counted
<1> QED
  BY <1>1, <1>2, <1>3, <1>4, <1>6, <1>7 DEF IInv

\* The increment either takes the free section, counts a nested call of the
\* holder, or adds the thread to the waiters.
LEMMA IncrementIInv ==
  ASSUME IInv, NEW t \in Threads, Increment(t)
  PROVE  IInv'
<1> USE DEF Increment, Goto
<1>1. TypeOK'
  BY CSAssumption DEF IInv, TypeOK, Labels, OwnerInv
<1>2. MutualExclusion'
  BY DEF IInv, TypeOK, MutualExclusion, PositionInv, OwnerInv, TokenInv,
     HandOver, Holds
<1>3. PositionInv'
  BY DEF IInv, TypeOK, PositionInv, OwnerInv, TokenInv, MutualExclusion, Holds
<1>4. OwnerInv'
  BY CSAssumption DEF IInv, TypeOK, PositionInv, OwnerInv, MutualExclusion, Holds
<1>5. TokenInv'
  BY WaitersFinite DEF IInv, TypeOK, PositionInv, OwnerInv, TokenInv,
     CountInv, MutualExclusion, HandOver, Holds, Counted
<1>6. CASE LockCount + 1 # 0 /\ depth[t] = 0
  <2>1. t \notin Waiters /\ Waiters' = Waiters \cup {t}
    BY <1>6 DEF IInv, TypeOK, Waiters
  <2>2. Cardinality(Waiters') = Cardinality(Waiters) + 1
    BY <2>1, WaitersFinite, FS_AddElement
  <2>3. CountInv'
    BY <1>6, <2>2, WaitersFinite DEF IInv, TypeOK, PositionInv, TokenInv, CountInv,
       HandOver, Holds, Counted
  <2> QED
    BY <1>1, <1>2, <1>3, <1>4, <1>5, <2>3 DEF IInv
<1>7. CASE ~(LockCount + 1 # 0 /\ depth[t] = 0)
  <2>1. Waiters' = Waiters
    BY <1>7 DEF IInv, TypeOK, PositionInv, Waiters
  <2>2. CountInv'
    BY <1>7, <2>1, WaitersFinite DEF IInv, TypeOK, PositionInv, MutualExclusion, TokenInv, CountInv,
       HandOver, Holds, Counted
  <2> QED
    BY <1>1, <1>2, <1>3, <1>4, <1>5, <2>2 DEF IInv
<1> QED
  BY <1>6, <1>7

\* The second unprotected read of OwningThread: the holder returns, a waiter
\* goes on to wait.
LEMMA CheckOwnerIInv ==
  ASSUME IInv, NEW t \in Threads, CheckOwner(t)
  PROVE  IInv'
<1> USE DEF CheckOwner, ReturnHolding, Goto
<1>1. TypeOK'
  BY CSAssumption DEF IInv, TypeOK, Labels, OwnerInv
<1>2. MutualExclusion'
  BY DEF IInv, TypeOK, MutualExclusion, PositionInv, OwnerInv, TokenInv,
     HandOver, Holds
<1>3. PositionInv'
  BY DEF IInv, TypeOK, PositionInv, OwnerInv, TokenInv, MutualExclusion, Holds
<1>4. OwnerInv'
  BY CSAssumption DEF IInv, TypeOK, PositionInv, OwnerInv, MutualExclusion, Holds
<1>5. Waiters' = Waiters
  BY DEF IInv, TypeOK, PositionInv, OwnerInv, TokenInv, MutualExclusion,
     Holds, Waiters
<1>6. CountInv'
  BY <1>5, WaitersFinite DEF IInv, TypeOK, PositionInv, OwnerInv, TokenInv,
     CountInv, MutualExclusion, HandOver, Holds, Counted
<1>7. TokenInv'
  BY <1>5, WaitersFinite DEF IInv, TypeOK, PositionInv, OwnerInv, TokenInv,
     CountInv, MutualExclusion, HandOver, Holds, Counted
<1> QED
  BY <1>1, <1>2, <1>3, <1>4, <1>6, <1>7 DEF IInv

\* The post is consumed by a waiter, which becomes the holder.
LEMMA WaitForCriticalSectionIInv ==
  ASSUME IInv, NEW t \in Threads, WaitForCriticalSection(t)
  PROVE  IInv'
<1> USE DEF WaitForCriticalSection, Goto
<1>1. TypeOK'
  BY CSAssumption DEF IInv, TypeOK, Labels, OwnerInv
<1>2. MutualExclusion'
  BY DEF IInv, TypeOK, MutualExclusion, PositionInv, OwnerInv, TokenInv,
     HandOver, Holds
<1>3. PositionInv'
  BY DEF IInv, TypeOK, PositionInv, OwnerInv, TokenInv, MutualExclusion, Holds
<1>4. OwnerInv'
  BY CSAssumption DEF IInv, TypeOK, PositionInv, OwnerInv, MutualExclusion, Holds
<1>5. t \in Waiters /\ Waiters' = Waiters \ {t}
  BY DEF IInv, TypeOK, PositionInv, Waiters
<1>6. CountInv'
  <2>1. Cardinality(Waiters') = Cardinality(Waiters) - 1
    BY <1>5, WaitersFinite, FS_RemoveElement
  <2> QED
    BY <2>1, WaitersFinite DEF IInv, TypeOK, PositionInv, TokenInv, CountInv,
       HandOver, Holds, Counted
<1>7. TokenInv'
  BY WaitersFinite DEF IInv, TypeOK, PositionInv, OwnerInv, TokenInv,
     CountInv, MutualExclusion, HandOver, Holds, Counted
<1> QED
  BY <1>1, <1>2, <1>3, <1>4, <1>6, <1>7 DEF IInv

\* The new holder writes itself into OwningThread.
LEMMA OwnIInv ==
  ASSUME IInv, NEW t \in Threads, Own(t)
  PROVE  IInv'
<1> USE DEF Own, ReturnHolding, Goto
<1>1. TypeOK'
  BY CSAssumption DEF IInv, TypeOK, Labels, OwnerInv
<1>2. MutualExclusion'
  BY DEF IInv, TypeOK, MutualExclusion, PositionInv, OwnerInv, TokenInv,
     HandOver, Holds
<1>3. PositionInv'
  BY DEF IInv, TypeOK, PositionInv, OwnerInv, TokenInv, MutualExclusion, Holds
<1>4. OwnerInv'
  BY CSAssumption DEF IInv, TypeOK, PositionInv, OwnerInv, MutualExclusion, Holds
<1>5. Waiters' = Waiters
  BY DEF IInv, TypeOK, PositionInv, OwnerInv, TokenInv, MutualExclusion,
     Holds, Waiters
<1>6. CountInv'
  BY <1>5, WaitersFinite DEF IInv, TypeOK, PositionInv, OwnerInv, TokenInv,
     CountInv, MutualExclusion, HandOver, Holds, Counted
<1>7. TokenInv'
  BY <1>5, WaitersFinite DEF IInv, TypeOK, PositionInv, OwnerInv, TokenInv,
     CountInv, MutualExclusion, HandOver, Holds, Counted
<1> QED
  BY <1>1, <1>2, <1>3, <1>4, <1>6, <1>7 DEF IInv

\* The section is given up: it becomes free, or a post for a waiter is due.
LEMMA DecrementLastIInv ==
  ASSUME IInv, NEW t \in Threads, DecrementLast(t)
  PROVE  IInv'
<1> USE DEF DecrementLast, Goto
<1>1. TypeOK'
  BY CSAssumption DEF IInv, TypeOK, Labels, OwnerInv
<1>2. MutualExclusion'
  BY DEF IInv, TypeOK, MutualExclusion, PositionInv, OwnerInv, TokenInv,
     HandOver, Holds
<1>3. PositionInv'
  BY DEF IInv, TypeOK, PositionInv, OwnerInv, TokenInv, MutualExclusion, Holds
<1>4. OwnerInv'
  BY CSAssumption DEF IInv, TypeOK, PositionInv, OwnerInv, MutualExclusion, Holds
<1>5. Waiters' = Waiters
  BY DEF IInv, TypeOK, PositionInv, OwnerInv, TokenInv, MutualExclusion,
     Holds, Waiters
<1>6. CountInv'
  BY <1>5, WaitersFinite DEF IInv, TypeOK, PositionInv, OwnerInv, TokenInv,
     CountInv, MutualExclusion, HandOver, Holds, Counted
<1>7. TokenInv'
  BY <1>5, WaitersFinite DEF IInv, TypeOK, PositionInv, OwnerInv, TokenInv,
     CountInv, MutualExclusion, HandOver, Holds, Counted
<1> QED
  BY <1>1, <1>2, <1>3, <1>4, <1>6, <1>7 DEF IInv

\* A nested leave of the holder.
LEMMA DecrementNestedIInv ==
  ASSUME IInv, NEW t \in Threads, DecrementNested(t)
  PROVE  IInv'
<1> USE DEF DecrementNested, Goto
<1>1. TypeOK'
  BY CSAssumption DEF IInv, TypeOK, Labels, OwnerInv
<1>2. MutualExclusion'
  BY DEF IInv, TypeOK, MutualExclusion, PositionInv, OwnerInv, TokenInv,
     HandOver, Holds
<1>3. PositionInv'
  BY DEF IInv, TypeOK, PositionInv, OwnerInv, TokenInv, MutualExclusion, Holds
<1>4. OwnerInv'
  BY CSAssumption DEF IInv, TypeOK, PositionInv, OwnerInv, MutualExclusion, Holds
<1>5. Waiters' = Waiters
  BY DEF IInv, TypeOK, PositionInv, OwnerInv, TokenInv, MutualExclusion,
     Holds, Waiters
<1>6. CountInv'
  BY <1>5, WaitersFinite DEF IInv, TypeOK, PositionInv, OwnerInv, TokenInv,
     CountInv, MutualExclusion, HandOver, Holds, Counted
<1>7. TokenInv'
  BY <1>5, WaitersFinite DEF IInv, TypeOK, PositionInv, OwnerInv, TokenInv,
     CountInv, MutualExclusion, HandOver, Holds, Counted
<1> QED
  BY <1>1, <1>2, <1>3, <1>4, <1>6, <1>7 DEF IInv

\* The post that is due is made.
LEMMA UnWaitCriticalSectionIInv ==
  ASSUME IInv, NEW t \in Threads, UnWaitCriticalSection(t)
  PROVE  IInv'
<1> USE DEF UnWaitCriticalSection, Goto
<1>1. TypeOK'
  BY CSAssumption DEF IInv, TypeOK, Labels, OwnerInv
<1>2. MutualExclusion'
  BY DEF IInv, TypeOK, MutualExclusion, PositionInv, OwnerInv, TokenInv,
     HandOver, Holds
<1>3. PositionInv'
  BY DEF IInv, TypeOK, PositionInv, OwnerInv, TokenInv, MutualExclusion, Holds
<1>4. OwnerInv'
  BY CSAssumption DEF IInv, TypeOK, PositionInv, OwnerInv, MutualExclusion, Holds
<1>5. Waiters' = Waiters
  BY DEF IInv, TypeOK, PositionInv, OwnerInv, TokenInv, MutualExclusion,
     Holds, Waiters
<1>6. CountInv'
  BY <1>5, WaitersFinite DEF IInv, TypeOK, PositionInv, OwnerInv, TokenInv,
     CountInv, MutualExclusion, HandOver, Holds, Counted
<1>7. TokenInv'
  BY <1>5, WaitersFinite DEF IInv, TypeOK, PositionInv, OwnerInv, TokenInv,
     CountInv, MutualExclusion, HandOver, Holds, Counted
<1> QED
  BY <1>1, <1>2, <1>3, <1>4, <1>6, <1>7 DEF IInv

\* The spin count plays no part in the invariant.
LEMMA SetCriticalSectionSpinCountIInv ==
  ASSUME IInv, NEW n \in 0..MaxSpin, SetCriticalSectionSpinCount(n)
  PROVE  IInv'
<1>1. TypeOK'
  BY DEF IInv, TypeOK, SetCriticalSectionSpinCount
<1>2. Waiters' = Waiters /\ HandOver' = HandOver
  BY DEF SetCriticalSectionSpinCount, Waiters, HandOver
<1>3. (MutualExclusion /\ PositionInv /\ OwnerInv /\ TokenInv /\ CountInv)'
  BY <1>2 DEF IInv, SetCriticalSectionSpinCount, MutualExclusion, PositionInv,
     OwnerInv, TokenInv, CountInv, Holds, Counted
<1> QED
  BY <1>1, <1>3 DEF IInv

\* Every step of the threads keeps the invariant.
LEMMA NextIInv == IInv /\ [Next]_vars => IInv'
<1> SUFFICES ASSUME IInv, [Next]_vars PROVE IInv'
  OBVIOUS
<1>1. CASE UNCHANGED vars
  BY <1>1 DEF vars, IInv, TypeOK, MutualExclusion, PositionInv, OwnerInv,
     TokenInv, CountInv, Holds, Counted, Waiters, HandOver
<1>2. ASSUME NEW t \in Threads, Proceed(t) PROVE IInv'
  BY <1>2, TryCasIInv, TryOwnerIInv, TryIncIInv, SpinIInv, SpinCasIInv,
     IncrementIInv, CheckOwnerIInv, WaitForCriticalSectionIInv, OwnIInv,
     DecrementLastIInv, DecrementNestedIInv, UnWaitCriticalSectionIInv
  DEF Proceed
<1>3. QED
  BY <1>1, <1>2, EnterCriticalSectionIInv, TryEnterCriticalSectionIInv,
     LeaveCriticalSectionIInv, SetCriticalSectionSpinCountIInv DEF Next

\* The inductive invariant of critical.c holds in every reachable state: there
\* is one token, the owner and the recursion count are those of the holder, and
\* LockCount + 1 is the number of calls of the holder plus the waiters.
THEOREM Invariance == Spec => []IInv
<1> QED
  BY InitIInv, NextIInv, PTL DEF Spec

\* Mutual exclusion of EnterCriticalSection/TryEnterCriticalSection ..
\* LeaveCriticalSection for any number of threads, nesting and spin count.
THEOREM Exclusion == Spec => []MutualExclusion
<1>1. IInv => MutualExclusion
  BY DEF IInv
<1> QED
  BY <1>1, Invariance, PTL

\* A nested EnterCriticalSection or TryEnterCriticalSection never waits for
\* the thread's own section, and the recursion count is exact between calls.
THEOREM Recursion == Spec => []RecursionIsRecognised
<1>1. IInv => RecursionIsRecognised
  BY DEF IInv, TypeOK, PositionInv, OwnerInv, RecursionIsRecognised
<1> QED
  BY <1>1, Invariance, PTL

\* sem_post in UnWaitCriticalSection is never made, nor made twice, without a
\* thread that waits for it, and never while a thread holds the section.
THEOREM PostsAreDue == Spec => []NoSurplusPost
<1>1. ASSUME IInv PROVE NoSurplusPost
  <2> SUFFICES ASSUME HandOver PROVE Waiters # {}
    BY <1>1 DEF IInv, TokenInv, NoSurplusPost
  <2>1. LockCount # -1 /\ \A t \in Threads : ~Holds(t)
    BY <1>1 DEF IInv, TokenInv
  <2>2. Cardinality(Waiters) # 0
    BY <1>1, <2>1, WaitersFinite DEF IInv, TypeOK, CountInv
  <2> QED
    BY <2>2, FS_EmptySet
<1> QED
  BY <1>1, Invariance, PTL

=============================================================================
