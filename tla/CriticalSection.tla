---------------------------- MODULE CriticalSection ----------------------------
(***************************************************************************)
(* The recursive lock of winpr (winpr/libwinpr/synch/critical.c) on the    *)
(* platforms without a native CRITICAL_SECTION: a counter changed with     *)
(* interlocked operations, an owner, a recursion count and a semaphore on  *)
(* which the threads wait that lost the race for the counter.              *)
(*                                                                         *)
(* One action is one access to shared memory that another thread can tell  *)
(* apart: the interlocked operations, the unprotected reads of             *)
(* OwningThread, the writes of the new owner, sem_wait and sem_post.       *)
(* RecursionCount is only ever touched by the holder, so its updates are   *)
(* merged with the neighbouring write of OwningThread.                     *)
(***************************************************************************)
EXTENDS Integers, FiniteSets

CONSTANTS Threads,   \* the threads that share the critical section
          NoThread,  \* OwningThread == NULL
          MaxSpin,   \* bound on dwSpinCount
          MaxDepth   \* bound on how deep a thread nests its calls

ASSUME CSAssumption ==
  /\ IsFiniteSet(Threads)
  /\ NoThread \notin Threads
  /\ MaxSpin \in Nat
  /\ MaxDepth \in Nat \ {0}

VARIABLES LockCount,       \* calls in progress minus one, -1 when free
          RecursionCount,  \* how often the owner entered
          OwningThread,
          LockSemaphore,   \* value of the POSIX semaphore
          SpinCount,       \* configured number of spins
          pc,              \* where each thread is in its current call
          spin,            \* local copy of SpinCount in EnterCriticalSection
          call,            \* the call a thread is in: "Enter" or "TryEnter"
          depth            \* Enter/TryEnter calls of a thread it has not left

vars == <<LockCount, RecursionCount, OwningThread, LockSemaphore, SpinCount,
          pc, spin, call, depth>>

Labels == {"idle", "tryCas", "tryOwner", "tryInc", "spin", "spinCas", "inc",
           "checkOwner", "wait", "own", "decLast", "decNested", "post"}

Init ==
  /\ LockCount = -1
  /\ RecursionCount = 0
  /\ OwningThread = NoThread
  /\ LockSemaphore = 0
  /\ SpinCount \in 0..MaxSpin
  /\ pc = [t \in Threads |-> "idle"]
  /\ spin = [t \in Threads |-> 0]
  /\ call = [t \in Threads |-> "Enter"]
  /\ depth = [t \in Threads |-> 0]

Goto(t, l) == pc' = [pc EXCEPT ![t] = l]

\* The call returns with the section held once more.
ReturnHolding(t) ==
  /\ Goto(t, "idle")
  /\ depth' = [depth EXCEPT ![t] = @ + 1]

-----------------------------------------------------------------------------
SetCriticalSectionSpinCount(n) ==
  /\ SpinCount' = n
  /\ UNCHANGED <<LockCount, RecursionCount, OwningThread, LockSemaphore, pc,
                 spin, call, depth>>

\* With a spin count the call first tries, without one it goes straight for
\* the counter.
EnterCriticalSection(t) ==
  /\ pc[t] = "idle" /\ depth[t] < MaxDepth
  /\ spin' = [spin EXCEPT ![t] = SpinCount]
  /\ call' = [call EXCEPT ![t] = "Enter"]
  /\ Goto(t, IF SpinCount > 0 THEN "tryCas" ELSE "inc")
  /\ UNCHANGED <<LockCount, RecursionCount, OwningThread, LockSemaphore,
                 SpinCount, depth>>

TryEnterCriticalSection(t) ==
  /\ pc[t] = "idle" /\ depth[t] < MaxDepth
  /\ call' = [call EXCEPT ![t] = "TryEnter"]
  /\ Goto(t, "tryCas")
  /\ UNCHANGED <<LockCount, RecursionCount, OwningThread, LockSemaphore,
                 SpinCount, spin, depth>>

\* InterlockedCompareExchange(&LockCount, 0, -1): the free section is taken,
\* otherwise the thread goes on at "lost".
CompareExchange(t, lost) ==
  /\ IF LockCount = -1
     THEN LockCount' = 0 /\ Goto(t, "own")
     ELSE UNCHANGED LockCount /\ Goto(t, lost)
  /\ UNCHANGED <<RecursionCount, OwningThread, LockSemaphore, SpinCount, spin,
                 call, depth>>

TryCas(t) == pc[t] = "tryCas" /\ CompareExchange(t, "tryOwner")

\* The unprotected read of OwningThread in TryEnterCriticalSection.
TryOwner(t) ==
  /\ pc[t] = "tryOwner"
  /\ IF OwningThread = t
     THEN /\ RecursionCount' = RecursionCount + 1
          /\ Goto(t, "tryInc")
     ELSE /\ UNCHANGED RecursionCount
          /\ Goto(t, IF call[t] = "Enter" THEN "spin" ELSE "idle")
  /\ UNCHANGED <<LockCount, OwningThread, LockSemaphore, SpinCount, spin, call,
                 depth>>

TryInc(t) ==
  /\ pc[t] = "tryInc"
  /\ LockCount' = LockCount + 1
  /\ ReturnHolding(t)
  /\ UNCHANGED <<RecursionCount, OwningThread, LockSemaphore, SpinCount, spin,
                 call>>

\* while (SpinCount-- && LockCount < 1)
Spin(t) ==
  /\ pc[t] = "spin"
  /\ spin' = [spin EXCEPT ![t] = IF @ > 0 THEN @ - 1 ELSE 0]
  /\ Goto(t, IF spin[t] > 0 /\ LockCount < 1 THEN "spinCas" ELSE "inc")
  /\ UNCHANGED <<LockCount, RecursionCount, OwningThread, LockSemaphore,
                 SpinCount, call, depth>>

SpinCas(t) == pc[t] = "spinCas" /\ CompareExchange(t, "spin")

\* Defect for MutualExclusion: the first thread to find the section taken is
\* treated like the one that found it free.
Increment_OffByOne(t) ==
  /\ pc[t] = "inc"
  /\ LockCount' = LockCount + 1
  /\ Goto(t, IF LockCount + 1 > 1 THEN "checkOwner" ELSE "own")
  /\ UNCHANGED <<RecursionCount, OwningThread, LockSemaphore, SpinCount, spin,
                 call, depth>>

\* InterlockedIncrement(&LockCount): zero means the section was free.
Increment(t) ==
  /\ pc[t] = "inc"
  /\ LockCount' = LockCount + 1
  /\ Goto(t, IF LockCount + 1 # 0 THEN "checkOwner" ELSE "own")
  /\ UNCHANGED <<RecursionCount, OwningThread, LockSemaphore, SpinCount, spin,
                 call, depth>>

\* The unprotected read of OwningThread in EnterCriticalSection.
CheckOwner(t) ==
  /\ pc[t] = "checkOwner"
  /\ IF OwningThread = t
     THEN /\ RecursionCount' = RecursionCount + 1
          /\ ReturnHolding(t)
     ELSE /\ Goto(t, "wait")
          /\ UNCHANGED <<RecursionCount, depth>>
  /\ UNCHANGED <<LockCount, OwningThread, LockSemaphore, SpinCount, spin, call>>

WaitForCriticalSection(t) ==
  /\ pc[t] = "wait"
  /\ LockSemaphore > 0
  /\ LockSemaphore' = LockSemaphore - 1
  /\ Goto(t, "own")
  /\ UNCHANGED <<LockCount, RecursionCount, OwningThread, SpinCount, spin, call,
                 depth>>

\* We got the lock. Own it ...
Own(t) ==
  /\ pc[t] = "own"
  /\ RecursionCount' = 1
  /\ OwningThread' = t
  /\ ReturnHolding(t)
  /\ UNCHANGED <<LockCount, LockSemaphore, SpinCount, spin, call>>

\* Defect for RecursionIsRecognised: a nested call already clears the owner.
LeaveCriticalSection_ClearsOwner(t) ==
  /\ pc[t] = "idle" /\ depth[t] > 0
  /\ depth' = [depth EXCEPT ![t] = @ - 1]
  /\ RecursionCount' = RecursionCount - 1
  /\ OwningThread' = NoThread
  /\ Goto(t, IF RecursionCount - 1 < 1 THEN "decLast" ELSE "decNested")
  /\ UNCHANGED <<LockCount, LockSemaphore, SpinCount, spin, call>>

\* The caller leaves only what it entered; the outermost call clears the owner
\* before the counter is decremented.
LeaveCriticalSection(t) ==
  /\ pc[t] = "idle" /\ depth[t] > 0
  /\ depth' = [depth EXCEPT ![t] = @ - 1]
  /\ RecursionCount' = RecursionCount - 1
  /\ IF RecursionCount - 1 < 1
     THEN OwningThread' = NoThread /\ Goto(t, "decLast")
     ELSE UNCHANGED OwningThread /\ Goto(t, "decNested")
  /\ UNCHANGED <<LockCount, LockSemaphore, SpinCount, spin, call>>

\* Defect for NoSurplusPost: the semaphore is posted although nobody waits.
DecrementLast_AlwaysPosts(t) ==
  /\ pc[t] = "decLast"
  /\ LockCount' = LockCount - 1
  /\ Goto(t, "post")
  /\ UNCHANGED <<RecursionCount, OwningThread, LockSemaphore, SpinCount, spin,
                 call, depth>>

\* Defect for WaiterIsWoken: a single waiter is forgotten.
DecrementLast_ForgetsOne(t) ==
  /\ pc[t] = "decLast"
  /\ LockCount' = LockCount - 1
  /\ Goto(t, IF LockCount - 1 > 0 THEN "post" ELSE "idle")
  /\ UNCHANGED <<RecursionCount, OwningThread, LockSemaphore, SpinCount, spin,
                 call, depth>>

DecrementLast(t) ==
  /\ pc[t] = "decLast"
  /\ LockCount' = LockCount - 1
  /\ Goto(t, IF LockCount - 1 >= 0 THEN "post" ELSE "idle")
  /\ UNCHANGED <<RecursionCount, OwningThread, LockSemaphore, SpinCount, spin,
                 call, depth>>

DecrementNested(t) ==
  /\ pc[t] = "decNested"
  /\ LockCount' = LockCount - 1
  /\ Goto(t, "idle")
  /\ UNCHANGED <<RecursionCount, OwningThread, LockSemaphore, SpinCount, spin,
                 call, depth>>

UnWaitCriticalSection(t) ==
  /\ pc[t] = "post"
  /\ LockSemaphore' = LockSemaphore + 1
  /\ Goto(t, "idle")
  /\ UNCHANGED <<LockCount, RecursionCount, OwningThread, SpinCount, spin, call,
                 depth>>

-----------------------------------------------------------------------------
\* What a thread does on its own once it has called, without the decision of
\* its caller to call Enter, TryEnter or Leave.
Proceed(t) ==
  \/ TryCas(t) \/ TryOwner(t) \/ TryInc(t)
  \/ Spin(t) \/ SpinCas(t)
  \/ Increment(t) \/ CheckOwner(t) \/ WaitForCriticalSection(t) \/ Own(t)
  \/ DecrementLast(t) \/ DecrementNested(t) \/ UnWaitCriticalSection(t)

Next ==
  \/ \E t \in Threads :
        \/ EnterCriticalSection(t)
        \/ TryEnterCriticalSection(t)
        \/ LeaveCriticalSection(t)
        \/ Proceed(t)
  \/ \E n \in 0..MaxSpin : SetCriticalSectionSpinCount(n)

Spec == Init /\ [][Next]_vars

\* A scheduled thread keeps running its call. Nothing is assumed about callers:
\* they may enter or leave, or never call again.
FairSpec == Spec /\ \A t \in Threads : WF_vars(Proceed(t))

-----------------------------------------------------------------------------
TypeOK ==
  /\ LockCount \in Int
  /\ RecursionCount \in Int
  /\ OwningThread \in Threads \cup {NoThread}
  /\ LockSemaphore \in Nat
  /\ SpinCount \in 0..MaxSpin
  /\ pc \in [Threads -> Labels]
  /\ spin \in [Threads -> 0..MaxSpin]
  /\ call \in [Threads -> {"Enter", "TryEnter"}]
  /\ depth \in [Threads -> Nat]

\* From winning the section to the decrement that gives it up.
Holds(t) == depth[t] > 0 \/ pc[t] \in {"own", "decLast"}

\* Calls of t that are counted in LockCount.
Counted(t) ==
  depth[t] + IF pc[t] \in {"own", "checkOwner", "decLast", "decNested"}
             THEN 1 ELSE 0

\* Threads that incremented LockCount and lost.
Waiters ==
  {t \in Threads : depth[t] = 0 /\ pc[t] \in {"checkOwner", "wait"}}

\* The section is on its way to one of the waiters.
HandOver == LockSemaphore > 0 \/ \E t \in Threads : pc[t] = "post"

\* No two threads are inside the section, whichever way they came in:
\* compare-exchange, spinning, increment or semaphore.
MutualExclusion == \A s, t \in Threads : Holds(s) /\ Holds(t) => s = t

\* A thread that enters a section it already holds is recognised as its owner
\* by the unprotected read of OwningThread: it never queues behind itself, and
\* its recursion count is the number of calls it still has to leave.
RecursionIsRecognised ==
  \A t \in Threads :
    depth[t] > 0 =>
      /\ OwningThread = t
      /\ pc[t] \notin {"spin", "spinCas", "wait"}
      /\ pc[t] = "idle" => RecursionCount = depth[t]

\* The semaphore is posted only for a thread that is, or will be, waiting on it,
\* and at most once: a surplus post would let a later waiter in beside the owner.
NoSurplusPost ==
  HandOver => /\ LockSemaphore =< 1
              /\ Waiters # {}
              /\ \A t \in Threads : ~Holds(t)

\* What each position in a call says about the thread's nesting.
PositionInv ==
  \A t \in Threads :
    /\ pc[t] \in {"own", "wait", "post", "spin", "spinCas", "decLast"} => depth[t] = 0
    /\ pc[t] \in {"tryInc", "decNested"} => depth[t] > 0

OwnerInv ==
  /\ \A t \in Threads : OwningThread = t <=> depth[t] > 0
  /\ \A t \in Threads :
       depth[t] > 0 =>
         RecursionCount = depth[t] + IF pc[t] = "tryInc" THEN 1 ELSE 0

\* There is one token: free (LockCount = -1), held, being posted, or posted.
TokenInv ==
  /\ \A s, t \in Threads : pc[s] = "post" /\ pc[t] = "post" => s = t
  /\ \A t \in Threads : pc[t] = "post" => LockSemaphore = 0
  /\ LockSemaphore =< 1
  /\ HandOver => \A t \in Threads : ~Holds(t)
  /\ LockCount = -1 <=> ~HandOver /\ \A t \in Threads : ~Holds(t)

\* What InitializeCriticalSectionEx documents about LockCount: it is the number
\* of calls in progress minus one, those of the holder and those of the waiters.
CountInv ==
  /\ \A t \in Threads :
       Holds(t) => LockCount + 1 = Counted(t) + Cardinality(Waiters)
  /\ (\A t \in Threads : ~Holds(t)) => LockCount + 1 = Cardinality(Waiters)

\* The inductive invariant.
IInv ==
  /\ TypeOK
  /\ MutualExclusion
  /\ PositionInv
  /\ OwnerInv
  /\ TokenInv
  /\ CountInv

\* When the section is given up while threads wait for it, the post reaches one
\* of them: some thread gets to hold it.
WaiterIsWoken ==
  (Waiters # {} /\ \A t \in Threads : ~Holds(t)) ~> (\E t \in Threads : Holds(t))
=============================================================================
