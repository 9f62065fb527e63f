------------------------------ MODULE ThreadPool ------------------------------
(***************************************************************************)
(* The thread pool of winpr (winpr/libwinpr/pool/pool.c and work.c), with  *)
(* the wQueue of pending callbacks (Queue.c) and the wCountdownEvent that  *)
(* tells that all of them are done (CountdownEvent.c). The codecs (rfx.c,  *)
(* progressive.c, yuv.c) and the smartcard channel of the proxy use it.    *)
(*                                                                         *)
(* A client is a thread with a work object. In a codec it submits it any   *)
(* number of times, waits for the callbacks and closes it, or gives all up *)
(* when the encoding of a frame fails (rfx.c). In the smartcard channel it *)
(* submits it once and the callback closes it, before it is signalled; the *)
(* client goes on with another one. The counter of the countdown event     *)
(* belongs to the pool, not to the work object: whoever waits, waits for   *)
(* everybody's callbacks. The owner of the pool creates, resizes and       *)
(* closes it; to shrink, it ends ALL the threads, whatever is still        *)
(* pending, and starts new ones.                                           *)
(*                                                                         *)
(* Each call on the queue and on the countdown event is one action, since  *)
(* it runs under their locks, and so is each wait.                         *)
(***************************************************************************)
EXTENDS Integers, Sequences, FiniteSets

CONSTANTS Clients,      \* the threads that submit work
          Processors,   \* dwNumberOfProcessors: the size of a new pool
          MaxThreads,   \* bound on the threads of the pool
          Minimums,     \* arguments of SetThreadpoolThreadMinimum
          Maximums,     \* arguments of SetThreadpoolThreadMaximum
          MaxSubmits,   \* bound on the submissions of a client
          MaxResizes,   \* bound on the calls that resize the pool
          MaxFailures,  \* bound on the failures of CreateThread
          None          \* no callback instance

Workers == 1..MaxThreads
\* A callback instance: the n-th submission of client c's work object
Instances == Clients \X (1..MaxSubmits)

ASSUME PoolAssumption ==
  /\ MaxThreads \in Nat /\ MaxSubmits \in Nat /\ MaxResizes \in Nat /\ MaxFailures \in Nat
  /\ Processors \in 1..MaxThreads
  /\ Minimums \subseteq 1..MaxThreads
  /\ Maximums \subseteq Nat
  /\ IsFiniteSet(Clients)
  /\ None \notin Instances

VARIABLES pending,    \* PendingQueue: the callback instances in the queue
          ready,      \* the event of PendingQueue is set
          count,      \* the count of WorkComplete
          complete,   \* the event of WorkComplete is set
          terminate,  \* TerminateEvent is set
          Minimum,
          pool,       \* "none", "creating", "open" or "closing"
          owner,      \* where the owner is: "idle", "join" or "grow"
          thread,     \* where each thread of the list Threads is; "none" if not in it
          at,         \* the callback instance a thread has taken
          user,       \* who uses the pool: "codec" or "smartcard"
          client,     \* where each client is; "gone" if it has given up
          work,       \* work[c]: the work object of c exists
          submitted,  \* submissions of each client so far
          runs,       \* how often the callback of each instance has run
          resizes, failures

queueVars  == <<pending, ready>>
countVars  == <<count, complete>>
ownerVars  == <<terminate, Minimum, pool, owner, resizes, failures>>
threadVars == <<thread, at>>
clientVars == <<user, client, work, submitted>>
vars == <<queueVars, countVars, ownerVars, threadVars, clientVars, runs>>

Threads == {w \in Workers : thread[w] # "none"}

Init ==
  /\ pending = <<>> /\ ready = FALSE
  /\ count = 0 /\ complete = TRUE
  /\ terminate = FALSE /\ Minimum = 0
  /\ pool = "none" /\ owner = "idle"
  /\ resizes = 0 /\ failures = 0
  /\ thread = [w \in Workers |-> "none"]
  /\ at = [w \in Workers |-> None]
  /\ user \in {"codec", "smartcard"}
  /\ client = [c \in Clients |-> "idle"]
  /\ work = [c \in Clients |-> FALSE]
  /\ submitted = [c \in Clients |-> 0]
  /\ runs = [i \in Instances |-> 0]

-----------------------------------------------------------------------------
\* The clients.

\* CreateThreadpoolWork, for a pool the client knows of
CreateThreadpoolWork(c) ==
  /\ pool = "open"
  /\ client[c] = "idle" /\ ~work[c] /\ submitted[c] < MaxSubmits
  /\ work' = [work EXCEPT ![c] = TRUE]
  /\ client' = [client EXCEPT ![c] = "created"]
  /\ UNCHANGED <<queueVars, countVars, ownerVars, threadVars, user, submitted, runs>>

\* Defect for ImplementsWorkItems: the event of the last round is not reset.
AddCount_NoReset == count' = count + 1 /\ UNCHANGED complete

\* CountdownEvent_AddCount(WorkComplete, 1)
AddCount == count' = count + 1 /\ complete' = FALSE

\* SubmitThreadpoolWork, first half: the new instance is counted. (Without
\* memory for the instance, nothing happens and nobody is told.)
SubmitCount(c) ==
  /\ work[c]
  /\ client[c] = "created" \/ (user = "codec" /\ client[c] \in {"idle", "waited"})
  /\ submitted[c] < MaxSubmits
  /\ submitted' = [submitted EXCEPT ![c] = @ + 1]
  /\ AddCount
  /\ client' = [client EXCEPT ![c] = "counted"]
  /\ UNCHANGED <<queueVars, ownerVars, threadVars, user, work, runs>>

\* SubmitThreadpoolWork, second half: Queue_Enqueue
SubmitEnqueue(c) ==
  /\ client[c] = "counted"
  /\ pending' = Append(pending, <<c, submitted[c]>>)
  /\ ready' = TRUE
  /\ client' = [client EXCEPT ![c] = "idle"]
  /\ UNCHANGED <<countVars, ownerVars, threadVars, user, work, submitted, runs>>

\* Queue_Enqueue when the array of the queue cannot be enlarged: nothing is
\* stored, and the result is TRUE all the same.
EnqueueFails(c) ==
  /\ client[c] = "counted"
  /\ client' = [client EXCEPT ![c] = "idle"]
  /\ UNCHANGED <<queueVars, countVars, ownerVars, threadVars, user, work, submitted, runs>>

\* WaitForThreadpoolWorkCallbacks: the client blocks on the event of WorkComplete
WaitForCallbacks(c) ==
  /\ user = "codec"
  /\ work[c] /\ client[c] = "idle"
  /\ client' = [client EXCEPT ![c] = "waiting"]
  /\ UNCHANGED <<queueVars, countVars, ownerVars, threadVars, user, work, submitted, runs>>

\* ... which is set
WaitReturns(c) ==
  /\ client[c] = "waiting" /\ complete
  /\ client' = [client EXCEPT ![c] = "waited"]
  /\ UNCHANGED <<queueVars, countVars, ownerVars, threadVars, user, work, submitted, runs>>

\* CloseThreadpoolWork, which the codecs call after the wait
CloseThreadpoolWork(c) ==
  /\ work[c] /\ client[c] = "waited"
  /\ work' = [work EXCEPT ![c] = FALSE]
  /\ client' = [client EXCEPT ![c] = "idle"]
  /\ UNCHANGED <<queueVars, countVars, ownerVars, threadVars, user, submitted, runs>>

\* The error path of rfx_encode_message: what is submitted is neither waited for
\* nor closed.
Abandon(c) ==
  /\ user = "codec"
  /\ work[c] /\ client[c] = "idle"
  /\ client' = [client EXCEPT ![c] = "gone"]
  /\ UNCHANGED <<queueVars, countVars, ownerVars, threadVars, user, work, submitted, runs>>

-----------------------------------------------------------------------------
\* The threads of the pool: thread_pool_work_func.

\* WaitForMultipleObjects on TerminateEvent, which has precedence
WorkerTerminates(w) ==
  /\ thread[w] = "wait" /\ terminate
  /\ thread' = [thread EXCEPT ![w] = "exited"]
  /\ UNCHANGED <<queueVars, countVars, ownerVars, at, clientVars, runs>>

\* ... and on the event of the queue, which wakes all the waiting threads
WorkerWakes(w) ==
  /\ thread[w] = "wait" /\ ~terminate /\ ready
  /\ thread' = [thread EXCEPT ![w] = "awake"]
  /\ UNCHANGED <<queueVars, countVars, ownerVars, at, clientVars, runs>>

\* Defect for CountsOutstanding: the event stays set when the queue is empty.
Dequeue_KeepsEvent(w) ==
  /\ thread[w] = "awake"
  /\ \/ /\ pending # <<>>
        /\ at' = [at EXCEPT ![w] = Head(pending)]
        /\ pending' = Tail(pending)
        /\ thread' = [thread EXCEPT ![w] = "run"]
     \/ /\ pending = <<>>
        /\ thread' = [thread EXCEPT ![w] = "wait"]
        /\ UNCHANGED <<pending, at>>
  /\ UNCHANGED <<ready, countVars, ownerVars, clientVars, runs>>

\* Queue_Dequeue: another thread may have taken what woke this one
Dequeue(w) ==
  /\ thread[w] = "awake"
  /\ \/ /\ pending # <<>>
        /\ at' = [at EXCEPT ![w] = Head(pending)]
        /\ pending' = Tail(pending)
        /\ thread' = [thread EXCEPT ![w] = "run"]
     \/ /\ pending = <<>>
        /\ thread' = [thread EXCEPT ![w] = "wait"]
        /\ UNCHANGED <<pending, at>>
  /\ ready' = (ready /\ pending' # <<>>)
  /\ UNCHANGED <<countVars, ownerVars, clientVars, runs>>

\* work->WorkCallback(callbackInstance, ...). The callback of the smartcard
\* channel closes its work object: ArrayList_Remove calls work_object_free.
Callback(w) ==
  /\ thread[w] = "run"
  /\ runs' = [runs EXCEPT ![at[w]] = @ + 1]
  /\ work' = IF user = "smartcard" THEN [work EXCEPT ![at[w][1]] = FALSE] ELSE work
  /\ thread' = [thread EXCEPT ![w] = "signal"]
  /\ UNCHANGED <<queueVars, countVars, ownerVars, at, user, client, submitted>>

\* CountdownEvent_Signal(WorkComplete, 1)
Signal ==
  /\ count' = IF count >= 1 THEN count - 1 ELSE 0
  /\ complete' = (complete \/ count' = 0)

\* The thread signals and frees the instance.
WorkerSignals(w) ==
  /\ thread[w] = "signal"
  /\ Signal
  /\ thread' = [thread EXCEPT ![w] = "wait"]
  /\ at' = [at EXCEPT ![w] = None]
  /\ UNCHANGED <<queueVars, ownerVars, clientVars, runs>>

-----------------------------------------------------------------------------
\* The owner of the pool.

\* CreateThreadpool, InitializeThreadpool
CreateThreadpool ==
  /\ pool = "none"
  /\ pool' = "creating" /\ owner' = "grow"
  /\ Minimum' = Processors
  /\ pending' = <<>> /\ ready' = FALSE
  /\ count' = 0 /\ complete' = TRUE
  /\ terminate' = FALSE
  /\ UNCHANGED <<threadVars, clientVars, runs, resizes, failures>>

\* SetThreadpoolThreadMinimum: the loop that starts threads
StartThread(w) ==
  /\ owner = "grow"
  /\ Cardinality(Threads) < Minimum
  /\ thread[w] = "none"
  /\ thread' = [thread EXCEPT ![w] = "wait"]
  /\ UNCHANGED <<queueVars, countVars, ownerVars, at, clientVars, runs>>

\* ... and its end
GrowDone ==
  /\ owner = "grow"
  /\ Cardinality(Threads) >= Minimum
  /\ owner' = "idle" /\ pool' = "open"
  /\ UNCHANGED <<queueVars, countVars, terminate, Minimum, resizes, failures, threadVars,
                 clientVars, runs>>

\* CreateThread fails: SetThreadpoolThreadMinimum leaves the pool with the
\* threads it has, InitializeThreadpool gives the new pool up. (That the thread
\* is started but ArrayList_Append fails, so that nobody joins it, is left out.)
StartThreadFails ==
  /\ owner = "grow"
  /\ Cardinality(Threads) < Minimum
  /\ failures < MaxFailures
  /\ failures' = failures + 1
  /\ IF pool = "creating"
     THEN pool' = "closing" /\ owner' = "join" /\ terminate' = TRUE
     ELSE owner' = "idle" /\ UNCHANGED <<pool, terminate>>
  /\ UNCHANGED <<queueVars, countVars, Minimum, resizes, threadVars, clientVars, runs>>

\* The pool of the RemoteFX codec is resized, no other.
Resize ==
  /\ user = "codec"
  /\ pool = "open" /\ owner = "idle"
  /\ resizes < MaxResizes
  /\ resizes' = resizes + 1

\* SetThreadpoolThreadMinimum
SetMinimum(n) ==
  /\ Resize
  /\ Minimum' = n
  /\ owner' = "grow"
  /\ UNCHANGED <<queueVars, countVars, terminate, pool, failures, threadVars, clientVars, runs>>

\* Defect for OwnerReturns: the threads are joined without being told to end.
SetMaximum_NoEvent(n) ==
  /\ Resize
  /\ owner' = IF Cardinality(Threads) > n THEN "join" ELSE "grow"
  /\ UNCHANGED <<queueVars, countVars, terminate, Minimum, pool, failures, threadVars,
                 clientVars, runs>>

\* SetThreadpoolThreadMaximum: with more threads than that, all are told to end
SetMaximum(n) ==
  /\ Resize
  /\ IF Cardinality(Threads) > n
     THEN owner' = "join" /\ terminate' = TRUE
     ELSE owner' = "grow" /\ UNCHANGED terminate
  /\ UNCHANGED <<queueVars, countVars, Minimum, pool, failures, threadVars, clientVars, runs>>

\* Defect for CloseLosesNothing: the threads are let go, not waited for.
Join_NoWait(w) ==
  /\ owner = "join"
  /\ thread[w] # "none"
  /\ thread' = [thread EXCEPT ![w] = "none"]
  /\ UNCHANGED <<queueVars, countVars, ownerVars, at, clientVars, runs>>

\* ArrayList_Clear and ArrayList_Free: threads_close waits for the thread
Join(w) ==
  /\ owner = "join"
  /\ thread[w] = "exited"
  /\ thread' = [thread EXCEPT ![w] = "none"]
  /\ UNCHANGED <<queueVars, countVars, ownerVars, at, clientVars, runs>>

\* CloseThreadpool frees the queue, with what is in it, and the counter.
FreeQueue ==
  /\ pending' = <<>> /\ ready' = FALSE
  /\ count' = 0 /\ complete' = TRUE

\* Defect for WaitEnds: the event that ends the threads is not reset.
JoinDone_NoReset ==
  /\ owner = "join" /\ Threads = {}
  /\ IF pool = "closing"
     THEN pool' = "none" /\ owner' = "idle" /\ FreeQueue
     ELSE owner' = "grow" /\ UNCHANGED <<pool, queueVars, countVars>>
  /\ UNCHANGED <<terminate, Minimum, resizes, failures, threadVars, clientVars, runs>>

\* Defect for SubmittedIsOwned: a pool that shrinks starts with a new queue.
JoinDone_ClearsQueue ==
  /\ owner = "join" /\ Threads = {}
  /\ IF pool = "closing"
     THEN pool' = "none" /\ owner' = "idle" /\ UNCHANGED terminate
     ELSE owner' = "grow" /\ terminate' = FALSE /\ UNCHANGED pool
  /\ FreeQueue
  /\ UNCHANGED <<Minimum, resizes, failures, threadVars, clientVars, runs>>

\* SetThreadpoolThreadMaximum resets the event and restores the minimum,
\* CloseThreadpool frees the rest.
JoinDone ==
  /\ owner = "join" /\ Threads = {}
  /\ IF pool = "closing"
     THEN pool' = "none" /\ owner' = "idle" /\ FreeQueue /\ UNCHANGED terminate
     ELSE owner' = "grow" /\ terminate' = FALSE /\ UNCHANGED <<pool, queueVars, countVars>>
  /\ UNCHANGED <<Minimum, resizes, failures, threadVars, clientVars, runs>>

\* CloseThreadpool. The owner calls it when every work object is closed or given
\* up: after the waits (rfx.c, yuv.c), after a frame whose encoding failed, or
\* when the smartcard channel has found its list of work objects empty, though
\* the last callback may not be signalled yet.
CloseThreadpool ==
  /\ pool = "open" /\ owner = "idle"
  /\ \A c \in Clients : ~work[c] \/ client[c] = "gone"
  /\ pool' = "closing" /\ owner' = "join" /\ terminate' = TRUE
  /\ UNCHANGED <<queueVars, countVars, Minimum, resizes, failures, threadVars, clientVars, runs>>

ClientStep(c) ==
  \/ CreateThreadpoolWork(c) \/ SubmitCount(c) \/ SubmitEnqueue(c)
  \/ WaitForCallbacks(c) \/ WaitReturns(c) \/ CloseThreadpoolWork(c) \/ Abandon(c)

WorkerStep(w) ==
  \/ WorkerTerminates(w) \/ WorkerWakes(w) \/ Dequeue(w) \/ Callback(w) \/ WorkerSignals(w)

\* What the owner does inside a call
OwnerStep == GrowDone \/ JoinDone \/ \E w \in Workers : StartThread(w) \/ Join(w)

OwnerCall ==
  \/ CreateThreadpool \/ CloseThreadpool
  \/ \E n \in Minimums : SetMinimum(n)
  \/ \E n \in Maximums : SetMaximum(n)

Next ==
  \/ \E c \in Clients : ClientStep(c)
  \/ \E w \in Workers : WorkerStep(w)
  \/ OwnerStep \/ OwnerCall \/ StartThreadFails

Spec == Init /\ [][Next]_vars

\* The threads are scheduled; the owner and the clients finish the calls they
\* have begun (but need not begin any).
Fairness ==
  /\ \A c \in Clients : WF_vars(SubmitEnqueue(c)) /\ WF_vars(WaitReturns(c))
  /\ \A w \in Workers : WF_vars(WorkerStep(w))
  /\ WF_vars(OwnerStep)

FairSpec == Spec /\ Fairness

\* The pool when memory may run out in Queue_EnsureCapacity
NextNoMemory == Next \/ \E c \in Clients : EnqueueFails(c)

SpecNoMemory == Init /\ [][NextNoMemory]_vars

-----------------------------------------------------------------------------
TypeOK ==
  /\ pending \in Seq(Instances) /\ ready \in BOOLEAN
  /\ count \in Nat /\ complete \in BOOLEAN
  /\ terminate \in BOOLEAN /\ Minimum \in 0..MaxThreads
  /\ pool \in {"none", "creating", "open", "closing"}
  /\ owner \in {"idle", "join", "grow"}
  /\ resizes \in 0..MaxResizes /\ failures \in 0..MaxFailures
  /\ thread \in [Workers -> {"none", "wait", "awake", "run", "signal", "exited"}]
  /\ at \in [Workers -> Instances \cup {None}]
  /\ user \in {"codec", "smartcard"}
  /\ client \in [Clients -> {"idle", "created", "counted", "waiting", "waited", "gone"}]
  /\ work \in [Clients -> BOOLEAN]
  /\ submitted \in [Clients -> 0..MaxSubmits]
  /\ runs \in [Instances -> Nat]

Counted == {c \in Clients : client[c] = "counted"}
Queued  == {pending[k] : k \in DOMAIN pending}
Taken   == {at[w] : w \in {v \in Workers : at[v] # None}}

\* The instances that are counted and not yet signalled
Outstanding == {<<c, submitted[c]>> : c \in Counted} \cup Queued \cup Taken

\* The counter of WorkComplete is exactly the number of callbacks that are
\* submitted and not yet signalled, by whomever, and its event is set when, and
\* only when, there are none: not one order of AddCount, Enqueue, Dequeue and
\* Signal of the threads makes them differ, whether or not the pool is resized.
CountsOutstanding ==
  /\ count = Cardinality(Outstanding)
  /\ complete <=> count = 0
  /\ ready <=> pending # <<>>

\* An instance is in one place at a time: about to be queued, in the queue once,
\* or with one thread.
OnePlace ==
  /\ \A w \in Workers : at[w] # None <=> thread[w] \in {"run", "signal"}
  /\ \A j, k \in DOMAIN pending : pending[j] = pending[k] => j = k
  /\ \A v, w \in Workers : at[v] # None /\ at[v] = at[w] => v = w
  /\ \A i \in Queued : i \notin Taken
  /\ \A i \in Queued \cup Taken :
        /\ i[2] <= submitted[i[1]]
        /\ client[i[1]] = "counted" => i[2] < submitted[i[1]]
  /\ \A c \in Counted : submitted[c] >= 1

\* The instances whose callback has not begun
NotRun ==
  LET aboutToRun == {w \in Workers : thread[w] = "run"}
  IN  {<<c, submitted[c]>> : c \in Counted} \cup Queued \cup {at[w] : w \in aboutToRun}

\* A callback has run when the thread that took it says so, and not before. Only
\* of a client that has given up may it never run.
RunsOnce ==
  \A i \in Instances :
     /\ runs[i] \in {0, 1}
     /\ i \in NotRun \/ i[2] > submitted[i[1]] => runs[i] = 0
     /\ i \notin NotRun /\ i[2] <= submitted[i[1]] /\ client[i[1]] # "gone" => runs[i] = 1

\* A work object that is not given up belongs to an open pool, and exists while
\* a callback has yet to use it, until the client is back from the wait or, in
\* the smartcard channel, as long as its only callback has not run.
InUse ==
  /\ \A c \in Clients : client[c] # "idle" => work[c]
  /\ \A c \in Clients : work[c] => pool = "open" \/ client[c] = "gone"
  /\ \A i \in NotRun : work[i[1]]
  /\ user = "codec" =>
       \A i \in Outstanding : work[i[1]] /\ client[i[1]] \notin {"created", "waited"}
  /\ user = "smartcard" =>
       /\ \A c \in Clients : client[c] \in {"idle", "created", "counted"}
       /\ \A i \in NotRun : i[2] = submitted[i[1]] /\ client[i[1]] # "created"
  /\ pool = "none" => owner = "idle" /\ Threads = {} /\ pending = <<>>

\* The inductive invariant of the pool: counter, events, queue, threads and
\* clients agree on which callbacks there are, whatever the interleaving.
IInv == TypeOK /\ OnePlace /\ RunsOnce /\ InUse /\ CountsOutstanding

\* "Queue_Enqueue takes ownership of callbackInstance" (work.c:155): a
\* callback that was submitted, by a client that has not given up, and has not
\* run is still somebody's to run.
SubmittedIsOwned ==
  \A c \in Clients : \A n \in 1..submitted[c] :
     client[c] # "gone" /\ runs[<<c, n>>] = 0 => <<c, n>> \in Outstanding

\* CloseThreadpool ends the threads and frees the queue and the counter without a
\* look at what is pending or still to be signalled: the callback of the
\* smartcard channel that closed the last work object, those of a frame that was
\* given up. When it has returned no thread is left that uses them, and of the
\* clients that did not give up every callback has run.
CloseLosesNothing ==
  pool = "none" =>
    /\ \A w \in Workers : thread[w] = "none" /\ at[w] = None
    /\ \A c \in Clients : client[c] # "gone" =>
          \A n \in 1..submitted[c] : runs[<<c, n>>] = 1

WI == INSTANCE WorkItems WITH
        live <- {c \in Clients : work[c]},
        waited <- {c \in Clients : client[c] = "waited"}

\* The pool implements what its work objects promise: no submission runs its
\* callback twice, each runs on a work object that still exists, also where the
\* callback itself closes it, and the wait returns only when all callbacks the
\* client had submitted have run, though the event it waits for is set and reset
\* by the submissions of others as well.
ImplementsWorkItems == WI!Spec

\* A client that waits is not forgotten: its callbacks and all the others are
\* run, even if the pool is shrunk, and all its threads with it, meanwhile. Only
\* a pool for which SetThreadpoolThreadMaximum could not start any new thread,
\* which it does not report, leaves the client waiting.
WaitEnds ==
  \A c \in Clients :
     client[c] = "waiting" ~> client[c] = "waited" \/ (owner = "idle" /\ Threads = {})

\* A call that resizes or closes the pool ends: the threads told to terminate
\* do so, the ones that were woken for work included.
OwnerReturns == owner # "idle" ~> owner = "idle"
=============================================================================
