------------------------------ MODULE MessageQueue ------------------------------
(***************************************************************************)
(* The message queue of winpr                                              *)
(* (winpr/libwinpr/utils/collections/MessageQueue.c): a ring buffer that   *)
(* grows, under a critical section, with a manual-reset event that says    *)
(* that there is something to read. It feeds the worker threads of the     *)
(* static and dynamic channels, of the update proxy and of the shadow      *)
(* server, each of which is the only reader of its queue: it waits for the *)
(* event without the lock, then takes one message, until it takes the quit *)
(* message (the loop of channels/drdynvc/client/drdynvc_main.c).           *)
(*                                                                         *)
(* Each call is one action, since it runs under the lock; the wait of the  *)
(* worker is one of its own.                                               *)
(***************************************************************************)
EXTENDS Integers, Sequences

CONSTANTS InitialCapacity,  \* 32 in MessageQueue_New
          MaxMessages,      \* bound on the messages of the producers
          Quit,             \* the message with the id WMQ_QUIT
          NoMessage         \* a zeroed slot

ASSUME QueueAssumption ==
  /\ InitialCapacity \in Nat /\ InitialCapacity >= 2
  /\ MaxMessages \in Nat
  /\ Quit \notin Nat /\ NoMessage \notin Nat /\ Quit # NoMessage

VARIABLES array,     \* the slots 0..capacity-1
          head, tail, size, capacity,
          closed,
          event,     \* the event is set
          posted,    \* messages dispatched so far; the n-th is the number n
          worker,    \* "none", "wait" or "awake"
          out        \* the message last copied to the worker

ring == <<array, head, tail, size, capacity>>
vars == <<ring, closed, event, posted, worker, out>>

Messages == 1..MaxMessages

Init ==
  /\ array = [i \in 0..InitialCapacity - 1 |-> NoMessage]
  /\ head = 0 /\ tail = 0 /\ size = 0 /\ capacity = InitialCapacity
  /\ closed = FALSE /\ event = FALSE
  /\ posted = 0
  /\ worker = "none"
  /\ out = NoMessage

-----------------------------------------------------------------------------
\* Defect for QueueIsFifo: the wrapped entries are not moved.
EnsureCapacity_NoMove(count) ==
  IF size + count < capacity
  THEN [array |-> array, tail |-> tail, capacity |-> capacity]
  ELSE LET new == IF capacity * 2 < size + count THEN size + count ELSE capacity * 2
       IN [array |-> [i \in 0..new - 1 |-> IF i < capacity THEN array[i] ELSE NoMessage],
           tail |-> IF tail <= head THEN tail + capacity ELSE tail,
           capacity |-> new]

\* MessageQueue_EnsureCapacity: an array about to be full is enlarged; entries
\* that had wrapped around move behind its old end.
EnsureCapacity(count) ==
  IF size + count < capacity
  THEN [array |-> array, tail |-> tail, capacity |-> capacity]
  ELSE LET new == IF capacity * 2 < size + count THEN size + count ELSE capacity * 2
       IN [array |-> [i \in 0..new - 1 |->
                        CASE i < capacity -> array[i]
                          [] tail <= head /\ i \in capacity..capacity + tail - 1 ->
                               array[i - capacity]
                          [] OTHER -> NoMessage],
           tail |-> IF tail <= head THEN tail + capacity ELSE tail,
           capacity |-> new]

\* Defect for QuitIsLast: the queue stays open after the quit message.
Dispatch_StaysOpen(m) ==
  /\ ~closed
  /\ LET e == EnsureCapacity(1) IN
     /\ array' = [e.array EXCEPT ![e.tail] = m]
     /\ tail' = (e.tail + 1) % e.capacity
     /\ capacity' = e.capacity
  /\ size' = size + 1
  /\ event' = TRUE
  /\ UNCHANGED <<head, closed, worker, out>>

\* MessageQueue_Dispatch, Post and PostQuit. A closed queue, or a failed
\* realloc, leaves everything as it is.
Dispatch(m) ==
  /\ ~closed
  /\ LET e == EnsureCapacity(1) IN
     /\ array' = [e.array EXCEPT ![e.tail] = m]
     /\ tail' = (e.tail + 1) % e.capacity
     /\ capacity' = e.capacity
  /\ size' = size + 1
  /\ event' = TRUE
  /\ closed' = (m = Quit)
  /\ UNCHANGED <<head, worker, out>>

Post ==
  /\ posted < MaxMessages
  /\ posted' = posted + 1
  /\ Dispatch(posted')

PostQuit == Dispatch(Quit) /\ UNCHANGED posted

-----------------------------------------------------------------------------
\* The worker.

\* MessageQueue_Wait
Wait ==
  /\ worker = "wait" /\ event
  /\ worker' = "awake"
  /\ UNCHANGED <<ring, closed, event, posted, out>>

\* Defect for WorkerFindsMessage: the last message does not reset the event.
TakeHead_KeepsEvent ==
  /\ out' = array[head]
  /\ array' = [array EXCEPT ![head] = NoMessage]
  /\ head' = (head + 1) % capacity
  /\ size' = size - 1
  /\ UNCHANGED <<tail, capacity, closed, event, posted>>

\* Defect for PostedIsDelivered: every message resets the event.
TakeHead_AlwaysResets ==
  /\ out' = array[head]
  /\ array' = [array EXCEPT ![head] = NoMessage]
  /\ head' = (head + 1) % capacity
  /\ size' = size - 1
  /\ event' = FALSE
  /\ UNCHANGED <<tail, capacity, closed, posted>>

\* MessageQueue_Get and MessageQueue_Peek with remove, for a queue that is not
\* empty.
TakeHead ==
  /\ out' = array[head]
  /\ array' = [array EXCEPT ![head] = NoMessage]
  /\ head' = (head + 1) % capacity
  /\ size' = size - 1
  /\ event' = (event /\ size' >= 1)
  /\ UNCHANGED <<tail, capacity, closed, posted>>

\* The worker goes on until it has taken the quit message.
Take ==
  /\ worker = "awake" /\ size > 0
  /\ TakeHead
  /\ worker' = IF out' = Quit THEN "none" ELSE "wait"

\* MessageQueue_Peek without remove
Look ==
  /\ worker = "awake" /\ size > 0
  /\ out' = array[head]
  /\ UNCHANGED <<ring, closed, event, posted, worker>>

\* The thread of the channel is created when the channel is connected, with a
\* queue that is new or was cleared.
StartWorker ==
  /\ worker = "none" /\ ~closed
  /\ worker' = "wait"
  /\ UNCHANGED <<ring, closed, event, posted, out>>

\* MessageQueue_Clear: its callers have joined the worker.
Clear ==
  /\ worker = "none"
  /\ array' = [i \in 0..capacity - 1 |->
                 IF \E k \in 0..size - 1 : i = (head + k) % capacity
                 THEN NoMessage ELSE array[i]]
  /\ head' = (head + size) % capacity
  /\ size' = 0
  /\ event' = FALSE
  /\ closed' = FALSE
  /\ UNCHANGED <<tail, capacity, posted, worker, out>>

-----------------------------------------------------------------------------
Work == Wait \/ Take

Next ==
  \/ Post \/ PostQuit \/ Clear
  \/ Work \/ Look \/ StartWorker

Spec == Init /\ [][Next]_vars

\* The worker is scheduled; producers post what and when they like.
FairSpec == Spec /\ WF_vars(Wait) /\ WF_vars(Take)

-----------------------------------------------------------------------------
TypeOK ==
  /\ capacity \in Nat \ {0}
  /\ array \in [0..capacity - 1 -> Messages \cup {Quit, NoMessage}]
  /\ head \in 0..capacity - 1 /\ tail \in 0..capacity - 1
  /\ size \in Nat
  /\ closed \in BOOLEAN /\ event \in BOOLEAN
  /\ posted \in 0..MaxMessages
  /\ worker \in {"none", "wait", "awake"}
  /\ out \in Messages \cup {Quit, NoMessage}

\* The slot of the k-th entry, counted from zero.
Slot(k) == (head + k) % capacity

\* The ring never fills up, so that tail <= head says that its entries wrap
\* around (or that it is empty, which EnsureCapacity never meets when it has to
\* enlarge it), and the tail is where the entries end.
RingInv ==
  /\ capacity >= 2
  /\ size < capacity
  /\ tail = Slot(size)

\* The entries are messages.
EntriesInv == \A k \in 0..size - 1 : array[Slot(k)] \in Messages \cup {Quit}

\* The event is set exactly while there is something to read.
EventInv == event <=> size > 0

\* The worker waits for the event without holding the lock. When it gets the
\* lock the message that woke it is still there: MessageQueue_Get does not
\* return -1 and MessageQueue_Peek does not fail, which ends the worker threads.
WorkerFindsMessage == worker = "awake" => size > 0

\* Nothing is dispatched behind the quit message, and a closed queue has it
\* still to give or has no worker left: no message is posted that nobody will
\* read.
QuitIsLast ==
  /\ \A k \in 0..size - 1 : array[Slot(k)] = Quit => closed /\ k = size - 1
  /\ closed => (size > 0 /\ array[Slot(size - 1)] = Quit) \/ worker = "none"

\* The inductive invariant.
IInv ==
  /\ TypeOK
  /\ RingInv
  /\ EntriesInv
  /\ EventInv
  /\ WorkerFindsMessage
  /\ QuitIsLast

Contents == [i \in 1..size |-> array[Slot(i - 1)]]

Fifo == INSTANCE MessageFifo WITH contents <- Contents

\* Across wrapping and growing, the ring is a first-in first-out queue.
QueueIsFifo == Fifo!Spec

\* Every message that was accepted while the worker runs, or before, reaches it,
\* the quit message included.
PostedIsDelivered ==
  \A m \in Messages \cup {Quit} :
    (worker # "none" /\ \E i \in 1..size : Contents[i] = m)
      ~> (out = m /\ \A i \in 1..size : Contents[i] # m)
=============================================================================
