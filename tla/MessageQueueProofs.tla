--------------------------- MODULE MessageQueueProofs ---------------------------
(***************************************************************************)
(* The invariants of the message queue, and that it implements a FIFO, for *)
(* every initial capacity from 2 and any number of messages.               *)
(***************************************************************************)
EXTENDS MessageQueue, SequenceTheorems, TLAPS

Slots(n) == 0..n - 1
Items == Messages \cup {Quit, NoMessage}

\* Adding to an index less than the capacity n wraps around once at most.
LEMMA ModCases ==
  ASSUME NEW n \in Nat \ {0}, NEW h \in 0..n - 1, NEW k \in 0..n
  PROVE  /\ (h + k) % n = IF h + k < n THEN h + k ELSE h + k - n
         /\ (h + k) % n \in 0..n - 1
  BY SMT

\* Different entries are in different slots.
LEMMA SlotsDiffer ==
  ASSUME NEW n \in Nat \ {0}, NEW h \in 0..n - 1,
         NEW j \in 0..n - 1, NEW k \in 0..n - 1, j # k
  PROVE  (h + j) % n # (h + k) % n
  BY SMT

\* Moving the head by j moves the entries after it to the front.
LEMMA MovedHead ==
  ASSUME NEW n \in Nat \ {0}, NEW h \in 0..n - 1, NEW j \in 0..n - 1,
         NEW k \in 0..n - 1, j + k =< n
  PROVE  (((h + j) % n) + k) % n = (h + (j + k)) % n
  BY SMT

\* MessageQueue_EnsureCapacity makes room for one more message and keeps the
\* entries in their order.
LEMMA Room ==
  ASSUME TypeOK, RingInv, NEW e, e = EnsureCapacity(1)
  PROVE  /\ e.capacity \in Nat /\ e.capacity >= capacity
         /\ size + 1 < e.capacity
         /\ e.array \in [0..e.capacity - 1 -> Items]
         /\ e.tail = (head + size) % e.capacity
         /\ \A k \in 0..size - 1 : e.array[(head + k) % e.capacity] = array[Slot(k)]
  <1> USE DEF TypeOK, RingInv, Slot, Items
  <1>1. CASE size + 1 < capacity
    <2>1. e = [array |-> array, tail |-> tail, capacity |-> capacity]
      BY <1>1 DEF EnsureCapacity
    <2>2. QED
      BY <1>1, <2>1
  <1>2. CASE ~(size + 1 < capacity)
    <2> DEFINE new == capacity * 2
               grown == [i \in 0..new - 1 |->
                          CASE i < capacity -> array[i]
                            [] tail <= head /\ i \in capacity..capacity + tail - 1 ->
                                 array[i - capacity]
                            [] OTHER -> NoMessage]
    <2>1. size = capacity - 1
      BY <1>2
    <2>2. tail = IF head + size < capacity THEN head + size ELSE head + size - capacity
      BY SMT
    <2>3. ~(capacity * 2 < size + 1)
      BY <2>1
    <2>4. e = [array |-> grown,
               tail |-> IF tail <= head THEN tail + capacity ELSE tail,
               capacity |-> new]
      BY <1>2, <2>3 DEF EnsureCapacity
    <2>5. /\ e.array = grown
          /\ e.tail = IF tail <= head THEN tail + capacity ELSE tail
          /\ e.capacity = new
      <3> HIDE DEF grown, new
      <3>1. QED
        BY <2>4
    <2>6. new \in Nat /\ new >= capacity /\ size + 1 < new
      BY <2>1
    <2>7. e.tail = head + size
      BY <2>1, <2>2, <2>5
    <2>8. grown \in [0..new - 1 -> Items]
      <3>1. SUFFICES ASSUME NEW i \in 0..new - 1
                     PROVE  grown[i] \in Items
        BY DEF grown
      <3>2. CASE i < capacity
        BY <3>2, <2>6
      <3>3. CASE ~(i < capacity) /\ tail <= head /\ i \in capacity..capacity + tail - 1
        <4>1. i - capacity \in 0..capacity - 1
          BY <3>3
        <4>2. grown[i] = array[i - capacity]
          BY <3>3
        <4>3. QED
          BY <4>1, <4>2
      <3>4. CASE ~(i < capacity) /\ ~(tail <= head /\ i \in capacity..capacity + tail - 1)
        <4>1. grown[i] = NoMessage
          BY <3>4
        <4>2. QED
          BY <4>1
      <3>5. QED
        BY <3>2, <3>3, <3>4
    <2>9. head + size \in 0..new - 1
      BY <2>1, <2>6
    <2>10. e.tail = (head + size) % new
      BY <2>6, <2>7, <2>9
    <2>11. ASSUME NEW k \in 0..size - 1
           PROVE  grown[(head + k) % new] = array[Slot(k)]
      <3>1. head + k \in 0..new - 1
        BY <2>1
      <3>2. (head + k) % new = head + k
        BY <2>6, <3>1
      <3>3. Slot(k) = IF head + k < capacity THEN head + k ELSE head + k - capacity
        BY SMT
      <3>4. CASE head + k < capacity
        BY <3>1, <3>2, <3>3, <3>4
      <3>5. CASE ~(head + k < capacity)
        <4>1. tail <= head /\ head + k \in capacity..capacity + tail - 1
          BY <2>1, <2>2, <3>5
        <4>2. \A i \in 0..new - 1 :
                 i \in capacity..capacity + tail - 1 => grown[i] = array[i - capacity]
          BY <4>1
        <4> HIDE DEF grown
        <4>3. QED
          BY <3>1, <3>2, <3>3, <3>5, <4>1, <4>2
      <3>6. QED
        BY <3>4, <3>5
    <2>12. QED
      BY <2>5, <2>6, <2>8, <2>10, <2>11
  <1>3. QED
    BY <1>1, <1>2

\* MessageQueue_Dispatch adds m behind the entries.
LEMMA Dispatched ==
  ASSUME TypeOK, RingInv, NEW m \in Messages \cup {Quit}, Dispatch(m)
  PROVE  /\ capacity' \in Nat /\ capacity' >= 2 /\ capacity' # 0
         /\ array' \in [0..capacity' - 1 -> Items]
         /\ head' = head /\ head' \in 0..capacity' - 1
         /\ tail' \in 0..capacity' - 1
         /\ size' = size + 1 /\ size' < capacity'
         /\ tail' = (head' + size') % capacity'
         /\ \A k \in 0..size - 1 : array'[(head' + k) % capacity'] = array[Slot(k)]
         /\ array'[(head' + size) % capacity'] = m
  <1> DEFINE e == EnsureCapacity(1)
  <1>1. /\ e.capacity \in Nat /\ e.capacity >= capacity
        /\ size + 1 < e.capacity
        /\ e.array \in [0..e.capacity - 1 -> Items]
        /\ e.tail = (head + size) % e.capacity
        /\ \A k \in 0..size - 1 : e.array[(head + k) % e.capacity] = array[Slot(k)]
    BY Room
  <1>2. /\ array' = [e.array EXCEPT ![e.tail] = m]
        /\ tail' = (e.tail + 1) % e.capacity
        /\ capacity' = e.capacity
        /\ size' = size + 1
        /\ head' = head
    BY DEF Dispatch
  <1> HIDE DEF e
  <1>3. /\ size \in Nat
        /\ head \in 0..e.capacity - 1
        /\ e.capacity \in Nat \ {0} /\ e.capacity >= 2
    BY <1>1 DEF TypeOK, RingInv
  <1>4. e.tail \in 0..e.capacity - 1
    BY <1>1, <1>3
  <1>5. (e.tail + 1) % e.capacity = (head + (size + 1)) % e.capacity
    BY <1>1, <1>3, MovedHead
  <1>6. (e.tail + 1) % e.capacity \in 0..e.capacity - 1
    BY <1>3, <1>4
  <1>7. array' \in [0..e.capacity - 1 -> Items]
    BY <1>1, <1>2, <1>4 DEF Items
  <1>8. array'[e.tail] = m
    BY <1>1, <1>2, <1>4
  <1>9. ASSUME NEW k \in 0..size - 1
        PROVE  array'[(head + k) % e.capacity] = array[Slot(k)]
    <2>1. k \in 0..e.capacity - 1 /\ size \in 0..e.capacity - 1 /\ k # size
      BY <1>1, <1>3
    <2>2. (head + k) % e.capacity # (head + size) % e.capacity
      BY <1>3, <2>1, SlotsDiffer
    <2>3. (head + k) % e.capacity \in 0..e.capacity - 1
      BY <1>3, <2>1
    <2>4. QED
      BY <1>1, <1>2, <2>2, <2>3
  <1>10. QED
    BY <1>1, <1>2, <1>3, <1>5, <1>6, <1>7, <1>8, <1>9

\* MessageQueue_Get and MessageQueue_Peek hand over the first entry; the others
\* move up.
LEMMA Taken ==
  ASSUME TypeOK, RingInv, size > 0, TakeHead
  PROVE  /\ capacity' = capacity
         /\ array' \in [0..capacity - 1 -> Items]
         /\ head' \in 0..capacity - 1
         /\ size' = size - 1
         /\ tail' = tail /\ tail = (head' + size') % capacity
         /\ out' = array[Slot(0)]
         /\ \A k \in 0..size' - 1 : array'[(head' + k) % capacity] = array[Slot(k + 1)]
  <1>1. /\ capacity \in Nat \ {0} /\ capacity >= 2
        /\ head \in 0..capacity - 1
        /\ array \in [0..capacity - 1 -> Items]
        /\ size \in Nat /\ size < capacity
        /\ tail = (head + size) % capacity
    BY DEF TypeOK, RingInv, Slot, Items
  <1>2. /\ capacity' = capacity /\ tail' = tail /\ size' = size - 1
        /\ array' = [array EXCEPT ![head] = NoMessage]
        /\ head' = (head + 1) % capacity
        /\ out' = array[head]
    BY DEF TakeHead
  <1>3. Slot(0) = head
    BY <1>1 DEF Slot
  <1>4. head' \in 0..capacity - 1
    BY <1>1, <1>2
  <1>5. array' \in [0..capacity - 1 -> Items]
    BY <1>1, <1>2 DEF Items
  <1>6. (((head + 1) % capacity) + (size - 1)) % capacity
          = (head + (1 + (size - 1))) % capacity
    <2>1. /\ 1 \in 0..capacity - 1
          /\ size - 1 \in 0..capacity - 1
          /\ 1 + (size - 1) =< capacity
      BY <1>1
    <2>2. QED
      BY <1>1, <2>1, MovedHead
  <1>7. head + (1 + (size - 1)) = head + size
    BY <1>1
  <1>8. ASSUME NEW k \in 0..size' - 1
        PROVE  array'[(head' + k) % capacity] = array[Slot(k + 1)]
    <2>1. /\ k \in 0..capacity - 1 /\ 1 \in 0..capacity - 1
          /\ 1 + k \in 0..capacity - 1 /\ 1 + k # 0 /\ 1 + k = k + 1
          /\ 0 \in 0..capacity - 1
      BY <1>1, <1>2
    <2>2. (((head + 1) % capacity) + k) % capacity = (head + (1 + k)) % capacity
      BY <1>1, <2>1, MovedHead
    <2>3. (head + (1 + k)) % capacity # (head + 0) % capacity
      BY <1>1, <2>1, SlotsDiffer
    <2>4. (head + (1 + k)) % capacity \in 0..capacity - 1
      BY <1>1, <2>1
    <2>5. QED
      BY <1>1, <1>2, <1>3, <2>1, <2>2, <2>3, <2>4 DEF Slot
  <1>9. QED
    BY <1>1, <1>2, <1>3, <1>4, <1>5, <1>6, <1>7, <1>8

-----------------------------------------------------------------------------
LEMMA InitInv == Init => IInv
  <1> SUFFICES ASSUME Init PROVE IInv
    OBVIOUS
  <1>1. TypeOK
    <2>1. array \in [0..capacity - 1 -> Messages \cup {Quit, NoMessage}]
      BY DEF Init
    <2>2. closed \in BOOLEAN /\ event \in BOOLEAN
      BY DEF Init
    <2>3. QED
      BY QueueAssumption, <2>1, <2>2 DEF Init, TypeOK
  <1>2. RingInv
    BY QueueAssumption DEF Init, RingInv, Slot
  <1>3. EntriesInv /\ EventInv /\ WorkerFindsMessage /\ QuitIsLast
    BY DEF Init, EntriesInv, EventInv, WorkerFindsMessage, QuitIsLast
  <1>4. QED
    BY <1>1, <1>2, <1>3 DEF IInv

LEMMA DispatchInv ==
  ASSUME IInv, NEW m \in Messages \cup {Quit}, Dispatch(m), posted' \in 0..MaxMessages
  PROVE  IInv'
  <1>1. TypeOK /\ RingInv /\ EntriesInv /\ EventInv /\ WorkerFindsMessage /\ QuitIsLast
    BY DEF IInv
  <1>2. /\ capacity' \in Nat /\ capacity' >= 2 /\ capacity' # 0
        /\ array' \in [0..capacity' - 1 -> Items]
        /\ head' = head /\ head' \in 0..capacity' - 1
        /\ tail' \in 0..capacity' - 1
        /\ size' = size + 1 /\ size' < capacity'
        /\ tail' = (head' + size') % capacity'
        /\ \A k \in 0..size - 1 : array'[(head' + k) % capacity'] = array[Slot(k)]
        /\ array'[(head' + size) % capacity'] = m
    BY <1>1, Dispatched
  <1>3. /\ ~closed /\ event' = TRUE /\ closed' = (m = Quit)
        /\ worker' = worker /\ out' = out
    BY DEF Dispatch
  <1>4. size \in Nat
    BY <1>1 DEF TypeOK
  <1>5. TypeOK'
    <2>1. closed' \in BOOLEAN /\ event' \in BOOLEAN
      BY <1>3, Zenon
    <2>2. worker' \in {"none", "wait", "awake"} /\ out' \in Messages' \cup {Quit, NoMessage}
      BY <1>1, <1>3 DEF TypeOK, Messages
    <2>3. array' \in [0..capacity' - 1 -> Messages' \cup {Quit, NoMessage}]
      BY <1>2 DEF Items, Messages
    <2>4. capacity' \in Nat \ {0} /\ size' \in Nat
      BY <1>2, <1>4
    <2>5. head' \in 0..capacity' - 1 /\ tail' \in 0..capacity' - 1
      BY <1>2, <1>4
    <2>6. posted' \in 0..MaxMessages
      OBVIOUS
    <2>7. QED
      BY <2>1, <2>2, <2>3, <2>4, <2>5, <2>6, Zenon DEF TypeOK
  <1>6. RingInv'
    BY <1>2 DEF RingInv, Slot
  <1>7. \A k \in 0..size' - 1 : k \in 0..size - 1 \/ k = size
    BY <1>2, <1>4
  <1>8. EntriesInv'
    <2>1. SUFFICES ASSUME NEW k \in 0..size' - 1
                   PROVE  array'[(head' + k) % capacity'] \in Messages \cup {Quit}
      BY DEF EntriesInv, Slot
    <2>2. CASE k \in 0..size - 1
      <3>1. array'[(head' + k) % capacity'] = array[Slot(k)]
        BY <1>2, <2>2
      <3>2. array[Slot(k)] \in Messages \cup {Quit}
        BY <1>1, <2>2 DEF EntriesInv
      <3>3. QED
        BY <3>1, <3>2
    <2>3. CASE k = size
      BY <1>2, <2>3
    <2>4. QED
      BY <1>7, <2>2, <2>3
  <1>9. EventInv' /\ WorkerFindsMessage'
    BY <1>2, <1>3, <1>4 DEF EventInv, WorkerFindsMessage
  <1>10. QuitIsLast'
    <2>1. ASSUME NEW k \in 0..size' - 1, array'[(head' + k) % capacity'] = Quit
          PROVE  closed' /\ k = size' - 1
      <3>1. CASE k \in 0..size - 1
        <4>1. array[Slot(k)] = Quit
          BY <1>2, <2>1, <3>1
        <4>2. QED
          BY <1>1, <1>3, <3>1, <4>1 DEF QuitIsLast
      <3>2. CASE k = size
        <4>1. m = Quit
          BY <1>2, <2>1, <3>2
        <4>2. closed'
          BY <1>3, <4>1, Zenon
        <4>3. k = size' - 1
          BY <1>2, <1>4, <3>2
        <4>4. QED
          BY <4>2, <4>3
      <3>3. QED
        BY <1>7, <3>1, <3>2
    <2>2. closed' => size' > 0 /\ array'[(head' + (size' - 1)) % capacity'] = Quit
      <3>1. size' - 1 = size /\ size' > 0
        BY <1>2, <1>4
      <3>2. QED
        BY <1>2, <1>3, <3>1
    <2>3. QED
      BY <2>1, <2>2 DEF QuitIsLast, Slot
  <1>11. QED
    BY <1>5, <1>6, <1>8, <1>9, <1>10 DEF IInv

LEMMA TakeInv ==
  ASSUME IInv, Take
  PROVE  IInv'
  <1>1. TypeOK /\ RingInv /\ EntriesInv /\ EventInv /\ WorkerFindsMessage /\ QuitIsLast
    BY DEF IInv
  <1>2. /\ capacity' = capacity
        /\ array' \in [0..capacity - 1 -> Items]
        /\ head' \in 0..capacity - 1
        /\ size' = size - 1
        /\ tail' = tail /\ tail = (head' + size') % capacity
        /\ out' = array[Slot(0)]
        /\ \A k \in 0..size' - 1 : array'[(head' + k) % capacity] = array[Slot(k + 1)]
    BY <1>1, Taken DEF Take
  <1>3. /\ size > 0
        /\ worker' = IF out' = Quit THEN "none" ELSE "wait"
        /\ event' = (event /\ size' >= 1)
        /\ closed' = closed /\ posted' = posted
    BY DEF Take, TakeHead
  <1>4. /\ size \in Nat /\ size < capacity
        /\ capacity \in Nat \ {0} /\ capacity >= 2 /\ tail \in 0..capacity - 1
        /\ posted \in 0..MaxMessages
    BY <1>1 DEF TypeOK, RingInv
  <1>5. event
    BY <1>1, <1>3 DEF EventInv
  <1>6. closed \in BOOLEAN
    BY <1>1 DEF TypeOK
  <1>7. out' \in Messages \cup {Quit}
    <2>1. 0 \in 0..size - 1
      BY <1>3, <1>4
    <2>2. QED
      BY <1>1, <1>2, <2>1 DEF EntriesInv
  <1>8. TypeOK'
    <2>1. closed' \in BOOLEAN /\ event' \in BOOLEAN
      BY <1>3, <1>6, Zenon
    <2>2. worker' \in {"none", "wait", "awake"} /\ out' \in Messages' \cup {Quit, NoMessage}
      BY <1>3, <1>7 DEF Messages
    <2>3. array' \in [0..capacity' - 1 -> Messages' \cup {Quit, NoMessage}]
      BY <1>2 DEF Items, Messages
    <2>4. capacity' \in Nat \ {0} /\ size' \in Nat
      BY <1>2, <1>3, <1>4
    <2>5. head' \in 0..capacity' - 1 /\ tail' \in 0..capacity' - 1
      BY <1>2, <1>3, <1>4
    <2>6. posted' \in 0..MaxMessages
      BY <1>3, <1>4, Zenon
    <2>7. QED
      BY <2>1, <2>2, <2>3, <2>4, <2>5, <2>6, Zenon DEF TypeOK
  <1>9. RingInv'
    BY <1>2, <1>3, <1>4 DEF RingInv, Slot
  <1>10. \A k \in 0..size' - 1 : k + 1 \in 0..size - 1
    BY <1>2, <1>4
  <1>11. EntriesInv'
    BY <1>1, <1>2, <1>10 DEF EntriesInv, Slot, Messages
  <1>12. EventInv'
    <2>1. event' <=> size' >= 1
      BY <1>3, <1>5, Zenon
    <2>2. QED
      BY <1>2, <1>4, <2>1 DEF EventInv
  <1>13. WorkerFindsMessage'
    BY <1>3 DEF WorkerFindsMessage
  <1>14. QuitIsLast'
    <2>1. ASSUME NEW k \in 0..size' - 1, array'[(head' + k) % capacity] = Quit
          PROVE  closed /\ k = size' - 1
      <3>1. k + 1 \in 0..size - 1 /\ array[Slot(k + 1)] = Quit
        BY <1>2, <1>10, <2>1
      <3>2. closed /\ k + 1 = size - 1
        BY <1>1, <3>1 DEF QuitIsLast
      <3>3. QED
        BY <1>2, <1>4, <3>2
    <2>2. ASSUME closed
          PROVE  \/ size' > 0 /\ array'[(head' + (size' - 1)) % capacity] = Quit
                 \/ worker' = "none"
      <3>1. array[Slot(size - 1)] = Quit
        BY <1>1, <2>2 DEF QuitIsLast, Take
      <3>2. CASE size' > 0
        <4>1. size' - 1 \in 0..size' - 1 /\ (size' - 1) + 1 = size - 1
          BY <1>2, <1>4, <3>2
        <4>2. array'[(head' + (size' - 1)) % capacity] = array[Slot(size - 1)]
          BY <1>2, <4>1
        <4>3. QED
          BY <3>1, <3>2, <4>2
      <3>3. CASE ~(size' > 0)
        <4>1. size - 1 = 0
          BY <1>2, <1>3, <1>4, <3>3
        <4>2. QED
          BY <1>2, <1>3, <3>1, <4>1
      <3>4. QED
        BY <3>2, <3>3
    <2>3. /\ \A k \in 0..size' - 1 :
               array'[(head' + k) % capacity'] = Quit => closed' /\ k = size' - 1
          /\ closed' => \/ size' > 0 /\ array'[(head' + (size' - 1)) % capacity'] = Quit
                        \/ worker' = "none"
      BY <1>2, <1>3, <2>1, <2>2
    <2>4. QED
      BY <2>3 DEF QuitIsLast, Slot
  <1>15. QED
    BY <1>8, <1>9, <1>11, <1>12, <1>13, <1>14 DEF IInv

LEMMA ClearInv ==
  ASSUME IInv, Clear
  PROVE  IInv'
  <1>1. TypeOK /\ RingInv
    BY DEF IInv
  <1>2. /\ worker' = "none" /\ size' = 0 /\ closed' = FALSE /\ event' = FALSE
        /\ capacity' = capacity /\ tail' = tail /\ posted' = posted /\ out' = out
        /\ head' = (head + size) % capacity
        /\ array' = [i \in 0..capacity - 1 |->
                       IF \E k \in 0..size - 1 : i = (head + k) % capacity
                       THEN NoMessage ELSE array[i]]
    BY DEF Clear
  <1>3. /\ capacity \in Nat \ {0} /\ capacity >= 2
        /\ head \in 0..capacity - 1 /\ tail \in 0..capacity - 1
        /\ size \in Nat /\ size < capacity
        /\ tail = (head + size) % capacity
        /\ posted \in 0..MaxMessages
        /\ array \in [0..capacity - 1 -> Messages \cup {Quit, NoMessage}]
    BY <1>1 DEF TypeOK, RingInv, Slot
  <1>4. TypeOK'
    <2>1. closed' \in BOOLEAN /\ event' \in BOOLEAN
      BY <1>2, Zenon
    <2>2. worker' \in {"none", "wait", "awake"} /\ out' \in Messages' \cup {Quit, NoMessage}
      BY <1>1, <1>2 DEF TypeOK, Messages
    <2>3. array' \in [0..capacity' - 1 -> Messages' \cup {Quit, NoMessage}]
      BY <1>2, <1>3 DEF Messages
    <2>4. /\ capacity' \in Nat \ {0} /\ size' \in Nat
          /\ head' \in 0..capacity' - 1 /\ tail' \in 0..capacity' - 1
          /\ posted' \in 0..MaxMessages
      BY QueueAssumption, <1>2, <1>3
    <2>5. QED
      BY <2>1, <2>2, <2>3, <2>4, Zenon DEF TypeOK
  <1>5. RingInv'
    <2>1. tail' = (head' + size') % capacity'
      BY <1>2, <1>3
    <2>2. QED
      BY <1>2, <1>3, <2>1 DEF RingInv, Slot
  <1>6. EntriesInv' /\ EventInv' /\ WorkerFindsMessage' /\ QuitIsLast'
    BY <1>2 DEF EntriesInv, EventInv, WorkerFindsMessage, QuitIsLast
  <1>7. QED
    BY <1>4, <1>5, <1>6 DEF IInv

\* The steps that leave the queue alone.
LEMMA WorkerInv ==
  ASSUME IInv, Wait \/ Look \/ StartWorker \/ UNCHANGED vars
  PROVE  IInv'
  <1>1. TypeOK /\ RingInv /\ EntriesInv /\ EventInv /\ WorkerFindsMessage /\ QuitIsLast
    BY DEF IInv
  <1>2. UNCHANGED <<array, head, tail, size, capacity, closed, event, posted>>
    BY DEF Wait, Look, StartWorker, vars, ring
  <1>3. /\ worker' \in {"none", "wait", "awake"}
        /\ worker' = "awake" => worker = "awake" \/ event
        /\ worker = "none" => worker' = "none" \/ ~closed
        /\ worker # "none" => worker' # "none"
        /\ worker' # "none" /\ worker = "none" => ~closed
    BY <1>1 DEF TypeOK, Wait, Look, StartWorker, vars
  <1>4. out' \in Messages \cup {Quit, NoMessage}
    <2>1. CASE Look
      <3>1. head \in 0..capacity - 1
        BY <1>1 DEF TypeOK
      <3>2. QED
        BY <1>1, <2>1, <3>1 DEF Look, TypeOK
    <2>2. CASE Wait \/ StartWorker \/ UNCHANGED vars
      BY <1>1, <2>2 DEF TypeOK, Wait, StartWorker, vars
    <2>3. QED
      BY <2>1, <2>2
  <1>5. TypeOK'
    BY <1>1, <1>2, <1>3, <1>4, Zenon DEF TypeOK, Messages
  <1>6. RingInv' /\ EntriesInv' /\ EventInv'
    BY <1>1, <1>2, Zenon DEF RingInv, EntriesInv, EventInv, Slot, Messages
  <1>7. WorkerFindsMessage'
    BY <1>1, <1>2, <1>3 DEF WorkerFindsMessage, EventInv
  <1>8. QuitIsLast'
    <2>1. \A k \in 0..size' - 1 : array'[Slot(k)'] = Quit => closed' /\ k = size' - 1
      BY <1>1, <1>2, Zenon DEF QuitIsLast, Slot
    <2>2. closed' => (size' > 0 /\ array'[Slot(size - 1)'] = Quit) \/ worker' = "none"
      <3>1. CASE worker' = "none"
        BY <3>1
      <3>2. CASE worker' # "none"
        <4>1. closed => size > 0 /\ array[Slot(size - 1)] = Quit
          BY <1>1, <1>3, <3>2, Zenon DEF QuitIsLast
        <4>2. QED
          BY <1>2, <4>1, Zenon DEF Slot
      <3>3. QED
        BY <3>1, <3>2
    <2>3. QED
      BY <2>1, <2>2, Zenon DEF QuitIsLast
  <1>9. QED
    BY <1>5, <1>6, <1>7, <1>8 DEF IInv

LEMMA NextInv ==
  ASSUME IInv, [Next]_vars
  PROVE  IInv'
  <1>1. CASE Post
    <2>1. posted' \in 0..MaxMessages /\ posted' \in Messages
      BY <1>1, QueueAssumption DEF Post, IInv, TypeOK, Messages
    <2>2. QED
      BY <1>1, <2>1, DispatchInv DEF Post
  <1>2. CASE PostQuit
    <2>1. posted' \in 0..MaxMessages
      BY <1>2 DEF PostQuit, IInv, TypeOK
    <2>2. QED
      BY <1>2, <2>1, DispatchInv DEF PostQuit
  <1>3. CASE Clear
    BY <1>3, ClearInv
  <1>4. CASE Take
    BY <1>4, TakeInv
  <1>5. CASE Wait \/ Look \/ StartWorker \/ UNCHANGED vars
    BY <1>5, WorkerInv
  <1>6. QED
    BY <1>1, <1>2, <1>3, <1>4, <1>5 DEF Next, Work

\* The ring buffer stays consistent while it wraps around and grows, its event
\* says whether it is empty, and the quit message is its last.
THEOREM Invariance == Spec => []IInv
  <1>1. Init => IInv
    BY InitInv
  <1>2. IInv /\ [Next]_vars => IInv'
    BY NextInv
  <1>3. QED
    BY <1>1, <1>2, PTL DEF Spec

\* A worker that the event has woken finds a message when it gets the lock, so
\* that neither MessageQueue_Get nor MessageQueue_Peek fails it.
THEOREM FindsMessage == Spec => []WorkerFindsMessage
  <1>1. IInv => WorkerFindsMessage
    BY DEF IInv
  <1>2. QED
    BY <1>1, Invariance, PTL

\* MessageQueue_Dispatch puts nothing behind the quit message.
THEOREM NothingAfterQuit == Spec => []QuitIsLast
  <1>1. IInv => QuitIsLast
    BY DEF IInv
  <1>2. QED
    BY <1>1, Invariance, PTL

-----------------------------------------------------------------------------
\* Append and Tail, entry by entry.
LEMMA AppendIs ==
  ASSUME NEW S, NEW s \in Seq(S), NEW m \in S, NEW n \in Nat, Len(s) = n
  PROVE  Append(s, m) = [i \in 1..n + 1 |-> IF i <= n THEN s[i] ELSE m]
  <1> DEFINE t == [i \in 1..n + 1 |-> IF i <= n THEN s[i] ELSE m]
  <1>1. \A i \in 1..n + 1 : t[i] \in S
    OBVIOUS
  <1>2. t \in Seq(S) /\ Len(t) = n + 1
    BY <1>1
  <1>3. /\ Append(s, m) \in Seq(S)
        /\ Len(Append(s, m)) = n + 1
        /\ \A i \in 1..n + 1 : Append(s, m)[i] = t[i]
    BY AppendProperties
  <1> HIDE DEF t
  <1>4. Append(s, m) = t
    BY <1>2, <1>3, SeqEqual
  <1>5. QED
    BY <1>4 DEF t

LEMMA TailIs ==
  ASSUME NEW S, NEW s \in Seq(S), NEW n \in Nat, Len(s) = n, n > 0
  PROVE  Tail(s) = [i \in 1..n - 1 |-> s[i + 1]]
  <1> DEFINE t == [i \in 1..n - 1 |-> s[i + 1]]
  <1>1. \A i \in 1..n - 1 : t[i] \in S
    OBVIOUS
  <1>2. t \in Seq(S) /\ Len(t) = n - 1
    BY <1>1
  <1>3. /\ Tail(s) \in Seq(S)
        /\ Len(Tail(s)) = n - 1
        /\ \A i \in 1..n - 1 : Tail(s)[i] = t[i]
    BY HeadTailProperties
  <1> HIDE DEF t
  <1>4. Tail(s) = t
    BY <1>2, <1>3, SeqEqual
  <1>5. QED
    BY <1>4 DEF t

LEMMA ContentsSeq ==
  ASSUME IInv
  PROVE  /\ Contents \in Seq(Messages \cup {Quit})
         /\ Len(Contents) = size
         /\ size \in Nat
         /\ \A i \in 1..size : Contents[i] = array[Slot(i - 1)]
  <1>1. size \in Nat
    BY DEF IInv, TypeOK
  <1>2. \A i \in 1..size : array[Slot(i - 1)] \in Messages \cup {Quit}
    <2>1. \A i \in 1..size : i - 1 \in 0..size - 1
      BY <1>1
    <2>2. QED
      BY <2>1 DEF IInv, EntriesInv
  <1>3. QED
    BY <1>1, <1>2 DEF Contents

LEMMA FifoPut ==
  ASSUME IInv, IInv', NEW m \in Messages \cup {Quit}, Dispatch(m)
  PROVE  Fifo!Put(m)
  <1>1. /\ head' = head /\ size' = size + 1
        /\ \A k \in 0..size - 1 : array'[(head' + k) % capacity'] = array[Slot(k)]
        /\ array'[(head' + size) % capacity'] = m
    BY Dispatched DEF IInv
  <1>2. /\ Contents \in Seq(Messages \cup {Quit}) /\ Len(Contents) = size /\ size \in Nat
        /\ \A i \in 1..size : Contents[i] = array[Slot(i - 1)]
    BY ContentsSeq
  <1>3. Contents' = [i \in 1..size + 1 |-> array'[(head' + (i - 1)) % capacity']]
    BY <1>1 DEF Contents, Slot
  <1>4. ASSUME NEW i \in 1..size + 1
        PROVE  array'[(head' + (i - 1)) % capacity'] =
                 IF i <= size THEN Contents[i] ELSE m
    <2>1. CASE i <= size
      <3>1. i - 1 \in 0..size - 1 /\ i \in 1..size
        BY <1>2, <2>1
      <3>2. QED
        BY <1>1, <1>2, <2>1, <3>1
    <2>2. CASE ~(i <= size)
      <3>1. i - 1 = size
        BY <1>2, <2>2
      <3>2. QED
        BY <1>1, <2>2, <3>1
    <2>3. QED
      BY <2>1, <2>2
  <1>5. Contents' = [i \in 1..size + 1 |-> IF i <= size THEN Contents[i] ELSE m]
    BY <1>3, <1>4, Zenon
  <1>6. Append(Contents, m) = [i \in 1..size + 1 |-> IF i <= size THEN Contents[i] ELSE m]
    <2> DEFINE S == Messages \cup {Quit}
    <2>1. Contents \in Seq(S) /\ m \in S /\ size \in Nat /\ Len(Contents) = size
      BY <1>2
    <2> HIDE DEF S
    <2>2. QED
      BY <2>1, AppendIs
  <1>7. Contents' = Append(Contents, m)
    BY <1>5, <1>6, Zenon
  <1>8. ~closed /\ closed' = (m = Quit) /\ out' = out
    BY DEF Dispatch
  <1>9. QED
    BY <1>7, <1>8, Zenon DEF Fifo!Put

LEMMA FifoTake ==
  ASSUME IInv, IInv', Take
  PROVE  Fifo!Take
  <1>1. /\ size > 0 /\ size' = size - 1
        /\ out' = array[Slot(0)]
        /\ capacity' = capacity
        /\ \A k \in 0..size' - 1 : array'[(head' + k) % capacity] = array[Slot(k + 1)]
    BY Taken DEF IInv, Take
  <1>2. /\ Contents \in Seq(Messages \cup {Quit}) /\ Len(Contents) = size /\ size \in Nat
        /\ \A i \in 1..size : Contents[i] = array[Slot(i - 1)]
    BY ContentsSeq
  <1>3. Contents # <<>> /\ Head(Contents) = out'
    <2>1. 1 \in 1..size /\ 1 - 1 = 0
      BY <1>1, <1>2
    <2>2. Contents[1] = array[Slot(0)]
      BY <1>2, <2>1
    <2>3. QED
      BY <1>1, <1>2, <2>2
  <1>4. Contents' = [i \in 1..size - 1 |-> array'[(head' + (i - 1)) % capacity]]
    BY <1>1 DEF Contents, Slot
  <1>5. ASSUME NEW i \in 1..size - 1
        PROVE  array'[(head' + (i - 1)) % capacity] = Contents[i + 1]
    <2>1. i - 1 \in 0..size' - 1 /\ (i - 1) + 1 = i /\ i + 1 \in 1..size /\ (i + 1) - 1 = i
      BY <1>1, <1>2
    <2>2. QED
      BY <1>1, <1>2, <2>1
  <1>6. Contents' = [i \in 1..size - 1 |-> Contents[i + 1]]
    BY <1>4, <1>5, Zenon
  <1>7. Tail(Contents) = [i \in 1..size - 1 |-> Contents[i + 1]]
    BY <1>1, <1>2, TailIs, Zenon
  <1>8. Contents' = Tail(Contents)
    BY <1>6, <1>7, Zenon
  <1>9. closed' = closed
    BY DEF Take, TakeHead
  <1>10. QED
    BY <1>3, <1>8, <1>9, Zenon DEF Fifo!Take

LEMMA FifoLook ==
  ASSUME IInv, Look
  PROVE  Fifo!Look
  <1>1. /\ Contents \in Seq(Messages \cup {Quit}) /\ Len(Contents) = size /\ size \in Nat
        /\ \A i \in 1..size : Contents[i] = array[Slot(i - 1)]
    BY ContentsSeq
  <1>2. /\ size > 0 /\ out' = array[head] /\ closed' = closed
        /\ array' = array /\ head' = head /\ size' = size /\ capacity' = capacity
    BY DEF Look, ring
  <1>3. Slot(0) = head
    BY DEF IInv, TypeOK, Slot
  <1>4. 1 \in 1..size /\ 1 - 1 = 0
    BY <1>1, <1>2
  <1>5. Contents[1] = array[Slot(0)]
    BY <1>1, <1>4
  <1>6. Contents # <<>> /\ Head(Contents) = out'
    BY <1>1, <1>2, <1>3, <1>5
  <1>7. Contents' = Contents
    BY <1>2 DEF Contents, Slot
  <1>8. QED
    BY <1>2, <1>6, <1>7, Zenon DEF Fifo!Look

\* The ring buffer of MessageQueue.c implements a first-in first-out queue that
\* is closed by the quit message.
THEOREM Refinement == Spec => QueueIsFifo
  <1>1. Init => Fifo!Init
    <2> SUFFICES ASSUME Init PROVE Fifo!Init
      OBVIOUS
    <2>1. Contents = <<>>
      BY DEF Init, Contents
    <2>2. out \notin Messages \cup {Quit}
      BY QueueAssumption DEF Init, Messages
    <2>3. QED
      BY <2>1, <2>2 DEF Init, Fifo!Init
  <1>2. IInv /\ IInv' /\ [Next]_vars => [Fifo!Next]_Fifo!vars
    <2> SUFFICES ASSUME IInv, IInv', [Next]_vars
                 PROVE  [Fifo!Next]_Fifo!vars
      OBVIOUS
    <2>1. CASE Post
      <3>1. posted' \in Messages
        BY <2>1, QueueAssumption DEF Post, IInv, TypeOK, Messages
      <3>2. Fifo!Put(posted')
        BY <2>1, <3>1, FifoPut DEF Post
      <3>3. QED
        BY <3>1, <3>2, Zenon DEF Fifo!Next
    <2>2. CASE PostQuit
      <3>1. Fifo!Put(Quit)
        BY <2>2, FifoPut DEF PostQuit
      <3>2. QED
        BY <3>1, Zenon DEF Fifo!Next
    <2>3. CASE Take
      BY <2>3, FifoTake DEF Fifo!Next
    <2>4. CASE Look
      BY <2>4, FifoLook DEF Fifo!Next
    <2>5. CASE Clear
      <3>1. Contents' = <<>>
        BY <2>5 DEF Clear, Contents
      <3>2. QED
        BY <2>5, <3>1 DEF Clear, Fifo!Next, Fifo!Clear
    <2>6. CASE Wait \/ StartWorker \/ UNCHANGED vars
      <3>1. UNCHANGED <<array, head, size, capacity, closed, out>>
        BY <2>6 DEF Wait, StartWorker, vars, ring
      <3>2. Contents' = Contents
        BY <3>1 DEF Contents, Slot
      <3>3. QED
        BY <3>1, <3>2 DEF Fifo!vars
    <2>7. QED
      BY <2>1, <2>2, <2>3, <2>4, <2>5, <2>6 DEF Next, Work
  <1>3. QED
    BY <1>1, <1>2, Invariance, PTL DEF Spec, QueueIsFifo, Fifo!Spec
=============================================================================
