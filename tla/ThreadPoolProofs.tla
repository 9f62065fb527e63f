--------------------------- MODULE ThreadPoolProofs ---------------------------
(***************************************************************************)
(* The invariants of the thread pool, and that it implements its work      *)
(* objects, for any number of clients, threads and submissions and any     *)
(* sequence of resizes.                                                    *)
(***************************************************************************)
EXTENDS ThreadPool, FiniteSetTheorems, SequenceTheorems, TLAPS

\* What the threads take out of the queue and put into it
LEMMA AppendQueue ==
  ASSUME NEW S, NEW s \in Seq(S), NEW x \in S
  PROVE  /\ Append(s, x) \in Seq(S)
         /\ Append(s, x) # <<>>
         /\ DOMAIN Append(s, x) = (DOMAIN s) \cup {Len(s) + 1}
         /\ Len(s) + 1 \notin DOMAIN s
         /\ \A k \in DOMAIN s : Append(s, x)[k] = s[k]
         /\ Append(s, x)[Len(s) + 1] = x
  OBVIOUS

LEMMA TailQueue ==
  ASSUME NEW S, NEW s \in Seq(S), s # <<>>
  PROVE  /\ Tail(s) \in Seq(S) /\ Head(s) \in S
         /\ Len(s) \in Nat /\ Len(s) >= 1
         /\ DOMAIN s = 1..Len(s) /\ DOMAIN Tail(s) = 1..Len(s) - 1
         /\ \A k \in 1..Len(s) - 1 : Tail(s)[k] = s[k + 1]
         /\ Head(s) = s[1]
  OBVIOUS

\* Adding to the queue, without an element twice
LEMMA QueueAdd ==
  ASSUME NEW S, NEW s \in Seq(S), NEW x \in S
  PROVE  LET t == Append(s, x) IN
         /\ {t[k] : k \in DOMAIN t} = {s[k] : k \in DOMAIN s} \cup {x}
         /\ (/\ x \notin {s[k] : k \in DOMAIN s}
             /\ \A j, k \in DOMAIN s : s[j] = s[k] => j = k)
            => \A j, k \in DOMAIN t : t[j] = t[k] => j = k
  <1> DEFINE t == Append(s, x)
  <1>1. /\ DOMAIN t = (DOMAIN s) \cup {Len(s) + 1}
        /\ \A k \in DOMAIN s : t[k] = s[k]
        /\ t[Len(s) + 1] = x
    BY AppendQueue
  <1> HIDE DEF t
  <1>2. {t[k] : k \in DOMAIN t} = {s[k] : k \in DOMAIN s} \cup {x}
    BY <1>1
  <1>3. ASSUME x \notin {s[k] : k \in DOMAIN s},
               \A j, k \in DOMAIN s : s[j] = s[k] => j = k,
               NEW j \in DOMAIN t, NEW k \in DOMAIN t, t[j] = t[k]
        PROVE  j = k
    BY <1>1, <1>3
  <1>4. QED
    BY <1>2, <1>3 DEF t

\* Removing its first element
LEMMA QueueRemove ==
  ASSUME NEW S, NEW s \in Seq(S), s # <<>>
  PROVE  /\ {s[k] : k \in DOMAIN s} = {Tail(s)[k] : k \in DOMAIN Tail(s)} \cup {Head(s)}
         /\ (\A j, k \in DOMAIN s : s[j] = s[k] => j = k)
            => /\ Head(s) \notin {Tail(s)[k] : k \in DOMAIN Tail(s)}
               /\ \A j, k \in DOMAIN Tail(s) : Tail(s)[j] = Tail(s)[k] => j = k
  <1> DEFINE t == Tail(s)
             n == Len(s)
             h == Head(s)
  <1>1. /\ n \in Nat /\ n >= 1
        /\ DOMAIN s = 1..n /\ DOMAIN t = 1..n - 1
        /\ \A k \in 1..n - 1 : t[k] = s[k + 1]
        /\ h = s[1]
    BY TailQueue
  <1> HIDE DEF t, n, h
  <1>2. {s[k] : k \in DOMAIN s} \subseteq {t[k] : k \in DOMAIN t} \cup {h}
    <2> SUFFICES ASSUME NEW k \in 1..n
                 PROVE  s[k] \in {t[j] : j \in DOMAIN t} \cup {h}
      BY <1>1
    <2>1. CASE k = 1
      BY <1>1, <2>1
    <2>2. CASE k # 1
      <3>1. k - 1 \in 1..n - 1 /\ (k - 1) + 1 = k
        BY <1>1, <2>2
      <3>2. t[k - 1] = s[k]
        BY <1>1, <3>1
      <3>3. QED
        BY <1>1, <3>1, <3>2
    <2>3. QED
      BY <2>1, <2>2
  <1>3. {t[k] : k \in DOMAIN t} \cup {h} \subseteq {s[k] : k \in DOMAIN s}
    BY <1>1
  <1>4. ASSUME \A j, k \in DOMAIN s : s[j] = s[k] => j = k
        PROVE  /\ h \notin {t[k] : k \in DOMAIN t}
               /\ \A j, k \in DOMAIN t : t[j] = t[k] => j = k
    <2>1. ASSUME NEW k \in DOMAIN t
          PROVE  t[k] # h
      BY <1>1, <1>4
    <2>2. ASSUME NEW j \in DOMAIN t, NEW k \in DOMAIN t, t[j] = t[k]
          PROVE  j = k
      <3>1. j \in 1..n - 1 /\ k \in 1..n - 1
        BY <1>1
      <3>2. s[j + 1] = s[k + 1] /\ j + 1 \in DOMAIN s /\ k + 1 \in DOMAIN s
        BY <1>1, <2>2, <3>1
      <3>3. j + 1 = k + 1
        BY <1>4, <3>2
      <3>4. QED
        BY <3>1, <3>3
    <2>3. QED
      BY <2>1, <2>2
  <1>5. QED
    BY <1>2, <1>3, <1>4 DEF t, h

LEMMA FiniteInstances == IsFiniteSet(Instances)
  <1>1. IsFiniteSet(1..MaxSubmits) /\ IsFiniteSet(Clients)
    BY FS_Interval, PoolAssumption
  <1>2. QED
    BY <1>1, FS_Product DEF Instances

LEMMA OutstandingFinite ==
  ASSUME TypeOK, OnePlace
  PROVE  /\ Outstanding \subseteq Instances
         /\ IsFiniteSet(Outstanding)
         /\ Cardinality(Outstanding) \in Nat
         /\ Cardinality(Outstanding) = 0 <=> Outstanding = {}
  <1>1. Queued \subseteq Instances
    BY DEF Queued, TypeOK
  <1>2. Taken \subseteq Instances
    BY DEF Taken, TypeOK
  <1>3. \A c \in Counted : <<c, submitted[c]>> \in Instances
    BY PoolAssumption DEF OnePlace, Counted, Instances, TypeOK
  <1>4. Outstanding \subseteq Instances
    BY <1>1, <1>2, <1>3 DEF Outstanding
  <1>5. IsFiniteSet(Outstanding)
    BY <1>4, FiniteInstances, FS_Subset
  <1>6. QED
    BY <1>4, <1>5, FS_CardinalityType, FS_EmptySet

\* What has not run is outstanding, what is outstanding is somebody's.
LEMMA NotRunOutstanding ==
  ASSUME TypeOK, OnePlace
  PROVE  /\ NotRun \subseteq Outstanding
         /\ Queued \subseteq Instances /\ Taken \subseteq Instances
         /\ Outstanding \subseteq Instances /\ NotRun \subseteq Instances
         /\ \A i \in Instances : i[1] \in Clients /\ i[2] \in Nat /\ i[2] >= 1
                                /\ i = <<i[1], i[2]>>
  <1>1. {at[w] : w \in {v \in Workers : thread[v] = "run"}} \subseteq Taken
    BY DEF OnePlace, Taken
  <1>2. NotRun \subseteq Outstanding
    BY <1>1 DEF NotRun, Outstanding
  <1>3. Outstanding \subseteq Instances
    BY OutstandingFinite
  <1>4. Queued \subseteq Instances /\ Taken \subseteq Instances
    BY <1>3 DEF Outstanding
  <1>5. \A i \in Instances : i[1] \in Clients /\ i[2] \in Nat /\ i[2] >= 1
                            /\ i = <<i[1], i[2]>>
    BY PoolAssumption DEF Instances
  <1>6. QED
    BY <1>2, <1>3, <1>4, <1>5

\* A step that moves neither instances nor clients, as most of the steps of the
\* owner and of the threads
LEMMA QuietStep ==
  ASSUME IInv, TypeOK',
         UNCHANGED <<queueVars, countVars, at, clientVars, runs>>,
         \A w \in Workers : /\ thread'[w] = "run" <=> thread[w] = "run"
                            /\ thread'[w] = "signal" <=> thread[w] = "signal",
         (\E c \in Clients : work[c] /\ client[c] # "gone") => pool' = "open",
         pool' = "none" => owner' = "idle" /\ Threads' = {} /\ pending = <<>>
  PROVE  IInv'
  <1>1. UNCHANGED <<pending, ready, count, complete, at, user, client, work, submitted, runs>>
    BY DEF queueVars, countVars, clientVars
  <1>2. /\ Counted' = Counted /\ Queued' = Queued /\ Taken' = Taken
        /\ Outstanding' = Outstanding
    BY <1>1 DEF Counted, Queued, Taken, Outstanding
  <1>3. NotRun' = NotRun
    <2>1. {w \in Workers : thread'[w] = "run"} = {w \in Workers : thread[w] = "run"}
      OBVIOUS
    <2>2. QED
      BY <1>1, <1>2, <2>1 DEF NotRun
  <1>4. OnePlace'
    BY <1>1, <1>2 DEF IInv, OnePlace
  <1>5. RunsOnce'
    BY <1>1, <1>3 DEF IInv, RunsOnce
  <1>6. InUse'
    BY <1>1, <1>2, <1>3 DEF IInv, InUse
  <1>7. CountsOutstanding'
    BY <1>1, <1>2 DEF IInv, CountsOutstanding
  <1>8. QED
    BY <1>4, <1>5, <1>6, <1>7 DEF IInv

\* Without threads, and with no work object but those given up, nothing is
\* outstanding but what is in the queue; what has not run was given up.
LEMMA NobodyLeft ==
  ASSUME IInv, pool # "open", Threads = {}
  PROVE  /\ Counted = {} /\ Taken = {} /\ Outstanding = Queued
         /\ \A w \in Workers : thread[w] = "none" /\ at[w] = None
         /\ \A i \in NotRun : client[i[1]] = "gone"
  <1>1. \A w \in Workers : thread[w] = "none"
    BY DEF Threads
  <1>2. \A w \in Workers : at[w] = None
    BY <1>1 DEF IInv, OnePlace
  <1>3. Counted = {}
    BY DEF Counted, IInv, InUse
  <1>4. Taken = {}
    BY <1>2 DEF Taken
  <1>5. \A i \in NotRun : i[1] \in Clients /\ work[i[1]]
    BY NotRunOutstanding DEF IInv, InUse
  <1>6. \A i \in NotRun : client[i[1]] = "gone"
    BY <1>5 DEF IInv, InUse
  <1>7. QED
    BY <1>1, <1>2, <1>3, <1>4, <1>6 DEF Outstanding

\* A closed pool has nothing to do.
LEMMA NothingToDo ==
  ASSUME IInv, pool = "none"
  PROVE  /\ pending = <<>> /\ ready = FALSE /\ count = 0 /\ complete = TRUE
         /\ Threads = {}
  <1>1. Threads = {} /\ pending = <<>>
    BY DEF IInv, InUse
  <1>2. Queued = {}
    BY <1>1 DEF Queued
  <1>3. Outstanding = {}
    BY <1>1, <1>2, NobodyLeft
  <1>4. count = 0 /\ complete = TRUE /\ ready = FALSE
    BY <1>1, <1>3, OutstandingFinite DEF IInv, CountsOutstanding, TypeOK
  <1>5. QED
    BY <1>1, <1>4

\* CloseThreadpool frees the queue and the counter when the threads are gone.
LEMMA CloseDoneKeepsIInv ==
  ASSUME IInv, JoinDone, pool = "closing"
  PROVE  IInv'
  <1>1. /\ UNCHANGED <<terminate, Minimum, resizes, failures, thread, at, user, client, work>>
        /\ UNCHANGED <<submitted, runs>>
        /\ pending' = <<>> /\ ready' = FALSE /\ count' = 0 /\ complete' = TRUE
        /\ pool' = "none" /\ owner' = "idle" /\ Threads = {}
    BY DEF JoinDone, FreeQueue, threadVars, clientVars
  <1>2. /\ Counted = {} /\ Taken = {}
        /\ \A w \in Workers : thread[w] = "none" /\ at[w] = None
        /\ \A i \in NotRun : client[i[1]] = "gone"
    BY <1>1, NobodyLeft
  <1>3. DOMAIN pending' = {}
    BY <1>1
  <1>4. Counted' = {} /\ Taken' = {} /\ Threads' = {} /\ Queued' = {}
    BY <1>1, <1>2, <1>3 DEF Counted, Taken, Threads, Queued
  <1>5. Outstanding' = {} /\ NotRun' = {}
    BY <1>1, <1>2, <1>4 DEF Outstanding, NotRun
  <1>6. TypeOK'
    <2>1. pending' \in Seq(Instances) /\ count' \in Nat
      BY <1>1
    <2>2. ready' \in BOOLEAN /\ complete' \in BOOLEAN
      BY <1>1, Zenon
    <2>3. QED
      BY <1>1, <2>1, <2>2 DEF IInv, TypeOK
  <1>7. OnePlace'
    BY <1>1, <1>2, <1>3, <1>4 DEF OnePlace
  <1>8. RunsOnce'
    BY <1>1, <1>2, <1>5 DEF IInv, RunsOnce
  <1>9. InUse'
    <2>1. \A c \in Clients : work[c] => client[c] = "gone"
      BY DEF IInv, InUse
    <2>2. QED
      BY <1>1, <1>4, <1>5, <2>1 DEF IInv, InUse
  <1>10. CountsOutstanding'
    BY <1>1, <1>5, FS_EmptySet DEF CountsOutstanding
  <1>11. QED
    BY <1>6, <1>7, <1>8, <1>9, <1>10 DEF IInv

LEMMA OwnerKeepsIInv ==
  ASSUME IInv, OwnerStep \/ OwnerCall \/ StartThreadFails
  PROVE  IInv'
  <1> USE DEF queueVars, countVars, ownerVars, threadVars, clientVars
  <1> DEFINE InWork == \E c \in Clients : work[c] /\ client[c] # "gone"
  <1>0. /\ TypeOK /\ (InWork => pool = "open")
        /\ owner # "idle" => pool # "none"
    BY DEF IInv, InUse
  <1>1. CASE CreateThreadpool
    <2>1. ~InWork
      BY <1>0, <1>1 DEF CreateThreadpool
    <2>2. UNCHANGED <<queueVars, countVars>>
      BY <1>1, NothingToDo DEF CreateThreadpool
    <2>3. TypeOK'
      <3>1. Processors \in 0..MaxThreads
        BY PoolAssumption
      <3>2. QED
        BY <1>0, <1>1, <2>2, <3>1 DEF CreateThreadpool, TypeOK
    <2>4. QED
      BY <1>1, <2>1, <2>2, <2>3, QuietStep DEF CreateThreadpool
  <1>2. CASE CloseThreadpool
    <2>1. TypeOK'
      BY <1>2 DEF CloseThreadpool, IInv, TypeOK
    <2>2. QED
      BY <1>2, <2>1, QuietStep DEF CloseThreadpool
  <1>3. ASSUME NEW n \in Minimums, SetMinimum(n)
        PROVE  IInv'
    <2>1. TypeOK'
      BY <1>3, PoolAssumption DEF SetMinimum, Resize, IInv, TypeOK
    <2>2. QED
      BY <1>3, <2>1, QuietStep DEF SetMinimum, Resize
  <1>4. ASSUME NEW n \in Maximums, SetMaximum(n)
        PROVE  IInv'
    <2>1. TypeOK'
      <3>1. resizes' \in 0..MaxResizes
        BY <1>0, <1>4, PoolAssumption DEF SetMaximum, Resize, TypeOK
      <3>2. owner' \in {"idle", "join", "grow"} /\ terminate' \in BOOLEAN
        BY <1>0, <1>4 DEF SetMaximum, TypeOK
      <3>3. QED
        BY <1>0, <1>4, <3>1, <3>2 DEF SetMaximum, TypeOK
    <2>2. QED
      BY <1>4, <2>1, QuietStep DEF SetMaximum, Resize
  <1>5. CASE GrowDone
    <2>1. TypeOK'
      BY <1>5 DEF GrowDone, IInv, TypeOK
    <2>2. QED
      BY <1>5, <2>1, QuietStep DEF GrowDone
  <1>6. CASE JoinDone /\ pool = "closing"
    BY <1>6, CloseDoneKeepsIInv
  <1>7. CASE JoinDone /\ pool # "closing"
    <2>1. TypeOK'
      BY <1>7 DEF JoinDone, IInv, TypeOK
    <2>2. pool' = pool /\ pool # "none"
      BY <1>0, <1>7 DEF JoinDone
    <2>3. QED
      BY <1>0, <1>7, <2>1, <2>2, QuietStep DEF JoinDone
  <1>8. CASE StartThreadFails
    <2>1. TypeOK'
      <3>1. failures' \in 0..MaxFailures
        BY <1>0, <1>8, PoolAssumption DEF StartThreadFails, TypeOK
      <3>2. /\ owner' \in {"idle", "join", "grow"} /\ terminate' \in BOOLEAN
            /\ pool' \in {"none", "creating", "open", "closing"}
        BY <1>0, <1>8 DEF StartThreadFails, TypeOK
      <3>3. QED
        BY <1>0, <1>8, <3>1, <3>2 DEF StartThreadFails, TypeOK
    <2>2. (InWork => pool' = "open") /\ pool' # "none"
      BY <1>0, <1>8 DEF StartThreadFails
    <2>3. QED
      BY <1>8, <2>1, <2>2, QuietStep DEF StartThreadFails
  <1>9. ASSUME NEW w \in Workers, StartThread(w) \/ Join(w)
        PROVE  IInv'
    <2>1. TypeOK'
      BY <1>9 DEF StartThread, Join, IInv, TypeOK
    <2>2. \A v \in Workers : /\ thread'[v] = "run" <=> thread[v] = "run"
                             /\ thread'[v] = "signal" <=> thread[v] = "signal"
      BY <1>9 DEF StartThread, Join, IInv, TypeOK
    <2>3. pool' = pool /\ pool # "none"
      BY <1>0, <1>9 DEF StartThread, Join
    <2>4. QED
      BY <1>0, <1>9, <2>1, <2>2, <2>3, QuietStep DEF StartThread, Join
  <1>10. QED
    BY <1>1, <1>2, <1>3, <1>4, <1>5, <1>6, <1>7, <1>8, <1>9 DEF OwnerStep, OwnerCall

\* The steps of a client that change nothing but the client
LEMMA ClientCallKeepsIInv ==
  ASSUME IInv, NEW c \in Clients,
         \/ CreateThreadpoolWork(c) \/ WaitForCallbacks(c)
         \/ WaitReturns(c) \/ CloseThreadpoolWork(c) \/ Abandon(c)
  PROVE  IInv'
  <1>1. /\ UNCHANGED <<pending, ready, count, complete, pool, thread, at, user, submitted, runs>>
        /\ UNCHANGED <<terminate, Minimum, owner, resizes, failures>>
    BY DEF CreateThreadpoolWork, WaitForCallbacks, WaitReturns, CloseThreadpoolWork, Abandon,
           queueVars, countVars, ownerVars, threadVars
  <1>2. /\ \A d \in Clients : d # c => client'[d] = client[d] /\ work'[d] = work[d]
        /\ client[c] # "counted" /\ client'[c] # "counted"
        /\ client[c] # "gone"
        /\ client' \in [Clients -> {"idle", "created", "counted", "waiting", "waited", "gone"}]
        /\ work' \in [Clients -> BOOLEAN]
    BY DEF CreateThreadpoolWork, WaitForCallbacks, WaitReturns, CloseThreadpoolWork, Abandon,
           IInv, TypeOK
  <1>3. TypeOK'
    BY <1>1, <1>2 DEF IInv, TypeOK
  <1>4. Counted' = Counted /\ Queued' = Queued /\ Taken' = Taken
    BY <1>1, <1>2 DEF Counted, Queued, Taken
  <1>5. Outstanding' = Outstanding /\ NotRun' = NotRun
    BY <1>1, <1>4 DEF Outstanding, NotRun
  <1>6. /\ Queued \subseteq Instances /\ Taken \subseteq Instances
        /\ Outstanding \subseteq Instances /\ NotRun \subseteq Outstanding
        /\ \A i \in Instances : i[1] \in Clients
    BY NotRunOutstanding DEF IInv
  <1>7. \A d \in Clients : /\ client'[d] = "counted" <=> client[d] = "counted"
                           /\ client[d] = "gone" => client'[d] = "gone"
    BY <1>2
  <1>8. OnePlace'
    BY <1>1, <1>4, <1>6, <1>7 DEF IInv, OnePlace
  <1>9. RunsOnce'
    BY <1>1, <1>5, <1>6, <1>7 DEF IInv, RunsOnce
  <1>10. CountsOutstanding'
    BY <1>1, <1>5 DEF IInv, CountsOutstanding
  <1>11. InUse'
    <2>0. pool' = "none" => owner' = "idle" /\ Threads' = {} /\ pending' = <<>>
      BY <1>1 DEF IInv, InUse, Threads
    <2>1. CASE CreateThreadpoolWork(c)
      <3>1. ~work[c] /\ work'[c] /\ client'[c] = "created" /\ pool = "open"
        BY <2>1 DEF CreateThreadpoolWork, IInv, TypeOK
      <3>2. \A i \in NotRun : i[1] # c
        BY <3>1 DEF IInv, InUse
      <3>3. user = "codec" => \A i \in Outstanding : i[1] # c
        BY <3>1 DEF IInv, InUse
      <3>4. QED
        BY <1>1, <1>2, <1>5, <1>6, <2>0, <3>1, <3>2, <3>3 DEF IInv, InUse
    <2>2. CASE WaitForCallbacks(c) \/ Abandon(c)
      <3>1. /\ work' = work /\ work[c] /\ client'[c] \in {"waiting", "gone"} /\ user = "codec"
        BY <2>2 DEF WaitForCallbacks, Abandon, IInv, TypeOK
      <3>2. QED
        BY <1>1, <1>2, <1>5, <1>6, <2>0, <3>1 DEF IInv, InUse
    <2>3. CASE WaitReturns(c)
      <3>1. Outstanding = {} /\ NotRun = {}
        BY <1>6, <2>3, OutstandingFinite DEF WaitReturns, IInv, CountsOutstanding
      <3>2. work' = work /\ client[c] = "waiting" /\ client'[c] = "waited" /\ user # "smartcard"
        BY <2>3 DEF WaitReturns, IInv, TypeOK, InUse
      <3>3. QED
        BY <1>1, <1>2, <1>5, <2>0, <3>1, <3>2 DEF IInv, InUse
    <2>4. CASE CloseThreadpoolWork(c)
      <3>1. /\ client[c] = "waited" /\ client'[c] = "idle" /\ ~work'[c]
            /\ user # "smartcard" /\ user = "codec"
        BY <2>4 DEF CloseThreadpoolWork, IInv, TypeOK, InUse
      <3>2. \A i \in Outstanding : i[1] # c
        BY <3>1 DEF IInv, InUse
      <3>3. QED
        BY <1>1, <1>2, <1>5, <1>6, <2>0, <3>1, <3>2 DEF IInv, InUse
    <2>5. QED
      BY <2>1, <2>2, <2>3, <2>4
  <1>12. QED
    BY <1>3, <1>8, <1>9, <1>10, <1>11 DEF IInv

\* AddCount for a new instance: it is outstanding from here on.
LEMMA SubmitCountKeepsIInv ==
  ASSUME IInv, NEW c \in Clients, SubmitCount(c)
  PROVE  IInv'
  <1> DEFINE n == submitted[c] + 1
  <1>1. /\ UNCHANGED <<pending, ready, pool, thread, at, user, work, runs>>
        /\ UNCHANGED <<terminate, Minimum, owner, resizes, failures>>
        /\ count' = count + 1 /\ complete' = FALSE
    BY DEF SubmitCount, AddCount, queueVars, ownerVars, threadVars
  <1>2. /\ client[c] # "counted" /\ client'[c] = "counted" /\ work[c]
        /\ client[c] # "gone" /\ (user = "codec" \/ client[c] = "created")
        /\ submitted'[c] = n /\ n \in 1..MaxSubmits /\ submitted[c] \in Nat
        /\ \A d \in Clients : d # c => client'[d] = client[d] /\ submitted'[d] = submitted[d]
        /\ client' \in [Clients -> {"idle", "created", "counted", "waiting", "waited", "gone"}]
        /\ submitted' \in [Clients -> 0..MaxSubmits]
    BY PoolAssumption DEF SubmitCount, IInv, TypeOK
  <1>3. TypeOK'
    <2>1. count \in Nat
      BY DEF IInv, TypeOK
    <2>2. count' \in Nat
      BY <1>1, <2>1
    <2>3. complete' \in BOOLEAN
      BY <1>1
    <2>4. QED
      BY <1>1, <1>2, <2>2, <2>3 DEF IInv, TypeOK
  <1>4. Counted' = Counted \cup {c} /\ Queued' = Queued /\ Taken' = Taken /\ c \notin Counted
    BY <1>1, <1>2 DEF Counted, Queued, Taken
  <1>5. Outstanding' = Outstanding \cup {<<c, n>>} /\ NotRun' = NotRun \cup {<<c, n>>}
    <2>1. \A d \in Counted : submitted'[d] = submitted[d]
      BY <1>2, <1>4 DEF Counted
    <2>2. {<<d, submitted'[d]>> : d \in Counted'} =
            {<<d, submitted[d]>> : d \in Counted} \cup {<<c, n>>}
      BY <1>2, <1>4, <2>1
    <2>3. QED
      BY <1>1, <1>4, <2>2 DEF Outstanding, NotRun
  <1>6. /\ Queued \subseteq Instances /\ Taken \subseteq Instances
        /\ Outstanding \subseteq Instances /\ NotRun \subseteq Outstanding
        /\ \A i \in Instances : i[1] \in Clients /\ i[2] \in Nat /\ i = <<i[1], i[2]>>
    BY NotRunOutstanding DEF IInv
  <1>8. \A i \in Queued \cup Taken : i[2] <= submitted[i[1]]
    BY DEF IInv, OnePlace
  <1>9. <<c, n>> \notin Outstanding
    BY <1>2, <1>4, <1>8 DEF Outstanding
  <1>10. OnePlace'
    <2>1. \A i \in Queued \cup Taken :
             /\ i[2] <= submitted'[i[1]]
             /\ client'[i[1]] = "counted" => i[2] < submitted'[i[1]]
      <3> SUFFICES ASSUME NEW i \in Queued \cup Taken
                   PROVE  /\ i[2] <= submitted'[i[1]]
                          /\ client'[i[1]] = "counted" => i[2] < submitted'[i[1]]
        OBVIOUS
      <3>1. i[1] \in Clients /\ i[2] \in Nat /\ i[2] <= submitted[i[1]]
        BY <1>6, <1>8
      <3>2. CASE i[1] = c
        BY <1>2, <3>1, <3>2
      <3>3. CASE i[1] # c
        BY <1>2, <3>1, <3>3 DEF IInv, OnePlace
      <3>4. QED
        BY <3>2, <3>3
    <2>2. \A d \in Counted' : submitted'[d] >= 1
      BY <1>2, <1>4 DEF IInv, OnePlace, Counted
    <2>3. QED
      BY <1>1, <1>4, <2>1, <2>2 DEF IInv, OnePlace
  <1>11. RunsOnce'
    <2> SUFFICES ASSUME NEW i \in Instances
                 PROVE  /\ runs[i] \in {0, 1}
                        /\ i \in NotRun' \/ i[2] > submitted'[i[1]] => runs[i] = 0
                        /\ i \notin NotRun' /\ i[2] <= submitted'[i[1]]
                             /\ client'[i[1]] # "gone" => runs[i] = 1
      BY <1>1 DEF RunsOnce
    <2>1. i[1] \in Clients /\ i[2] \in Nat /\ i = <<i[1], i[2]>>
      BY <1>6
    <2>2. /\ runs[i] \in {0, 1}
          /\ i \in NotRun \/ i[2] > submitted[i[1]] => runs[i] = 0
          /\ i \notin NotRun /\ i[2] <= submitted[i[1]] /\ client[i[1]] # "gone" => runs[i] = 1
      BY DEF IInv, RunsOnce
    <2>3. CASE i[1] = c
      <3>1. i \in NotRun' <=> i \in NotRun \/ i[2] = n
        BY <1>5, <2>1, <2>3
      <3>2. QED
        BY <1>2, <2>1, <2>2, <2>3, <3>1
    <2>4. CASE i[1] # c
      <3>1. i \in NotRun' <=> i \in NotRun
        BY <1>5, <2>1, <2>4
      <3>2. QED
        BY <1>2, <2>1, <2>2, <2>4, <3>1
    <2>5. QED
      BY <2>3, <2>4
  <1>12. InUse'
    <2> DEFINE x == <<c, n>>
    <2>0. x[1] = c /\ x[2] = n
      OBVIOUS
    <2> HIDE DEF x
    <2>1. Outstanding' = Outstanding \cup {x} /\ NotRun' = NotRun \cup {x}
      BY <1>5 DEF x
    <2>2. pool = "open"
      BY <1>2 DEF IInv, InUse
    <2>3. \A i \in NotRun' : work'[i[1]]
      BY <1>1, <1>2, <2>0, <2>1 DEF IInv, InUse
    <2>4. ASSUME user = "codec"
          PROVE  \A i \in Outstanding' : work'[i[1]] /\ client'[i[1]] \notin {"created", "waited"}
      BY <1>1, <1>2, <1>6, <2>0, <2>1, <2>4 DEF IInv, InUse
    <2>5. ASSUME user = "smartcard"
          PROVE  /\ \A d \in Clients : client'[d] \in {"idle", "created", "counted"}
                 /\ \A i \in NotRun' : i[2] = submitted'[i[1]] /\ client'[i[1]] # "created"
      <3>1. client[c] = "created"
        BY <1>2, <2>5
      <3>2. \A i \in NotRun : i[1] # c
        BY <2>5, <3>1 DEF IInv, InUse
      <3>3. \A d \in Clients : client'[d] \in {"idle", "created", "counted"}
        BY <1>2, <2>5 DEF IInv, InUse
      <3>4. \A i \in NotRun : i[2] = submitted'[i[1]] /\ client'[i[1]] # "created"
        BY <1>2, <1>6, <2>5, <3>2 DEF IInv, InUse
      <3>5. QED
        BY <1>2, <2>0, <2>1, <3>3, <3>4
    <2>6. QED
      BY <1>1, <1>2, <2>2, <2>3, <2>4, <2>5 DEF IInv, InUse
  <1>13. CountsOutstanding'
    <2>1. Cardinality(Outstanding') = count + 1
      BY <1>5, <1>9, OutstandingFinite, FS_AddElement DEF IInv, CountsOutstanding
    <2>2. QED
      BY <1>1, <2>1 DEF IInv, CountsOutstanding, TypeOK
  <1>14. QED
    BY <1>3, <1>10, <1>11, <1>12, <1>13 DEF IInv

\* Queue_Enqueue moves the instance from its client to the queue.
LEMMA SubmitEnqueueKeepsIInv ==
  ASSUME IInv, NEW c \in Clients, SubmitEnqueue(c)
  PROVE  IInv'
  <1> DEFINE x == <<c, submitted[c]>>
  <1>1. /\ UNCHANGED <<count, complete, pool, thread, at, user, work, submitted, runs>>
        /\ UNCHANGED <<terminate, Minimum, owner, resizes, failures>>
        /\ pending' = Append(pending, x) /\ ready' = TRUE
    BY DEF SubmitEnqueue, countVars, ownerVars, threadVars
  <1>2. /\ client[c] = "counted" /\ client'[c] = "idle"
        /\ \A d \in Clients : d # c => client'[d] = client[d]
        /\ client' \in [Clients -> {"idle", "created", "counted", "waiting", "waited", "gone"}]
    BY DEF SubmitEnqueue, IInv, TypeOK
  <1>3. x \in Instances /\ submitted[c] \in Nat /\ c \in Counted
    BY <1>2, PoolAssumption DEF Instances, IInv, OnePlace, Counted, TypeOK
  <1>4. \A i \in Instances : i[1] \in Clients /\ i[2] \in Nat
    BY PoolAssumption DEF Instances
  <1>5. x \notin Queued /\ x \notin Taken
    BY <1>2, <1>3 DEF IInv, OnePlace
  <1> HIDE DEF x
  <1>6. pending \in Seq(Instances)
    BY DEF IInv, TypeOK
  <1>7. /\ pending' \in Seq(Instances) /\ pending' # <<>>
        /\ Queued' = Queued \cup {x}
        /\ \A j, k \in DOMAIN pending' : pending'[j] = pending'[k] => j = k
    BY <1>1, <1>3, <1>5, <1>6, AppendQueue, QueueAdd DEF Queued, IInv, OnePlace
  <1>8. TypeOK'
    BY <1>1, <1>2, <1>7 DEF IInv, TypeOK
  <1>9. Counted' = Counted \ {c} /\ Taken' = Taken
    BY <1>1, <1>2, <1>3 DEF Counted, Taken
  <1>10. Outstanding' = Outstanding /\ NotRun' = NotRun
    <2>1. {<<d, submitted[d]>> : d \in Counted} =
            {<<d, submitted[d]>> : d \in Counted \ {c}} \cup {x}
      BY <1>3 DEF x
    <2>2. QED
      BY <1>1, <1>7, <1>9, <2>1 DEF Outstanding, NotRun
  <1>11. /\ Queued \subseteq Instances /\ Taken \subseteq Instances
         /\ Outstanding \subseteq Instances /\ NotRun \subseteq Outstanding
    BY NotRunOutstanding DEF IInv
  <1>12. x[1] = c /\ x[2] = submitted[c]
    BY DEF x
  <1>13. OnePlace'
    <2>1. \A i \in Queued' : i \notin Taken
      BY <1>5, <1>7 DEF IInv, OnePlace
    <2>2. \A i \in Queued' \cup Taken :
             /\ i[2] <= submitted[i[1]]
             /\ client'[i[1]] = "counted" => i[2] < submitted[i[1]]
      BY <1>2, <1>3, <1>4, <1>7, <1>11, <1>12 DEF IInv, OnePlace
    <2>3. \A d \in Counted' : submitted[d] >= 1
      BY <1>9 DEF IInv, OnePlace
    <2>4. QED
      BY <1>1, <1>7, <1>9, <2>1, <2>2, <2>3 DEF IInv, OnePlace
  <1>14. RunsOnce'
    BY <1>1, <1>2, <1>4, <1>10 DEF IInv, RunsOnce
  <1>15. InUse'
    <2>1. work[c] /\ pool = "open"
      BY <1>2 DEF IInv, InUse
    <2>2. \A d \in Clients : client'[d] \in {"created", "waited"} => client'[d] = client[d]
      BY <1>2
    <2>3. user = "codec" =>
            \A i \in Outstanding' : work'[i[1]] /\ client'[i[1]] \notin {"created", "waited"}
      BY <1>1, <1>4, <1>10, <1>11, <2>2 DEF IInv, InUse
    <2>4. user = "smartcard" =>
            /\ \A d \in Clients : client'[d] \in {"idle", "created", "counted"}
            /\ \A i \in NotRun' : i[2] = submitted'[i[1]] /\ client'[i[1]] # "created"
      BY <1>1, <1>2, <1>4, <1>10, <1>11, <2>2 DEF IInv, InUse
    <2>5. QED
      BY <1>1, <1>2, <1>10, <2>1, <2>3, <2>4 DEF IInv, InUse
  <1>16. CountsOutstanding'
    BY <1>1, <1>7, <1>10 DEF IInv, CountsOutstanding
  <1>17. QED
    BY <1>8, <1>13, <1>14, <1>15, <1>16 DEF IInv

\* What no thread of the pool changes, and that there is a pool while it runs
LEMMA WorkerFrame ==
  ASSUME IInv, NEW w \in Workers, WorkerStep(w)
  PROVE  /\ UNCHANGED <<pool, user, client, submitted>>
         /\ UNCHANGED <<terminate, Minimum, owner, resizes, failures>>
         /\ ~Callback(w) => UNCHANGED work
         /\ Counted' = Counted
         /\ pool # "none"
  <1>1. /\ UNCHANGED <<pool, user, client, submitted>>
        /\ UNCHANGED <<terminate, Minimum, owner, resizes, failures>>
        /\ ~Callback(w) => UNCHANGED work
    BY DEF WorkerStep, WorkerTerminates, WorkerWakes, Dequeue, Callback, WorkerSignals,
           ownerVars, clientVars
  <1>2. w \in Threads
    BY DEF WorkerStep, WorkerTerminates, WorkerWakes, Dequeue, Callback, WorkerSignals, Threads
  <1>3. pool # "none"
    BY <1>2 DEF IInv, InUse
  <1>4. QED
    BY <1>1, <1>3 DEF Counted

\* Queue_Dequeue moves the instance from the queue to the thread.
LEMMA DequeueKeepsIInv ==
  ASSUME IInv, NEW w \in Workers, Dequeue(w), pending # <<>>
  PROVE  IInv'
  <1> DEFINE x == Head(pending)
  <1>0. ~Callback(w)
    BY DEF Dequeue, Callback
  <1>1. /\ UNCHANGED <<pool, user, client, work, submitted>>
        /\ UNCHANGED <<terminate, Minimum, owner, resizes, failures>>
        /\ Counted' = Counted /\ pool # "none"
    BY <1>0, WorkerFrame DEF WorkerStep
  <1>2. /\ UNCHANGED <<count, complete, runs>>
        /\ pending' = Tail(pending)
        /\ ready' = (ready /\ pending' # <<>>)
    BY DEF Dequeue, countVars
  <1>3. /\ thread[w] = "awake" /\ thread'[w] = "run" /\ at'[w] = x
        /\ \A v \in Workers : v # w => thread'[v] = thread[v] /\ at'[v] = at[v]
        /\ thread' \in [Workers -> {"none", "wait", "awake", "run", "signal", "exited"}]
    BY DEF Dequeue, IInv, TypeOK
  <1>4. pending \in Seq(Instances)
    BY DEF IInv, TypeOK
  <1>5. /\ pending' \in Seq(Instances) /\ x \in Instances
        /\ Queued = Queued' \cup {x} /\ x \notin Queued'
        /\ \A j, k \in DOMAIN pending' : pending'[j] = pending'[k] => j = k
    <2>1. pending' \in Seq(Instances) /\ x \in Instances
      BY <1>2, <1>4, TailQueue
    <2>2. \A j, k \in DOMAIN pending : pending[j] = pending[k] => j = k
      BY DEF IInv, OnePlace
    <2> DEFINE t == Tail(pending)
    <2>3. /\ {pending[k] : k \in DOMAIN pending} = {t[k] : k \in DOMAIN t} \cup {x}
          /\ x \notin {t[k] : k \in DOMAIN t}
          /\ \A j, k \in DOMAIN t : t[j] = t[k] => j = k
      <3> HIDE DEF x, t
      <3>1. QED
        BY <1>4, <2>2, QueueRemove, Zenon DEF x, t
    <2>4. pending' = t
      BY <1>2
    <2> HIDE DEF x, t
    <2>5. QED
      BY <2>1, <2>3, <2>4 DEF Queued
  <1>6. at[w] = None
    BY <1>3 DEF IInv, OnePlace
  <1>7. at' \in [Workers -> Instances \cup {None}]
    BY <1>5 DEF Dequeue, IInv, TypeOK
  <1>8. x # None
    BY <1>5, PoolAssumption
  <1> HIDE DEF x
  <1>9. TypeOK'
    <2>1. ready' \in BOOLEAN
      BY <1>2
    <2>2. QED
      BY <1>1, <1>2, <1>3, <1>5, <1>7, <2>1 DEF IInv, TypeOK
  <1>10. Taken' = Taken \cup {x}
    BY <1>3, <1>6, <1>8 DEF Taken
  <1>11. Outstanding' = Outstanding
    BY <1>1, <1>5, <1>10 DEF Outstanding
  <1>12. x \notin Taken
    BY <1>5 DEF IInv, OnePlace
  <1>13. OnePlace'
    <2>1. \A v \in Workers : at'[v] # None <=> thread'[v] \in {"run", "signal"}
      BY <1>3, <1>8 DEF IInv, OnePlace
    <2>2. \A u, v \in Workers : at'[u] # None /\ at'[u] = at'[v] => u = v
      BY <1>3, <1>8, <1>12 DEF IInv, OnePlace, Taken
    <2>3. \A i \in Queued' : i \notin Taken'
      BY <1>5, <1>10 DEF IInv, OnePlace
    <2>4. Queued' \cup Taken' = Queued \cup Taken
      BY <1>5, <1>10
    <2>5. QED
      BY <1>1, <1>5, <2>1, <2>2, <2>3, <2>4 DEF IInv, OnePlace
  <1>14. NotRun' = NotRun
    <2> DEFINE R == {v \in Workers : thread[v] = "run"}
    <2>1. R' = R \cup {w} /\ w \notin R
      BY <1>3
    <2>2. {at'[v] : v \in R'} = {at[v] : v \in R} \cup {x}
      BY <1>3, <2>1
    <2>3. QED
      BY <1>1, <1>5, <2>2 DEF NotRun
  <1>15. RunsOnce' /\ InUse'
    <2>1. RunsOnce'
      BY <1>1, <1>2, <1>14 DEF IInv, RunsOnce
    <2>2. InUse'
      BY <1>1, <1>11, <1>14 DEF IInv, InUse
    <2>3. QED
      BY <2>1, <2>2
  <1>16. CountsOutstanding'
    <2>1. ready = TRUE
      BY DEF IInv, CountsOutstanding, TypeOK
    <2>2. QED
      BY <1>2, <1>11, <2>1 DEF IInv, CountsOutstanding
  <1>17. QED
    BY <1>9, <1>13, <1>15, <1>16 DEF IInv

\* The callback runs, and in the smartcard channel closes its work object, which
\* nothing else uses.
LEMMA CallbackKeepsIInv ==
  ASSUME IInv, NEW w \in Workers, Callback(w)
  PROVE  /\ IInv'
         /\ at[w] \in Instances /\ at[w] \in NotRun /\ runs[at[w]] = 0
         /\ runs' = [runs EXCEPT ![at[w]] = 1]
         /\ \A c \in Clients : work'[c] <=> work[c] /\ (user = "codec" \/ c # at[w][1])
         /\ user = "smartcard" => \A i \in NotRun : i[1] = at[w][1] => i = at[w]
  <1> DEFINE x == at[w]
  <1>1. /\ UNCHANGED <<pool, user, client, submitted>>
        /\ UNCHANGED <<terminate, Minimum, owner, resizes, failures>>
        /\ Counted' = Counted /\ pool # "none"
    BY WorkerFrame DEF WorkerStep
  <1>2. UNCHANGED <<pending, ready, count, complete, at>>
    BY DEF Callback, queueVars, countVars
  <1>3. /\ thread[w] = "run" /\ thread'[w] = "signal"
        /\ \A v \in Workers : v # w => thread'[v] = thread[v]
        /\ thread' \in [Workers -> {"none", "wait", "awake", "run", "signal", "exited"}]
    BY DEF Callback, IInv, TypeOK
  <1>4. x # None /\ x \in Instances /\ x \in Taken /\ x \in NotRun
    BY <1>3 DEF IInv, OnePlace, TypeOK, Taken, NotRun
  <1>5. runs[x] = 0
    BY <1>4 DEF IInv, RunsOnce
  <1>6. runs' = [runs EXCEPT ![x] = 1]
    BY <1>4, <1>5 DEF Callback, IInv, TypeOK
  <1>7. runs'[x] = 1 /\ \A i \in Instances : i # x => runs'[i] = runs[i]
    BY <1>4, <1>6 DEF IInv, TypeOK
  <1>8. runs' \in [Instances -> Nat]
    BY <1>4, <1>6 DEF IInv, TypeOK
  <1>9. /\ work' \in [Clients -> BOOLEAN]
        /\ \A c \in Clients : work'[c] <=> work[c] /\ (user = "codec" \/ c # x[1])
    <2>1. work \in [Clients -> BOOLEAN] /\ user \in {"codec", "smartcard"}
      BY DEF IInv, TypeOK
    <2>2. CASE user = "smartcard"
      <3>1. work' = [work EXCEPT ![x[1]] = FALSE]
        BY <2>2 DEF Callback
      <3>2. QED
        BY <2>1, <2>2, <3>1
    <2>3. CASE user = "codec"
      <3>1. work' = work
        BY <2>3 DEF Callback
      <3>2. QED
        BY <2>1, <2>3, <3>1
    <2>4. QED
      BY <2>1, <2>2, <2>3
  <1>10. /\ Outstanding \subseteq Instances /\ NotRun \subseteq Instances
         /\ \A i \in Instances : i[1] \in Clients /\ i[2] \in Nat /\ i = <<i[1], i[2]>>
    BY NotRunOutstanding DEF IInv
  <1>11. /\ x[2] <= submitted[x[1]] /\ submitted[x[1]] \in Nat
         /\ client[x[1]] = "counted" => x[2] < submitted[x[1]]
    BY <1>4, <1>10, PoolAssumption DEF IInv, OnePlace, TypeOK
  <1> HIDE DEF x
  <1>12. TypeOK'
    BY <1>1, <1>2, <1>3, <1>8, <1>9 DEF IInv, TypeOK
  <1>13. Queued' = Queued /\ Taken' = Taken /\ Outstanding' = Outstanding
    BY <1>1, <1>2 DEF Queued, Taken, Outstanding
  <1>14. NotRun' = NotRun \ {x}
    <2> DEFINE R == {v \in Workers : thread[v] = "run"}
    <2>1. R' = R \ {w} /\ w \in R
      BY <1>3
    <2>2. \A v \in R : v # w => at[v] # x
      BY <1>4 DEF IInv, OnePlace, x
    <2>3. {at'[v] : v \in R'} = {at[v] : v \in R} \ {x}
      BY <1>2, <2>1, <2>2 DEF x
    <2>4. x \notin Queued
      BY <1>4 DEF IInv, OnePlace
    <2>5. x \notin {<<c, submitted[c]>> : c \in Counted}
      BY <1>10, <1>4, <1>11 DEF Counted
    <2>6. QED
      BY <1>1, <1>13, <2>3, <2>4, <2>5 DEF NotRun
  <1>15. user = "smartcard" =>
           /\ \A i \in NotRun : i[1] = x[1] => i = x
           /\ client[x[1]] = "idle"
    <2> SUFFICES ASSUME user = "smartcard"
                 PROVE  /\ \A i \in NotRun : i[1] = x[1] => i = x
                        /\ client[x[1]] = "idle"
      OBVIOUS
    <2>1. \A i \in NotRun : i[2] = submitted[i[1]]
      BY DEF IInv, InUse
    <2>2. \A i \in NotRun : i[1] = x[1] => i = x
      BY <1>4, <1>10, <2>1
    <2>3. /\ client[x[1]] \in {"idle", "created", "counted"}
          /\ client[x[1]] # "created"
      BY <1>4, <1>10 DEF IInv, InUse
    <2>4. client[x[1]] # "counted"
      BY <1>4, <1>10, <1>11, <2>1
    <2>5. QED
      BY <2>2, <2>3, <2>4
  <1>16. OnePlace'
    <2>1. \A v \in Workers : thread'[v] \in {"run", "signal"} <=> thread[v] \in {"run", "signal"}
      BY <1>3
    <2>2. QED
      BY <1>1, <1>2, <1>13, <2>1 DEF IInv, OnePlace
  <1>17. RunsOnce'
    <2> SUFFICES ASSUME NEW i \in Instances
                 PROVE  /\ runs'[i] \in {0, 1}
                        /\ i \in NotRun' \/ i[2] > submitted[i[1]] => runs'[i] = 0
                        /\ i \notin NotRun' /\ i[2] <= submitted[i[1]]
                             /\ client[i[1]] # "gone" => runs'[i] = 1
      BY <1>1 DEF RunsOnce
    <2>1. CASE i = x
      <3>1. ~(i[2] > submitted[i[1]]) /\ i \notin NotRun'
        BY <1>10, <1>11, <1>14, <2>1
      <3>2. QED
        BY <1>7, <2>1, <3>1
    <2>2. CASE i # x
      BY <1>7, <1>14, <2>2 DEF IInv, RunsOnce
    <2>3. QED
      BY <2>1, <2>2
  <1>18. InUse'
    <2>1. ASSUME NEW c \in Clients, client'[c] # "idle"
          PROVE  work'[c]
      BY <1>1, <1>9, <1>15, <2>1 DEF IInv, InUse, TypeOK
    <2>2. ASSUME NEW c \in Clients, work'[c]
          PROVE  pool' = "open" \/ client'[c] = "gone"
      BY <1>1, <1>9, <2>2 DEF IInv, InUse
    <2>3. ASSUME NEW i \in NotRun'
          PROVE  work'[i[1]] /\ i \in NotRun
      BY <1>9, <1>10, <1>14, <1>15, <2>3 DEF IInv, InUse, TypeOK
    <2>4. ASSUME user' = "codec", NEW i \in Outstanding'
          PROVE  work'[i[1]] /\ client'[i[1]] \notin {"created", "waited"}
      BY <1>1, <1>9, <1>10, <1>13, <2>4 DEF IInv, InUse
    <2>5. user' = "smartcard" =>
            /\ \A c \in Clients : client'[c] \in {"idle", "created", "counted"}
            /\ \A i \in NotRun' : i[2] = submitted'[i[1]] /\ client'[i[1]] # "created"
      BY <1>1, <2>3 DEF IInv, InUse
    <2>6. QED
      BY <1>1, <2>1, <2>2, <2>3, <2>4, <2>5 DEF InUse
  <1>19. CountsOutstanding'
    BY <1>2, <1>13 DEF IInv, CountsOutstanding
  <1>20. IInv'
    BY <1>12, <1>16, <1>17, <1>18, <1>19 DEF IInv
  <1>21. QED
    BY <1>4, <1>5, <1>6, <1>9, <1>15, <1>20 DEF x

\* CountdownEvent_Signal: the instance is no longer outstanding.
LEMMA SignalKeepsIInv ==
  ASSUME IInv, NEW w \in Workers, WorkerSignals(w)
  PROVE  IInv'
  <1> DEFINE x == at[w]
  <1>0. ~Callback(w)
    BY DEF WorkerSignals, Callback
  <1>1. /\ UNCHANGED <<pool, user, client, work, submitted>>
        /\ UNCHANGED <<terminate, Minimum, owner, resizes, failures>>
        /\ Counted' = Counted /\ pool # "none"
    BY <1>0, WorkerFrame DEF WorkerStep
  <1>2. UNCHANGED <<pending, ready, runs>>
    BY DEF WorkerSignals, queueVars
  <1>3. /\ thread[w] = "signal" /\ thread'[w] = "wait" /\ at'[w] = None
        /\ \A v \in Workers : v # w => thread'[v] = thread[v] /\ at'[v] = at[v]
        /\ thread' \in [Workers -> {"none", "wait", "awake", "run", "signal", "exited"}]
        /\ at' \in [Workers -> Instances \cup {None}]
    BY DEF WorkerSignals, IInv, TypeOK
  <1>4. x # None /\ x \in Instances /\ x \in Taken
    BY <1>3 DEF IInv, OnePlace, TypeOK, Taken
  <1>5. Queued' = Queued /\ Taken' = Taken \ {x}
    <2>1. \A v \in Workers : at'[v] # None <=> (at[v] # None /\ v # w)
      BY <1>3
    <2>2. \A v \in Workers : v # w => at[v] # x
      BY <1>4 DEF IInv, OnePlace
    <2>3. Taken' = Taken \ {x}
      BY <1>3, <2>1, <2>2 DEF Taken
    <2>4. QED
      BY <1>2, <2>3 DEF Queued
  <1>6. x \notin Queued /\ x \notin {<<c, submitted[c]>> : c \in Counted}
    <2>1. x \notin Queued
      BY <1>4 DEF IInv, OnePlace
    <2>2. client[x[1]] = "counted" => x[2] < submitted[x[1]]
      BY <1>4 DEF IInv, OnePlace
    <2>3. x[2] \in Nat
      BY <1>4, PoolAssumption DEF Instances
    <2>4. QED
      BY <2>1, <2>2, <2>3 DEF Counted
  <1>7. Outstanding' = Outstanding \ {x} /\ x \in Outstanding
    BY <1>1, <1>4, <1>5, <1>6 DEF Outstanding
  <1>8. /\ Cardinality(Outstanding) = count /\ count \in Nat /\ count >= 1
        /\ IsFiniteSet(Outstanding)
    BY <1>7, OutstandingFinite DEF IInv, CountsOutstanding
  <1>9. Cardinality(Outstanding') = count - 1
    BY <1>7, <1>8, FS_RemoveElement
  <1>10. complete = FALSE
    BY <1>8 DEF IInv, CountsOutstanding, TypeOK
  <1>11. count' = count - 1 /\ complete' = (count - 1 = 0)
    BY <1>8, <1>10 DEF WorkerSignals, Signal
  <1>12. TypeOK'
    <2>1. count' \in Nat /\ complete' \in BOOLEAN
      BY <1>8, <1>11
    <2>2. QED
      BY <1>1, <1>2, <1>3, <2>1 DEF IInv, TypeOK
  <1>13. OnePlace'
    <2>1. \A v \in Workers : at'[v] # None <=> thread'[v] \in {"run", "signal"}
      BY <1>3 DEF IInv, OnePlace
    <2>2. \A u, v \in Workers : at'[u] # None /\ at'[u] = at'[v] => u = v
      BY <1>3 DEF IInv, OnePlace
    <2>3. QED
      BY <1>1, <1>2, <1>5, <2>1, <2>2 DEF IInv, OnePlace
  <1>14. NotRun' = NotRun
    <2> DEFINE R == {v \in Workers : thread[v] = "run"}
    <2>1. R' = R /\ w \notin R
      BY <1>3
    <2>2. {at'[v] : v \in R'} = {at[v] : v \in R}
      BY <1>3, <2>1
    <2>3. QED
      BY <1>1, <1>5, <2>2 DEF NotRun
  <1>15. RunsOnce' /\ InUse'
    <2>1. RunsOnce'
      BY <1>1, <1>2, <1>14 DEF IInv, RunsOnce
    <2>2. InUse'
      BY <1>1, <1>7, <1>14 DEF IInv, InUse
    <2>3. QED
      BY <2>1, <2>2
  <1>16. CountsOutstanding'
    BY <1>2, <1>9, <1>11 DEF IInv, CountsOutstanding
  <1>17. QED
    BY <1>12, <1>13, <1>15, <1>16 DEF IInv

LEMMA WorkerKeepsIInv ==
  ASSUME IInv, NEW w \in Workers, WorkerStep(w)
  PROVE  IInv'
  <1>1. /\ UNCHANGED <<pool, user, client, submitted>>
        /\ UNCHANGED <<terminate, Minimum, owner, resizes, failures>>
        /\ pool # "none"
    BY WorkerFrame
  <1>2. (\E c \in Clients : work[c] /\ client[c] # "gone") => pool' = "open"
    BY <1>1 DEF IInv, InUse
  <1>3. CASE WorkerTerminates(w) \/ WorkerWakes(w)
    <2>1. UNCHANGED <<queueVars, countVars, at, clientVars, runs>>
      BY <1>3 DEF WorkerTerminates, WorkerWakes
    <2>2. TypeOK'
      BY <1>1, <1>3 DEF WorkerTerminates, WorkerWakes, queueVars, countVars, clientVars,
                        IInv, TypeOK
    <2>3. \A v \in Workers : /\ thread'[v] = "run" <=> thread[v] = "run"
                             /\ thread'[v] = "signal" <=> thread[v] = "signal"
      BY <1>3 DEF WorkerTerminates, WorkerWakes, IInv, TypeOK
    <2>4. QED
      BY <1>1, <1>2, <2>1, <2>2, <2>3, QuietStep
  <1>4. CASE Dequeue(w) /\ pending = <<>>
    <2>1. ready = FALSE
      BY <1>4 DEF IInv, CountsOutstanding, TypeOK
    <2>2. UNCHANGED <<pending, ready, count, complete, at, work, runs>>
      BY <1>4, <2>1 DEF Dequeue, countVars, clientVars
    <2>3. thread' = [thread EXCEPT ![w] = "wait"] /\ thread[w] = "awake"
      BY <1>4 DEF Dequeue
    <2>4. TypeOK'
      BY <1>1, <2>2, <2>3 DEF IInv, TypeOK
    <2>5. \A v \in Workers : /\ thread'[v] = "run" <=> thread[v] = "run"
                             /\ thread'[v] = "signal" <=> thread[v] = "signal"
      BY <2>3 DEF IInv, TypeOK
    <2>6. QED
      BY <1>1, <1>2, <2>2, <2>4, <2>5, QuietStep DEF queueVars, countVars, clientVars
  <1>5. CASE Dequeue(w) /\ pending # <<>>
    BY <1>5, DequeueKeepsIInv
  <1>6. CASE Callback(w)
    BY <1>6, CallbackKeepsIInv
  <1>7. CASE WorkerSignals(w)
    BY <1>7, SignalKeepsIInv
  <1>8. QED
    BY <1>3, <1>4, <1>5, <1>6, <1>7 DEF WorkerStep

LEMMA InitIInv == Init => IInv
  <1> SUFFICES ASSUME Init PROVE IInv
    OBVIOUS
  <1>1. TypeOK
    <2>1. pending \in Seq(Instances)
      BY DEF Init
    <2>0. ready \in BOOLEAN /\ complete \in BOOLEAN
      BY Zenon DEF Init
    <2>2. Minimum \in 0..MaxThreads /\ resizes \in 0..MaxResizes /\ failures \in 0..MaxFailures
      BY PoolAssumption DEF Init
    <2>3. submitted \in [Clients -> 0..MaxSubmits] /\ runs \in [Instances -> Nat]
      BY PoolAssumption DEF Init
    <2>4. /\ thread \in [Workers -> {"none", "wait", "awake", "run", "signal", "exited"}]
          /\ at \in [Workers -> Instances \cup {None}]
          /\ client \in [Clients -> {"idle", "created", "counted", "waiting", "waited", "gone"}]
      BY DEF Init
    <2>5. work \in [Clients -> BOOLEAN] /\ user \in {"codec", "smartcard"}
      BY DEF Init
    <2>6. count \in Nat /\ terminate \in BOOLEAN
      BY DEF Init
    <2>7. pool \in {"none", "creating", "open", "closing"} /\ owner \in {"idle", "join", "grow"}
      BY DEF Init
    <2>8. QED
      BY <2>0, <2>1, <2>2, <2>3, <2>4, <2>5, <2>6, <2>7 DEF TypeOK
  <1>2. pending = <<>> /\ DOMAIN pending = {}
    BY DEF Init
  <1>3. Counted = {} /\ Queued = {} /\ Taken = {}
    BY <1>2 DEF Init, Counted, Queued, Taken
  <1>4. Outstanding = {} /\ NotRun = {} /\ Threads = {}
    BY <1>3 DEF Outstanding, NotRun, Threads, Init
  <1>5. OnePlace
    BY <1>2, <1>3 DEF Init, OnePlace
  <1>6. RunsOnce
    <2>1. \A i \in Instances : i[1] \in Clients /\ i[2] \in Nat /\ i[2] > 0
      BY PoolAssumption DEF Instances
    <2>2. QED
      BY <1>4, <2>1 DEF Init, RunsOnce
  <1>7. InUse
    BY <1>4 DEF Init, InUse
  <1>8. CountsOutstanding
    BY <1>2, <1>4, FS_EmptySet DEF Init, CountsOutstanding
  <1>9. QED
    BY <1>1, <1>5, <1>6, <1>7, <1>8 DEF IInv

LEMMA StepIInv == IInv /\ [Next]_vars => IInv'
  <1> SUFFICES ASSUME IInv, [Next]_vars PROVE IInv'
    OBVIOUS
  <1>1. ASSUME NEW c \in Clients, ClientStep(c)
        PROVE  IInv'
    BY <1>1, ClientCallKeepsIInv, SubmitCountKeepsIInv, SubmitEnqueueKeepsIInv DEF ClientStep
  <1>2. ASSUME NEW w \in Workers, WorkerStep(w)
        PROVE  IInv'
    BY <1>2, WorkerKeepsIInv
  <1>3. CASE OwnerStep \/ OwnerCall \/ StartThreadFails
    BY <1>3, OwnerKeepsIInv
  <1>4. CASE UNCHANGED vars
    <2>1. UNCHANGED <<queueVars, countVars, ownerVars, threadVars, clientVars, runs>>
      BY <1>4 DEF vars
    <2>2. TypeOK'
      BY <2>1 DEF queueVars, countVars, ownerVars, threadVars, clientVars, IInv, TypeOK
    <2>3. QED
      BY <2>1, <2>2, QuietStep DEF ownerVars, threadVars, Threads, IInv, InUse
  <1>5. QED
    BY <1>1, <1>2, <1>3, <1>4 DEF Next

\* The inductive invariant holds in every behaviour of the pool.
THEOREM Invariance == Spec => []IInv
  BY InitIInv, StepIInv, PTL DEF Spec

\* The variables of the pool keep their types.
THEOREM TypeCorrect == Spec => []TypeOK
  <1>1. IInv => TypeOK
    BY DEF IInv
  <1>2. QED
    BY <1>1, Invariance, PTL

\* The countdown event of the pool counts exactly the outstanding callbacks.
THEOREM CountIsRight == Spec => []CountsOutstanding
  <1>1. IInv => CountsOutstanding
    BY DEF IInv
  <1>2. QED
    BY <1>1, Invariance, PTL

\* No submitted callback is lost, however the pool is resized, unless its client
\* gives it up.
THEOREM NothingIsLost == Spec => []SubmittedIsOwned
  <1>1. IInv => SubmittedIsOwned
    <2> SUFFICES ASSUME IInv, NEW c \in Clients, NEW n \in 1..submitted[c],
                        client[c] # "gone", runs[<<c, n>>] = 0
                 PROVE  <<c, n>> \in Outstanding
      BY DEF SubmittedIsOwned
    <2> DEFINE x == <<c, n>>
    <2>1. x \in Instances /\ x[1] = c /\ x[2] <= submitted[c]
      BY PoolAssumption DEF Instances, IInv, TypeOK
    <2> HIDE DEF x
    <2>2. x \in NotRun
      BY <2>1 DEF IInv, RunsOnce, x
    <2>3. QED
      BY <2>2, NotRunOutstanding DEF IInv, x
  <1>2. QED
    BY <1>1, Invariance, PTL

\* When CloseThreadpool has returned, no thread uses the queue and the counter it
\* frees, and the callbacks of the clients that did not give up have run.
THEOREM CloseIsClean == Spec => []CloseLosesNothing
  <1>1. IInv => CloseLosesNothing
    <2> SUFFICES ASSUME IInv, pool = "none"
                 PROVE  /\ \A w \in Workers : thread[w] = "none" /\ at[w] = None
                        /\ \A c \in Clients : client[c] # "gone" =>
                              \A n \in 1..submitted[c] : runs[<<c, n>>] = 1
      BY DEF CloseLosesNothing
    <2>1. /\ \A w \in Workers : thread[w] = "none" /\ at[w] = None
          /\ \A i \in NotRun : client[i[1]] = "gone"
      BY NothingToDo, NobodyLeft
    <2>2. ASSUME NEW c \in Clients, client[c] # "gone", NEW n \in 1..submitted[c]
          PROVE  runs[<<c, n>>] = 1
      <3> DEFINE x == <<c, n>>
      <3>1. x \in Instances /\ x[1] = c /\ x[2] <= submitted[c]
        BY PoolAssumption DEF Instances, IInv, TypeOK
      <3> HIDE DEF x
      <3>2. x \notin NotRun
        BY <2>1, <2>2, <3>1
      <3>3. runs[x] = 1
        BY <2>2, <3>1, <3>2 DEF IInv, RunsOnce
      <3>4. QED
        BY <3>3 DEF x
    <2>3. QED
      BY <2>1, <2>2
  <1>2. QED
    BY <1>1, Invariance, PTL

\* The steps of a client are the operations on its work object.
LEMMA ClientImplements ==
  ASSUME IInv, NEW c \in Clients, ClientStep(c)
  PROVE  [WI!Next]_WI!vars
  <1> DEFINE L == {d \in Clients : work[d]}
             W == {d \in Clients : client[d] = "waited"}
  <1>0. /\ client \in [Clients -> {"idle", "created", "counted", "waiting", "waited", "gone"}]
        /\ work \in [Clients -> BOOLEAN]
        /\ submitted \in [Clients -> 0..MaxSubmits]
        /\ client[c] # "idle" => work[c]
    BY DEF IInv, TypeOK, InUse
  <1>1. CASE CreateThreadpoolWork(c)
    <2>1. c \notin L /\ L' = L \cup {c} /\ W' = W /\ UNCHANGED <<submitted, runs>>
      BY <1>0, <1>1 DEF CreateThreadpoolWork
    <2>2. WI!Create(c)
      BY <2>1 DEF WI!Create
    <2>3. QED
      BY <2>2 DEF WI!Next
  <1>2. CASE SubmitCount(c)
    <2>1. /\ c \in L /\ submitted[c] < MaxSubmits
          /\ submitted' = [submitted EXCEPT ![c] = @ + 1]
          /\ L' = L /\ W' = W \ {c} /\ runs' = runs
      BY <1>0, <1>2 DEF SubmitCount
    <2>2. WI!Submit(c)
      BY <2>1 DEF WI!Submit
    <2>3. QED
      BY <2>2 DEF WI!Next
  <1>3. CASE SubmitEnqueue(c) \/ WaitForCallbacks(c) \/ Abandon(c)
    <2>1. L' = L /\ W' = W /\ UNCHANGED <<submitted, runs>>
      BY <1>0, <1>3 DEF SubmitEnqueue, WaitForCallbacks, Abandon
    <2>2. QED
      BY <2>1 DEF WI!vars
  <1>4. CASE WaitReturns(c)
    <2>1. c \in L /\ L' = L /\ W' = W \cup {c} /\ UNCHANGED <<submitted, runs>>
      BY <1>0, <1>4 DEF WaitReturns
    <2>2. Outstanding = {}
      BY <1>4, OutstandingFinite DEF WaitReturns, IInv, CountsOutstanding
    <2>3. ASSUME NEW n \in 1..submitted[c]
          PROVE  runs[<<c, n>>] = 1
      <3> DEFINE x == <<c, n>>
      <3>1. x \in Instances /\ x[1] = c /\ x[2] <= submitted[c]
        BY <1>0, PoolAssumption DEF Instances
      <3> HIDE DEF x
      <3>2. client[c] # "gone"
        BY <1>4 DEF WaitReturns
      <3>3. x \notin NotRun
        BY <2>2, NotRunOutstanding DEF IInv
      <3>4. runs[x] = 1
        BY <3>1, <3>2, <3>3 DEF IInv, RunsOnce
      <3>5. QED
        BY <3>4 DEF x
    <2>4. WI!Wait(c)
      BY <2>1, <2>3 DEF WI!Wait
    <2>5. QED
      BY <2>4 DEF WI!Next
  <1>5. CASE CloseThreadpoolWork(c)
    <2>1. /\ c \in L \cap W /\ L' = L \ {c} /\ W' = W \ {c}
          /\ UNCHANGED <<submitted, runs>>
      BY <1>0, <1>5 DEF CloseThreadpoolWork
    <2>2. WI!Close(c)
      BY <2>1 DEF WI!Close
    <2>3. QED
      BY <2>2 DEF WI!Next
  <1>6. QED
    BY <1>1, <1>2, <1>3, <1>4, <1>5 DEF ClientStep

\* Of the steps of the threads, only the callback shows.
LEMMA WorkerImplements ==
  ASSUME IInv, NEW w \in Workers, WorkerStep(w)
  PROVE  [WI!Next]_WI!vars
  <1> DEFINE L == {d \in Clients : work[d]}
             W == {d \in Clients : client[d] = "waited"}
  <1>1. UNCHANGED <<user, client, submitted>> /\ (~Callback(w) => UNCHANGED work)
    BY WorkerFrame
  <1>2. CASE Callback(w)
    <2>1. /\ at[w] \in Instances /\ at[w] \in NotRun /\ runs[at[w]] = 0
          /\ runs' = [runs EXCEPT ![at[w]] = 1]
          /\ \A d \in Clients : work'[d] <=> work[d] /\ (user = "codec" \/ d # at[w][1])
          /\ user = "smartcard" => \A i \in NotRun : i[1] = at[w][1] => i = at[w]
      BY <1>2, CallbackKeepsIInv
    <2>2. PICK c \in Clients, n \in 1..MaxSubmits : at[w] = <<c, n>>
      BY <2>1 DEF Instances
    <2>3. at[w] \in Taken
      BY <2>1, PoolAssumption DEF Taken
    <2>4. work[c]
      BY <2>1, <2>2 DEF IInv, InUse
    <2>5. n <= submitted[c]
      BY <2>2, <2>3 DEF IInv, OnePlace
    <2>6. W' = W /\ c \in L /\ user \in {"codec", "smartcard"}
      BY <1>1, <2>4 DEF IInv, TypeOK
    <2>7. CASE user = "codec"
      <3>1. L' = L
        BY <2>1, <2>7
      <3>2. WI!Run(c, n)
        BY <1>1, <2>1, <2>2, <2>5, <2>6, <3>1 DEF WI!Run
      <3>3. QED
        BY <3>2 DEF WI!Next
    <2>8. CASE user = "smartcard"
      <3>1. L' = L \ {c}
        BY <2>1, <2>2, <2>8
      <3>2. ASSUME NEW m \in 1..submitted[c], m # n
            PROVE  runs[<<c, m>>] = 1
        <4> DEFINE x == <<c, m>>
        <4>1. x \in Instances /\ x[1] = c /\ x[2] <= submitted[c] /\ x # at[w]
          BY <2>2, <3>2, PoolAssumption DEF Instances, IInv, TypeOK
        <4> HIDE DEF x
        <4>2. x \notin NotRun
          BY <2>1, <2>2, <2>8, <4>1
        <4>3. client[c] # "gone"
          BY <2>8 DEF IInv, InUse
        <4>4. runs[x] = 1
          BY <4>1, <4>2, <4>3 DEF IInv, RunsOnce
        <4>5. QED
          BY <4>4 DEF x
      <3>3. WI!RunAndClose(c, n)
        BY <1>1, <2>1, <2>2, <2>5, <2>6, <3>1, <3>2 DEF WI!RunAndClose
      <3>4. QED
        BY <3>3 DEF WI!Next
    <2>9. QED
      BY <2>6, <2>7, <2>8
  <1>3. CASE ~Callback(w)
    <2>1. runs' = runs
      BY <1>3 DEF WorkerStep, WorkerTerminates, WorkerWakes, Dequeue, WorkerSignals
    <2>2. QED
      BY <1>1, <1>3, <2>1 DEF WI!vars
  <1>4. QED
    BY <1>2, <1>3

\* The pool implements its work objects: no submission runs twice, no wait returns
\* early, and a callback finds the work object it was submitted for.
THEOREM Refinement == Spec => ImplementsWorkItems
  <1>1. Init => WI!Init
    <2> SUFFICES ASSUME Init PROVE WI!Init
      OBVIOUS
    <2>1. /\ {c \in Clients : work[c]} = {}
          /\ {c \in Clients : client[c] = "waited"} = {}
      BY DEF Init
    <2>2. QED
      BY <2>1 DEF Init, WI!Init, WI!Instances, Instances
  <1>2. IInv /\ [Next]_vars => [WI!Next]_WI!vars
    <2> SUFFICES ASSUME IInv, [Next]_vars PROVE [WI!Next]_WI!vars
      OBVIOUS
    <2>1. ASSUME NEW c \in Clients, ClientStep(c)
          PROVE  [WI!Next]_WI!vars
      BY <2>1, ClientImplements
    <2>2. ASSUME NEW w \in Workers, WorkerStep(w)
          PROVE  [WI!Next]_WI!vars
      BY <2>2, WorkerImplements
    <2>3. CASE OwnerStep \/ OwnerCall \/ StartThreadFails \/ UNCHANGED vars
      <3>1. UNCHANGED <<client, work, submitted, runs>>
        <4> USE DEF clientVars
        <4>1. CASE OwnerStep
          BY <4>1 DEF OwnerStep, GrowDone, JoinDone, StartThread, Join
        <4>2. CASE OwnerCall
          BY <4>2 DEF OwnerCall, CreateThreadpool, CloseThreadpool, SetMinimum, SetMaximum
        <4>3. CASE StartThreadFails \/ UNCHANGED vars
          BY <4>3 DEF StartThreadFails, vars
        <4>4. QED
          BY <2>3, <4>1, <4>2, <4>3
      <3>2. QED
        BY <3>1 DEF WI!vars
    <2>4. QED
      BY <2>1, <2>2, <2>3 DEF Next
  <1>3. QED
    BY <1>1, <1>2, Invariance, PTL DEF Spec, ImplementsWorkItems, WI!Spec
=============================================================================
