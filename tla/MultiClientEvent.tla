--------------------------- MODULE MultiClientEvent ---------------------------
(***************************************************************************)
(* The multi-client event of the shadow server                             *)
(* (server/shadow/shadow_mcevent.c): the subsystem thread publishes a      *)
(* frame to every client thread and waits until all of them have sent it;  *)
(* a client that is done waits at a barrier for the others.                *)
(*                                                                         *)
(* Everything happens under event->lock, which is released only around the *)
(* waits for doneEvent and barrierEvent, so an action is one stretch under *)
(* the lock. Waking from a wait and getting the lock back are two steps.   *)
(***************************************************************************)
EXTENDS Integers, FiniteSets

CONSTANT Clients  \* the client threads of the shadow server

ASSUME ClientsAssumption == IsFiniteSet(Clients)

VARIABLES signalled,     \* which of the three manual-reset events are set
          consuming,     \* shares not consumed yet
          waiting,       \* clients waiting at the barrier
          subscribers,
          pleaseHandle,  \* subscribers with the flag pleaseHandle
          pub,           \* where the subsystem thread is
          pc,            \* where each client thread is
          assertions     \* "ok", or "failed" once a WINPR_ASSERT was false

counts == <<consuming, waiting>>
vars == <<signalled, consuming, waiting, subscribers, pleaseHandle, pub, pc,
          assertions>>

event == "event" \in signalled           \* kickoff event
barrierEvent == "barrier" \in signalled  \* all clients have consumed the event
doneEvent == "done" \in signalled        \* the server may continue

SetEvent(e) == signalled' = signalled \cup {e}

Init ==
  /\ signalled = {"done"}
  /\ consuming = 0 /\ waiting = 0
  /\ subscribers = {} /\ pleaseHandle = {}
  /\ pub = "run"
  /\ pc = [c \in Clients |-> "out"]
  /\ assertions = "ok"

Goto(c, l) == pc' = [pc EXCEPT ![c] = l]

WINPR_ASSERT(p) == assertions' = IF p THEN assertions ELSE "failed"

-----------------------------------------------------------------------------
\* The subsystem thread.

\* _Publish: every subscriber gets a share, and the event is set if there are
\* any.
Publish ==
  /\ consuming' = consuming + Cardinality(subscribers)
  /\ pleaseHandle' = subscribers
  /\ signalled' = IF consuming' > 0
                  THEN (signalled \ {"done"}) \cup {"event"}
                  ELSE signalled
  /\ UNCHANGED <<waiting, subscribers, pc>>

\* Defect for ServerWaitsForAll: the server does not wait.
PublishAndWait_DoesNotWait ==
  /\ pub = "run"
  /\ Publish
  /\ UNCHANGED pub
  /\ WINPR_ASSERT(consuming = 0)

\* shadow_multiclient_publish_and_wait up to the wait for doneEvent; without
\* shares it returns at once.
PublishAndWait ==
  /\ pub = "run"
  /\ Publish
  /\ pub' = IF consuming' > 0 THEN "doneWait" ELSE "run"
  /\ WINPR_ASSERT(consuming = 0 /\ (consuming' > 0 \/ ~event'))

DoneWake ==
  /\ pub = "doneWait" /\ doneEvent
  /\ pub' = "relock"
  /\ UNCHANGED <<signalled, counts, subscribers, pleaseHandle, pc, assertions>>

\* The lock is back: "last subscriber should have already reset the event".
DoneReturn ==
  /\ pub = "relock"
  /\ pub' = "run"
  /\ WINPR_ASSERT(~event)
  /\ UNCHANGED <<signalled, counts, subscribers, pleaseHandle, pc>>

-----------------------------------------------------------------------------
\* The client threads.

\* Defect for RoundsFollowOneAnother: whoever finds the event set takes a
\* share, a client that has just joined too.
Consume_IgnoresFlag(c, wait, next) ==
  LET left == IF event THEN consuming - 1 ELSE consuming IN
  /\ consuming' = left
  /\ WINPR_ASSERT(left >= 0)
  /\ IF left = 0
     THEN /\ signalled' = (signalled \ {"event"})
                          \cup {IF waiting > 0 THEN "barrier" ELSE "done"}
          /\ UNCHANGED waiting
          /\ Goto(c, next)
     ELSE /\ UNCHANGED signalled
          /\ IF wait
             THEN waiting' = waiting + 1 /\ Goto(c, "barrier")
             ELSE UNCHANGED waiting /\ Goto(c, next)

\* Defect for AssertionsHold: the server is told before the last client has
\* reset the event.
Consume_TellsServerEarly(c, wait, next) ==
  LET left == IF event /\ c \in pleaseHandle THEN consuming - 1 ELSE consuming IN
  /\ consuming' = left
  /\ WINPR_ASSERT(left >= 0)
  /\ IF left = 0
     THEN /\ signalled' = (signalled \ {"event"}) \cup
                          (IF waiting > 0 THEN {"barrier", "done"} ELSE {"done"})
          /\ UNCHANGED waiting
          /\ Goto(c, next)
     ELSE /\ SetEvent("done")
          /\ IF wait
             THEN waiting' = waiting + 1 /\ Goto(c, "barrier")
             ELSE UNCHANGED waiting /\ Goto(c, next)

\* _Consume: a pending share is taken; the last share resets the event and lets
\* the waiting clients go, or the server if there are none; before that the
\* client joins the barrier if it is to wait, and goes on at next otherwise.
Consume(c, wait, next) ==
  LET left == IF event /\ c \in pleaseHandle THEN consuming - 1 ELSE consuming IN
  /\ consuming' = left
  /\ WINPR_ASSERT(left >= 0)
  /\ IF left = 0
     THEN /\ signalled' = (signalled \ {"event"})
                          \cup {IF waiting > 0 THEN "barrier" ELSE "done"}
          /\ UNCHANGED waiting
          /\ Goto(c, next)
     ELSE /\ UNCHANGED signalled
          /\ IF wait
             THEN waiting' = waiting + 1 /\ Goto(c, "barrier")
             ELSE UNCHANGED waiting /\ Goto(c, next)

GetSubscriber(c) ==
  /\ pc[c] = "out"
  /\ subscribers' = subscribers \cup {c}
  /\ Consume(c, TRUE, "loop")
  /\ UNCHANGED <<pleaseHandle, pub>>

\* The client loop finds UpdateEvent set and starts to send the frame.
SendFrame(c) ==
  /\ pc[c] = "loop" /\ event
  /\ Goto(c, "sending")
  /\ UNCHANGED <<signalled, counts, subscribers, pleaseHandle, pub, assertions>>

\* shadow_multiclient_consume after the frame.
ConsumeShare(c) ==
  /\ pc[c] = "sending"
  /\ Consume(c, TRUE, "loop")
  /\ UNCHANGED <<subscribers, pleaseHandle, pub>>

BarrierWake(c) ==
  /\ pc[c] = "barrier" /\ barrierEvent
  /\ Goto(c, "woken")
  /\ UNCHANGED <<signalled, counts, subscribers, pleaseHandle, pub, assertions>>

\* Defect for BarrierIsForAll: the barrier stays open for the next round.
BarrierReturn_LeavesOpen(c) ==
  /\ pc[c] = "woken"
  /\ waiting' = waiting - 1
  /\ IF waiting = 1 THEN SetEvent("done") ELSE UNCHANGED signalled
  /\ Goto(c, "loop")
  /\ UNCHANGED <<consuming, subscribers, pleaseHandle, pub, assertions>>

\* Defect for FrameIsSent: the first client through the barrier closes it.
BarrierReturn_ClosesFirst(c) ==
  /\ pc[c] = "woken"
  /\ waiting' = waiting - 1
  /\ signalled' = (signalled \ {"barrier"})
                  \cup (IF waiting = 1 THEN {"done"} ELSE {})
  /\ Goto(c, "loop")
  /\ UNCHANGED <<consuming, subscribers, pleaseHandle, pub, assertions>>

\* The rest of _Consume: the last client through closes the barrier and lets
\* the server go on.
BarrierReturn(c) ==
  /\ pc[c] = "woken"
  /\ waiting' = waiting - 1
  /\ IF waiting = 1
     THEN signalled' = (signalled \ {"barrier"}) \cup {"done"}
     ELSE UNCHANGED signalled
  /\ Goto(c, "loop")
  /\ UNCHANGED <<consuming, subscribers, pleaseHandle, pub, assertions>>

\* The client loop ends: a failed send, a disconnect, the stop of the server.
LeaveLoop(c) ==
  /\ pc[c] \in {"loop", "sending"}
  /\ Goto(c, "exit")
  /\ UNCHANGED <<signalled, counts, subscribers, pleaseHandle, pub, assertions>>

\* shadow_multiclient_release_subscriber: the pending share is consumed without
\* waiting for the others.
ReleaseSubscriber(c) ==
  /\ pc[c] = "exit"
  /\ Consume(c, FALSE, "out")
  /\ subscribers' = subscribers \ {c}
  /\ pleaseHandle' = pleaseHandle \ {c}
  /\ UNCHANGED pub

-----------------------------------------------------------------------------
Server == PublishAndWait \/ DoneWake \/ DoneReturn

\* What a client thread does once it is registered, unless it quits.
Serve(c) ==
  \/ SendFrame(c) \/ ConsumeShare(c)
  \/ BarrierWake(c) \/ BarrierReturn(c)
  \/ ReleaseSubscriber(c)

Next ==
  \/ Server
  \/ \E c \in Clients : GetSubscriber(c) \/ Serve(c) \/ LeaveLoop(c)

Spec == Init /\ [][Next]_vars

\* Threads are scheduled, and sending a frame comes to an end. Nothing is
\* assumed about when the subsystem has a frame to publish or a client comes or
\* goes.
FairSpec ==
  /\ Spec
  /\ WF_vars(DoneWake \/ DoneReturn)
  /\ \A c \in Clients : WF_vars(Serve(c))

-----------------------------------------------------------------------------
AtBarrier == {c \in Clients : pc[c] \in {"barrier", "woken"}}

\* The clients the server still waits for in this round.
Pending ==
  {c \in pleaseHandle : event /\ pc[c] \in {"loop", "sending", "exit"}}

TypeOK ==
  /\ signalled \subseteq {"event", "barrier", "done"}
  /\ consuming \in Int /\ waiting \in Int
  /\ subscribers \subseteq Clients
  /\ pleaseHandle \subseteq subscribers
  /\ pub \in {"run", "doneWait", "relock"}
  /\ pc \in [Clients -> {"out", "loop", "sending", "barrier", "woken", "exit"}]
  /\ assertions \in {"ok", "failed"}

\* The two counters say who is outstanding and who waits, whoever joined, quit
\* or was late.
CountersInv ==
  /\ consuming = Cardinality(Pending)
  /\ waiting = Cardinality(AtBarrier)
  /\ subscribers = {c \in Clients : pc[c] # "out"}

\* Each event is set exactly when it should be: the kickoff event while shares
\* are outstanding, the barrier while the clients of a finished round drain, and
\* doneEvent once they have.
EventsInv ==
  /\ event <=> Pending # {}
  /\ barrierEvent <=> ~event /\ AtBarrier # {}
  /\ doneEvent <=> ~event /\ AtBarrier = {}
  /\ event => pub = "doneWait"
  /\ pub # "doneWait" => doneEvent
  /\ \A c \in Clients :
       /\ pc[c] = "woken" => ~event
       /\ pc[c] = "sending" => event
       /\ event /\ pc[c] \in {"loop", "sending", "exit"} => c \in pleaseHandle

\* The WINPR_ASSERTs of _Publish, _WaitForSubscribers and _Consume hold.
AssertionsHold == assertions = "ok"

\* The inductive invariant.
IInv == TypeOK /\ CountersInv /\ EventsInv /\ AssertionsHold

\* "Server should wait for all clients before continue", and what the client
\* thread relies on: "the screen and primary surface meta data is not changed
\* until [the event] is reset". While the subsystem runs on, no client reads the
\* frame or is still on its way out of the round.
ServerWaitsForAll ==
  pub = "run" => \A c \in Clients : pc[c] \notin {"sending", "barrier", "woken"}

\* "All clients should wait others before continue": a client that leaves the
\* barrier leaves no one behind who has not consumed the event.
BarrierIsForAll == \A c \in Clients : pc[c] = "woken" => Pending = {}

\* The round of the abstract specification.
Rounds == INSTANCE FrameRounds WITH
  members <- subscribers,
  todo <- Pending,
  running <- pub # "run"

\* publish_and_wait runs one round after the other; each subscriber has its
\* share taken once, by itself or by leaving.
RoundsFollowOneAnother == Rounds!Spec

\* publish_and_wait returns, whoever joins or quits meanwhile, and a client that
\* waits for the others gets on.
FrameIsSent ==
  /\ (pub = "doneWait") ~> (pub = "run")
  /\ \A c \in Clients : (pc[c] = "barrier") ~> (pc[c] = "loop")
=============================================================================
