------------------------------ MODULE FrameRounds ------------------------------
(***************************************************************************)
(* What shadow_multiclient_publish_and_wait promises its subsystem and the *)
(* client threads (server/shadow/shadow_mcevent.h: "an event is consumed   *)
(* by multiple clients. All clients should wait others before continue.    *)
(* Server should wait for all clients before continue"), without saying    *)
(* how: a round starts with the clients registered at that moment, each of *)
(* them takes its share once or leaves, clients that come later are not    *)
(* part of it, and the next round starts after this one is over.           *)
(***************************************************************************)
CONSTANT Clients

VARIABLES members,  \* the registered clients
          todo,     \* the clients whose share of the round is outstanding
          running   \* a round is under way

vars == <<members, todo, running>>

Init == members = {} /\ todo = {} /\ running = FALSE

Join(c) ==
  /\ c \notin members
  /\ members' = members \cup {c}
  /\ UNCHANGED <<todo, running>>

StartRound ==
  /\ ~running /\ members # {}
  /\ todo' = members
  /\ running' = TRUE
  /\ UNCHANGED members

TakeShare(c) ==
  /\ c \in todo
  /\ todo' = todo \ {c}
  /\ UNCHANGED <<members, running>>

Quit(c) ==
  /\ c \in members
  /\ members' = members \ {c}
  /\ todo' = todo \ {c}
  /\ UNCHANGED running

EndRound ==
  /\ running /\ todo = {}
  /\ running' = FALSE
  /\ UNCHANGED <<members, todo>>

Next ==
  \/ StartRound
  \/ EndRound
  \/ \E c \in Clients : Join(c) \/ TakeShare(c) \/ Quit(c)

Spec == Init /\ [][Next]_vars
=============================================================================
