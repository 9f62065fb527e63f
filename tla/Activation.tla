------------------------------ MODULE Activation ------------------------------
(***************************************************************************)
(* The last part of the RDP connection sequence, as client and server run  *)
(* it: capability exchange, finalization, the active session, and the      *)
(* deactivation-reactivation that a desktop resize starts over with        *)
(* (libfreerdp/core/connection.c, activation.c, rdp.c for the client and   *)
(* peer.c for the server).                                                 *)
(*                                                                         *)
(* Each side is a state machine driven by the PDUs of the other, which     *)
(* arrive in order and are delayed at will. A PDU stays at the head of its *)
(* queue while the code reruns its state machine on the same data          *)
(* (STATE_RUN_TRY_AGAIN, STATE_RUN_CONTINUE); rerun says that the server   *)
(* does so without needing further data. Every PDU carries the generation  *)
(* of the Demand Active it answers or belongs to, which the code does not  *)
(* know: it is there to state the properties.                              *)
(***************************************************************************)
EXTENDS Integers, Sequences

CONSTANTS MaxReactivations,  \* bound on the resizes of the server
          MaxInput,          \* bound on the input PDUs of the client
          MaxUpdates         \* bound on the graphics updates of the server

ASSUME BoundsAssumption ==
  MaxReactivations \in Nat /\ MaxInput \in Nat /\ MaxUpdates \in Nat

VARIABLES
  conf,       \* settings: the client and the server support the monitor layout
              \* PDU, the client has a persistent bitmap cache, its Confirm
              \* Active has the bitmap cache v2 capability that says so, and
              \* PDUs are encrypted by RDP security
  cstate,     \* client: rdp->state
  cflags,     \* client: finalize_sc_pdus
  layout,     \* client: monitor_layout_pdu
  cgen,       \* client: generation of the last Demand Active
  insync,     \* client: its decryption key is in step with the server's
  sstate,     \* server: rdp->state
  sflags,     \* server: finalize_sc_pdus
  persist,    \* server: BitmapCachePersistEnabled
  connected,  \* server: client->connected
  activated,  \* server: client->activated
  rerun,      \* server: STATE_RUN_CONTINUE was returned
  sgen,       \* server: generation of the last Demand Active
  activates,  \* server: Activate calls in this generation
  c2s, s2c,   \* PDUs under way
  inputs,     \* input PDUs the client has sent
  updates     \* graphics updates the server has sent

clientVars == <<cstate, cflags, layout, cgen, insync>>
serverVars == <<sstate, sflags, persist, connected, activated, rerun, sgen,
                activates>>
vars == <<conf, clientVars, serverVars, c2s, s2c, inputs, updates>>

Pdu(t, g) == [type |-> t, gen |-> g]

Send(q, types, g) == q \o [i \in 1..Len(types) |-> Pdu(types[i], g)]

-----------------------------------------------------------------------------
\* Client.

\* The client sends its finalization PDUs in one batch, moving to the state of
\* each of them before it sends it; other threads can send input in between.
FinalizePdu ==
  [FINALIZATION_SYNC                |-> "Synchronize",
   FINALIZATION_COOPERATE           |-> "Cooperate",
   FINALIZATION_REQUEST_CONTROL     |-> "RequestControl",
   FINALIZATION_PERSISTENT_KEY_LIST |-> "PersistentKeyList",
   FINALIZATION_FONT_LIST           |-> "FontList"]

\* Defect for ReactivationIsRecognised: the key list is sent again.
AfterFinalize_KeyListAgain(state) ==
  CASE state = "FINALIZATION_SYNC" -> "FINALIZATION_COOPERATE"
    [] state = "FINALIZATION_COOPERATE" -> "FINALIZATION_REQUEST_CONTROL"
    [] state = "FINALIZATION_REQUEST_CONTROL" ->
         IF conf.persist
         THEN "FINALIZATION_PERSISTENT_KEY_LIST" ELSE "FINALIZATION_FONT_LIST"
    [] state = "FINALIZATION_PERSISTENT_KEY_LIST" -> "FINALIZATION_FONT_LIST"
    [] OTHER -> "FINALIZATION_CLIENT_SYNC"

AfterFinalize(state) ==
  CASE state = "FINALIZATION_SYNC" -> "FINALIZATION_COOPERATE"
    [] state = "FINALIZATION_COOPERATE" -> "FINALIZATION_REQUEST_CONTROL"
    [] state = "FINALIZATION_REQUEST_CONTROL" ->
         IF conf.persist /\ "DEACTIVATE_REACTIVATE" \notin cflags
         THEN "FINALIZATION_PERSISTENT_KEY_LIST" ELSE "FINALIZATION_FONT_LIST"
    [] state = "FINALIZATION_PERSISTENT_KEY_LIST" -> "FINALIZATION_FONT_LIST"
    [] OTHER -> "FINALIZATION_CLIENT_SYNC"

ClientFinalize ==
  /\ cstate \in DOMAIN FinalizePdu
  /\ c2s' = Send(c2s, <<FinalizePdu[cstate]>>, cgen)
  /\ cstate' = AfterFinalize(cstate)
  /\ UNCHANGED <<conf, cflags, layout, cgen, insync, serverVars, s2c, inputs,
                 updates>>

\* The flag a finalization PDU of the server sets on the client.
ServerFlag ==
  [SCSynchronize |-> "SC_SYNCHRONIZE",
   SCCooperate   |-> "SC_CONTROL_COOPERATE",
   SCGranted     |-> "SC_CONTROL_GRANTED",
   SCFontMap     |-> "SC_FONT_MAP"]

\* rdp_recv_data_pdu: the flags and the layout after PDU type t, and whether it
\* is accepted. A monitor layout PDU must not follow another.
DataFlags(t) == IF t \in DOMAIN ServerFlag THEN cflags \cup {ServerFlag[t]} ELSE cflags
DataLayout(t) == layout \/ t = "MonitorLayout"
DataFails(t) == t = "MonitorLayout" /\ layout

\* Demand Active is answered with Confirm Active; then the client waits for the
\* monitor layout, or goes on to finalize. The finalization flags are reset,
\* except the one that says that this is a reactivation.
ConfirmActive(g) ==
  /\ cgen' = g
  /\ c2s' = Send(c2s, <<"ConfirmActive">>, g)
  /\ cstate' = IF conf.clientLayout THEN "MONITOR_LAYOUT" ELSE "FINALIZATION_SYNC"
  /\ cflags' = cflags \cap {"DEACTIVATE_REACTIVATE"}
  /\ layout' = FALSE

\* While it waits for Demand Active the client takes data PDUs only; Deactivate
\* All and fast-path updates end the session.
OutOfSequence(t) ==
  /\ cflags' = DataFlags(t)
  /\ layout' = DataLayout(t)
  /\ cstate' = IF t \in {"DeactivateAll", "Update"} \/ DataFails(t)
               THEN "FAILED" ELSE cstate
  /\ UNCHANGED <<cgen, c2s>>

ClientDemandActive ==
  /\ cstate = "DEMAND_ACTIVE"
  /\ s2c # <<>>
  /\ IF Head(s2c).type = "DemandActive"
     THEN ConfirmActive(Head(s2c).gen)
     ELSE OutOfSequence(Head(s2c).type)
  /\ s2c' = Tail(s2c)
  /\ UNCHANGED <<conf, insync, serverVars, inputs, updates>>

\* rdp_recv_deactivate_all: a client that is active notes that the sequence is
\* a reactivation.
DeactivateAll ==
  /\ cflags' = cflags \cup
       (IF cstate = "ACTIVE" THEN {"DEACTIVATE_REACTIVATE"} ELSE {})
  /\ cstate' = "DEMAND_ACTIVE"
  /\ UNCHANGED layout

\* Defect for EventuallyActive: without a monitor layout the client keeps on
\* waiting for one.
ClientMonitorLayout_Insists ==
  /\ cstate = "MONITOR_LAYOUT"
  /\ s2c # <<>>
  /\ LET t == Head(s2c).type IN
     IF t = "DeactivateAll"
     THEN DeactivateAll /\ s2c' = Tail(s2c)
     ELSE /\ cflags' = DataFlags(t)
          /\ layout' = DataLayout(t)
          /\ s2c' = Tail(s2c)
          /\ cstate' = IF layout' THEN "FINALIZATION_SYNC" ELSE cstate
  /\ UNCHANGED <<conf, cgen, insync, serverVars, c2s, inputs, updates>>

\* rdp_client_exchange_monitor_layout: the layout or a finalization PDU lets the
\* client go on; the latter is read again in the next state (STATE_RUN_TRY_AGAIN).
\* With RDP security the first read has decrypted it in place and moved the key
\* on: from the second read on nothing decrypts to what was sent. A layout PDU
\* that is noted already would make the client drop everything.
ClientMonitorLayout ==
  /\ cstate = "MONITOR_LAYOUT"
  /\ s2c # <<>>
  /\ LET t == Head(s2c).type IN
     CASE layout ->
            s2c' = Tail(s2c) /\ UNCHANGED <<cstate, cflags, layout, insync>>
       [] ~layout /\ t = "DeactivateAll" ->
            DeactivateAll /\ s2c' = Tail(s2c) /\ UNCHANGED insync
       [] OTHER ->
          /\ cflags' = DataFlags(t)
          /\ layout' = DataLayout(t)
          /\ IF cflags' = cflags /\ ~layout'
             THEN cstate' = cstate /\ s2c' = Tail(s2c) /\ UNCHANGED insync
             ELSE /\ cstate' = IF ~layout' /\ "SC_SYNCHRONIZE" \notin cflags'
                               THEN "FAILED" ELSE "FINALIZATION_SYNC"
                  /\ s2c' = IF layout' THEN Tail(s2c) ELSE s2c
                  /\ insync' = (insync /\ (layout' \/ ~conf.crypt))
  /\ UNCHANGED <<conf, cgen, serverVars, c2s, inputs, updates>>

\* rdp_handle_sc_flags: the flag a state waits for, and where it leads.
Awaited ==
  [FINALIZATION_CLIENT_SYNC            |-> "SC_SYNCHRONIZE",
   FINALIZATION_CLIENT_COOPERATE       |-> "SC_CONTROL_COOPERATE",
   FINALIZATION_CLIENT_GRANTED_CONTROL |-> "SC_CONTROL_GRANTED",
   FINALIZATION_CLIENT_FONT_MAP        |-> "SC_FONT_MAP"]

AfterAwaited ==
  [FINALIZATION_CLIENT_SYNC            |-> "FINALIZATION_CLIENT_COOPERATE",
   FINALIZATION_CLIENT_COOPERATE       |-> "FINALIZATION_CLIENT_GRANTED_CONTROL",
   FINALIZATION_CLIENT_GRANTED_CONTROL |-> "FINALIZATION_CLIENT_FONT_MAP",
   FINALIZATION_CLIENT_FONT_MAP        |-> "ACTIVE"]

\* A PDU that does not decrypt to what was sent. Its signature or its header ends
\* the session, or it is skipped as a PDU of unknown type (RC4: "don't treat
\* signature verification failure as critical"); the flags stay.
Garbled ==
  /\ cstate' \in
       {"FAILED", IF cstate # "ACTIVE" /\ Awaited[cstate] \in cflags
                  THEN AfterAwaited[cstate] ELSE cstate}
  /\ UNCHANGED <<cflags, layout>>

TakePdu(t) ==
  /\ cflags' = DataFlags(t)
  /\ layout' = DataLayout(t)
  /\ cstate' = IF DataFails(t) THEN "FAILED"
               ELSE IF cstate = "ACTIVE" THEN cstate
               ELSE IF Awaited[cstate] \in cflags' THEN AfterAwaited[cstate]
               ELSE cstate

\* The client waits for the server's finalization PDUs, or is active. A state
\* moves on in the call that sets the flag it waits for, so that flag is never
\* set when Deactivate All comes.
ClientRecv ==
  /\ cstate \in DOMAIN Awaited \cup {"ACTIVE"}
  /\ s2c # <<>>
  /\ s2c' = Tail(s2c)
  /\ IF ~insync THEN Garbled
     ELSE IF Head(s2c).type = "DeactivateAll" THEN DeactivateAll
     ELSE TakePdu(Head(s2c).type)
  /\ UNCHANGED <<conf, cgen, insync, serverVars, c2s, inputs, updates>>

\* rdp_is_active_client_state: "once the client has sent the Confirm Active PDU,
\* it can start sending mouse and keyboard input"
ClientActiveState ==
  cstate \in DOMAIN FinalizePdu \cup DOMAIN Awaited \cup {"ACTIVE"}

ClientInput ==
  /\ ClientActiveState /\ inputs < MaxInput
  /\ c2s' = Send(c2s, <<"Input">>, cgen)
  /\ inputs' = inputs + 1
  /\ UNCHANGED <<conf, clientVars, serverVars, s2c, updates>>

-----------------------------------------------------------------------------
\* Server.

\* rdp_is_active_peer_state. The server takes a transition from any other state
\* to mean that the client is not activated.
PeerActiveState(state) == state \in DOMAIN Awaited \cup {"ACTIVE"}

ActivatedAfterTransition == activated /\ PeerActiveState(sstate)

\* Defect for ActivationIsCurrent: the flag of the last activation survives.
Reactivate_KeepsActivated ==
  /\ sgen < MaxReactivations
  /\ sgen' = sgen + 1
  /\ s2c' = Send(s2c, <<"DeactivateAll", "DemandActive">>, sgen')
  /\ sflags' = sflags \cup {"DEACTIVATE_REACTIVATE"}
  /\ sstate' = "MONITOR_LAYOUT"
  /\ activates' = 0
  /\ UNCHANGED activated

\* rdp_server_reactivate: Deactivate All and Demand Active are sent at once; the
\* next state runs when the next PDU of the client comes.
Reactivate ==
  /\ sgen < MaxReactivations
  /\ sgen' = sgen + 1
  /\ s2c' = Send(s2c, <<"DeactivateAll", "DemandActive">>, sgen')
  /\ sflags' = sflags \cup {"DEACTIVATE_REACTIVATE"}
  /\ sstate' = "MONITOR_LAYOUT"
  /\ activates' = 0
  /\ activated' = FALSE

\* Defect for NothingFails: the resize does not wait for the activation.
DesktopResize_Anytime ==
  /\ connected /\ ~rerun
  /\ Reactivate
  /\ UNCHANGED <<conf, clientVars, persist, rerun, connected, c2s, inputs, updates>>

\* The shadow server resizes a client that it has activated, and does not send
\* to it until shadow_client_activate is called again.
DesktopResize ==
  /\ activated /\ ~rerun
  /\ Reactivate
  /\ UNCHANGED <<conf, clientVars, persist, rerun, connected, c2s, inputs, updates>>

SendUpdate ==
  /\ activated /\ ~rerun /\ updates < MaxUpdates
  /\ s2c' = Send(s2c, <<"Update">>, sgen)
  /\ updates' = updates + 1
  /\ UNCHANGED <<conf, clientVars, serverVars, c2s, inputs>>

\* The server enters the capability exchange from licensing; the state machine
\* runs on into the next state.
ServerDemandActive ==
  /\ sstate = "DEMAND_ACTIVE"
  /\ s2c' = Send(s2c, <<"DemandActive">>, sgen)
  /\ sstate' = "MONITOR_LAYOUT"
  /\ rerun' = TRUE
  /\ activated' = ActivatedAfterTransition
  /\ UNCHANGED <<conf, clientVars, sflags, persist, connected, sgen, activates,
                 c2s, inputs, updates>>

\* The monitor layout is sent when the state machine runs: at once at first, in
\* a reactivation when the next PDU comes, which is then handled in the next
\* state.
ServerMonitorLayout ==
  /\ sstate = "MONITOR_LAYOUT" /\ (rerun \/ c2s # <<>>)
  /\ s2c' = IF conf.serverLayout THEN Send(s2c, <<"MonitorLayout">>, sgen) ELSE s2c
  /\ sstate' = "CONFIRM_ACTIVE"
  /\ rerun' = FALSE
  /\ activated' = ActivatedAfterTransition
  /\ UNCHANGED <<conf, clientVars, sflags, persist, connected, sgen, activates,
                 c2s, inputs, updates>>

\* The flag a finalization PDU of the client sets on the server, and the flag
\* that must have been set before.
ClientFlag ==
  [Synchronize       |-> "CS_SYNCHRONIZE",
   Cooperate         |-> "CS_CONTROL_COOPERATE",
   RequestControl    |-> "CS_CONTROL_REQUEST",
   PersistentKeyList |-> "CS_PERSISTENT_KEY_LIST",
   FontList          |-> "CS_FONT_LIST"]

ClientFlagNeeds(t) ==
  CASE t = "Cooperate" -> {"CS_SYNCHRONIZE"}
    [] t = "RequestControl" -> {"CS_CONTROL_COOPERATE"}
    [] OTHER -> {}

\* peer_recv_pdu on PDU p: what becomes of the server's state, what it sends and
\* with which result. Confirm Active is good only in its own state; the font
\* list makes the server active in any state.
PeerRecvPdu(p) ==
  LET same == [state |-> sstate, flags |-> sflags, persist |-> persist,
               activated |-> activated, out |-> <<>>, result |-> "success"]
  IN
  CASE p.type = "ConfirmActive" /\ sstate = "CONFIRM_ACTIVE" ->
         [same EXCEPT !.state = "FINALIZATION_SYNC",
                      !.flags = @ \cap {"DEACTIVATE_REACTIVATE"},
                      !.persist = IF conf.cacheV2 THEN conf.persist ELSE @,
                      !.activated = ActivatedAfterTransition,
                      !.out = <<"SCSynchronize", "SCCooperate">>]
    [] p.type = "FontList" ->
         [same EXCEPT !.state = "ACTIVE",
                      !.flags = @ \cup {"CS_FONT_LIST"},
                      !.activated = ActivatedAfterTransition,
                      !.out = <<"SCFontMap">>,
                      !.result = "continue"]
    [] p.type \in DOMAIN ClientFlag \ {"FontList"}
         /\ ClientFlagNeeds(p.type) \subseteq sflags ->
         [same EXCEPT !.flags = @ \cup {ClientFlag[p.type]}]
    [] p.type = "Input" -> same
    [] OTHER -> [same EXCEPT !.result = "failed"]

\* The server takes over what peer_recv_pdu left, in state, with result.
Apply(r, state, result, more) ==
  /\ sstate' = IF result = "failed" THEN "FAILED" ELSE state
  /\ rerun' = (result = "continue")
  /\ sflags' = r.flags
  /\ persist' = r.persist
  /\ activated' = r.activated
  /\ s2c' = Send(s2c, r.out \o more, sgen)
  /\ c2s' = Tail(c2s)
  /\ UNCHANGED <<conf, clientVars, connected, sgen, activates, inputs, updates>>

\* "During reactivation sequence the client might sent some input or channel
\* data before receiving the Deactivate All PDU. We need to process them as
\* usual." The active server does the same once it has been activated; a rerun
\* would then have nothing left to read and fail.
ServerRecv ==
  /\ sstate = "CONFIRM_ACTIVE" \/ (sstate = "ACTIVE" /\ activated)
  /\ ~rerun /\ c2s # <<>>
  /\ LET r == PeerRecvPdu(Head(c2s)) IN
     Apply(r, r.state,
           IF r.result = "continue" /\ r.activated THEN "failed" ELSE r.result,
           <<>>)

\* The flag a finalization state waits for, and where it leads.
Expected ==
  [FINALIZATION_SYNC                |-> "CS_SYNCHRONIZE",
   FINALIZATION_COOPERATE           |-> "CS_CONTROL_COOPERATE",
   FINALIZATION_REQUEST_CONTROL     |-> "CS_CONTROL_REQUEST",
   FINALIZATION_PERSISTENT_KEY_LIST |-> "CS_PERSISTENT_KEY_LIST"]

\* Defect for TypeOK: the state after the key list is the one that follows the
\* font list in the enumeration of states.
AfterExpected_SkipsFontList ==
  [FINALIZATION_SYNC                |-> "FINALIZATION_COOPERATE",
   FINALIZATION_COOPERATE           |-> "FINALIZATION_REQUEST_CONTROL",
   FINALIZATION_REQUEST_CONTROL     |-> "FINALIZATION_PERSISTENT_KEY_LIST",
   FINALIZATION_PERSISTENT_KEY_LIST |-> "FINALIZATION_CLIENT_SYNC"]

AfterExpected ==
  [FINALIZATION_SYNC                |-> "FINALIZATION_COOPERATE",
   FINALIZATION_COOPERATE           |-> "FINALIZATION_REQUEST_CONTROL",
   FINALIZATION_REQUEST_CONTROL     |-> "FINALIZATION_PERSISTENT_KEY_LIST",
   FINALIZATION_PERSISTENT_KEY_LIST |-> "FINALIZATION_FONT_LIST"]

ExpectsKeyList == persist /\ "DEACTIVATE_REACTIVATE" \notin sflags

\* A PDU in a finalization state. When the expected flag is still missing
\* peer_unexpected_client_message takes the place of the result, whatever it
\* was.
ServerFinalize ==
  /\ sstate \in DOMAIN Expected
  /\ sstate = "FINALIZATION_PERSISTENT_KEY_LIST" => ExpectsKeyList
  /\ ~rerun /\ c2s # <<>>
  /\ LET r == PeerRecvPdu(Head(c2s)) IN
     IF Expected[sstate] \in r.flags
     THEN Apply([r EXCEPT !.activated = ActivatedAfterTransition],
                AfterExpected[sstate], r.result,
                IF sstate = "FINALIZATION_REQUEST_CONTROL" THEN <<"SCGranted">>
                ELSE <<>>)
     ELSE Apply(r, r.state, "success", <<>>)

\* Without a key list to come the server goes on to the font list with the same
\* PDU.
ServerSkipKeyList ==
  /\ sstate = "FINALIZATION_PERSISTENT_KEY_LIST" /\ ~ExpectsKeyList
  /\ ~rerun /\ c2s # <<>>
  /\ sstate' = "FINALIZATION_FONT_LIST"
  /\ activated' = ActivatedAfterTransition
  /\ UNCHANGED <<conf, clientVars, sflags, persist, connected, rerun, sgen,
                 activates, c2s, s2c, inputs, updates>>

\* Defect for FontListActivates: the state change does not trigger a rerun.
ServerFontList_NoRerun ==
  /\ sstate = "FINALIZATION_FONT_LIST"
  /\ ~rerun /\ c2s # <<>>
  /\ LET r == PeerRecvPdu(Head(c2s)) IN
     IF r.result # "failed" /\ "CS_FONT_LIST" \in r.flags
     THEN Apply(r, "ACTIVE", "success", <<>>)
     ELSE Apply(r, r.state, r.result, <<>>)

ServerFontList ==
  /\ sstate = "FINALIZATION_FONT_LIST"
  /\ ~rerun /\ c2s # <<>>
  /\ LET r == PeerRecvPdu(Head(c2s)) IN
     IF r.result # "failed" /\ "CS_FONT_LIST" \in r.flags
     THEN Apply(r, "ACTIVE", "continue", <<>>)
     ELSE Apply(r, r.state, r.result, <<>>)

\* Defect for ActivateOnce: the server does not note that it has called Activate.
ServerActivate_Forgets ==
  /\ sstate = "ACTIVE" /\ ~activated
  /\ rerun \/ c2s # <<>>
  /\ connected' = TRUE
  /\ c2s' = IF rerun THEN c2s ELSE Tail(c2s)
  /\ rerun' = FALSE
  /\ activates' = activates + 1
  /\ UNCHANGED <<conf, clientVars, sstate, sflags, persist, activated, sgen, s2c,
                 inputs, updates>>

\* rdp_peer_handle_state_active: PostConnect, then Activate. It runs right after
\* the font list or, failing that, when the next PDU comes, which is not read.
ServerActivate ==
  /\ sstate = "ACTIVE" /\ ~activated
  /\ rerun \/ c2s # <<>>
  /\ connected' = TRUE
  /\ c2s' = IF rerun THEN c2s ELSE Tail(c2s)
  /\ rerun' = FALSE
  /\ activated' = TRUE
  /\ activates' = activates + 1
  /\ UNCHANGED <<conf, clientVars, sstate, sflags, persist, sgen, s2c, inputs,
                 updates>>

\* The Activate callback of the shadow server finds that the screen has changed
\* and resizes at once.
ServerActivateResizes ==
  /\ sstate = "ACTIVE" /\ ~activated
  /\ rerun \/ c2s # <<>>
  /\ connected' = TRUE
  /\ c2s' = IF rerun THEN c2s ELSE Tail(c2s)
  /\ rerun' = FALSE
  /\ Reactivate
  /\ UNCHANGED <<conf, clientVars, persist, inputs, updates>>

-----------------------------------------------------------------------------
\* The settings after the basic settings exchange: the client knows whether it
\* supports the monitor layout PDU, the server supports it if both do.
Settings ==
  {c \in [clientLayout : BOOLEAN, serverLayout : BOOLEAN, persist : BOOLEAN,
          cacheV2 : BOOLEAN, crypt : BOOLEAN] : c.serverLayout => c.clientLayout}

Start ==
  /\ conf \in Settings
  /\ cstate = "DEMAND_ACTIVE" /\ cflags = {} /\ layout = FALSE /\ cgen = -1
  /\ insync = TRUE
  /\ sstate = "DEMAND_ACTIVE" /\ sflags = {} /\ persist \in BOOLEAN
  /\ connected = FALSE /\ activated = FALSE /\ rerun = FALSE
  /\ sgen = 0 /\ activates = 0
  /\ c2s = <<>> /\ s2c = <<>>
  /\ inputs = 0 /\ updates = 0

\* The server expects a key list only from a client that sends one. The bitmap
\* cache v2 capability sees to that.
KeyListsAgree == conf.cacheV2 \/ (persist => conf.persist)

\* The client waits for a monitor layout that the server does not send, under
\* RDP security: the first finalization PDU will be decrypted twice.
DecryptsTwice == conf.crypt /\ conf.clientLayout /\ ~conf.serverLayout

\* The settings with which the sequence works, and two with which it does not: a
\* client that has no bitmap cache v2 capability and no persistent cache meets a
\* server that has one; and the second decryption.
Init == Start /\ KeyListsAgree /\ ~DecryptsTwice

LegacyInit == Start /\ ~KeyListsAgree /\ ~DecryptsTwice

RereadInit == Start /\ KeyListsAgree /\ DecryptsTwice

\* A peer handles what it has received.
ClientStep == ClientFinalize \/ ClientDemandActive \/ ClientMonitorLayout \/ ClientRecv

ServerStep ==
  \/ ServerDemandActive \/ ServerMonitorLayout \/ ServerRecv
  \/ ServerFinalize \/ ServerSkipKeyList \/ ServerFontList
  \/ ServerActivate \/ ServerActivateResizes

Next ==
  \/ ClientStep \/ ClientInput
  \/ ServerStep \/ DesktopResize \/ SendUpdate

Spec == Init /\ [][Next]_vars

\* PDUs are delivered and both loops run. Input, updates and resizes may come or
\* not.
Fairness == WF_vars(ClientStep) /\ WF_vars(ServerStep)

FairSpec == Spec /\ Fairness

LegacySpec == LegacyInit /\ [][Next]_vars /\ Fairness

RereadSpec == RereadInit /\ [][Next]_vars /\ Fairness

-----------------------------------------------------------------------------
ClientStates ==
  {"DEMAND_ACTIVE", "MONITOR_LAYOUT", "ACTIVE", "FAILED"}
    \cup DOMAIN FinalizePdu \cup DOMAIN Awaited

ServerStates ==
  {"DEMAND_ACTIVE", "MONITOR_LAYOUT", "CONFIRM_ACTIVE", "FINALIZATION_FONT_LIST",
   "ACTIVE", "FAILED"} \cup DOMAIN Expected

Generations == 0..MaxReactivations

ClientPdus ==
  [type : {"ConfirmActive", "Input"} \cup DOMAIN ClientFlag, gen : Generations]

ServerPdus ==
  [type : {"DemandActive", "DeactivateAll", "MonitorLayout", "Update"}
            \cup DOMAIN ServerFlag,
   gen : Generations]

TypeOK ==
  /\ conf \in Settings
  /\ cstate \in ClientStates
  /\ cflags \subseteq {"DEACTIVATE_REACTIVATE", "SC_SYNCHRONIZE",
       "SC_CONTROL_COOPERATE", "SC_CONTROL_GRANTED", "SC_FONT_MAP"}
  /\ layout \in BOOLEAN
  /\ cgen \in Generations \cup {-1}
  /\ insync \in BOOLEAN
  /\ sstate \in ServerStates
  /\ sflags \subseteq {"DEACTIVATE_REACTIVATE", "CS_SYNCHRONIZE",
       "CS_CONTROL_COOPERATE", "CS_CONTROL_REQUEST", "CS_PERSISTENT_KEY_LIST",
       "CS_FONT_LIST"}
  /\ persist \in BOOLEAN /\ connected \in BOOLEAN /\ activated \in BOOLEAN
  /\ rerun \in BOOLEAN
  /\ sgen \in Generations
  /\ activates \in Nat
  /\ c2s \in Seq(ClientPdus)
  /\ s2c \in Seq(ServerPdus)
  /\ inputs \in 0..MaxInput /\ updates \in 0..MaxUpdates

\* Neither state machine meets a PDU that it cannot take: whatever was under way
\* when a resize started (input, updates, the server's finalization PDUs) is
\* taken in the state in which it arrives. Settings that decrypt a PDU twice are
\* left out (see EventuallyActive).
NothingFails == cstate # "FAILED" /\ sstate # "FAILED"

\* While the server treats the session as activated, the client has confirmed
\* the capabilities of the last Demand Active and has sent its font list for
\* them: no answer of an earlier generation activates the session.
ActivationIsCurrent ==
  activated =>
    /\ sstate = "ACTIVE"
    /\ cgen = sgen
    /\ cstate \in DOMAIN Awaited \cup {"ACTIVE"}

\* Activate is called once for each activation of the session, and no session is
\* activated before the server has connected it.
ActivateOnce ==
  /\ activates =< 1
  /\ activated => connected /\ activates = 1

\* Both sides know a reactivation for one: the first activation is announced
\* once to the client, and the persistent key list is sent in it only.
ReactivationIsRecognised ==
  /\ cgen > 0 => "DEACTIVATE_REACTIVATE" \in cflags
  /\ sgen > 0 => "DEACTIVATE_REACTIVATE" \in sflags
  /\ \A i \in 1..Len(c2s) : c2s[i].type = "PersistentKeyList" => c2s[i].gen = 0

\* Once the font list has made the server active its application is told: "State
\* changed, trigger rerun".
FontListActivates ==
  (sstate = "ACTIVE" /\ ~activated) ~> (activated \/ sstate # "ACTIVE")

\* Connecting, and every reactivation, comes to an end with both sides active in
\* the same generation, with or without the monitor layout PDU and the key list:
\* "This PDU is optional, so if we received a finalize PDU continue there". It
\* holds unless the PDU that takes the place of the layout is encrypted by RDP
\* security: Init leaves these settings out, and under RereadSpec it fails.
EventuallyActive ==
  <>[](activated /\ cstate = "ACTIVE" /\ cgen = sgen)

-----------------------------------------------------------------------------
(***************************************************************************)
(* The inductive invariant. The PDUs of either side are sent in a fixed    *)
(* order, and what is under way is exactly what the one has sent and the   *)
(* other has not yet taken. Input and updates may stand between them.      *)
(***************************************************************************)

\* The place of a PDU of the server in the stream of all its PDUs, and the last
\* place that a state of the server has filled. Places are counted from the
\* Deactivate All of a generation.
ServerPlace ==
  [DeactivateAll |-> 0, DemandActive |-> 1, MonitorLayout |-> 2, SCSynchronize |-> 3,
   SCCooperate |-> 4, SCGranted |-> 5, SCFontMap |-> 6, Update |-> 7]

PlaceOf(p) == 8 * p.gen + ServerPlace[p.type]

ServerSentIn ==
  [DEMAND_ACTIVE |-> 0, MONITOR_LAYOUT |-> 1, CONFIRM_ACTIVE |-> 2,
   FINALIZATION_SYNC |-> 4, FINALIZATION_COOPERATE |-> 4,
   FINALIZATION_REQUEST_CONTROL |-> 4, FINALIZATION_PERSISTENT_KEY_LIST |-> 5,
   FINALIZATION_FONT_LIST |-> 5, ACTIVE |-> 7]

ServerSent == 8 * sgen + ServerSentIn[sstate]

\* The last place that the client has taken. In the state DEMAND_ACTIVE it has
\* taken the Deactivate All of the next generation.
ClientTakenIn ==
  [DEMAND_ACTIVE |-> 8, MONITOR_LAYOUT |-> 1,
   FINALIZATION_SYNC |-> 2, FINALIZATION_COOPERATE |-> 2,
   FINALIZATION_REQUEST_CONTROL |-> 2, FINALIZATION_PERSISTENT_KEY_LIST |-> 2,
   FINALIZATION_FONT_LIST |-> 2, FINALIZATION_CLIENT_SYNC |-> 2,
   FINALIZATION_CLIENT_COOPERATE |-> 3, FINALIZATION_CLIENT_GRANTED_CONTROL |-> 4,
   FINALIZATION_CLIENT_FONT_MAP |-> 5, ACTIVE |-> 6]

ClientTaken == 8 * cgen + ClientTakenIn[cstate]

\* A PDU that the server is bound to send. The monitor layout depends on the
\* settings, the first generation has no Deactivate All, updates may come or not.
Due(p) ==
  /\ p.type # "Update"
  /\ p.type = "MonitorLayout" => conf.serverLayout
  /\ p.type = "DeactivateAll" => p.gen > 0

\* q holds the PDUs of the server after place lo up to place hi, in order.
ServerStream(q, lo, hi) ==
  /\ \A i \in 1..Len(q) :
       /\ lo < PlaceOf(q[i]) /\ PlaceOf(q[i]) <= hi
       /\ q[i].type = "MonitorLayout" => conf.serverLayout
  /\ \A i, j \in 1..Len(q) :
       i < j => \/ PlaceOf(q[i]) < PlaceOf(q[j])
                \/ PlaceOf(q[i]) = PlaceOf(q[j]) /\ q[i].type = "Update"
  /\ \A p \in ServerPdus :
       Due(p) /\ lo < PlaceOf(p) /\ PlaceOf(p) <= hi => \E i \in 1..Len(q) : q[i] = p

\* The same for the PDUs of the client, counted from its Confirm Active.
ClientPlace ==
  [ConfirmActive |-> 1, Synchronize |-> 2, Cooperate |-> 3, RequestControl |-> 4,
   PersistentKeyList |-> 5, FontList |-> 6]

ClientSentIn ==
  [DEMAND_ACTIVE |-> 0, MONITOR_LAYOUT |-> 1,
   FINALIZATION_SYNC |-> 1, FINALIZATION_COOPERATE |-> 2,
   FINALIZATION_REQUEST_CONTROL |-> 3, FINALIZATION_PERSISTENT_KEY_LIST |-> 4,
   FINALIZATION_FONT_LIST |-> 5, FINALIZATION_CLIENT_SYNC |-> 6,
   FINALIZATION_CLIENT_COOPERATE |-> 6, FINALIZATION_CLIENT_GRANTED_CONTROL |-> 6,
   FINALIZATION_CLIENT_FONT_MAP |-> 6, ACTIVE |-> 6]

\* Until it has taken the Demand Active of the server's generation, the client has
\* sent nothing that belongs to it.
ClientSent == IF cgen = sgen THEN ClientSentIn[cstate] ELSE 0

ServerTakenIn ==
  [DEMAND_ACTIVE |-> 0, MONITOR_LAYOUT |-> 0, CONFIRM_ACTIVE |-> 0,
   FINALIZATION_SYNC |-> 1, FINALIZATION_COOPERATE |-> 2,
   FINALIZATION_REQUEST_CONTROL |-> 3, FINALIZATION_PERSISTENT_KEY_LIST |-> 4,
   FINALIZATION_FONT_LIST |-> 4, ACTIVE |-> 6]

\* The server may have skipped a key list that still comes.
ServerTaken ==
  IF sstate = "FINALIZATION_FONT_LIST" /\ "CS_PERSISTENT_KEY_LIST" \in sflags
  THEN 5 ELSE ServerTakenIn[sstate]

\* The client sends a key list in the first generation, when it has one.
KeyListDue == conf.persist /\ sgen = 0

ClientStream(q, lo, hi) ==
  /\ \A i \in 1..Len(q) :
       q[i].type # "Input" =>
         /\ lo < ClientPlace[q[i].type] /\ ClientPlace[q[i].type] <= hi
         /\ q[i].type = "PersistentKeyList" => KeyListDue /\ q[i].gen = 0
  /\ \A i, j \in 1..Len(q) :
       i < j /\ q[i].type # "Input" /\ q[j].type # "Input" =>
         ClientPlace[q[i].type] < ClientPlace[q[j].type]
  /\ \A t \in DOMAIN ClientPlace :
       (t = "PersistentKeyList" => KeyListDue) /\ lo < ClientPlace[t] /\ ClientPlace[t] <= hi =>
         \E i \in 1..Len(q) : q[i].type = t

\* The server is at most one generation ahead, and only while it waits for the
\* Confirm Active of it. The client has taken no more than the server has sent,
\* or does not wait for a monitor layout that will not come.
GenerationInv ==
  /\ \/ cgen = sgen /\ cstate # "DEMAND_ACTIVE" /\ sstate # "DEMAND_ACTIVE"
     \/ /\ cgen = sgen - 1
        /\ sstate \in {"DEMAND_ACTIVE", "MONITOR_LAYOUT", "CONFIRM_ACTIVE"}
        /\ cstate \in {"DEMAND_ACTIVE", "ACTIVE"} \cup DOMAIN Awaited
  /\ cgen = -1 => cstate = "DEMAND_ACTIVE"
  /\ sstate = "DEMAND_ACTIVE" => sgen = 0
  /\ cgen = sgen => \/ ClientTakenIn[cstate] <= ServerSentIn[sstate]
                    \/ ~conf.serverLayout /\ ClientTakenIn[cstate] = 2

ClientInv ==
  /\ "DEACTIVATE_REACTIVATE" \in cflags <=>
       cgen > 0 \/ (cgen = 0 /\ cstate = "DEMAND_ACTIVE")
  /\ cstate = "MONITOR_LAYOUT" =>
       conf.clientLayout /\ ~layout /\ cflags \subseteq {"DEACTIVATE_REACTIVATE"}
  /\ cstate = "FINALIZATION_PERSISTENT_KEY_LIST" => conf.persist /\ cgen = 0
  /\ insync = TRUE /\ ~DecryptsTwice

\* While it finalizes, the server has the flags of the PDUs it has taken.
Finalizing == DOMAIN Expected \cup {"FINALIZATION_FONT_LIST"}

ServerInv ==
  /\ "DEACTIVATE_REACTIVATE" \in sflags <=> sgen > 0
  /\ sstate \in Finalizing =>
       \A t \in DOMAIN ClientFlag : ClientFlag[t] \in sflags <=> ClientPlace[t] <= ServerTaken
  /\ KeyListsAgree
  /\ sstate \in Finalizing => (persist => conf.persist)
  /\ rerun <=> \/ sstate = "ACTIVE" /\ ~activated
               \/ sstate = "MONITOR_LAYOUT" /\ sgen = 0
  /\ activated => sstate = "ACTIVE" /\ connected
  /\ activates = (IF activated THEN 1 ELSE 0)

IInv ==
  /\ TypeOK
  /\ NothingFails
  /\ GenerationInv
  /\ ClientInv
  /\ ServerInv
  /\ ServerTaken <= ClientSent
  /\ ClientStream(c2s, ServerTaken, ClientSent)
  /\ ServerStream(s2c, ClientTaken, ServerSent)
=============================================================================
