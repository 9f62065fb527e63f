------------------------------ MODULE Connection ------------------------------
(***************************************************************************)
(* The middle part of the RDP connection sequence, between the negotiation *)
(* of the security protocol and the capability exchange, as client and     *)
(* server run it: the exchange of the basic settings, the join of the MCS  *)
(* channels, the RDP security keys, the client info, auto-detection,       *)
(* licensing and multitransport (libfreerdp/core/gcc.c, mcs.c, rdp.c,      *)
(* connection.c, license.c, autodetect.c, multitransport.c, peer.c).       *)
(*                                                                         *)
(* What is exchanged, in which order and on which channel follows from     *)
(* settings that each side merges with what the other announces. The PDUs  *)
(* arrive in order and are delayed at will. A PDU a side cannot take in    *)
(* its state ends its session (FAILED). A PDU stays at the head of its     *)
(* queue while the client reruns its state machine on it                   *)
(* (STATE_RUN_TRY_AGAIN). The reruns of the server (STATE_RUN_CONTINUE)    *)
(* read nothing and are part of the step that starts them.                 *)
(***************************************************************************)
EXTENDS Integers, Sequences, FiniteSets, Functions

CONSTANTS ClientSettings,  \* the settings a client may start with
          ServerSettings,  \* the settings a server may start with
          MaxChannels      \* bound on the static virtual channels of a client

Methods == {"40BIT", "56BIT", "128BIT", "FIPS"}
Levels == {"NONE", "LOW", "CLIENT_COMPATIBLE", "HIGH", "FIPS"}
Transports == {"FECR", "FECL"}

ClientSettingsType ==
  [rdp : BOOLEAN,                \* the negotiation selected PROTOCOL_RDP
   methods : SUBSET Methods,     \* EncryptionMethods
   channels : 0..MaxChannels,    \* ChannelCount
   autodetect : BOOLEAN,         \* NetworkAutoDetect
   heartbeat : BOOLEAN,          \* SupportHeartbeatPdu
   skipJoin : BOOLEAN,           \* SupportSkipChannelJoin
   multi : BOOLEAN,              \* SupportMultitransport
   flags : SUBSET Transports]    \* MultitransportFlags

ASSUME SettingsAssumption ==
  /\ MaxChannels \in Nat
  /\ ClientSettings \subseteq ClientSettingsType
  /\ ServerSettings \subseteq
       [local : BOOLEAN,              \* LocalConnection
        level : Levels,               \* EncryptionLevel
        autodetect : BOOLEAN, skipJoin : BOOLEAN, multi : BOOLEAN,
        flags : SUBSET Transports]

VARIABLES
  cset, sset,          \* settings of client and server
  cmcs, smcs,          \* their rdpMcs: ids of the user, the message channel (0:
                       \* none) and the static channels, and the joined ids
  ckey, skey,          \* what a side encrypts with once do_crypt is set
  cstate, sstate,      \* rdp->state
  toClient, toServer   \* PDUs under way

clientVars == <<cset, cmcs, ckey, cstate>>
serverVars == <<sset, smcs, skey, sstate>>
vars == <<clientVars, serverVars, toClient, toServer>>

Global == 1003  \* MCS_GLOBAL_CHANNEL_ID

\* A PDU is on a channel, or names one, and is encrypted with key.
Pdu(type, channel, key) == [type |-> type, channel |-> channel, key |-> key]
DomainPdu(type, id) == Pdu(type, id, {})

\* rdp_decrypt: a PDU that is encrypted can be read with the same key only.
Readable(p, key) == p.key \in {{}, key}

\* The order in which the client joins its channels.
JoinOrder(mcs) ==
  <<mcs.user, Global>> \o
    (IF mcs.message # 0 THEN <<mcs.message>> ELSE <<>>) \o mcs.channels

Unjoined(mcs) == {i \in 1..Len(JoinOrder(mcs)) : JoinOrder(mcs)[i] \notin mcs.joined}

NextToJoin(mcs) ==
  JoinOrder(mcs)[CHOOSE i \in Unjoined(mcs) : \A j \in Unjoined(mcs) : i =< j]

\* SKIP_CHANNELJOIN: all channels count as joined.
SkipJoin(mcs) == [mcs EXCEPT !.joined = Range(JoinOrder(mcs))]

-----------------------------------------------------------------------------
\* The settings of the server.

\* What the negotiation left: RDP security is turned off for a local peer, and
\* has a level of encryption otherwise.
ServerSecurity(rdp, s) ==
  [rdp |-> rdp /\ ~s.local,
   level |-> IF ~rdp \/ s.local THEN "NONE"
             ELSE IF s.level = "NONE" THEN "CLIENT_COMPATIBLE"
             ELSE s.level]

\* Defect for SettingsAgree: a level of encryption is announced whether RDP
\* security is on or not.
EncryptionLevel_Always(s) == IF s.level = "NONE" THEN "CLIENT_COMPATIBLE" ELSE s.level

\* rdp_update_encryption_level, its first half
EncryptionLevel(s) == IF s.rdp THEN s.level ELSE "NONE"

\* rdp_update_encryption_level, its second half: the method for a level and the
\* methods of the client
EncryptionMethod(level, methods) ==
  IF level = "NONE" THEN {}
  ELSE IF level = "FIPS" THEN {"FIPS"}
  ELSE IF level = "HIGH" \/ "128BIT" \in methods THEN {"128BIT"}
  ELSE IF "56BIT" \in methods THEN {"56BIT"}
  ELSE IF "40BIT" \in methods THEN {"40BIT"}
  ELSE IF "FIPS" \in methods THEN {"FIPS"}
  ELSE {"128BIT"}

\* MultitransportFlags merged with those of the other side
MergeFlags(flags, remoteFlags) == flags \cap remoteFlags

\* The server's settings merged with the data blocks of a Connect Initial
ServerMerge(s, p) ==
  [s EXCEPT !.autodetect = @ /\ p.autodetect,
            !.skipJoin = @ /\ p.skipJoin,
            !.flags = MergeFlags(@, p.flags),
            !.level = EncryptionLevel(s),
            !.methods = EncryptionMethod(EncryptionLevel(s), p.methods)]

\* The ids the server gives out from baseChannelId on: to the channels ...
ChannelIds(mcs, count) ==
  [mcs EXCEPT !.channels = [i \in 1..count |-> mcs.base + i - 1], !.base = @ + count]

\* ... then to the message channel, if the client asks for one
MessageChannelId(mcs, asked) ==
  IF asked THEN [mcs EXCEPT !.message = mcs.base, !.base = @ + 1] ELSE mcs

\* gcc_write_server_data_blocks
ConnectResponse(s, mcs) ==
  [type |-> "ConnectResponse", channels |-> mcs.channels, message |-> mcs.message,
   skipJoin |-> s.skipJoin, level |-> s.level, methods |-> s.methods,
   multi |-> s.multi /\ s.flags # {}, flags |-> s.flags]

-----------------------------------------------------------------------------
\* The settings of the client.

\* Defect for MessageChannelExists: multitransport asks for no message channel.
MessageChannelBlock_NoMultitransport(c) == c.autodetect \/ c.heartbeat

\* gcc_write_client_message_channel_data
MessageChannelBlock(c) == c.autodetect \/ c.heartbeat \/ c.multi

\* gcc_write_client_data_blocks. The blocks after the network data are sent to a
\* server with EXTENDED_CLIENT_DATA_SUPPORTED, which this one always announces.
ConnectInitial(c) ==
  [type |-> "ConnectInitial", autodetect |-> c.autodetect, skipJoin |-> c.skipJoin,
   methods |-> c.methods, channels |-> c.channels,
   message |-> MessageChannelBlock(c), flags |-> c.flags]

\* gcc_read_server_security_data: the combinations of level and method
ValidCryptoConfig(p) ==
  CASE p.level = "NONE" -> p.methods = {}
    [] p.level = "FIPS" -> p.methods = {"FIPS"}
    [] OTHER -> Cardinality(p.methods) = 1

\* The client's settings merged with the data blocks of a Connect Response.
\* Without a multitransport block the client keeps its flags.
ClientMerge(c, p) ==
  [c EXCEPT !.skipJoin = @ /\ p.skipJoin,
            !.methods = p.methods,
            !.rdp = @ /\ p.level # "NONE",
            !.flags = IF p.multi THEN MergeFlags(@, p.flags) ELSE @]

-----------------------------------------------------------------------------
NoMcs == [user |-> 0, message |-> 0, channels |-> <<>>, joined |-> {}]

\* Both sides have just left the negotiation.
Init ==
  /\ cset \in ClientSettings
  /\ \E s \in ServerSettings :
       sset = [rdp |-> ServerSecurity(cset.rdp, s).rdp,
               level |-> ServerSecurity(cset.rdp, s).level,
               methods |-> {}, autodetect |-> s.autodetect,
               skipJoin |-> s.skipJoin, multi |-> s.multi, flags |-> s.flags]
  /\ cmcs = NoMcs
  /\ smcs = [user |-> 0, message |-> 0, channels |-> <<>>, joined |-> {},
             base |-> Global + 1]
  /\ ckey = {}
  /\ skey = {}
  /\ cstate = "MCS_CREATE_REQUEST"
  /\ sstate = "MCS_CREATE_REQUEST"
  /\ toClient = <<>>
  /\ toServer = <<>>

-----------------------------------------------------------------------------
\* The client.

\* A side reads the next PDU of its queue in one of its states.
ClientReads(states) ==
  /\ cstate \in states
  /\ toClient # <<>>
  /\ UNCHANGED serverVars

ClientFails ==
  /\ cstate' = "FAILED"
  /\ toClient' = Tail(toClient)
  /\ UNCHANGED <<cset, cmcs, ckey, toServer>>

\* mcs_client_begin
ClientBegin ==
  /\ cstate = "MCS_CREATE_REQUEST"
  /\ toServer' = Append(toServer, ConnectInitial(cset))
  /\ cstate' = "MCS_CREATE_RESPONSE"
  /\ UNCHANGED <<cset, cmcs, ckey, toClient, serverVars>>

ClientConnectResponse ==
  /\ ClientReads({"MCS_CREATE_RESPONSE"})
  /\ LET p == Head(toClient) IN
     IF p.type = "ConnectResponse" /\ ValidCryptoConfig(p)
     THEN /\ cset' = ClientMerge(cset, p)
          /\ cmcs' = [cmcs EXCEPT !.message = p.message, !.channels = p.channels]
          /\ toServer' = toServer \o <<DomainPdu("ErectDomainRequest", 0),
                                       DomainPdu("AttachUserRequest", 0)>>
          /\ cstate' = "MCS_ATTACH_USER_CONFIRM"
          /\ toClient' = Tail(toClient)
          /\ UNCHANGED ckey
     ELSE ClientFails

\* rdp_client_establish_keys: the key and what is sent for it
ClientKeys ==
  IF cset.rdp
  THEN [key |-> cset.methods, pdus |-> <<Pdu("SecurityExchange", Global, {})>>]
  ELSE [key |-> {}, pdus |-> <<>>]

\* rdp_client_send_client_info_and_change_state
SendClientInfo ==
  /\ ckey' = ClientKeys.key
  /\ toServer' = toServer \o ClientKeys.pdus \o <<Pdu("ClientInfo", Global, ckey')>>
  /\ cstate' = "CONNECT_TIME_AUTO_DETECT_REQUEST"

SendJoinRequest(id) ==
  /\ toServer' = Append(toServer, [type |-> "ChannelJoinRequest", channel |-> id,
                                   key |-> {}, user |-> cmcs'.user])
  /\ cstate' = "MCS_CHANNEL_JOIN_RESPONSE"
  /\ UNCHANGED ckey

\* The client learns its user id; then it joins its channels one by one, the
\* user channel first, or takes all of them for joined.
ClientAttachUserConfirm ==
  /\ ClientReads({"MCS_ATTACH_USER_CONFIRM"})
  /\ LET p == Head(toClient)
         mcs == [cmcs EXCEPT !.user = p.channel]
     IN IF p.type = "AttachUserConfirm"
        THEN /\ IF cset.skipJoin
                THEN cmcs' = SkipJoin(mcs) /\ SendClientInfo
                ELSE cmcs' = mcs /\ SendJoinRequest(p.channel)
             /\ toClient' = Tail(toClient)
             /\ UNCHANGED cset
        ELSE ClientFails

ClientJoinConfirm ==
  /\ ClientReads({"MCS_CHANNEL_JOIN_RESPONSE"})
  /\ LET p == Head(toClient) IN
     IF p.type = "ChannelJoinConfirm" /\ p.channel = NextToJoin(cmcs)
     THEN /\ cmcs' = [cmcs EXCEPT !.joined = @ \cup {p.channel}]
          /\ IF Unjoined(cmcs') = {}
             THEN SendClientInfo
             ELSE SendJoinRequest(NextToJoin(cmcs'))
          /\ toClient' = Tail(toClient)
          /\ UNCHANGED cset
     ELSE ClientFails

\* rdp_recv_message_channel_pdu: the requests the client answers. It has no
\* multitransport over UDP and refuses it.
Answers ==
  [RttRequest |-> "RttResponse", MultitransportRequest |-> "MultitransportResponse"]

Answerable(p) ==
  /\ p.type \in DOMAIN Answers
  /\ p.type = "RttRequest" => cset.autodetect

AnswerRequest(p) ==
  /\ toServer' = Append(toServer, Pdu(Answers[p.type], cmcs.message, ckey))
  /\ toClient' = Tail(toClient)
  /\ UNCHANGED <<cset, cmcs, ckey, cstate>>

\* rdp_client_connect_auto_detect: requests on the message channel are answered,
\* in the two states that wait for them; whatever else comes is handed to the
\* state after.
OnMessageChannel(p) == cmcs.message # 0 /\ p.channel = cmcs.message

Requested(p) == OnMessageChannel(p) /\ Readable(p, ckey) /\ Answerable(p)

ClientAnswers ==
  /\ ClientReads({"CONNECT_TIME_AUTO_DETECT_REQUEST",
                  "MULTITRANSPORT_BOOTSTRAPPING_REQUEST"})
  /\ Requested(Head(toClient))
  /\ AnswerRequest(Head(toClient))

ClientTriesAgain ==
  /\ ClientReads({"CONNECT_TIME_AUTO_DETECT_REQUEST",
                  "MULTITRANSPORT_BOOTSTRAPPING_REQUEST"})
  /\ ~Requested(Head(toClient))
  /\ cstate' = IF cstate = "CONNECT_TIME_AUTO_DETECT_REQUEST"
               THEN "LICENSING" ELSE "DEMAND_ACTIVE"
  /\ UNCHANGED <<cset, cmcs, ckey, toClient, toServer>>

\* rdp_client_connect_license: a message channel PDU is taken here too. The
\* servers of this repository require no license and say that the client is valid.
ClientLicense ==
  /\ ClientReads({"LICENSING"})
  /\ LET p == Head(toClient) IN
     IF Readable(p, ckey) /\ (p.channel = cmcs.message \/ p.type = "RttRequest")
     THEN IF Answerable(p) THEN AnswerRequest(p) ELSE ClientFails
     ELSE IF Readable(p, ckey) /\ p.type = "ValidClient"
     THEN /\ cstate' = IF cset.flags # {} THEN "MULTITRANSPORT_BOOTSTRAPPING_REQUEST"
                       ELSE "DEMAND_ACTIVE"
          /\ toClient' = Tail(toClient)
          /\ UNCHANGED <<cset, cmcs, ckey, toServer>>
     ELSE ClientFails

\* rdp_client_connect_demand_active: Demand Active ends this part of the sequence.
ClientDemandActive ==
  /\ ClientReads({"DEMAND_ACTIVE"})
  /\ LET p == Head(toClient) IN
     IF /\ p.channel = Global \/ OnMessageChannel(p)
        /\ Readable(p, ckey)
        /\ p.type = "DemandActive"
     THEN /\ cstate' = "CONFIRM_ACTIVE"
          /\ toClient' = Tail(toClient)
          /\ UNCHANGED <<cset, cmcs, ckey, toServer>>
     ELSE ClientFails

ClientNext ==
  \/ ClientBegin \/ ClientConnectResponse \/ ClientAttachUserConfirm
  \/ ClientJoinConfirm \/ ClientAnswers \/ ClientTriesAgain
  \/ ClientLicense \/ ClientDemandActive

-----------------------------------------------------------------------------
\* The server.

ServerReads(states) ==
  /\ sstate \in states
  /\ toServer # <<>>
  /\ toServer' = Tail(toServer)
  /\ UNCHANGED clientVars

ServerFails == sstate' = "FAILED" /\ UNCHANGED <<sset, smcs, skey, toClient>>

\* rdp_server_accept_mcs_connect_initial
ServerConnectInitial ==
  /\ ServerReads({"MCS_CREATE_REQUEST"})
  /\ LET p == Head(toServer) IN
     IF p.type = "ConnectInitial"
     THEN /\ sset' = ServerMerge(sset, p)
          /\ smcs' = MessageChannelId(ChannelIds(smcs, p.channels), p.message)
          /\ toClient' = Append(toClient, ConnectResponse(sset', smcs'))
          /\ sstate' = "MCS_ERECT_DOMAIN"
          /\ UNCHANGED skey
     ELSE ServerFails

ServerErectDomain ==
  /\ ServerReads({"MCS_ERECT_DOMAIN"})
  /\ IF Head(toServer).type = "ErectDomainRequest"
     THEN sstate' = "MCS_ATTACH_USER" /\ UNCHANGED <<sset, smcs, skey, toClient>>
     ELSE ServerFails

\* The user id is the next id that is free.
NewUser(mcs) == [mcs EXCEPT !.user = mcs.base, !.base = mcs.base + 1]

\* Defect for JoinsAgree: skipping the joins leaves the channels unjoined.
AttachUser_NotJoined ==
  /\ smcs' = NewUser(smcs)
  /\ sstate' = IF sset.skipJoin THEN "RDP_SECURITY_COMMENCEMENT"
               ELSE "MCS_CHANNEL_JOIN_REQUEST"
  /\ toClient' = Append(toClient, DomainPdu("AttachUserConfirm", smcs'.user))
  /\ UNCHANGED <<sset, skey>>

AttachUser ==
  /\ smcs' = IF sset.skipJoin THEN SkipJoin(NewUser(smcs)) ELSE NewUser(smcs)
  /\ sstate' = IF sset.skipJoin THEN "RDP_SECURITY_COMMENCEMENT"
               ELSE "MCS_CHANNEL_JOIN_REQUEST"
  /\ toClient' = Append(toClient, DomainPdu("AttachUserConfirm", smcs'.user))
  /\ UNCHANGED <<sset, skey>>

ServerAttachUser ==
  /\ ServerReads({"MCS_ATTACH_USER"})
  /\ IF Head(toServer).type = "AttachUserRequest" THEN AttachUser ELSE ServerFails

\* Defect for NothingFails: the message channel is not waited for.
AllJoined_NoMessageChannel(mcs) ==
  {mcs.user, Global} \cup Range(mcs.channels) \subseteq mcs.joined

AllJoined(mcs) == Unjoined(mcs) = {}

\* rdp_server_accept_mcs_channel_join_request: any order would do.
ServerJoin ==
  /\ ServerReads({"MCS_CHANNEL_JOIN_REQUEST"})
  /\ LET p == Head(toServer) IN
     IF p.type = "ChannelJoinRequest" /\ p.user = smcs.user
     THEN /\ smcs' = [smcs EXCEPT !.joined =
                        @ \cup ({p.channel} \cap Range(JoinOrder(smcs)))]
          /\ toClient' = Append(toClient, DomainPdu("ChannelJoinConfirm", p.channel))
          /\ sstate' = IF AllJoined(smcs') THEN "RDP_SECURITY_COMMENCEMENT"
                       ELSE "MCS_CHANNEL_JOIN_REQUEST"
          /\ UNCHANGED <<sset, skey>>
     ELSE ServerFails

\* rdp_server_establish_keys, when RDP security is used
ServerEstablishKeys ==
  /\ ServerReads({"RDP_SECURITY_COMMENCEMENT"})
  /\ sset.rdp
  /\ IF Head(toServer).type = "SecurityExchange"
     THEN /\ skey' = sset.methods
          /\ sstate' = "SECURE_SETTINGS_EXCHANGE"
          /\ UNCHANGED <<sset, smcs, toClient>>
     ELSE ServerFails

RttRequest == Pdu("RttRequest", smcs.message, skey)
ValidClient == Pdu("ValidClient", Global, skey)
MultitransportRequest == Pdu("MultitransportRequest", smcs.message, skey)

\* rdp_peer_handle_state_demand_active, after the PDUs in q
DemandActive(q) ==
  /\ toClient' = Append(q, Pdu("DemandActive", Global, skey))
  /\ sstate' = "MONITOR_LAYOUT"

\* What the server sends after the PDUs in q without waiting for the client, from the
\* state named and on through the states that need no answer.
FromMultitransport(q) ==
  IF sset.multi /\ "FECR" \in sset.flags
  THEN /\ toClient' = Append(q, MultitransportRequest)
       /\ sstate' = "MULTITRANSPORT_BOOTSTRAPPING_RESPONSE"
  ELSE DemandActive(q)

FromLicensing(q) == FromMultitransport(Append(q, ValidClient))

FromAutoDetect(q) ==
  IF sset.autodetect
  THEN /\ toClient' = Append(q, RttRequest)
       /\ sstate' = "CONNECT_TIME_AUTO_DETECT_RESPONSE"
  ELSE FromLicensing(q)

\* rdp_recv_client_info; without RDP security it is also what comes first.
ServerClientInfo ==
  /\ ServerReads({"SECURE_SETTINGS_EXCHANGE"} \cup
                 (IF sset.rdp THEN {} ELSE {"RDP_SECURITY_COMMENCEMENT"}))
  /\ IF Head(toServer).type = "ClientInfo" /\ Readable(Head(toServer), skey)
     THEN FromAutoDetect(toClient) /\ UNCHANGED <<sset, smcs, skey>>
     ELSE ServerFails

\* The default auto-detection is complete with the first answer.
ServerRttResponse ==
  /\ ServerReads({"CONNECT_TIME_AUTO_DETECT_RESPONSE"})
  /\ IF Head(toServer).type = "RttResponse" /\ Readable(Head(toServer), skey)
     THEN FromLicensing(toClient) /\ UNCHANGED <<sset, smcs, skey>>
     ELSE ServerFails

\* Defect for Connected: a refusal is read and nothing is done about it.
MultitransportResponse_Ignored == UNCHANGED <<sstate, toClient>>

\* multitransport_server_handle_response: whatever the answer, the server goes on.
MultitransportResponse == DemandActive(toClient)

ServerMultitransportResponse ==
  /\ ServerReads({"MULTITRANSPORT_BOOTSTRAPPING_RESPONSE"})
  /\ LET p == Head(toServer) IN
     IF /\ p.type = "MultitransportResponse"
        /\ smcs.message > 0 /\ p.channel = smcs.message
        /\ Readable(p, skey)
     THEN MultitransportResponse /\ UNCHANGED <<sset, smcs, skey>>
     ELSE ServerFails

ServerNext ==
  \/ ServerConnectInitial \/ ServerErectDomain \/ ServerAttachUser \/ ServerJoin
  \/ ServerEstablishKeys \/ ServerClientInfo \/ ServerRttResponse
  \/ ServerMultitransportResponse

-----------------------------------------------------------------------------
Next == ClientNext \/ ServerNext

Spec == Init /\ [][Next]_vars

\* Each side is a loop that takes the next PDU as soon as it is there.
FairSpec == Spec /\ WF_vars(ClientNext) /\ WF_vars(ServerNext)

-----------------------------------------------------------------------------
\* Properties.

\* Whatever the two sides are set to, neither meets a PDU it cannot take: the
\* states of rdp_recv_callback_int and peer_recv_callback_internal, chosen by
\* settings each side has merged for itself, fit each other.
NothingFails == cstate # "FAILED" /\ sstate # "FAILED"

\* Once the client has the Connect Response both sides have come to the same
\* settings (updateEarlyClientCaps, updateEarlyServerCaps, rdp_update_encryption_
\* level, gcc_read_server_security_data): RDP security and its method, the joins
\* to be skipped, the channels; and a client that is asked for multitransport
\* knows that it may be.
SettingsAgree ==
  cstate \notin {"MCS_CREATE_REQUEST", "MCS_CREATE_RESPONSE"} =>
    /\ cset.rdp = sset.rdp
    /\ cset.methods = sset.methods
    /\ cset.skipJoin = sset.skipJoin
    /\ cmcs.message = smcs.message
    /\ cmcs.channels = smcs.channels
    /\ sstate = "MULTITRANSPORT_BOOTSTRAPPING_RESPONSE" => "FECR" \in cset.flags

\* The client goes on to the client info only when it and the server have joined
\* every channel there is, by request or by the skip that both must have agreed
\* on, and no two of them have the same id.
JoinsAgree ==
  cstate \notin {"MCS_CREATE_REQUEST", "MCS_CREATE_RESPONSE",
                 "MCS_ATTACH_USER_CONFIRM", "MCS_CHANNEL_JOIN_RESPONSE"} =>
    /\ cmcs.joined = Range(JoinOrder(cmcs))
    /\ smcs.joined = cmcs.joined
    /\ IsInjective(JoinOrder(cmcs))

MessageTypes ==
  {"RttRequest", "RttResponse", "MultitransportRequest", "MultitransportResponse"}

\* A PDU of the message channel is sent only when there is a message channel and
\* both sides have joined it ("If the MCS message channel has been joined...",
\* rdp_client_connect_auto_detect).
MessageChannelExists ==
  \A p \in Range(toClient) \cup Range(toServer) :
    p.type \in MessageTypes => p.channel # 0 /\ p.channel \in cmcs.joined \cap smcs.joined

\* Every connection comes to the capability exchange: the server has sent its
\* Demand Active and the client has taken it, even when multitransport is refused.
Connected == <>(cstate = "CONFIRM_ACTIVE" /\ sstate = "MONITOR_LAYOUT")

-----------------------------------------------------------------------------
(***************************************************************************)
(* The inductive invariant. The two sides take turns: one of them waits    *)
(* for what the other has sent last. The phases of the sequence say which, *)
(* with which settings, ids and keys.                                      *)
(***************************************************************************)

\* A client that announces the transport the server would use has a message
\* channel for it. (Without that the server uses the channel id 0.)
TransportNeedsChannel ==
  \A c \in ClientSettings : "FECR" \in c.flags => MessageChannelBlock(c)

\* The ids of a connection follow from the channels and the message channel that
\* the client asks for.
IdsOfChannels(c) == [i \in 1..c.channels |-> Global + i]
IdOfMessage(c) == IF MessageChannelBlock(c) THEN Global + c.channels + 1 ELSE 0
IdOfUser(c) == Global + c.channels + (IF MessageChannelBlock(c) THEN 2 ELSE 1)

ClientMcs(c, user, joined) ==
  [user |-> user, message |-> IdOfMessage(c), channels |-> IdsOfChannels(c),
   joined |-> joined]

ServerMcs(c, user, joined, base) ==
  [user |-> user, message |-> IdOfMessage(c), channels |-> IdsOfChannels(c),
   joined |-> joined, base |-> base]

Order(c) == JoinOrder(ClientMcs(c, IdOfUser(c), {}))

FirstOf(c, k) == {Order(c)[i] : i \in 1..k}

\* The server before and after it has given out the user id.
ServerUnattached == smcs = ServerMcs(cset, 0, {}, IdOfUser(cset))
ServerAttached(joined) ==
  smcs = ServerMcs(cset, IdOfUser(cset), joined, IdOfUser(cset) + 1)
ClientAttached(joined) == cmcs = ClientMcs(cset, IdOfUser(cset), joined)

KeyOf(s) == IF s.rdp THEN s.methods ELSE {}

JoinRequest(id, user) ==
  [type |-> "ChannelJoinRequest", channel |-> id, key |-> {}, user |-> user]

Starting ==
  /\ sstate = "MCS_CREATE_REQUEST"
  /\ cmcs = NoMcs
  /\ smcs = [user |-> 0, message |-> 0, channels |-> <<>>, joined |-> {},
             base |-> Global + 1]
  /\ toClient = <<>>
  /\ \/ cstate = "MCS_CREATE_REQUEST" /\ toServer = <<>>
     \/ cstate = "MCS_CREATE_RESPONSE" /\ toServer = <<ConnectInitial(cset)>>

Responding ==
  /\ cstate = "MCS_CREATE_RESPONSE" /\ sstate = "MCS_ERECT_DOMAIN"
  /\ cmcs = NoMcs
  /\ ServerUnattached
  /\ sset.skipJoin => cset.skipJoin
  /\ toClient = <<ConnectResponse(sset, smcs)>> /\ toServer = <<>>

\* From the Connect Response on both sides have the same settings.
Agreed ==
  /\ cset.rdp = sset.rdp
  /\ cset.methods = sset.methods
  /\ cset.skipJoin = sset.skipJoin

Attaching ==
  /\ Agreed
  /\ cstate = "MCS_ATTACH_USER_CONFIRM"
  /\ cmcs = ClientMcs(cset, 0, {})
  /\ \/ /\ sstate = "MCS_ERECT_DOMAIN" /\ ServerUnattached
        /\ toServer = <<DomainPdu("ErectDomainRequest", 0), DomainPdu("AttachUserRequest", 0)>>
        /\ toClient = <<>>
     \/ /\ sstate = "MCS_ATTACH_USER" /\ ServerUnattached
        /\ toServer = <<DomainPdu("AttachUserRequest", 0)>>
        /\ toClient = <<>>
     \/ /\ sstate = IF sset.skipJoin THEN "RDP_SECURITY_COMMENCEMENT"
                    ELSE "MCS_CHANNEL_JOIN_REQUEST"
        /\ ServerAttached(IF sset.skipJoin THEN Range(Order(cset)) ELSE {})
        /\ toServer = <<>>
        /\ toClient = <<DomainPdu("AttachUserConfirm", IdOfUser(cset))>>

\* The first k channels are joined; the next is asked for or confirmed.
JoinAsked(k) ==
  /\ sstate = "MCS_CHANNEL_JOIN_REQUEST"
  /\ ServerAttached(FirstOf(cset, k))
  /\ toServer = <<JoinRequest(Order(cset)[k + 1], IdOfUser(cset))>>
  /\ toClient = <<>>

JoinConfirmed(k) ==
  /\ sstate = IF k + 1 = Len(Order(cset)) THEN "RDP_SECURITY_COMMENCEMENT"
              ELSE "MCS_CHANNEL_JOIN_REQUEST"
  /\ ServerAttached(FirstOf(cset, k + 1))
  /\ toServer = <<>>
  /\ toClient = <<DomainPdu("ChannelJoinConfirm", Order(cset)[k + 1])>>

Joining ==
  /\ Agreed
  /\ cstate = "MCS_CHANNEL_JOIN_RESPONSE"
  /\ \E k \in 0..Len(Order(cset)) - 1 :
       /\ ClientAttached(FirstOf(cset, k))
       /\ JoinAsked(k) \/ JoinConfirmed(k)

ClientInfo == Pdu("ClientInfo", Global, ckey)
DemandActivePdu == Pdu("DemandActive", Global, skey)

\* All channels are joined. The client info is under way, ...
Securing ==
  /\ cstate = "CONNECT_TIME_AUTO_DETECT_REQUEST" /\ toClient = <<>>
  /\ \/ /\ sstate = "RDP_SECURITY_COMMENCEMENT" /\ skey = {}
        /\ toServer = IF sset.rdp THEN <<Pdu("SecurityExchange", Global, {}), ClientInfo>>
                      ELSE <<ClientInfo>>
     \/ /\ sstate = "SECURE_SETTINGS_EXCHANGE" /\ skey = ckey
        /\ toServer = <<ClientInfo>>

\* ... or auto-detection, ...
Detecting ==
  /\ sset.autodetect
  /\ cstate = "CONNECT_TIME_AUTO_DETECT_REQUEST"
  /\ sstate = "CONNECT_TIME_AUTO_DETECT_RESPONSE" /\ skey = ckey
  /\ \/ toClient = <<RttRequest>> /\ toServer = <<>>
     \/ toClient = <<>> /\ toServer = <<Pdu("RttResponse", smcs.message, skey)>>

\* ... or the license and the request for multitransport, ...
Bootstrapping ==
  /\ "FECR" \in sset.flags
  /\ sstate = "MULTITRANSPORT_BOOTSTRAPPING_RESPONSE" /\ skey = ckey
  /\ \/ /\ cstate \in {"CONNECT_TIME_AUTO_DETECT_REQUEST", "LICENSING"}
        /\ toClient = <<ValidClient, MultitransportRequest>> /\ toServer = <<>>
     \/ /\ cstate = "MULTITRANSPORT_BOOTSTRAPPING_REQUEST"
        /\ toClient = <<MultitransportRequest>> /\ toServer = <<>>
     \/ /\ cstate = "MULTITRANSPORT_BOOTSTRAPPING_REQUEST"
        /\ toClient = <<>>
        /\ toServer = <<Pdu("MultitransportResponse", smcs.message, skey)>>

\* ... or the license and Demand Active.
Demanding ==
  /\ sstate = "MONITOR_LAYOUT" /\ skey = ckey /\ toServer = <<>>
  /\ \/ /\ cstate \in {"CONNECT_TIME_AUTO_DETECT_REQUEST", "LICENSING"}
        /\ toClient = <<ValidClient, DemandActivePdu>>
     \/ /\ cstate \in {"MULTITRANSPORT_BOOTSTRAPPING_REQUEST", "DEMAND_ACTIVE"}
        /\ toClient = <<DemandActivePdu>>
     \/ cstate = "CONFIRM_ACTIVE" /\ toClient = <<>>

Joined ==
  /\ Agreed
  /\ ClientAttached(Range(Order(cset)))
  /\ ServerAttached(Range(Order(cset)))
  /\ ckey = KeyOf(sset)
  /\ Securing \/ Detecting \/ Bootstrapping \/ Demanding

ServerSettingsType ==
  [rdp : BOOLEAN, level : Levels, methods : SUBSET Methods, autodetect : BOOLEAN,
   skipJoin : BOOLEAN, multi : BOOLEAN, flags : SUBSET Transports]

\* The settings of the two sides at any time, and once the server has merged those
\* of the client.
SettingsInv ==
  /\ cset \in ClientSettingsType
  /\ sset \in ServerSettingsType
  /\ "FECR" \in cset.flags => MessageChannelBlock(cset)
  /\ sset.rdp <=> sset.level # "NONE"
  /\ sset.rdp => cset.rdp
  /\ sstate # "MCS_CREATE_REQUEST" =>
       /\ sset.autodetect => cset.autodetect
       /\ sset.flags \subseteq cset.flags
       /\ ValidCryptoConfig(sset)

IInv ==
  /\ SettingsInv
  /\ \/ Starting /\ ckey = {} /\ skey = {}
     \/ Responding /\ ckey = {} /\ skey = {}
     \/ Attaching /\ ckey = {} /\ skey = {}
     \/ Joining /\ ckey = {} /\ skey = {}
     \/ Joined
=============================================================================
