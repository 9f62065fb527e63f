---------------------------- MODULE Negotiation ----------------------------
(***************************************************************************)
(* Protocol security negotiation between a client (libfreerdp/core/nego.c, *)
(* nego_connect and the nego_attempt_* functions) and the FreeRDP server   *)
(* (rdp_server_accept_nego in connection.c), from the first TCP connection *)
(* to the point where both continue with the MCS Connect Initial PDU: the  *)
(* handshake of the selected security layer is taken message by message,   *)
(* since each side leaves it at its own time and NLA goes on after         *)
(* nego_connect has returned.                                              *)
(*                                                                         *)
(* The client tries its enabled protocols from the strongest to the        *)
(* weakest.  Each try uses a TCP connection of its own, and each           *)
(* connection is a peer of its own on the server, so an abandoned peer     *)
(* runs concurrently with the next try.  A protocol word                   *)
(* (requestedProtocols, selectedProtocol) is the set of its bits; the      *)
(* empty word is PROTOCOL_RDP.                                             *)
(***************************************************************************)
EXTENDS Naturals

CONSTANTS
    ClientSettings,  \* sets of protocols a client may have enabled
    ServerSettings,  \* sets of protocols a server may have enabled
    MaxConns,        \* bound: TCP connections of one nego_connect
    MaxLosses        \* bound: connections lost by the network

(***************************************************************************)
(* Bits of nego.h.  "RDP" is a setting (RdpSecurity) and not a bit.        *)
(***************************************************************************)
Bits == {"SSL", "HYBRID", "RDSTLS", "HYBRID_EX", "RDSAAD"}
Settings == Bits \cup {"RDP"}
Conns == 1..MaxConns

ASSUME BoundsAssumption == MaxConns \in Nat /\ MaxLosses \in Nat
ASSUME SettingsAssumption ==
    /\ ClientSettings \subseteq SUBSET Settings
    /\ ServerSettings \subseteq SUBSET {"RDSTLS", "HYBRID", "SSL", "RDP"}

VARIABLES
    enabled,       \* client: nego->EnabledProtocols
    nego,          \* client: nego->state
    pc,            \* client: where nego_connect, and NLA after it, stands
    selected,      \* client: nego->SelectedProtocol
    sendNegoData,  \* client: nego->sendNegoData
    conn,          \* client: number of the current TCP connection
    server,        \* server: RdstlsSecurity, NlaSecurity, TlsSecurity, RdpSecurity
    legacy,        \* server: TRUE for a server that knows no negotiation
    up,            \* per connection: "idle", "open" or "closed"
    request,       \* per connection: the Connection Request
    reply,         \* per connection: the Connection Confirm
    hello,         \* per connection: the security layer the client starts
    sent,          \* per connection: how far the client's half of its handshake is
    answer,        \* per connection: how far the server's half is
    peer,          \* per connection: state of the server's peer
    losses,        \* connections lost so far
    denied         \* TRUE once one side has refused to go on

clientVars == <<enabled, nego, pc, selected, sendNegoData, conn>>
shakeVars == <<hello, sent, answer>>
vars == <<clientVars, server, legacy, up, request, reply, shakeVars, peer, losses, denied>>

NegoStates == {"AAD", "RDSTLS", "EXT", "NLA", "TLS", "RDP", "FINAL", "FAIL"}
Layers == {"rdp", "tls", "nla", "rdstls", "aad", "none"}
Confirms == [type : {"PENDING", "RSP", "FAILURE", "NONE"}, word : SUBSET Bits]

(***************************************************************************)
(* The client.                                                             *)
(***************************************************************************)

\* RequestedProtocols of the try made in a state (nego_attempt_*).
Requested(s) ==
    CASE s = "AAD"    -> {"RDSAAD"}
      [] s = "RDSTLS" -> {"RDSTLS", "SSL"}
      [] s = "EXT"    -> {"HYBRID", "SSL", "HYBRID_EX"}
      [] s = "NLA"    -> {"HYBRID", "SSL"}
      [] s = "TLS"    -> {"SSL"}
      [] OTHER        -> {}

\* Mutation of Weaker: the TLS try ends the negotiation.
Weaker_TlsLast(s) ==
    IF s \in {"AAD", "RDSTLS", "EXT", "NLA"} THEN {"EXT", "NLA", "TLS", "RDP"} ELSE {}

\* Mutation of Weaker: a refused NLA try is repeated.
Weaker_Again(s) ==
    CASE s \in {"AAD", "RDSTLS"} -> {"EXT", "NLA", "TLS", "RDP"}
      [] s \in {"EXT", "NLA"} -> {"NLA", "TLS", "RDP"}
      [] s = "TLS" -> {"RDP"}
      [] OTHER     -> {}

\* The protocols a try of a state may fall back to.
Weaker(s) ==
    CASE s \in {"AAD", "RDSTLS"} -> {"EXT", "NLA", "TLS", "RDP"}
      [] s = "EXT" -> {"NLA", "TLS", "RDP"}
      [] s = "NLA" -> {"TLS", "RDP"}
      [] s = "TLS" -> {"RDP"}
      [] OTHER     -> {}

\* The state after a try that did not end in NEGO_STATE_FINAL: the strongest of
\* the weaker protocols that is enabled.
Fallback(s, e) ==
    LET Open(t, p) == t \in Weaker(s) /\ p \in e
    IN  IF Open("EXT", "HYBRID_EX") THEN "EXT"
        ELSE IF Open("NLA", "HYBRID") THEN "NLA"
        ELSE IF Open("TLS", "SSL") THEN "TLS"
        ELSE IF Open("RDP", "RDP") THEN "RDP"
        ELSE "FAIL"

\* The strongest enabled protocol decides the first state (nego_connect).
FirstState(e) ==
    IF "RDSAAD" \in e THEN "AAD"
    ELSE IF "RDSTLS" \in e THEN "RDSTLS"
    ELSE Fallback("RDSTLS", e)

\* Mutation of Accepts: what the server selected is not compared with what is enabled.
Accepts_Any(e, m) == m.type = "RSP" \/ (m.type = "NONE" /\ "RDP" \in e)

\* nego_recv: the client accepts a confirm that selects what it has enabled.
\* RDSTLS and HYBRID_EX are not tested.
Accepts(e, m) ==
    CASE m.type = "RSP" ->
            /\ m.word = {} => "RDP" \in e
            /\ m.word = {"SSL"} => "SSL" \in e
            /\ m.word = {"HYBRID"} => "HYBRID" \in e
            /\ m.word = {"RDSAAD"} => "RDSAAD" \in e
      [] m.type = "NONE" -> "RDP" \in e
      [] OTHER -> FALSE

\* nego_try_connect: the layer of the selected protocol, "none" for a word that
\* is no protocol.
Layer(w) ==
    CASE w = {} -> "rdp"
      [] w = {"SSL"} -> "tls"
      [] w \in {{"HYBRID"}, {"HYBRID_EX"}} -> "nla"
      [] w = {"RDSTLS"} -> "rdstls"
      [] w = {"RDSAAD"} -> "aad"
      [] OTHER -> "none"

\* One try: connect and send the request, with RDP_NEG_REQ unless it is a plain
\* RDP request (nego_send_negotiation_request).
Attempt ==
    /\ pc = "attempt" /\ nego # "FAIL" /\ conn < MaxConns
    /\ conn' = conn + 1
    /\ up' = [up EXCEPT ![conn + 1] = "open"]
    /\ request' = [request EXCEPT ![conn + 1] =
            [negData |-> Requested(nego) # {} \/ sendNegoData,
             word |-> Requested(nego)]]
    /\ peer' = [peer EXCEPT ![conn + 1] = "NEGO"]
    /\ pc' = "recv"
    /\ UNCHANGED <<enabled, nego, selected, sendNegoData, server, legacy, reply, shakeVars,
                   losses, denied>>

\* nego_recv_response took a confirm that ends the negotiation: nego_connect goes
\* on with nego_security_connect.
RecvFinal ==
    /\ pc = "recv" /\ reply[conn].type # "PENDING"
    /\ Accepts(enabled, reply[conn])
    /\ selected' = IF reply[conn].type = "RSP" THEN reply[conn].word ELSE selected
    /\ nego' = "FINAL"
    /\ pc' = "secure"
    /\ UNCHANGED <<enabled, sendNegoData, conn, server, legacy, up, request, reply,
                   shakeVars, peer, losses, denied>>

\* Mutation of RecvRefused: the fallback opens the next connection without closing this one.
RecvRefused_KeepsOpen ==
    /\ pc = "recv" /\ reply[conn].type # "PENDING"
    /\ ~Accepts(enabled, reply[conn])
    /\ nego' = Fallback(nego, enabled)
    /\ pc' = IF nego' = "FAIL" THEN "failed" ELSE "attempt"
    /\ UNCHANGED <<enabled, conn, selected, sendNegoData, up, server, legacy, request, reply,
                   shakeVars, peer, losses, denied>>

\* nego_recv_response took a refusal, or a protocol the client has not enabled:
\* disconnect and fall back.  The last try, RDP, leaves the connection open.
RecvRefused ==
    /\ pc = "recv" /\ reply[conn].type # "PENDING"
    /\ ~Accepts(enabled, reply[conn])
    /\ selected' = IF reply[conn].type = "RSP" THEN reply[conn].word ELSE selected
    /\ sendNegoData' = (sendNegoData \/ reply[conn] = [type |-> "FAILURE", word |-> {"HYBRID"}])
    /\ nego' = Fallback(nego, enabled)
    /\ up' = IF nego = "RDP" THEN up ELSE [up EXCEPT ![conn] = "closed"]
    /\ pc' = IF nego' = "FAIL" THEN "failed" ELSE "attempt"
    /\ UNCHANGED <<enabled, conn, server, legacy, request, reply, shakeVars, peer, losses,
                   denied>>

\* The connection broke before the confirm arrived: no further try is made.
RecvError ==
    /\ pc = "recv" /\ up[conn] = "closed"
    /\ nego' = "FAIL" /\ pc' = "failed"
    /\ UNCHANGED <<enabled, selected, sendNegoData, conn, server, legacy, up, request, reply,
                   shakeVars, peer, losses, denied>>

\* nego_try_connect: plain RDP has no handshake, all other layers begin with the
\* first message of TLS.
StartSecurity ==
    /\ pc = "secure"
    /\ LET layer == Layer(selected)
       IN  /\ hello' = [hello EXCEPT ![conn] = layer]
           /\ sent' = IF layer \in {"rdp", "none"} THEN sent ELSE [sent EXCEPT ![conn] = "hello"]
           /\ pc' = CASE layer = "rdp" -> "connected"
                      [] layer = "none" -> "failed"
                      [] OTHER -> "handshake"
    /\ UNCHANGED <<enabled, nego, selected, sendNegoData, conn, server, legacy, up, request,
                   reply, answer, peer, losses, denied>>

\* transport_connect_tls has the server's half of TLS and sends the end of its own.
\* For TLS that is all; transport_connect_nla begins NLA (nla_client_begin) and
\* returns, transport_connect_rdstls goes on (rdstls_authenticate).
Secured ==
    /\ pc = "handshake" /\ sent[conn] = "hello" /\ answer[conn] = "tls"
    /\ sent' = [sent EXCEPT ![conn] = IF hello[conn] = "tls" THEN "done" ELSE "auth"]
    /\ pc' = CASE hello[conn] = "tls" -> "connected"
               [] hello[conn] = "rdstls" -> pc
               [] OTHER -> "auth"
    /\ UNCHANGED <<enabled, nego, selected, sendNegoData, conn, server, legacy, up, request,
                   reply, hello, answer, peer, losses, denied>>

\* The authentication response of RDSTLS, after which the client returns, or the
\* one of NLA, to which it sends the credentials before it goes on with MCS.
Authenticated ==
    /\ pc \in {"handshake", "auth"} /\ sent[conn] = "auth" /\ answer[conn] = "ok"
    /\ sent' = [sent EXCEPT ![conn] = "done"]
    /\ pc' = "connected"
    /\ UNCHANGED <<enabled, nego, selected, sendNegoData, conn, server, legacy, up, request,
                   reply, hello, answer, peer, losses, denied>>

\* The connection broke during the handshake.
SecureFails ==
    /\ pc \in {"handshake", "auth"} /\ up[conn] = "closed"
    /\ pc' = "failed"
    /\ UNCHANGED <<enabled, nego, selected, sendNegoData, conn, server, legacy, up, request,
                   reply, shakeVars, peer, losses, denied>>

\* The client stops: the user cancels the password prompt of RDP or TLS, does not
\* trust the certificate, or what the server sent of NLA or RDSTLS is wrong.
GiveUp ==
    /\ \/ pc = "secure" /\ Layer(selected) \in {"rdp", "tls"}
       \/ pc \in {"handshake", "auth"} /\ answer[conn] # "none"
    /\ pc' = "failed" /\ denied' = TRUE
    /\ UNCHANGED <<enabled, nego, selected, sendNegoData, conn, server, legacy, up, request,
                   reply, shakeVars, peer, losses>>

\* The application gives up on a failed connect: rdp_client_disconnect.
Disconnect ==
    /\ pc = "failed" /\ conn > 0 /\ up[conn] = "open"
    /\ up' = [up EXCEPT ![conn] = "closed"]
    /\ UNCHANGED <<clientVars, server, legacy, request, reply, shakeVars, peer, losses, denied>>

(***************************************************************************)
(* The server.                                                             *)
(***************************************************************************)

\* Mutation of Select: TLS is preferred to NLA.
Select_TlsFirst(srv, w) ==
    IF "RDSTLS" \in srv \cap w THEN {"RDSTLS"}
    ELSE IF "SSL" \in srv \cap w THEN {"SSL"}
    ELSE IF "HYBRID" \in srv \cap w THEN {"HYBRID"} ELSE {}

\* The selection of rdp_server_accept_nego: RDSTLS, NLA, TLS, RDP.
Select(srv, w) ==
    IF "RDSTLS" \in srv \cap w THEN {"RDSTLS"}
    ELSE IF "HYBRID" \in srv \cap w THEN {"HYBRID"}
    ELSE IF "SSL" \in srv \cap w THEN {"SSL"}
    ELSE {}

Selects(srv, w) == srv \cap w # {} \/ (w = {} /\ "RDP" \in srv)

\* The failure code shares the word with PROTOCOL_FAILED_NEGO, so it is seen as
\* protocol bits: SSL_NOT_ALLOWED_BY_SERVER (2), HYBRID_REQUIRED_BY_SERVER (5),
\* SSL_REQUIRED_BY_SERVER (1).
FailureCode(srv) ==
    IF "RDP" \in srv THEN {"HYBRID"}
    ELSE IF "HYBRID" \in srv /\ "SSL" \notin srv THEN {"SSL", "RDSTLS"}
    ELSE {"SSL"}

Confirm(srv, w) ==
    IF Selects(srv, w)
    THEN [type |-> "RSP", word |-> Select(srv, w)]
    ELSE [type |-> "FAILURE", word |-> FailureCode(srv)]

\* Mutation of AcceptLayer: whatever is no enhanced protocol is taken for plain RDP.
AcceptLayer_Default(m) ==
    IF m.type = "FAILURE" THEN "rdp"
    ELSE IF m.word = {"RDSTLS"} THEN "rdstls"
    ELSE IF m.word = {"HYBRID"} THEN "nla"
    ELSE IF m.word = {"SSL"} THEN "tls" ELSE "rdp"

\* The transport_accept_* call made after the confirm was sent.  The tests are
\* made on the whole word, so a refusal enters an accept function as well.
AcceptLayer(m) ==
    IF "RDSTLS" \in m.word THEN "rdstls"
    ELSE IF "HYBRID" \in m.word THEN "nla"
    ELSE IF "SSL" \in m.word THEN "tls"
    ELSE "rdp"

\* The confirm to the request of a connection
Answer(c) == Confirm(server, IF request[c].negData THEN request[c].word ELSE {})

\* The NEGO state of the peer: read the request, send the confirm, enter the
\* accept function.  transport_accept_rdp returns at once.
AcceptNego(c) ==
    /\ peer[c] = "NEGO" /\ up[c] = "open" /\ ~legacy
    /\ reply' = [reply EXCEPT ![c] = Answer(c)]
    /\ peer' = [peer EXCEPT ![c] = IF AcceptLayer(Answer(c)) = "rdp" THEN "MCS" ELSE "ACCEPT"]
    /\ UNCHANGED <<clientVars, server, legacy, up, request, shakeVars, losses, denied>>

\* nego_send_negotiation_response fails after the confirm is sent: plain RDP was
\* selected by a server that has no RSA key.
AcceptNoKey(c) ==
    /\ peer[c] = "NEGO" /\ up[c] = "open" /\ ~legacy
    /\ Answer(c) = [type |-> "RSP", word |-> {}]
    /\ reply' = [reply EXCEPT ![c] = Answer(c)]
    /\ peer' = [peer EXCEPT ![c] = "GONE"]
    /\ up' = [up EXCEPT ![c] = "closed"]
    /\ denied' = TRUE
    /\ UNCHANGED <<clientVars, server, legacy, request, shakeVars, losses>>

\* A server that knows no negotiation answers without RDP_NEG_DATA (external).
AcceptLegacy(c) ==
    /\ peer[c] = "NEGO" /\ up[c] = "open" /\ legacy
    /\ reply' = [reply EXCEPT ![c] = [type |-> "NONE", word |-> {}]]
    /\ peer' = [peer EXCEPT ![c] = "MCS"]
    /\ UNCHANGED <<clientVars, server, legacy, up, request, shakeVars, losses, denied>>

\* All accept functions but transport_accept_rdp begin with TLS (TLSAccept), whatever
\* was confirmed or refused.
AcceptTls(c) ==
    /\ peer[c] = "ACCEPT" /\ up[c] = "open"
    /\ sent[c] = "hello" /\ answer[c] = "none"
    /\ answer' = [answer EXCEPT ![c] = "tls"]
    /\ UNCHANGED <<clientVars, server, legacy, up, request, reply, hello, sent, peer, losses,
                   denied>>

\* The server's answer in NLA or RDSTLS.  transport_accept_rdstls returns with it.
AcceptAuth(c) ==
    /\ peer[c] = "ACCEPT" /\ up[c] = "open"
    /\ sent[c] = "auth" /\ answer[c] = "tls"
    /\ hello[c] = AcceptLayer(reply[c]) /\ hello[c] \in {"nla", "rdstls"}
    /\ answer' = [answer EXCEPT ![c] = "ok"]
    /\ peer' = IF hello[c] = "rdstls" THEN [peer EXCEPT ![c] = "MCS"] ELSE peer
    /\ UNCHANGED <<clientVars, server, legacy, up, request, reply, hello, sent, losses, denied>>

\* transport_accept_tls returns when the client has sent its half of TLS,
\* transport_accept_nla when it has the client's credentials.
AcceptDone(c) ==
    /\ peer[c] = "ACCEPT" /\ up[c] = "open"
    /\ \/ AcceptLayer(reply[c]) = "tls" /\ sent[c] \in {"auth", "done"}
       \/ AcceptLayer(reply[c]) = "nla" /\ sent[c] = "done" /\ answer[c] = "ok"
    /\ peer' = [peer EXCEPT ![c] = "MCS"]
    /\ UNCHANGED <<clientVars, server, legacy, up, request, reply, shakeVars, losses, denied>>

\* The accept function fails: TLS, or the credentials were refused.
AcceptDenied(c) ==
    /\ peer[c] = "ACCEPT" /\ up[c] = "open" /\ sent[c] # "none"
    /\ peer' = [peer EXCEPT ![c] = "GONE"]
    /\ up' = [up EXCEPT ![c] = "closed"]
    /\ denied' = TRUE
    /\ UNCHANGED <<clientVars, server, legacy, request, reply, shakeVars, losses>>

\* The peer finds its connection closed, in any state.
PeerClosed(c) ==
    /\ peer[c] \in {"NEGO", "ACCEPT", "MCS"} /\ up[c] = "closed"
    /\ peer' = [peer EXCEPT ![c] = "GONE"]
    /\ UNCHANGED <<clientVars, server, legacy, up, request, reply, shakeVars, losses, denied>>

\* The network loses a connection.
Lose(c) ==
    /\ up[c] = "open" /\ losses < MaxLosses
    /\ up' = [up EXCEPT ![c] = "closed"]
    /\ losses' = losses + 1
    /\ UNCHANGED <<clientVars, server, legacy, request, reply, shakeVars, peer, denied>>

-----------------------------------------------------------------------------
Init ==
    /\ enabled \in ClientSettings
    /\ nego = FirstState(enabled)
    /\ pc = IF nego = "FAIL" THEN "failed" ELSE "attempt"
    /\ selected = {} /\ sendNegoData = FALSE /\ conn = 0
    /\ server \in ServerSettings
    /\ legacy \in BOOLEAN /\ (legacy => server = {"RDP"})
    /\ up = [c \in Conns |-> "idle"]
    /\ request = [c \in Conns |-> [negData |-> FALSE, word |-> {}]]
    /\ reply = [c \in Conns |-> [type |-> "PENDING", word |-> {}]]
    /\ hello = [c \in Conns |-> "none"]
    /\ sent = [c \in Conns |-> "none"] /\ answer = [c \in Conns |-> "none"]
    /\ peer = [c \in Conns |-> "idle"]
    /\ losses = 0 /\ denied = FALSE

Client ==
    \/ Attempt \/ RecvFinal \/ RecvRefused \/ RecvError
    \/ StartSecurity \/ Secured \/ Authenticated \/ SecureFails \/ Disconnect

Peer(c) ==
    \/ AcceptNego(c) \/ AcceptLegacy(c) \/ AcceptTls(c) \/ AcceptAuth(c) \/ AcceptDone(c)
    \/ PeerClosed(c)

\* What nobody has to do
Refuse == GiveUp \/ \E c \in Conns : AcceptNoKey(c) \/ AcceptDenied(c)

Next == Client \/ Refuse \/ \E c \in Conns : Peer(c) \/ Lose(c)

Spec == Init /\ [][Next]_vars

(***************************************************************************)
(* The client runs nego_connect, and NLA, to its end and its application   *)
(* closes a failed connection; every peer has a thread that reads its      *)
(* connection.  Nothing forces the network to lose a connection, or one    *)
(* side to refuse the other.                                               *)
(***************************************************************************)
FairSpec == Spec /\ WF_vars(Client) /\ \A c \in Conns : WF_vars(Peer(c))

-----------------------------------------------------------------------------
(***************************************************************************)
(* Types of the state of nego.c and of the server's peers.                 *)
(***************************************************************************)
TypeOK ==
    /\ enabled \in ClientSettings /\ server \in ServerSettings
    /\ nego \in NegoStates
    /\ pc \in {"attempt", "recv", "secure", "handshake", "auth", "connected", "failed"}
    /\ selected \in SUBSET Bits
    /\ sendNegoData \in BOOLEAN /\ legacy \in BOOLEAN /\ denied \in BOOLEAN
    /\ conn \in 0..MaxConns /\ losses \in 0..MaxLosses
    /\ up \in [Conns -> {"idle", "open", "closed"}]
    /\ request \in [Conns -> [negData : BOOLEAN, word : SUBSET Bits]]
    /\ reply \in [Conns -> Confirms]
    /\ hello \in [Conns -> Layers]
    /\ sent \in [Conns -> {"none", "hello", "auth", "done"}]
    /\ answer \in [Conns -> {"none", "tls", "ok"}]
    /\ peer \in [Conns -> {"idle", "NEGO", "ACCEPT", "MCS", "GONE"}]

\* The setting that enables a selected word.
SettingOf(w) ==
    CASE w = {} -> "RDP" [] w = {"SSL"} -> "SSL" [] w = {"HYBRID"} -> "HYBRID" [] OTHER -> "RDSTLS"

Common(p) == p \in enabled \cap server

\* When nego_connect returns TRUE (NLA goes on from there), the peer of that very
\* connection, not one of an abandoned try, has confirmed the same protocol and runs
\* or has run the same handshake, and both sides have that protocol enabled,
\* although a try asks for more than is enabled (RDSTLS and NLA tries always offer
\* TLS).  The peer may still refuse a client that has left TLS or NLA, it has
\* accepted one that has left RDP or RDSTLS.
AgreedProtocol ==
    pc \in {"auth", "connected"} =>
        /\ reply[conn].type \in {"RSP", "NONE"}
        /\ selected = reply[conn].word
        /\ selected \in {{}, {"SSL"}, {"HYBRID"}, {"RDSTLS"}}
        /\ Common(SettingOf(selected))
        /\ hello[conn] = AcceptLayer(reply[conn])
        /\ peer[conn] \in {"ACCEPT", "MCS", "GONE"}
        /\ selected \in {{}, {"RDSTLS"}} => peer[conn] # "ACCEPT"

\* Of all the peers a client of nego.c leaves behind on the server, refused,
\* abandoned or unanswered, none goes on to MCS but the one of the last try, and
\* that one only with the handshake the client has run, although
\* rdp_server_accept_nego enters an accept function after a refusal as well and
\* TLS is accepted whatever was confirmed.
OnlyLastServed ==
    \A c \in Conns : peer[c] = "MCS" /\ ~legacy =>
        /\ c = conn /\ reply[c].type = "RSP"
        /\ reply[c].word # {} => sent[c] # "none" /\ hello[c] = AcceptLayer(reply[c])

\* The fallback misses nothing: nego_connect fails on a sound network only when
\* client and server have no protocol in common.  After AAD, RDSTLS is not tried.
NothingMissed ==
    pc = "failed" /\ losses = 0 /\ ~denied =>
        /\ ~Common("HYBRID") /\ ~Common("SSL") /\ ~Common("RDP")
        /\ "RDSAAD" \notin enabled => ~Common("RDSTLS")

\* Falling back never settles for less: the protocol is the strongest one both
\* sides enable.  The RDSTLS try is the exception: it offers TLS and not NLA, so
\* a server with NLA and TLS settles for TLS.
StrongestCommon ==
    pc \in {"auth", "connected"} /\ ~legacy /\ "RDSTLS" \notin enabled =>
        /\ Common("HYBRID") => selected = {"HYBRID"}
        /\ ~Common("HYBRID") /\ Common("SSL") => selected = {"SSL"}

-----------------------------------------------------------------------------
(***************************************************************************)
(* The strengthening that makes the safety properties inductive.           *)
(***************************************************************************)
Tries == {"AAD", "RDSTLS", "EXT", "NLA", "TLS", "RDP"}

\* The setting without which nego_connect does not enter a state.
Needs(s) ==
    CASE s = "AAD" -> "RDSAAD" [] s = "RDSTLS" -> "RDSTLS" [] s = "EXT" -> "HYBRID_EX"
      [] s = "NLA" -> "HYBRID" [] s = "TLS" -> "SSL" [] OTHER -> "RDP"

\* What a try that is under way rules out: the stronger protocols are not shared.
RuledOut(s) ==
    /\ s = "RDSTLS" => "RDSAAD" \notin enabled
    /\ s \in {"EXT", "NLA", "TLS", "RDP"} /\ "RDSAAD" \notin enabled => ~Common("RDSTLS")
    /\ s \in {"TLS", "RDP"} => ~Common("HYBRID")
    /\ s = "RDP" => ~Common("SSL")

\* The client while it tries.
TryInv ==
    pc \in {"attempt", "recv"} => nego \in Tries /\ Needs(nego) \in enabled /\ RuledOut(nego)

\* The connection of the try that is under way.
RecvInv ==
    pc = "recv" =>
        /\ conn \in Conns
        /\ request[conn].word = Requested(nego)
        /\ up[conn] = "closed" => losses > 0 \/ denied

\* The connection the client secures.
SecureInv ==
    pc \in {"secure", "handshake", "auth", "connected"} =>
        /\ conn \in Conns
        /\ reply[conn].type \in {"RSP", "NONE"} /\ Accepts(enabled, reply[conn])
        /\ selected = reply[conn].word
        /\ hello[conn] = IF pc = "secure" THEN "none" ELSE Layer(selected)
        /\ up[conn] = "closed" => losses > 0 \/ denied
        /\ "RDSTLS" \notin enabled /\ ~legacy =>
              /\ Common("HYBRID") => selected = {"HYBRID"}
              /\ ~Common("HYBRID") /\ Common("SSL") => selected = {"SSL"}
        /\ "RDSTLS" \notin enabled => selected # {"RDSTLS"}
        /\ pc = "handshake" => selected # {}
        /\ pc = "auth" => selected = {"HYBRID"}
        /\ pc = "connected" /\ selected = {"RDSTLS"} => answer[conn] = "ok"

\* Every connection, abandoned ones included.
ConnInv ==
    \A c \in Conns :
        /\ c > conn => peer[c] = "idle" /\ up[c] = "idle"
        /\ peer[c] \in {"idle", "NEGO"} => reply[c].type = "PENDING"
        /\ reply[c].type = "PENDING" => peer[c] \notin {"ACCEPT", "MCS"}
        /\ reply[c].type \in {"RSP", "FAILURE"} =>
              ~legacy /\ reply[c] = Confirm(server, request[c].word)
        /\ reply[c].type = "NONE" => legacy /\ reply[c].word = {} /\ peer[c] # "ACCEPT"
        /\ reply[c].type = "RSP" /\ reply[c].word = {} => peer[c] # "ACCEPT"
        /\ ~request[c].negData => request[c].word = {}

\* The handshakes: one is begun for the last try only, and a plain RDP try is the
\* last one.
ShakeInv ==
    \A c \in Conns :
        /\ hello[c] # "none" \/ sent[c] # "none" =>
              /\ c = conn /\ pc \notin {"attempt", "recv", "secure"}
              /\ reply[c].type \in {"RSP", "NONE"}
              /\ hello[c] = AcceptLayer(reply[c])
        /\ sent[c] = "none" => answer[c] = "none"
        /\ request[c].word = {} /\ peer[c] # "idle" => c = conn /\ pc # "attempt"
        /\ answer[c] = "ok" /\ hello[c] = "rdstls" => peer[c] # "ACCEPT"
        /\ peer[c] = "MCS" /\ ~legacy =>
              reply[c].type = "RSP" /\ (reply[c].word = {} \/ sent[c] # "none")

IInv ==
    /\ TypeOK
    /\ legacy => server = {"RDP"} /\ selected = {}
    /\ TryInv /\ RecvInv /\ SecureInv /\ ConnInv /\ ShakeInv
    /\ NothingMissed

-----------------------------------------------------------------------------
\* nego_connect returns, and NLA ends.
NegotiationEnds == <>(pc \in {"connected", "failed"})

\* No abandoned try leaves a peer of the server behind in a blocking accept: the
\* peer goes on with the session or ends.
NoPeerLeftBehind ==
    \A c \in Conns : peer[c] \in {"NEGO", "ACCEPT"} ~> peer[c] \in {"MCS", "GONE"}

=============================================================================
