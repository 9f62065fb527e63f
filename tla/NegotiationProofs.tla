------------------------ MODULE NegotiationProofs ------------------------
(***************************************************************************)
(* Proofs about Negotiation: for every set of settings on both sides, any  *)
(* number of connections and any number of losses.                         *)
(***************************************************************************)
EXTENDS Negotiation, TLAPS

ServerBits == {"RDSTLS", "HYBRID", "SSL", "RDP"}

-----------------------------------------------------------------------------
(* What the operators of the two sides compute.                            *)

\* The confirm of the server: a single protocol that was asked for and is enabled,
\* or a failure code, which is never the empty word.
LEMMA ConfirmType ==
    ASSUME NEW srv \in SUBSET ServerBits, NEW w \in SUBSET Bits
    PROVE  /\ Confirm(srv, w) \in Confirms
           /\ Confirm(srv, w).type \in {"RSP", "FAILURE"}
           /\ Confirm(srv, w).type = "FAILURE" => Confirm(srv, w).word # {}
           /\ Confirm(srv, w).type = "RSP" =>
                 \/ Confirm(srv, w).word = {} /\ w = {} /\ "RDP" \in srv
                 \/ \E b \in {"SSL", "HYBRID", "RDSTLS"} :
                       Confirm(srv, w).word = {b} /\ b \in srv /\ b \in w
<1>1. Select(srv, w) \in SUBSET Bits /\ FailureCode(srv) \in SUBSET Bits /\ FailureCode(srv) # {}
  BY DEF Select, FailureCode, Bits
<1>2. ASSUME Selects(srv, w)
      PROVE  \/ Select(srv, w) = {} /\ w = {} /\ "RDP" \in srv
             \/ \E b \in {"SSL", "HYBRID", "RDSTLS"} : Select(srv, w) = {b} /\ b \in srv /\ b \in w
  <2>1. CASE "RDSTLS" \in srv \cap w
    BY <2>1 DEF Select
  <2>2. CASE "RDSTLS" \notin srv \cap w /\ "HYBRID" \in srv \cap w
    BY <2>2 DEF Select
  <2>3. CASE "RDSTLS" \notin srv \cap w /\ "HYBRID" \notin srv \cap w /\ "SSL" \in srv \cap w
    BY <2>3 DEF Select
  <2>4. CASE "RDSTLS" \notin srv \cap w /\ "HYBRID" \notin srv \cap w /\ "SSL" \notin srv \cap w
    <3>1. srv \cap w = {}
      BY <2>4 DEF ServerBits, Bits
    <3>2. w = {} /\ "RDP" \in srv
      BY <1>2, <3>1 DEF Selects
    <3> QED BY <2>4, <3>2 DEF Select
  <2> QED BY <2>1, <2>2, <2>3, <2>4
<1>3. CASE Selects(srv, w)
  <2>1. Confirm(srv, w) = [type |-> "RSP", word |-> Select(srv, w)]
    BY <1>3 DEF Confirm
  <2>2. Confirm(srv, w).type = "RSP" /\ Confirm(srv, w).word = Select(srv, w)
    BY <2>1
  <2>3. Confirm(srv, w) \in Confirms
    BY <1>1, <2>1 DEF Confirms
  <2> QED BY <1>2, <1>3, <2>2, <2>3
<1>4. CASE ~Selects(srv, w)
  <2>1. Confirm(srv, w) = [type |-> "FAILURE", word |-> FailureCode(srv)]
    BY <1>4 DEF Confirm
  <2>2. Confirm(srv, w).type = "FAILURE" /\ Confirm(srv, w).word = FailureCode(srv)
    BY <2>1
  <2>3. Confirm(srv, w) \in Confirms
    BY <1>1, <2>1 DEF Confirms
  <2> QED BY <1>1, <2>2, <2>3
<1> QED BY <1>3, <1>4

\* The server prefers RDSTLS to NLA to TLS, and refuses only what it has not enabled.
LEMMA ConfirmPrefers ==
    ASSUME NEW srv \in SUBSET ServerBits, NEW w \in SUBSET Bits
    PROVE  /\ "RDSTLS" \in srv /\ "RDSTLS" \in w =>
                 Confirm(srv, w).type = "RSP" /\ Confirm(srv, w).word = {"RDSTLS"}
           /\ "HYBRID" \in srv /\ "HYBRID" \in w /\ "RDSTLS" \notin w =>
                 Confirm(srv, w).type = "RSP" /\ Confirm(srv, w).word = {"HYBRID"}
           /\ "SSL" \in srv /\ w = {"SSL"} =>
                 Confirm(srv, w).type = "RSP" /\ Confirm(srv, w).word = {"SSL"}
           /\ "SSL" \in srv /\ "SSL" \in w /\ "RDSTLS" \notin w =>
                 Confirm(srv, w).type = "RSP" /\ Confirm(srv, w).word \in {{"SSL"}, {"HYBRID"}}
           /\ "RDP" \in srv /\ w = {} =>
                 Confirm(srv, w).type = "RSP" /\ Confirm(srv, w).word = {}
<1>1. Selects(srv, w) => Confirm(srv, w).type = "RSP" /\ Confirm(srv, w).word = Select(srv, w)
  BY DEF Confirm
<1> QED BY <1>1 DEF Selects, Select

LEMMA RequestedType ==
    ASSUME NEW s \in Tries
    PROVE  /\ Requested(s) \in SUBSET Bits
           /\ s # "RDSTLS" => "RDSTLS" \notin Requested(s)
           /\ s \in {"EXT", "NLA"} => {"HYBRID", "SSL"} \subseteq Requested(s)
           /\ s = "RDSTLS" => "RDSTLS" \in Requested(s)
           /\ s = "TLS" => Requested(s) = {"SSL"}
           /\ s = "RDP" => Requested(s) = {}
           /\ s = "AAD" => Requested(s) = {"RDSAAD"}
           /\ Requested(s) = {} => s = "RDP"
BY DEF Requested, Tries, Bits

\* A fallback enters only states of enabled protocols, and passes over one only
\* when it is not enabled.
LEMMA FallbackType ==
    ASSUME NEW s \in Tries, NEW e \in SUBSET Settings
    PROVE  /\ Fallback(s, e) \in {"EXT", "NLA", "TLS", "RDP", "FAIL"}
           /\ Fallback(s, e) # "FAIL" => Needs(Fallback(s, e)) \in e
           /\ Fallback(s, e) \in {"TLS", "RDP", "FAIL"} /\ s \in {"AAD", "RDSTLS", "EXT"}
                 => "HYBRID" \notin e
           /\ Fallback(s, e) \in {"RDP", "FAIL"} /\ s \in {"AAD", "RDSTLS", "EXT", "NLA"}
                 => "SSL" \notin e
           /\ Fallback(s, e) = "FAIL" /\ s # "RDP" => "RDP" \notin e
           /\ s = "NLA" => Fallback(s, e) \in {"TLS", "RDP", "FAIL"}
           /\ s = "TLS" => Fallback(s, e) \in {"RDP", "FAIL"}
           /\ s = "RDP" => Fallback(s, e) = "FAIL"
BY DEF Fallback, Weaker, Needs, Tries

LEMMA FirstType ==
    ASSUME NEW e \in SUBSET Settings
    PROVE  /\ FirstState(e) \in Tries \cup {"FAIL"}
           /\ FirstState(e) # "FAIL" => Needs(FirstState(e)) \in e
           /\ FirstState(e) = "RDSTLS" => "RDSAAD" \notin e
           /\ FirstState(e) \in {"EXT", "NLA", "TLS", "RDP", "FAIL"} =>
                 "RDSTLS" \notin e /\ "RDSAAD" \notin e
           /\ FirstState(e) \in {"TLS", "RDP", "FAIL"} => "HYBRID" \notin e
           /\ FirstState(e) \in {"RDP", "FAIL"} => "SSL" \notin e
           /\ FirstState(e) = "FAIL" => "RDP" \notin e
BY DEF FirstState, Fallback, Weaker, Needs, Tries

LEMMA SettingTypes ==
    TypeOK => enabled \in SUBSET Settings /\ server \in SUBSET ServerBits
BY SettingsAssumption DEF TypeOK, ServerBits

LEMMA LayerValues ==
    /\ Layer({}) = "rdp"
    /\ Layer({"SSL"}) = "tls" /\ Layer({"HYBRID"}) = "nla" /\ Layer({"RDSTLS"}) = "rdstls"
BY DEF Layer

LEMMA AcceptLayerValues ==
    ASSUME NEW m \in Confirms
    PROVE  /\ AcceptLayer(m) \in {"rdp", "tls", "nla", "rdstls"}
           /\ m.word = {} => AcceptLayer(m) = "rdp"
           /\ AcceptLayer(m) = "rdp" =>
                 "SSL" \notin m.word /\ "HYBRID" \notin m.word /\ "RDSTLS" \notin m.word
           /\ m.word = {"SSL"} => AcceptLayer(m) = "tls"
           /\ m.word = {"HYBRID"} => AcceptLayer(m) = "nla"
           /\ m.word = {"RDSTLS"} => AcceptLayer(m) = "rdstls"
BY DEF AcceptLayer

LEMMA AcceptsValues ==
    ASSUME NEW e \in SUBSET Settings, NEW m \in Confirms
    PROVE  /\ Accepts(e, m) => m.type \in {"RSP", "NONE"}
           /\ Accepts(e, m) /\ m.word = {} => "RDP" \in e
           /\ Accepts(e, m) /\ m.type = "RSP" /\ m.word = {"SSL"} => "SSL" \in e
           /\ Accepts(e, m) /\ m.type = "RSP" /\ m.word = {"HYBRID"} => "HYBRID" \in e
           /\ m.type = "RSP" /\ m.word = {"RDSTLS"} => Accepts(e, m)
           /\ m.type = "RSP" /\ m.word = {"HYBRID"} /\ "HYBRID" \in e => Accepts(e, m)
           /\ m.type = "RSP" /\ m.word = {"SSL"} /\ "SSL" \in e => Accepts(e, m)
           /\ m.type = "RSP" /\ m.word = {} /\ "RDP" \in e => Accepts(e, m)
           /\ m.type = "NONE" => (Accepts(e, m) <=> "RDP" \in e)
<1>1. CASE m.type = "RSP"
  <2>1. Accepts(e, m) <=> /\ m.word = {} => "RDP" \in e
                          /\ m.word = {"SSL"} => "SSL" \in e
                          /\ m.word = {"HYBRID"} => "HYBRID" \in e
                          /\ m.word = {"RDSAAD"} => "RDSAAD" \in e
    BY <1>1, Zenon DEF Accepts
  <2> QED BY <1>1, <2>1
<1>2. CASE m.type = "NONE"
  <2>1. Accepts(e, m) <=> "RDP" \in e
    BY <1>2, Zenon DEF Accepts
  <2> QED BY <1>2, <2>1
<1>3. CASE m.type \notin {"RSP", "NONE"}
  <2>1. ~Accepts(e, m)
    BY <1>3, Zenon DEF Accepts
  <2> QED BY <1>3, <2>1
<1> QED BY <1>1, <1>2, <1>3

-----------------------------------------------------------------------------
(* The inductive invariant.                                                *)

LEMMA InitInv == Init => IInv
<1> SUFFICES ASSUME Init PROVE IInv
  OBVIOUS
<1>1. enabled \in SUBSET Settings /\ server \in SUBSET ServerBits
  BY SettingsAssumption DEF Init, ServerBits
<1>2. TypeOK
  <2>1. nego \in NegoStates
    BY <1>1, FirstType DEF Init, NegoStates, Tries
  <2>2. reply \in [Conns -> Confirms]
    BY DEF Init, Confirms
  <2>3. request \in [Conns -> [negData : BOOLEAN, word : SUBSET Bits]]
    BY DEF Init
  <2>4. sendNegoData \in BOOLEAN /\ legacy \in BOOLEAN /\ denied \in BOOLEAN
    BY Zenon DEF Init
  <2>5. conn \in 0..MaxConns /\ losses \in 0..MaxLosses
    BY BoundsAssumption DEF Init
  <2>6. /\ pc \in {"attempt", "recv", "secure", "handshake", "auth", "connected", "failed"}
        /\ selected \in SUBSET Bits
    BY DEF Init
  <2>7. /\ up \in [Conns -> {"idle", "open", "closed"}]
        /\ hello \in [Conns -> Layers]
        /\ sent \in [Conns -> {"none", "hello", "auth", "done"}]
        /\ answer \in [Conns -> {"none", "tls", "ok"}]
        /\ peer \in [Conns -> {"idle", "NEGO", "ACCEPT", "MCS", "GONE"}]
        /\ enabled \in ClientSettings /\ server \in ServerSettings
    BY DEF Init, Layers
  <2> QED BY <2>1, <2>2, <2>3, <2>4, <2>5, <2>6, <2>7, Zenon DEF TypeOK
<1>3. legacy => server = {"RDP"} /\ selected = {}
  BY DEF Init
<1>4. TryInv
  BY <1>1, FirstType DEF Init, TryInv, RuledOut, Common, Tries
<1>5. RecvInv /\ SecureInv
  BY DEF Init, RecvInv, SecureInv
<1>6. ConnInv /\ ShakeInv
  BY DEF Init, ConnInv, ShakeInv
<1>7. NothingMissed
  BY <1>1, FirstType DEF Init, NothingMissed, Common
<1> QED BY <1>2, <1>3, <1>4, <1>5, <1>6, <1>7 DEF IInv

LEMMA AttemptInv == IInv /\ Attempt => IInv'
<1> SUFFICES ASSUME IInv, Attempt PROVE IInv'
  OBVIOUS
<1>0. /\ TypeOK /\ TryInv /\ ConnInv /\ ShakeInv /\ nego \in Tries
      /\ conn + 1 \in Conns /\ conn \in Nat
  BY BoundsAssumption DEF IInv, TryInv, Attempt, TypeOK, Conns
<1>1. Requested(nego) \in SUBSET Bits
  BY <1>0, RequestedType
<1>2. TypeOK'
  <2>1. [negData |-> Requested(nego) # {} \/ sendNegoData, word |-> Requested(nego)]
           \in [negData : BOOLEAN, word : SUBSET Bits]
    BY <1>0, <1>1 DEF TypeOK
  <2>2. request' \in [Conns -> [negData : BOOLEAN, word : SUBSET Bits]]
    BY <1>0, <2>1 DEF TypeOK, Attempt
  <2>3. conn' \in 0..MaxConns
    BY <1>0, BoundsAssumption DEF Attempt, Conns
  <2> QED BY <1>0, <2>2, <2>3 DEF TypeOK, Attempt, shakeVars
<1>3. (legacy => server = {"RDP"} /\ selected = {})'
  BY DEF IInv, Attempt
<1>4. TryInv'
  BY DEF IInv, Attempt, TryInv, RuledOut, Common
<1>5. peer[conn + 1] = "idle" /\ reply[conn + 1].type = "PENDING"
  BY <1>0 DEF ConnInv
<1>6. RecvInv'
  <2>1. up'[conn'] = "open" /\ request'[conn'].word = Requested(nego)
    BY <1>0 DEF Attempt, TypeOK
  <2> QED BY <1>0, <2>1 DEF RecvInv, Attempt
<1>7. SecureInv' /\ NothingMissed'
  BY DEF SecureInv, NothingMissed, Attempt
<1>8. ConnInv'
  <2> SUFFICES ASSUME NEW c \in Conns PROVE ConnInv!(c)'
    BY DEF ConnInv
  <2>1. CASE c = conn + 1
    <3>1. peer'[c] = "NEGO" /\ reply'[c].type = "PENDING"
      BY <1>0, <1>5, <2>1 DEF Attempt, TypeOK
    <3>2. ~request'[c].negData => request'[c].word = {}
      BY <1>0, <2>1 DEF Attempt, TypeOK
    <3> QED BY <1>0, <2>1, <3>1, <3>2 DEF Attempt
  <2>2. CASE c # conn + 1
    <3>1. /\ peer'[c] = peer[c] /\ up'[c] = up[c] /\ request'[c] = request[c]
          /\ reply'[c] = reply[c]
      BY <1>0, <2>2 DEF Attempt, TypeOK
    <3>2. c > conn' => c > conn
      BY <1>0 DEF Attempt, Conns
    <3> QED BY <1>0, <3>1, <3>2 DEF ConnInv, Attempt
  <2> QED BY <2>1, <2>2
<1>9. ShakeInv'
  <2> SUFFICES ASSUME NEW c \in Conns PROVE ShakeInv!(c)'
    BY DEF ShakeInv
  <2>1. /\ hello' = hello /\ sent' = sent /\ answer' = answer /\ reply' = reply
        /\ pc = "attempt" /\ pc' = "recv" /\ conn' = conn + 1 /\ legacy' = legacy
    BY DEF Attempt, shakeVars
  <2>2. hello[c] = "none" /\ sent[c] = "none" /\ answer[c] = "none"
    BY <1>0, <2>1 DEF ShakeInv
  <2>3. CASE c = conn + 1
    <3>1. peer'[c] = "NEGO"
      BY <1>0, <2>3 DEF Attempt, TypeOK
    <3> QED BY <2>1, <2>2, <2>3, <3>1
  <2>4. CASE c # conn + 1
    <3>1. peer'[c] = peer[c] /\ request'[c] = request[c]
      BY <1>0, <2>4 DEF Attempt, TypeOK
    <3> QED BY <1>0, <2>1, <2>2, <3>1 DEF ShakeInv
  <2> QED BY <2>3, <2>4
<1> QED BY <1>2, <1>3, <1>4, <1>6, <1>7, <1>8, <1>9 DEF IInv

\* Facts about the confirm of the try that is under way.
LEMMA ReplyFacts ==
    ASSUME IInv, pc = "recv", reply[conn].type # "PENDING"
    PROVE  /\ conn \in Conns /\ reply[conn] \in Confirms
           /\ nego \in Tries /\ request[conn].word = Requested(nego)
           /\ peer[conn] \in {"ACCEPT", "MCS", "GONE"}
           /\ \/ legacy /\ reply[conn].type = "NONE" /\ reply[conn].word = {}
              \/ ~legacy /\ reply[conn] = Confirm(server, Requested(nego))
<1>1. TypeOK /\ TryInv /\ RecvInv /\ ConnInv
  BY DEF IInv
<1>2. conn \in Conns /\ request[conn].word = Requested(nego) /\ nego \in Tries
  BY <1>1 DEF RecvInv, TryInv
<1>3. reply[conn] \in Confirms /\ reply[conn].type \in {"RSP", "FAILURE", "NONE"}
  BY <1>1, <1>2 DEF TypeOK, Confirms
<1>4. peer[conn] \in {"idle", "NEGO", "ACCEPT", "MCS", "GONE"}
  BY <1>1, <1>2 DEF TypeOK
<1> QED BY <1>1, <1>2, <1>3, <1>4 DEF ConnInv

LEMMA RecvFinalInv == IInv /\ RecvFinal => IInv'
<1> SUFFICES ASSUME IInv, RecvFinal PROVE IInv'
  OBVIOUS
<1> DEFINE m == reply[conn]
<1>0. /\ TypeOK /\ TryInv /\ RecvInv /\ ConnInv /\ ShakeInv /\ conn \in Conns /\ m \in Confirms
      /\ nego \in Tries /\ peer[conn] \in {"ACCEPT", "MCS", "GONE"}
      /\ \/ legacy /\ m.type = "NONE" /\ m.word = {}
         \/ ~legacy /\ m = Confirm(server, Requested(nego))
  BY ReplyFacts DEF IInv, RecvFinal
<1>1. enabled \in SUBSET Settings /\ server \in SUBSET ServerBits /\ Requested(nego) \in SUBSET Bits
  BY <1>0, SettingTypes, RequestedType
<1>2. Accepts(enabled, m) /\ m.type \in {"RSP", "NONE"}
  BY <1>0, <1>1, AcceptsValues DEF RecvFinal
<1>3. selected' = m.word /\ m.word \in SUBSET Bits
  <2>1. m.type = "NONE" => legacy
    BY <1>0, <1>1, ConfirmType
  <2> QED BY <1>0, <1>2, <2>1 DEF RecvFinal, IInv, Confirms
<1>4. hello[conn] = "none"
  BY <1>0 DEF ShakeInv, RecvFinal
<1>5. TypeOK'
  BY <1>0, <1>3 DEF TypeOK, RecvFinal, NegoStates, shakeVars
<1>6. (legacy => server = {"RDP"} /\ selected = {})'
  BY <1>0, <1>3 DEF RecvFinal, IInv
<1>7. TryInv' /\ RecvInv'
  BY DEF RecvFinal, TryInv, RecvInv
<1>8. NothingMissed'
  BY DEF RecvFinal, NothingMissed
<1>9. ConnInv' /\ ShakeInv'
  <2>1. ConnInv'
    BY <1>0 DEF ConnInv, RecvFinal
  <2>2. ShakeInv'
    BY <1>0 DEF ShakeInv, RecvFinal, shakeVars
  <2> QED BY <2>1, <2>2
<1>10. SecureInv'
  <2>1. up[conn] = "closed" => losses > 0 \/ denied
    BY <1>0 DEF RecvInv, RecvFinal
  <2>4. ASSUME "RDSTLS" \notin enabled
        PROVE  /\ m.word # {"RDSTLS"}
               /\ ~legacy => /\ Common("HYBRID") => m.word = {"HYBRID"}
                             /\ ~Common("HYBRID") /\ Common("SSL") => m.word = {"SSL"}
    <3>1. nego # "RDSTLS" /\ "RDSTLS" \notin Requested(nego) /\ RuledOut(nego)
      <4>1. Needs("RDSTLS") = "RDSTLS"
        BY Zenon DEF Needs
      <4> QED BY <1>0, <2>4, <4>1, RequestedType DEF TryInv, RecvFinal
    <3>2. CASE legacy
      BY <1>0, <3>2
    <3>3. CASE ~legacy
      <4>1. m = Confirm(server, Requested(nego)) /\ m.type = "RSP"
        BY <1>0, <1>1, <1>2, <3>3, ConfirmType
      <4>2. m.word # {"RDSTLS"}
        BY <1>1, <3>1, <4>1, ConfirmType
      <4>3. ASSUME Common("HYBRID") PROVE m.word = {"HYBRID"}
        <5>1. nego \in {"AAD", "EXT", "NLA"}
          BY <1>0, <3>1, <4>3 DEF RuledOut, Tries
        <5>2. nego # "AAD"
          <6>1. SUFFICES ASSUME nego = "AAD" PROVE FALSE
            OBVIOUS
          <6>2. Requested(nego) = {"RDSAAD"}
            BY <1>0, <6>1, RequestedType
          <6> QED BY <1>1, <4>1, <6>2, ConfirmType
        <5> QED BY <1>0, <1>1, <3>1, <4>1, <4>3, <5>1, <5>2, RequestedType, ConfirmPrefers DEF Common
      <4>4. ASSUME ~Common("HYBRID"), Common("SSL") PROVE m.word = {"SSL"}
        <5>1. nego \in {"AAD", "EXT", "NLA", "TLS"}
          BY <1>0, <3>1, <4>4 DEF RuledOut, Tries
        <5>2. nego # "AAD"
          <6>1. SUFFICES ASSUME nego = "AAD" PROVE FALSE
            OBVIOUS
          <6>2. Requested(nego) = {"RDSAAD"}
            BY <1>0, <6>1, RequestedType
          <6> QED BY <1>1, <4>1, <6>2, ConfirmType
        <5>3. "SSL" \in Requested(nego)
          BY <1>0, <5>1, <5>2, RequestedType
        <5>4. m.word \in {{"SSL"}, {"HYBRID"}}
          BY <1>1, <3>1, <4>1, <4>4, <5>3, ConfirmPrefers DEF Common
        <5>5. m.word = {"HYBRID"} => Common("HYBRID")
          <6>1. m.word = {"HYBRID"} => "HYBRID" \in enabled
            BY <1>0, <1>1, <1>2, <4>1, AcceptsValues
          <6>2. m.word = {"HYBRID"} => "HYBRID" \in server
            BY <1>1, <4>1, ConfirmType
          <6> QED BY <6>1, <6>2 DEF Common
        <5> QED BY <4>4, <5>4, <5>5
      <4> QED BY <4>2, <4>3, <4>4
    <3> QED BY <3>2, <3>3
  <2>5. /\ reply' = reply /\ conn' = conn /\ enabled' = enabled /\ up' = up /\ peer' = peer
        /\ losses' = losses /\ denied' = denied /\ server' = server /\ legacy' = legacy
        /\ hello' = hello /\ pc' = "secure"
    BY DEF RecvFinal, shakeVars
  <2>6. \A p : Common(p)' <=> Common(p)
    BY <2>5 DEF Common
  <2> QED BY <1>0, <1>2, <1>3, <1>4, <2>1, <2>4, <2>5, <2>6 DEF SecureInv
<1> QED BY <1>5, <1>6, <1>7, <1>8, <1>9, <1>10 DEF IInv

\* A refusal of a try rules out the protocol of that try.
LEMMA RefusedRulesOut ==
    ASSUME IInv, pc = "recv", reply[conn].type # "PENDING", ~Accepts(enabled, reply[conn])
    PROVE  /\ nego = "RDSTLS" => ~Common("RDSTLS")
           /\ nego = "NLA" => ~Common("HYBRID")
           /\ nego = "TLS" => ~Common("SSL")
           /\ nego = "RDP" => ~Common("RDP")
<1> DEFINE m == reply[conn]
<1>0. /\ TypeOK /\ TryInv /\ m \in Confirms /\ nego \in Tries
      /\ \/ legacy /\ m.type = "NONE" /\ m.word = {}
         \/ ~legacy /\ m = Confirm(server, Requested(nego))
  BY ReplyFacts DEF IInv
<1>1. enabled \in SUBSET Settings /\ server \in SUBSET ServerBits /\ Requested(nego) \in SUBSET Bits
  BY <1>0, SettingTypes, RequestedType
<1>2. CASE legacy
  <2>1. server = {"RDP"} /\ "RDP" \notin enabled
    BY <1>0, <1>1, <1>2, AcceptsValues, ConfirmType DEF IInv
  <2> QED BY <2>1 DEF Common
<1>3. CASE ~legacy
  <2>1. m = Confirm(server, Requested(nego))
    BY <1>0, <1>3
  <2>2. ASSUME nego = "RDSTLS" PROVE ~Common("RDSTLS")
    BY <1>0, <1>1, <2>1, <2>2, RequestedType, ConfirmPrefers, AcceptsValues DEF Common
  <2>3. ASSUME nego = "NLA" PROVE ~Common("HYBRID")
    <3>1. "HYBRID" \in Requested(nego) /\ "RDSTLS" \notin Requested(nego)
      BY <1>0, <2>3, RequestedType
    <3> QED BY <1>0, <1>1, <2>1, <3>1, ConfirmPrefers, AcceptsValues DEF Common
  <2>4. ASSUME nego = "TLS" PROVE ~Common("SSL")
    BY <1>0, <1>1, <2>1, <2>4, RequestedType, ConfirmPrefers, AcceptsValues DEF Common
  <2>5. ASSUME nego = "RDP" PROVE ~Common("RDP")
    BY <1>0, <1>1, <2>1, <2>5, RequestedType, ConfirmPrefers, AcceptsValues DEF Common
  <2> QED BY <2>2, <2>3, <2>4, <2>5
<1> QED BY <1>2, <1>3

LEMMA RecvRefusedInv == IInv /\ RecvRefused => IInv'
<1> SUFFICES ASSUME IInv, RecvRefused PROVE IInv'
  OBVIOUS
<1> DEFINE m == reply[conn]
           n == Fallback(nego, enabled)
<1>0. /\ TypeOK /\ TryInv /\ RecvInv /\ ConnInv /\ ShakeInv /\ conn \in Conns /\ m \in Confirms
      /\ nego \in Tries /\ pc = "recv"
      /\ \/ legacy /\ m.type = "NONE" /\ m.word = {}
         \/ ~legacy /\ m = Confirm(server, Requested(nego))
  BY ReplyFacts DEF IInv, RecvRefused
<1>1. enabled \in SUBSET Settings /\ server \in SUBSET ServerBits
  BY <1>0, SettingTypes
<1>2. nego' = n /\ n \in {"EXT", "NLA", "TLS", "RDP", "FAIL"}
  BY <1>0, <1>1, FallbackType DEF RecvRefused
<1>3. /\ nego = "RDSTLS" => ~Common("RDSTLS")
      /\ nego = "NLA" => ~Common("HYBRID")
      /\ nego = "TLS" => ~Common("SSL")
      /\ nego = "RDP" => ~Common("RDP")
  BY RefusedRulesOut DEF RecvRefused
<1>4. "RDSAAD" \notin enabled => ~Common("RDSTLS")
  <2>1. nego = "AAD" => "RDSAAD" \in enabled
    <3>1. Needs("AAD") = "RDSAAD"
      BY Zenon DEF Needs
    <3> QED BY <1>0, <3>1 DEF TryInv
  <2> QED BY <1>0, <1>3, <2>1 DEF TryInv, RuledOut, Tries
<1>5. n \in {"TLS", "RDP", "FAIL"} => ~Common("HYBRID")
  <2>1. nego \in {"AAD", "RDSTLS", "EXT"} /\ n \in {"TLS", "RDP", "FAIL"} => "HYBRID" \notin enabled
    BY <1>0, <1>1, FallbackType
  <2> QED BY <1>0, <1>3, <2>1 DEF TryInv, RuledOut, Tries, Common
<1>6. n \in {"RDP", "FAIL"} => ~Common("SSL")
  <2>1. nego \in {"AAD", "RDSTLS", "EXT", "NLA"} /\ n \in {"RDP", "FAIL"} => "SSL" \notin enabled
    BY <1>0, <1>1, FallbackType
  <2> QED BY <1>0, <1>3, <2>1 DEF TryInv, RuledOut, Tries, Common
<1>7. n = "FAIL" => ~Common("RDP")
  <2>1. nego # "RDP" /\ n = "FAIL" => "RDP" \notin enabled
    BY <1>0, <1>1, FallbackType
  <2> QED BY <1>0, <1>3, <2>1 DEF Common
<1>8. \A p : Common(p)' <=> Common(p)
  BY DEF RecvRefused, Common
<1>9. TypeOK'
  <2>1. selected' \in SUBSET Bits
    BY <1>0 DEF RecvRefused, TypeOK, Confirms
  <2>2. up' \in [Conns -> {"idle", "open", "closed"}]
    BY <1>0 DEF RecvRefused, TypeOK
  <2>3. sendNegoData' \in BOOLEAN
    BY <1>0, Zenon DEF RecvRefused, TypeOK
  <2>4. nego' \in NegoStates /\ pc' \in {"attempt", "failed"}
    BY <1>2 DEF RecvRefused, NegoStates
  <2>5. /\ enabled' = enabled /\ server' = server /\ legacy' = legacy /\ denied' = denied
        /\ conn' = conn /\ losses' = losses /\ request' = request /\ reply' = reply
        /\ hello' = hello /\ sent' = sent /\ answer' = answer /\ peer' = peer
    BY DEF RecvRefused, shakeVars
  <2>6. pc' \in {"attempt", "recv", "secure", "handshake", "auth", "connected", "failed"}
    BY <2>4
  <2> QED BY <1>0, <2>1, <2>2, <2>3, <2>4, <2>5, <2>6, Zenon DEF TypeOK
<1>10. (legacy => server = {"RDP"} /\ selected = {})'
  BY <1>0 DEF RecvRefused, IInv
<1>11. TryInv'
  <2> SUFFICES ASSUME pc' \in {"attempt", "recv"}
               PROVE  nego' \in Tries /\ Needs(nego') \in enabled' /\ RuledOut(nego)'
    BY DEF TryInv
  <2>1. n # "FAIL"
    BY <1>2 DEF RecvRefused
  <2>2. n \in Tries /\ Needs(n) \in enabled
    BY <1>0, <1>1, <1>2, <2>1, FallbackType DEF Tries
  <2>3. RuledOut(nego)'
    BY <1>2, <1>4, <1>5, <1>6, <1>8 DEF RuledOut, RecvRefused
  <2> QED BY <1>2, <2>2, <2>3 DEF RecvRefused
<1>12. RecvInv' /\ SecureInv'
  BY DEF RecvRefused, RecvInv, SecureInv
<1>13. NothingMissed'
  <2>1. pc' = "failed" => n = "FAIL"
    BY <1>2 DEF RecvRefused
  <2>2. enabled' = enabled
    BY DEF RecvRefused
  <2> QED BY <1>4, <1>5, <1>6, <1>7, <1>8, <2>1, <2>2 DEF NothingMissed
<1>14. ConnInv'
  <2> SUFFICES ASSUME NEW c \in Conns PROVE ConnInv!(c)'
    BY DEF ConnInv
  <2>1. c > conn => up'[c] = up[c]
    BY <1>0 DEF RecvRefused, TypeOK, Conns
  <2> QED BY <1>0, <2>1 DEF ConnInv, RecvRefused
<1>15. ShakeInv'
  <2> SUFFICES ASSUME NEW c \in Conns PROVE ShakeInv!(c)'
    BY DEF ShakeInv
  <2>1. /\ hello' = hello /\ sent' = sent /\ answer' = answer /\ reply' = reply /\ peer' = peer
        /\ request' = request /\ conn' = conn /\ legacy' = legacy
    BY DEF RecvRefused, shakeVars
  <2>2. hello[c] = "none" /\ sent[c] = "none"
    BY <1>0 DEF ShakeInv
  <2>3. request[conn].word = {} => pc' # "attempt"
    <3>1. request[conn].word = {} => nego = "RDP"
      BY <1>0, RequestedType DEF RecvInv
    <3> QED BY <1>0, <1>1, <1>2, <3>1, FallbackType DEF RecvRefused
  <2> QED BY <1>0, <2>1, <2>2, <2>3 DEF ShakeInv
<1> QED BY <1>9, <1>10, <1>11, <1>12, <1>13, <1>14, <1>15 DEF IInv

\* What the client secures is a protocol of the server, and both sides take it for
\* the same layer.
LEMMA SecuredLayer ==
    ASSUME IInv, pc \in {"secure", "handshake", "auth", "connected"}
    PROVE  /\ conn \in Conns /\ reply[conn] \in Confirms /\ reply[conn].type \in {"RSP", "NONE"}
           /\ selected = reply[conn].word
           /\ selected \in {{}, {"SSL"}, {"HYBRID"}, {"RDSTLS"}}
           /\ Layer(selected) = AcceptLayer(reply[conn])
           /\ selected = {} => Layer(selected) = "rdp"
           /\ selected = {"SSL"} => Layer(selected) = "tls"
           /\ selected = {"HYBRID"} => Layer(selected) = "nla"
           /\ selected = {"RDSTLS"} => Layer(selected) = "rdstls"
<1> DEFINE m == reply[conn]
<1>1. TypeOK /\ ConnInv /\ SecureInv /\ conn \in Conns /\ m \in Confirms
  BY DEF IInv, SecureInv, TypeOK
<1>2. m.type \in {"RSP", "NONE"} /\ selected = m.word
  BY <1>1 DEF SecureInv
<1>3. server \in SUBSET ServerBits /\ request[conn].word \in SUBSET Bits
  BY <1>1, SettingTypes DEF TypeOK
<1>4. m.word \in {{}, {"SSL"}, {"HYBRID"}, {"RDSTLS"}}
  <2>1. CASE m.type = "NONE"
    BY <1>1, <2>1 DEF ConnInv
  <2>2. CASE m.type = "RSP"
    <3> DEFINE w == request[conn].word
    <3>1. m = Confirm(server, w) /\ w \in SUBSET Bits
      BY <1>1, <1>3, <2>2 DEF ConnInv
    <3> HIDE DEF w, m
    <3> QED BY <1>3, <2>2, <3>1, ConfirmType
  <2> QED BY <1>2, <2>1, <2>2
<1> QED BY <1>1, <1>2, <1>4, LayerValues, AcceptLayerValues

\* The client starts the layer: the end of nego_connect for plain RDP.
LEMMA StartSecurityInv == IInv /\ StartSecurity => IInv'
<1> SUFFICES ASSUME IInv, StartSecurity PROVE IInv'
  OBVIOUS
<1> DEFINE layer == Layer(selected)
<1>0. /\ TypeOK /\ SecureInv /\ ConnInv /\ ShakeInv /\ pc = "secure"
  BY DEF IInv, StartSecurity
<1>1. /\ conn \in Conns /\ reply[conn].type \in {"RSP", "NONE"}
      /\ selected \in {{}, {"SSL"}, {"HYBRID"}, {"RDSTLS"}}
      /\ layer = AcceptLayer(reply[conn])
      /\ selected = {} => layer = "rdp"
      /\ selected # {} => layer \in {"tls", "nla", "rdstls"}
  BY <1>0, SecuredLayer
<1>2. /\ enabled' = enabled /\ server' = server /\ legacy' = legacy /\ selected' = selected
      /\ sendNegoData' = sendNegoData /\ conn' = conn /\ request' = request /\ reply' = reply
      /\ answer' = answer /\ peer' = peer /\ losses' = losses /\ denied' = denied
      /\ nego' = nego /\ up' = up
  BY DEF StartSecurity
<1>3. /\ hello' = [hello EXCEPT ![conn] = layer]
      /\ layer = "rdp" => pc' = "connected" /\ sent' = sent
      /\ layer \in {"tls", "nla", "rdstls"} =>
            pc' = "handshake" /\ sent' = [sent EXCEPT ![conn] = "hello"]
  BY DEF StartSecurity
<1>4. layer \in Layers
  BY <1>1 DEF Layers
<1> HIDE DEF layer
<1>5. TypeOK'
  BY <1>0, <1>1, <1>2, <1>3, <1>4 DEF TypeOK
<1>6. pc' \in {"connected", "handshake"}
  BY <1>1, <1>3
<1>7. TryInv' /\ RecvInv' /\ NothingMissed'
  BY <1>6 DEF TryInv, RecvInv, NothingMissed
<1>8. \A p : Common(p)' <=> Common(p)
  BY <1>2 DEF Common
<1>9. SecureInv'
  <2>1. hello'[conn] = layer
    BY <1>0, <1>1, <1>3 DEF TypeOK
  <2>2. /\ pc' = "handshake" => selected # {}
        /\ pc' = "connected" => selected # {"RDSTLS"}
    BY <1>1, <1>3
  <2> QED BY <1>0, <1>2, <1>6, <1>8, <2>1, <2>2 DEF SecureInv, layer
<1>10. ConnInv'
  BY <1>0, <1>2 DEF ConnInv
<1>11. ShakeInv'
  <2> SUFFICES ASSUME NEW c \in Conns PROVE ShakeInv!(c)'
    BY DEF ShakeInv
  <2>1. hello[c] = "none" /\ sent[c] = "none" /\ answer[c] = "none"
    BY <1>0 DEF ShakeInv
  <2>2. CASE c = conn
    BY <1>0, <1>1, <1>2, <1>3, <1>6, <2>1, <2>2 DEF ShakeInv, TypeOK
  <2>3. CASE c # conn
    <3>1. hello'[c] = "none" /\ sent'[c] = "none"
      BY <1>0, <1>1, <1>3, <2>1, <2>3 DEF TypeOK
    <3> QED BY <1>0, <1>2, <1>6, <2>1, <2>3, <3>1 DEF ShakeInv
  <2> QED BY <2>2, <2>3
<1>12. (legacy => server = {"RDP"} /\ selected = {})'
  BY <1>2 DEF IInv
<1> QED BY <1>5, <1>7, <1>9, <1>10, <1>11, <1>12 DEF IInv

\* The steps of the client's half of the handshake: TLS, and what follows it.
LEMMA HandshakeInv == IInv /\ (Secured \/ Authenticated) => IInv'
<1> SUFFICES ASSUME IInv, Secured \/ Authenticated PROVE IInv'
  OBVIOUS
<1>0. /\ TypeOK /\ SecureInv /\ ConnInv /\ ShakeInv /\ pc \in {"handshake", "auth"}
  BY DEF IInv, Secured, Authenticated
<1>1. /\ conn \in Conns /\ hello[conn] = Layer(selected)
      /\ selected \in {{}, {"SSL"}, {"HYBRID"}, {"RDSTLS"}}
      /\ selected = {"SSL"} => Layer(selected) = "tls"
      /\ selected = {"HYBRID"} => Layer(selected) = "nla"
      /\ selected = {"RDSTLS"} => Layer(selected) = "rdstls"
  BY <1>0, SecuredLayer DEF SecureInv
<1>2. /\ enabled' = enabled /\ server' = server /\ legacy' = legacy /\ selected' = selected
      /\ sendNegoData' = sendNegoData /\ conn' = conn /\ request' = request /\ reply' = reply
      /\ hello' = hello /\ answer' = answer /\ peer' = peer /\ losses' = losses
      /\ denied' = denied /\ nego' = nego /\ up' = up
  BY DEF Secured, Authenticated
<1>3. \E t \in {"auth", "done"} : sent' = [sent EXCEPT ![conn] = t]
  BY DEF Secured, Authenticated
<1>4. /\ pc' \in {"handshake", "auth", "connected"}
      /\ pc' = "handshake" => selected = {"RDSTLS"}
      /\ pc' = "auth" => selected = {"HYBRID"}
      /\ pc' = "connected" /\ selected = {"RDSTLS"} => answer[conn] = "ok"
  <2>1. CASE Authenticated
    BY <2>1 DEF Authenticated
  <2>2. CASE Secured
    <3>0. pc = "handshake" /\ selected # {}
      BY <1>0, <2>2 DEF Secured, SecureInv
    <3>1. CASE selected = {"SSL"}
      BY <1>1, <2>2, <3>1 DEF Secured
    <3>2. CASE selected = {"HYBRID"}
      BY <1>1, <2>2, <3>2 DEF Secured
    <3>3. CASE selected = {"RDSTLS"}
      BY <1>1, <2>2, <3>0, <3>3 DEF Secured
    <3> QED BY <1>1, <3>0, <3>1, <3>2, <3>3
  <2> QED BY <2>1, <2>2
<1>5. TypeOK'
  <2>1. PICK t \in {"auth", "done"} : sent' = [sent EXCEPT ![conn] = t]
    BY <1>3
  <2>2. sent' \in [Conns -> {"none", "hello", "auth", "done"}]
    BY <1>0, <1>1, <2>1 DEF TypeOK
  <2>3. pc' \in {"attempt", "recv", "secure", "handshake", "auth", "connected", "failed"}
    BY <1>4
  <2> QED BY <1>0, <1>2, <2>2, <2>3, Zenon DEF TypeOK
<1>6. TryInv' /\ RecvInv' /\ NothingMissed'
  BY <1>4 DEF TryInv, RecvInv, NothingMissed
<1>7. \A p : Common(p)' <=> Common(p)
  BY <1>2 DEF Common
<1>8. SecureInv'
  BY <1>0, <1>1, <1>2, <1>4, <1>7 DEF SecureInv
<1>9. ConnInv'
  BY <1>0, <1>2 DEF ConnInv
<1>10. ShakeInv'
  <2> SUFFICES ASSUME NEW c \in Conns PROVE ShakeInv!(c)'
    BY DEF ShakeInv
  <2>1. /\ sent'[c] = "none" => sent[c] = "none"
        /\ c # conn => sent'[c] = sent[c]
        /\ sent[conn] # "none"
    BY <1>0, <1>1, <1>3 DEF TypeOK, Secured, Authenticated
  <2> QED BY <1>0, <1>2, <1>4, <2>1 DEF ShakeInv
<1>11. (legacy => server = {"RDP"} /\ selected = {})'
  BY <1>2 DEF IInv
<1> QED BY <1>5, <1>6, <1>8, <1>9, <1>10, <1>11 DEF IInv

\* The client gives up.
LEMMA ClientEndsInv == IInv /\ (RecvError \/ SecureFails \/ GiveUp \/ Disconnect) => IInv'
<1> SUFFICES ASSUME IInv, RecvError \/ SecureFails \/ GiveUp \/ Disconnect PROVE IInv'
  OBVIOUS
<1>0. TypeOK /\ TryInv /\ RecvInv /\ SecureInv /\ ConnInv /\ ShakeInv /\ NothingMissed
  BY DEF IInv
<1>1. /\ enabled' = enabled /\ server' = server /\ legacy' = legacy /\ selected' = selected
      /\ sendNegoData' = sendNegoData /\ conn' = conn /\ request' = request /\ reply' = reply
      /\ hello' = hello /\ sent' = sent /\ answer' = answer /\ peer' = peer /\ losses' = losses
  BY DEF RecvError, SecureFails, GiveUp, Disconnect, clientVars, shakeVars
<1>2. \A p : Common(p)' <=> Common(p)
  BY <1>1 DEF Common
<1>3. (legacy => server = {"RDP"} /\ selected = {})'
  BY <1>1 DEF IInv
<1>4. pc' = "failed" /\ nego' \in NegoStates
  BY <1>0 DEF RecvError, SecureFails, GiveUp, Disconnect, clientVars, NegoStates, TypeOK
<1>5. /\ up' \in [Conns -> {"idle", "open", "closed"}]
      /\ \A c \in Conns : c > conn => up'[c] = up[c]
  <2>1. CASE RecvError \/ SecureFails \/ GiveUp
    <3>1. up' = up
      BY <2>1 DEF RecvError, SecureFails, GiveUp
    <3> QED BY <1>0, <3>1 DEF TypeOK
  <2>2. CASE Disconnect
    <3>1. up' = [up EXCEPT ![conn] = "closed"]
      BY <2>2 DEF Disconnect
    <3>2. \A c \in Conns : c > conn => c # conn
      BY <1>0 DEF TypeOK, Conns
    <3> QED BY <1>0, <3>1, <3>2 DEF TypeOK
  <2> QED BY <2>1, <2>2
<1>6. denied' \in BOOLEAN /\ (denied => denied')
  <2>1. denied' = denied \/ denied' = TRUE
    BY DEF RecvError, SecureFails, GiveUp, Disconnect
  <2> QED BY <1>0, <2>1, Zenon DEF TypeOK
<1>7. TypeOK'
  <2>1. pc' \in {"attempt", "recv", "secure", "handshake", "auth", "connected", "failed"}
    BY <1>4
  <2> QED BY <1>0, <1>1, <1>4, <1>5, <1>6, <2>1, Zenon DEF TypeOK
<1>8. TryInv' /\ RecvInv' /\ SecureInv'
  BY <1>4 DEF TryInv, RecvInv, SecureInv
<1>9. NothingMissed'
  <2>1. CASE RecvError
    BY <1>0, <1>1, <2>1 DEF RecvInv, RecvError, NothingMissed, TypeOK
  <2>2. CASE SecureFails
    BY <1>0, <1>1, <2>2 DEF SecureInv, SecureFails, NothingMissed, TypeOK
  <2>3. CASE GiveUp
    BY <2>3 DEF GiveUp, NothingMissed
  <2>4. CASE Disconnect
    BY <1>0, <1>1, <1>2, <2>4 DEF Disconnect, NothingMissed
  <2> QED BY <2>1, <2>2, <2>3, <2>4
<1>10. ConnInv'
  BY <1>0, <1>1, <1>5 DEF ConnInv
<1>11. ShakeInv'
  BY <1>0, <1>1, <1>4 DEF ShakeInv
<1> QED BY <1>3, <1>7, <1>8, <1>9, <1>10, <1>11 DEF IInv

\* A step of a peer keeps what the client knows, as long as the connection under
\* way keeps its promises.
LEMMA PeerKeeps ==
    ASSUME IInv, TypeOK', ConnInv', ShakeInv',
           UNCHANGED <<clientVars, server, legacy, request, hello, sent>>,
           \A d \in Conns : reply[d].type # "PENDING" => reply'[d] = reply[d],
           losses' \in Nat, losses' >= losses, denied => denied',
           \A d \in Conns : up'[d] # up[d] => losses' > 0 \/ denied',
           \A d \in Conns : answer[d] = "ok" => answer'[d] = "ok"
    PROVE  IInv'
<1>0. TypeOK /\ TryInv /\ RecvInv /\ SecureInv /\ NothingMissed
  BY DEF IInv
<1>1. /\ enabled' = enabled /\ server' = server /\ legacy' = legacy /\ selected' = selected
      /\ pc' = pc /\ nego' = nego /\ conn' = conn /\ request' = request /\ hello' = hello
  BY DEF clientVars
<1>2. \A p : Common(p)' <=> Common(p)
  BY <1>1 DEF Common
<1>3. losses = 0 \/ losses' > 0
  BY <1>0, BoundsAssumption DEF TypeOK
<1>4. (legacy => server = {"RDP"} /\ selected = {})'
  BY <1>1 DEF IInv
<1>5. TryInv'
  BY <1>0, <1>1, <1>2 DEF TryInv, RuledOut
<1>6. RecvInv'
  BY <1>0, <1>1, <1>3 DEF RecvInv, TypeOK
<1>7. SecureInv'
  <2> SUFFICES ASSUME pc \in {"secure", "handshake", "auth", "connected"} PROVE SecureInv'
    BY <1>1 DEF SecureInv
  <2>1. conn \in Conns /\ reply'[conn] = reply[conn]
    BY <1>0 DEF SecureInv
  <2>2. up'[conn] = "closed" => losses' > 0 \/ denied'
    BY <1>0, <1>3, <2>1 DEF SecureInv, TypeOK
  <2> QED BY <1>0, <1>1, <1>2, <2>1, <2>2 DEF SecureInv
<1>8. NothingMissed'
  BY <1>0, <1>1, <1>2, <1>3 DEF NothingMissed, TypeOK
<1> QED BY <1>4, <1>5, <1>6, <1>7, <1>8 DEF IInv

\* The first answer of a peer: the confirm, and where the peer goes with it.
LEMMA FirstAnswerInv ==
    ASSUME IInv, NEW c \in Conns, NEW m \in Confirms, NEW q \in {"ACCEPT", "MCS", "GONE"},
           peer[c] = "NEGO",
           reply' = [reply EXCEPT ![c] = m], peer' = [peer EXCEPT ![c] = q],
           up' \in [Conns -> {"idle", "open", "closed"}],
           \A d \in Conns : up'[d] # up[d] => d = c /\ denied',
           UNCHANGED <<clientVars, server, legacy, request, shakeVars, losses>>,
           denied' = denied \/ denied' = TRUE,
           \/ legacy /\ m.type = "NONE" /\ m.word = {} /\ q = "MCS"
           \/ /\ ~legacy /\ m = Confirm(server, request[c].word) /\ m.type \in {"RSP", "FAILURE"}
              /\ m.type = "RSP" /\ m.word = {} => q # "ACCEPT"
              /\ q = "MCS" => m.type = "RSP" /\ m.word = {}
    PROVE  IInv'
<1>0. TypeOK /\ ConnInv /\ ShakeInv
  BY DEF IInv
<1>1. /\ conn' = conn /\ pc' = pc /\ hello' = hello /\ sent' = sent /\ answer' = answer
      /\ request' = request /\ server' = server /\ legacy' = legacy /\ losses' = losses
  BY DEF clientVars, shakeVars
<1>2. /\ reply'[c] = m /\ peer'[c] = q
      /\ \A d \in Conns : d # c => reply'[d] = reply[d] /\ peer'[d] = peer[d]
      /\ reply' \in [Conns -> Confirms]
      /\ peer' \in [Conns -> {"idle", "NEGO", "ACCEPT", "MCS", "GONE"}]
  BY <1>0 DEF TypeOK
<1>3. denied' \in BOOLEAN /\ (denied => denied')
  BY <1>0, Zenon DEF TypeOK
<1>4. TypeOK'
  BY <1>0, <1>1, <1>2, <1>3 DEF TypeOK, clientVars
<1>5. reply[c].type = "PENDING" /\ ~(c > conn)
  BY <1>0 DEF ConnInv
<1>6. hello[c] = "none" /\ sent[c] = "none" /\ answer[c] = "none"
  BY <1>0, <1>5 DEF ShakeInv
<1>7. ConnInv'
  <2> SUFFICES ASSUME NEW d \in Conns PROVE ConnInv!(d)'
    BY DEF ConnInv
  <2>1. CASE d = c
    <3>1. ~request[c].negData => request[c].word = {}
      BY <1>0 DEF ConnInv
    <3> QED BY <1>1, <1>2, <1>5, <2>1, <3>1
  <2>2. CASE d # c
    <3>1. up'[d] = up[d]
      BY <2>2
    <3> QED BY <1>0, <1>1, <1>2, <2>2, <3>1 DEF ConnInv
  <2> QED BY <2>1, <2>2
<1>8. ShakeInv'
  <2> SUFFICES ASSUME NEW d \in Conns PROVE ShakeInv!(d)'
    BY DEF ShakeInv
  <2>1. CASE d = c
    <3>1. request[c].word = {} => c = conn /\ pc # "attempt"
      BY <1>0 DEF ShakeInv
    <3> QED BY <1>1, <1>2, <1>6, <2>1, <3>1
  <2>2. CASE d # c
    BY <1>0, <1>1, <1>2, <2>2 DEF ShakeInv
  <2> QED BY <2>1, <2>2
<1>9. \A d \in Conns : reply[d].type # "PENDING" => reply'[d] = reply[d]
  BY <1>2, <1>5
<1>10. losses' \in Nat /\ losses' >= losses
  BY <1>0, <1>1, BoundsAssumption DEF TypeOK
<1>11. UNCHANGED <<clientVars, server, legacy, request, hello, sent>>
  BY DEF shakeVars
<1> QED BY <1>1, <1>3, <1>4, <1>7, <1>8, <1>9, <1>10, <1>11, PeerKeeps

LEMMA AcceptNegoInv == ASSUME IInv, NEW c \in Conns, AcceptNego(c) \/ AcceptNoKey(c) PROVE IInv'
<1> DEFINE w == request[c].word
           m == Confirm(server, w)
<1>0. TypeOK /\ ConnInv /\ w \in SUBSET Bits /\ peer[c] = "NEGO" /\ ~legacy
  BY DEF IInv, TypeOK, AcceptNego, AcceptNoKey
<1>1. server \in SUBSET ServerBits /\ Answer(c) = m
  BY <1>0, SettingTypes DEF ConnInv, Answer
<1>2. /\ m \in Confirms /\ m.type \in {"RSP", "FAILURE"}
      /\ m.type = "RSP" => m.word = {} \/ \E b \in {"SSL", "HYBRID", "RDSTLS"} : m.word = {b}
  <2> HIDE DEF w
  <2> QED BY <1>0, <1>1, ConfirmType
<1>3. /\ AcceptLayer(m) = "rdp" => m.type = "RSP" /\ m.word = {}
      /\ m.word = {} => AcceptLayer(m) = "rdp"
  <2>1. FailureCode(server) \cap {"SSL", "HYBRID"} # {}
    BY DEF FailureCode
  <2>2. m.type = "FAILURE" => m.word = FailureCode(server)
    BY DEF Confirm
  <2> HIDE DEF m
  <2> QED BY <1>2, <2>1, <2>2, AcceptLayerValues
<1>4. reply' = [reply EXCEPT ![c] = m]
  BY <1>1 DEF AcceptNego, AcceptNoKey
<1>5. UNCHANGED <<clientVars, server, legacy, request, shakeVars, losses>>
  BY DEF AcceptNego, AcceptNoKey
<1>6. CASE AcceptNego(c)
  <2>1. PICK q \in {"ACCEPT", "MCS", "GONE"} :
           /\ q = IF AcceptLayer(m) = "rdp" THEN "MCS" ELSE "ACCEPT"
           /\ peer' = [peer EXCEPT ![c] = q]
    BY <1>1, <1>6 DEF AcceptNego
  <2>2. up' = up /\ denied' = denied /\ up' \in [Conns -> {"idle", "open", "closed"}]
    BY <1>0, <1>6 DEF AcceptNego, TypeOK
  <2> HIDE DEF m
  <2>3. /\ m.type = "RSP" /\ m.word = {} => q # "ACCEPT"
        /\ q = "MCS" => m.type = "RSP" /\ m.word = {}
    BY <1>3, <2>1
  <2> QED BY <1>0, <1>2, <1>4, <1>5, <2>1, <2>2, <2>3, FirstAnswerInv DEF m
<1>7. CASE AcceptNoKey(c)
  <2>1. peer' = [peer EXCEPT ![c] = "GONE"] /\ denied' = TRUE
    BY <1>7 DEF AcceptNoKey
  <2>2. /\ up' \in [Conns -> {"idle", "open", "closed"}]
        /\ \A d \in Conns : up'[d] # up[d] => d = c
    BY <1>0, <1>7 DEF AcceptNoKey, TypeOK
  <2> HIDE DEF m
  <2> QED BY <1>0, <1>2, <1>4, <1>5, <2>1, <2>2, FirstAnswerInv DEF m
<1> QED BY <1>6, <1>7

LEMMA AcceptLegacyInv == ASSUME IInv, NEW c \in Conns, AcceptLegacy(c) PROVE IInv'
<1> DEFINE m == [type |-> "NONE", word |-> {}]
<1>1. m \in Confirms /\ m.type = "NONE" /\ m.word = {}
  BY DEF Confirms
<1>2. /\ peer[c] = "NEGO" /\ legacy
      /\ reply' = [reply EXCEPT ![c] = m] /\ peer' = [peer EXCEPT ![c] = "MCS"]
      /\ UNCHANGED <<clientVars, server, legacy, request, shakeVars, losses>>
      /\ up' = up /\ denied' = denied
  BY DEF AcceptLegacy
<1>3. up' \in [Conns -> {"idle", "open", "closed"}]
  BY <1>2 DEF IInv, TypeOK
<1> HIDE DEF m
<1> QED BY <1>1, <1>2, <1>3, FirstAnswerInv

\* The later steps of a peer and the network leave the confirms alone.
LEMMA PeerEndsInv ==
    ASSUME IInv, NEW c \in Conns,
           \/ AcceptTls(c) \/ AcceptAuth(c) \/ AcceptDone(c) \/ AcceptDenied(c)
           \/ PeerClosed(c) \/ Lose(c)
    PROVE  IInv'
<1> USE DEF AcceptTls, AcceptAuth, AcceptDone, AcceptDenied, PeerClosed, Lose
<1>0. TypeOK /\ ConnInv /\ ShakeInv
  BY DEF IInv
<1>1. UNCHANGED <<clientVars, server, legacy, request, hello, sent, reply>>
  BY DEF shakeVars
<1>2. /\ losses' \in 0..MaxLosses /\ losses' \in Nat /\ losses' >= losses /\ denied' \in BOOLEAN
      /\ denied => denied'
  <2>1. losses' = losses \/ (losses' = losses + 1 /\ losses < MaxLosses)
    OBVIOUS
  <2>2. denied' = denied \/ denied' = TRUE
    OBVIOUS
  <2>3. denied' \in BOOLEAN /\ (denied => denied')
    BY <1>0, <2>2, Zenon DEF TypeOK
  <2> QED BY <1>0, <2>1, <2>3, BoundsAssumption DEF TypeOK
<1>3. /\ up' \in [Conns -> {"idle", "open", "closed"}]
      /\ peer' \in [Conns -> {"idle", "NEGO", "ACCEPT", "MCS", "GONE"}]
  BY <1>0 DEF TypeOK
<1>4. /\ answer' \in [Conns -> {"none", "tls", "ok"}]
      /\ \A d \in Conns : answer[d] = "ok" => answer'[d] = "ok"
  BY <1>0 DEF TypeOK, shakeVars
<1>5. TypeOK'
  BY <1>0, <1>1, <1>2, <1>3, <1>4 DEF TypeOK, clientVars
<1>6. \A d \in Conns : up'[d] # up[d] => losses' > 0 \/ denied'
  <2>1. CASE Lose(c)
    BY <1>0, <2>1, BoundsAssumption DEF TypeOK
  <2>2. CASE AcceptDenied(c)
    BY <2>2
  <2>3. CASE AcceptTls(c) \/ AcceptAuth(c) \/ AcceptDone(c) \/ PeerClosed(c)
    BY <2>3
  <2> QED BY <2>1, <2>2, <2>3
<1>7. /\ conn' = conn /\ pc' = pc /\ hello' = hello /\ sent' = sent /\ request' = request
      /\ reply' = reply /\ server' = server /\ legacy' = legacy
  BY <1>1 DEF clientVars
<1>8. \A d \in Conns : d # c => peer'[d] = peer[d] /\ up'[d] = up[d] /\ answer'[d] = answer[d]
  BY <1>0 DEF TypeOK, shakeVars
<1>9. /\ peer[c] # "idle" \/ up[c] = "open"
      /\ \/ peer'[c] = peer[c]
         \/ peer'[c] = "GONE" /\ peer[c] # "idle"
         \/ peer'[c] = "MCS" /\ peer[c] = "ACCEPT" /\ sent[c] # "none"
      /\ peer'[c] = "ACCEPT" => peer[c] = "ACCEPT"
      /\ answer'[c] # answer[c] => sent[c] # "none"
      /\ answer'[c] = "ok" /\ answer[c] # "ok" /\ hello[c] = "rdstls" => peer'[c] = "MCS"
  BY <1>0 DEF TypeOK, shakeVars
<1>10. ~(c > conn)
  BY <1>0, <1>9 DEF ConnInv
<1>11. sent[c] # "none" => reply[c].type \in {"RSP", "NONE"}
  BY <1>0 DEF ShakeInv
<1>12. ConnInv'
  <2> SUFFICES ASSUME NEW d \in Conns PROVE ConnInv!(d)'
    BY DEF ConnInv
  <2>1. CASE d = c
    BY <1>0, <1>7, <1>9, <1>10, <1>11, <2>1 DEF ConnInv
  <2>2. CASE d # c
    BY <1>0, <1>7, <1>8, <2>2 DEF ConnInv
  <2> QED BY <2>1, <2>2
<1>13. ShakeInv'
  <2> SUFFICES ASSUME NEW d \in Conns PROVE ShakeInv!(d)'
    BY DEF ShakeInv
  <2>1. CASE d = c
    <3>1. reply[c].type = "NONE" => legacy
      BY <1>0 DEF ConnInv
    <3> QED BY <1>0, <1>7, <1>9, <1>11, <2>1, <3>1 DEF ShakeInv
  <2>2. CASE d # c
    BY <1>0, <1>7, <1>8, <2>2 DEF ShakeInv
  <2> QED BY <2>1, <2>2
<1> QED BY <1>1, <1>2, <1>4, <1>5, <1>6, <1>7, <1>12, <1>13, PeerKeeps

-----------------------------------------------------------------------------
LEMMA NextInv == IInv /\ [Next]_vars => IInv'
<1> SUFFICES ASSUME IInv, [Next]_vars PROVE IInv'
  OBVIOUS
<1>1. CASE Client
  BY <1>1, AttemptInv, RecvFinalInv, RecvRefusedInv, StartSecurityInv, HandshakeInv,
     ClientEndsInv DEF Client
<1>2. ASSUME NEW c \in Conns, Peer(c) \/ AcceptNoKey(c) \/ AcceptDenied(c) \/ Lose(c)
      PROVE  IInv'
  BY <1>2, AcceptNegoInv, AcceptLegacyInv, PeerEndsInv DEF Peer
<1>3. CASE GiveUp
  BY <1>3, ClientEndsInv
<1>4. CASE UNCHANGED vars
  <2>1. /\ UNCHANGED <<clientVars, server, legacy, up, request, reply, shakeVars, peer, losses>>
        /\ denied' = denied
    BY <1>4 DEF vars
  <2> QED BY <2>1 DEF clientVars, shakeVars, IInv, TypeOK, TryInv, RecvInv, SecureInv, ConnInv,
                      ShakeInv, NothingMissed, Common, RuledOut
<1> QED BY <1>1, <1>2, <1>3, <1>4 DEF Next, Refuse

\* Every reachable state of the negotiation satisfies the inductive invariant.
THEOREM Invariance == Spec => []IInv
<1>1. Init => IInv
  BY InitInv
<1>2. IInv /\ [Next]_vars => IInv'
  BY NextInv
<1> QED BY <1>1, <1>2, PTL DEF Spec

\* When nego_connect returns TRUE, client and server have agreed on one protocol
\* that both have enabled, on one connection, and run the same handshake.
THEOREM Agreement == Spec => []AgreedProtocol
<1>1. IInv => AgreedProtocol
  <2> SUFFICES ASSUME IInv, pc \in {"auth", "connected"} PROVE AgreedProtocol
    BY DEF AgreedProtocol
  <2> DEFINE m == reply[conn]
             w == request[conn].word
  <2>0. TypeOK /\ ConnInv /\ ShakeInv /\ SecureInv
    BY DEF IInv
  <2>1. /\ conn \in Conns /\ m \in Confirms /\ m.type \in {"RSP", "NONE"} /\ selected = m.word
        /\ selected \in {{}, {"SSL"}, {"HYBRID"}, {"RDSTLS"}}
        /\ Layer(selected) = AcceptLayer(m)
        /\ selected = {"RDSTLS"} => Layer(selected) = "rdstls"
    BY SecuredLayer
  <2>2. /\ hello[conn] = Layer(selected) /\ Accepts(enabled, m)
        /\ "RDSTLS" \notin enabled => selected # {"RDSTLS"}
        /\ selected = {"RDSTLS"} => answer[conn] = "ok"
    BY <2>0 DEF SecureInv
  <2>3. enabled \in SUBSET Settings /\ server \in SUBSET ServerBits /\ w \in SUBSET Bits
    BY <2>0, <2>1, SettingTypes DEF TypeOK
  <2>4. peer[conn] \in {"ACCEPT", "MCS", "GONE"}
    <3>1. peer[conn] \in {"idle", "NEGO", "ACCEPT", "MCS", "GONE"}
      BY <2>0, <2>1 DEF TypeOK
    <3> QED BY <2>0, <2>1, <3>1 DEF ConnInv
  <2>5. selected \in {{}, {"RDSTLS"}} => peer[conn] # "ACCEPT"
    BY <2>0, <2>1, <2>2 DEF ConnInv, ShakeInv
  <2>6. Common(SettingOf(selected))
    <3>1. CASE m.type = "NONE"
      <4>1. selected = {} /\ "RDP" \in server /\ "RDP" \in enabled
        BY <2>0, <2>1, <2>2, <2>3, <3>1, AcceptsValues DEF ConnInv, IInv
      <4>2. SettingOf(selected) = "RDP"
        BY <4>1, Zenon DEF SettingOf
      <4> QED BY <4>1, <4>2 DEF Common
    <3>2. CASE m.type = "RSP"
      <4>1. m = Confirm(server, w)
        BY <2>0, <2>1, <3>2 DEF ConnInv
      <4> HIDE DEF w, m
      <4>2. \/ m.word = {} /\ "RDP" \in server
            \/ \E b \in {"SSL", "HYBRID", "RDSTLS"} : m.word = {b} /\ b \in server
        BY <2>3, <3>2, <4>1, ConfirmType
      <4>3. CASE m.word = {}
        <5>1. "RDP" \in enabled
          BY <2>1, <2>2, <2>3, <4>3, AcceptsValues
        <5>2. SettingOf({}) = "RDP"
          BY Zenon DEF SettingOf
        <5> QED BY <2>1, <4>2, <4>3, <5>1, <5>2 DEF Common
      <4>4. CASE m.word = {"SSL"}
        <5>1. "SSL" \in enabled
          BY <2>1, <2>2, <2>3, <3>2, <4>4, AcceptsValues
        <5>2. SettingOf({"SSL"}) = "SSL"
          BY Zenon DEF SettingOf
        <5> QED BY <2>1, <4>2, <4>4, <5>1, <5>2 DEF Common
      <4>5. CASE m.word = {"HYBRID"}
        <5>1. "HYBRID" \in enabled
          BY <2>1, <2>2, <2>3, <3>2, <4>5, AcceptsValues
        <5>2. SettingOf({"HYBRID"}) = "HYBRID"
          BY Zenon DEF SettingOf
        <5> QED BY <2>1, <4>2, <4>5, <5>1, <5>2 DEF Common
      <4>6. CASE m.word = {"RDSTLS"}
        <5>1. "RDSTLS" \in enabled
          BY <2>1, <2>2, <4>6
        <5>2. SettingOf({"RDSTLS"}) = "RDSTLS"
          BY Zenon DEF SettingOf
        <5> QED BY <2>1, <4>2, <4>6, <5>1, <5>2 DEF Common
      <4> QED BY <4>2, <4>3, <4>4, <4>5, <4>6
    <3> QED BY <2>1, <3>1, <3>2
  <2> QED BY <2>1, <2>2, <2>4, <2>5, <2>6 DEF AgreedProtocol
<1> QED BY <1>1, Invariance, PTL

\* Of the tries of a client, the server serves none but the last.
THEOREM Service == Spec => []OnlyLastServed
<1>1. IInv => OnlyLastServed
  <2> SUFFICES ASSUME IInv, NEW c \in Conns, peer[c] = "MCS", ~legacy
               PROVE  /\ c = conn /\ reply[c].type = "RSP"
                      /\ reply[c].word # {} =>
                            sent[c] # "none" /\ hello[c] = AcceptLayer(reply[c])
    BY DEF OnlyLastServed
  <2> DEFINE w == request[c].word
             m == reply[c]
  <2>0. TypeOK /\ ConnInv /\ ShakeInv
    BY DEF IInv
  <2>1. m.type = "RSP" /\ (m.word = {} \/ sent[c] # "none")
    BY <2>0 DEF ShakeInv
  <2>2. CASE sent[c] # "none"
    BY <2>0, <2>1, <2>2 DEF ShakeInv
  <2>3. CASE m.word = {}
    <3>1. server \in SUBSET ServerBits /\ w \in SUBSET Bits /\ m = Confirm(server, w)
      BY <2>0, <2>1, SettingTypes DEF TypeOK, ConnInv
    <3>2. w = {}
      <4> HIDE DEF w, m
      <4> QED BY <2>1, <2>3, <3>1, ConfirmType
    <3>3. c = conn
      BY <2>0, <3>2 DEF ShakeInv
    <3> QED BY <2>1, <2>3, <3>3
  <2> QED BY <2>1, <2>2, <2>3
<1> QED BY <1>1, Invariance, PTL

\* On a sound network the client gives up only when nothing is shared.
THEOREM Completeness == Spec => []NothingMissed
<1>1. IInv => NothingMissed
  BY DEF IInv
<1> QED BY <1>1, Invariance, PTL

\* The protocol agreed on is the strongest one that both sides enable.
THEOREM Strength == Spec => []StrongestCommon
<1>1. IInv => StrongestCommon
  BY DEF IInv, SecureInv, StrongestCommon
<1> QED BY <1>1, Invariance, PTL
=============================================================================
