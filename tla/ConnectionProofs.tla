--------------------------- MODULE ConnectionProofs ---------------------------
(***************************************************************************)
(* Proofs about Connection: for any number of channels and for all         *)
(* settings of the two sides in which a client that announces multi-       *)
(* transport has a message channel for it (TransportNeedsChannel).         *)
(***************************************************************************)
EXTENDS Connection, FiniteSetTheorems, SequenceTheorems, TLAPS

-----------------------------------------------------------------------------
(* The ids and the order in which the channels are joined.                 *)

LEMMA MergeKeepsIds ==
    ASSUME NEW c \in ClientSettingsType, NEW d, d.channels = c.channels,
           d.autodetect = c.autodetect, d.heartbeat = c.heartbeat, d.multi = c.multi
    PROVE  /\ MessageChannelBlock(d) = MessageChannelBlock(c)
           /\ IdsOfChannels(d) = IdsOfChannels(c) /\ IdOfMessage(d) = IdOfMessage(c)
           /\ IdOfUser(d) = IdOfUser(c)
<1>1. MessageChannelBlock(d) = MessageChannelBlock(c)
  BY DEF MessageChannelBlock
<1> QED BY <1>1 DEF IdsOfChannels, IdOfMessage, IdOfUser

LEMMA IdTypes ==
    ASSUME NEW c \in ClientSettingsType
    PROVE  /\ c.channels \in Nat /\ IdOfUser(c) \in Nat /\ IdOfMessage(c) \in Nat
           /\ IdOfUser(c) > Global /\ IdOfUser(c) # IdOfMessage(c)
           /\ IdOfMessage(c) # 0 => IdOfMessage(c) > Global
           /\ IdOfMessage(c) # 0 <=> MessageChannelBlock(c)
           /\ IdsOfChannels(c) \in Seq(Nat) /\ Len(IdsOfChannels(c)) = c.channels
           /\ \A i \in 1..c.channels : IdsOfChannels(c)[i] = Global + i
<1>1. c.channels \in Nat
  BY SettingsAssumption DEF ClientSettingsType
<1>2. \A i \in 1..c.channels : IdsOfChannels(c)[i] = Global + i
  BY DEF IdsOfChannels
<1>3. IdsOfChannels(c) \in Seq(Nat) /\ Len(IdsOfChannels(c)) = c.channels
  BY <1>1 DEF IdsOfChannels, Global
<1> QED BY <1>1, <1>2, <1>3 DEF IdOfUser, IdOfMessage, Global

\* The order of the joins, element by element.
LEMMA OrderElements ==
    ASSUME NEW c \in ClientSettingsType
    PROVE  LET m == IF MessageChannelBlock(c) THEN 3 ELSE 2
           IN  /\ Order(c) \in Seq(Nat) /\ Len(Order(c)) = m + c.channels
               /\ Order(c)[1] = IdOfUser(c) /\ Order(c)[2] = Global
               /\ MessageChannelBlock(c) => Order(c)[3] = IdOfMessage(c)
               /\ \A i \in m + 1..m + c.channels : Order(c)[i] = Global + i - m
<1> DEFINE m == IF MessageChannelBlock(c) THEN 3 ELSE 2
<1>1. /\ c.channels \in Nat /\ IdOfUser(c) \in Nat /\ IdOfMessage(c) \in Nat /\ Global \in Nat
      /\ IdOfMessage(c) # 0 <=> MessageChannelBlock(c)
      /\ IdsOfChannels(c) \in Seq(Nat) /\ Len(IdsOfChannels(c)) = c.channels
      /\ \A i \in 1..c.channels : IdsOfChannels(c)[i] = Global + i
  BY IdTypes DEF Global
<1>2. Order(c) = <<IdOfUser(c), Global>> \o
                   (IF IdOfMessage(c) # 0 THEN <<IdOfMessage(c)>> ELSE <<>>) \o IdsOfChannels(c)
  BY DEF Order, JoinOrder, ClientMcs
<1> DEFINE two == <<IdOfUser(c), Global>>
<1> DEFINE msg == IF IdOfMessage(c) # 0 THEN <<IdOfMessage(c)>> ELSE <<>>
<1> DEFINE front == two \o msg
<1>3. Order(c) = front \o IdsOfChannels(c)
  BY <1>2
<1>4. /\ front \in Seq(Nat) /\ Len(front) = m /\ front[1] = IdOfUser(c) /\ front[2] = Global
      /\ MessageChannelBlock(c) => front[3] = IdOfMessage(c)
  <2>1. two \in Seq(Nat) /\ Len(two) = 2 /\ two[1] = IdOfUser(c) /\ two[2] = Global
    BY <1>1
  <2>2. /\ msg \in Seq(Nat) /\ Len(msg) = m - 2
        /\ MessageChannelBlock(c) => msg[1] = IdOfMessage(c)
    <3>1. CASE MessageChannelBlock(c)
      BY <1>1, <3>1
    <3>2. CASE ~MessageChannelBlock(c)
      BY <1>1, <3>2
    <3> QED BY <3>1, <3>2
  <2> HIDE DEF two, msg
  <2>3. /\ front \in Seq(Nat) /\ Len(front) = Len(two) + Len(msg)
        /\ \A i \in 1..Len(two) + Len(msg) :
              front[i] = IF i <= Len(two) THEN two[i] ELSE msg[i - Len(two)]
    BY <2>1, <2>2, ConcatProperties
  <2> HIDE DEF front
  <2>4. front[1] = IdOfUser(c) /\ front[2] = Global
    BY <2>1, <2>2, <2>3
  <2>5. MessageChannelBlock(c) => front[3] = IdOfMessage(c)
    BY <2>1, <2>2, <2>3
  <2> QED BY <2>1, <2>2, <2>3, <2>4, <2>5
<1>5. m \in {2, 3} /\ (MessageChannelBlock(c) => m = 3)
  OBVIOUS
<1> HIDE DEF front, m
<1>6. /\ Order(c) \in Seq(Nat) /\ Len(Order(c)) = m + c.channels
      /\ Order(c)[1] = IdOfUser(c) /\ Order(c)[2] = Global
      /\ MessageChannelBlock(c) => Order(c)[3] = IdOfMessage(c)
      /\ \A i \in m + 1..m + c.channels : Order(c)[i] = IdsOfChannels(c)[i - m]
  <2> DEFINE ids == IdsOfChannels(c)
  <2>0. /\ front \o ids \in Seq(Nat) /\ Len(front \o ids) = Len(front) + Len(ids)
        /\ \A i \in 1..Len(front) + Len(ids) :
              (front \o ids)[i] = IF i <= Len(front) THEN front[i] ELSE ids[i - Len(front)]
    <3> HIDE DEF ids
    <3>1. ids \in Seq(Nat)
      BY <1>1 DEF ids
    <3> QED BY <1>4, <3>1, ConcatProperties
  <2>1. /\ Order(c) \in Seq(Nat) /\ Len(Order(c)) = Len(front) + Len(IdsOfChannels(c))
        /\ \A i \in 1..Len(front) + Len(IdsOfChannels(c)) :
              Order(c)[i] = IF i <= Len(front) THEN front[i] ELSE IdsOfChannels(c)[i - Len(front)]
    BY <1>3, <2>0
  <2>2. Len(front) + Len(IdsOfChannels(c)) = m + c.channels
    BY <1>1, <1>4
  <2>3. /\ 1 \in 1..m + c.channels /\ 2 \in 1..m + c.channels /\ 1 <= m /\ 2 <= m
        /\ MessageChannelBlock(c) => 3 \in 1..m + c.channels /\ 3 <= m
    BY <1>1, <1>5
  <2>4. Order(c)[1] = IdOfUser(c) /\ Order(c)[2] = Global
    BY <1>4, <2>1, <2>2, <2>3
  <2>5. MessageChannelBlock(c) => Order(c)[3] = IdOfMessage(c)
    BY <1>4, <2>1, <2>2, <2>3
  <2>6. \A i \in m + 1..m + c.channels : Order(c)[i] = IdsOfChannels(c)[i - m]
    BY <1>1, <1>4, <1>5, <2>1, <2>2
  <2> QED BY <2>1, <2>2, <2>4, <2>5, <2>6
<1>7. \A i \in m + 1..m + c.channels : Order(c)[i] = Global + i - m
  BY <1>1, <1>5, <1>6
<1> QED BY <1>6, <1>7 DEF m

\* Whether it is the client or the server, and whatever is joined so far.
LEMMA JoinOrderOf ==
    ASSUME NEW c \in ClientSettingsType, NEW joined, NEW base
    PROVE  /\ JoinOrder(ClientMcs(c, IdOfUser(c), joined)) = Order(c)
           /\ JoinOrder(ServerMcs(c, IdOfUser(c), joined, base)) = Order(c)
BY DEF Order, JoinOrder, ClientMcs, ServerMcs

\* No two channels have the same id.
LEMMA OrderInjective ==
    ASSUME NEW c \in ClientSettingsType
    PROVE  IsInjective(Order(c))
<1> DEFINE m == IF MessageChannelBlock(c) THEN 3 ELSE 2
<1>1. /\ Order(c) \in Seq(Nat) /\ Len(Order(c)) = m + c.channels
      /\ Order(c)[1] = IdOfUser(c) /\ Order(c)[2] = Global
      /\ MessageChannelBlock(c) => Order(c)[3] = IdOfMessage(c)
      /\ \A i \in m + 1..m + c.channels : Order(c)[i] = Global + i - m
  BY OrderElements
<1>2. c.channels \in Nat
  BY IdTypes
<1> SUFFICES ASSUME NEW i \in 1..m + c.channels, NEW j \in 1..m + c.channels,
                    Order(c)[i] = Order(c)[j]
             PROVE  i = j
  BY <1>1, <1>2 DEF IsInjective
<1>3. CASE MessageChannelBlock(c)
  <2>1. m = 3 /\ IdOfUser(c) = 1003 + c.channels + 2 /\ IdOfMessage(c) = 1003 + c.channels + 1
    BY <1>3 DEF IdOfUser, IdOfMessage, Global
  <2>2. /\ Order(c)[1] = 1003 + c.channels + 2 /\ Order(c)[2] = 1003
        /\ Order(c)[3] = 1003 + c.channels + 1
        /\ \A x \in 4..3 + c.channels : Order(c)[x] = 1003 + x - 3
    BY <1>1, <1>3, <2>1 DEF Global
  <2>3. i \in 1..3 + c.channels /\ j \in 1..3 + c.channels
    BY <2>1
  <2> QED BY <1>2, <2>2, <2>3
<1>4. CASE ~MessageChannelBlock(c)
  <2>1. m = 2 /\ IdOfUser(c) = 1003 + c.channels + 1
    BY <1>4 DEF IdOfUser, Global
  <2>2. /\ Order(c)[1] = 1003 + c.channels + 1 /\ Order(c)[2] = 1003
        /\ \A x \in 3..2 + c.channels : Order(c)[x] = 1003 + x - 2
    BY <1>1, <1>4, <2>1 DEF Global
  <2>3. i \in 1..2 + c.channels /\ j \in 1..2 + c.channels
    BY <2>1
  <2> QED BY <1>2, <2>2, <2>3
<1> QED BY <1>3, <1>4

LEMMA OrderFacts ==
    ASSUME NEW c \in ClientSettingsType
    PROVE  /\ Order(c) \in Seq(Nat) /\ Len(Order(c)) \in Nat /\ Len(Order(c)) >= 2
           /\ Order(c)[1] = IdOfUser(c)
           /\ \A i, j \in 1..Len(Order(c)) : Order(c)[i] = Order(c)[j] => i = j
           /\ Range(Order(c)) = {Order(c)[i] : i \in 1..Len(Order(c))}
           /\ MessageChannelBlock(c) => IdOfMessage(c) \in Range(Order(c))
<1> DEFINE m == IF MessageChannelBlock(c) THEN 3 ELSE 2
<1>1. /\ Order(c) \in Seq(Nat) /\ Len(Order(c)) = m + c.channels
      /\ Order(c)[1] = IdOfUser(c)
      /\ MessageChannelBlock(c) => Order(c)[3] = IdOfMessage(c)
  BY OrderElements
<1>2. c.channels \in Nat
  BY IdTypes
<1>3. m \in {2, 3} /\ (MessageChannelBlock(c) => m = 3)
  OBVIOUS
<1> HIDE DEF m
<1>4. DOMAIN Order(c) = 1..Len(Order(c)) /\ Len(Order(c)) \in Nat /\ Len(Order(c)) >= 2
  BY <1>1, <1>2, <1>3
<1>5. \A i, j \in 1..Len(Order(c)) : Order(c)[i] = Order(c)[j] => i = j
  BY <1>4, OrderInjective DEF IsInjective
<1>6. Range(Order(c)) = {Order(c)[i] : i \in 1..Len(Order(c))}
  BY <1>4 DEF Range
<1>7. MessageChannelBlock(c) => IdOfMessage(c) \in Range(Order(c))
  <2> SUFFICES ASSUME MessageChannelBlock(c) PROVE IdOfMessage(c) \in Range(Order(c))
    OBVIOUS
  <2>1. 3 \in 1..Len(Order(c))
    BY <1>1, <1>2, <1>3
  <2> QED BY <1>1, <1>6, <2>1
<1> QED BY <1>1, <1>4, <1>5, <1>6, <1>7

-----------------------------------------------------------------------------
(* The channels are joined along a prefix of that order.                   *)

LEMMA Prefixes ==
    ASSUME NEW c \in ClientSettingsType
    PROVE  /\ FirstOf(c, 0) = {}
           /\ FirstOf(c, Len(Order(c))) = Range(Order(c))
           /\ \A k \in 0..Len(Order(c)) - 1 :
                /\ FirstOf(c, k) \cup {Order(c)[k + 1]} = FirstOf(c, k + 1)
                /\ {Order(c)[k + 1]} \cap Range(Order(c)) = {Order(c)[k + 1]}
<1>1. /\ Len(Order(c)) \in Nat
      /\ Range(Order(c)) = {Order(c)[i] : i \in 1..Len(Order(c))}
  BY OrderFacts
<1>2. FirstOf(c, 0) = {}
  BY DEF FirstOf
<1>3. FirstOf(c, Len(Order(c))) = Range(Order(c))
  BY <1>1 DEF FirstOf
<1>4. ASSUME NEW k \in 0..Len(Order(c)) - 1
      PROVE  /\ FirstOf(c, k) \cup {Order(c)[k + 1]} = FirstOf(c, k + 1)
             /\ {Order(c)[k + 1]} \cap Range(Order(c)) = {Order(c)[k + 1]}
  <2>1. k \in Nat /\ 1..k + 1 = (1..k) \cup {k + 1} /\ k + 1 \in 1..Len(Order(c))
    BY <1>1
  <2>2. FirstOf(c, k) \cup {Order(c)[k + 1]} = FirstOf(c, k + 1)
    BY <2>1 DEF FirstOf
  <2>3. {Order(c)[k + 1]} \cap Range(Order(c)) = {Order(c)[k + 1]}
    BY <1>1, <2>1
  <2> QED BY <2>2, <2>3
<1> QED BY <1>2, <1>3, <1>4

\* What is left to join after the first k channels, and the next of it.
LEMMA Remaining ==
    ASSUME NEW c \in ClientSettingsType, NEW mcs, NEW k \in 0..Len(Order(c)),
           JoinOrder(mcs) = Order(c), mcs.joined = FirstOf(c, k)
    PROVE  /\ Unjoined(mcs) = k + 1..Len(Order(c))
           /\ Unjoined(mcs) = {} <=> k = Len(Order(c))
           /\ k < Len(Order(c)) => NextToJoin(mcs) = Order(c)[k + 1]
<1>1. /\ Len(Order(c)) \in Nat
      /\ \A i, j \in 1..Len(Order(c)) : Order(c)[i] = Order(c)[j] => i = j
  BY OrderFacts
<1>2. \A i \in 1..Len(Order(c)) : Order(c)[i] \in FirstOf(c, k) <=> i <= k
  <2> TAKE i \in 1..Len(Order(c))
  <2>1. ASSUME i <= k PROVE Order(c)[i] \in FirstOf(c, k)
    BY <1>1, <2>1 DEF FirstOf
  <2>2. ASSUME Order(c)[i] \in FirstOf(c, k) PROVE i <= k
    <3>1. PICK j \in 1..k : Order(c)[i] = Order(c)[j]
      BY <2>2 DEF FirstOf
    <3>2. j \in 1..Len(Order(c))
      BY <1>1
    <3> QED BY <1>1, <3>1, <3>2
  <2> QED BY <2>1, <2>2
<1>3. Unjoined(mcs) = {i \in 1..Len(Order(c)) : Order(c)[i] \notin FirstOf(c, k)}
  BY DEF Unjoined
<1>4. Unjoined(mcs) = k + 1..Len(Order(c))
  BY <1>1, <1>2, <1>3
<1>5. Unjoined(mcs) = {} <=> k = Len(Order(c))
  <2>1. ASSUME k # Len(Order(c)) PROVE k + 1 \in k + 1..Len(Order(c))
    BY <1>1, <2>1
  <2>2. ASSUME k = Len(Order(c)) PROVE k + 1..Len(Order(c)) = {}
    BY <1>1, <2>2
  <2> QED BY <1>4, <2>1, <2>2
<1>6. ASSUME k < Len(Order(c)) PROVE NextToJoin(mcs) = Order(c)[k + 1]
  <2> DEFINE n == CHOOSE i \in k + 1..Len(Order(c)) : \A j \in k + 1..Len(Order(c)) : i =< j
  <2>1. n = k + 1
    <3>1. /\ k + 1 \in k + 1..Len(Order(c))
          /\ \A j \in k + 1..Len(Order(c)) : k + 1 =< j
      BY <1>1, <1>6
    <3>2. n \in k + 1..Len(Order(c)) /\ \A j \in k + 1..Len(Order(c)) : n =< j
      BY <3>1
    <3> HIDE DEF n
    <3> QED BY <1>1, <3>1, <3>2
  <2>2. NextToJoin(mcs) = Order(c)[n]
    BY <1>4 DEF NextToJoin
  <2> QED BY <2>1, <2>2
<1> QED BY <1>4, <1>5, <1>6

-----------------------------------------------------------------------------
(* The settings.                                                           *)

LEMMA MethodsFitLevel ==
    ASSUME NEW level \in Levels, NEW methods \in SUBSET Methods, NEW p,
           p.level = level, p.methods = EncryptionMethod(level, methods)
    PROVE  p.methods \in SUBSET Methods /\ ValidCryptoConfig(p)
<1>1. /\ level = "NONE" => p.methods = {}
      /\ level = "FIPS" => p.methods = {"FIPS"}
      /\ level # "NONE" => \E x \in Methods : p.methods = {x}
  <2>1. level = "NONE" => p.methods = {}
    BY DEF EncryptionMethod
  <2>2. level = "FIPS" => p.methods = {"FIPS"}
    BY DEF EncryptionMethod
  <2>3. level # "NONE" => p.methods \in {{"128BIT"}, {"56BIT"}, {"40BIT"}, {"FIPS"}}
    BY DEF EncryptionMethod
  <2>4. ASSUME level # "NONE" PROVE \E x \in Methods : p.methods = {x}
    <3>1. "128BIT" \in Methods /\ "56BIT" \in Methods /\ "40BIT" \in Methods /\ "FIPS" \in Methods
      BY DEF Methods
    <3> QED BY <2>3, <2>4, <3>1
  <2> QED BY <2>1, <2>2, <2>4
<1>2. level # "NONE" => Cardinality(p.methods) = 1
  BY <1>1, FS_Singleton
<1>3. p.methods \in SUBSET Methods
  BY <1>1
<1>4. ValidCryptoConfig(p)
  BY <1>1, <1>2 DEF ValidCryptoConfig
<1> QED BY <1>3, <1>4

LEMMA SettingsStay ==
    ASSUME SettingsInv, cset' = cset, sset' = sset, sstate # "MCS_CREATE_REQUEST"
    PROVE  SettingsInv'
BY DEF SettingsInv

-----------------------------------------------------------------------------
(* The phase that a side is in when it takes a step.                       *)

LEMMA PhaseOfClient ==
    ASSUME IInv
    PROVE  /\ cstate = "MCS_CREATE_REQUEST" => Starting /\ ckey = {} /\ skey = {}
           /\ cstate = "MCS_CREATE_RESPONSE" /\ toClient # <<>>
                => Responding /\ ckey = {} /\ skey = {}
           /\ cstate = "MCS_ATTACH_USER_CONFIRM" => Attaching /\ ckey = {} /\ skey = {}
           /\ cstate = "MCS_CHANNEL_JOIN_RESPONSE" => Joining /\ ckey = {} /\ skey = {}
           /\ cstate \in {"CONNECT_TIME_AUTO_DETECT_REQUEST", "LICENSING", "DEMAND_ACTIVE",
                          "MULTITRANSPORT_BOOTSTRAPPING_REQUEST"} => Joined
<1>1. Starting => cstate \in {"MCS_CREATE_REQUEST", "MCS_CREATE_RESPONSE"} /\ toClient = <<>>
  BY DEF Starting
<1>2. Responding => cstate = "MCS_CREATE_RESPONSE"
  BY DEF Responding
<1>3. Attaching => cstate = "MCS_ATTACH_USER_CONFIRM"
  BY DEF Attaching
<1>4. Joining => cstate = "MCS_CHANNEL_JOIN_RESPONSE"
  BY DEF Joining
<1>5. Joined => cstate \in {"CONNECT_TIME_AUTO_DETECT_REQUEST", "LICENSING", "DEMAND_ACTIVE",
                            "MULTITRANSPORT_BOOTSTRAPPING_REQUEST", "CONFIRM_ACTIVE"}
  BY DEF Joined, Securing, Detecting, Bootstrapping, Demanding
<1> QED BY <1>1, <1>2, <1>3, <1>4, <1>5 DEF IInv

LEMMA PhaseOfServer ==
    ASSUME IInv, toServer # <<>>
    PROVE  /\ sstate = "MCS_CREATE_REQUEST" => Starting /\ ckey = {} /\ skey = {}
           /\ sstate = "MCS_ERECT_DOMAIN" => Attaching /\ ckey = {} /\ skey = {}
           /\ sstate = "MCS_ATTACH_USER" => Attaching /\ ckey = {} /\ skey = {}
           /\ sstate = "MCS_CHANNEL_JOIN_REQUEST" => Joining /\ ckey = {} /\ skey = {}
           /\ sstate \in {"RDP_SECURITY_COMMENCEMENT", "SECURE_SETTINGS_EXCHANGE"}
                => Joined /\ Securing
           /\ sstate = "CONNECT_TIME_AUTO_DETECT_RESPONSE" => Joined /\ Detecting
           /\ sstate = "MULTITRANSPORT_BOOTSTRAPPING_RESPONSE" => Joined /\ Bootstrapping
<1>1. Starting => sstate = "MCS_CREATE_REQUEST"
  BY DEF Starting
<1>2. ~Responding
  BY DEF Responding
<1>3. Attaching => sstate \in {"MCS_ERECT_DOMAIN", "MCS_ATTACH_USER"}
  BY DEF Attaching
<1>4. Joining => sstate = "MCS_CHANNEL_JOIN_REQUEST"
  BY DEF Joining, JoinAsked, JoinConfirmed
<1>5. Joined => \/ Securing /\ sstate \in {"RDP_SECURITY_COMMENCEMENT", "SECURE_SETTINGS_EXCHANGE"}
                \/ Detecting /\ sstate = "CONNECT_TIME_AUTO_DETECT_RESPONSE"
                \/ Bootstrapping /\ sstate = "MULTITRANSPORT_BOOTSTRAPPING_RESPONSE"
  BY DEF Joined, Securing, Detecting, Bootstrapping, Demanding
<1> QED BY <1>1, <1>2, <1>3, <1>4, <1>5 DEF IInv

LEMMA NotStarting ==
    ASSUME Responding \/ Attaching \/ Joining \/ Joined
    PROVE  sstate # "MCS_CREATE_REQUEST"
BY DEF Responding, Attaching, Joining, Joined, JoinAsked, JoinConfirmed, Securing,
       Detecting, Bootstrapping, Demanding

-----------------------------------------------------------------------------
(* The initial states and the basic settings.                              *)

LEMMA InitInv ==
    ASSUME TransportNeedsChannel, Init
    PROVE  IInv
<1>1. PICK s \in ServerSettings :
        sset = [rdp |-> ServerSecurity(cset.rdp, s).rdp,
                level |-> ServerSecurity(cset.rdp, s).level,
                methods |-> {}, autodetect |-> s.autodetect,
                skipJoin |-> s.skipJoin, multi |-> s.multi, flags |-> s.flags]
  BY DEF Init
<1>2. cset \in ClientSettingsType /\ cset \in ClientSettings
  BY SettingsAssumption DEF Init
<1>3. /\ s.local \in BOOLEAN /\ s.level \in Levels /\ s.autodetect \in BOOLEAN
      /\ s.skipJoin \in BOOLEAN /\ s.multi \in BOOLEAN /\ s.flags \in SUBSET Transports
  BY SettingsAssumption
<1>4. cset.rdp \in BOOLEAN
  BY <1>2 DEF ClientSettingsType
<1>5. /\ sset.rdp = (cset.rdp /\ ~s.local)
      /\ sset.level = IF ~cset.rdp \/ s.local THEN "NONE"
                      ELSE IF s.level = "NONE" THEN "CLIENT_COMPATIBLE"
                      ELSE s.level
  BY <1>1 DEF ServerSecurity
<1>6. sset.rdp \in BOOLEAN /\ sset.level \in Levels /\ (sset.rdp <=> sset.level # "NONE")
  <2>1. CASE ~cset.rdp \/ s.local
    BY <1>3, <1>4, <1>5, <2>1 DEF Levels
  <2>2. CASE cset.rdp /\ ~s.local /\ s.level = "NONE"
    BY <1>3, <1>4, <1>5, <2>2 DEF Levels
  <2>3. CASE cset.rdp /\ ~s.local /\ s.level # "NONE"
    BY <1>3, <1>4, <1>5, <2>3 DEF Levels
  <2> QED BY <1>3, <1>4, <2>1, <2>2, <2>3
<1>7. sset \in ServerSettingsType
  BY <1>1, <1>3, <1>6 DEF ServerSettingsType
<1>8. sset.rdp => cset.rdp
  BY <1>5
<1>9. "FECR" \in cset.flags => MessageChannelBlock(cset)
  BY <1>2 DEF TransportNeedsChannel
<1>10. SettingsInv
  BY <1>2, <1>6, <1>7, <1>8, <1>9 DEF SettingsInv, Init
<1>11. Starting /\ ckey = {} /\ skey = {}
  BY DEF Init, Starting
<1> QED BY <1>10, <1>11 DEF IInv

LEMMA ClientBeginInv ==
    ASSUME IInv, ClientBegin
    PROVE  IInv'
<1>1. Starting /\ ckey = {} /\ skey = {}
  BY PhaseOfClient DEF ClientBegin
<1>2. toServer = <<>>
  BY <1>1 DEF Starting, ClientBegin
<1>3. toServer' = <<ConnectInitial(cset)>>
  BY <1>2 DEF ClientBegin
<1>4. Starting' /\ ckey' = {} /\ skey' = {}
  <2>1. cset' = cset /\ cmcs' = cmcs /\ smcs' = smcs /\ sstate' = sstate /\ toClient' = toClient
        /\ ckey' = ckey /\ skey' = skey /\ cstate' = "MCS_CREATE_RESPONSE"
    BY DEF ClientBegin, serverVars
  <2> QED BY <1>1, <1>3, <2>1 DEF Starting
<1>5. SettingsInv'
  <2>1. cset' = cset /\ sset' = sset /\ sstate' = sstate
    BY DEF ClientBegin, serverVars
  <2> QED BY <2>1 DEF IInv, SettingsInv
<1> QED BY <1>4, <1>5 DEF IInv

\* The server's rdpMcs.
ServerMcsType ==
  [user : Nat, message : Nat, channels : Seq(Nat), joined : SUBSET Nat, base : Nat]

LEMMA ServerConnectInitialInv ==
    ASSUME IInv, ServerConnectInitial
    PROVE  IInv'
<1>1. Starting /\ ckey = {} /\ skey = {} /\ SettingsInv
  BY PhaseOfServer DEF ServerConnectInitial, ServerReads, IInv
<1>2. toServer = <<ConnectInitial(cset)>> /\ cstate = "MCS_CREATE_RESPONSE"
  BY <1>1 DEF Starting, ServerConnectInitial, ServerReads
<1> DEFINE p == ConnectInitial(cset)
<1>3. /\ p.type = "ConnectInitial" /\ p.autodetect = cset.autodetect
      /\ p.skipJoin = cset.skipJoin /\ p.methods = cset.methods /\ p.flags = cset.flags
      /\ p.channels = cset.channels /\ p.message = MessageChannelBlock(cset)
  BY DEF ConnectInitial
<1>4. Head(toServer) = p /\ Tail(toServer) = <<>>
  BY <1>2
<1> HIDE DEF p
<1>5. /\ sset' = ServerMerge(sset, p)
      /\ smcs' = MessageChannelId(ChannelIds(smcs, p.channels), p.message)
      /\ toClient' = Append(toClient, ConnectResponse(sset', smcs'))
      /\ sstate' = "MCS_ERECT_DOMAIN" /\ skey' = skey /\ toServer' = <<>>
      /\ cset' = cset /\ cmcs' = cmcs /\ ckey' = ckey /\ cstate' = cstate
  BY <1>3, <1>4 DEF ServerConnectInitial, ServerReads, clientVars
<1>6. cset \in ClientSettingsType /\ sset \in ServerSettingsType
  BY <1>1 DEF SettingsInv
<1>7. /\ sset.level \in Levels /\ sset.methods \in SUBSET Methods /\ cset.methods \in SUBSET Methods
      /\ sset.flags \in SUBSET Transports /\ sset.rdp \in BOOLEAN
      /\ sset.autodetect \in BOOLEAN /\ sset.skipJoin \in BOOLEAN /\ sset.multi \in BOOLEAN
      /\ cset.autodetect \in BOOLEAN /\ cset.skipJoin \in BOOLEAN
  BY <1>6 DEF ClientSettingsType, ServerSettingsType
<1>8. EncryptionLevel(sset) = sset.level
  BY <1>1, <1>7 DEF EncryptionLevel, SettingsInv
<1>9. /\ sset'.rdp = sset.rdp /\ sset'.level = sset.level /\ sset'.multi = sset.multi
      /\ sset'.methods = EncryptionMethod(sset.level, cset.methods)
      /\ sset'.autodetect = (sset.autodetect /\ cset.autodetect)
      /\ sset'.skipJoin = (sset.skipJoin /\ cset.skipJoin)
      /\ sset'.flags = sset.flags \cap cset.flags
  BY <1>3, <1>5, <1>6, <1>8 DEF ServerMerge, MergeFlags, ServerSettingsType
<1>10. sset'.methods \in SUBSET Methods /\ ValidCryptoConfig(sset')
  BY <1>7, <1>9, MethodsFitLevel
<1>11. sset' \in ServerSettingsType
  <2>1. PICK f \in SUBSET Transports : f = MergeFlags(sset.flags, p.flags)
    BY <1>7 DEF MergeFlags
  <2>2. PICK m \in SUBSET Methods : m = EncryptionMethod(EncryptionLevel(sset), p.methods)
    BY <1>3, <1>8, <1>9, <1>10
  <2>3. PICK a \in BOOLEAN : a = (sset.autodetect /\ p.autodetect)
    OBVIOUS
  <2>4. PICK j \in BOOLEAN : j = (sset.skipJoin /\ p.skipJoin)
    OBVIOUS
  <2>5. sset' = [sset EXCEPT !.autodetect = a, !.skipJoin = j, !.flags = f, !.level = sset.level,
                             !.methods = m]
    BY <1>5, <1>6, <1>8, <2>1, <2>2, <2>3, <2>4 DEF ServerMerge
  <2> QED BY <1>6, <1>7, <2>5 DEF ServerSettingsType
<1>12. SettingsInv'
  BY <1>1, <1>5, <1>9, <1>10, <1>11 DEF SettingsInv
<1>13. smcs' = ServerMcs(cset, 0, {}, IdOfUser(cset))
  <2>1. cset.channels \in Nat
    BY <1>6, IdTypes
  <2>2. smcs = [user |-> 0, message |-> 0, channels |-> <<>>, joined |-> {}, base |-> 1004]
    BY <1>1 DEF Starting, Global
  <2>3. IdsOfChannels(cset) = [i \in 1..cset.channels |-> 1004 + i - 1]
    BY <2>1 DEF IdsOfChannels, Global
  <2> DEFINE mcs == ChannelIds(smcs, cset.channels)
  <2>4. mcs = [user |-> 0, message |-> 0, channels |-> IdsOfChannels(cset), joined |-> {},
               base |-> 1004 + cset.channels]
    <3>1. smcs.base = 1004
      BY <2>2
    <3>2. mcs = [smcs EXCEPT !.channels = IdsOfChannels(cset), !.base = 1004 + cset.channels]
      BY <2>3, <3>1 DEF ChannelIds
    <3>3. smcs \in ServerMcsType
      BY <2>2 DEF ServerMcsType
    <3>4. IdsOfChannels(cset) \in Seq(Nat) /\ 1004 + cset.channels \in Nat
      BY <1>6, <2>1, IdTypes
    <3> HIDE DEF mcs
    <3>5. mcs = [user |-> smcs.user, message |-> smcs.message, channels |-> IdsOfChannels(cset),
                 joined |-> smcs.joined, base |-> 1004 + cset.channels]
      <4>1. PICK b \in Nat : b = 1004 + cset.channels
        BY <3>4
      <4>2. mcs = [smcs EXCEPT !.channels = IdsOfChannels(cset), !.base = b]
        BY <3>2, <4>1
      <4>3. mcs = [user |-> smcs.user, message |-> smcs.message, channels |-> IdsOfChannels(cset),
                   joined |-> smcs.joined, base |-> b]
        <5>1. PICK c \in Seq(Nat) : c = IdsOfChannels(cset)
          BY <3>4
        <5>2. mcs = [smcs EXCEPT !.channels = c, !.base = b]
          BY <4>2, <5>1
        <5>3. mcs = [user |-> smcs.user, message |-> smcs.message, channels |-> c,
                     joined |-> smcs.joined, base |-> b]
          BY <3>3, <5>2 DEF ServerMcsType
        <5> QED BY <5>1, <5>3
      <4> QED BY <4>1, <4>3
    <3> QED BY <2>2, <3>5
  <2>0. smcs' = MessageChannelId(mcs, MessageChannelBlock(cset))
    BY <1>3, <1>5
  <2> HIDE DEF mcs
  <2>5. CASE MessageChannelBlock(cset)
    <3>1. IdOfMessage(cset) = 1004 + cset.channels /\ IdOfUser(cset) = 1004 + cset.channels + 1
      BY <2>1, <2>5 DEF IdOfMessage, IdOfUser, Global
    <3>2. smcs' = [mcs EXCEPT !.message = mcs.base, !.base = mcs.base + 1]
      BY <2>0, <2>5 DEF MessageChannelId
    <3>3. mcs.base = 1004 + cset.channels
      BY <2>4
    <3>4. smcs' = [mcs EXCEPT !.message = 1004 + cset.channels, !.base = 1004 + cset.channels + 1]
      BY <3>2, <3>3
    <3>5. smcs' = [user |-> 0, message |-> 1004 + cset.channels, channels |-> IdsOfChannels(cset),
                   joined |-> {}, base |-> 1004 + cset.channels + 1]
      <4>1. mcs \in ServerMcsType
        BY <1>6, <2>1, <2>4, IdTypes DEF ServerMcsType
      <4>2. smcs' = [user |-> mcs.user, message |-> 1004 + cset.channels, channels |-> mcs.channels,
                     joined |-> mcs.joined, base |-> 1004 + cset.channels + 1]
        <5>1. PICK x \in Nat, b \in Nat : x = 1004 + cset.channels /\ b = 1004 + cset.channels + 1
          BY <2>1
        <5>2. smcs' = [mcs EXCEPT !.message = x, !.base = b]
          BY <3>4, <5>1
        <5>3. smcs' = [user |-> mcs.user, message |-> x, channels |-> mcs.channels,
                       joined |-> mcs.joined, base |-> b]
          BY <4>1, <5>2 DEF ServerMcsType
        <5> QED BY <5>1, <5>3
      <4> QED BY <2>4, <4>2
    <3> QED BY <3>1, <3>5 DEF ServerMcs
  <2>6. CASE ~MessageChannelBlock(cset)
    <3>1. IdOfMessage(cset) = 0 /\ IdOfUser(cset) = 1004 + cset.channels
      BY <2>1, <2>6 DEF IdOfMessage, IdOfUser, Global
    <3> QED BY <2>0, <2>4, <2>6, <3>1 DEF MessageChannelId, ServerMcs
  <2> QED BY <2>5, <2>6
<1>14. Responding'
  <2>1. toClient' = <<ConnectResponse(sset', smcs')>>
    BY <1>1, <1>5 DEF Starting
  <2> QED BY <1>1, <1>2, <1>5, <1>9, <1>13, <2>1 DEF Responding, Starting, ServerUnattached
<1> QED BY <1>1, <1>5, <1>12, <1>14 DEF IInv

\* The client's rdpMcs.
ClientMcsType == [user : Nat, message : Nat, channels : Seq(Nat), joined : SUBSET Nat]

LEMMA ClientConnectResponseInv ==
    ASSUME IInv, ClientConnectResponse
    PROVE  IInv'
<1>1. Responding /\ ckey = {} /\ skey = {} /\ SettingsInv
  BY PhaseOfClient DEF ClientConnectResponse, ClientReads, IInv
<1> DEFINE p == ConnectResponse(sset, smcs)
<1>2. /\ p.type = "ConnectResponse" /\ p.channels = smcs.channels /\ p.message = smcs.message
      /\ p.skipJoin = sset.skipJoin /\ p.level = sset.level /\ p.methods = sset.methods
      /\ p.multi = (sset.multi /\ sset.flags # {}) /\ p.flags = sset.flags
  BY DEF ConnectResponse
<1>3. Head(toClient) = p /\ Tail(toClient) = <<>>
  BY <1>1 DEF Responding
<1> HIDE DEF p
<1>4. cset \in ClientSettingsType /\ sset \in ServerSettingsType /\ ValidCryptoConfig(sset)
  BY <1>1, NotStarting DEF SettingsInv
<1>5. ValidCryptoConfig(p)
  BY <1>2, <1>4 DEF ValidCryptoConfig
<1>6. /\ cset' = ClientMerge(cset, p)
      /\ cmcs' = [cmcs EXCEPT !.message = p.message, !.channels = p.channels]
      /\ toServer' = toServer \o <<DomainPdu("ErectDomainRequest", 0),
                                   DomainPdu("AttachUserRequest", 0)>>
      /\ cstate' = "MCS_ATTACH_USER_CONFIRM" /\ toClient' = <<>> /\ ckey' = ckey
      /\ sset' = sset /\ smcs' = smcs /\ skey' = skey /\ sstate' = sstate
  BY <1>2, <1>3, <1>5 DEF ClientConnectResponse, ClientReads, serverVars
<1>7. /\ cset.rdp \in BOOLEAN /\ cset.skipJoin \in BOOLEAN /\ cset.flags \in SUBSET Transports
      /\ sset.rdp \in BOOLEAN /\ sset.skipJoin \in BOOLEAN /\ sset.methods \in SUBSET Methods
  BY <1>4 DEF ClientSettingsType, ServerSettingsType
<1>8. /\ cset'.rdp = (cset.rdp /\ sset.level # "NONE")
      /\ cset'.skipJoin = (cset.skipJoin /\ sset.skipJoin)
      /\ cset'.methods = sset.methods
      /\ cset'.flags \in {cset.flags, cset.flags \cap sset.flags}
      /\ cset'.channels = cset.channels /\ cset'.autodetect = cset.autodetect
      /\ cset'.heartbeat = cset.heartbeat /\ cset'.multi = cset.multi
  BY <1>2, <1>4, <1>6 DEF ClientMerge, MergeFlags, ClientSettingsType
<1>9. cset' \in ClientSettingsType
  <2>1. /\ cset'.flags \in SUBSET Transports /\ cset'.rdp \in BOOLEAN
        /\ cset'.skipJoin \in BOOLEAN /\ cset'.methods \in SUBSET Methods
    BY <1>7, <1>8
  <2>2. PICK r, k, m, f : /\ r = cset'.rdp /\ k = cset'.skipJoin
                          /\ m = cset'.methods /\ f = cset'.flags
    OBVIOUS
  <2>3. cset' = [cset EXCEPT !.skipJoin = k, !.methods = m, !.rdp = r, !.flags = f]
    BY <1>4, <1>6, <2>2 DEF ClientMerge, ClientSettingsType
  <2> QED BY <1>4, <2>1, <2>2, <2>3 DEF ClientSettingsType
<1>10. /\ MessageChannelBlock(cset') = MessageChannelBlock(cset)
       /\ IdsOfChannels(cset') = IdsOfChannels(cset) /\ IdOfMessage(cset') = IdOfMessage(cset)
       /\ IdOfUser(cset') = IdOfUser(cset)
  BY <1>4, <1>8, MergeKeepsIds
<1>11. Agreed'
  <2>1. cset'.rdp = sset.rdp
    BY <1>1, <1>7, <1>8 DEF SettingsInv
  <2>2. cset'.skipJoin = sset.skipJoin
    BY <1>1, <1>7, <1>8 DEF Responding
  <2> QED BY <1>6, <1>8, <2>1, <2>2 DEF Agreed
<1>12. SettingsInv'
  <2>1. sset.flags \subseteq cset.flags /\ (sset.autodetect => cset.autodetect)
    BY <1>1, NotStarting DEF SettingsInv
  <2>2. sset.flags \subseteq cset'.flags /\ cset'.flags \subseteq cset.flags
    BY <1>8, <2>1
  <2>3. "FECR" \in cset'.flags => MessageChannelBlock(cset')
    BY <1>1, <1>10, <2>2 DEF SettingsInv
  <2>4. sset'.rdp => cset'.rdp
    BY <1>6, <1>11 DEF Agreed
  <2>5. sset'.autodetect => cset'.autodetect
    BY <1>6, <1>8, <2>1
  <2> QED BY <1>1, <1>4, <1>6, <1>9, <2>2, <2>3, <2>4, <2>5 DEF SettingsInv
<1>13. smcs' = ServerMcs(cset', 0, {}, IdOfUser(cset'))
  BY <1>1, <1>6, <1>10 DEF Responding, ServerUnattached, ServerMcs
<1>14. cmcs' = ClientMcs(cset', 0, {})
  <2>1. p.message = IdOfMessage(cset) /\ p.channels = IdsOfChannels(cset)
    BY <1>1, <1>2 DEF Responding, ServerUnattached, ServerMcs
  <2>2. p.message \in Nat /\ p.channels \in Seq(Nat)
    BY <1>4, <2>1, IdTypes
  <2>3. cmcs \in ClientMcsType /\ cmcs.user = 0 /\ cmcs.joined = {}
    BY <1>1 DEF Responding, NoMcs, ClientMcsType
  <2>4. cmcs' = [user |-> cmcs.user, message |-> p.message, channels |-> p.channels,
                 joined |-> cmcs.joined]
    BY <1>6, <2>2, <2>3 DEF ClientMcsType
  <2> QED BY <1>10, <2>1, <2>3, <2>4 DEF ClientMcs
<1>15. Attaching'
  <2>1. toServer' = <<DomainPdu("ErectDomainRequest", 0), DomainPdu("AttachUserRequest", 0)>>
    BY <1>1, <1>6 DEF Responding
  <2> QED BY <1>1, <1>6, <1>11, <1>13, <1>14, <2>1 DEF Attaching, Responding, ServerUnattached
<1> QED BY <1>1, <1>6, <1>12, <1>15 DEF IInv

-----------------------------------------------------------------------------
(* The domain and the user.                                                *)

LEMMA ServerErectDomainInv ==
    ASSUME IInv, ServerErectDomain
    PROVE  IInv'
<1>1. Attaching /\ ckey = {} /\ skey = {} /\ SettingsInv
  BY PhaseOfServer DEF ServerErectDomain, ServerReads, IInv
<1>2. /\ sstate = "MCS_ERECT_DOMAIN" /\ ServerUnattached /\ toClient = <<>>
      /\ toServer = <<DomainPdu("ErectDomainRequest", 0), DomainPdu("AttachUserRequest", 0)>>
  BY <1>1 DEF Attaching, ServerErectDomain, ServerReads
<1>3. Head(toServer).type = "ErectDomainRequest"
      /\ Tail(toServer) = <<DomainPdu("AttachUserRequest", 0)>>
  <2>1. DomainPdu("ErectDomainRequest", 0).type = "ErectDomainRequest"
    BY DEF DomainPdu, Pdu
  <2> QED BY <1>2, <2>1
<1>4. /\ sstate' = "MCS_ATTACH_USER" /\ toServer' = <<DomainPdu("AttachUserRequest", 0)>>
      /\ toClient' = toClient /\ smcs' = smcs /\ skey' = skey /\ sset' = sset
      /\ cset' = cset /\ cmcs' = cmcs /\ ckey' = ckey /\ cstate' = cstate
  BY <1>3 DEF ServerErectDomain, ServerReads, clientVars
<1>5. SettingsInv'
  BY <1>1, <1>4, NotStarting, SettingsStay
<1>6. Attaching'
  BY <1>1, <1>2, <1>4 DEF Attaching, Agreed, ServerUnattached
<1> QED BY <1>1, <1>4, <1>5, <1>6 DEF IInv

LEMMA ServerAttachUserInv ==
    ASSUME IInv, ServerAttachUser
    PROVE  IInv'
<1>1. Attaching /\ ckey = {} /\ skey = {} /\ SettingsInv
  BY PhaseOfServer DEF ServerAttachUser, ServerReads, IInv
<1>2. /\ sstate = "MCS_ATTACH_USER" /\ ServerUnattached /\ toClient = <<>>
      /\ toServer = <<DomainPdu("AttachUserRequest", 0)>>
  BY <1>1 DEF Attaching, ServerAttachUser, ServerReads
<1>3. Head(toServer).type = "AttachUserRequest" /\ Tail(toServer) = <<>>
  BY <1>2 DEF DomainPdu, Pdu
<1>4. /\ AttachUser /\ toServer' = <<>>
      /\ cset' = cset /\ cmcs' = cmcs /\ ckey' = ckey /\ cstate' = cstate
  BY <1>3 DEF ServerAttachUser, ServerReads, clientVars
<1>5. cset \in ClientSettingsType
  BY <1>1 DEF SettingsInv
<1> DEFINE user == IdOfUser(cset)
<1> DEFINE new == NewUser(smcs)
<1>6. user \in Nat /\ IdOfMessage(cset) \in Nat /\ IdsOfChannels(cset) \in Seq(Nat)
  BY <1>5, IdTypes
<1>7. new = ServerMcs(cset, user, {}, user + 1)
  <2> HIDE DEF user
  <2>1. smcs = [user |-> 0, message |-> IdOfMessage(cset), channels |-> IdsOfChannels(cset),
                joined |-> {}, base |-> user]
    BY <1>2 DEF ServerUnattached, ServerMcs, user
  <2>2. smcs \in ServerMcsType
    BY <1>6, <2>1 DEF ServerMcsType
  <2>3. PICK b \in Nat : b = user + 1
    BY <1>6
  <2>4. new = [smcs EXCEPT !.user = user, !.base = b]
    BY <2>1, <2>3 DEF NewUser
  <2> HIDE DEF new
  <2>5. new = [user |-> user, message |-> smcs.message, channels |-> smcs.channels,
               joined |-> smcs.joined, base |-> b]
    BY <1>6, <2>2, <2>4 DEF ServerMcsType
  <2> QED BY <2>1, <2>3, <2>5 DEF ServerMcs
<1>8. SkipJoin(new) = ServerMcs(cset, user, Range(Order(cset)), user + 1)
  <2>1. JoinOrder(new) = Order(cset)
    BY <1>5, <1>7, JoinOrderOf
  <2>2. PICK b, r, t : b = user + 1 /\ r = Range(Order(cset)) /\ t = SkipJoin(new)
    OBVIOUS
  <2> HIDE DEF new, user
  <2>3. new = [user |-> user, message |-> IdOfMessage(cset), channels |-> IdsOfChannels(cset),
               joined |-> {}, base |-> b]
    BY <1>7, <2>2 DEF ServerMcs
  <2>4. t = [new EXCEPT !.joined = r]
    BY <2>1, <2>2 DEF SkipJoin
  <2>5. t = [user |-> user, message |-> IdOfMessage(cset), channels |-> IdsOfChannels(cset),
             joined |-> r, base |-> b]
    BY <2>3, <2>4
  <2> QED BY <2>2, <2>5 DEF ServerMcs
<1>9. smcs' = ServerMcs(cset, user, IF sset.skipJoin THEN Range(Order(cset)) ELSE {}, user + 1)
  BY <1>4, <1>7, <1>8 DEF AttachUser
<1>10. /\ sstate' = IF sset.skipJoin THEN "RDP_SECURITY_COMMENCEMENT"
                    ELSE "MCS_CHANNEL_JOIN_REQUEST"
       /\ sset' = sset /\ skey' = skey
       /\ toClient' = <<DomainPdu("AttachUserConfirm", user)>>
  <2>1. smcs'.user = user
    BY <1>9 DEF ServerMcs
  <2>2. toClient' = <<DomainPdu("AttachUserConfirm", smcs'.user)>>
    BY <1>2, <1>4 DEF AttachUser
  <2> QED BY <1>4, <2>1, <2>2 DEF AttachUser
<1>11. SettingsInv'
  BY <1>1, <1>4, <1>10, NotStarting, SettingsStay
<1>12. Attaching'
  BY <1>1, <1>4, <1>9, <1>10 DEF Attaching, Agreed, ServerAttached
<1> QED BY <1>1, <1>4, <1>10, <1>11, <1>12 DEF IInv

LEMMA TwoInSequence ==
    ASSUME NEW a, NEW b
    PROVE  <<a>> \o <<b>> = <<a, b>> /\ Append(<<a>>, b) = <<a, b>>
<1> DEFINE s == <<a>>
<1> DEFINE t == <<b>>
<1> DEFINE u == <<a, b>>
<1> DEFINE S == {a, b}
<1>1. /\ s \in Seq(S) /\ t \in Seq(S) /\ Len(s) = 1 /\ Len(t) = 1 /\ s[1] = a /\ t[1] = b
      /\ b \in S
  OBVIOUS
<1>2. u \in Seq(S) /\ Len(u) = 2 /\ u[1] = a /\ u[2] = b
  OBVIOUS
<1> HIDE DEF s, t, u, S
<1>3. s \o t = u
  <2>1. /\ s \o t \in Seq(S) /\ Len(s \o t) = Len(s) + Len(t)
        /\ \A i \in 1..Len(s) + Len(t) : (s \o t)[i] = IF i <= Len(s) THEN s[i] ELSE t[i - Len(s)]
    BY <1>1, ConcatProperties
  <2> DEFINE v == s \o t
  <2>2. v \in Seq(S) /\ Len(v) = 2 /\ v[1] = a /\ v[2] = b
    BY <1>1, <2>1
  <2> HIDE DEF v
  <2>3. Len(v) = Len(u) /\ \A i \in 1..Len(v) : v[i] = u[i]
    BY <1>2, <2>2
  <2>4. v = u
    BY <1>2, <2>2, <2>3, SeqEqual
  <2> QED BY <2>4 DEF v
<1>4. Append(s, b) = u
  <2>1. Append(s, b) = s \o <<b>>
    BY <1>1, AppendIsConcat
  <2> QED BY <1>3, <2>1 DEF t
<1> QED BY <1>3, <1>4 DEF s, t, u

\* The client info, after the security exchange if there is one, ends the joins.
LEMMA ClientInfoSent ==
    ASSUME SendClientInfo, Agreed, sset \in ServerSettingsType,
           sstate = "RDP_SECURITY_COMMENCEMENT", toServer = <<>>, toClient' = <<>>, skey = {},
           cset' = cset, sset' = sset, skey' = skey, sstate' = sstate
    PROVE  ckey' = KeyOf(sset') /\ Securing'
<1>1. sset.rdp \in BOOLEAN
  BY DEF ServerSettingsType
<1> DEFINE se == Pdu("SecurityExchange", Global, {})
<1>2. /\ ckey' = ClientKeys.key /\ cstate' = "CONNECT_TIME_AUTO_DETECT_REQUEST"
      /\ toServer' = toServer \o ClientKeys.pdus \o <<ClientInfo'>>
  BY DEF SendClientInfo, ClientInfo
<1> DEFINE ci == ClientInfo'
<1> HIDE DEF se, ci
<1>3. CASE sset.rdp
  <2>1. ClientKeys = [key |-> cset.methods, pdus |-> <<se>>]
    BY <1>3 DEF ClientKeys, Agreed, se
  <2>2. ckey' = sset.methods /\ toServer' = <<>> \o <<se>> \o <<ci>>
    BY <1>2, <2>1 DEF Agreed, ci
  <2>3. <<>> \o <<se>> = <<se>>
    OBVIOUS
  <2>4. <<se>> \o <<ci>> = <<se, ci>>
    BY TwoInSequence
  <2>5. toServer' = <<se, ci>>
    BY <2>2, <2>3, <2>4
  <2>6. Securing'
    BY <1>2, <1>3, <2>5 DEF Securing, se, ci
  <2> QED BY <1>3, <2>2, <2>6 DEF KeyOf
<1>4. CASE ~sset.rdp
  <2>1. ClientKeys = [key |-> {}, pdus |-> <<>>]
    BY <1>4 DEF ClientKeys, Agreed
  <2>2. ckey' = {} /\ toServer' = <<>> \o <<>> \o <<ci>>
    BY <1>2, <2>1 DEF ci
  <2>3. toServer' = <<ci>>
    BY <2>2
  <2>4. Securing'
    BY <1>2, <1>4, <2>3 DEF Securing, ci
  <2> QED BY <1>4, <2>2, <2>4 DEF KeyOf
<1> QED BY <1>1, <1>3, <1>4

LEMMA ClientAttachUserConfirmInv ==
    ASSUME IInv, ClientAttachUserConfirm
    PROVE  IInv'
<1>1. Attaching /\ ckey = {} /\ skey = {} /\ SettingsInv
  BY PhaseOfClient DEF ClientAttachUserConfirm, ClientReads, IInv
<1> DEFINE user == IdOfUser(cset)
<1>2. /\ sstate = IF sset.skipJoin THEN "RDP_SECURITY_COMMENCEMENT" ELSE "MCS_CHANNEL_JOIN_REQUEST"
      /\ ServerAttached(IF sset.skipJoin THEN Range(Order(cset)) ELSE {})
      /\ toServer = <<>> /\ toClient = <<DomainPdu("AttachUserConfirm", user)>>
  BY <1>1 DEF Attaching, ClientAttachUserConfirm, ClientReads
<1>3. Agreed /\ cmcs = ClientMcs(cset, 0, {})
  BY <1>1 DEF Attaching
<1>4. cset \in ClientSettingsType /\ sset \in ServerSettingsType
  BY <1>1 DEF SettingsInv
<1> DEFINE p == DomainPdu("AttachUserConfirm", user)
<1>5. p.type = "AttachUserConfirm" /\ p.channel = user
  BY DEF DomainPdu, Pdu
<1>6. Head(toClient) = p /\ Tail(toClient) = <<>>
  BY <1>2
<1> DEFINE mcs == [cmcs EXCEPT !.user = p.channel]
<1>7. mcs = ClientMcs(cset, user, {})
  BY <1>3, <1>5 DEF ClientMcs
<1>8. JoinOrder(mcs) = Order(cset)
  BY <1>4, <1>7, JoinOrderOf
<1> HIDE DEF p
<1>9. /\ IF cset.skipJoin THEN cmcs' = SkipJoin(mcs) /\ SendClientInfo
         ELSE cmcs' = mcs /\ SendJoinRequest(p.channel)
      /\ toClient' = <<>> /\ cset' = cset
      /\ sset' = sset /\ smcs' = smcs /\ skey' = skey /\ sstate' = sstate
  BY <1>5, <1>6 DEF ClientAttachUserConfirm, ClientReads, serverVars
<1> HIDE DEF mcs
<1>10. SettingsInv'
  BY <1>1, <1>9, NotStarting, SettingsStay
<1>11. cset.skipJoin \in BOOLEAN /\ Agreed'
  BY <1>3, <1>4, <1>9 DEF ClientSettingsType, Agreed
<1>12. CASE cset.skipJoin
  <2>1. sset.skipJoin
    BY <1>3, <1>12 DEF Agreed
  <2>2. ckey' = KeyOf(sset') /\ Securing'
    BY <1>1, <1>2, <1>3, <1>4, <1>9, <1>12, <2>1, ClientInfoSent
  <2>3. cmcs' = ClientMcs(cset, user, Range(Order(cset)))
    <3>1. PICK r : r = Range(Order(cset))
      OBVIOUS
    <3>2. cmcs' = [mcs EXCEPT !.joined = r]
      BY <1>8, <1>9, <1>12, <3>1 DEF SkipJoin
    <3>3. cmcs' = ClientMcs(cset, user, r)
      BY <1>7, <3>2 DEF ClientMcs
    <3> QED BY <3>1, <3>3
  <2>4. ServerAttached(Range(Order(cset)))'
    BY <1>2, <1>9, <2>1 DEF ServerAttached
  <2>5. Joined'
    BY <1>9, <1>11, <2>2, <2>3, <2>4 DEF Joined, ClientAttached
  <2> QED BY <1>10, <2>5 DEF IInv
<1>13. CASE ~cset.skipJoin
  <2>1. ~sset.skipJoin
    BY <1>3, <1>13 DEF Agreed
  <2>2. cmcs' = ClientMcs(cset, user, {}) /\ SendJoinRequest(user)
    BY <1>5, <1>7, <1>9, <1>13
  <2>3. cmcs'.user = user
    BY <2>2 DEF ClientMcs
  <2>4. /\ toServer' = <<JoinRequest(user, user)>> /\ ckey' = ckey
        /\ cstate' = "MCS_CHANNEL_JOIN_RESPONSE"
    <3>1. toServer' = Append(toServer, JoinRequest(user, user))
      BY <2>2, <2>3 DEF SendJoinRequest, JoinRequest
    <3>2. toServer' = <<JoinRequest(user, user)>>
      BY <1>2, <3>1
    <3> QED BY <2>2, <3>2 DEF SendJoinRequest
  <2>5. FirstOf(cset, 0) = {} /\ Order(cset)[0 + 1] = user /\ 0 \in 0..Len(Order(cset)) - 1
    BY <1>4, OrderFacts, Prefixes
  <2>6. JoinAsked(0)'
    BY <1>2, <1>9, <2>1, <2>4, <2>5 DEF JoinAsked, ServerAttached
  <2>7. ClientAttached(FirstOf(cset, 0))'
    BY <1>9, <2>2, <2>5 DEF ClientAttached
  <2>8. Joining'
    BY <1>9, <1>11, <2>4, <2>5, <2>6, <2>7 DEF Joining
  <2> QED BY <1>1, <1>9, <1>10, <2>4, <2>8 DEF IInv
<1> QED BY <1>11, <1>12, <1>13

-----------------------------------------------------------------------------
(* The joins.                                                              *)

LEMMA ServerJoinInv ==
    ASSUME IInv, ServerJoin
    PROVE  IInv'
<1>1. Joining /\ ckey = {} /\ skey = {} /\ SettingsInv /\ toServer # <<>>
  BY PhaseOfServer DEF ServerJoin, ServerReads, IInv
<1>2. cset \in ClientSettingsType
  BY <1>1 DEF SettingsInv
<1>3. PICK k \in 0..Len(Order(cset)) - 1 : ClientAttached(FirstOf(cset, k)) /\ JoinAsked(k)
  BY <1>1 DEF Joining, JoinConfirmed
<1> DEFINE user == IdOfUser(cset)
<1> DEFINE id == Order(cset)[k + 1]
<1>4. /\ sstate = "MCS_CHANNEL_JOIN_REQUEST" /\ toClient = <<>>
      /\ smcs = ServerMcs(cset, user, FirstOf(cset, k), user + 1)
      /\ toServer = <<JoinRequest(id, user)>>
  BY <1>3 DEF JoinAsked, ServerAttached
<1>5. smcs.user = user /\ smcs.joined = FirstOf(cset, k) /\ JoinOrder(smcs) = Order(cset)
  BY <1>2, <1>4, JoinOrderOf DEF ServerMcs
<1> DEFINE p == JoinRequest(id, user)
<1>6. p.type = "ChannelJoinRequest" /\ p.user = user /\ p.channel = id
  BY DEF JoinRequest
<1>7. Head(toServer) = p /\ Tail(toServer) = <<>>
  BY <1>4
<1> HIDE DEF p
<1>8. /\ smcs' = [smcs EXCEPT !.joined = smcs.joined \cup ({id} \cap Range(JoinOrder(smcs)))]
      /\ toClient' = Append(toClient, DomainPdu("ChannelJoinConfirm", id))
      /\ sstate' = IF AllJoined(smcs') THEN "RDP_SECURITY_COMMENCEMENT"
                   ELSE "MCS_CHANNEL_JOIN_REQUEST"
      /\ sset' = sset /\ skey' = skey /\ toServer' = <<>>
      /\ cset' = cset /\ cmcs' = cmcs /\ ckey' = ckey /\ cstate' = cstate
  BY <1>5, <1>6, <1>7 DEF ServerJoin, ServerReads, clientVars
<1>9. smcs.joined \cup ({id} \cap Range(JoinOrder(smcs))) = FirstOf(cset, k + 1)
  BY <1>2, <1>5, Prefixes
<1>10. smcs' = ServerMcs(cset, user, FirstOf(cset, k + 1), user + 1)
  <2>1. PICK r, b : r = FirstOf(cset, k + 1) /\ b = user + 1
    OBVIOUS
  <2>2. smcs' = [smcs EXCEPT !.joined = r]
    BY <1>8, <1>9, <2>1
  <2>3. smcs = ServerMcs(cset, user, FirstOf(cset, k), b)
    BY <1>4, <2>1
  <2>4. smcs' = ServerMcs(cset, user, r, b)
    BY <2>2, <2>3 DEF ServerMcs
  <2> QED BY <2>1, <2>4
<1>11. AllJoined(smcs') <=> k + 1 = Len(Order(cset))
  <2>1. JoinOrder(smcs') = Order(cset) /\ smcs'.joined = FirstOf(cset, k + 1)
    BY <1>2, <1>10, JoinOrderOf DEF ServerMcs
  <2>2. k + 1 \in 0..Len(Order(cset))
    BY <1>2, OrderFacts
  <2> QED BY <1>2, <2>1, <2>2, Remaining DEF AllJoined
<1>12. JoinConfirmed(k)'
  <2>1. toClient' = <<DomainPdu("ChannelJoinConfirm", id)>>
    BY <1>4, <1>8
  <2> QED BY <1>8, <1>10, <1>11, <2>1 DEF JoinConfirmed, ServerAttached
<1>13. Joining'
  BY <1>1, <1>3, <1>8, <1>12 DEF Joining, Agreed, ClientAttached
<1>14. SettingsInv'
  BY <1>1, <1>8, NotStarting, SettingsStay
<1> QED BY <1>1, <1>8, <1>13, <1>14 DEF IInv

LEMMA ClientJoinConfirmInv ==
    ASSUME IInv, ClientJoinConfirm
    PROVE  IInv'
<1>1. Joining /\ ckey = {} /\ skey = {} /\ SettingsInv /\ toClient # <<>>
  BY PhaseOfClient DEF ClientJoinConfirm, ClientReads, IInv
<1>2. cset \in ClientSettingsType /\ sset \in ServerSettingsType /\ Agreed
  BY <1>1 DEF SettingsInv, Joining
<1>3. PICK k \in 0..Len(Order(cset)) - 1 : ClientAttached(FirstOf(cset, k)) /\ JoinConfirmed(k)
  BY <1>1 DEF Joining, JoinAsked
<1> DEFINE user == IdOfUser(cset)
<1> DEFINE id == Order(cset)[k + 1]
<1>4. /\ sstate = IF k + 1 = Len(Order(cset)) THEN "RDP_SECURITY_COMMENCEMENT"
                  ELSE "MCS_CHANNEL_JOIN_REQUEST"
      /\ smcs = ServerMcs(cset, user, FirstOf(cset, k + 1), user + 1)
      /\ cmcs = ClientMcs(cset, user, FirstOf(cset, k))
      /\ toServer = <<>> /\ toClient = <<DomainPdu("ChannelJoinConfirm", id)>>
  BY <1>3 DEF JoinConfirmed, ServerAttached, ClientAttached
<1>5. /\ k \in 0..Len(Order(cset)) /\ k < Len(Order(cset)) /\ k + 1 \in 0..Len(Order(cset))
      /\ k + 1 # Len(Order(cset)) => k + 1 < Len(Order(cset)) /\ k + 1 \in 0..Len(Order(cset)) - 1
  BY <1>2, OrderFacts
<1>6. NextToJoin(cmcs) = id
  <2>1. cmcs.joined = FirstOf(cset, k) /\ JoinOrder(cmcs) = Order(cset)
    BY <1>2, <1>4, JoinOrderOf DEF ClientMcs
  <2> QED BY <1>2, <1>5, <2>1, Remaining
<1> DEFINE p == DomainPdu("ChannelJoinConfirm", id)
<1>7. p.type = "ChannelJoinConfirm" /\ p.channel = id
  BY DEF DomainPdu, Pdu
<1>8. Head(toClient) = p /\ Tail(toClient) = <<>>
  BY <1>4
<1> HIDE DEF p
<1>9. /\ cmcs' = [cmcs EXCEPT !.joined = cmcs.joined \cup {id}]
      /\ IF Unjoined(cmcs') = {} THEN SendClientInfo ELSE SendJoinRequest(NextToJoin(cmcs'))
      /\ toClient' = <<>> /\ cset' = cset
      /\ sset' = sset /\ smcs' = smcs /\ skey' = skey /\ sstate' = sstate
  BY <1>6, <1>7, <1>8 DEF ClientJoinConfirm, ClientReads, serverVars
<1>10. cmcs' = ClientMcs(cset, user, FirstOf(cset, k + 1))
  <2>1. cmcs.joined \cup {id} = FirstOf(cset, k + 1)
    BY <1>2, <1>4, Prefixes DEF ClientMcs
  <2>2. PICK r : r = FirstOf(cset, k + 1)
    OBVIOUS
  <2>3. cmcs' = [cmcs EXCEPT !.joined = r]
    BY <1>9, <2>1, <2>2
  <2>4. cmcs' = ClientMcs(cset, user, r)
    BY <1>4, <2>3 DEF ClientMcs
  <2> QED BY <2>2, <2>4
<1>11. /\ Unjoined(cmcs') = {} <=> k + 1 = Len(Order(cset))
       /\ k + 1 < Len(Order(cset)) => NextToJoin(cmcs') = Order(cset)[k + 1 + 1]
  <2>1. cmcs'.joined = FirstOf(cset, k + 1) /\ JoinOrder(cmcs') = Order(cset)
    BY <1>2, <1>10, JoinOrderOf DEF ClientMcs
  <2> QED BY <1>2, <1>5, <2>1, Remaining
<1>12. SettingsInv'
  BY <1>1, <1>9, NotStarting, SettingsStay
<1>13. CASE k + 1 = Len(Order(cset))
  <2>1. ckey' = KeyOf(sset') /\ Securing'
    BY <1>1, <1>2, <1>4, <1>9, <1>11, <1>13, ClientInfoSent
  <2>2. FirstOf(cset, k + 1) = Range(Order(cset))
    BY <1>2, <1>13, Prefixes
  <2>3. ClientAttached(Range(Order(cset)))' /\ ServerAttached(Range(Order(cset)))'
    BY <1>4, <1>9, <1>10, <2>2 DEF ClientAttached, ServerAttached
  <2>4. Joined'
    BY <1>2, <1>9, <2>1, <2>3 DEF Joined, Agreed
  <2> QED BY <1>12, <2>4 DEF IInv
<1>14. CASE k + 1 # Len(Order(cset))
  <2>1. cmcs'.user = user
    BY <1>10 DEF ClientMcs
  <2>2. /\ toServer' = <<JoinRequest(Order(cset)[k + 1 + 1], user)>>
        /\ cstate' = "MCS_CHANNEL_JOIN_RESPONSE" /\ ckey' = ckey
    <3> DEFINE next == Order(cset)[k + 1 + 1]
    <3>1. SendJoinRequest(next)
      BY <1>5, <1>9, <1>11, <1>14
    <3> HIDE DEF next
    <3>2. toServer' = Append(toServer, JoinRequest(next, user))
      BY <2>1, <3>1 DEF SendJoinRequest, JoinRequest
    <3>3. toServer' = <<JoinRequest(next, user)>>
      BY <1>4, <3>2
    <3> QED BY <3>1, <3>3 DEF SendJoinRequest, next
  <2>3. JoinAsked(k + 1)'
    BY <1>4, <1>9, <1>14, <2>2 DEF JoinAsked, ServerAttached
  <2>4. ClientAttached(FirstOf(cset, k + 1))'
    BY <1>9, <1>10 DEF ClientAttached
  <2>5. Joining'
    BY <1>2, <1>5, <1>9, <1>14, <2>2, <2>3, <2>4 DEF Joining, Agreed
  <2> QED BY <1>1, <1>9, <1>12, <2>2, <2>5 DEF IInv
<1> QED BY <1>13, <1>14

-----------------------------------------------------------------------------
(* From the security exchange to Demand Active: all channels are joined,   *)
(* and both sides will use the same key.                                   *)

LEMMA PduFields ==
    ASSUME NEW t, NEW c, NEW k
    PROVE  Pdu(t, c, k).type = t /\ Pdu(t, c, k).channel = c /\ Pdu(t, c, k).key = k
BY DEF Pdu

LEMMA JoinedFacts ==
    ASSUME IInv, Joined
    PROVE  /\ SettingsInv /\ sstate # "MCS_CREATE_REQUEST"
           /\ cmcs.message = smcs.message /\ smcs.message \in Nat /\ smcs.message # Global
           /\ sset.autodetect => cset.autodetect /\ smcs.message # 0
           /\ "FECR" \in sset.flags => cset.flags # {} /\ smcs.message # 0
<1>1. SettingsInv /\ sstate # "MCS_CREATE_REQUEST"
  BY NotStarting DEF IInv
<1>2. cset \in ClientSettingsType
  BY <1>1 DEF SettingsInv
<1>3. cmcs.message = IdOfMessage(cset) /\ smcs.message = IdOfMessage(cset)
  BY DEF Joined, ClientAttached, ServerAttached, ClientMcs, ServerMcs
<1>4. /\ IdOfMessage(cset) \in Nat /\ IdOfMessage(cset) # Global
      /\ IdOfMessage(cset) # 0 <=> MessageChannelBlock(cset)
  BY <1>2, IdTypes DEF Global
<1>5. /\ sset.autodetect => cset.autodetect
      /\ sset.flags \subseteq cset.flags /\ ("FECR" \in cset.flags => MessageChannelBlock(cset))
  BY <1>1 DEF SettingsInv
<1>6. cset.autodetect => MessageChannelBlock(cset)
  BY DEF MessageChannelBlock
<1> QED BY <1>1, <1>3, <1>4, <1>5, <1>6

LEMMA StillJoined ==
    ASSUME IInv, Joined, cset' = cset, sset' = sset, cmcs' = cmcs, smcs' = smcs, ckey' = ckey,
           Securing' \/ Detecting' \/ Bootstrapping' \/ Demanding'
    PROVE  IInv'
<1>1. SettingsInv'
  BY JoinedFacts, SettingsStay
<1>2. Joined'
  BY DEF Joined, Agreed, ClientAttached, ServerAttached
<1> QED BY <1>1, <1>2 DEF IInv

LEMMA ServerEstablishKeysInv ==
    ASSUME IInv, ServerEstablishKeys
    PROVE  IInv'
<1>1. Joined /\ Securing /\ sset.rdp /\ sstate = "RDP_SECURITY_COMMENCEMENT"
  BY PhaseOfServer DEF ServerEstablishKeys, ServerReads
<1> DEFINE se == Pdu("SecurityExchange", Global, {})
<1>2. toServer = <<se, ClientInfo>> /\ toClient = <<>>
      /\ cstate = "CONNECT_TIME_AUTO_DETECT_REQUEST"
  BY <1>1 DEF Securing
<1>3. se.type = "SecurityExchange"
  BY PduFields
<1> HIDE DEF se
<1>4. Head(toServer) = se /\ Tail(toServer) = <<ClientInfo>>
  BY <1>2
<1>5. /\ skey' = sset.methods /\ sstate' = "SECURE_SETTINGS_EXCHANGE"
      /\ toServer' = <<ClientInfo>> /\ toClient' = toClient /\ sset' = sset /\ smcs' = smcs
      /\ cset' = cset /\ cmcs' = cmcs /\ ckey' = ckey /\ cstate' = cstate
  BY <1>3, <1>4 DEF ServerEstablishKeys, ServerReads, clientVars
<1>6. skey' = ckey'
  BY <1>1, <1>5 DEF Joined, KeyOf
<1>7. Securing'
  BY <1>2, <1>5, <1>6 DEF Securing, ClientInfo
<1> QED BY <1>1, <1>5, <1>7, StillJoined

\* After the license the server asks for multitransport or sends Demand Active.
LEMMA LicensingSent ==
    ASSUME FromLicensing(<<>>), toServer' = <<>>, skey = ckey,
           cstate = "CONNECT_TIME_AUTO_DETECT_REQUEST",
           sset' = sset, smcs' = smcs, skey' = skey, ckey' = ckey, cstate' = cstate
    PROVE  Bootstrapping' \/ Demanding'
<1> DEFINE vc == ValidClient
<1> DEFINE mr == MultitransportRequest
<1> DEFINE da == DemandActivePdu
<1>1. vc = ValidClient' /\ mr = MultitransportRequest' /\ da = DemandActivePdu'
  BY DEF ValidClient, MultitransportRequest, DemandActivePdu
<1> HIDE DEF vc, mr, da
<1>2. Append(<<>>, vc) = <<vc>>
  OBVIOUS
<1>3. FromMultitransport(<<vc>>)
  BY <1>2 DEF FromLicensing, vc
<1>4. CASE sset.multi /\ "FECR" \in sset.flags
  <2>1. toClient' = Append(<<vc>>, mr) /\ sstate' = "MULTITRANSPORT_BOOTSTRAPPING_RESPONSE"
    BY <1>3, <1>4 DEF FromMultitransport, mr
  <2>2. toClient' = <<vc, mr>>
    BY <2>1, TwoInSequence
  <2> QED BY <1>1, <1>4, <2>1, <2>2 DEF Bootstrapping
<1>5. CASE ~(sset.multi /\ "FECR" \in sset.flags)
  <2>1. toClient' = Append(<<vc>>, da) /\ sstate' = "MONITOR_LAYOUT"
    BY <1>3, <1>5 DEF FromMultitransport, DemandActive, DemandActivePdu, da
  <2>2. toClient' = <<vc, da>>
    BY <2>1, TwoInSequence
  <2> QED BY <1>1, <2>1, <2>2 DEF Demanding
<1> QED BY <1>4, <1>5

LEMMA ServerClientInfoInv ==
    ASSUME IInv, ServerClientInfo
    PROVE  IInv'
<1>1. /\ Joined /\ Securing /\ sset.rdp \in BOOLEAN
      /\ sstate = "SECURE_SETTINGS_EXCHANGE" \/ ~sset.rdp
  <2>1. sset.rdp \in BOOLEAN
    BY DEF IInv, SettingsInv, ServerSettingsType
  <2> QED BY <2>1, PhaseOfServer DEF ServerClientInfo, ServerReads
<1>2. /\ toServer = <<ClientInfo>> /\ toClient = <<>> /\ skey = ckey
      /\ cstate = "CONNECT_TIME_AUTO_DETECT_REQUEST"
  BY <1>1 DEF Securing, Joined, KeyOf
<1>3. ClientInfo.type = "ClientInfo" /\ ClientInfo.key = ckey
  BY PduFields DEF ClientInfo
<1>4. Head(toServer) = ClientInfo /\ Tail(toServer) = <<>>
  BY <1>2
<1>5. Readable(ClientInfo, skey)
  BY <1>2, <1>3 DEF Readable
<1>6. /\ FromAutoDetect(<<>>) /\ toServer' = <<>>
      /\ sset' = sset /\ smcs' = smcs /\ skey' = skey
      /\ cset' = cset /\ cmcs' = cmcs /\ ckey' = ckey /\ cstate' = cstate
  BY <1>2, <1>3, <1>4, <1>5 DEF ServerClientInfo, ServerReads, clientVars
<1>7. CASE sset.autodetect
  <2>1. toClient' = <<RttRequest>> /\ sstate' = "CONNECT_TIME_AUTO_DETECT_RESPONSE"
    BY <1>6, <1>7 DEF FromAutoDetect
  <2>2. RttRequest' = RttRequest
    BY <1>6 DEF RttRequest
  <2>3. Detecting'
    BY <1>2, <1>6, <1>7, <2>1, <2>2 DEF Detecting
  <2> QED BY <1>1, <1>6, <2>3, StillJoined
<1>8. CASE ~sset.autodetect
  <2>1. FromLicensing(<<>>)
    BY <1>6, <1>8 DEF FromAutoDetect
  <2>2. Bootstrapping' \/ Demanding'
    BY <1>2, <1>6, <2>1, LicensingSent
  <2> QED BY <1>1, <1>6, <2>2, StillJoined
<1> QED BY <1>7, <1>8

LEMMA ServerRttResponseInv ==
    ASSUME IInv, ServerRttResponse
    PROVE  IInv'
<1>1. Joined /\ Detecting /\ toServer # <<>>
  BY PhaseOfServer DEF ServerRttResponse, ServerReads
<1> DEFINE p == Pdu("RttResponse", smcs.message, skey)
<1>2. /\ toServer = <<p>> /\ toClient = <<>> /\ skey = ckey
      /\ cstate = "CONNECT_TIME_AUTO_DETECT_REQUEST"
  BY <1>1 DEF Detecting
<1>3. p.type = "RttResponse" /\ p.key = skey
  BY PduFields
<1> HIDE DEF p
<1>4. Head(toServer) = p /\ Tail(toServer) = <<>> /\ Readable(p, skey)
  BY <1>2, <1>3 DEF Readable
<1>5. /\ FromLicensing(<<>>) /\ toServer' = <<>>
      /\ sset' = sset /\ smcs' = smcs /\ skey' = skey
      /\ cset' = cset /\ cmcs' = cmcs /\ ckey' = ckey /\ cstate' = cstate
  BY <1>2, <1>3, <1>4 DEF ServerRttResponse, ServerReads, clientVars
<1>6. Bootstrapping' \/ Demanding'
  BY <1>2, <1>5, LicensingSent
<1> QED BY <1>1, <1>5, <1>6, StillJoined

LEMMA ServerMultitransportResponseInv ==
    ASSUME IInv, ServerMultitransportResponse
    PROVE  IInv'
<1>1. Joined /\ Bootstrapping /\ toServer # <<>>
  BY PhaseOfServer DEF ServerMultitransportResponse, ServerReads
<1> DEFINE p == Pdu("MultitransportResponse", smcs.message, skey)
<1>2. /\ toServer = <<p>> /\ toClient = <<>> /\ skey = ckey /\ "FECR" \in sset.flags
      /\ cstate = "MULTITRANSPORT_BOOTSTRAPPING_REQUEST"
  BY <1>1 DEF Bootstrapping
<1>3. p.type = "MultitransportResponse" /\ p.channel = smcs.message /\ p.key = skey
  BY PduFields
<1> HIDE DEF p
<1>4. Head(toServer) = p /\ Tail(toServer) = <<>> /\ Readable(p, skey)
  BY <1>2, <1>3 DEF Readable
<1>5. smcs.message > 0
  BY <1>1, <1>2, JoinedFacts
<1>6. /\ DemandActive(<<>>) /\ toServer' = <<>>
      /\ sset' = sset /\ smcs' = smcs /\ skey' = skey
      /\ cset' = cset /\ cmcs' = cmcs /\ ckey' = ckey /\ cstate' = cstate
  BY <1>2, <1>3, <1>4, <1>5
     DEF ServerMultitransportResponse, MultitransportResponse, ServerReads, clientVars
<1>7. toClient' = <<DemandActivePdu>> /\ sstate' = "MONITOR_LAYOUT"
  BY <1>6 DEF DemandActive, DemandActivePdu
<1>8. DemandActivePdu' = DemandActivePdu
  BY <1>6 DEF DemandActivePdu
<1>9. Demanding'
  BY <1>2, <1>6, <1>7, <1>8 DEF Demanding
<1> QED BY <1>1, <1>6, <1>9, StillJoined

\* What the client may find at the head of its queue, with the state it is in.
LEMMA ClientFinds ==
    ASSUME IInv, Joined, toClient # <<>>
    PROVE  /\ toServer = <<>> /\ skey = ckey
           /\ \/ /\ Detecting /\ cstate = "CONNECT_TIME_AUTO_DETECT_REQUEST"
                 /\ toClient = <<RttRequest>>
              \/ /\ Bootstrapping /\ cstate \in {"CONNECT_TIME_AUTO_DETECT_REQUEST", "LICENSING"}
                 /\ toClient = <<ValidClient, MultitransportRequest>>
              \/ /\ Bootstrapping /\ cstate = "MULTITRANSPORT_BOOTSTRAPPING_REQUEST"
                 /\ toClient = <<MultitransportRequest>>
              \/ /\ Demanding /\ cstate \in {"CONNECT_TIME_AUTO_DETECT_REQUEST", "LICENSING"}
                 /\ toClient = <<ValidClient, DemandActivePdu>>
              \/ /\ Demanding
                 /\ cstate \in {"MULTITRANSPORT_BOOTSTRAPPING_REQUEST", "DEMAND_ACTIVE"}
                 /\ toClient = <<DemandActivePdu>>
<1>1. ~Securing
  BY DEF Securing
<1>2. CASE Detecting
  BY <1>2 DEF Detecting
<1>3. CASE Bootstrapping
  BY <1>3 DEF Bootstrapping
<1>4. CASE Demanding
  BY <1>4 DEF Demanding
<1> QED BY <1>1, <1>2, <1>3, <1>4 DEF Joined

\* The requests are answered, and nothing else is taken for one.
LEMMA WhatIsRequested ==
    ASSUME IInv, Joined, skey = ckey
    PROVE  /\ Detecting => Requested(RttRequest)
           /\ Bootstrapping => Requested(MultitransportRequest)
           /\ ~Requested(ValidClient) /\ ~Requested(DemandActivePdu)
<1>1. /\ RttRequest.type = "RttRequest" /\ RttRequest.channel = smcs.message
      /\ RttRequest.key = skey
  BY PduFields DEF RttRequest
<1>2. /\ MultitransportRequest.type = "MultitransportRequest"
      /\ MultitransportRequest.channel = smcs.message /\ MultitransportRequest.key = skey
  BY PduFields DEF MultitransportRequest
<1>3. ValidClient.type = "ValidClient" /\ DemandActivePdu.type = "DemandActive"
  BY PduFields DEF ValidClient, DemandActivePdu
<1>4. DOMAIN Answers = {"RttRequest", "MultitransportRequest"}
  BY DEF Answers
<1>5. /\ cmcs.message = smcs.message
      /\ sset.autodetect => cset.autodetect /\ smcs.message # 0
      /\ "FECR" \in sset.flags => smcs.message # 0
  BY JoinedFacts
<1>6. Detecting => Requested(RttRequest)
  BY <1>1, <1>4, <1>5 DEF Detecting, Requested, OnMessageChannel, Readable, Answerable
<1>7. Bootstrapping => Requested(MultitransportRequest)
  BY <1>2, <1>4, <1>5 DEF Bootstrapping, Requested, OnMessageChannel, Readable, Answerable
<1>8. ~Requested(ValidClient) /\ ~Requested(DemandActivePdu)
  BY <1>3, <1>4 DEF Requested, Answerable
<1> QED BY <1>6, <1>7, <1>8

LEMMA ClientAnswersInv ==
    ASSUME IInv, ClientAnswers
    PROVE  IInv'
<1>1. Joined /\ toClient # <<>> /\ Requested(Head(toClient)) /\ AnswerRequest(Head(toClient))
  BY PhaseOfClient DEF ClientAnswers, ClientReads
<1>2. toServer = <<>> /\ skey = ckey
  BY <1>1, ClientFinds
<1>3. /\ sset' = sset /\ smcs' = smcs /\ skey' = skey /\ sstate' = sstate
      /\ cset' = cset /\ cmcs' = cmcs /\ ckey' = ckey /\ cstate' = cstate
      /\ toClient' = Tail(toClient)
      /\ toServer' = <<Pdu(Answers[Head(toClient).type], cmcs.message, ckey)>>
  BY <1>1, <1>2 DEF ClientAnswers, ClientReads, AnswerRequest, serverVars
<1>4. cmcs.message = smcs.message
  BY <1>1, JoinedFacts
<1>5. ~Requested(ValidClient) /\ ~Requested(DemandActivePdu)
  BY <1>1, <1>2, WhatIsRequested
<1>6. \/ Detecting /\ toClient = <<RttRequest>>
      \/ /\ Bootstrapping /\ cstate = "MULTITRANSPORT_BOOTSTRAPPING_REQUEST"
         /\ toClient = <<MultitransportRequest>>
  <2>1. ASSUME NEW a, NEW b, toClient = <<a, b>> \/ toClient = <<a>> PROVE Head(toClient) = a
    BY <2>1
  <2>2. Head(toClient) # ValidClient /\ Head(toClient) # DemandActivePdu
    BY <1>1, <1>5
  <2> QED BY <1>1, <2>1, <2>2, ClientFinds
<1>7. CASE Detecting /\ toClient = <<RttRequest>>
  <2>1. Head(toClient).type = "RttRequest" /\ Tail(toClient) = <<>>
    BY <1>7, PduFields DEF RttRequest
  <2>2. toServer' = <<Pdu("RttResponse", smcs.message, skey)>>
    BY <1>2, <1>3, <1>4, <2>1 DEF Answers
  <2>3. Detecting'
    BY <1>3, <1>7, <2>1, <2>2 DEF Detecting
  <2> QED BY <1>1, <1>3, <2>3, StillJoined
<1>8. CASE /\ Bootstrapping /\ cstate = "MULTITRANSPORT_BOOTSTRAPPING_REQUEST"
           /\ toClient = <<MultitransportRequest>>
  <2>1. Head(toClient).type = "MultitransportRequest" /\ Tail(toClient) = <<>>
    BY <1>8, PduFields DEF MultitransportRequest
  <2>2. toServer' = <<Pdu("MultitransportResponse", smcs.message, skey)>>
    BY <1>2, <1>3, <1>4, <2>1 DEF Answers
  <2>3. Bootstrapping'
    BY <1>3, <1>8, <2>1, <2>2 DEF Bootstrapping
  <2> QED BY <1>1, <1>3, <2>3, StillJoined
<1> QED BY <1>6, <1>7, <1>8

LEMMA ClientTriesAgainInv ==
    ASSUME IInv, ClientTriesAgain
    PROVE  IInv'
<1>1. Joined /\ toClient # <<>> /\ ~Requested(Head(toClient))
      /\ cstate \in {"CONNECT_TIME_AUTO_DETECT_REQUEST", "MULTITRANSPORT_BOOTSTRAPPING_REQUEST"}
  BY PhaseOfClient DEF ClientTriesAgain, ClientReads
<1>2. toServer = <<>> /\ skey = ckey
  BY <1>1, ClientFinds
<1>3. /\ sset' = sset /\ smcs' = smcs /\ skey' = skey /\ sstate' = sstate
      /\ cset' = cset /\ cmcs' = cmcs /\ ckey' = ckey
      /\ toClient' = toClient /\ toServer' = toServer
      /\ cstate' = IF cstate = "CONNECT_TIME_AUTO_DETECT_REQUEST"
                   THEN "LICENSING" ELSE "DEMAND_ACTIVE"
  BY DEF ClientTriesAgain, ClientReads, serverVars
<1>4. /\ Detecting => Requested(RttRequest)
      /\ Bootstrapping => Requested(MultitransportRequest)
  BY <1>1, <1>2, WhatIsRequested
<1>5. \/ /\ Bootstrapping /\ cstate = "CONNECT_TIME_AUTO_DETECT_REQUEST"
         /\ toClient = <<ValidClient, MultitransportRequest>>
      \/ /\ Demanding /\ cstate = "CONNECT_TIME_AUTO_DETECT_REQUEST"
         /\ toClient = <<ValidClient, DemandActivePdu>>
      \/ /\ Demanding /\ cstate = "MULTITRANSPORT_BOOTSTRAPPING_REQUEST"
         /\ toClient = <<DemandActivePdu>>
  <2>1. ASSUME NEW a, toClient = <<a>> PROVE Head(toClient) = a
    BY <2>1
  <2>2. /\ Detecting => Head(toClient) # RttRequest
        /\ Bootstrapping => Head(toClient) # MultitransportRequest
    BY <1>1, <1>4
  <2> QED BY <1>1, <2>1, <2>2, ClientFinds
<1>6. /\ ValidClient' = ValidClient /\ DemandActivePdu' = DemandActivePdu
      /\ MultitransportRequest' = MultitransportRequest
  BY <1>3 DEF ValidClient, DemandActivePdu, MultitransportRequest
<1>7. Bootstrapping' \/ Demanding'
  BY <1>2, <1>3, <1>5, <1>6 DEF Bootstrapping, Demanding
<1> QED BY <1>1, <1>3, <1>7, StillJoined

LEMMA ClientLicenseInv ==
    ASSUME IInv, ClientLicense
    PROVE  IInv'
<1>1. Joined /\ toClient # <<>> /\ cstate = "LICENSING"
  BY PhaseOfClient DEF ClientLicense, ClientReads
<1>2. toServer = <<>> /\ skey = ckey
  BY <1>1, ClientFinds
<1>3. \/ Bootstrapping /\ toClient = <<ValidClient, MultitransportRequest>>
      \/ Demanding /\ toClient = <<ValidClient, DemandActivePdu>>
  BY <1>1, ClientFinds
<1>4. Head(toClient) = ValidClient
  BY <1>3
<1>5. /\ ValidClient.type = "ValidClient" /\ ValidClient.channel = Global
      /\ ValidClient.key = skey
  BY PduFields DEF ValidClient
<1>6. Readable(ValidClient, ckey) /\ ValidClient.channel # cmcs.message
  BY <1>1, <1>2, <1>5, JoinedFacts DEF Readable
<1>7. /\ cstate' = IF cset.flags # {} THEN "MULTITRANSPORT_BOOTSTRAPPING_REQUEST"
                   ELSE "DEMAND_ACTIVE"
      /\ toClient' = Tail(toClient) /\ toServer' = toServer
      /\ sset' = sset /\ smcs' = smcs /\ skey' = skey /\ sstate' = sstate
      /\ cset' = cset /\ cmcs' = cmcs /\ ckey' = ckey
  BY <1>4, <1>5, <1>6 DEF ClientLicense, ClientReads, serverVars
<1>8. DemandActivePdu' = DemandActivePdu /\ MultitransportRequest' = MultitransportRequest
  BY <1>7 DEF DemandActivePdu, MultitransportRequest
<1>9. CASE Bootstrapping /\ toClient = <<ValidClient, MultitransportRequest>>
  <2>1. toClient' = <<MultitransportRequest>>
    BY <1>7, <1>9
  <2>2. cset.flags # {}
    BY <1>1, <1>9, JoinedFacts DEF Bootstrapping
  <2>3. Bootstrapping'
    BY <1>2, <1>7, <1>8, <1>9, <2>1, <2>2 DEF Bootstrapping
  <2> QED BY <1>1, <1>7, <2>3, StillJoined
<1>10. CASE Demanding /\ toClient = <<ValidClient, DemandActivePdu>>
  <2>1. toClient' = <<DemandActivePdu>>
    BY <1>7, <1>10
  <2>2. Demanding'
    BY <1>2, <1>7, <1>8, <1>10, <2>1 DEF Demanding
  <2> QED BY <1>1, <1>7, <2>2, StillJoined
<1> QED BY <1>3, <1>9, <1>10

LEMMA ClientDemandActiveInv ==
    ASSUME IInv, ClientDemandActive
    PROVE  IInv'
<1>1. Joined /\ toClient # <<>> /\ cstate = "DEMAND_ACTIVE"
  BY PhaseOfClient DEF ClientDemandActive, ClientReads
<1>2. toServer = <<>> /\ skey = ckey /\ Demanding /\ toClient = <<DemandActivePdu>>
  BY <1>1, ClientFinds
<1>3. /\ DemandActivePdu.type = "DemandActive" /\ DemandActivePdu.channel = Global
      /\ DemandActivePdu.key = skey
  BY PduFields DEF DemandActivePdu
<1>4. Head(toClient) = DemandActivePdu /\ Tail(toClient) = <<>>
  BY <1>2
<1>5. Readable(DemandActivePdu, ckey)
  BY <1>2, <1>3 DEF Readable
<1>6. /\ cstate' = "CONFIRM_ACTIVE" /\ toClient' = <<>> /\ toServer' = toServer
      /\ sset' = sset /\ smcs' = smcs /\ skey' = skey /\ sstate' = sstate
      /\ cset' = cset /\ cmcs' = cmcs /\ ckey' = ckey
  BY <1>3, <1>4, <1>5 DEF ClientDemandActive, ClientReads, serverVars
<1>7. Demanding'
  BY <1>2, <1>6 DEF Demanding
<1> QED BY <1>1, <1>6, <1>7, StillJoined

-----------------------------------------------------------------------------
(* The inductive invariant holds, and what follows from it.                *)

LEMMA NextInv ==
    ASSUME IInv, [Next]_vars
    PROVE  IInv'
<1>1. ASSUME ClientNext PROVE IInv'
  BY <1>1, ClientBeginInv, ClientConnectResponseInv, ClientAttachUserConfirmInv,
     ClientJoinConfirmInv, ClientAnswersInv, ClientTriesAgainInv, ClientLicenseInv,
     ClientDemandActiveInv DEF ClientNext
<1>2. ASSUME ServerNext PROVE IInv'
  BY <1>2, ServerConnectInitialInv, ServerErectDomainInv, ServerAttachUserInv, ServerJoinInv,
     ServerEstablishKeysInv, ServerClientInfoInv, ServerRttResponseInv,
     ServerMultitransportResponseInv DEF ServerNext
<1>3. CASE UNCHANGED vars
  <2>1. /\ cset' = cset /\ cmcs' = cmcs /\ ckey' = ckey /\ cstate' = cstate
        /\ sset' = sset /\ smcs' = smcs /\ skey' = skey /\ sstate' = sstate
        /\ toClient' = toClient /\ toServer' = toServer
    BY <1>3 DEF vars, clientVars, serverVars
  <2>2. SettingsInv = SettingsInv'
    BY <2>1 DEF SettingsInv
  <2>3. Starting = Starting' /\ Responding = Responding'
    BY <2>1 DEF Starting, Responding, ServerUnattached
  <2>4. Attaching = Attaching'
    BY <2>1 DEF Attaching, Agreed, ServerUnattached, ServerAttached
  <2>5. Joining => Joining'
    BY <2>1 DEF Joining, Agreed, ClientAttached, ServerAttached, JoinAsked, JoinConfirmed
  <2>6. Securing = Securing'
    BY <2>1 DEF Securing, ClientInfo
  <2>7. Detecting = Detecting'
    BY <2>1 DEF Detecting, RttRequest
  <2>8. Bootstrapping = Bootstrapping'
    BY <2>1 DEF Bootstrapping, ValidClient, MultitransportRequest
  <2>9. Demanding = Demanding'
    BY <2>1 DEF Demanding, ValidClient, DemandActivePdu
  <2>10. Joined => Joined'
    BY <2>1, <2>6, <2>7, <2>8, <2>9 DEF Joined, Agreed, ClientAttached, ServerAttached
  <2> QED BY <2>1, <2>2, <2>3, <2>4, <2>5, <2>10 DEF IInv
<1> QED BY <1>1, <1>2, <1>3 DEF Next

LEMMA NothingFailsInv ==
    ASSUME IInv PROVE NothingFails
BY DEF IInv, NothingFails, Starting, Responding, Attaching, Joining, Joined, JoinAsked,
       JoinConfirmed, Securing, Detecting, Bootstrapping, Demanding

LEMMA SettingsAgreeInv ==
    ASSUME IInv PROVE SettingsAgree
<1>1. SettingsInv
  BY DEF IInv
<1>2. Starting \/ Responding => cstate \in {"MCS_CREATE_REQUEST", "MCS_CREATE_RESPONSE"}
  BY DEF Starting, Responding
<1>3. CASE Attaching
  <2>1. Agreed /\ sstate # "MULTITRANSPORT_BOOTSTRAPPING_RESPONSE"
    BY <1>3 DEF Attaching
  <2>2. cmcs.message = smcs.message /\ cmcs.channels = smcs.channels
    BY <1>3 DEF Attaching, ServerAttached, ServerUnattached, ClientMcs, ServerMcs
  <2> QED BY <2>1, <2>2 DEF SettingsAgree, Agreed
<1>4. CASE Joining
  <2>1. Agreed /\ sstate # "MULTITRANSPORT_BOOTSTRAPPING_RESPONSE"
    BY <1>4 DEF Joining, JoinAsked, JoinConfirmed
  <2>2. cmcs.message = smcs.message /\ cmcs.channels = smcs.channels
    BY <1>4 DEF Joining, JoinAsked, JoinConfirmed, ClientAttached, ServerAttached,
                ClientMcs, ServerMcs
  <2> QED BY <2>1, <2>2 DEF SettingsAgree, Agreed
<1>5. CASE Joined
  <2>1. Agreed
    BY <1>5 DEF Joined
  <2>2. cmcs.message = smcs.message /\ cmcs.channels = smcs.channels
    BY <1>5 DEF Joined, ClientAttached, ServerAttached, ClientMcs, ServerMcs
  <2>3. sstate = "MULTITRANSPORT_BOOTSTRAPPING_RESPONSE" => "FECR" \in sset.flags
    BY <1>5 DEF Joined, Securing, Detecting, Bootstrapping, Demanding
  <2>4. sset.flags \subseteq cset.flags
    BY <1>1, <1>5, NotStarting DEF SettingsInv
  <2> QED BY <2>1, <2>2, <2>3, <2>4 DEF SettingsAgree, Agreed
<1>6. CASE Starting \/ Responding
  BY <1>2, <1>6 DEF SettingsAgree
<1> QED BY <1>3, <1>4, <1>5, <1>6 DEF IInv

LEMMA JoinsAgreeInv ==
    ASSUME IInv PROVE JoinsAgree
<1>1. cset \in ClientSettingsType
  BY DEF IInv, SettingsInv
<1>2. Starting \/ Responding \/ Attaching \/ Joining =>
        cstate \in {"MCS_CREATE_REQUEST", "MCS_CREATE_RESPONSE",
                    "MCS_ATTACH_USER_CONFIRM", "MCS_CHANNEL_JOIN_RESPONSE"}
  BY DEF Starting, Responding, Attaching, Joining
<1>3. CASE Joined
  <2>1. cmcs.joined = Range(Order(cset)) /\ smcs.joined = Range(Order(cset))
    BY <1>3 DEF Joined, ClientAttached, ServerAttached, ClientMcs, ServerMcs
  <2>2. JoinOrder(cmcs) = Order(cset)
    BY <1>1, <1>3, JoinOrderOf DEF Joined, ClientAttached
  <2>3. IsInjective(Order(cset))
    BY <1>1, OrderInjective
  <2> QED BY <2>1, <2>2, <2>3 DEF JoinsAgree
<1>4. CASE ~Joined
  BY <1>2, <1>4 DEF IInv, JoinsAgree
<1> QED BY <1>3, <1>4

LEMMA MessageChannelExistsInv ==
    ASSUME IInv PROVE MessageChannelExists
<1> USE DEF MessageTypes
<1>1. cset \in ClientSettingsType
  BY DEF IInv, SettingsInv
<1> SUFFICES ASSUME NEW p \in Range(toClient) \cup Range(toServer), p.type \in MessageTypes
             PROVE  p.channel # 0 /\ p.channel \in cmcs.joined \cap smcs.joined
  BY DEF MessageChannelExists
<1>2. CASE Starting \/ Responding
  <2>1. p \in {ConnectInitial(cset), ConnectResponse(sset, smcs)}
    <3> DEFINE ci == ConnectInitial(cset)
    <3> DEFINE cr == ConnectResponse(sset, smcs)
    <3>1. toClient \in {<<>>, <<cr>>} /\ toServer \in {<<>>, <<ci>>}
      BY <1>2 DEF Starting, Responding
    <3> HIDE DEF ci, cr
    <3>2. Range(toClient) \subseteq {ci, cr} /\ Range(toServer) \subseteq {ci, cr}
      BY <3>1 DEF Range
    <3> QED BY <3>2 DEF ci, cr
  <2>2. /\ ConnectInitial(cset).type = "ConnectInitial"
        /\ ConnectResponse(sset, smcs).type = "ConnectResponse"
    BY DEF ConnectInitial, ConnectResponse
  <2> QED BY <2>1, <2>2
<1>3. CASE Attaching
  <2>1. p \in {DomainPdu("ErectDomainRequest", 0), DomainPdu("AttachUserRequest", 0),
               DomainPdu("AttachUserConfirm", IdOfUser(cset))}
    <3> DEFINE ed == DomainPdu("ErectDomainRequest", 0)
    <3> DEFINE ar == DomainPdu("AttachUserRequest", 0)
    <3> DEFINE ac == DomainPdu("AttachUserConfirm", IdOfUser(cset))
    <3>1. toClient \in {<<>>, <<ac>>} /\ toServer \in {<<>>, <<ar>>, <<ed, ar>>}
      BY <1>3 DEF Attaching
    <3> HIDE DEF ed, ar, ac
    <3>2. Range(toClient) \subseteq {ed, ar, ac} /\ Range(toServer) \subseteq {ed, ar, ac}
      BY <3>1 DEF Range
    <3> QED BY <3>2 DEF ed, ar, ac
  <2>2. p.type \in {"ErectDomainRequest", "AttachUserRequest", "AttachUserConfirm"}
    BY <2>1, PduFields DEF DomainPdu
  <2> QED BY <2>2
<1>4. CASE Joining
  <2>1. PICK k \in 0..Len(Order(cset)) - 1 : JoinAsked(k) \/ JoinConfirmed(k)
    BY <1>4 DEF Joining
  <2> DEFINE id == Order(cset)[k + 1]
  <2> DEFINE user == IdOfUser(cset)
  <2>2. p \in {JoinRequest(id, user), DomainPdu("ChannelJoinConfirm", id)}
    <3> DEFINE jr == JoinRequest(id, user)
    <3> DEFINE jc == DomainPdu("ChannelJoinConfirm", id)
    <3>1. toClient \in {<<>>, <<jc>>} /\ toServer \in {<<>>, <<jr>>}
      BY <2>1 DEF JoinAsked, JoinConfirmed
    <3> HIDE DEF jr, jc
    <3>2. Range(toClient) \subseteq {jr, jc} /\ Range(toServer) \subseteq {jr, jc}
      BY <3>1 DEF Range
    <3> QED BY <3>2 DEF jr, jc
  <2>3. /\ JoinRequest(id, user).type = "ChannelJoinRequest"
        /\ DomainPdu("ChannelJoinConfirm", id).type = "ChannelJoinConfirm"
    BY PduFields DEF JoinRequest, DomainPdu
  <2> QED BY <2>2, <2>3
<1>5. CASE Joined
  <2>1. IdOfMessage(cset) # 0 => MessageChannelBlock(cset)
    BY <1>1, IdTypes
  <2>2. MessageChannelBlock(cset) => IdOfMessage(cset) \in Range(Order(cset))
    BY <1>1, OrderFacts
  <2>3. /\ cmcs.joined = Range(Order(cset)) /\ smcs.joined = Range(Order(cset))
        /\ smcs.message = IdOfMessage(cset)
    BY <1>5 DEF Joined, ClientAttached, ServerAttached, ClientMcs, ServerMcs
  <2> SUFFICES p.channel = smcs.message /\ smcs.message # 0
    BY <2>1, <2>2, <2>3
  <2>4. /\ sset.autodetect => smcs.message # 0
        /\ "FECR" \in sset.flags => smcs.message # 0
    BY <1>5, JoinedFacts
  <2>5. CASE Securing
    <3>1. p \in {Pdu("SecurityExchange", Global, {}), ClientInfo}
      <4> DEFINE se == Pdu("SecurityExchange", Global, {})
      <4>1. toClient = <<>> /\ toServer \in {<<ClientInfo>>, <<se, ClientInfo>>}
        BY <2>5 DEF Securing
      <4> HIDE DEF se
      <4>2. Range(toClient) \subseteq {se, ClientInfo} /\ Range(toServer) \subseteq {se, ClientInfo}
        BY <4>1 DEF Range
      <4> QED BY <4>2 DEF se
    <3>2. p.type \in {"SecurityExchange", "ClientInfo"}
      BY <3>1, PduFields DEF ClientInfo
    <3> QED BY <3>2
  <2>6. CASE Detecting
    <3>1. p \in {RttRequest, Pdu("RttResponse", smcs.message, skey)}
      <4> DEFINE rr == Pdu("RttResponse", smcs.message, skey)
      <4>1. toClient \in {<<>>, <<RttRequest>>} /\ toServer \in {<<>>, <<rr>>}
        BY <2>6 DEF Detecting
      <4> HIDE DEF rr
      <4>2. Range(toClient) \subseteq {RttRequest, rr} /\ Range(toServer) \subseteq {RttRequest, rr}
        BY <4>1 DEF Range
      <4> QED BY <4>2 DEF rr
    <3>2. p.channel = smcs.message
      BY <3>1, PduFields DEF RttRequest
    <3> QED BY <2>4, <2>6, <3>2 DEF Detecting
  <2>7. CASE Bootstrapping
    <3>1. p \in {ValidClient, MultitransportRequest,
                 Pdu("MultitransportResponse", smcs.message, skey)}
      <4> DEFINE mr == Pdu("MultitransportResponse", smcs.message, skey)
      <4> DEFINE all == {ValidClient, MultitransportRequest, mr}
      <4>1. /\ toClient \in {<<>>, <<MultitransportRequest>>, <<ValidClient, MultitransportRequest>>}
            /\ toServer \in {<<>>, <<mr>>}
        BY <2>7 DEF Bootstrapping
      <4> HIDE DEF mr
      <4>2. ValidClient \in all /\ MultitransportRequest \in all /\ mr \in all
        OBVIOUS
      <4>3. Range(toClient) \subseteq all /\ Range(toServer) \subseteq all
        BY <4>1, <4>2 DEF Range
      <4> QED BY <4>3 DEF mr
    <3>2. p # ValidClient
      BY PduFields DEF ValidClient
    <3>3. p.channel = smcs.message
      BY <3>1, <3>2, PduFields DEF MultitransportRequest
    <3> QED BY <2>4, <2>7, <3>3 DEF Bootstrapping
  <2>8. CASE Demanding
    <3>1. p \in {ValidClient, DemandActivePdu}
      <4> DEFINE all == {ValidClient, DemandActivePdu}
      <4>1. /\ toClient \in {<<>>, <<DemandActivePdu>>, <<ValidClient, DemandActivePdu>>}
            /\ toServer = <<>>
        BY <2>8 DEF Demanding
      <4>2. Range(toClient) \subseteq all /\ Range(toServer) \subseteq all
        BY <4>1 DEF Range
      <4> QED BY <4>2
    <3>2. p.type \in {"ValidClient", "DemandActive"}
      BY <3>1, PduFields DEF ValidClient, DemandActivePdu
    <3> QED BY <3>2
  <2> QED BY <1>5, <2>5, <2>6, <2>7, <2>8 DEF Joined
<1> QED BY <1>2, <1>3, <1>4, <1>5 DEF IInv

-----------------------------------------------------------------------------
\* The phases of the sequence follow each other, for any number of channels and all
\* settings of the two sides (rdp_client_connect, rdp_recv_callback_int and
\* peer_recv_callback_internal): in each, one side waits for what the other has
\* sent last, and they agree on settings, ids and keys.
THEOREM PhasesFollow ==
    ASSUME TransportNeedsChannel
    PROVE  Spec => []IInv
<1>1. Init => IInv
  BY InitInv
<1>2. IInv /\ [Next]_vars => IInv'
  BY NextInv
<1> QED BY <1>1, <1>2, PTL DEF Spec

\* No PDU meets a side in a state that cannot take it (rdp_recv_callback_int,
\* peer_recv_callback_internal).
THEOREM NoPduFails ==
    ASSUME TransportNeedsChannel
    PROVE  Spec => []NothingFails
<1>1. IInv => NothingFails
  BY NothingFailsInv
<1> QED BY <1>1, PhasesFollow, PTL

\* From the Connect Response on client and server have merged their settings to the
\* same security, method, skip of the joins and channel ids (gcc.c, rdp_update_
\* encryption_level), and only a client that allows multitransport is asked for it.
THEOREM SettingsAreMerged ==
    ASSUME TransportNeedsChannel
    PROVE  Spec => []SettingsAgree
<1>1. IInv => SettingsAgree
  BY SettingsAgreeInv
<1> QED BY <1>1, PhasesFollow, PTL

\* The client info is sent only when both sides have joined every channel, by request
\* (rdp_client_connect_mcs_channel_join_confirm) or by the agreed skip, and no two
\* channels have got the same id.
THEOREM ChannelsAreJoined ==
    ASSUME TransportNeedsChannel
    PROVE  Spec => []JoinsAgree
<1>1. IInv => JoinsAgree
  BY JoinsAgreeInv
<1> QED BY <1>1, PhasesFollow, PTL

\* Auto-detect and multitransport PDUs are sent on a message channel that exists and
\* that both sides have joined (rdp_client_connect_auto_detect,
\* multitransport_server_request).
THEOREM MessageChannelIsJoined ==
    ASSUME TransportNeedsChannel
    PROVE  Spec => []MessageChannelExists
<1>1. IInv => MessageChannelExists
  BY MessageChannelExistsInv
<1> QED BY <1>1, PhasesFollow, PTL

\* The two sides take turns, and neither waits for a PDU that the other will not send:
\* at most one of the queues holds PDUs, and they are both empty only before the
\* client begins and when the sequence is complete.
SidesTakeTurns ==
  /\ toClient = <<>> \/ toServer = <<>>
  /\ toClient = <<>> /\ toServer = <<>> =>
       \/ cstate = "MCS_CREATE_REQUEST" /\ sstate = "MCS_CREATE_REQUEST"
       \/ cstate = "CONFIRM_ACTIVE" /\ sstate = "MONITOR_LAYOUT"

\* The safety part of Connected: with the settings they have come to, client and server
\* never both wait (rdp_client_transition_to_state, rdp_server_transition_to_state).
THEOREM NobodyWaitsInVain ==
    ASSUME TransportNeedsChannel
    PROVE  Spec => []SidesTakeTurns
<1>1. IInv => SidesTakeTurns
  <2> SUFFICES ASSUME IInv PROVE SidesTakeTurns
    OBVIOUS
  <2>1. CASE Starting \/ Responding \/ Attaching
    BY <2>1 DEF Starting, Responding, Attaching, SidesTakeTurns
  <2>2. CASE Joining
    BY <2>2 DEF Joining, JoinAsked, JoinConfirmed, SidesTakeTurns
  <2>3. CASE Joined
    BY <2>3 DEF Joined, Securing, Detecting, Bootstrapping, Demanding, SidesTakeTurns
  <2> QED BY <2>1, <2>2, <2>3 DEF IInv
<1> QED BY <1>1, PhasesFollow, PTL
=============================================================================
