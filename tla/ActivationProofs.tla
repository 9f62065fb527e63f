--------------------------- MODULE ActivationProofs ---------------------------
(***************************************************************************)
(* Proofs about Activation: for any number of reactivations, of inputs and *)
(* of updates, and for all settings of the two sides.                      *)
(***************************************************************************)
EXTENDS Activation, SequenceTheorems, TLAPS

-----------------------------------------------------------------------------
(* What is appended to a queue.                                            *)

LEMMA SendNone ==
    ASSUME NEW S, NEW q \in Seq(S), NEW g
    PROVE  Send(q, <<>>, g) = q
<1>1. [i \in 1..Len(<<>>) |-> Pdu(<<>>[i], g)] = <<>>
  OBVIOUS
<1> QED BY <1>1, ConcatEmptySeq DEF Send

LEMMA SendOne ==
    ASSUME NEW S, NEW q \in Seq(S), NEW t, NEW g, Pdu(t, g) \in S
    PROVE  Send(q, <<t>>, g) = Append(q, Pdu(t, g)) /\ Send(q, <<t>>, g) \in Seq(S)
<1>1. [i \in 1..Len(<<t>>) |-> Pdu(<<t>>[i], g)] = <<Pdu(t, g)>>
  OBVIOUS
<1> QED BY <1>1, AppendIsConcat, AppendProperties DEF Send

LEMMA SendTwo ==
    ASSUME NEW S, NEW q \in Seq(S), NEW t, NEW u, NEW g, Pdu(t, g) \in S, Pdu(u, g) \in S
    PROVE  /\ Send(q, <<t, u>>, g) = Append(Append(q, Pdu(t, g)), Pdu(u, g))
           /\ Send(q, <<t, u>>, g) \in Seq(S)
<1>1. [i \in 1..Len(<<t, u>>) |-> Pdu(<<t, u>>[i], g)] = <<Pdu(t, g), Pdu(u, g)>>
  OBVIOUS
<1>2. <<Pdu(t, g), Pdu(u, g)>> = Append(<<Pdu(t, g)>>, Pdu(u, g))
  OBVIOUS
<1> QED BY <1>1, <1>2, AppendIsConcat, AppendProperties, ConcatAssociative DEF Send

-----------------------------------------------------------------------------
(* The stream of the server.                                               *)

LEMMA PlaceOfType ==
    ASSUME NEW p \in ServerPdus
    PROVE  /\ p = Pdu(p.type, p.gen) /\ p.gen \in Generations /\ p.gen \in Nat
           /\ PlaceOf(p) \in Int /\ 8 * p.gen <= PlaceOf(p) /\ PlaceOf(p) <= 8 * p.gen + 7
           /\ p.type \in DOMAIN ServerPlace
           /\ p.type = "DeactivateAll" <=> PlaceOf(p) = 8 * p.gen
           /\ p.type = "DemandActive" <=> PlaceOf(p) = 8 * p.gen + 1
           /\ p.type = "MonitorLayout" <=> PlaceOf(p) = 8 * p.gen + 2
           /\ p.type = "SCSynchronize" <=> PlaceOf(p) = 8 * p.gen + 3
           /\ p.type = "SCCooperate" <=> PlaceOf(p) = 8 * p.gen + 4
           /\ p.type = "SCGranted" <=> PlaceOf(p) = 8 * p.gen + 5
           /\ p.type = "SCFontMap" <=> PlaceOf(p) = 8 * p.gen + 6
           /\ p.type = "Update" <=> PlaceOf(p) = 8 * p.gen + 7
<1>1. p = Pdu(p.type, p.gen) /\ p.gen \in Generations /\ p.gen \in Nat
  BY BoundsAssumption DEF ServerPdus, Pdu, Generations
<1>2. p.type \in {"DemandActive", "DeactivateAll", "MonitorLayout", "Update", "SCSynchronize",
                  "SCCooperate", "SCGranted", "SCFontMap"}
  BY DEF ServerPdus, ServerFlag
<1> QED BY <1>1, <1>2 DEF PlaceOf, ServerPlace

LEMMA PlaceInjective ==
    ASSUME NEW p \in ServerPdus, NEW r \in ServerPdus, PlaceOf(p) = PlaceOf(r)
    PROVE  p = r
<1>1. p.gen = r.gen
  BY PlaceOfType
<1>2. p.type = r.type
  BY <1>1, PlaceOfType DEF ServerPlace
<1> QED BY <1>1, <1>2, PlaceOfType

\* A PDU by its type.
LEMMA PduPlaces ==
    ASSUME NEW g \in Generations
    PROVE  /\ \A t \in DOMAIN ServerPlace :
                 /\ Pdu(t, g) \in ServerPdus /\ Pdu(t, g).type = t /\ Pdu(t, g).gen = g
                 /\ PlaceOf(Pdu(t, g)) = 8 * g + ServerPlace[t]
           /\ g \in Nat
           /\ PlaceOf(Pdu("DeactivateAll", g)) = 8 * g
           /\ PlaceOf(Pdu("DemandActive", g)) = 8 * g + 1
           /\ PlaceOf(Pdu("MonitorLayout", g)) = 8 * g + 2
           /\ PlaceOf(Pdu("SCSynchronize", g)) = 8 * g + 3
           /\ PlaceOf(Pdu("SCCooperate", g)) = 8 * g + 4
           /\ PlaceOf(Pdu("SCGranted", g)) = 8 * g + 5
           /\ PlaceOf(Pdu("SCFontMap", g)) = 8 * g + 6
           /\ PlaceOf(Pdu("Update", g)) = 8 * g + 7
<1>1. \A t \in DOMAIN ServerPlace :
         /\ Pdu(t, g) \in ServerPdus /\ Pdu(t, g).type = t /\ Pdu(t, g).gen = g
         /\ PlaceOf(Pdu(t, g)) = 8 * g + ServerPlace[t]
  BY DEF ServerPdus, ServerPlace, ServerFlag, Pdu, PlaceOf
<1>2. g \in Nat
  BY BoundsAssumption DEF Generations
<1> QED BY <1>1, <1>2 DEF ServerPlace

\* The head of the stream is the first PDU that is due, or an update before it.
LEMMA ServerStreamHead ==
    ASSUME NEW q \in Seq(ServerPdus), NEW lo \in Int, NEW hi \in Int,
           ServerStream(q, lo, hi), q # <<>>
    PROVE  /\ Head(q) \in ServerPdus /\ lo < PlaceOf(Head(q)) /\ PlaceOf(Head(q)) <= hi
           /\ Head(q).type = "MonitorLayout" => conf.serverLayout
           /\ \A p \in ServerPdus : Due(p) /\ lo < PlaceOf(p) => PlaceOf(Head(q)) <= PlaceOf(p)
           /\ \A i \in 1..Len(q) : PlaceOf(Head(q)) <= PlaceOf(q[i])
<1>1. Head(q) = q[1] /\ 1 \in 1..Len(q) /\ Len(q) \in Nat /\ Head(q) \in ServerPdus
  BY HeadTailProperties, LenProperties, EmptySeq
<1>2. /\ lo < PlaceOf(Head(q)) /\ PlaceOf(Head(q)) <= hi
      /\ Head(q).type = "MonitorLayout" => conf.serverLayout
  BY <1>1 DEF ServerStream
<1>3. \A i \in 1..Len(q) : q[i] \in ServerPdus
  BY ElementOfSeq
<1>4. \A i \in 1..Len(q) : PlaceOf(Head(q)) <= PlaceOf(q[i])
  <2> SUFFICES ASSUME NEW i \in 1..Len(q) PROVE PlaceOf(q[1]) <= PlaceOf(q[i])
    BY <1>1
  <2>1. PlaceOf(q[1]) \in Int /\ PlaceOf(q[i]) \in Int
    BY <1>1, <1>3, PlaceOfType
  <2>2. CASE i = 1
    BY <2>1, <2>2
  <2>3. CASE i # 1
    <3>1. 1 < i
      BY <1>1, <2>3
    <3> QED BY <1>1, <2>1, <3>1 DEF ServerStream
  <2> QED BY <2>2, <2>3
<1>5. ASSUME NEW p \in ServerPdus, Due(p), lo < PlaceOf(p) PROVE PlaceOf(Head(q)) <= PlaceOf(p)
  <2>1. PlaceOf(p) \in Int /\ PlaceOf(Head(q)) \in Int
    BY <1>1, PlaceOfType
  <2>2. CASE PlaceOf(p) <= hi
    <3>1. PICK i \in 1..Len(q) : q[i] = p
      BY <1>5, <2>2 DEF ServerStream
    <3> QED BY <1>4, <3>1
  <2>3. CASE ~(PlaceOf(p) <= hi)
    BY <1>2, <2>1, <2>3
  <2> QED BY <2>2, <2>3
<1> QED BY <1>1, <1>2, <1>4, <1>5

LEMMA ServerStreamTail ==
    ASSUME NEW q \in Seq(ServerPdus), NEW lo \in Int, NEW hi \in Int,
           ServerStream(q, lo, hi), q # <<>>
    PROVE  /\ Tail(q) \in Seq(ServerPdus)
           /\ Head(q).type = "Update" => ServerStream(Tail(q), lo, hi)
           /\ Head(q).type # "Update" => ServerStream(Tail(q), PlaceOf(Head(q)), hi)
<1> DEFINE lo2 == IF Head(q).type = "Update" THEN lo ELSE PlaceOf(Head(q))
<1>1. /\ Head(q) = q[1] /\ Len(q) \in Nat /\ Len(q) >= 1 /\ Tail(q) \in Seq(ServerPdus)
      /\ Len(Tail(q)) = Len(q) - 1 /\ \A i \in 1..Len(Tail(q)) : Tail(q)[i] = q[i + 1]
  BY HeadTailProperties, LenProperties, EmptySeq
<1>2. /\ Head(q) \in ServerPdus /\ lo < PlaceOf(Head(q)) /\ PlaceOf(Head(q)) \in Int /\ lo2 \in Int /\ lo <= lo2
  BY ServerStreamHead, PlaceOfType
<1>3. \A i \in 1..Len(q) : q[i] \in ServerPdus /\ PlaceOf(q[i]) \in Int
  BY ElementOfSeq, PlaceOfType
<1>4. ASSUME NEW i \in 1..Len(Tail(q))
      PROVE  /\ lo2 < PlaceOf(Tail(q)[i]) /\ PlaceOf(Tail(q)[i]) <= hi
             /\ Tail(q)[i].type = "MonitorLayout" => conf.serverLayout
  <2>1. i + 1 \in 1..Len(q) /\ 1 \in 1..Len(q) /\ 1 < i + 1 /\ Tail(q)[i] = q[i + 1]
    BY <1>1
  <2>2. Head(q).type # "Update" => PlaceOf(q[1]) < PlaceOf(q[i + 1])
    BY <1>1, <2>1 DEF ServerStream
  <2> QED BY <1>1, <2>1, <2>2 DEF ServerStream
<1>5. ASSUME NEW i \in 1..Len(Tail(q)), NEW j \in 1..Len(Tail(q)), i < j
      PROVE  \/ PlaceOf(Tail(q)[i]) < PlaceOf(Tail(q)[j])
             \/ PlaceOf(Tail(q)[i]) = PlaceOf(Tail(q)[j]) /\ Tail(q)[i].type = "Update"
  <2>1. /\ i + 1 \in 1..Len(q) /\ j + 1 \in 1..Len(q) /\ i + 1 < j + 1
        /\ Tail(q)[i] = q[i + 1] /\ Tail(q)[j] = q[j + 1]
    BY <1>1, <1>5
  <2> QED BY <2>1 DEF ServerStream
<1>6. ASSUME NEW p \in ServerPdus, Due(p), lo2 < PlaceOf(p), PlaceOf(p) <= hi
      PROVE  \E i \in 1..Len(Tail(q)) : Tail(q)[i] = p
  <2>1. lo < PlaceOf(p)
    BY <1>2, <1>6, PlaceOfType
  <2>2. PICK k \in 1..Len(q) : q[k] = p
    BY <1>6, <2>1 DEF ServerStream
  <2>3. k # 1
    <3>1. p.type # "Update"
      BY <1>6 DEF Due
    <3> QED BY <1>1, <1>2, <1>6, <2>2, <3>1
  <2>4. k - 1 \in 1..Len(Tail(q)) /\ Tail(q)[k - 1] = p
    BY <1>1, <2>2, <2>3
  <2> QED BY <2>4
<1>7. ServerStream(Tail(q), lo2, hi)
  BY <1>4, <1>5, <1>6 DEF ServerStream
<1> QED BY <1>1, <1>7

\* A PDU is sent in the next place that is due.
LEMMA ServerStreamSend ==
    ASSUME NEW q \in Seq(ServerPdus), NEW lo \in Int, NEW hi \in Int, ServerStream(q, lo, hi),
           NEW p \in ServerPdus, lo < PlaceOf(p), p.type = "MonitorLayout" => conf.serverLayout,
           hi < PlaceOf(p) \/ (hi = PlaceOf(p) /\ p.type = "Update"),
           \A r \in ServerPdus : Due(r) /\ hi < PlaceOf(r) /\ PlaceOf(r) <= PlaceOf(p) => r = p
    PROVE  ServerStream(Append(q, p), lo, PlaceOf(p)) /\ Append(q, p) \in Seq(ServerPdus)
<1> DEFINE a == Append(q, p)
<1>1. /\ a \in Seq(ServerPdus) /\ Len(q) \in Nat /\ Len(a) = Len(q) + 1
      /\ \A i \in 1..Len(q) : a[i] = q[i]
      /\ a[Len(q) + 1] = p
  BY AppendProperties, LenProperties
<1>2. \A i \in 1..Len(q) : q[i] \in ServerPdus /\ PlaceOf(q[i]) \in Int
  BY ElementOfSeq, PlaceOfType
<1>3. PlaceOf(p) \in Int /\ hi <= PlaceOf(p)
  BY PlaceOfType
<1>4. ASSUME NEW i \in 1..Len(a)
      PROVE  /\ lo < PlaceOf(a[i]) /\ PlaceOf(a[i]) <= PlaceOf(p)
             /\ a[i].type = "MonitorLayout" => conf.serverLayout
  <2>1. CASE i \in 1..Len(q)
    BY <1>1, <1>2, <1>3, <2>1 DEF ServerStream
  <2>2. CASE i = Len(q) + 1
    BY <1>1, <1>3, <2>2
  <2> QED BY <1>1, <2>1, <2>2
<1>5. ASSUME NEW i \in 1..Len(a), NEW j \in 1..Len(a), i < j
      PROVE  \/ PlaceOf(a[i]) < PlaceOf(a[j])
             \/ PlaceOf(a[i]) = PlaceOf(a[j]) /\ a[i].type = "Update"
  <2>1. i \in 1..Len(q) /\ a[i] = q[i]
    BY <1>1, <1>5
  <2>2. CASE j \in 1..Len(q)
    BY <1>1, <1>5, <2>1, <2>2 DEF ServerStream
  <2>3. CASE j = Len(q) + 1
    <3>1. a[j] = p /\ PlaceOf(q[i]) <= hi
      BY <1>1, <2>1, <2>3 DEF ServerStream
    <3>2. PlaceOf(q[i]) = PlaceOf(p) => q[i] = p
      BY <1>2, <2>1, PlaceInjective
    <3> QED BY <1>2, <1>3, <2>1, <3>1, <3>2
  <2> QED BY <1>1, <2>2, <2>3
<1>6. ASSUME NEW r \in ServerPdus, Due(r), lo < PlaceOf(r), PlaceOf(r) <= PlaceOf(p)
      PROVE  \E i \in 1..Len(a) : a[i] = r
  <2>1. PlaceOf(r) \in Int
    BY PlaceOfType
  <2>2. CASE PlaceOf(r) <= hi
    <3>1. PICK i \in 1..Len(q) : q[i] = r
      BY <1>6, <2>2 DEF ServerStream
    <3> QED BY <1>1, <3>1
  <2>3. CASE hi < PlaceOf(r)
    <3>1. r = p
      BY <1>6, <2>3
    <3> QED BY <1>1, <3>1
  <2> QED BY <2>1, <2>2, <2>3
<1> QED BY <1>1, <1>4, <1>5, <1>6 DEF ServerStream

\* The bounds of a stream may move over places where nothing is due and nothing is.
LEMMA ServerStreamMove ==
    ASSUME NEW q \in Seq(ServerPdus), NEW lo \in Int, NEW hi \in Int, ServerStream(q, lo, hi),
           NEW lo2 \in Int, NEW hi2 \in Int, lo <= lo2, hi <= hi2,
           \A i \in 1..Len(q) : lo2 < PlaceOf(q[i]),
           \A r \in ServerPdus : Due(r) /\ hi < PlaceOf(r) /\ PlaceOf(r) <= hi2 => lo2 >= PlaceOf(r)
    PROVE  ServerStream(q, lo2, hi2)
<1>1. \A r \in ServerPdus : PlaceOf(r) \in Int
  BY PlaceOfType
<1>2. \A i \in 1..Len(q) : q[i] \in ServerPdus
  BY ElementOfSeq
<1>3. \A i \in 1..Len(q) : /\ lo2 < PlaceOf(q[i]) /\ PlaceOf(q[i]) <= hi2
                           /\ q[i].type = "MonitorLayout" => conf.serverLayout
  BY <1>1, <1>2 DEF ServerStream
<1>4. ASSUME NEW r \in ServerPdus, Due(r), lo2 < PlaceOf(r), PlaceOf(r) <= hi2
      PROVE  \E i \in 1..Len(q) : q[i] = r
  <2>1. lo < PlaceOf(r) /\ PlaceOf(r) <= hi
    BY <1>1, <1>4
  <2> QED BY <1>4, <2>1 DEF ServerStream
<1> QED BY <1>3, <1>4 DEF ServerStream

\* What the client finds at the head of its queue, by what it has taken so far.
LEMMA NextOfServer ==
    ASSUME NEW q \in Seq(ServerPdus), NEW g \in Generations, NEW k \in 1..6, NEW hi \in Int,
           ServerStream(q, 8 * g + k, hi), q # <<>>
    PROVE  /\ k = 1 => Head(q) = Pdu(IF conf.serverLayout THEN "MonitorLayout" ELSE "SCSynchronize", g)
           /\ k = 2 => Head(q) = Pdu("SCSynchronize", g)
           /\ k = 3 => Head(q) = Pdu("SCCooperate", g)
           /\ k = 4 => Head(q) = Pdu("SCGranted", g)
           /\ k = 5 => Head(q) = Pdu("SCFontMap", g)
           /\ k = 6 => \/ Head(q) = Pdu("Update", g)
                       \/ g + 1 \in Generations /\ Head(q) = Pdu("DeactivateAll", g + 1)
<1> DEFINE h == Head(q)
<1>0. g \in Nat /\ 8 * g + k \in Int
  BY PduPlaces
<1>1. /\ h \in ServerPdus /\ 8 * g + k < PlaceOf(h) /\ PlaceOf(h) <= hi
      /\ h.type = "MonitorLayout" => conf.serverLayout
      /\ \A p \in ServerPdus : Due(p) /\ 8 * g + k < PlaceOf(p) => PlaceOf(h) <= PlaceOf(p)
  BY <1>0, ServerStreamHead
<1>2. /\ Pdu("SCSynchronize", g) \in ServerPdus /\ Due(Pdu("SCSynchronize", g))
      /\ Pdu("SCCooperate", g) \in ServerPdus /\ Due(Pdu("SCCooperate", g))
      /\ Pdu("SCGranted", g) \in ServerPdus /\ Due(Pdu("SCGranted", g))
      /\ Pdu("SCFontMap", g) \in ServerPdus /\ Due(Pdu("SCFontMap", g))
      /\ PlaceOf(Pdu("SCSynchronize", g)) = 8 * g + 3
      /\ PlaceOf(Pdu("SCCooperate", g)) = 8 * g + 4
      /\ PlaceOf(Pdu("SCGranted", g)) = 8 * g + 5
      /\ PlaceOf(Pdu("SCFontMap", g)) = 8 * g + 6
      /\ PlaceOf(h) \in Int
  BY <1>1, PduPlaces, PlaceOfType DEF Due, ServerPlace
<1>3. CASE k = 1
  <2>1. CASE conf.serverLayout
    <3>1. Pdu("MonitorLayout", g) \in ServerPdus /\ Due(Pdu("MonitorLayout", g))
      BY <2>1, PduPlaces DEF Due, ServerPlace
    <3>2. PlaceOf(Pdu("MonitorLayout", g)) = 8 * g + 2
      BY PduPlaces
    <3>3. PlaceOf(h) = PlaceOf(Pdu("MonitorLayout", g))
      BY <1>0, <1>1, <1>2, <1>3, <3>1, <3>2
    <3> QED BY <1>1, <1>3, <2>1, <3>1, <3>3, PlaceInjective
  <2>2. CASE ~conf.serverLayout
    <3>1. PlaceOf(h) <= 8 * g + 3
      BY <1>0, <1>1, <1>2, <1>3
    <3>2. PlaceOf(h) # 8 * g + 2
      <4>1. /\ h.gen \in Nat /\ 8 * h.gen <= PlaceOf(h) /\ PlaceOf(h) <= 8 * h.gen + 7
            /\ h.type # "MonitorLayout" => PlaceOf(h) # 8 * h.gen + 2
        BY <1>1, PlaceOfType
      <4>2. ASSUME PlaceOf(h) = 8 * g + 2 PROVE h.gen = g
        <5>1. g \in Nat /\ h.gen \in Nat /\ 8 * h.gen <= 8 * g + 2 /\ 8 * g + 2 <= 8 * h.gen + 7
          BY <1>0, <4>1, <4>2
        <5> QED BY <5>1
      <4> QED BY <1>1, <2>2, <4>1, <4>2
    <3>3. PlaceOf(h) = PlaceOf(Pdu("SCSynchronize", g))
      BY <1>0, <1>1, <1>2, <1>3, <3>1, <3>2
    <3> QED BY <1>1, <1>2, <1>3, <2>2, <3>3, PlaceInjective
  <2> QED BY <2>1, <2>2
<1>4. CASE k = 2
  <2>1. PlaceOf(h) = PlaceOf(Pdu("SCSynchronize", g))
    BY <1>0, <1>1, <1>2, <1>4
  <2> QED BY <1>1, <1>2, <1>4, <2>1, PlaceInjective
<1>5. CASE k = 3
  <2>1. PlaceOf(h) = PlaceOf(Pdu("SCCooperate", g))
    BY <1>0, <1>1, <1>2, <1>5
  <2> QED BY <1>1, <1>2, <1>5, <2>1, PlaceInjective
<1>6. CASE k = 4
  <2>1. PlaceOf(h) = PlaceOf(Pdu("SCGranted", g))
    BY <1>0, <1>1, <1>2, <1>6
  <2> QED BY <1>1, <1>2, <1>6, <2>1, PlaceInjective
<1>7. CASE k = 5
  <2>1. PlaceOf(h) = PlaceOf(Pdu("SCFontMap", g))
    BY <1>0, <1>1, <1>2, <1>7
  <2> QED BY <1>1, <1>2, <1>7, <2>1, PlaceInjective
<1>8. CASE k = 6
  <2>1. h.gen \in Generations /\ h.gen \in Nat /\ PlaceOf(h) \in Int /\ PlaceOf(h) <= 8 * h.gen + 7 /\ 8 * h.gen <= PlaceOf(h)
    BY <1>1, PlaceOfType
  <2>2. CASE g + 1 \in Generations
    <3>1. /\ Pdu("DeactivateAll", g + 1) \in ServerPdus /\ Due(Pdu("DeactivateAll", g + 1))
          /\ PlaceOf(Pdu("DeactivateAll", g + 1)) = 8 * g + 8
      <4>1. PICK d \in Generations : d = g + 1
        BY <2>2
      <4>2. /\ Pdu("DeactivateAll", d) \in ServerPdus /\ PlaceOf(Pdu("DeactivateAll", d)) = 8 * d
            /\ Pdu("DeactivateAll", d).type = "DeactivateAll" /\ Pdu("DeactivateAll", d).gen = d
        BY PduPlaces DEF ServerPlace
      <4> QED BY <1>0, <4>1, <4>2 DEF Due
    <3>2. PlaceOf(h) = 8 * g + 7 \/ PlaceOf(h) = 8 * g + 8
      <4>1. 8 * g + 6 < PlaceOf(h)
        BY <1>1, <1>8
      <4>2. 8 * g + 6 < 8 * g + 8
        BY <1>0
      <4>3. PlaceOf(h) <= 8 * g + 8
        BY <1>1, <1>8, <3>1, <4>2
      <4>4. g \in Nat /\ PlaceOf(h) \in Int
        BY <1>0, <2>1
      <4> QED BY <4>1, <4>3, <4>4
    <3>3. PlaceOf(Pdu("Update", g)) = 8 * g + 7 /\ Pdu("Update", g) \in ServerPdus
      BY PduPlaces DEF ServerPlace
    <3> QED BY <1>1, <1>8, <2>2, <3>1, <3>2, <3>3, PlaceInjective
  <2>3. CASE g + 1 \notin Generations
    <3>1. h.gen <= g
      BY <1>0, <2>1, <2>3, BoundsAssumption DEF Generations
    <3>2. PlaceOf(h) = 8 * g + 7
      BY <1>0, <1>1, <1>8, <2>1, <3>1
    <3>3. PlaceOf(Pdu("Update", g)) = 8 * g + 7 /\ Pdu("Update", g) \in ServerPdus
      BY PduPlaces DEF ServerPlace
    <3> QED BY <1>1, <1>8, <3>2, <3>3, PlaceInjective
  <2> QED BY <2>2, <2>3
<1> QED BY <1>3, <1>4, <1>5, <1>6, <1>7, <1>8

LEMMA NextOfServerIsDemand ==
    ASSUME NEW q \in Seq(ServerPdus), NEW g \in Generations \cup {-1}, NEW hi \in Int,
           ServerStream(q, 8 * g + 8, hi), q # <<>>
    PROVE  g + 1 \in Generations /\ Head(q) = Pdu("DemandActive", g + 1)
<1> DEFINE h == Head(q)
<1>0. g \in Int /\ 8 * g + 8 \in Int
  BY BoundsAssumption DEF Generations
<1>1. /\ h \in ServerPdus /\ 8 * g + 8 < PlaceOf(h)
      /\ \A p \in ServerPdus : Due(p) /\ 8 * g + 8 < PlaceOf(p) => PlaceOf(h) <= PlaceOf(p)
  BY <1>0, ServerStreamHead
<1>2. g + 1 \in Generations
  <2>1. h.gen \in Generations /\ h.gen \in Nat /\ PlaceOf(h) <= 8 * h.gen + 7 /\ PlaceOf(h) \in Int
    BY <1>1, PlaceOfType
  <2>2. g + 1 <= h.gen
    BY <1>0, <1>1, <2>1
  <2> QED BY <1>0, <2>1, <2>2, BoundsAssumption DEF Generations
<1>3. /\ Pdu("DemandActive", g + 1) \in ServerPdus /\ Due(Pdu("DemandActive", g + 1))
      /\ PlaceOf(Pdu("DemandActive", g + 1)) = 8 * g + 9
  <2>1. PICK d \in Generations : d = g + 1
    BY <1>2
  <2>2. /\ Pdu("DemandActive", d) \in ServerPdus /\ Due(Pdu("DemandActive", d))
        /\ PlaceOf(Pdu("DemandActive", d)) = 8 * d + 1
    BY PduPlaces DEF Due, ServerPlace
  <2> QED BY <1>0, <2>1, <2>2
<1>4. PlaceOf(h) = PlaceOf(Pdu("DemandActive", g + 1))
  <2>1. PlaceOf(h) \in Int
    BY <1>1, PlaceOfType
  <2> QED BY <1>0, <1>1, <1>3, <2>1
<1> QED BY <1>1, <1>2, <1>3, <1>4, PlaceInjective

-----------------------------------------------------------------------------
(* The stream of the client.                                               *)

LEMMA ClientPduType ==
    ASSUME NEW p \in ClientPdus
    PROVE  /\ p.type = "Input" \/ p.type \in DOMAIN ClientPlace
           /\ p.type # "Input" => ClientPlace[p.type] \in 1..6
           /\ p.gen \in Generations /\ p = Pdu(p.type, p.gen)
BY DEF ClientPdus, ClientFlag, ClientPlace, Pdu

LEMMA ClientStreamHead ==
    ASSUME NEW q \in Seq(ClientPdus), NEW lo \in Int, NEW hi \in Int,
           ClientStream(q, lo, hi), q # <<>>
    PROVE  /\ Head(q) \in ClientPdus /\ Tail(q) \in Seq(ClientPdus)
           /\ Head(q).type = "Input" => ClientStream(Tail(q), lo, hi)
           /\ Head(q).type # "Input" =>
                 /\ Head(q).type \in DOMAIN ClientPlace
                 /\ lo < ClientPlace[Head(q).type] /\ ClientPlace[Head(q).type] <= hi
                 /\ Head(q).type = "PersistentKeyList" => KeyListDue
                 /\ ClientStream(Tail(q), ClientPlace[Head(q).type], hi)
                 /\ \A t \in DOMAIN ClientPlace :
                       (t = "PersistentKeyList" => KeyListDue) /\ lo < ClientPlace[t] =>
                          ClientPlace[Head(q).type] <= ClientPlace[t]
<1> DEFINE h == Head(q)
<1> DEFINE T == Tail(q)
<1> DEFINE lo2 == IF h.type = "Input" THEN lo ELSE ClientPlace[h.type]
<1>1. /\ h = q[1] /\ Len(q) \in Nat /\ Len(q) >= 1 /\ T \in Seq(ClientPdus)
      /\ Len(T) = Len(q) - 1 /\ \A i \in 1..Len(T) : T[i] = q[i + 1]
  BY HeadTailProperties, LenProperties, EmptySeq
<1>2. \A i \in 1..Len(q) : q[i] \in ClientPdus
  BY ElementOfSeq
<1>3. h \in ClientPdus
  BY <1>1, <1>2
<1>4. h.type # "Input" =>
        /\ h.type \in DOMAIN ClientPlace /\ ClientPlace[h.type] \in Int
        /\ lo < ClientPlace[h.type] /\ ClientPlace[h.type] <= hi
        /\ h.type = "PersistentKeyList" => KeyListDue
  BY <1>1, <1>3, ClientPduType DEF ClientStream
<1>5. lo2 \in Int /\ lo <= lo2
  BY <1>4
<1>6. ASSUME NEW i \in 1..Len(T), T[i].type # "Input"
      PROVE  /\ lo2 < ClientPlace[T[i].type] /\ ClientPlace[T[i].type] <= hi
             /\ T[i].type = "PersistentKeyList" => KeyListDue /\ T[i].gen = 0
  <2>1. i + 1 \in 1..Len(q) /\ 1 \in 1..Len(q) /\ 1 < i + 1 /\ T[i] = q[i + 1]
    BY <1>1
  <2>2. h.type # "Input" => ClientPlace[h.type] < ClientPlace[q[i + 1].type]
    BY <1>1, <1>6, <2>1 DEF ClientStream
  <2> QED BY <1>6, <2>1, <2>2 DEF ClientStream
<1>7. ASSUME NEW i \in 1..Len(T), NEW j \in 1..Len(T), i < j, T[i].type # "Input", T[j].type # "Input"
      PROVE  ClientPlace[T[i].type] < ClientPlace[T[j].type]
  <2>1. /\ i + 1 \in 1..Len(q) /\ j + 1 \in 1..Len(q) /\ i + 1 < j + 1
        /\ T[i] = q[i + 1] /\ T[j] = q[j + 1]
    BY <1>1, <1>7
  <2> QED BY <1>7, <2>1 DEF ClientStream
<1>8. ASSUME NEW t \in DOMAIN ClientPlace, t = "PersistentKeyList" => KeyListDue,
             lo2 < ClientPlace[t], ClientPlace[t] <= hi
      PROVE  \E i \in 1..Len(T) : T[i].type = t
  <2>0. ClientPlace[t] \in Int /\ t # "Input"
    BY DEF ClientPlace
  <2>1. lo < ClientPlace[t]
    BY <1>5, <1>8, <2>0
  <2>2. PICK k \in 1..Len(q) : q[k].type = t
    BY <1>8, <2>1 DEF ClientStream
  <2>3. k # 1
    BY <1>1, <1>4, <1>8, <2>0, <2>2
  <2>4. k - 1 \in 1..Len(T) /\ T[k - 1].type = t
    BY <1>1, <2>2, <2>3
  <2> QED BY <2>4
<1>9. ClientStream(T, lo2, hi)
  BY <1>6, <1>7, <1>8 DEF ClientStream
<1>10. ASSUME h.type # "Input", NEW t \in DOMAIN ClientPlace,
              t = "PersistentKeyList" => KeyListDue, lo < ClientPlace[t]
       PROVE  ClientPlace[h.type] <= ClientPlace[t]
  <2>0. ClientPlace[t] \in Int /\ t # "Input"
    BY DEF ClientPlace
  <2>1. CASE ClientPlace[t] <= hi
    <3>1. PICK k \in 1..Len(q) : q[k].type = t
      BY <1>10, <2>1 DEF ClientStream
    <3>2. CASE k = 1
      BY <1>1, <1>4, <1>10, <3>1, <3>2
    <3>3. CASE k # 1
      <4>1. 1 < k /\ 1 \in 1..Len(q)
        BY <1>1, <3>3
      <4>2. ClientPlace[q[1].type] < ClientPlace[q[k].type]
        BY <1>1, <1>10, <2>0, <3>1, <4>1 DEF ClientStream
      <4> QED BY <1>1, <1>4, <1>10, <2>0, <3>1, <4>2
    <3> QED BY <3>2, <3>3
  <2>2. CASE ~(ClientPlace[t] <= hi)
    BY <1>4, <1>10, <2>0, <2>2
  <2> QED BY <2>1, <2>2
<1> QED BY <1>1, <1>3, <1>4, <1>9, <1>10

LEMMA ClientStreamSend ==
    ASSUME NEW q \in Seq(ClientPdus), NEW lo \in Int, NEW hi \in Int, ClientStream(q, lo, hi),
           NEW t \in DOMAIN ClientPlace, NEW g \in Generations,
           lo < ClientPlace[t], hi < ClientPlace[t],
           t = "PersistentKeyList" => KeyListDue /\ g = 0,
           \A u \in DOMAIN ClientPlace :
             (u = "PersistentKeyList" => KeyListDue) /\ hi < ClientPlace[u] /\ ClientPlace[u] <= ClientPlace[t]
               => u = t
    PROVE  /\ Pdu(t, g) \in ClientPdus /\ Append(q, Pdu(t, g)) \in Seq(ClientPdus)
           /\ ClientStream(Append(q, Pdu(t, g)), lo, ClientPlace[t])
<1> DEFINE p == Pdu(t, g)
<1> DEFINE a == Append(q, p)
<1>0. p \in ClientPdus /\ p.type = t /\ p.gen = g /\ t # "Input" /\ ClientPlace[t] \in Int
  BY DEF ClientPdus, ClientFlag, ClientPlace, Pdu
<1>1. /\ a \in Seq(ClientPdus) /\ Len(q) \in Nat /\ Len(a) = Len(q) + 1
      /\ \A i \in 1..Len(q) : a[i] = q[i]
      /\ a[Len(q) + 1] = p
  BY <1>0, AppendProperties, LenProperties
<1>2. \A i \in 1..Len(q) : q[i].type # "Input" => ClientPlace[q[i].type] \in Int
  BY ElementOfSeq, ClientPduType
<1>4. ASSUME NEW i \in 1..Len(a), a[i].type # "Input"
      PROVE  /\ lo < ClientPlace[a[i].type] /\ ClientPlace[a[i].type] <= ClientPlace[t]
             /\ a[i].type = "PersistentKeyList" => KeyListDue /\ a[i].gen = 0
  <2>1. CASE i \in 1..Len(q)
    <3>1. /\ lo < ClientPlace[q[i].type] /\ ClientPlace[q[i].type] <= hi
          /\ q[i].type = "PersistentKeyList" => KeyListDue /\ q[i].gen = 0
      BY <1>1, <1>4, <2>1 DEF ClientStream
    <3> QED BY <1>0, <1>1, <1>2, <1>4, <2>1, <3>1
  <2>2. CASE i = Len(q) + 1
    BY <1>0, <1>1, <2>2
  <2> QED BY <1>1, <2>1, <2>2
<1>5. ASSUME NEW i \in 1..Len(a), NEW j \in 1..Len(a), i < j, a[i].type # "Input", a[j].type # "Input"
      PROVE  ClientPlace[a[i].type] < ClientPlace[a[j].type]
  <2>1. i \in 1..Len(q) /\ a[i] = q[i] /\ ClientPlace[q[i].type] <= hi
    BY <1>1, <1>5 DEF ClientStream
  <2>2. CASE j \in 1..Len(q)
    BY <1>1, <1>5, <2>1, <2>2 DEF ClientStream
  <2>3. CASE j = Len(q) + 1
    BY <1>0, <1>1, <1>2, <1>5, <2>1, <2>3
  <2> QED BY <1>1, <2>2, <2>3
<1>6. ASSUME NEW u \in DOMAIN ClientPlace, u = "PersistentKeyList" => KeyListDue,
             lo < ClientPlace[u], ClientPlace[u] <= ClientPlace[t]
      PROVE  \E i \in 1..Len(a) : a[i].type = u
  <2>1. ClientPlace[u] \in Int
    BY DEF ClientPlace
  <2>2. CASE ClientPlace[u] <= hi
    <3>1. PICK i \in 1..Len(q) : q[i].type = u
      BY <1>6, <2>2 DEF ClientStream
    <3> QED BY <1>1, <3>1
  <2>3. CASE hi < ClientPlace[u]
    <3>1. u = t
      BY <1>6, <2>3
    <3> QED BY <1>0, <1>1, <3>1
  <2> QED BY <2>1, <2>2, <2>3
<1>7. ClientStream(a, lo, ClientPlace[t])
  BY <1>4, <1>5, <1>6 DEF ClientStream
<1> QED BY <1>0, <1>1, <1>7

LEMMA ClientStreamInput ==
    ASSUME NEW q \in Seq(ClientPdus), NEW lo \in Int, NEW hi \in Int, ClientStream(q, lo, hi),
           NEW g \in Generations
    PROVE  /\ Pdu("Input", g) \in ClientPdus /\ Append(q, Pdu("Input", g)) \in Seq(ClientPdus)
           /\ ClientStream(Append(q, Pdu("Input", g)), lo, hi)
<1> DEFINE p == Pdu("Input", g)
<1> DEFINE a == Append(q, p)
<1>0. p \in ClientPdus /\ p.type = "Input"
  BY DEF ClientPdus, Pdu
<1>1. /\ a \in Seq(ClientPdus) /\ Len(q) \in Nat /\ Len(a) = Len(q) + 1
      /\ \A i \in 1..Len(q) : a[i] = q[i]
      /\ a[Len(q) + 1] = p
  BY <1>0, AppendProperties, LenProperties
<1>2. \A i \in 1..Len(a) : a[i].type # "Input" => i \in 1..Len(q)
  BY <1>0, <1>1
<1>3. \A i \in 1..Len(q) : i \in 1..Len(a)
  BY <1>1
<1>4. \A t \in DOMAIN ClientPlace :
        (\E i \in 1..Len(q) : q[i].type = t) => \E i \in 1..Len(a) : a[i].type = t
  BY <1>1, <1>3
<1>5. ClientStream(a, lo, hi)
  BY <1>1, <1>2, <1>4 DEF ClientStream
<1> QED BY <1>0, <1>1, <1>5

\* Without a key list its place stays empty.
LEMMA ClientStreamNoKeyList ==
    ASSUME NEW q \in Seq(ClientPdus), NEW lo \in Int, ClientStream(q, lo, 4), ~KeyListDue
    PROVE  ClientStream(q, lo, 5)
<1>1. \A i \in 1..Len(q) : q[i].type # "Input" => ClientPlace[q[i].type] \in Int
  BY ElementOfSeq, ClientPduType
<1>2. \A t \in DOMAIN ClientPlace : ClientPlace[t] <= 5 /\ (t = "PersistentKeyList" => KeyListDue)
        => ClientPlace[t] <= 4
  BY DEF ClientPlace
<1> QED BY <1>1, <1>2 DEF ClientStream

-----------------------------------------------------------------------------
(* The streams after a step.                                               *)

LEMMA ClientStreamNext ==
    ASSUME UNCHANGED <<conf, sgen>>, ClientStream(c2s', ServerTaken', ClientSent')
    PROVE  ClientStream(c2s, ServerTaken, ClientSent)'
BY DEF ClientStream, KeyListDue

LEMMA ServerStreamNext ==
    ASSUME UNCHANGED conf, ServerStream(s2c', ClientTaken', ServerSent')
    PROVE  ServerStream(s2c, ClientTaken, ServerSent)'
BY DEF ServerStream, Due

-----------------------------------------------------------------------------
(* The inductive invariant.                                                *)

LEMMA InvFacts ==
    ASSUME IInv
    PROVE  /\ cgen \in Int /\ cgen >= -1 /\ sgen \in Nat /\ sgen \in Generations
           /\ cgen # -1 => cgen \in Generations /\ cgen >= 0
           /\ cstate \in ClientStates \ {"FAILED"} /\ sstate \in ServerStates \ {"FAILED"}
           /\ ClientTakenIn[cstate] \in 1..8 /\ ServerSentIn[sstate] \in 0..7
           /\ ClientTaken = 8 * cgen + ClientTakenIn[cstate] /\ ClientTaken \in Int
           /\ ServerSent = 8 * sgen + ServerSentIn[sstate] /\ ServerSent \in Int
           /\ ServerTaken \in 0..6 /\ ClientSent \in 0..6
           /\ ClientTakenIn[cstate] \in Int /\ ServerSentIn[sstate] \in Int
           /\ ServerTaken \in Int /\ ClientSent \in Int
           /\ c2s \in Seq(ClientPdus) /\ s2c \in Seq(ServerPdus)
           /\ ClientStream(c2s, ServerTaken, ClientSent)
           /\ ServerStream(s2c, ClientTaken, ServerSent)
<1>1. /\ cgen \in Generations \cup {-1} /\ sgen \in Generations
      /\ cstate \in ClientStates \ {"FAILED"} /\ sstate \in ServerStates \ {"FAILED"}
      /\ c2s \in Seq(ClientPdus) /\ s2c \in Seq(ServerPdus)
      /\ ClientStream(c2s, ServerTaken, ClientSent)
      /\ ServerStream(s2c, ClientTaken, ServerSent)
  BY DEF IInv, TypeOK, NothingFails
<1>2. /\ cgen \in Int /\ cgen >= -1 /\ sgen \in Nat
      /\ cgen # -1 => cgen \in Generations /\ cgen >= 0
  BY <1>1, BoundsAssumption DEF Generations
<1>3. ClientTakenIn[cstate] \in 1..8 /\ ClientSentIn[cstate] \in 0..6
  BY <1>1 DEF ClientStates, ClientTakenIn, ClientSentIn, FinalizePdu, Awaited
<1>4. ServerSentIn[sstate] \in 0..7 /\ ServerTakenIn[sstate] \in 0..6
  BY <1>1 DEF ServerStates, ServerSentIn, ServerTakenIn, Expected
<1>5. /\ ClientTaken = 8 * cgen + ClientTakenIn[cstate] /\ ClientTaken \in Int
      /\ ServerSent = 8 * sgen + ServerSentIn[sstate] /\ ServerSent \in Int
  BY <1>2, <1>3, <1>4 DEF ClientTaken, ServerSent
<1>6. ServerTaken \in 0..6 /\ ClientSent \in 0..6
  BY <1>3, <1>4 DEF ServerTaken, ClientSent
<1>7. /\ ClientTakenIn[cstate] \in Int /\ ServerSentIn[sstate] \in Int
      /\ ServerTaken \in Int /\ ClientSent \in Int
  BY <1>3, <1>4, <1>6
<1> QED BY <1>1, <1>2, <1>3, <1>4, <1>5, <1>6, <1>7

LEMMA InitInv == Init => IInv
<1> SUFFICES ASSUME Init PROVE IInv
  OBVIOUS
<1>1. TypeOK
  <2>1. cgen \in Generations \cup {-1} /\ sgen \in Generations
    BY BoundsAssumption DEF Init, Start, Generations
  <2>2. inputs \in 0..MaxInput /\ updates \in 0..MaxUpdates /\ activates \in Nat
    BY BoundsAssumption DEF Init, Start
  <2>3. c2s \in Seq(ClientPdus) /\ s2c \in Seq(ServerPdus)
    BY DEF Init, Start
  <2>4. persist \in BOOLEAN /\ connected \in BOOLEAN /\ activated \in BOOLEAN /\ rerun \in BOOLEAN
        /\ layout \in BOOLEAN /\ insync \in BOOLEAN /\ conf \in Settings
    BY Zenon DEF Init, Start
  <2>5. cstate \in ClientStates /\ sstate \in ServerStates
    BY DEF Init, Start, ClientStates, ServerStates
  <2>6. cflags = {} /\ sflags = {}
    BY DEF Init, Start
  <2> QED BY <2>1, <2>2, <2>3, <2>4, <2>5, <2>6 DEF TypeOK
<1>2. NothingFails /\ GenerationInv /\ ClientInv
  BY DEF Init, Start, NothingFails, GenerationInv, ClientInv, DecryptsTwice
<1>3. ServerInv
  BY DEF Init, Start, ServerInv, KeyListsAgree, Finalizing, Expected
<1>4. ServerTaken = 0 /\ ClientSent = 0 /\ ClientTaken = 0 /\ ServerSent = 0
  BY DEF Init, Start, ServerTaken, ClientSent, ClientTaken, ServerSent, ServerTakenIn,
         ClientTakenIn, ServerSentIn
<1>5. ClientStream(c2s, ServerTaken, ClientSent)
  <2>1. Len(c2s) = 0
    BY DEF Init, Start
  <2> QED BY <1>4, <2>1 DEF ClientStream, ClientPlace
<1>6. ServerStream(s2c, ClientTaken, ServerSent)
  <2>1. Len(s2c) = 0
    BY DEF Init, Start
  <2>2. \A p \in ServerPdus : ~(0 < PlaceOf(p) /\ PlaceOf(p) <= 0)
    BY PlaceOfType
  <2> QED BY <1>4, <2>1, <2>2 DEF ServerStream
<1> QED BY <1>1, <1>2, <1>3, <1>4, <1>5, <1>6 DEF IInv

\* What is left to show of a step of the client, ...
LEMMA ClientStepKeeps ==
    ASSUME IInv, UNCHANGED <<conf, serverVars, updates>>,
           cstate' \in ClientStates \ {"FAILED"}, layout' \in BOOLEAN,
           cflags' \subseteq {"DEACTIVATE_REACTIVATE", "SC_SYNCHRONIZE",
              "SC_CONTROL_COOPERATE", "SC_CONTROL_GRANTED", "SC_FONT_MAP"},
           cgen' \in Generations \cup {-1}, inputs' \in 0..MaxInput,
           c2s' \in Seq(ClientPdus), s2c' \in Seq(ServerPdus),
           GenerationInv', ClientInv', ServerTaken <= ClientSent',
           ClientStream(c2s', ServerTaken, ClientSent'),
           ServerStream(s2c', ClientTaken', ServerSent)
    PROVE  IInv'
<1>1. /\ UNCHANGED <<sstate, sflags, persist, connected, activated, rerun, sgen, activates>>
      /\ UNCHANGED <<conf, updates>>
  BY DEF serverVars
<1>2. TypeOK'
  <2>1. insync' \in BOOLEAN
    BY DEF ClientInv
  <2> QED BY <1>1, <2>1 DEF IInv, TypeOK, Generations, ClientPdus, ServerPdus
<1>3. ServerInv' /\ ServerTaken' = ServerTaken /\ ServerSent' = ServerSent
  BY <1>1 DEF IInv, ServerInv, KeyListsAgree, ServerTaken, ServerSent
<1>4. NothingFails'
  BY <1>1 DEF IInv, NothingFails
<1>5. ClientStream(c2s, ServerTaken, ClientSent)' /\ ServerStream(s2c, ClientTaken, ServerSent)'
  BY <1>1, <1>3, ClientStreamNext, ServerStreamNext
<1> QED BY <1>2, <1>3, <1>4, <1>5 DEF IInv

\* ... and of a step of the server that stays in its generation.
LEMMA ServerStepKeeps ==
    ASSUME IInv, UNCHANGED <<conf, clientVars, sgen, inputs>>,
           sstate' \in ServerStates \ {"FAILED"},
           sflags' \subseteq {"DEACTIVATE_REACTIVATE", "CS_SYNCHRONIZE",
              "CS_CONTROL_COOPERATE", "CS_CONTROL_REQUEST", "CS_PERSISTENT_KEY_LIST",
              "CS_FONT_LIST"},
           persist' \in BOOLEAN, connected' \in BOOLEAN, activated' \in BOOLEAN, rerun' \in BOOLEAN,
           updates' \in 0..MaxUpdates,
           c2s' \in Seq(ClientPdus), s2c' \in Seq(ServerPdus),
           GenerationInv', ServerInv', ServerTaken' <= ClientSent,
           ClientStream(c2s', ServerTaken', ClientSent),
           ServerStream(s2c', ClientTaken, ServerSent')
    PROVE  IInv'
<1>1. UNCHANGED <<conf, sgen, inputs, cstate, cflags, layout, cgen, insync>>
  BY DEF clientVars
<1>2. activates' \in Nat
  BY DEF ServerInv
<1>3. TypeOK'
  BY <1>1, <1>2 DEF IInv, TypeOK, Generations, ClientPdus, ServerPdus
<1>4. ClientInv' /\ ClientTaken' = ClientTaken /\ ClientSent' = ClientSent
  BY <1>1 DEF IInv, ClientInv, DecryptsTwice, ClientTaken, ClientSent
<1>5. NothingFails'
  BY <1>1 DEF IInv, NothingFails
<1>6. ClientStream(c2s, ServerTaken, ClientSent)' /\ ServerStream(s2c, ClientTaken, ServerSent)'
  BY <1>1, <1>4, ClientStreamNext, ServerStreamNext
<1> QED BY <1>3, <1>4, <1>5, <1>6 DEF IInv

-----------------------------------------------------------------------------
(* The steps of the client.                                                *)

LEMMA ClientFinalizeInv == IInv /\ ClientFinalize => IInv'
<1> SUFFICES ASSUME IInv, ClientFinalize PROVE IInv'
  OBVIOUS
<1> DEFINE t == FinalizePdu[cstate]
<1>0. /\ GenerationInv /\ ClientInv /\ ServerTaken <= ClientSent
      /\ UNCHANGED <<conf, cflags, layout, cgen, insync, serverVars, s2c, inputs, updates, sgen,
                     sstate>>
      /\ cstate' = AfterFinalize(cstate) /\ c2s' = Send(c2s, <<t>>, cgen)
      /\ cstate \in {"FINALIZATION_SYNC", "FINALIZATION_COOPERATE", "FINALIZATION_REQUEST_CONTROL",
                     "FINALIZATION_PERSISTENT_KEY_LIST", "FINALIZATION_FONT_LIST"}
  BY DEF IInv, ClientFinalize, FinalizePdu, serverVars
<1>00. ServerTaken \in Int /\ ClientSent \in Int /\ ServerTaken \in 0..6 /\ c2s \in Seq(ClientPdus)
  BY InvFacts
<1>1. cgen = sgen /\ cgen # -1 /\ sstate # "DEMAND_ACTIVE"
  BY <1>0 DEF GenerationInv, Awaited
<1>2. cgen \in Generations /\ cgen \in Nat
  BY <1>1, InvFacts
<1>3. KeyListDue <=> conf.persist /\ "DEACTIVATE_REACTIVATE" \notin cflags
  BY <1>0, <1>1, <1>2 DEF KeyListDue, ClientInv
<1>4. /\ t \in DOMAIN ClientPlace /\ ClientPlace[t] \in Int
      /\ ClientSent < ClientPlace[t]
      /\ t = "PersistentKeyList" => KeyListDue /\ cgen = 0
      /\ \A u \in DOMAIN ClientPlace :
           (u = "PersistentKeyList" => KeyListDue) /\ ClientSent < ClientPlace[u]
              /\ ClientPlace[u] <= ClientPlace[t] => u = t
  <2>1. CASE cstate = "FINALIZATION_SYNC"
    BY <1>1, <2>1 DEF ClientSent, ClientSentIn, FinalizePdu, ClientPlace
  <2>2. CASE cstate = "FINALIZATION_COOPERATE"
    BY <1>1, <2>2 DEF ClientSent, ClientSentIn, FinalizePdu, ClientPlace
  <2>3. CASE cstate = "FINALIZATION_REQUEST_CONTROL"
    BY <1>1, <2>3 DEF ClientSent, ClientSentIn, FinalizePdu, ClientPlace
  <2>4. CASE cstate = "FINALIZATION_PERSISTENT_KEY_LIST"
    BY <1>0, <1>1, <2>4 DEF ClientSent, ClientSentIn, FinalizePdu, ClientPlace, ClientInv, KeyListDue
  <2>5. CASE cstate = "FINALIZATION_FONT_LIST"
    BY <1>1, <2>5 DEF ClientSent, ClientSentIn, FinalizePdu, ClientPlace
  <2> QED BY <1>0, <2>1, <2>2, <2>3, <2>4, <2>5
<1>5. /\ c2s' = Append(c2s, Pdu(t, cgen)) /\ c2s' \in Seq(ClientPdus)
      /\ ClientStream(c2s', ServerTaken, ClientPlace[t])
  <2>1. ServerTaken < ClientPlace[t] /\ ServerTaken \in Int /\ ClientSent \in Int
    BY <1>0, <1>00, <1>4
  <2>2. Pdu(t, cgen) \in ClientPdus /\ ClientStream(Append(c2s, Pdu(t, cgen)), ServerTaken, ClientPlace[t])
    BY <1>2, <1>4, <2>1, InvFacts, ClientStreamSend
  <2>3. c2s' = Append(c2s, Pdu(t, cgen)) /\ c2s' \in Seq(ClientPdus)
    BY <1>0, <1>00, <2>2, SendOne
  <2> QED BY <2>2, <2>3
<1>6. \/ cstate = "FINALIZATION_SYNC" /\ cstate' = "FINALIZATION_COOPERATE"
      \/ cstate = "FINALIZATION_COOPERATE" /\ cstate' = "FINALIZATION_REQUEST_CONTROL"
      \/ /\ cstate = "FINALIZATION_REQUEST_CONTROL"
         /\ cstate' = IF KeyListDue THEN "FINALIZATION_PERSISTENT_KEY_LIST"
                      ELSE "FINALIZATION_FONT_LIST"
      \/ cstate = "FINALIZATION_PERSISTENT_KEY_LIST" /\ cstate' = "FINALIZATION_FONT_LIST"
      \/ cstate = "FINALIZATION_FONT_LIST" /\ cstate' = "FINALIZATION_CLIENT_SYNC"
  BY <1>0, <1>3 DEF AfterFinalize
<1>7. /\ cstate' \in ClientStates \ {"FAILED", "DEMAND_ACTIVE", "MONITOR_LAYOUT"}
      /\ ClientTakenIn[cstate'] = 2 /\ ClientTakenIn[cstate] = 2
  BY <1>6 DEF ClientStates, FinalizePdu, Awaited, ClientTakenIn
<1>8. \/ ClientSentIn[cstate'] = ClientPlace[t]
      \/ ClientSentIn[cstate'] = 5 /\ ClientPlace[t] = 4 /\ ~KeyListDue
  BY <1>6 DEF ClientSentIn, FinalizePdu, ClientPlace
<1>9. cstate' = "FINALIZATION_PERSISTENT_KEY_LIST" => conf.persist /\ cgen = 0
  BY <1>1, <1>6 DEF KeyListDue
<1>10. ClientSent' = ClientSentIn[cstate'] /\ ClientTaken' = ClientTaken
  BY <1>0, <1>1, <1>7 DEF ClientSent, ClientTaken
<1>11. ClientStream(c2s', ServerTaken, ClientSent') /\ ServerTaken <= ClientSent'
  <2>1. CASE ClientSent' = ClientPlace[t]
    BY <1>0, <1>00, <1>4, <1>5, <2>1
  <2>2. CASE ClientSent' = 5 /\ ClientPlace[t] = 4 /\ ~KeyListDue
    <3>1. ServerTaken <= 5
      BY <1>0, <1>00, <1>4, <2>2
    <3>2. ClientStream(c2s', ServerTaken, 4)
      BY <1>5, <2>2
    <3> QED BY <1>00, <1>5, <2>2, <3>1, <3>2, ClientStreamNoKeyList
  <2> QED BY <1>8, <1>10, <2>1, <2>2
<1>12. GenerationInv'
  BY <1>0, <1>1, <1>7 DEF GenerationInv
<1>13. ClientInv'
  BY <1>0, <1>1, <1>2, <1>7, <1>9 DEF ClientInv, DecryptsTwice
<1>14. TypeOK /\ ServerStream(s2c', ClientTaken', ServerSent)
  BY <1>0, <1>10, InvFacts DEF IInv
<1> QED BY <1>0, <1>2, <1>5, <1>7, <1>11, <1>12, <1>13, <1>14, ClientStepKeeps DEF TypeOK

LEMMA ClientDemandActiveInv == IInv /\ ClientDemandActive => IInv'
<1> SUFFICES ASSUME IInv, ClientDemandActive PROVE IInv'
  OBVIOUS
<1> DEFINE h == Head(s2c)
<1>0. /\ GenerationInv /\ ClientInv /\ ServerTaken <= ClientSent /\ TypeOK
      /\ UNCHANGED <<conf, insync, serverVars, inputs, updates, sgen, sstate>>
      /\ cstate = "DEMAND_ACTIVE" /\ s2c # <<>> /\ s2c' = Tail(s2c)
  BY DEF IInv, ClientDemandActive, serverVars
<1>00. /\ cgen \in Int /\ sgen \in Nat /\ sgen \in Generations /\ ServerSent \in Int
       /\ s2c \in Seq(ServerPdus) /\ c2s \in Seq(ClientPdus)
       /\ ServerSent = 8 * sgen + ServerSentIn[sstate]
  BY InvFacts
<1>1. cgen = sgen - 1 /\ sstate \in {"DEMAND_ACTIVE", "MONITOR_LAYOUT", "CONFIRM_ACTIVE"}
  BY <1>0 DEF GenerationInv
<1>2. ClientTaken = 8 * cgen + 8 /\ ServerTaken = 0 /\ ClientSent = 0
  <2>1. ClientTaken = 8 * cgen + 8
    BY <1>0 DEF ClientTaken, ClientTakenIn
  <2>2. ServerTaken = 0
    BY <1>1 DEF ServerTaken, ServerTakenIn
  <2>3. ClientSent = 0
    BY <1>00, <1>1 DEF ClientSent
  <2> QED BY <2>1, <2>2, <2>3
<1>3. h = Pdu("DemandActive", sgen) /\ h.type = "DemandActive" /\ h.gen = sgen /\ PlaceOf(h) = 8 * sgen + 1
  <2>1. h = Pdu("DemandActive", cgen + 1)
    BY <1>0, <1>2, InvFacts, NextOfServerIsDemand DEF TypeOK
  <2>2. cgen + 1 = sgen
    BY <1>1, InvFacts
  <2>3. h = Pdu("DemandActive", sgen)
    BY <2>1, <2>2
  <2>4. Pdu("DemandActive", sgen).type = "DemandActive" /\ Pdu("DemandActive", sgen).gen = sgen
    BY DEF Pdu
  <2>5. PlaceOf(Pdu("DemandActive", sgen)) = 8 * sgen + 1
    BY <1>00, PduPlaces
  <2> QED BY <2>3, <2>4, <2>5
<1>4. ConfirmActive(sgen)
  BY <1>3 DEF ClientDemandActive
<1>5. sstate # "DEMAND_ACTIVE"
  <2>1. PlaceOf(h) <= ServerSent
    BY <1>0, InvFacts, ServerStreamHead
  <2> QED BY <1>00, <1>3, <2>1 DEF ServerSentIn
<1>6. /\ cgen' = sgen /\ cflags' = cflags \cap {"DEACTIVATE_REACTIVATE"} /\ layout' = FALSE
      /\ cstate' = IF conf.clientLayout THEN "MONITOR_LAYOUT" ELSE "FINALIZATION_SYNC"
      /\ c2s' = Send(c2s, <<"ConfirmActive">>, sgen)
  BY <1>4 DEF ConfirmActive
<1>7. GenerationInv'
  <2>1. conf.serverLayout => conf.clientLayout
    BY <1>0 DEF TypeOK, Settings
  <2>2. ServerSentIn[sstate] >= 1
    BY <1>1, <1>5 DEF ServerSentIn
  <2>3. \/ cstate' = "MONITOR_LAYOUT" /\ ClientTakenIn[cstate'] = 1
        \/ cstate' = "FINALIZATION_SYNC" /\ ClientTakenIn[cstate'] = 2 /\ ~conf.serverLayout
    BY <1>6, <2>1 DEF ClientTakenIn
  <2>4. ServerSentIn[sstate] \in Int
    BY InvFacts
  <2> QED BY <1>0, <1>00, <1>5, <1>6, <2>2, <2>3, <2>4 DEF GenerationInv
<1>8. ClientInv'
  <2>1. cgen = -1 <=> sgen = 0
    BY <1>00, <1>1
  <2>2. cgen' # -1
    BY <1>00, <1>6
  <2> QED BY <1>0, <1>00, <1>1, <1>6, <2>1, <2>2 DEF ClientInv, DecryptsTwice
<1>9. ClientSent' = 1
  BY <1>0, <1>6 DEF ClientSent, ClientSentIn
<1>10. c2s' \in Seq(ClientPdus) /\ ClientStream(c2s', ServerTaken, ClientSent')
  <2>1. /\ "ConfirmActive" \in DOMAIN ClientPlace /\ ClientPlace["ConfirmActive"] = 1
        /\ \A u \in DOMAIN ClientPlace : 0 < ClientPlace[u] /\ ClientPlace[u] <= 1 => u = "ConfirmActive"
    BY DEF ClientPlace
  <2>2. /\ Pdu("ConfirmActive", sgen) \in ClientPdus
        /\ ClientStream(Append(c2s, Pdu("ConfirmActive", sgen)), 0, 1)
    <3>1. ClientStream(c2s, 0, 0) /\ c2s \in Seq(ClientPdus)
      BY <1>2, InvFacts
    <3> QED BY <1>00, <2>1, <3>1, ClientStreamSend
  <2>3. c2s' = Append(c2s, Pdu("ConfirmActive", sgen)) /\ c2s' \in Seq(ClientPdus)
    BY <1>00, <1>6, <2>2, SendOne
  <2> QED BY <1>2, <1>9, <2>2, <2>3
<1>11. s2c' \in Seq(ServerPdus) /\ ServerStream(s2c', 8 * sgen + 1, ServerSent)
  BY <1>0, <1>3, InvFacts, ServerStreamTail
<1>12. ServerStream(s2c', ClientTaken', ServerSent)
  <2>1. CASE conf.clientLayout
    BY <1>6, <1>11, <2>1 DEF ClientTaken, ClientTakenIn
  <2>2. CASE ~conf.clientLayout
    <3>1. ClientTaken' = 8 * sgen + 2
      BY <1>6, <2>2 DEF ClientTaken, ClientTakenIn
    <3>2. ~conf.serverLayout
      BY <1>0, <2>2 DEF TypeOK, Settings
    <3>3. \A i \in 1..Len(s2c') : s2c'[i] \in ServerPdus
      BY <1>11, ElementOfSeq
    <3>4. \A r \in ServerPdus : PlaceOf(r) = 8 * sgen + 2 => r.type = "MonitorLayout"
      <4> SUFFICES ASSUME NEW r \in ServerPdus, PlaceOf(r) = 8 * sgen + 2 PROVE r.type = "MonitorLayout"
        OBVIOUS
      <4>1. /\ r.gen \in Nat /\ 8 * r.gen <= PlaceOf(r) /\ PlaceOf(r) <= 8 * r.gen + 7
            /\ r.type # "MonitorLayout" => PlaceOf(r) # 8 * r.gen + 2
        BY PlaceOfType
      <4>2. r.gen = sgen
        BY <1>00, <4>1
      <4> QED BY <4>1, <4>2
    <3>5. \A i \in 1..Len(s2c') : 8 * sgen + 2 < PlaceOf(s2c'[i])
      <4> SUFFICES ASSUME NEW i \in 1..Len(s2c') PROVE 8 * sgen + 2 < PlaceOf(s2c'[i])
        OBVIOUS
      <4>1. 8 * sgen + 1 < PlaceOf(s2c'[i]) /\ s2c'[i].type # "MonitorLayout"
        BY <1>11, <3>2 DEF ServerStream
      <4>2. PlaceOf(s2c'[i]) \in Int
        BY <3>3, PlaceOfType
      <4>3. PlaceOf(s2c'[i]) # 8 * sgen + 2
        BY <3>3, <3>4, <4>1
      <4> QED BY <1>00, <4>1, <4>2, <4>3
    <3>6. \A r \in ServerPdus : ~(ServerSent < PlaceOf(r) /\ PlaceOf(r) <= ServerSent)
      BY <1>00, PlaceOfType
    <3> QED BY <1>00, <1>11, <3>1, <3>5, <3>6, ServerStreamMove
  <2> QED BY <2>1, <2>2
<1>13. /\ cstate' \in ClientStates \ {"FAILED"} /\ layout' \in BOOLEAN
       /\ cflags' \subseteq {"DEACTIVATE_REACTIVATE", "SC_SYNCHRONIZE",
              "SC_CONTROL_COOPERATE", "SC_CONTROL_GRANTED", "SC_FONT_MAP"}
       /\ cgen' \in Generations \cup {-1} /\ inputs' \in 0..MaxInput
  <2>1. cstate' \in ClientStates \ {"FAILED"}
    BY <1>6 DEF ClientStates, FinalizePdu
  <2> QED BY <1>0, <1>00, <1>6, <2>1 DEF TypeOK
<1>14. ServerTaken <= ClientSent'
  BY <1>2, <1>9
<1> QED BY <1>0, <1>7, <1>8, <1>10, <1>11, <1>12, <1>13, <1>14, ClientStepKeeps

LEMMA ClientMonitorLayoutInv == IInv /\ ClientMonitorLayout => IInv'
<1> SUFFICES ASSUME IInv, ClientMonitorLayout PROVE IInv'
  OBVIOUS
<1> DEFINE h == Head(s2c)
<1>0. /\ GenerationInv /\ ClientInv /\ ServerTaken <= ClientSent /\ TypeOK
      /\ UNCHANGED <<conf, cgen, serverVars, c2s, inputs, updates, sgen, sstate>>
      /\ cstate = "MONITOR_LAYOUT" /\ s2c # <<>>
  BY DEF IInv, ClientMonitorLayout, serverVars
<1>1. /\ cgen = sgen /\ cgen # -1 /\ sstate # "DEMAND_ACTIVE"
      /\ ~layout /\ cflags \subseteq {"DEACTIVATE_REACTIVATE"}
  BY <1>0 DEF GenerationInv, ClientInv, Awaited
<1>2. /\ cgen \in Generations /\ cgen \in Nat /\ ServerSent \in Int
      /\ s2c \in Seq(ServerPdus) /\ c2s \in Seq(ClientPdus)
      /\ ServerStream(s2c, ClientTaken, ServerSent) /\ ClientStream(c2s, ServerTaken, ClientSent)
  BY <1>1, InvFacts
<1>3. ClientTaken = 8 * cgen + 1 /\ ClientSent = 1
  BY <1>0, <1>1 DEF ClientTaken, ClientTakenIn, ClientSent, ClientSentIn
<1>4. h = Pdu(IF conf.serverLayout THEN "MonitorLayout" ELSE "SCSynchronize", cgen)
  BY <1>0, <1>2, <1>3, NextOfServer
<1>5. /\ cstate' = "FINALIZATION_SYNC" /\ layout' \in BOOLEAN /\ insync' = TRUE
      /\ cflags' \subseteq {"DEACTIVATE_REACTIVATE", "SC_SYNCHRONIZE"}
      /\ "DEACTIVATE_REACTIVATE" \in cflags' <=> "DEACTIVATE_REACTIVATE" \in cflags
      /\ s2c' \in Seq(ServerPdus) /\ ServerStream(s2c', 8 * cgen + 2, ServerSent)
  <2>1. CASE conf.serverLayout
    <3>1. h = Pdu("MonitorLayout", cgen) /\ h.type = "MonitorLayout"
      BY <1>4, <2>1 DEF Pdu
    <3>2. DataFlags(h.type) = cflags /\ DataLayout(h.type) = TRUE
      BY <3>1 DEF DataFlags, DataLayout, ServerFlag
    <3>3. cflags' = cflags /\ layout' = TRUE /\ cstate' = "FINALIZATION_SYNC" /\ s2c' = Tail(s2c)
      BY <1>0, <1>1, <3>1, <3>2 DEF ClientMonitorLayout
    <3>4. PlaceOf(h) = 8 * cgen + 2
      BY <1>2, <3>1, PduPlaces
    <3>5. Tail(s2c) \in Seq(ServerPdus) /\ ServerStream(Tail(s2c), PlaceOf(h), ServerSent)
      BY <1>0, <1>2, <1>3, <3>1, ServerStreamTail
    <3>6. insync' = TRUE
      <4>1. ~layout /\ h.type # "DeactivateAll" /\ layout' = TRUE /\ insync = TRUE
        BY <1>0, <1>1, <3>1, <3>3 DEF ClientInv
      <4> QED BY <4>1 DEF ClientMonitorLayout
    <3> QED BY <1>1, <3>3, <3>4, <3>5, <3>6
  <2>2. CASE ~conf.serverLayout
    <3>1. h = Pdu("SCSynchronize", cgen) /\ h.type = "SCSynchronize"
      BY <1>4, <2>2 DEF Pdu
    <3>2. DataFlags(h.type) = cflags \cup {"SC_SYNCHRONIZE"} /\ DataLayout(h.type) = FALSE
      BY <1>1, <3>1, <1>0 DEF DataFlags, DataLayout, ServerFlag, TypeOK
    <3>3. cflags \cup {"SC_SYNCHRONIZE"} # cflags
      BY <1>1
    <3>4. cflags' = cflags \cup {"SC_SYNCHRONIZE"} /\ layout' = FALSE
      BY <1>0, <1>1, <3>1, <3>2 DEF ClientMonitorLayout
    <3>5. cstate' = "FINALIZATION_SYNC" /\ s2c' = s2c
      BY <1>0, <1>1, <3>1, <3>3, <3>4 DEF ClientMonitorLayout
    <3>6. PlaceOf(h) = 8 * cgen + 3
      BY <1>2, <3>1, PduPlaces
    <3>7. \A i \in 1..Len(s2c) : 8 * cgen + 2 < PlaceOf(s2c[i])
      <4> SUFFICES ASSUME NEW i \in 1..Len(s2c) PROVE 8 * cgen + 2 < PlaceOf(s2c[i])
        OBVIOUS
      <4>1. PlaceOf(h) <= PlaceOf(s2c[i])
        BY <1>0, <1>2, <1>3, ServerStreamHead
      <4>2. PlaceOf(s2c[i]) \in Int
        BY <1>2, ElementOfSeq, PlaceOfType
      <4> QED BY <1>2, <3>6, <4>1, <4>2
    <3>8. \A r \in ServerPdus : ~(ServerSent < PlaceOf(r) /\ PlaceOf(r) <= ServerSent)
      BY <1>2, PlaceOfType
    <3>9. ServerStream(s2c, 8 * cgen + 2, ServerSent)
      BY <1>2, <1>3, <3>7, <3>8, ServerStreamMove
    <3>10. insync' = TRUE
      <4>1. ~layout /\ h.type # "DeactivateAll" /\ cflags' # cflags /\ insync = TRUE
        BY <1>0, <1>1, <3>1, <3>3, <3>4 DEF ClientInv
      <4>2. ~conf.crypt
        BY <1>0, <2>2 DEF ClientInv, DecryptsTwice, TypeOK, Settings
      <4> QED BY <4>1, <4>2 DEF ClientMonitorLayout
    <3> QED BY <1>1, <1>2, <3>4, <3>5, <3>9, <3>10
  <2> QED BY <2>1, <2>2
<1>6. ClientTaken' = 8 * cgen + 2 /\ ClientSent' = 1
  BY <1>0, <1>1, <1>5 DEF ClientTaken, ClientTakenIn, ClientSent, ClientSentIn
<1>7. GenerationInv'
  <2>1. conf.serverLayout => ServerSentIn[sstate] >= 2
    <3> SUFFICES ASSUME conf.serverLayout PROVE ServerSentIn[sstate] >= 2
      OBVIOUS
    <3>1. h = Pdu("MonitorLayout", cgen)
      BY <1>4
    <3>2. PlaceOf(h) = 8 * cgen + 2
      BY <1>2, <3>1, PduPlaces
    <3>3. PlaceOf(h) <= ServerSent
      BY <1>0, <1>2, <1>3, ServerStreamHead
    <3>4. ServerSent = 8 * cgen + ServerSentIn[sstate] /\ ServerSentIn[sstate] \in Int
      BY <1>1, InvFacts
    <3> QED BY <1>2, <3>2, <3>3, <3>4
  <2>2. ClientTakenIn[cstate'] = 2
    BY <1>5 DEF ClientTakenIn
  <2>3. ServerSentIn[sstate] \in Int
    BY InvFacts
  <2> QED BY <1>0, <1>1, <1>5, <2>1, <2>2, <2>3 DEF GenerationInv
<1>8. ClientInv'
  BY <1>0, <1>5 DEF ClientInv, DecryptsTwice
<1>9. cstate' \in ClientStates \ {"FAILED"}
  BY <1>5 DEF ClientStates, FinalizePdu
<1>10. /\ ServerTaken <= ClientSent' /\ c2s' \in Seq(ClientPdus)
       /\ ClientStream(c2s', ServerTaken, ClientSent')
       /\ ServerStream(s2c', ClientTaken', ServerSent)
  BY <1>0, <1>2, <1>3, <1>5, <1>6
<1> QED BY <1>0, <1>2, <1>5, <1>7, <1>8, <1>9, <1>10, ClientStepKeeps DEF TypeOK

LEMMA ClientRecvInv == IInv /\ ClientRecv => IInv'
<1> SUFFICES ASSUME IInv, ClientRecv PROVE IInv'
  OBVIOUS
<1> DEFINE h == Head(s2c)
<1>0. /\ GenerationInv /\ ClientInv /\ ServerTaken <= ClientSent /\ TypeOK
      /\ UNCHANGED <<conf, cgen, insync, serverVars, c2s, inputs, updates, sgen, sstate>>
      /\ cstate \in DOMAIN Awaited \cup {"ACTIVE"} /\ s2c # <<>> /\ s2c' = Tail(s2c)
  BY DEF IInv, ClientRecv, serverVars
<1>01. IF h.type = "DeactivateAll" THEN DeactivateAll ELSE TakePdu(h.type)
  <2>1. insync = TRUE
    BY <1>0 DEF ClientInv
  <2> QED BY <2>1 DEF ClientRecv
<1>1. cgen # -1
  BY <1>0 DEF GenerationInv, Awaited
<1>2. /\ cgen \in Generations /\ cgen \in Nat /\ sgen \in Nat /\ ServerSent \in Int
      /\ s2c \in Seq(ServerPdus) /\ c2s \in Seq(ClientPdus)
      /\ ServerStream(s2c, ClientTaken, ServerSent) /\ ClientStream(c2s, ServerTaken, ClientSent)
      /\ ClientTaken = 8 * cgen + ClientTakenIn[cstate] /\ ClientTakenIn[cstate] \in 1..8
      /\ ServerSent = 8 * sgen + ServerSentIn[sstate] /\ ServerSentIn[sstate] \in 0..7
  BY <1>1, InvFacts
<1>3. /\ h \in ServerPdus /\ PlaceOf(h) <= ServerSent /\ Tail(s2c) \in Seq(ServerPdus)
      /\ h.type = "Update" => ServerStream(Tail(s2c), ClientTaken, ServerSent)
      /\ h.type # "Update" => ServerStream(Tail(s2c), PlaceOf(h), ServerSent)
  BY <1>0, <1>2, ServerStreamHead, ServerStreamTail
<1>4. CASE cstate = "ACTIVE" /\ h = Pdu("Update", cgen)
  <2>1. h.type = "Update"
    BY <1>4 DEF Pdu
  <2>2. DataFlags(h.type) = cflags /\ DataLayout(h.type) = layout /\ ~DataFails(h.type)
    BY <1>0, <2>1 DEF DataFlags, DataLayout, DataFails, ServerFlag, TypeOK
  <2>3. cflags' = cflags /\ layout' = layout /\ cstate' = cstate
    BY <1>01, <1>4, <2>1, <2>2 DEF TakePdu
  <2>4. GenerationInv' /\ ClientInv' /\ ClientSent' = ClientSent /\ ClientTaken' = ClientTaken
    BY <1>0, <2>3 DEF GenerationInv, ClientInv, DecryptsTwice, ClientSent, ClientTaken
  <2>5. cstate' \in ClientStates \ {"FAILED"}
    BY <1>4, <2>3 DEF ClientStates
  <2> QED BY <1>0, <1>2, <1>3, <2>1, <2>3, <2>4, <2>5, ClientStepKeeps DEF TypeOK
<1>5. CASE cstate = "ACTIVE" /\ cgen + 1 \in Generations /\ h = Pdu("DeactivateAll", cgen + 1)
  <2>1. h.type = "DeactivateAll"
    BY <1>5 DEF Pdu
  <2>2. DeactivateAll
    BY <1>01, <2>1
  <2>3. /\ cflags' = cflags \cup {"DEACTIVATE_REACTIVATE"} /\ cstate' = "DEMAND_ACTIVE"
        /\ layout' = layout
    BY <1>5, <2>2 DEF DeactivateAll
  <2>4. PlaceOf(h) = 8 * (cgen + 1)
    BY <1>5, PduPlaces
  <2>5. cgen = sgen - 1 /\ sstate \in {"DEMAND_ACTIVE", "MONITOR_LAYOUT", "CONFIRM_ACTIVE"}
    <3>1. cgen # sgen
      <4>1. cgen \in Int /\ ServerSentIn[sstate] \in Int /\ ServerSentIn[sstate] \in 0..7
        BY InvFacts
      <4>2. ServerSentIn[sstate] <= 7
        BY <4>1
      <4>3. ServerSent = 8 * sgen + ServerSentIn[sstate]
        BY InvFacts
      <4>4. PlaceOf(h) <= ServerSent
        BY <1>3
      <4>5. 8 * (cgen + 1) <= 8 * sgen + ServerSentIn[sstate]
        BY <2>4, <4>3, <4>4
      <4> QED BY <4>1, <4>2, <4>5
    <3> QED BY <1>0, <3>1 DEF GenerationInv
  <2>6. GenerationInv' /\ ClientInv'
    BY <1>0, <1>2, <2>3, <2>5 DEF GenerationInv, ClientInv, DecryptsTwice
  <2>7. ClientSent' = 0 /\ ClientSent = 0
    BY <1>0, <1>2, <2>5 DEF ClientSent
  <2>8. ClientTaken' = 8 * cgen + 8
    BY <1>0, <2>3 DEF ClientTaken, ClientTakenIn
  <2>9. cstate' \in ClientStates \ {"FAILED"}
    BY <2>3 DEF ClientStates
  <2>10. ServerStream(s2c', ClientTaken', ServerSent)
    <3>1. ClientTaken' = PlaceOf(h)
      BY <1>2, <2>4, <2>8
    <3> QED BY <1>0, <1>3, <2>1, <3>1
  <2> QED BY <1>0, <1>2, <1>3, <2>3, <2>6, <2>7, <2>9, <2>10, ClientStepKeeps DEF TypeOK
<1>6. CASE cstate \in DOMAIN Awaited
  <2>0. /\ ClientTakenIn[cstate] \in 2..5
        /\ AfterAwaited[cstate] \in {"FINALIZATION_CLIENT_COOPERATE", "ACTIVE",
              "FINALIZATION_CLIENT_GRANTED_CONTROL", "FINALIZATION_CLIENT_FONT_MAP"}
        /\ ClientTakenIn[AfterAwaited[cstate]] = ClientTakenIn[cstate] + 1
        /\ ClientSentIn[AfterAwaited[cstate]] = ClientSentIn[cstate]
    BY <1>6 DEF ClientTakenIn, ClientSentIn, AfterAwaited, Awaited
  <2>1. /\ h.type \in DOMAIN ServerFlag /\ ServerFlag[h.type] = Awaited[cstate]
        /\ PlaceOf(h) = 8 * cgen + ClientTakenIn[cstate] + 1
        /\ Awaited[cstate] \in {"SC_SYNCHRONIZE", "SC_CONTROL_COOPERATE", "SC_CONTROL_GRANTED",
                                "SC_FONT_MAP"}
    <3>1. CASE cstate = "FINALIZATION_CLIENT_SYNC"
      <4>1. ClientTakenIn[cstate] = 2 /\ Awaited[cstate] = "SC_SYNCHRONIZE"
        BY <3>1 DEF ClientTakenIn, Awaited
      <4>2. h = Pdu("SCSynchronize", cgen)
        BY <1>0, <1>2, <4>1, NextOfServer
      <4>3. PlaceOf(h) = 8 * cgen + 3
        BY <1>2, <4>2, PduPlaces
      <4> QED BY <1>2, <4>1, <4>2, <4>3 DEF Pdu, ServerFlag
    <3>2. CASE cstate = "FINALIZATION_CLIENT_COOPERATE"
      <4>1. ClientTakenIn[cstate] = 3 /\ Awaited[cstate] = "SC_CONTROL_COOPERATE"
        BY <3>2 DEF ClientTakenIn, Awaited
      <4>2. h = Pdu("SCCooperate", cgen)
        BY <1>0, <1>2, <4>1, NextOfServer
      <4>3. PlaceOf(h) = 8 * cgen + 4
        BY <1>2, <4>2, PduPlaces
      <4> QED BY <1>2, <4>1, <4>2, <4>3 DEF Pdu, ServerFlag
    <3>3. CASE cstate = "FINALIZATION_CLIENT_GRANTED_CONTROL"
      <4>1. ClientTakenIn[cstate] = 4 /\ Awaited[cstate] = "SC_CONTROL_GRANTED"
        BY <3>3 DEF ClientTakenIn, Awaited
      <4>2. h = Pdu("SCGranted", cgen)
        BY <1>0, <1>2, <4>1, NextOfServer
      <4>3. PlaceOf(h) = 8 * cgen + 5
        BY <1>2, <4>2, PduPlaces
      <4> QED BY <1>2, <4>1, <4>2, <4>3 DEF Pdu, ServerFlag
    <3>4. CASE cstate = "FINALIZATION_CLIENT_FONT_MAP"
      <4>1. ClientTakenIn[cstate] = 5 /\ Awaited[cstate] = "SC_FONT_MAP"
        BY <3>4 DEF ClientTakenIn, Awaited
      <4>2. h = Pdu("SCFontMap", cgen)
        BY <1>0, <1>2, <4>1, NextOfServer
      <4>3. PlaceOf(h) = 8 * cgen + 6
        BY <1>2, <4>2, PduPlaces
      <4> QED BY <1>2, <4>1, <4>2, <4>3 DEF Pdu, ServerFlag
    <3> QED BY <1>6, <3>1, <3>2, <3>3, <3>4 DEF Awaited
  <2>2. h.type \notin {"DeactivateAll", "MonitorLayout", "Update"} /\ cstate # "ACTIVE"
    BY <1>6, <2>1 DEF ServerFlag, Awaited
  <2>3. /\ DataFlags(h.type) = cflags \cup {Awaited[cstate]} /\ DataLayout(h.type) = layout
        /\ ~DataFails(h.type)
    BY <1>0, <2>1, <2>2 DEF DataFlags, DataLayout, DataFails, TypeOK
  <2>4. cflags' = cflags \cup {Awaited[cstate]} /\ layout' = layout
    BY <1>01, <2>2, <2>3 DEF TakePdu
  <2>5. cstate' = AfterAwaited[cstate]
    BY <1>01, <2>2, <2>3, <2>4 DEF TakePdu
  <2>6. GenerationInv'
    <3>1. cgen = sgen => ClientTakenIn[cstate'] <= ServerSentIn[sstate]
      <4>1. ClientTakenIn[cstate'] = ClientTakenIn[cstate] + 1
        BY <2>0, <2>5
      <4>2. 8 * cgen + ClientTakenIn[cstate] + 1 <= 8 * sgen + ServerSentIn[sstate]
        BY <1>2, <1>3, <2>1
      <4>3. ClientTakenIn[cstate] \in Int /\ ServerSentIn[sstate] \in Int /\ cgen \in Int
        BY InvFacts
      <4>4. cgen = sgen => ClientTakenIn[cstate] + 1 <= ServerSentIn[sstate]
        BY <4>2, <4>3
      <4> QED BY <4>1, <4>4
    <3>2. cstate' \in {"ACTIVE"} \cup DOMAIN Awaited /\ cstate' # "DEMAND_ACTIVE"
      BY <2>0, <2>5 DEF Awaited
    <3> QED BY <1>0, <1>1, <2>2, <3>1, <3>2 DEF GenerationInv
  <2>7. ClientInv'
    <3>1. cstate # "DEMAND_ACTIVE" /\ cstate' \notin {"DEMAND_ACTIVE", "MONITOR_LAYOUT", "FINALIZATION_PERSISTENT_KEY_LIST"}
      BY <1>6, <2>0, <2>5 DEF Awaited
    <3> QED BY <1>0, <2>1, <2>4, <3>1 DEF ClientInv, DecryptsTwice
  <2>8. ClientSent' = ClientSent
    BY <1>0, <2>0, <2>5 DEF ClientSent
  <2>9. ClientTaken' = PlaceOf(h)
    <3>1. ClientTaken' = 8 * cgen + ClientTakenIn[AfterAwaited[cstate]]
      BY <1>0, <2>5 DEF ClientTaken
    <3>2. /\ ClientTakenIn[AfterAwaited[cstate]] = ClientTakenIn[cstate] + 1
          /\ PlaceOf(h) = 8 * cgen + ClientTakenIn[cstate] + 1
      BY <2>0, <2>1
    <3>3. cgen \in Int /\ ClientTakenIn[cstate] \in Int
      BY <1>2
    <3> QED BY <3>1, <3>2, <3>3
  <2>10. cstate' \in ClientStates \ {"FAILED"}
    BY <2>0, <2>5 DEF ClientStates, Awaited
  <2>11. cflags' \subseteq {"DEACTIVATE_REACTIVATE", "SC_SYNCHRONIZE",
              "SC_CONTROL_COOPERATE", "SC_CONTROL_GRANTED", "SC_FONT_MAP"}
    BY <1>0, <2>1, <2>4 DEF TypeOK
  <2>12. /\ ServerStream(s2c', ClientTaken', ServerSent) /\ s2c' \in Seq(ServerPdus)
         /\ ClientStream(c2s', ServerTaken, ClientSent') /\ ServerTaken <= ClientSent'
    BY <1>0, <1>2, <1>3, <2>2, <2>8, <2>9
  <2> QED BY <1>0, <1>2, <2>4, <2>6, <2>7, <2>10, <2>11, <2>12, ClientStepKeeps DEF TypeOK
<1>7. cstate = "ACTIVE" => \/ h = Pdu("Update", cgen)
                           \/ cgen + 1 \in Generations /\ h = Pdu("DeactivateAll", cgen + 1)
  <2> SUFFICES ASSUME cstate = "ACTIVE"
               PROVE  \/ h = Pdu("Update", cgen)
                      \/ cgen + 1 \in Generations /\ h = Pdu("DeactivateAll", cgen + 1)
    OBVIOUS
  <2>1. ClientTakenIn[cstate] = 6
    BY DEF ClientTakenIn
  <2>2. ServerStream(s2c, 8 * cgen + 6, ServerSent)
    BY <1>2, <2>1
  <2> HIDE DEF h
  <2>3. \A k \in 1..6 : ServerStream(s2c, 8 * cgen + k, ServerSent) /\ k = 6 =>
           \/ Head(s2c) = Pdu("Update", cgen)
           \/ cgen + 1 \in Generations /\ Head(s2c) = Pdu("DeactivateAll", cgen + 1)
    BY <1>0, <1>2, NextOfServer
  <2>4. 6 \in 1..6
    OBVIOUS
  <2> QED BY <2>2, <2>3, <2>4, Zenon DEF h
<1> QED BY <1>0, <1>4, <1>5, <1>6, <1>7

LEMMA ClientInputInv == IInv /\ ClientInput => IInv'
<1> SUFFICES ASSUME IInv, ClientInput PROVE IInv'
  OBVIOUS
<1>0. /\ GenerationInv /\ ClientInv /\ ServerTaken <= ClientSent /\ TypeOK
      /\ UNCHANGED <<conf, clientVars, serverVars, s2c, updates>>
      /\ UNCHANGED <<cstate, cflags, layout, cgen, insync, sgen, sstate>>
      /\ cstate # "DEMAND_ACTIVE"
  BY DEF IInv, ClientInput, serverVars, clientVars, ClientActiveState, FinalizePdu, Awaited
<1>1. cgen # -1
  BY <1>0 DEF GenerationInv
<1>2. /\ cgen \in Generations /\ s2c \in Seq(ServerPdus) /\ c2s \in Seq(ClientPdus)
      /\ ServerTaken \in Int /\ ClientSent \in Int
      /\ ServerStream(s2c, ClientTaken, ServerSent) /\ ClientStream(c2s, ServerTaken, ClientSent)
      /\ cstate \in ClientStates \ {"FAILED"}
  BY <1>1, InvFacts
<1>3. /\ Pdu("Input", cgen) \in ClientPdus
      /\ ClientStream(Append(c2s, Pdu("Input", cgen)), ServerTaken, ClientSent)
  BY <1>2, ClientStreamInput
<1>4. c2s' = Append(c2s, Pdu("Input", cgen)) /\ c2s' \in Seq(ClientPdus)
  BY <1>2, <1>3, SendOne DEF ClientInput
<1>5. GenerationInv' /\ ClientInv' /\ ClientSent' = ClientSent /\ ClientTaken' = ClientTaken
  BY <1>0 DEF GenerationInv, ClientInv, DecryptsTwice, ClientSent, ClientTaken
<1>6. inputs' \in 0..MaxInput
  BY <1>0, BoundsAssumption DEF ClientInput, TypeOK
<1> QED BY <1>0, <1>2, <1>3, <1>4, <1>5, <1>6, ClientStepKeeps DEF TypeOK

-----------------------------------------------------------------------------
(* What peer_recv_pdu makes of a PDU.                                      *)

LEMMA PeerRecvInput ==
    ASSUME NEW p, p.type = "Input"
    PROVE  PeerRecvPdu(p) = [state |-> sstate, flags |-> sflags, persist |-> persist,
                             activated |-> activated, out |-> <<>>, result |-> "success"]
BY DEF PeerRecvPdu, ClientFlag

LEMMA PeerRecvConfirm ==
    ASSUME NEW p, p.type = "ConfirmActive", sstate = "CONFIRM_ACTIVE"
    PROVE  PeerRecvPdu(p) =
             [state |-> "FINALIZATION_SYNC", flags |-> sflags \cap {"DEACTIVATE_REACTIVATE"},
              persist |-> IF conf.cacheV2 THEN conf.persist ELSE persist,
              activated |-> ActivatedAfterTransition,
              out |-> <<"SCSynchronize", "SCCooperate">>, result |-> "success"]
<1> DEFINE same == [state |-> sstate, flags |-> sflags, persist |-> persist,
                    activated |-> activated, out |-> <<>>, result |-> "success"]
<1>0. p.type # "FontList" /\ p.type \notin DOMAIN ClientFlag /\ p.type # "Input"
  BY DEF ClientFlag
<1>1. PeerRecvPdu(p) = [same EXCEPT !.state = "FINALIZATION_SYNC",
                      !.flags = @ \cap {"DEACTIVATE_REACTIVATE"},
                      !.persist = IF conf.cacheV2 THEN conf.persist ELSE @,
                      !.activated = ActivatedAfterTransition,
                      !.out = <<"SCSynchronize", "SCCooperate">>]
  BY <1>0, Zenon DEF PeerRecvPdu
<1> QED BY <1>1

LEMMA PeerRecvFontList ==
    ASSUME NEW p, p.type = "FontList"
    PROVE  PeerRecvPdu(p) =
             [state |-> "ACTIVE", flags |-> sflags \cup {"CS_FONT_LIST"}, persist |-> persist,
              activated |-> ActivatedAfterTransition, out |-> <<"SCFontMap">>,
              result |-> "continue"]
BY DEF PeerRecvPdu

LEMMA PeerRecvFlag ==
    ASSUME NEW p, p.type \in DOMAIN ClientFlag \ {"FontList"}, ClientFlagNeeds(p.type) \subseteq sflags
    PROVE  PeerRecvPdu(p) =
             [state |-> sstate, flags |-> sflags \cup {ClientFlag[p.type]}, persist |-> persist,
              activated |-> activated, out |-> <<>>, result |-> "success"]
<1>1. p.type # "ConfirmActive" /\ p.type # "FontList" /\ p.type # "Input"
  BY DEF ClientFlag
<1>2. PeerRecvPdu(p) =
        [[state |-> sstate, flags |-> sflags, persist |-> persist, activated |-> activated,
          out |-> <<>>, result |-> "success"] EXCEPT !.flags = @ \cup {ClientFlag[p.type]}]
  BY <1>1, Zenon DEF PeerRecvPdu
<1> QED BY <1>2

-----------------------------------------------------------------------------
(* The steps of the server.                                                *)

\* Input changes nothing, in whichever state it is read.
LEMMA ServerReadsInput ==
    ASSUME IInv, c2s # <<>>, Head(c2s).type = "Input", c2s' = Tail(c2s),
           UNCHANGED <<conf, clientVars, serverVars, s2c, inputs, updates>>
    PROVE  IInv'
<1>0. /\ UNCHANGED <<sstate, sflags, persist, connected, activated, rerun, sgen, activates>>
      /\ UNCHANGED <<cstate, cflags, layout, cgen>> /\ UNCHANGED <<conf, s2c, inputs, updates>>
  BY DEF serverVars, clientVars
<1>1. /\ GenerationInv /\ ServerInv /\ ServerTaken <= ClientSent /\ TypeOK
      /\ c2s \in Seq(ClientPdus) /\ ServerTaken \in Int /\ ClientSent \in Int
      /\ sstate \in ServerStates \ {"FAILED"}
      /\ ServerStream(s2c, ClientTaken, ServerSent) /\ ClientStream(c2s, ServerTaken, ClientSent)
  BY InvFacts DEF IInv
<1>2. GenerationInv' /\ ServerInv' /\ ServerTaken' = ServerTaken /\ ServerSent' = ServerSent
  BY <1>0, <1>1 DEF GenerationInv, ServerInv, KeyListsAgree, ServerTaken, ServerSent
<1>3. c2s' \in Seq(ClientPdus) /\ ClientStream(c2s', ServerTaken, ClientSent)
  BY <1>1, ClientStreamHead
<1> QED BY <1>0, <1>1, <1>2, <1>3, ServerStepKeeps DEF TypeOK

\* While it is active the server has taken all that the client has sent, input aside.
LEMMA ActiveServer ==
    ASSUME IInv, sstate = "ACTIVE"
    PROVE  /\ cgen = sgen /\ cgen \in Nat /\ cstate \in DOMAIN Awaited \cup {"ACTIVE"}
           /\ ServerTaken = 6 /\ ClientSent = 6 /\ ServerSent = 8 * sgen + 7
           /\ \A i \in 1..Len(c2s) : c2s[i].type = "Input"
<1>0. /\ GenerationInv /\ ServerTaken <= ClientSent /\ cgen >= -1 /\ cgen \in Int /\ sgen \in Nat
      /\ cstate \in ClientStates \ {"FAILED"} /\ ClientSent \in 0..6
      /\ ClientStream(c2s, ServerTaken, ClientSent) /\ c2s \in Seq(ClientPdus)
  BY InvFacts DEF IInv
<1>1. cgen = sgen
  BY <1>0 DEF GenerationInv
<1>2. ServerTaken = 6 /\ ServerSent = 8 * sgen + 7
  BY DEF ServerTaken, ServerTakenIn, ServerSent, ServerSentIn
<1>3. ClientSent = 6
  BY <1>0, <1>2
<1>4. cstate \in DOMAIN Awaited \cup {"ACTIVE"}
  BY <1>0, <1>1, <1>3 DEF ClientSent, ClientSentIn, ClientStates, FinalizePdu, Awaited
<1>5. \A i \in 1..Len(c2s) : c2s[i].type = "Input"
  <2> SUFFICES ASSUME NEW i \in 1..Len(c2s), c2s[i].type # "Input" PROVE FALSE
    OBVIOUS
  <2>1. 6 < ClientPlace[c2s[i].type] /\ ClientPlace[c2s[i].type] <= 6
    BY <1>0, <1>2, <1>3 DEF ClientStream
  <2>2. c2s[i] \in ClientPdus
    BY <1>0, ElementOfSeq
  <2>3. ClientPlace[c2s[i].type] \in 1..6
    BY <2>2, ClientPduType
  <2> QED BY <2>1, <2>3
<1> QED BY <1>0, <1>1, <1>2, <1>3, <1>4, <1>5

LEMMA ReactivateInv ==
    ASSUME IInv, sstate = "ACTIVE", Reactivate, rerun' = FALSE, connected' \in BOOLEAN,
           UNCHANGED <<conf, clientVars, persist, c2s, inputs, updates>>
    PROVE  IInv'
<1> DEFINE g == sgen + 1
<1>0. /\ UNCHANGED <<cstate, cflags, layout, cgen, insync>>
      /\ UNCHANGED <<conf, persist, c2s, inputs, updates>>
      /\ TypeOK /\ ServerInv /\ ClientInv /\ GenerationInv /\ NothingFails
  BY DEF IInv, clientVars
<1>1. /\ cgen = sgen /\ cgen \in Nat /\ sgen \in Nat /\ cstate \in DOMAIN Awaited \cup {"ACTIVE"}
      /\ ServerSent = 8 * sgen + 7 /\ \A i \in 1..Len(c2s) : c2s[i].type = "Input"
  BY ActiveServer, InvFacts
<1>2. /\ sgen' = g /\ g \in Generations /\ sstate' = "MONITOR_LAYOUT" /\ activates' = 0 /\ activated' = FALSE
      /\ sflags' = sflags \cup {"DEACTIVATE_REACTIVATE"}
      /\ s2c' = Send(s2c, <<"DeactivateAll", "DemandActive">>, g)
  BY <1>1, BoundsAssumption DEF Reactivate, Generations
<1>3. /\ s2c \in Seq(ServerPdus) /\ ServerStream(s2c, ClientTaken, ServerSent) /\ ClientTaken \in Int
      /\ ServerSent \in Int /\ ClientTaken = 8 * cgen + ClientTakenIn[cstate]
  BY InvFacts
<1>4. ClientTakenIn[cstate] \in 2..6
  BY <1>1 DEF ClientTakenIn, Awaited
<1>40. ClientTaken \in Int /\ sgen \in Nat /\ ClientTaken <= 8 * sgen + 6
  <2>1. ClientTaken = 8 * sgen + ClientTakenIn[cstate]
    BY <1>1, <1>3
  <2>2. sgen \in Nat
    BY <1>1
  <2>3. ClientTaken \in Int
    BY <1>3
  <2> QED BY <1>4, <2>1, <2>2, <2>3
<1>5. /\ Pdu("DeactivateAll", g) \in ServerPdus /\ Pdu("DeactivateAll", g).type = "DeactivateAll"
      /\ PlaceOf(Pdu("DeactivateAll", g)) = 8 * sgen + 8
      /\ Pdu("DemandActive", g) \in ServerPdus /\ Pdu("DemandActive", g).type = "DemandActive"
      /\ PlaceOf(Pdu("DemandActive", g)) = 8 * sgen + 9
  <2>1. PICK d \in Generations : d = g
    BY <1>2
  <2>2. /\ Pdu("DeactivateAll", d) \in ServerPdus /\ PlaceOf(Pdu("DeactivateAll", d)) = 8 * d
        /\ Pdu("DemandActive", d) \in ServerPdus /\ PlaceOf(Pdu("DemandActive", d)) = 8 * d + 1
    BY PduPlaces DEF ServerPlace
  <2>3. Pdu("DeactivateAll", d).type = "DeactivateAll" /\ Pdu("DemandActive", d).type = "DemandActive"
    BY DEF Pdu
  <2> QED BY <1>1, <2>1, <2>2, <2>3
<1> HIDE DEF g
<1>6. /\ ServerStream(Append(s2c, Pdu("DeactivateAll", g)), ClientTaken, 8 * sgen + 8)
      /\ Append(s2c, Pdu("DeactivateAll", g)) \in Seq(ServerPdus)
  <2>1. \A r \in ServerPdus : ServerSent < PlaceOf(r) /\ PlaceOf(r) <= 8 * sgen + 8
          => r = Pdu("DeactivateAll", g)
    <3> SUFFICES ASSUME NEW r \in ServerPdus, ServerSent < PlaceOf(r), PlaceOf(r) <= 8 * sgen + 8
                 PROVE  r = Pdu("DeactivateAll", g)
      OBVIOUS
    <3>1. PlaceOf(r) = PlaceOf(Pdu("DeactivateAll", g))
      BY <1>1, <1>5, PlaceOfType
    <3> QED BY <1>5, <3>1, PlaceInjective
  <2>2. ClientTaken < 8 * sgen + 8 /\ ServerSent < 8 * sgen + 8
    <3>1. ClientTaken < 8 * sgen + 8
      BY <1>40
    <3>2. ServerSent < 8 * sgen + 8
      BY <1>1
    <3> QED BY <3>1, <3>2
  <2> QED BY <1>3, <1>5, <2>1, <2>2, ServerStreamSend
<1>7. /\ ServerStream(Append(Append(s2c, Pdu("DeactivateAll", g)), Pdu("DemandActive", g)),
                      ClientTaken, 8 * sgen + 9)
  <2>1. \A r \in ServerPdus : 8 * sgen + 8 < PlaceOf(r) /\ PlaceOf(r) <= 8 * sgen + 9
          => r = Pdu("DemandActive", g)
    <3> SUFFICES ASSUME NEW r \in ServerPdus, 8 * sgen + 8 < PlaceOf(r), PlaceOf(r) <= 8 * sgen + 9
                 PROVE  r = Pdu("DemandActive", g)
      OBVIOUS
    <3>1. PlaceOf(r) = PlaceOf(Pdu("DemandActive", g))
      BY <1>1, <1>5, PlaceOfType
    <3> QED BY <1>5, <3>1, PlaceInjective
  <2>2. ClientTaken < 8 * sgen + 9 /\ 8 * sgen + 8 < 8 * sgen + 9 /\ 8 * sgen + 8 \in Int
    <3>1. ClientTaken < 8 * sgen + 9
      BY <1>40
    <3>2. 8 * sgen + 8 < 8 * sgen + 9 /\ 8 * sgen + 8 \in Int
      BY <1>1
    <3> QED BY <3>1, <3>2
  <2> QED BY <1>3, <1>5, <1>6, <2>1, <2>2, ServerStreamSend
<1>8. s2c' = Append(Append(s2c, Pdu("DeactivateAll", g)), Pdu("DemandActive", g)) /\ s2c' \in Seq(ServerPdus)
  BY <1>2, <1>3, <1>5, SendTwo
<1>9. ServerSent' = 8 * sgen + 9 /\ ClientTaken' = ClientTaken /\ ServerTaken' = 0 /\ ClientSent' = 0
  <2>1. ServerSent' = 8 * sgen + 9
    BY <1>1, <1>2 DEF ServerSent, ServerSentIn, g
  <2>2. ClientTaken' = ClientTaken
    BY <1>0 DEF ClientTaken
  <2>3. ServerTaken' = 0
    BY <1>2 DEF ServerTaken, ServerTakenIn
  <2>4. ClientSent' = 0
    BY <1>0, <1>1, <1>2 DEF ClientSent, g
  <2> QED BY <2>1, <2>2, <2>3, <2>4
<1>10. ServerStream(s2c, ClientTaken, ServerSent)'
  BY <1>0, <1>7, <1>8, <1>9, ServerStreamNext
<1>11. ClientStream(c2s, ServerTaken, ClientSent)'
  <2>1. \A t \in DOMAIN ClientPlace : ~(ClientPlace[t] <= 0)
    BY DEF ClientPlace
  <2> QED BY <1>0, <1>1, <1>9, <2>1 DEF ClientStream
<1>12. GenerationInv'
  BY <1>0, <1>1, <1>2 DEF GenerationInv, g
<1>13. ClientInv' /\ NothingFails'
  BY <1>0, <1>2 DEF ClientInv, DecryptsTwice, NothingFails
<1>14. ServerInv'
  <2>1. sstate' \notin Finalizing /\ sgen' > 0
    BY <1>1, <1>2 DEF Finalizing, Expected, g
  <2> QED BY <1>0, <1>2, <2>1 DEF ServerInv, KeyListsAgree
<1>15. TypeOK'
  <2>1. sstate' \in ServerStates
    BY <1>2 DEF ServerStates
  <2> QED BY <1>0, <1>2, <1>8, <2>1 DEF TypeOK, Generations, ClientPdus, ServerPdus
<1>16. ServerTaken' <= ClientSent'
  BY <1>9
<1> QED BY <1>10, <1>11, <1>12, <1>13, <1>14, <1>15, <1>16 DEF IInv

LEMMA DesktopResizeInv == IInv /\ DesktopResize => IInv'
<1> SUFFICES ASSUME IInv, DesktopResize PROVE IInv'
  OBVIOUS
<1>1. /\ sstate = "ACTIVE" /\ Reactivate /\ rerun' = FALSE /\ connected' \in BOOLEAN
      /\ UNCHANGED <<conf, clientVars, persist, c2s, inputs, updates>>
  BY DEF DesktopResize, IInv, ServerInv, TypeOK
<1> QED BY <1>1, ReactivateInv

LEMMA ServerActivateResizesInv == IInv /\ ServerActivateResizes => IInv'
<1> SUFFICES ASSUME IInv, ServerActivateResizes PROVE IInv'
  OBVIOUS
<1>1. rerun
  BY DEF ServerActivateResizes, IInv, ServerInv
<1>2. /\ sstate = "ACTIVE" /\ Reactivate /\ rerun' = FALSE /\ connected' \in BOOLEAN
      /\ UNCHANGED <<conf, clientVars, persist, c2s, inputs, updates>>
  BY <1>1 DEF ServerActivateResizes
<1> QED BY <1>2, ReactivateInv

LEMMA SendUpdateInv == IInv /\ SendUpdate => IInv'
<1> SUFFICES ASSUME IInv, SendUpdate PROVE IInv'
  OBVIOUS
<1>0. /\ UNCHANGED <<conf, clientVars, sgen, inputs>>
      /\ UNCHANGED <<cstate, cflags, layout, cgen>> /\ UNCHANGED c2s
      /\ UNCHANGED <<sstate, sflags, persist, connected, activated, rerun, sgen, activates>>
      /\ TypeOK /\ ServerInv /\ GenerationInv /\ ServerTaken <= ClientSent
      /\ s2c' = Send(s2c, <<"Update">>, sgen) /\ activated /\ updates' = updates + 1 /\ updates < MaxUpdates
  BY DEF IInv, SendUpdate, serverVars, clientVars
<1>1. sstate = "ACTIVE"
  BY <1>0 DEF ServerInv
<1>2. /\ cgen = sgen /\ sgen \in Nat /\ sgen \in Generations /\ ServerSent = 8 * sgen + 7
      /\ s2c \in Seq(ServerPdus) /\ ServerStream(s2c, ClientTaken, ServerSent) /\ ClientTaken \in Int
      /\ ServerSent \in Int /\ ClientTaken = 8 * cgen + ClientTakenIn[cstate]
      /\ c2s \in Seq(ClientPdus) /\ ClientStream(c2s, ServerTaken, ClientSent)
      /\ cstate \in DOMAIN Awaited \cup {"ACTIVE"} /\ sstate \in ServerStates \ {"FAILED"}
  BY <1>1, ActiveServer, InvFacts
<1>3. ClientTakenIn[cstate] \in 2..6
  BY <1>2 DEF ClientTakenIn, Awaited
<1>4. /\ Pdu("Update", sgen) \in ServerPdus /\ PlaceOf(Pdu("Update", sgen)) = 8 * sgen + 7
      /\ Pdu("Update", sgen).type = "Update"
  <2>1. Pdu("Update", sgen) \in ServerPdus /\ PlaceOf(Pdu("Update", sgen)) = 8 * sgen + 7
    BY <1>2, PduPlaces DEF ServerPlace
  <2> QED BY <2>1 DEF Pdu
<1>5. /\ ClientTaken < 8 * sgen + 7
      /\ \A r \in ServerPdus : ~(ServerSent < PlaceOf(r) /\ PlaceOf(r) <= 8 * sgen + 7)
  <2>1. ClientTaken < 8 * sgen + 7
    BY <1>2, <1>3
  <2>2. \A r \in ServerPdus : PlaceOf(r) \in Int
    BY PlaceOfType
  <2> QED BY <1>2, <2>1, <2>2
<1>6. ServerStream(Append(s2c, Pdu("Update", sgen)), ClientTaken, ServerSent)
  BY <1>2, <1>4, <1>5, ServerStreamSend
<1>7. s2c' = Append(s2c, Pdu("Update", sgen)) /\ s2c' \in Seq(ServerPdus)
  BY <1>0, <1>2, <1>4, SendOne
<1>8. GenerationInv' /\ ServerInv' /\ ServerTaken' = ServerTaken /\ ServerSent' = ServerSent
  BY <1>0 DEF GenerationInv, ServerInv, KeyListsAgree, ServerTaken, ServerSent
<1>9. updates' \in 0..MaxUpdates
  BY <1>0, BoundsAssumption DEF TypeOK
<1> QED BY <1>0, <1>2, <1>6, <1>7, <1>8, <1>9, ServerStepKeeps DEF TypeOK

LEMMA ServerDemandActiveInv == IInv /\ ServerDemandActive => IInv'
<1> SUFFICES ASSUME IInv, ServerDemandActive PROVE IInv'
  OBVIOUS
<1>0. /\ UNCHANGED <<conf, clientVars, sgen, inputs>>
      /\ UNCHANGED <<cstate, cflags, layout, cgen>>
      /\ UNCHANGED <<sflags, persist, connected, activates, c2s, updates>>
      /\ TypeOK /\ ServerInv /\ GenerationInv /\ ServerTaken <= ClientSent
      /\ sstate = "DEMAND_ACTIVE" /\ sstate' = "MONITOR_LAYOUT" /\ rerun' = TRUE
      /\ s2c' = Send(s2c, <<"DemandActive">>, sgen)
      /\ activated' = ActivatedAfterTransition
  BY DEF IInv, ServerDemandActive, clientVars
<1>1. sgen = 0 /\ cgen = -1 /\ cstate = "DEMAND_ACTIVE" /\ ~activated /\ activated' = FALSE
  <2>1. sgen = 0 /\ cgen = -1 /\ cstate = "DEMAND_ACTIVE"
    BY <1>0, InvFacts DEF GenerationInv
  <2> QED BY <1>0, <2>1 DEF ServerInv, ActivatedAfterTransition
<1>2. /\ s2c \in Seq(ServerPdus) /\ ServerStream(s2c, ClientTaken, ServerSent) /\ sgen \in Generations
      /\ c2s \in Seq(ClientPdus) /\ ClientStream(c2s, ServerTaken, ClientSent)
  BY InvFacts
<1>3. ClientTaken = 0 /\ ServerSent = 0 /\ ServerSent' = 1 /\ ServerTaken' = ServerTaken
  <2>1. ClientTaken = 0
    BY <1>1 DEF ClientTaken, ClientTakenIn
  <2>2. ServerSent = 0 /\ ServerSent' = 1
    BY <1>0, <1>1 DEF ServerSent, ServerSentIn
  <2>3. ServerTaken' = ServerTaken
    BY <1>0 DEF ServerTaken, ServerTakenIn
  <2> QED BY <2>1, <2>2, <2>3
<1>4. /\ Pdu("DemandActive", sgen) \in ServerPdus /\ PlaceOf(Pdu("DemandActive", sgen)) = 1
      /\ Pdu("DemandActive", sgen).type = "DemandActive"
  <2>1. Pdu("DemandActive", sgen) \in ServerPdus /\ PlaceOf(Pdu("DemandActive", sgen)) = 8 * sgen + 1
    BY <1>2, PduPlaces DEF ServerPlace
  <2>2. Pdu("DemandActive", sgen).type = "DemandActive"
    BY DEF Pdu
  <2> QED BY <1>1, <2>1, <2>2
<1>5. \A r \in ServerPdus : 0 < PlaceOf(r) /\ PlaceOf(r) <= 1 => r = Pdu("DemandActive", sgen)
  <2> SUFFICES ASSUME NEW r \in ServerPdus, 0 < PlaceOf(r), PlaceOf(r) <= 1
               PROVE  r = Pdu("DemandActive", sgen)
    OBVIOUS
  <2>1. PlaceOf(r) = PlaceOf(Pdu("DemandActive", sgen))
    BY <1>4, PlaceOfType
  <2> QED BY <1>4, <2>1, PlaceInjective
<1>6. ServerStream(Append(s2c, Pdu("DemandActive", sgen)), ClientTaken, ServerSent')
  BY <1>2, <1>3, <1>4, <1>5, ServerStreamSend
<1>7. s2c' = Append(s2c, Pdu("DemandActive", sgen)) /\ s2c' \in Seq(ServerPdus)
  BY <1>0, <1>2, <1>4, SendOne
<1>8. GenerationInv'
  BY <1>0, <1>1 DEF GenerationInv
<1>9. ServerInv'
  BY <1>0, <1>1 DEF ServerInv, KeyListsAgree, Finalizing, Expected
<1>10. sstate' \in ServerStates \ {"FAILED"}
  BY <1>0 DEF ServerStates
<1> QED BY <1>0, <1>1, <1>2, <1>3, <1>6, <1>7, <1>8, <1>9, <1>10, ServerStepKeeps DEF TypeOK

LEMMA ServerMonitorLayoutInv == IInv /\ ServerMonitorLayout => IInv'
<1> SUFFICES ASSUME IInv, ServerMonitorLayout PROVE IInv'
  OBVIOUS
<1> DEFINE p == Pdu("MonitorLayout", sgen)
<1>0. /\ UNCHANGED <<conf, clientVars, sgen, inputs>>
      /\ UNCHANGED <<cstate, cflags, layout, cgen>>
      /\ UNCHANGED <<sflags, persist, connected, activates, c2s, updates>>
      /\ TypeOK /\ ServerInv /\ GenerationInv /\ ServerTaken <= ClientSent
      /\ sstate = "MONITOR_LAYOUT" /\ sstate' = "CONFIRM_ACTIVE" /\ rerun' = FALSE
      /\ activated' = ActivatedAfterTransition
      /\ s2c' = IF conf.serverLayout THEN Send(s2c, <<"MonitorLayout">>, sgen) ELSE s2c
  BY DEF IInv, ServerMonitorLayout, clientVars
<1>1. ~activated /\ activated' = FALSE
  BY <1>0 DEF ServerInv, ActivatedAfterTransition
<1>2. /\ s2c \in Seq(ServerPdus) /\ ServerStream(s2c, ClientTaken, ServerSent) /\ sgen \in Generations
      /\ c2s \in Seq(ClientPdus) /\ ClientStream(c2s, ServerTaken, ClientSent) /\ sgen \in Nat
      /\ ClientTaken \in Int /\ ClientTaken = 8 * cgen + ClientTakenIn[cstate] /\ cgen \in Int
      /\ ClientTakenIn[cstate] \in 1..8
  BY InvFacts
<1>3. ServerSent = 8 * sgen + 1 /\ ServerSent' = 8 * sgen + 2 /\ ServerTaken' = ServerTaken
  <2>1. ServerSent = 8 * sgen + 1 /\ ServerSent' = 8 * sgen + 2
    BY <1>0 DEF ServerSent, ServerSentIn
  <2>2. ServerTaken' = ServerTaken
    BY <1>0 DEF ServerTaken, ServerTakenIn
  <2> QED BY <2>1, <2>2
<1>4. p \in ServerPdus /\ PlaceOf(p) = 8 * sgen + 2 /\ p.type = "MonitorLayout"
  <2>1. p \in ServerPdus /\ PlaceOf(p) = 8 * sgen + 2
    BY <1>2, PduPlaces DEF ServerPlace
  <2> QED BY <2>1 DEF Pdu
<1>5. \A r \in ServerPdus : 8 * sgen + 1 < PlaceOf(r) /\ PlaceOf(r) <= 8 * sgen + 2 => r = p
  <2> SUFFICES ASSUME NEW r \in ServerPdus, 8 * sgen + 1 < PlaceOf(r), PlaceOf(r) <= 8 * sgen + 2
               PROVE  r = p
    OBVIOUS
  <2>1. PlaceOf(r) = PlaceOf(p)
    BY <1>2, <1>4, PlaceOfType
  <2> QED BY <1>4, <2>1, PlaceInjective
<1>6. s2c' \in Seq(ServerPdus) /\ ServerStream(s2c', ClientTaken, ServerSent')
  <2>1. CASE conf.serverLayout
    <3>1. s2c' = Append(s2c, p) /\ s2c' \in Seq(ServerPdus)
      BY <1>0, <1>2, <1>4, <2>1, SendOne
    <3>2. ClientTaken < PlaceOf(p)
      <4>2. ServerSentIn[sstate] = 1
        BY <1>0 DEF ServerSentIn
      <4>3. cgen = sgen => ClientTakenIn[cstate] <= 1
        BY <1>0, <2>1, <4>2 DEF GenerationInv
      <4>4. cgen = sgen \/ cgen = sgen - 1
        BY <1>0 DEF GenerationInv
      <4>5. /\ ClientTaken = 8 * cgen + ClientTakenIn[cstate] /\ cgen \in Int /\ sgen \in Nat
            /\ ClientTakenIn[cstate] \in Int /\ ClientTakenIn[cstate] <= 8
        BY <1>2
      <4>6. ClientTaken < 8 * sgen + 2
        <5>1. CASE cgen = sgen
          BY <4>3, <4>5, <5>1
        <5>2. CASE cgen = sgen - 1
          BY <4>5, <5>2
        <5> QED BY <4>4, <5>1, <5>2
      <4> QED BY <1>4, <4>6
    <3> QED BY <1>2, <1>3, <1>4, <1>5, <2>1, <3>1, <3>2, ServerStreamSend
  <2>2. CASE ~conf.serverLayout
    <3>1. \A r \in ServerPdus : ~(Due(r) /\ 8 * sgen + 1 < PlaceOf(r) /\ PlaceOf(r) <= 8 * sgen + 2)
      BY <1>4, <1>5, <2>2 DEF Due
    <3>2. \A i \in 1..Len(s2c) : ClientTaken < PlaceOf(s2c[i])
      BY <1>2 DEF ServerStream
    <3>3. s2c' = s2c
      BY <1>0, <2>2
    <3> QED BY <1>2, <1>3, <3>1, <3>2, <3>3, ServerStreamMove
  <2> QED BY <2>1, <2>2
<1>7. GenerationInv'
  <2>1. ServerSentIn[sstate] = 1 /\ ServerSentIn[sstate'] = 2
    BY <1>0 DEF ServerSentIn
  <2> QED BY <1>0, <1>2, <2>1 DEF GenerationInv
<1>8. ServerInv'
  BY <1>0, <1>1 DEF ServerInv, KeyListsAgree, Finalizing, Expected
<1>9. sstate' \in ServerStates \ {"FAILED"}
  BY <1>0 DEF ServerStates
<1> QED BY <1>0, <1>1, <1>2, <1>3, <1>6, <1>7, <1>8, <1>9, ServerStepKeeps DEF TypeOK

\* The server goes on in its generation, which the client has reached.
LEMMA ServerAdvances ==
    ASSUME IInv, cgen = sgen, UNCHANGED <<conf, clientVars, sgen>>,
           sstate' \in ServerStates \ {"FAILED", "DEMAND_ACTIVE"},
           ServerSentIn[sstate'] \in Int, ServerSentIn[sstate] <= ServerSentIn[sstate']
    PROVE  GenerationInv'
<1>1. GenerationInv /\ cgen \in Int /\ UNCHANGED <<cstate, cgen, sgen, conf>> /\ sstate' # "DEMAND_ACTIVE"
  BY InvFacts DEF IInv, clientVars
<1>2. cstate # "DEMAND_ACTIVE"
  BY <1>1 DEF GenerationInv
<1>3. ServerSentIn[sstate] \in Int /\ ClientTakenIn[cstate] \in Int
  BY InvFacts
<1>4. \/ ClientTakenIn[cstate] <= ServerSentIn[sstate']
      \/ ~conf.serverLayout /\ ClientTakenIn[cstate] = 2
  BY <1>1, <1>3 DEF GenerationInv
<1> QED BY <1>1, <1>2, <1>4 DEF GenerationInv

\* The server sends the finalization PDU that comes next.
LEMMA ServerSendsNext ==
    ASSUME NEW q \in Seq(ServerPdus), NEW lo \in Int, NEW g \in Generations,
           NEW t \in {"SCSynchronize", "SCCooperate", "SCGranted", "SCFontMap"},
           NEW k \in Int, k = 8 * g + ServerPlace[t],
           ServerStream(q, lo, k - 1), lo < k
    PROVE  /\ Pdu(t, g) \in ServerPdus /\ Append(q, Pdu(t, g)) \in Seq(ServerPdus)
           /\ ServerStream(Append(q, Pdu(t, g)), lo, k)
<1> DEFINE p == Pdu(t, g)
<1>1. p \in ServerPdus /\ PlaceOf(p) = k
  <2>1. t \in DOMAIN ServerPlace
    BY DEF ServerPlace
  <2>2. Pdu(t, g) \in ServerPdus
    BY <2>1, PduPlaces
  <2>3. PlaceOf(Pdu(t, g)) = 8 * g + ServerPlace[t]
    BY <2>1, PduPlaces
  <2> QED BY <2>2, <2>3
<1>2. p.type # "MonitorLayout"
  BY DEF Pdu
<1>3. \A r \in ServerPdus : k - 1 < PlaceOf(r) /\ PlaceOf(r) <= k => r = p
  <2> SUFFICES ASSUME NEW r \in ServerPdus, k - 1 < PlaceOf(r), PlaceOf(r) <= k PROVE r = p
    OBVIOUS
  <2>1. PlaceOf(r) = PlaceOf(p)
    BY <1>1, PlaceOfType
  <2> QED BY <1>1, <2>1, PlaceInjective
<1>4. lo < PlaceOf(p) /\ k - 1 < PlaceOf(p) /\ k - 1 \in Int
  BY <1>1
<1> QED BY <1>1, <1>2, <1>3, <1>4, ServerStreamSend

\* The server takes over a PDU that leaves everything as it is.
LEMMA ServerAppliesInput ==
    ASSUME IInv, ~rerun, c2s # <<>>, Head(c2s).type = "Input",
           Apply([state |-> sstate, flags |-> sflags, persist |-> persist,
                  activated |-> activated, out |-> <<>>, result |-> "success"],
                 sstate, "success", <<>>)
    PROVE  IInv'
<1>1. /\ c2s' = Tail(c2s) /\ UNCHANGED <<sstate, sflags, persist, activated>>
      /\ UNCHANGED <<conf, clientVars, connected, sgen, activates, inputs, updates>>
      /\ rerun' = FALSE /\ s2c' = Send(s2c, <<>> \o <<>>, sgen)
  BY DEF Apply
<1>2. rerun = FALSE
  BY DEF IInv, TypeOK
<1>3. s2c' = s2c
  <2>1. <<>> \o <<>> = <<>>
    OBVIOUS
  <2>2. s2c \in Seq(ServerPdus)
    BY InvFacts
  <2> QED BY <1>1, <2>1, <2>2, SendNone
<1> QED BY <1>1, <1>2, <1>3, ServerReadsInput DEF serverVars

LEMMA ServerRecvInv == IInv /\ ServerRecv => IInv'
<1> SUFFICES ASSUME IInv, ServerRecv PROVE IInv'
  OBVIOUS
<1> DEFINE h == Head(c2s)
<1> DEFINE r == PeerRecvPdu(h)
<1>0. /\ ~rerun /\ c2s # <<>> /\ TypeOK /\ ServerInv /\ GenerationInv /\ ServerTaken <= ClientSent
      /\ Apply(r, r.state, IF r.result = "continue" /\ r.activated THEN "failed" ELSE r.result, <<>>)
      /\ sstate = "CONFIRM_ACTIVE" \/ sstate = "ACTIVE"
  BY DEF IInv, ServerRecv
<1>1. /\ c2s \in Seq(ClientPdus) /\ ServerTaken \in Int /\ ClientSent \in Int /\ sgen \in Generations
      /\ sgen \in Nat /\ cgen \in Int /\ ClientTaken = 8 * cgen + ClientTakenIn[cstate]
      /\ ClientTaken \in Int /\ ClientTakenIn[cstate] \in Int /\ s2c \in Seq(ServerPdus)
      /\ ClientStream(c2s, ServerTaken, ClientSent) /\ ServerStream(s2c, ClientTaken, ServerSent)
  BY InvFacts
<1>2. CASE h.type = "Input"
  <2>1. r = [state |-> sstate, flags |-> sflags, persist |-> persist,
             activated |-> activated, out |-> <<>>, result |-> "success"]
    BY <1>2, PeerRecvInput
  <2>2. r.state = sstate /\ r.result = "success"
    BY <2>1
  <2>3. Apply(r, sstate, "success", <<>>)
    BY <1>0, <2>2
  <2>4. Apply([state |-> sstate, flags |-> sflags, persist |-> persist,
               activated |-> activated, out |-> <<>>, result |-> "success"],
              sstate, "success", <<>>)
    BY <2>1, <2>3
  <2> QED BY <1>0, <1>2, <2>4, ServerAppliesInput
<1>3. CASE h.type # "Input" /\ sstate = "ACTIVE"
  <2>1. h = c2s[1] /\ 1 \in 1..Len(c2s)
    BY <1>0, <1>1, HeadTailProperties, LenProperties, EmptySeq
  <2> QED BY <1>3, <2>1, ActiveServer
<1>4. CASE h.type # "Input" /\ sstate = "CONFIRM_ACTIVE"
  <2>1. ServerTaken = 0 /\ ServerSent = 8 * sgen + 2 /\ ServerSentIn[sstate] = 2
    BY <1>4 DEF ServerTaken, ServerTakenIn, ServerSent, ServerSentIn
  <2>2. h.type = "ConfirmActive" /\ ClientPlace[h.type] = 1
    <3>1. "ConfirmActive" \in DOMAIN ClientPlace /\ ClientPlace["ConfirmActive"] = 1
      BY DEF ClientPlace
    <3>2. /\ h.type \in DOMAIN ClientPlace /\ 0 < ClientPlace[h.type]
          /\ ClientPlace[h.type] <= ClientPlace["ConfirmActive"]
      <4>1. c2s \in Seq(ClientPdus) /\ ClientSent \in Int /\ ClientStream(c2s, 0, ClientSent)
        BY <1>1, <2>1
      <4> QED BY <1>0, <1>4, <3>1, <4>1, ClientStreamHead
    <3> QED BY <3>1, <3>2 DEF ClientPlace
  <2>3. /\ c2s' \in Seq(ClientPdus) /\ ClientStream(c2s', 1, ClientSent) /\ 1 <= ClientSent
    <3>1. c2s' = Tail(c2s)
      BY <1>0 DEF Apply
    <3> QED BY <1>0, <1>1, <1>4, <2>2, <3>1, ClientStreamHead
  <2>4. cgen = sgen
    BY <1>1, <2>3 DEF ClientSent
  <2>5. r = [state |-> "FINALIZATION_SYNC", flags |-> sflags \cap {"DEACTIVATE_REACTIVATE"},
             persist |-> IF conf.cacheV2 THEN conf.persist ELSE persist,
             activated |-> ActivatedAfterTransition,
             out |-> <<"SCSynchronize", "SCCooperate">>, result |-> "success"]
    BY <1>4, <2>2, PeerRecvConfirm
  <2>6. /\ r.state = "FINALIZATION_SYNC" /\ r.flags = sflags \cap {"DEACTIVATE_REACTIVATE"}
        /\ r.persist = IF conf.cacheV2 THEN conf.persist ELSE persist
        /\ r.activated = ActivatedAfterTransition
        /\ r.out = <<"SCSynchronize", "SCCooperate">> /\ r.result = "success"
    BY <2>5
  <2>7. /\ sstate' = "FINALIZATION_SYNC" /\ rerun' = FALSE
        /\ sflags' = sflags \cap {"DEACTIVATE_REACTIVATE"}
        /\ persist' = IF conf.cacheV2 THEN conf.persist ELSE persist
        /\ activated' = ActivatedAfterTransition
        /\ s2c' = Send(s2c, <<"SCSynchronize", "SCCooperate">> \o <<>>, sgen)
        /\ UNCHANGED <<conf, clientVars, sgen, inputs>> /\ UNCHANGED <<connected, activates, updates>>
    BY <1>0, <2>6 DEF Apply
  <2>8. activated = FALSE /\ activated' = FALSE /\ activates = 0
    BY <1>0, <1>4, <2>7 DEF ServerInv, ActivatedAfterTransition, TypeOK
  <2>9. s2c' \in Seq(ServerPdus) /\ ServerStream(s2c', ClientTaken, 8 * sgen + 4)
    <3>1. ClientTaken <= 8 * sgen + 2
      <4>1. ClientTakenIn[cstate] <= 2
        BY <1>0, <1>1, <2>1, <2>4 DEF GenerationInv
      <4> QED BY <1>1, <2>4, <4>1
    <3> DEFINE q == Append(s2c, Pdu("SCSynchronize", sgen))
    <3>2. /\ Pdu("SCSynchronize", sgen) \in ServerPdus /\ q \in Seq(ServerPdus)
          /\ ServerStream(q, ClientTaken, 8 * sgen + 3)
      <4>1. PICK k \in Int : k = 8 * sgen + 3
        BY <1>1
      <4>2. k = 8 * sgen + ServerPlace["SCSynchronize"] /\ k - 1 = ServerSent /\ ClientTaken < k
        BY <1>1, <2>1, <3>1, <4>1 DEF ServerPlace
      <4> QED BY <1>1, <4>1, <4>2, ServerSendsNext
    <3>3. /\ Pdu("SCCooperate", sgen) \in ServerPdus
          /\ ServerStream(Append(q, Pdu("SCCooperate", sgen)), ClientTaken, 8 * sgen + 4)
      <4>1. PICK k \in Int : k = 8 * sgen + 4
        BY <1>1
      <4>2. k = 8 * sgen + ServerPlace["SCCooperate"] /\ k - 1 = 8 * sgen + 3 /\ ClientTaken < k
        <5>1. ServerPlace["SCCooperate"] = 4
          BY DEF ServerPlace
        <5> QED BY <1>1, <3>1, <4>1, <5>1
      <4> HIDE DEF q
      <4>3. ServerStream(q, ClientTaken, k - 1)
        BY <3>2, <4>2
      <4>4. /\ Pdu("SCCooperate", sgen) \in ServerPdus
            /\ ServerStream(Append(q, Pdu("SCCooperate", sgen)), ClientTaken, k)
        BY <1>1, <3>2, <4>2, <4>3, ServerSendsNext
      <4> QED BY <4>1, <4>4
    <3>4. <<"SCSynchronize", "SCCooperate">> \o <<>> = <<"SCSynchronize", "SCCooperate">>
      OBVIOUS
    <3>5. s2c' = Send(s2c, <<"SCSynchronize", "SCCooperate">>, sgen)
      BY <2>7, <3>4
    <3>6. s2c' = Append(q, Pdu("SCCooperate", sgen)) /\ s2c' \in Seq(ServerPdus)
      <4>1. s2c \in Seq(ServerPdus) /\ sgen \in Generations
        BY <1>1
      <4>2. Pdu("SCSynchronize", sgen) \in ServerPdus /\ Pdu("SCCooperate", sgen) \in ServerPdus
        BY <3>2, <3>3
      <4> QED BY <3>5, <4>1, <4>2, SendTwo
    <3> QED BY <3>3, <3>6
  <2>10. ServerSent' = 8 * sgen + 4 /\ ServerTaken' = 1 /\ ServerSentIn[sstate'] = 4
    BY <2>7 DEF ServerSent, ServerSentIn, ServerTaken, ServerTakenIn
  <2>11. sstate' \in ServerStates \ {"FAILED", "DEMAND_ACTIVE"}
    BY <2>7 DEF ServerStates, Expected
  <2>12. GenerationInv'
    BY <2>1, <2>4, <2>7, <2>10, <2>11, ServerAdvances
  <2>13. ServerInv'
    <3>1. \A t \in DOMAIN ClientFlag : ClientFlag[t] \notin sflags' /\ ~(ClientPlace[t] <= 1)
      BY <2>7 DEF ClientFlag, ClientPlace
    <3>2. "DEACTIVATE_REACTIVATE" \in sflags' <=> sgen > 0
      BY <1>0, <2>7 DEF ServerInv
    <3>3. (conf.cacheV2 \/ (persist' => conf.persist)) /\ (persist' => conf.persist)
      BY <1>0, <2>7 DEF ServerInv, KeyListsAgree
    <3>4. UNCHANGED <<conf, sgen, activates>>
      BY <2>7
    <3> QED BY <2>7, <2>8, <2>10, <3>1, <3>2, <3>3, <3>4 DEF ServerInv, KeyListsAgree
  <2>14. persist' \in BOOLEAN
    BY <1>0, <2>7 DEF TypeOK, Settings
  <2> QED BY <1>0, <1>1, <2>3, <2>7, <2>8, <2>9, <2>10, <2>11, <2>12, <2>13, <2>14, ServerStepKeeps
          DEF TypeOK
<1> QED BY <1>0, <1>2, <1>3, <1>4

\* What holds while the server finalizes.
LEMMA FinalizingServer ==
    ASSUME IInv, sstate \in Finalizing
    PROVE  /\ cgen = sgen /\ sgen \in Nat /\ sgen \in Generations /\ activated = FALSE /\ activates = 0
           /\ ClientTaken \in Int /\ ClientTaken = 8 * sgen + ClientTakenIn[cstate]
           /\ ClientTakenIn[cstate] \in Int /\ ClientTakenIn[cstate] <= ServerSentIn[sstate]
           /\ ServerSent \in Int /\ ServerSent = 8 * sgen + ServerSentIn[sstate] /\ ServerSentIn[sstate] \in 4..5
           /\ ServerTaken \in 1..5 /\ ClientSent \in Int /\ ActivatedAfterTransition = FALSE
           /\ c2s \in Seq(ClientPdus) /\ s2c \in Seq(ServerPdus)
           /\ ClientStream(c2s, ServerTaken, ClientSent) /\ ServerStream(s2c, ClientTaken, ServerSent)
           /\ TypeOK /\ ServerInv /\ ServerTaken <= ClientSent
<1>1. TypeOK /\ ServerInv /\ ServerTaken <= ClientSent /\ GenerationInv
  BY DEF IInv
<1>2. /\ sstate \in {"FINALIZATION_SYNC", "FINALIZATION_COOPERATE", "FINALIZATION_REQUEST_CONTROL",
                     "FINALIZATION_PERSISTENT_KEY_LIST", "FINALIZATION_FONT_LIST"}
  BY DEF Finalizing, Expected
<1>3. cgen = sgen
  BY <1>1, <1>2 DEF GenerationInv
<1>4. activated = FALSE /\ activates = 0
  BY <1>1, <1>2 DEF ServerInv, TypeOK
<1>5. ServerSentIn[sstate] \in 4..5 /\ ServerTaken \in 1..5
  BY <1>2 DEF ServerSentIn, ServerTaken, ServerTakenIn
<1>6. /\ sgen \in Nat /\ sgen \in Generations /\ ClientTaken \in Int /\ ClientTakenIn[cstate] \in Int
      /\ ClientTaken = 8 * sgen + ClientTakenIn[cstate]
      /\ ServerSent = 8 * sgen + ServerSentIn[sstate] /\ ServerSent \in Int /\ ClientSent \in Int
      /\ c2s \in Seq(ClientPdus) /\ s2c \in Seq(ServerPdus)
      /\ ClientStream(c2s, ServerTaken, ClientSent) /\ ServerStream(s2c, ClientTaken, ServerSent)
  BY <1>3, InvFacts
<1>7. ClientTakenIn[cstate] <= ServerSentIn[sstate]
  BY <1>1, <1>3, <1>5, <1>6 DEF GenerationInv
<1>8. ActivatedAfterTransition = FALSE
  BY <1>4 DEF ActivatedAfterTransition
<1> QED BY <1>1, <1>3, <1>4, <1>5, <1>6, <1>7, <1>8

\* A step in which the finalizing server takes the PDU of the next place.
LEMMA FinalizingStep ==
    ASSUME IInv, sstate \in Finalizing, sstate' \in Finalizing, ~rerun, rerun' = FALSE,
           UNCHANGED <<conf, clientVars, sgen, inputs>>,
           UNCHANGED <<persist, connected, activates, updates>>, activated' = FALSE,
           NEW t \in DOMAIN ClientFlag, sflags' = sflags \cup {ClientFlag[t]},
           ClientPlace[t] = ServerTaken + 1, ServerTaken' = ServerTaken + 1,
           ServerTaken' <= ClientSent, c2s' \in Seq(ClientPdus),
           ClientStream(c2s', ServerTaken', ClientSent), s2c' \in Seq(ServerPdus),
           ServerStream(s2c', ClientTaken, ServerSent'),
           ServerSentIn[sstate] <= ServerSentIn[sstate']
    PROVE  IInv'
<1>1. TypeOK /\ ServerInv /\ cgen = sgen /\ activated = FALSE /\ activates = 0 /\ ServerTaken \in 1..5
  BY FinalizingServer
<1>2. sstate' \in ServerStates \ {"FAILED", "DEMAND_ACTIVE"} /\ ServerSentIn[sstate'] \in Int
  BY DEF Finalizing, Expected, ServerStates, ServerSentIn
<1>3. GenerationInv'
  BY <1>1, <1>2, ServerAdvances
<1>4. \A u \in DOMAIN ClientFlag : ClientFlag[u] = ClientFlag[t] <=> u = t
  BY DEF ClientFlag
<1>5. \A u \in DOMAIN ClientFlag : ClientPlace[u] \in Int /\ (ClientPlace[u] = ClientPlace[t] <=> u = t)
  BY DEF ClientFlag, ClientPlace
<1>6. \A u \in DOMAIN ClientFlag : ClientFlag[u] \in sflags' <=> ClientPlace[u] <= ServerTaken'
  <2> SUFFICES ASSUME NEW u \in DOMAIN ClientFlag
               PROVE  ClientFlag[u] \in sflags' <=> ClientPlace[u] <= ServerTaken'
    OBVIOUS
  <2>1. ClientFlag[u] \in sflags <=> ClientPlace[u] <= ServerTaken
    BY <1>1 DEF ServerInv
  <2>2. ClientPlace[u] <= ServerTaken + 1 <=> (ClientPlace[u] <= ServerTaken \/ u = t)
    BY <1>1, <1>5
  <2> QED BY <1>4, <2>1, <2>2
<1>7. "DEACTIVATE_REACTIVATE" \in sflags' <=> sgen > 0
  <2>1. ClientFlag[t] # "DEACTIVATE_REACTIVATE"
    BY DEF ClientFlag
  <2> QED BY <1>1, <2>1 DEF ServerInv
<1>8. ServerInv'
  <2>1. sstate' # "ACTIVE" /\ sstate' # "MONITOR_LAYOUT"
    BY DEF Finalizing, Expected
  <2>2. UNCHANGED <<conf, sgen, persist, activates>>
    OBVIOUS
  <2> QED BY <1>1, <1>6, <1>7, <2>1, <2>2 DEF ServerInv, KeyListsAgree
<1>9. sflags' \subseteq {"DEACTIVATE_REACTIVATE", "CS_SYNCHRONIZE", "CS_CONTROL_COOPERATE",
          "CS_CONTROL_REQUEST", "CS_PERSISTENT_KEY_LIST", "CS_FONT_LIST"}
  <2>1. ClientFlag[t] \in {"CS_SYNCHRONIZE", "CS_CONTROL_COOPERATE",
          "CS_CONTROL_REQUEST", "CS_PERSISTENT_KEY_LIST", "CS_FONT_LIST"}
    BY DEF ClientFlag
  <2> QED BY <1>1, <2>1 DEF TypeOK
<1> QED BY <1>1, <1>2, <1>3, <1>8, <1>9, ServerStepKeeps DEF TypeOK

\* The PDU of the client that the state of the server is for.
LEMMA NextOfClient ==
    ASSUME IInv, sstate \in DOMAIN Expected,
           sstate = "FINALIZATION_PERSISTENT_KEY_LIST" => ExpectsKeyList,
           c2s # <<>>, Head(c2s).type # "Input"
    PROVE  LET t == Head(c2s).type
           IN  /\ t \in DOMAIN ClientFlag \ {"FontList"} /\ ClientFlag[t] = Expected[sstate]
               /\ ClientPlace[t] = ServerTaken + 1 /\ ClientFlagNeeds(t) \subseteq sflags
               /\ ClientPlace[t] <= ClientSent /\ Tail(c2s) \in Seq(ClientPdus)
               /\ ClientStream(Tail(c2s), ClientPlace[t], ClientSent)
<1> DEFINE t == Head(c2s).type
<1>1. sstate \in Finalizing
  BY DEF Finalizing
<1>2. /\ TypeOK /\ ServerInv /\ sgen \in Nat /\ ServerTaken \in Int /\ ClientSent \in Int
      /\ c2s \in Seq(ClientPdus) /\ ClientStream(c2s, ServerTaken, ClientSent)
  BY <1>1, FinalizingServer
<1>3. /\ t \in DOMAIN ClientPlace /\ ServerTaken < ClientPlace[t] /\ ClientPlace[t] <= ClientSent
      /\ ClientStream(Tail(c2s), ClientPlace[t], ClientSent) /\ Tail(c2s) \in Seq(ClientPdus)
      /\ \A u \in DOMAIN ClientPlace :
            (u = "PersistentKeyList" => KeyListDue) /\ ServerTaken < ClientPlace[u] =>
               ClientPlace[t] <= ClientPlace[u]
  BY <1>2, ClientStreamHead
<1> HIDE DEF t
<1>4. \A u \in DOMAIN ClientFlag : ClientFlag[u] \in sflags <=> ClientPlace[u] <= ServerTaken
  BY <1>1, <1>2 DEF ServerInv
<1>5. /\ "Synchronize" \in DOMAIN ClientPlace /\ "Cooperate" \in DOMAIN ClientPlace
      /\ "RequestControl" \in DOMAIN ClientPlace /\ "PersistentKeyList" \in DOMAIN ClientPlace
      /\ ClientPlace["Synchronize"] = 2 /\ ClientPlace["Cooperate"] = 3
      /\ ClientPlace["RequestControl"] = 4 /\ ClientPlace["PersistentKeyList"] = 5
  BY DEF ClientPlace
<1>6. CASE sstate = "FINALIZATION_SYNC"
  <2>1. ServerTaken = 1 /\ Expected[sstate] = "CS_SYNCHRONIZE"
    BY <1>6 DEF ServerTaken, ServerTakenIn, Expected
  <2>2. ClientPlace[t] <= 2
    BY <1>3, <1>5, <2>1
  <2>3. t = "Synchronize"
    BY <1>3, <2>1, <2>2 DEF ClientPlace
  <2> QED BY <1>3, <1>5, <2>1, <2>3 DEF ClientFlag, ClientFlagNeeds, t
<1>7. CASE sstate = "FINALIZATION_COOPERATE"
  <2>1. ServerTaken = 2 /\ Expected[sstate] = "CS_CONTROL_COOPERATE"
    BY <1>7 DEF ServerTaken, ServerTakenIn, Expected
  <2>2. ClientPlace[t] <= 3
    BY <1>3, <1>5, <2>1
  <2>3. t = "Cooperate"
    BY <1>3, <2>1, <2>2 DEF ClientPlace
  <2>4. "CS_SYNCHRONIZE" \in sflags
    BY <1>4, <1>5, <2>1 DEF ClientFlag
  <2>5. ClientFlagNeeds(t) \subseteq sflags
    BY <2>3, <2>4 DEF ClientFlagNeeds
  <2> QED BY <1>3, <1>5, <2>1, <2>3, <2>5 DEF ClientFlag, t
<1>8. CASE sstate = "FINALIZATION_REQUEST_CONTROL"
  <2>1. ServerTaken = 3 /\ Expected[sstate] = "CS_CONTROL_REQUEST"
    BY <1>8 DEF ServerTaken, ServerTakenIn, Expected
  <2>2. ClientPlace[t] <= 4
    BY <1>3, <1>5, <2>1
  <2>3. t = "RequestControl"
    BY <1>3, <2>1, <2>2 DEF ClientPlace
  <2>4. "CS_CONTROL_COOPERATE" \in sflags
    BY <1>4, <1>5, <2>1 DEF ClientFlag
  <2>5. ClientFlagNeeds(t) \subseteq sflags
    BY <2>3, <2>4 DEF ClientFlagNeeds
  <2> QED BY <1>3, <1>5, <2>1, <2>3, <2>5 DEF ClientFlag, t
<1>9. CASE sstate = "FINALIZATION_PERSISTENT_KEY_LIST"
  <2>1. ServerTaken = 4 /\ Expected[sstate] = "CS_PERSISTENT_KEY_LIST"
    BY <1>9 DEF ServerTaken, ServerTakenIn, Expected
  <2>2. KeyListDue
    BY <1>1, <1>2, <1>9 DEF KeyListDue, ExpectsKeyList, ServerInv
  <2>3. ClientPlace[t] <= 5
    BY <1>3, <1>5, <2>1, <2>2
  <2>4. t = "PersistentKeyList"
    BY <1>3, <2>1, <2>3 DEF ClientPlace
  <2> QED BY <1>3, <1>5, <2>1, <2>4 DEF ClientFlag, ClientFlagNeeds, t
<1> QED BY <1>6, <1>7, <1>8, <1>9 DEF Expected, t

LEMMA ServerFinalizeInv == IInv /\ ServerFinalize => IInv'
<1> SUFFICES ASSUME IInv, ServerFinalize PROVE IInv'
  OBVIOUS
<1> DEFINE h == Head(c2s)
<1> DEFINE r == PeerRecvPdu(h)
<1> DEFINE more == IF sstate = "FINALIZATION_REQUEST_CONTROL" THEN <<"SCGranted">> ELSE <<>>
<1>0. /\ ~rerun /\ c2s # <<>> /\ sstate \in DOMAIN Expected /\ sstate \in Finalizing
      /\ sstate = "FINALIZATION_PERSISTENT_KEY_LIST" => ExpectsKeyList
      /\ IF Expected[sstate] \in r.flags
         THEN Apply([r EXCEPT !.activated = ActivatedAfterTransition],
                    AfterExpected[sstate], r.result, more)
         ELSE Apply(r, r.state, "success", <<>>)
  BY DEF ServerFinalize, Finalizing
<1>1. CASE h.type = "Input"
  <2>1. r = [state |-> sstate, flags |-> sflags, persist |-> persist,
             activated |-> activated, out |-> <<>>, result |-> "success"]
    BY <1>1, PeerRecvInput
  <2>2. r.state = sstate /\ r.flags = sflags
    BY <2>1
  <2>3. Expected[sstate] \notin sflags
    <3>1. \A u \in DOMAIN ClientFlag : ClientFlag[u] \in sflags <=> ClientPlace[u] <= ServerTaken
      BY <1>0, FinalizingServer DEF ServerInv
    <3>2. /\ "CS_SYNCHRONIZE" \in sflags <=> 2 <= ServerTaken
          /\ "CS_CONTROL_COOPERATE" \in sflags <=> 3 <= ServerTaken
          /\ "CS_CONTROL_REQUEST" \in sflags <=> 4 <= ServerTaken
          /\ "CS_PERSISTENT_KEY_LIST" \in sflags <=> 5 <= ServerTaken
      BY <3>1 DEF ClientFlag, ClientPlace
    <3>3. \/ sstate = "FINALIZATION_SYNC" /\ ServerTaken = 1
          \/ sstate = "FINALIZATION_COOPERATE" /\ ServerTaken = 2
          \/ sstate = "FINALIZATION_REQUEST_CONTROL" /\ ServerTaken = 3
          \/ sstate = "FINALIZATION_PERSISTENT_KEY_LIST" /\ ServerTaken = 4
      BY <1>0 DEF Expected, ServerTaken, ServerTakenIn
    <3> QED BY <3>2, <3>3 DEF Expected
  <2>4. Apply(r, sstate, "success", <<>>)
    BY <1>0, <2>2, <2>3
  <2>5. Apply([state |-> sstate, flags |-> sflags, persist |-> persist,
               activated |-> activated, out |-> <<>>, result |-> "success"],
              sstate, "success", <<>>)
    BY <2>1, <2>4
  <2> QED BY <1>0, <1>1, <2>5, ServerAppliesInput
<1>2. CASE h.type # "Input"
  <2> DEFINE t == h.type
  <2>1. /\ t \in DOMAIN ClientFlag \ {"FontList"} /\ ClientFlag[t] = Expected[sstate]
        /\ ClientPlace[t] = ServerTaken + 1 /\ ClientFlagNeeds(t) \subseteq sflags
        /\ ClientPlace[t] <= ClientSent /\ Tail(c2s) \in Seq(ClientPdus)
        /\ ClientStream(Tail(c2s), ClientPlace[t], ClientSent)
    BY <1>0, <1>2, NextOfClient
  <2>2. /\ sgen \in Nat /\ sgen \in Generations /\ ClientTaken \in Int
        /\ ClientTaken = 8 * sgen + ClientTakenIn[cstate] /\ ClientTakenIn[cstate] \in Int
        /\ ClientTakenIn[cstate] <= ServerSentIn[sstate] /\ ServerSentIn[sstate] \in Int
        /\ ServerSent = 8 * sgen + ServerSentIn[sstate] /\ ActivatedAfterTransition = FALSE
        /\ s2c \in Seq(ServerPdus) /\ ServerStream(s2c, ClientTaken, ServerSent)
    BY <1>0, FinalizingServer
  <2>3. r = [state |-> sstate, flags |-> sflags \cup {ClientFlag[t]}, persist |-> persist,
             activated |-> activated, out |-> <<>>, result |-> "success"]
    BY <2>1, PeerRecvFlag
  <2> DEFINE r2 == [r EXCEPT !.activated = ActivatedAfterTransition]
  <2>4. /\ r2.flags = sflags \cup {ClientFlag[t]} /\ r2.persist = persist /\ r2.activated = FALSE
        /\ r2.out = <<>> /\ r.result = "success" /\ r.flags = sflags \cup {ClientFlag[t]}
    BY <2>2, <2>3
  <2>5. Apply(r2, AfterExpected[sstate], "success", more)
    BY <1>0, <2>1, <2>4
  <2> HIDE DEF r, r2, more
  <2>6. /\ sstate' = AfterExpected[sstate] /\ rerun' = FALSE /\ persist' = persist /\ activated' = FALSE
        /\ sflags' = sflags \cup {ClientFlag[t]} /\ c2s' = Tail(c2s)
        /\ s2c' = Send(s2c, <<>> \o more, sgen)
        /\ UNCHANGED <<conf, clientVars, sgen, inputs>> /\ UNCHANGED <<connected, activates, updates>>
    BY <2>4, <2>5 DEF Apply
  <2>7. \/ /\ sstate = "FINALIZATION_SYNC" /\ sstate' = "FINALIZATION_COOPERATE"
           /\ ServerTaken = 1 /\ ServerTaken' = 2
           /\ ServerSentIn[sstate] = 4 /\ ServerSentIn[sstate'] = 4
        \/ /\ sstate = "FINALIZATION_COOPERATE" /\ sstate' = "FINALIZATION_REQUEST_CONTROL"
           /\ ServerTaken = 2 /\ ServerTaken' = 3
           /\ ServerSentIn[sstate] = 4 /\ ServerSentIn[sstate'] = 4
        \/ /\ sstate = "FINALIZATION_REQUEST_CONTROL" /\ sstate' = "FINALIZATION_PERSISTENT_KEY_LIST"
           /\ ServerTaken = 3 /\ ServerTaken' = 4
           /\ ServerSentIn[sstate] = 4 /\ ServerSentIn[sstate'] = 5
        \/ /\ sstate = "FINALIZATION_PERSISTENT_KEY_LIST" /\ sstate' = "FINALIZATION_FONT_LIST"
           /\ ServerTaken = 4 /\ ServerTaken' = 5
           /\ ServerSentIn[sstate] = 5 /\ ServerSentIn[sstate'] = 5
    <3>1. \/ sstate = "FINALIZATION_SYNC" /\ sstate' = "FINALIZATION_COOPERATE"
          \/ sstate = "FINALIZATION_COOPERATE" /\ sstate' = "FINALIZATION_REQUEST_CONTROL"
          \/ sstate = "FINALIZATION_REQUEST_CONTROL" /\ sstate' = "FINALIZATION_PERSISTENT_KEY_LIST"
          \/ /\ sstate = "FINALIZATION_PERSISTENT_KEY_LIST" /\ sstate' = "FINALIZATION_FONT_LIST"
             /\ "CS_PERSISTENT_KEY_LIST" \in sflags'
      BY <1>0, <2>1, <2>6 DEF Expected, AfterExpected
    <3> QED BY <3>1 DEF ServerTaken, ServerTakenIn, ServerSentIn
  <2>8. s2c' \in Seq(ServerPdus) /\ ServerStream(s2c', ClientTaken, ServerSent')
    <3>1. ServerSent' = 8 * sgen + ServerSentIn[sstate']
      BY <2>6 DEF ServerSent
    <3>2. CASE sstate = "FINALIZATION_REQUEST_CONTROL"
      <4>1. more = <<"SCGranted">>
        BY <3>2 DEF more
      <4>2. <<>> \o <<"SCGranted">> = <<"SCGranted">>
        OBVIOUS
      <4>3. PICK k \in Int : k = 8 * sgen + 5
        BY <2>2
      <4>4. k = 8 * sgen + ServerPlace["SCGranted"]
        BY <4>3 DEF ServerPlace
      <4>5. k - 1 = ServerSent /\ ClientTaken < k /\ ServerSent' = k
        <5>1. ServerSentIn[sstate] = 4 /\ ServerSentIn[sstate'] = 5
          BY <2>7, <3>2
        <5> QED BY <2>2, <3>1, <4>3, <5>1
      <4>6. /\ Pdu("SCGranted", sgen) \in ServerPdus
            /\ ServerStream(Append(s2c, Pdu("SCGranted", sgen)), ClientTaken, k)
        BY <2>2, <4>4, <4>5, ServerSendsNext
      <4>7. s2c' = Send(s2c, <<"SCGranted">>, sgen)
        BY <2>6, <4>1, <4>2
      <4>8. s2c' = Append(s2c, Pdu("SCGranted", sgen)) /\ s2c' \in Seq(ServerPdus)
        BY <2>2, <4>6, <4>7, SendOne
      <4> QED BY <4>5, <4>6, <4>8
    <3>3. CASE sstate # "FINALIZATION_REQUEST_CONTROL"
      <4>1. more = <<>>
        BY <3>3 DEF more
      <4>2. <<>> \o <<>> = <<>>
        OBVIOUS
      <4>3. s2c' = s2c
        BY <2>2, <2>6, <4>1, <4>2, SendNone
      <4>4. ServerSent' = ServerSent
        BY <2>2, <2>7, <3>1, <3>3
      <4> QED BY <2>2, <4>3, <4>4
    <3> QED BY <3>2, <3>3
  <2>9. /\ sstate' \in Finalizing /\ ServerTaken' = ServerTaken + 1 /\ ServerTaken' <= ClientSent
        /\ ServerSentIn[sstate] <= ServerSentIn[sstate'] /\ ServerTaken' = ClientPlace[t]
    <3>1. ServerTaken' = ServerTaken + 1 /\ ServerSentIn[sstate] <= ServerSentIn[sstate']
      BY <2>7
    <3>2. sstate' \in Finalizing
      BY <2>7 DEF Finalizing, Expected
    <3> QED BY <2>1, <3>1, <3>2
  <2>10. c2s' \in Seq(ClientPdus) /\ ClientStream(c2s', ServerTaken', ClientSent)
    BY <2>1, <2>6, <2>9
  <2> HIDE DEF t
  <2> QED BY <1>0, <2>1, <2>6, <2>8, <2>9, <2>10, FinalizingStep
<1> QED BY <1>1, <1>2

LEMMA ServerSkipKeyListInv == IInv /\ ServerSkipKeyList => IInv'
<1> SUFFICES ASSUME IInv, ServerSkipKeyList PROVE IInv'
  OBVIOUS
<1>0. /\ sstate = "FINALIZATION_PERSISTENT_KEY_LIST" /\ sstate' = "FINALIZATION_FONT_LIST" /\ ~rerun
      /\ activated' = ActivatedAfterTransition /\ UNCHANGED <<conf, clientVars, sgen, inputs>>
      /\ UNCHANGED <<sflags, persist, connected, rerun, activates, c2s, s2c, updates>>
  BY DEF ServerSkipKeyList
<1>1. sstate \in Finalizing /\ sstate' \in Finalizing
  BY <1>0 DEF Finalizing, Expected
<1>2. /\ cgen = sgen /\ sgen \in Nat /\ activated = FALSE /\ activates = 0 /\ TypeOK /\ ServerInv
      /\ ActivatedAfterTransition = FALSE /\ c2s \in Seq(ClientPdus) /\ s2c \in Seq(ServerPdus)
      /\ ClientStream(c2s, ServerTaken, ClientSent) /\ ServerStream(s2c, ClientTaken, ServerSent)
      /\ ServerTaken <= ClientSent
  BY <1>1, FinalizingServer
<1>3. ServerTaken = 4 /\ ServerSent' = ServerSent /\ ServerSentIn[sstate] = 5 /\ ServerSentIn[sstate'] = 5
  BY <1>0 DEF ServerTaken, ServerTakenIn, ServerSent, ServerSentIn
<1>4. \A u \in DOMAIN ClientFlag : ClientFlag[u] \in sflags <=> ClientPlace[u] <= ServerTaken
  BY <1>1, <1>2 DEF ServerInv
<1>5. "CS_PERSISTENT_KEY_LIST" \notin sflags
  BY <1>3, <1>4 DEF ClientFlag, ClientPlace
<1>6. ServerTaken' = 4
  BY <1>0, <1>5 DEF ServerTaken, ServerTakenIn
<1>7. sstate' \in ServerStates \ {"FAILED", "DEMAND_ACTIVE"}
  BY <1>0 DEF ServerStates
<1>8. GenerationInv'
  BY <1>0, <1>2, <1>3, <1>7, ServerAdvances
<1>9. ServerInv'
  <2>1. UNCHANGED <<conf, sgen, persist, activates, sflags, rerun>>
    BY <1>0
  <2>2. sstate' # "ACTIVE" /\ sstate' # "MONITOR_LAYOUT" /\ sstate # "ACTIVE" /\ sstate # "MONITOR_LAYOUT"
    BY <1>0
  <2> QED BY <1>0, <1>1, <1>2, <1>3, <1>4, <1>6, <2>1, <2>2 DEF ServerInv, KeyListsAgree
<1> QED BY <1>0, <1>2, <1>3, <1>6, <1>7, <1>8, <1>9, ServerStepKeeps DEF TypeOK

LEMMA ServerFontListInv == IInv /\ ServerFontList => IInv'
<1> SUFFICES ASSUME IInv, ServerFontList PROVE IInv'
  OBVIOUS
<1> DEFINE h == Head(c2s)
<1> DEFINE r == PeerRecvPdu(h)
<1>0. /\ ~rerun /\ c2s # <<>> /\ sstate = "FINALIZATION_FONT_LIST" /\ sstate \in Finalizing
      /\ IF r.result # "failed" /\ "CS_FONT_LIST" \in r.flags
         THEN Apply(r, "ACTIVE", "continue", <<>>)
         ELSE Apply(r, r.state, r.result, <<>>)
  BY DEF ServerFontList, Finalizing
<1>1. /\ cgen = sgen /\ sgen \in Nat /\ sgen \in Generations /\ activated = FALSE /\ activates = 0
      /\ ClientTaken \in Int /\ ClientTaken = 8 * sgen + ClientTakenIn[cstate]
      /\ ClientTakenIn[cstate] \in Int /\ ClientTakenIn[cstate] <= ServerSentIn[sstate]
      /\ ServerTaken \in 1..5 /\ ServerTaken \in Int /\ ClientSent \in Int
      /\ ActivatedAfterTransition = FALSE
      /\ c2s \in Seq(ClientPdus) /\ s2c \in Seq(ServerPdus)
      /\ ClientStream(c2s, ServerTaken, ClientSent) /\ ServerStream(s2c, ClientTaken, ServerSent)
      /\ TypeOK /\ ServerInv
  BY <1>0, FinalizingServer
<1>2. ServerSentIn[sstate] = 5 /\ ServerSent = 8 * sgen + 5 /\ ServerTaken \in 4..5
  BY <1>0 DEF ServerSentIn, ServerSent, ServerTaken, ServerTakenIn
<1>3. /\ \A u \in DOMAIN ClientFlag : ClientFlag[u] \in sflags <=> ClientPlace[u] <= ServerTaken
      /\ "CS_FONT_LIST" \notin sflags
  <2>1. \A u \in DOMAIN ClientFlag : ClientFlag[u] \in sflags <=> ClientPlace[u] <= ServerTaken
    BY <1>0, <1>1 DEF ServerInv
  <2> QED BY <1>1, <2>1 DEF ClientFlag, ClientPlace
<1>4. CASE h.type = "Input"
  <2>1. r = [state |-> sstate, flags |-> sflags, persist |-> persist,
             activated |-> activated, out |-> <<>>, result |-> "success"]
    BY <1>4, PeerRecvInput
  <2>2. r.state = sstate /\ r.flags = sflags /\ r.result = "success"
    BY <2>1
  <2>3. Apply(r, sstate, "success", <<>>)
    BY <1>0, <1>3, <2>2
  <2>4. Apply([state |-> sstate, flags |-> sflags, persist |-> persist,
               activated |-> activated, out |-> <<>>, result |-> "success"],
              sstate, "success", <<>>)
    BY <2>1, <2>3
  <2> QED BY <1>0, <1>4, <2>4, ServerAppliesInput
<1>5. h.type # "Input" =>
        /\ h.type \in {"PersistentKeyList", "FontList"} /\ ServerTaken < ClientPlace[h.type]
        /\ ClientPlace[h.type] <= ClientSent /\ Tail(c2s) \in Seq(ClientPdus)
        /\ ClientStream(Tail(c2s), ClientPlace[h.type], ClientSent)
  <2> SUFFICES ASSUME h.type # "Input"
               PROVE  /\ h.type \in {"PersistentKeyList", "FontList"} /\ ServerTaken < ClientPlace[h.type]
                      /\ ClientPlace[h.type] <= ClientSent /\ Tail(c2s) \in Seq(ClientPdus)
                      /\ ClientStream(Tail(c2s), ClientPlace[h.type], ClientSent)
    OBVIOUS
  <2>1. /\ h.type \in DOMAIN ClientPlace /\ ServerTaken < ClientPlace[h.type]
        /\ ClientPlace[h.type] <= ClientSent /\ Tail(c2s) \in Seq(ClientPdus)
        /\ ClientStream(Tail(c2s), ClientPlace[h.type], ClientSent)
    BY <1>0, <1>1, ClientStreamHead
  <2>2. h.type \in {"PersistentKeyList", "FontList"}
    BY <1>2, <2>1 DEF ClientPlace
  <2> QED BY <2>1, <2>2
<1>6. CASE h.type = "PersistentKeyList"
  <2>1. /\ h.type \in DOMAIN ClientFlag \ {"FontList"} /\ ClientFlag[h.type] = "CS_PERSISTENT_KEY_LIST"
        /\ ClientFlagNeeds(h.type) \subseteq sflags /\ ClientPlace[h.type] = 5 /\ h.type # "Input"
    BY <1>6 DEF ClientFlag, ClientFlagNeeds, ClientPlace
  <2>2. r = [state |-> sstate, flags |-> sflags \cup {ClientFlag[h.type]}, persist |-> persist,
             activated |-> activated, out |-> <<>>, result |-> "success"]
    BY <2>1, PeerRecvFlag
  <2>3. /\ r.state = sstate /\ r.flags = sflags \cup {ClientFlag[h.type]} /\ r.persist = persist
        /\ r.activated = activated /\ r.out = <<>> /\ r.result = "success"
    BY <2>2
  <2>4. Apply(r, sstate, "success", <<>>)
    BY <1>0, <1>3, <2>1, <2>3
  <2> HIDE DEF r
  <2>5. /\ sstate' = sstate /\ rerun' = FALSE /\ persist' = persist /\ activated' = FALSE
        /\ sflags' = sflags \cup {ClientFlag[h.type]} /\ c2s' = Tail(c2s)
        /\ s2c' = Send(s2c, <<>> \o <<>>, sgen)
        /\ UNCHANGED <<conf, clientVars, sgen, inputs>> /\ UNCHANGED <<connected, activates, updates>>
    BY <1>1, <2>3, <2>4 DEF Apply
  <2>6. s2c' = s2c /\ ServerSent' = ServerSent
    <3>1. <<>> \o <<>> = <<>>
      OBVIOUS
    <3>2. s2c' = s2c
      BY <1>1, <2>5, <3>1, SendNone
    <3> QED BY <2>5, <3>2 DEF ServerSent
  <2>7. ServerTaken = 4 /\ ServerTaken' = 5
    <3>1. ServerTaken' = 5
      BY <1>0, <2>1, <2>5 DEF ServerTaken
    <3> QED BY <1>2, <1>5, <2>1, <3>1
  <2>8. ServerSentIn[sstate] <= ServerSentIn[sstate'] /\ sstate' \in Finalizing
    BY <1>0, <1>2, <2>5
  <2>9. /\ ServerTaken' <= ClientSent /\ c2s' \in Seq(ClientPdus)
        /\ ClientStream(c2s', ServerTaken', ClientSent) /\ s2c' \in Seq(ServerPdus)
        /\ ServerStream(s2c', ClientTaken, ServerSent')
        /\ ClientPlace[h.type] = ServerTaken + 1 /\ ServerTaken' = ServerTaken + 1
    BY <1>1, <1>5, <2>1, <2>5, <2>6, <2>7
  <2> QED BY <1>0, <2>1, <2>5, <2>8, <2>9, FinalizingStep
<1>7. CASE h.type = "FontList"
  <2>1. r = [state |-> "ACTIVE", flags |-> sflags \cup {"CS_FONT_LIST"}, persist |-> persist,
             activated |-> ActivatedAfterTransition, out |-> <<"SCFontMap">>, result |-> "continue"]
    BY <1>7, PeerRecvFontList
  <2>2. /\ r.flags = sflags \cup {"CS_FONT_LIST"} /\ r.persist = persist
        /\ r.activated = FALSE /\ r.out = <<"SCFontMap">> /\ r.result = "continue"
    BY <1>1, <2>1
  <2>3. Apply(r, "ACTIVE", "continue", <<>>)
    BY <1>0, <2>2
  <2> HIDE DEF r
  <2>4. /\ sstate' = "ACTIVE" /\ rerun' = TRUE /\ persist' = persist /\ activated' = FALSE
        /\ sflags' = sflags \cup {"CS_FONT_LIST"} /\ c2s' = Tail(c2s)
        /\ s2c' = Send(s2c, <<"SCFontMap">> \o <<>>, sgen)
        /\ UNCHANGED <<conf, clientVars, sgen, inputs>> /\ UNCHANGED <<connected, activates, updates>>
    BY <2>2, <2>3 DEF Apply
  <2>5. ServerSent' = 8 * sgen + 7 /\ ServerTaken' = 6 /\ ServerSentIn[sstate'] = 7
    BY <2>4 DEF ServerSent, ServerSentIn, ServerTaken, ServerTakenIn
  <2>6. s2c' \in Seq(ServerPdus) /\ ServerStream(s2c', ClientTaken, ServerSent')
    <3>1. <<"SCFontMap">> \o <<>> = <<"SCFontMap">>
      OBVIOUS
    <3>2. PICK k \in Int : k = 8 * sgen + 6
      BY <1>1
    <3>3. k = 8 * sgen + ServerPlace["SCFontMap"]
      BY <3>2 DEF ServerPlace
    <3>4. k - 1 = ServerSent /\ ClientTaken < k
      BY <1>1, <1>2, <3>2
    <3>5. /\ Pdu("SCFontMap", sgen) \in ServerPdus
          /\ ServerStream(Append(s2c, Pdu("SCFontMap", sgen)), ClientTaken, k)
      BY <1>1, <3>3, <3>4, ServerSendsNext
    <3>6. s2c' = Send(s2c, <<"SCFontMap">>, sgen)
      BY <2>4, <3>1
    <3>7. s2c' = Append(s2c, Pdu("SCFontMap", sgen)) /\ s2c' \in Seq(ServerPdus)
      <4>1. s2c \in Seq(ServerPdus) /\ sgen \in Generations
        BY <1>1
      <4>2. Pdu("SCFontMap", sgen) \in ServerPdus
        BY <3>5
      <4> QED BY <3>6, <4>1, <4>2, SendOne
    <3>8. \A p \in ServerPdus : ~(Due(p) /\ k < PlaceOf(p) /\ PlaceOf(p) <= k + 1)
      <4> SUFFICES ASSUME NEW p \in ServerPdus, Due(p), k < PlaceOf(p), PlaceOf(p) <= k + 1 PROVE FALSE
        OBVIOUS
      <4>1. Pdu("Update", sgen) \in ServerPdus /\ PlaceOf(Pdu("Update", sgen)) = 8 * sgen + 7
        BY <1>1, PduPlaces DEF ServerPlace
      <4>2. PlaceOf(p) = PlaceOf(Pdu("Update", sgen))
        BY <1>1, <3>2, <4>1, PlaceOfType
      <4>3. p = Pdu("Update", sgen)
        BY <4>1, <4>2, PlaceInjective
      <4> QED BY <4>3 DEF Due, Pdu
    <3>9. \A i \in 1..Len(s2c') : ClientTaken < PlaceOf(s2c'[i])
      BY <3>5, <3>7 DEF ServerStream
    <3>10. ServerStream(s2c', ClientTaken, k + 1)
      <4>1. ClientTaken <= ClientTaken /\ k <= k + 1 /\ k + 1 \in Int
        BY <1>1
      <4> QED BY <1>1, <3>5, <3>7, <3>8, <3>9, <4>1, ServerStreamMove
    <3>11. ServerSent' = k + 1
      BY <1>1, <2>5, <3>2
    <3> QED BY <3>7, <3>10, <3>11
  <2>7. ClientPlace[h.type] = 6 /\ h.type # "Input"
    BY <1>7 DEF ClientPlace
  <2>8. c2s' \in Seq(ClientPdus) /\ ClientStream(c2s', ServerTaken', ClientSent) /\ ServerTaken' <= ClientSent
    BY <1>5, <2>4, <2>5, <2>7
  <2>9. sstate' \in ServerStates \ {"FAILED", "DEMAND_ACTIVE"}
    BY <2>4 DEF ServerStates
  <2>10. GenerationInv'
    BY <1>1, <1>2, <2>4, <2>5, <2>9, ServerAdvances
  <2>11. ServerInv'
    <3>1. UNCHANGED <<conf, sgen, persist, activates>>
      BY <2>4
    <3>2. sstate' \notin Finalizing
      BY <2>4 DEF Finalizing, Expected
    <3> QED BY <1>1, <2>4, <3>1, <3>2 DEF ServerInv, KeyListsAgree
  <2> QED BY <1>1, <2>4, <2>6, <2>8, <2>9, <2>10, <2>11, ServerStepKeeps DEF TypeOK
<1> QED BY <1>4, <1>5, <1>6, <1>7

LEMMA ServerActivateInv == IInv /\ ServerActivate => IInv'
<1> SUFFICES ASSUME IInv, ServerActivate PROVE IInv'
  OBVIOUS
<1>0. /\ TypeOK /\ ServerInv /\ GenerationInv /\ sstate = "ACTIVE" /\ ~activated
      /\ connected' = TRUE /\ rerun' = FALSE /\ activated' = TRUE /\ activates' = activates + 1
      /\ UNCHANGED <<conf, clientVars, sgen, inputs>> /\ UNCHANGED <<sstate, sflags, persist, s2c, updates>>
      /\ c2s' = IF rerun THEN c2s ELSE Tail(c2s)
      /\ ServerTaken <= ClientSent
  BY DEF IInv, ServerActivate
<1>1. rerun /\ activates = 0
  BY <1>0 DEF ServerInv
<1>2. UNCHANGED c2s
  BY <1>0, <1>1
<1>3. /\ cgen = sgen /\ c2s \in Seq(ClientPdus) /\ s2c \in Seq(ServerPdus)
      /\ ClientStream(c2s, ServerTaken, ClientSent) /\ ServerStream(s2c, ClientTaken, ServerSent)
  BY <1>0, ActiveServer, InvFacts
<1>4. ServerTaken' = ServerTaken /\ ServerSent' = ServerSent
  BY <1>0 DEF ServerTaken, ServerSent
<1>5. GenerationInv'
  BY <1>0 DEF GenerationInv, clientVars
<1>6. ServerInv'
  <2>1. sstate' \notin Finalizing /\ UNCHANGED <<conf, sgen, persist, sflags>>
    BY <1>0 DEF Finalizing, Expected
  <2> QED BY <1>0, <1>1, <2>1 DEF ServerInv, KeyListsAgree
<1>7. sstate' \in ServerStates \ {"FAILED"}
  BY <1>0 DEF ServerStates
<1> QED BY <1>0, <1>2, <1>3, <1>4, <1>5, <1>6, <1>7, ServerStepKeeps DEF TypeOK

-----------------------------------------------------------------------------
(* The theorems.                                                           *)

LEMMA NextInv == IInv /\ [Next]_vars => IInv'
<1> SUFFICES ASSUME IInv, [Next]_vars PROVE IInv'
  OBVIOUS
<1>1. CASE ClientStep
  BY <1>1, ClientFinalizeInv, ClientDemandActiveInv, ClientMonitorLayoutInv, ClientRecvInv
  DEF ClientStep
<1>2. CASE ClientInput
  BY <1>2, ClientInputInv
<1>3. CASE ServerStep
  BY <1>3, ServerDemandActiveInv, ServerMonitorLayoutInv, ServerRecvInv, ServerFinalizeInv,
     ServerSkipKeyListInv, ServerFontListInv, ServerActivateInv, ServerActivateResizesInv
  DEF ServerStep
<1>4. CASE DesktopResize
  BY <1>4, DesktopResizeInv
<1>5. CASE SendUpdate
  BY <1>5, SendUpdateInv
<1>6. CASE UNCHANGED vars
  <2>1. UNCHANGED <<conf, cstate, cflags, layout, cgen, insync, sstate, sflags, persist, connected,
                    activated, rerun, sgen, activates, c2s, s2c, inputs, updates>>
    BY <1>6 DEF vars, clientVars, serverVars
  <2>2. TypeOK' /\ NothingFails' /\ GenerationInv' /\ ClientInv' /\ ServerInv'
    BY <2>1 DEF IInv, TypeOK, NothingFails, GenerationInv, ClientInv, DecryptsTwice, ServerInv,
       KeyListsAgree, ServerTaken, Generations, ClientPdus, ServerPdus
  <2>3. /\ ServerTaken' = ServerTaken /\ ClientSent' = ClientSent
        /\ ClientTaken' = ClientTaken /\ ServerSent' = ServerSent
    BY <2>1 DEF ServerTaken, ClientSent, ClientTaken, ServerSent
  <2>4. ClientStream(c2s, ServerTaken, ClientSent)' /\ ServerStream(s2c, ClientTaken, ServerSent)'
    BY <2>1, <2>3, ClientStreamNext, ServerStreamNext DEF IInv
  <2> QED BY <2>2, <2>3, <2>4 DEF IInv
<1> QED BY <1>1, <1>2, <1>3, <1>4, <1>5, <1>6 DEF Next

\* The inductive invariant holds in every reachable state: what is under way
\* between client and server is exactly what the one has sent and the other has
\* not yet taken, each stream in its fixed order, and the two state machines are
\* at most one Demand Active apart.
THEOREM StreamsAreInOrder == Spec => []IInv
<1>1. Init => IInv
  BY InitInv
<1>2. IInv /\ [Next]_vars => IInv'
  BY NextInv
<1> QED BY <1>1, <1>2, PTL DEF Spec

\* Every variable keeps its type: the states of either side are the ones that its
\* handlers know, and no queue holds a PDU that its reader does not know.
THEOREM TypeCorrect == Spec => []TypeOK
<1>1. IInv => TypeOK
  BY DEF IInv
<1> QED BY <1>1, StreamsAreInOrder, PTL

\* No PDU meets a state machine that cannot take it, however long it is delayed
\* and however many resizes, inputs and updates cross it, with settings under
\* which no PDU is decrypted twice (Init).
THEOREM NoPduFails == Spec => []NothingFails
<1>1. IInv => NothingFails
  BY DEF IInv
<1> QED BY <1>1, StreamsAreInOrder, PTL

\* While the server treats the session as activated, the client has confirmed the
\* last Demand Active and has sent the font list of it.
THEOREM ActivationBelongsToLastDemand == Spec => []ActivationIsCurrent
<1>1. IInv => ActivationIsCurrent
  <2> SUFFICES ASSUME IInv, activated PROVE ActivationIsCurrent
    BY DEF ActivationIsCurrent
  <2>1. sstate = "ACTIVE"
    BY DEF IInv, ServerInv
  <2> QED BY <2>1, ActiveServer DEF ActivationIsCurrent
<1> QED BY <1>1, StreamsAreInOrder, PTL

\* Activate is called once in each activation of the session, and only of a
\* session that is connected.
THEOREM ActivateIsCalledOnce == Spec => []ActivateOnce
<1>1. IInv => ActivateOnce
  BY DEF IInv, ServerInv, ActivateOnce
<1> QED BY <1>1, StreamsAreInOrder, PTL

\* Both sides know a reactivation for one, and no persistent key list is under way
\* in it.
THEOREM ReactivationsAreRecognised == Spec => []ReactivationIsRecognised
<1>1. IInv => ReactivationIsRecognised
  <2> SUFFICES ASSUME IInv PROVE ReactivationIsRecognised
    OBVIOUS
  <2>1. cgen > 0 => "DEACTIVATE_REACTIVATE" \in cflags
    BY DEF IInv, ClientInv
  <2>2. sgen > 0 => "DEACTIVATE_REACTIVATE" \in sflags
    BY DEF IInv, ServerInv
  <2>3. \A i \in 1..Len(c2s) : c2s[i].type = "PersistentKeyList" => c2s[i].gen = 0
    BY DEF IInv, ClientStream
  <2> QED BY <2>1, <2>2, <2>3 DEF ReactivationIsRecognised
<1> QED BY <1>1, StreamsAreInOrder, PTL
=============================================================================
