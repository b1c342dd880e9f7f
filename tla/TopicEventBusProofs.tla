------------------------ MODULE TopicEventBusProofs ------------------------
(***************************************************************************)
(* Proofs about the event bus over a message transport, for either         *)
(* transport, any clients, any events and values of their members, and any *)
(* number of messages, losses and timeouts.                                *)
(***************************************************************************)
EXTENDS TopicEventBus, FiniteSetTheorems, SequenceTheorems, TLAPS

-----------------------------------------------------------------------------
(* The inductive invariant.                                                *)

Numbered(event, n) == [event EXCEPT !.sequence = n]

PublishedEvents == {Numbered(event, n) : event \in {e \in Events : Encodable(e)}, n \in 1..MaxSent}

OwnMessages == {Message(event) : event \in PublishedEvents}

(* The number the bus gave to the event that an own message carries.       *)
NumberOf(message) == message.text.sequence.is

Sent(message) ==
    NumberOf(message) \in 1..sequence /\ message = Message(published[NumberOf(message)])

(* Of two messages of this bus the first was sent before the second, if    *)
(* the broker keeps their order.                                           *)
Ahead(m, n) ==
    /\ NumberOf(m) # NumberOf(n)
    /\ SamePartition(m, n) => NumberOf(m) < NumberOf(n)

Kept == /\ published \in Seq(PublishedEvents) /\ Len(published) = sequence
        /\ \A n \in 1..sequence : published[n].sequence = n
        /\ log \in Seq(ForeignTexts \cup OwnMessages)
        /\ inFlight \in Seq(OwnMessages)

(* What this bus has sent is in the log or in flight, once and, partition  *)
(* by partition, in the order of sending.                                  *)
InTransit ==
    /\ kind \in {"memory", "kafka"}
    /\ kind = "memory" => inFlight = <<>>
    /\ \A i \in 1..Len(log) : IsOwn(log[i].text) => Sent(log[i])
    /\ \A i \in 1..Len(inFlight) : Sent(inFlight[i])
    /\ \A j \in 1..Len(log) : \A i \in 1..(j - 1) :
          IsOwn(log[i].text) /\ IsOwn(log[j].text) => Ahead(log[i], log[j])
    /\ \A j \in 1..Len(inFlight) : \A i \in 1..(j - 1) : Ahead(inFlight[i], inFlight[j])
    /\ \A i \in 1..Len(log) : \A j \in 1..Len(inFlight) :
          IsOwn(log[i].text) => Ahead(log[i], inFlight[j])

(* The dispatcher reads each partition in order, from where the bus        *)
(* subscribed, and works on the last message it has read of its partition. *)
Reading ==
    /\ from \in 0..Len(log) /\ read \subseteq (from + 1)..Len(log)
    /\ \A j \in read : \A i \in (from + 1)..(j - 1) : i \in read \/ ~SamePartition(log[i], log[j])
    /\ dpc \in {"none", "loop", "poll", "polled", "handler", "notify", "done"}
    /\ IF dpc \in {"polled", "handler"} THEN polled \in read ELSE polled = 0
    /\ dpc \in {"polled", "handler"} =>
          \A j \in read : j <= polled \/ ~SamePartition(log[j], log[polled])
    /\ dpc = "handler" => Decodes(Text)
    /\ dpc = "none" => sequence = 0 /\ read = {} /\ from = 0
    /\ state = "NotStarted" => dpc = "none"
    /\ state \in {"Running", "Draining"} => dpc # "none"
    /\ NothingMissed

(* What was handled was read before, and is what was published.            *)
HandledInOrder ==
    /\ handled \in Seq(PublishedEvents) /\ Len(handled) = receivedOwn
    /\ \A k \in 1..Len(handled) :
          /\ handled[k].sequence \in 1..sequence
          /\ \E i \in read : /\ i # polled /\ IsOwn(log[i].text)
                             /\ NumberOf(log[i]) = handled[k].sequence
    /\ ReadBackAsPublished
    /\ OrderPerSymbol

(* A client that has left its wait without a timeout found everything      *)
(* handled, and nothing is sent once the dispatcher is told to stop.       *)
Draining ==
    /\ state \in States
    /\ stop \in BOOLEAN /\ busy \in BOOLEAN /\ (busy <=> dpc = "handler")
    /\ sequence \in 0..MaxSent /\ timeouts \in 0..MaxTimeouts
    /\ pc \in [Clients -> {"idle", "wait", "join"}]
    /\ asleep \subseteq Clients /\ \A c \in asleep : pc[c] = "wait"
    /\ owed \in [Clients -> Nat] /\ \A c \in Clients : owed[c] <= sequence
    /\ stop => state = "Stopped" /\ (timeouts = 0 => receivedOwn >= sequence)
    /\ \A c \in Clients : pc[c] = "join" => stop

BusInv == Kept /\ InTransit /\ Reading /\ HandledInOrder /\ Draining

-----------------------------------------------------------------------------
(* The codec: what is written is what is read.                             *)

LEMMA SymbolIsRequired ==
  ASSUME NEW type \in EventTypes
  PROVE  "symbol" \in DOMAIN Payloads[type].required
<1>1. DOMAIN Payloads = {"market_data", "signal", "order", "fill", "risk_decision"}
  BY DEF Payloads
<1>2. /\ Payloads["market_data"] = MarketEvent /\ Payloads["signal"] = TradeSignal
      /\ Payloads["order"] = Order /\ Payloads["fill"] = Fill
      /\ Payloads["risk_decision"] = RiskDecision
  BY DEF Payloads
<1>3. "symbol" \in DOMAIN MarketEvent.required
  BY DEF MarketEvent
<1>4. "symbol" \in DOMAIN TradeSignal.required
  BY DEF TradeSignal
<1>5. "symbol" \in DOMAIN Order.required
  BY DEF Order
<1>6. "symbol" \in DOMAIN Fill.required
  BY DEF Fill
<1>7. "symbol" \in DOMAIN RiskDecision.required
  BY DEF RiskDecision
<1>8. QED
  BY <1>1, <1>2, <1>3, <1>4, <1>5, <1>6, <1>7 DEF EventTypes

IsEvent(event) ==
    /\ event.type \in EventTypes
    /\ event = [type |-> event.type, time |-> event.time, sequence |-> event.sequence,
                payload |-> [name \in DOMAIN event.payload |-> event.payload[name]]]

LEMMA NumberedIsEvent ==
  ASSUME NEW event, IsEvent(event), NEW n
  PROVE  /\ IsEvent(Numbered(event, n)) /\ Numbered(event, n).sequence = n
         /\ Numbered(event, n).type = event.type
         /\ Numbered(event, n).payload = event.payload
         /\ Encodable(event) => Encodable(Numbered(event, n))
<1>01. PICK y, t, s, p : y = event.type /\ t = event.time /\ s = event.sequence
                         /\ p = [name \in DOMAIN event.payload |-> event.payload[name]]
  OBVIOUS
<1>1. event = [type |-> y, time |-> t, sequence |-> s, payload |-> p] /\ y \in EventTypes
  BY <1>01 DEF IsEvent
<1>2. event.payload = p
  BY <1>1
<1>3. p = [name \in DOMAIN p |-> p[name]]
  BY <1>01, <1>2
<1>4. Numbered(event, n) = [type |-> y, time |-> t, sequence |-> n, payload |-> p]
  BY <1>1 DEF Numbered
<1>5. /\ Numbered(event, n).type = y /\ Numbered(event, n).time = t
      /\ Numbered(event, n).sequence = n /\ Numbered(event, n).payload = p
  BY <1>4
<1>6. IsEvent(Numbered(event, n))
  BY <1>1, <1>3, <1>4, <1>5 DEF IsEvent
<1>7. Encodable(event) => Encodable(Numbered(event, n))
  BY <1>01, <1>2, <1>5 DEF Encodable
<1>8. QED
  BY <1>01, <1>2, <1>5, <1>6, <1>7

(* decode() undoes encode(), for whatever values the members have.         *)
LEMMA RoundTrip ==
  ASSUME NEW origin, NEW event, IsEvent(event), Encodable(event)
  PROVE  /\ Decode(Encode(origin, event)) = event
         /\ Encode(origin, event).origin.is = origin
         /\ Encode(origin, event).sequence.is = event.sequence
         /\ "symbol" \in DOMAIN event.payload
<1>01. PICK y, t, s, p : y = event.type /\ t = event.time /\ s = event.sequence
                         /\ p = event.payload
  OBVIOUS
<1>1. /\ event = [type |-> y, time |-> t, sequence |-> s, payload |-> p] /\ y \in EventTypes
      /\ p = [name \in DOMAIN p |-> p[name]]
  BY <1>01 DEF IsEvent
<1>02. PICK known : known = DOMAIN Payloads[y].required \cup DOMAIN Payloads[y].optional
  OBVIOUS
<1>2. DOMAIN p \subseteq known /\ DOMAIN Payloads[y].required \subseteq DOMAIN p
  BY <1>01, <1>02 DEF Encodable
<1>3. "symbol" \in DOMAIN p
  BY <1>1, <1>2, SymbolIsRequired
<1>03. PICK object : object = WritePayload(y, p)
  OBVIOUS
<1>4. DOMAIN object = DOMAIN p /\ \A name \in DOMAIN p : object[name].is = p[name]
  BY <1>03 DEF WritePayload, Json
<1>5. ReadPayload(y, object) = [name \in DOMAIN object \cap known |-> object[name].is]
  BY <1>02 DEF ReadPayload
<1>6. DOMAIN object \cap known = DOMAIN p
  BY <1>2, <1>4
<1>7. ReadPayload(y, object) = [name \in DOMAIN p |-> p[name]]
  BY <1>4, <1>5, <1>6
<1>8. ReadPayload(y, object) = p
  BY <1>1, <1>7
<1>9. /\ Encode(origin, event).origin.is = origin
      /\ Encode(origin, event).sequence.is = s
      /\ Encode(origin, event).type.is = y
      /\ Encode(origin, event).enqueued_at.is = t
      /\ Encode(origin, event).payload.is = object
  BY <1>01, <1>03 DEF Encode, Json
<1>10. Decode(Encode(origin, event)) = [sequence |-> s, type |-> y, time |-> t, payload |-> p]
  BY <1>8, <1>9 DEF Decode
<1>11. Decode(Encode(origin, event)) = event
  BY <1>1, <1>10
<1>12. QED
  BY <1>01, <1>3, <1>9, <1>11

LEMMA WholeEvents ==
  ASSUME NEW text, Decodes(text)
  PROVE  /\ text.schema.is = Schema
         /\ DOMAIN Payloads[text.type.is].required \subseteq DOMAIN Decode(text).payload
<1>1. DOMAIN Payloads[text.type.is].required \subseteq DOMAIN text.payload.is
  BY DEF Decodes, ReadsPayload
<1>2. Decode(text).payload = ReadPayload(text.type.is, text.payload.is)
  BY DEF Decode
<1>3. DOMAIN ReadPayload(text.type.is, text.payload.is) =
         DOMAIN text.payload.is \cap (DOMAIN Payloads[text.type.is].required
                                      \cup DOMAIN Payloads[text.type.is].optional)
  BY DEF ReadPayload
<1>4. QED
  BY <1>1, <1>2, <1>3 DEF Decodes

-----------------------------------------------------------------------------
(* The messages of this bus.                                               *)

LEMMA PublishedEvent ==
  ASSUME NEW event \in PublishedEvents
  PROVE  /\ IsEvent(event) /\ Encodable(event) /\ event.sequence \in 1..MaxSent
         /\ Message(event).topic = event.type
         /\ Message(event).key = PartitionKey(event)
         /\ NumberOf(Message(event)) = event.sequence
         /\ IsOwn(Message(event).text)
         /\ Decode(Message(event).text) = event
<1>1. PICK e \in Events, n \in 1..MaxSent : Encodable(e) /\ event = Numbered(e, n)
  BY DEF PublishedEvents
<1>2. IsEvent(e)
  BY TopicBusAssumption DEF IsEvent
<1>3. IsEvent(event) /\ Encodable(event) /\ event.sequence = n
  BY <1>1, <1>2, NumberedIsEvent
<1>4. /\ Message(event).topic = event.type /\ Message(event).key = PartitionKey(event)
      /\ Message(event).text = Encode(Origin, event)
  BY DEF Message
<1>5. /\ Decode(Encode(Origin, event)) = event
      /\ Encode(Origin, event).origin.is = Origin
      /\ Encode(Origin, event).sequence.is = event.sequence
  BY <1>3, RoundTrip
<1>6. QED
  BY <1>1, <1>3, <1>4, <1>5 DEF NumberOf, IsOwn

LEMMA OwnOrForeign ==
  ASSUME NEW m \in ForeignTexts
  PROVE  ~IsOwn(m.text)
BY OriginAssumption DEF IsOwn

(* What is known of a message that was sent.                               *)
LEMMA SentMessage ==
  ASSUME Kept, NEW m, Sent(m)
  PROVE  /\ NumberOf(m) \in 1..sequence /\ NumberOf(m) \in Nat
         /\ published[NumberOf(m)] \in PublishedEvents
         /\ m.topic = published[NumberOf(m)].type
         /\ m.key = PartitionKey(published[NumberOf(m)])
         /\ published[NumberOf(m)].sequence = NumberOf(m)
         /\ IsOwn(m.text) /\ Decode(m.text) = published[NumberOf(m)]
<1>1. NumberOf(m) \in 1..sequence /\ m = Message(published[NumberOf(m)])
  BY DEF Sent
<1>2. published[NumberOf(m)] \in PublishedEvents /\ NumberOf(m) \in Nat
  BY <1>1 DEF Kept
<1>3. QED
  BY <1>1, <1>2, PublishedEvent

LEMMA AppendOne ==
  ASSUME NEW S, NEW s \in Seq(S), NEW e \in S
  PROVE  /\ Append(s, e) \in Seq(S)
         /\ Len(Append(s, e)) = Len(s) + 1 /\ Len(s) \in Nat
         /\ Append(s, e)[Len(s) + 1] = e
         /\ \A i \in 1..Len(s) : Append(s, e)[i] = s[i]
OBVIOUS

(* Taking one element out of a sequence.                                   *)
LEMMA Removed ==
  ASSUME NEW S, NEW s \in Seq(S), NEW i \in 1..Len(s)
  PROVE  /\ RemoveAt(s, i) \in Seq(S)
         /\ Len(RemoveAt(s, i)) = Len(s) - 1
         /\ \A j \in 1..Len(s) - 1 :
               /\ RemoveAt(s, i)[j] = s[IF j < i THEN j ELSE j + 1]
               /\ (IF j < i THEN j ELSE j + 1) \in 1..Len(s)
<1> DEFINE front == SubSeq(s, 1, i - 1)
           back == SubSeq(s, i + 1, Len(s))
<1>1. i \in 1..Len(s) /\ Len(s) \in Nat
  OBVIOUS
<1>2. /\ front \in Seq(S) /\ Len(front) = i - 1
      /\ \A j \in 1..i - 1 : front[j] = s[j]
  BY <1>1, SubSeqProperties, Z3
<1>3. /\ back \in Seq(S) /\ Len(back) = Len(s) - i
      /\ \A j \in 1..Len(s) - i : back[j] = s[i + j]
  BY <1>1, SubSeqProperties, Z3
<1>4. RemoveAt(s, i) = front \o back
  BY DEF RemoveAt
<1> DEFINE rest == front \o back
<1>5. /\ rest \in Seq(S)
      /\ Len(rest) = Len(front) + Len(back)
      /\ \A j \in 1..Len(front) + Len(back) :
            rest[j] = IF j <= Len(front) THEN front[j] ELSE back[j - Len(front)]
  BY <1>2, <1>3, ConcatProperties
<1> HIDE DEF front, back, rest
<1>6. Len(rest) = Len(s) - 1
  BY <1>1, <1>2, <1>3, <1>5
<1>7. ASSUME NEW j \in 1..Len(s) - 1
      PROVE  rest[j] = s[IF j < i THEN j ELSE j + 1]
  <2>1. j \in 1..Len(front) + Len(back)
    BY <1>1, <1>2, <1>3
  <2>2. CASE j < i
    <3>1. j <= Len(front) /\ j \in 1..i - 1
      BY <1>1, <1>2, <2>2
    <3>2. QED
      BY <1>2, <1>5, <2>1, <2>2, <3>1
  <2>3. CASE ~(j < i)
    <3>1. /\ ~(j <= Len(front)) /\ j - Len(front) \in 1..Len(s) - i
          /\ i + (j - Len(front)) = j + 1
      BY <1>1, <1>2, <2>3
    <3>2. QED
      BY <1>3, <1>5, <2>1, <2>3, <3>1
  <2>4. QED
    BY <2>2, <2>3
<1>8. \A j \in 1..Len(s) - 1 : (IF j < i THEN j ELSE j + 1) \in 1..Len(s)
  BY <1>1
<1>9. RemoveAt(s, i) = rest
  BY <1>4 DEF rest
<1>10. QED
  BY <1>5, <1>6, <1>7, <1>8, <1>9

-----------------------------------------------------------------------------
(* The log and what is in flight.                                          *)

transitVars == <<kind, inFlight, log, published, sequence>>

LEMMA TransitUnchanged ==
  ASSUME Kept, InTransit, UNCHANGED transitVars
  PROVE  Kept' /\ InTransit'
<1>1. Kept'
  BY DEF Kept, transitVars
<1>2. InTransit'
  BY DEF InTransit, transitVars, Sent
<1>3. QED
  BY <1>1, <1>2

LEMMA TransitPublish ==
  ASSUME Kept, InTransit, NEW event \in Events, Publish(event)
  PROVE  /\ Kept' /\ InTransit'
         /\ \A x : Sent(x) => Sent(x)'
         /\ \A n \in 1..sequence : published'[n] = published[n]
         /\ sequence' = sequence + 1 /\ sequence \in Nat
         /\ \/ log' = log
            \/ /\ Len(log') = Len(log) + 1 /\ Len(log) \in Nat
               /\ \A i \in 1..Len(log) : log'[i] = log[i]
               /\ \E x : log'[Len(log) + 1] = x /\ Sent(x)'
<1>01. PICK e : e = Numbered(event, sequence + 1)
  OBVIOUS
<1>02. PICK m : m = Message(e)
  OBVIOUS
<1>1. /\ sequence \in Nat /\ Len(published) = sequence
      /\ published \in Seq(PublishedEvents)
      /\ \A n \in 1..sequence : published[n].sequence = n
  BY DEF Kept
<1>2. /\ sequence' = sequence + 1 /\ published' = Append(published, e) /\ Encodable(event)
      /\ sequence < MaxSent /\ SendMessage(m)
  BY <1>01, <1>02 DEF Publish, Numbered
<1>3. e \in PublishedEvents
  BY <1>01, <1>1, <1>2, TopicBusAssumption DEF PublishedEvents
<1>4. /\ m \in OwnMessages /\ NumberOf(m) = e.sequence /\ IsOwn(m.text)
      /\ e.sequence = sequence + 1
  <2>1. IsEvent(event)
    BY TopicBusAssumption DEF IsEvent
  <2>2. QED
    BY <1>01, <1>02, <1>3, <2>1, PublishedEvent, NumberedIsEvent DEF OwnMessages
<1>5. /\ published' \in Seq(PublishedEvents) /\ Len(published') = sequence'
      /\ published'[sequence + 1] = e
      /\ \A n \in 1..sequence : published'[n] = published[n]
  BY <1>1, <1>2, <1>3, AppendOne
<1>6. \A n \in 1..sequence' : published'[n].sequence = n
  BY <1>1, <1>2, <1>4, <1>5
<1>7. ASSUME NEW x, Sent(x) PROVE Sent(x)'
  BY <1>1, <1>2, <1>5, <1>7 DEF Sent
<1>8. Sent(m)'
  BY <1>02, <1>1, <1>2, <1>4, <1>5 DEF Sent
<1>9. \A x : Sent(x) => Ahead(x, m)
  BY <1>1, <1>4 DEF Sent, Ahead
<1>10. kind' = kind
  BY DEF Publish
<1>11. CASE kind = "memory" /\ log' = Append(log, m) /\ UNCHANGED inFlight
  <2>1. /\ log' \in Seq(ForeignTexts \cup OwnMessages)
        /\ Len(log') = Len(log) + 1 /\ Len(log) \in Nat
        /\ log'[Len(log) + 1] = m
        /\ \A i \in 1..Len(log) : log'[i] = log[i]
    BY <1>4, <1>11, AppendOne DEF Kept
  <2>2. inFlight = <<>> /\ inFlight' = <<>> /\ Len(inFlight) = 0
    BY <1>11 DEF InTransit
  <2>3. Kept'
    BY <1>5, <1>6, <2>1, <1>11 DEF Kept
  <2>4. ASSUME NEW i \in 1..Len(log'), IsOwn(log'[i].text)
        PROVE  Sent(log[i])'
    <3>1. CASE i \in 1..Len(log)
      <4>01. PICK x : x = log[i]
        OBVIOUS
      <4>1. Sent(x) /\ log'[i] = x
        BY <2>1, <2>4, <3>1, <4>01 DEF InTransit
      <4>2. Sent(x)'
        BY <4>1, <1>7
      <4>3. QED
        BY <4>1, <4>2 DEF Sent
    <3>2. CASE i = Len(log) + 1
      BY <1>8, <2>1, <3>2 DEF Sent
    <3>3. QED
      BY <2>1, <3>1, <3>2
  <2>5. ASSUME NEW j \in 1..Len(log'), NEW i \in 1..(j - 1),
               IsOwn(log'[i].text), IsOwn(log'[j].text)
        PROVE  Ahead(log'[i], log'[j])
    <3>1. i \in 1..Len(log) /\ log'[i] = log[i]
      BY <2>1
    <3>2. CASE j \in 1..Len(log)
      BY <2>1, <2>5, <3>1, <3>2 DEF InTransit
    <3>3. CASE j = Len(log) + 1
      <4>1. Sent(log[i])
        BY <2>5, <3>1 DEF InTransit
      <4>2. QED
        BY <1>9, <2>1, <3>1, <3>3, <4>1
    <3>4. QED
      BY <2>1, <3>2, <3>3
  <2>6. InTransit'
    BY <1>10, <2>2, <2>4, <2>5 DEF InTransit
  <2>7. \E x : log'[Len(log) + 1] = x /\ Sent(x)'
    BY <1>8, <2>1
  <2>8. QED
    BY <1>1, <1>2, <1>5, <1>7, <2>1, <2>3, <2>6, <2>7
<1>12. CASE kind = "kafka" /\ inFlight' = Append(inFlight, m) /\ UNCHANGED log
  <2>1. /\ inFlight' \in Seq(OwnMessages)
        /\ Len(inFlight') = Len(inFlight) + 1 /\ Len(inFlight) \in Nat
        /\ inFlight'[Len(inFlight) + 1] = m
        /\ \A i \in 1..Len(inFlight) : inFlight'[i] = inFlight[i]
    BY <1>4, <1>12, AppendOne DEF Kept
  <2>2. log' = log
    BY <1>12
  <2>3. Kept'
    BY <1>5, <1>6, <2>1, <2>2 DEF Kept
  <2>4. ASSUME NEW i \in 1..Len(log), IsOwn(log[i].text) PROVE Sent(log[i])'
    <3>01. PICK x : x = log[i]
      OBVIOUS
    <3>1. Sent(x)
      BY <2>4, <3>01 DEF InTransit
    <3>2. Sent(x)'
      BY <3>1, <1>7
    <3>3. QED
      BY <2>2, <3>01, <3>2 DEF Sent
  <2>5. ASSUME NEW i \in 1..Len(inFlight') PROVE Sent(inFlight[i])'
    <3>1. CASE i \in 1..Len(inFlight)
      <4>01. PICK x : x = inFlight[i]
        OBVIOUS
      <4>1. Sent(x) /\ inFlight'[i] = x
        BY <2>1, <3>1, <4>01 DEF InTransit
      <4>2. Sent(x)'
        BY <4>1, <1>7
      <4>3. QED
        BY <4>1, <4>2 DEF Sent
    <3>2. CASE i = Len(inFlight) + 1
      BY <1>8, <2>1, <3>2 DEF Sent
    <3>3. QED
      BY <2>1, <3>1, <3>2
  <2>6. ASSUME NEW j \in 1..Len(inFlight'), NEW i \in 1..(j - 1)
        PROVE  Ahead(inFlight'[i], inFlight'[j])
    <3>1. i \in 1..Len(inFlight) /\ inFlight'[i] = inFlight[i]
      BY <2>1
    <3>2. CASE j \in 1..Len(inFlight)
      BY <2>1, <3>1, <3>2 DEF InTransit
    <3>3. CASE j = Len(inFlight) + 1
      <4>1. Sent(inFlight[i])
        BY <3>1 DEF InTransit
      <4>2. QED
        BY <1>9, <2>1, <3>1, <3>3, <4>1
    <3>4. QED
      BY <2>1, <3>2, <3>3
  <2>7. ASSUME NEW i \in 1..Len(log), NEW j \in 1..Len(inFlight'), IsOwn(log[i].text)
        PROVE  Ahead(log[i], inFlight'[j])
    <3>2. CASE j \in 1..Len(inFlight)
      BY <2>1, <2>7, <3>2 DEF InTransit
    <3>3. CASE j = Len(inFlight) + 1
      <4>1. Sent(log[i])
        BY <2>7 DEF InTransit
      <4>2. QED
        BY <1>9, <2>1, <3>3, <4>1
    <3>4. QED
      BY <2>1, <3>2, <3>3
  <2>8. InTransit'
    BY <1>10, <1>12, <2>2, <2>4, <2>5, <2>6, <2>7 DEF InTransit
  <2>9. QED
    BY <1>1, <1>2, <1>5, <1>7, <2>2, <2>3, <2>8
<1>13. QED
  BY <1>2, <1>11, <1>12 DEF SendMessage

LEMMA TransitAcknowledges ==
  ASSUME Kept, InTransit, BrokerAcknowledges
  PROVE  /\ Kept' /\ InTransit'
         /\ Len(log') = Len(log) + 1 /\ Len(log) \in Nat
         /\ \A i \in 1..Len(log) : log'[i] = log[i]
         /\ sequence > 0
<1>1. PICK k \in 1..Len(inFlight) : Acknowledge(k)
  BY DEF BrokerAcknowledges
<1>02. PICK m : m = inFlight[k]
  OBVIOUS
<1>2. UNCHANGED <<kind, sequence, published>>
  BY <1>1 DEF BrokerAcknowledges, Acknowledge, busVars, historyVars
<1>3. m \in OwnMessages /\ Sent(m) /\ inFlight \in Seq(OwnMessages)
  BY <1>02 DEF Kept, InTransit
<1>4. /\ log' \in Seq(ForeignTexts \cup OwnMessages)
      /\ Len(log') = Len(log) + 1 /\ Len(log) \in Nat
      /\ log'[Len(log) + 1] = m
      /\ \A i \in 1..Len(log) : log'[i] = log[i]
  BY <1>1, <1>02, <1>3, AppendOne DEF Acknowledge, Kept
<1>5. /\ inFlight' \in Seq(OwnMessages) /\ Len(inFlight) \in Nat
      /\ Len(inFlight') = Len(inFlight) - 1
      /\ \A j \in 1..Len(inFlight') :
            /\ inFlight'[j] = inFlight[IF j < k THEN j ELSE j + 1]
            /\ (IF j < k THEN j ELSE j + 1) \in 1..Len(inFlight)
  <2>1. inFlight' = RemoveAt(inFlight, k) /\ Len(inFlight) \in Nat
    BY <1>1, <1>3 DEF Acknowledge
  <2>2. /\ inFlight' \in Seq(OwnMessages) /\ Len(inFlight') = Len(inFlight) - 1
        /\ \A j \in 1..Len(inFlight) - 1 :
              /\ inFlight'[j] = inFlight[IF j < k THEN j ELSE j + 1]
              /\ (IF j < k THEN j ELSE j + 1) \in 1..Len(inFlight)
    BY <1>3, <2>1, Removed, Zenon
  <2>3. 1..Len(inFlight') = 1..Len(inFlight) - 1
    BY <2>2
  <2>4. QED
    BY <2>1, <2>2, <2>3, Zenon
<1>6. \A x : Sent(x)' <=> Sent(x)
  BY <1>2 DEF Sent
<1>7. Kept'
  BY <1>2, <1>4, <1>5 DEF Kept
<1>8. kind' = "memory" => inFlight' = <<>>
  BY <1>1, <1>2 DEF InTransit
<1>9. ASSUME NEW i \in 1..Len(log') PROVE IsOwn(log'[i].text) => Sent(log[i])'
  <2>01. PICK x : x = log'[i]
    OBVIOUS
  <2>1. IsOwn(x.text) => Sent(x)
    BY <1>3, <1>4, <2>01 DEF InTransit
  <2>2. QED
    BY <2>01, <2>1, <1>2 DEF Sent
<1>10. ASSUME NEW j \in 1..Len(inFlight') PROVE Sent(inFlight[j])'
  <2>01. PICK x : x = inFlight'[j]
    OBVIOUS
  <2>1. Sent(x)
    BY <1>5, <2>01 DEF InTransit
  <2>2. QED
    BY <2>01, <2>1, <1>2 DEF Sent
<1>11. ASSUME NEW j \in 1..Len(log'), NEW i \in 1..(j - 1),
              IsOwn(log'[i].text), IsOwn(log'[j].text)
       PROVE  Ahead(log'[i], log'[j])
  <2>1. i \in 1..Len(log) /\ log'[i] = log[i]
    BY <1>4
  <2>2. CASE j \in 1..Len(log)
    BY <1>4, <1>11, <2>1, <2>2 DEF InTransit
  <2>3. CASE j = Len(log) + 1
    <3>1. Ahead(log[i], inFlight[k])
      BY <1>11, <2>1 DEF InTransit
    <3>2. QED
      BY <1>02, <1>4, <2>1, <2>3, <3>1
  <2>4. QED
    BY <1>4, <2>2, <2>3
<1>12. ASSUME NEW j \in 1..Len(inFlight'), NEW i \in 1..(j - 1)
       PROVE  Ahead(inFlight'[i], inFlight'[j])
  <2>01. PICK a, b : a = (IF i < k THEN i ELSE i + 1) /\ b = (IF j < k THEN j ELSE j + 1)
    OBVIOUS
  <2>1. i \in 1..Len(inFlight')
    BY <1>5
  <2>2. inFlight'[i] = inFlight[a] /\ inFlight'[j] = inFlight[b]
    BY <1>5, <2>01, <2>1
  <2>3. a \in 1..(b - 1) /\ b \in 1..Len(inFlight)
    BY <1>5, <2>01, <2>1
  <2>4. QED
    BY <2>2, <2>3 DEF InTransit
<1>13. ASSUME NEW j \in 1..Len(inFlight') PROVE Ahead(m, inFlight'[j])
  <2>01. PICK b : b = (IF j < k THEN j ELSE j + 1)
    OBVIOUS
  <2>1. inFlight'[j] = inFlight[b] /\ b \in 1..Len(inFlight)
    BY <1>5, <2>01
  <2>2. CASE b > k
    <3>1. k \in 1..(b - 1)
      BY <2>1, <2>2
    <3>2. QED
      BY <1>02, <2>1, <3>1 DEF InTransit
  <2>3. CASE b < k
    <3>1. b \in 1..(k - 1)
      BY <2>1, <2>3
    <3>2. Ahead(inFlight[b], inFlight[k])
      BY <3>1 DEF InTransit
    <3>3. ~SamePartition(inFlight[b], inFlight[k])
      BY <1>1, <3>1 DEF Acknowledge, FirstInFlight
    <3>4. QED
      BY <1>02, <2>1, <3>2, <3>3 DEF Ahead, SamePartition
  <2>4. QED
    BY <2>01, <2>1, <2>2, <2>3
<1>14. ASSUME NEW i \in 1..Len(log'), NEW j \in 1..Len(inFlight'), IsOwn(log'[i].text)
       PROVE  Ahead(log'[i], inFlight'[j])
  <2>1. CASE i \in 1..Len(log)
    <3>1. log'[i] = log[i]
      BY <1>4, <2>1
    <3>2. QED
      BY <1>5, <1>14, <2>1, <3>1 DEF InTransit
  <2>2. CASE i = Len(log) + 1
    BY <1>4, <1>13, <2>2
  <2>3. QED
    BY <1>4, <2>1, <2>2
<1>15. InTransit'
  BY <1>2, <1>8, <1>9, <1>10, <1>11, <1>12, <1>14 DEF InTransit
<1>16. sequence > 0
  BY <1>3 DEF Sent, Kept
<1>17. QED
  BY <1>4, <1>7, <1>15, <1>16

LEMMA TransitFails ==
  ASSUME Kept, InTransit, DeliveryFails
  PROVE  Kept' /\ InTransit'
<1>1. PICK k \in 1..Len(inFlight) : FailDelivery(k)
  BY DEF DeliveryFails
<1>2. UNCHANGED <<kind, sequence, published, log>>
  BY <1>1 DEF DeliveryFails, FailDelivery, busVars
<1>3. /\ inFlight' \in Seq(OwnMessages) /\ Len(inFlight) \in Nat
      /\ Len(inFlight') = Len(inFlight) - 1
      /\ \A j \in 1..Len(inFlight') :
            /\ inFlight'[j] = inFlight[IF j < k THEN j ELSE j + 1]
            /\ (IF j < k THEN j ELSE j + 1) \in 1..Len(inFlight)
  <2>1. /\ inFlight' = RemoveAt(inFlight, k) /\ inFlight \in Seq(OwnMessages)
        /\ Len(inFlight) \in Nat
    BY <1>1 DEF FailDelivery, Kept
  <2>2. /\ inFlight' \in Seq(OwnMessages) /\ Len(inFlight') = Len(inFlight) - 1
        /\ \A j \in 1..Len(inFlight) - 1 :
              /\ inFlight'[j] = inFlight[IF j < k THEN j ELSE j + 1]
              /\ (IF j < k THEN j ELSE j + 1) \in 1..Len(inFlight)
    BY <2>1, Removed, Zenon
  <2>3. 1..Len(inFlight') = 1..Len(inFlight) - 1
    BY <2>2
  <2>4. QED
    BY <2>1, <2>2, <2>3, Zenon
<1>4. Kept'
  BY <1>2, <1>3 DEF Kept
<1>5. ASSUME NEW j \in 1..Len(inFlight') PROVE Sent(inFlight[j])'
  <2>01. PICK x : x = inFlight'[j]
    OBVIOUS
  <2>1. Sent(x)
    BY <1>3, <2>01 DEF InTransit
  <2>2. QED
    BY <2>01, <2>1, <1>2 DEF Sent
<1>6. ASSUME NEW j \in 1..Len(inFlight'), NEW i \in 1..(j - 1)
      PROVE  Ahead(inFlight'[i], inFlight'[j])
  <2>01. PICK a, b : a = (IF i < k THEN i ELSE i + 1) /\ b = (IF j < k THEN j ELSE j + 1)
    OBVIOUS
  <2>1. i \in 1..Len(inFlight')
    BY <1>3
  <2>2. inFlight'[i] = inFlight[a] /\ inFlight'[j] = inFlight[b]
    BY <1>3, <2>01, <2>1
  <2>3. a \in 1..(b - 1) /\ b \in 1..Len(inFlight)
    BY <1>3, <2>01, <2>1
  <2>4. QED
    BY <2>2, <2>3 DEF InTransit
<1>7. ASSUME NEW i \in 1..Len(log), NEW j \in 1..Len(inFlight'), IsOwn(log[i].text)
      PROVE  Ahead(log[i], inFlight'[j])
  BY <1>3, <1>7 DEF InTransit
<1>8. kind = "memory" => inFlight' = <<>>
  BY <1>1 DEF InTransit
<1>9. \A i \in 1..Len(log) : IsOwn(log[i].text) => Sent(log[i])'
  BY <1>2 DEF InTransit, Sent
<1>10. InTransit'
  BY <1>2, <1>5, <1>6, <1>7, <1>8, <1>9 DEF InTransit
<1>11. QED
  BY <1>4, <1>10

LEMMA TransitOthers ==
  ASSUME Kept, InTransit, OthersWrite
  PROVE  /\ Kept' /\ InTransit'
         /\ Len(log') = Len(log) + 1 /\ Len(log) \in Nat
         /\ \A i \in 1..Len(log) : log'[i] = log[i]
         /\ ~IsOwn(log'[Len(log')].text)
<1>1. PICK m \in ForeignTexts : log' = Append(log, m)
  BY DEF OthersWrite
<1>2. UNCHANGED <<kind, sequence, published, inFlight>>
  BY DEF OthersWrite, busVars
<1>3. /\ log' \in Seq(ForeignTexts \cup OwnMessages)
      /\ Len(log') = Len(log) + 1 /\ Len(log) \in Nat
      /\ log'[Len(log) + 1] = m
      /\ \A i \in 1..Len(log) : log'[i] = log[i]
  BY <1>1, AppendOne DEF Kept
<1>4. ~IsOwn(m.text)
  BY OwnOrForeign
<1>5. \A i \in 1..Len(log') : IsOwn(log'[i].text) => i \in 1..Len(log) /\ log'[i] = log[i]
  BY <1>3, <1>4
<1>6. Kept'
  BY <1>2, <1>3 DEF Kept
<1>7. \A i \in 1..Len(log') : IsOwn(log'[i].text) => Sent(log[i])'
  BY <1>2, <1>5 DEF InTransit, Sent
<1>8. ASSUME NEW j \in 1..Len(log'), NEW i \in 1..(j - 1),
             IsOwn(log'[i].text), IsOwn(log'[j].text)
      PROVE  Ahead(log'[i], log'[j])
  <2>1. i \in 1..Len(log')
    BY <1>3
  <2>2. QED
    BY <1>5, <1>8, <2>1 DEF InTransit
<1>9. \A i \in 1..Len(log') : \A j \in 1..Len(inFlight) :
         IsOwn(log'[i].text) => Ahead(log'[i], inFlight[j])
  BY <1>5 DEF InTransit
<1>10. \A i \in 1..Len(inFlight) : Sent(inFlight[i])'
  BY <1>2 DEF InTransit, Sent
<1>11. InTransit'
  BY <1>2, <1>7, <1>8, <1>9, <1>10 DEF InTransit
<1>12. QED
  BY <1>3, <1>4, <1>6, <1>11

-----------------------------------------------------------------------------
(* What the dispatcher has read.                                           *)

LEMMA ReadingUnchanged ==
  ASSUME Reading, UNCHANGED <<log, from, read, polled, dpc, state, sequence>>
  PROVE  Reading'
BY DEF Reading, NothingMissed, Text

(* A place in the log that is or will be read is one of the log.           *)
LEMMA ReadPlaces ==
  ASSUME Kept, Reading
  PROVE  /\ Len(log) \in Nat /\ from \in Nat
         /\ \A j \in read : j \in Nat /\ j \in 1..Len(log) /\ from < j
         /\ \A j \in read : \A i \in (from + 1)..(j - 1) : i \in 1..Len(log)
         /\ polled \in 0..Len(log)
<1>1. Len(log) \in Nat /\ from \in 0..Len(log) /\ read \subseteq (from + 1)..Len(log)
  BY DEF Kept, Reading
<1>2. \A j \in read : j \in Nat /\ j \in 1..Len(log) /\ from < j
  BY <1>1
<1>3. \A j \in read : \A i \in (from + 1)..(j - 1) : i \in 1..Len(log)
  BY <1>1, <1>2
<1>4. polled = 0 \/ polled \in read
  BY DEF Reading
<1>5. polled \in 0..Len(log)
  <2>1. CASE polled = 0
    BY <1>1, <2>1
  <2>2. CASE polled \in read
    <3>1. polled \in 1..Len(log)
      BY <1>2, <2>2
    <3>2. QED
      BY <1>1, <3>1
  <2>3. QED
    BY <1>4, <2>1, <2>2
<1>6. QED
  BY <1>1, <1>2, <1>3, <1>5

LEMMA ReadingGrows ==
  ASSUME Kept, Reading, Len(log') = Len(log) + 1,
         \A i \in 1..Len(log) : log'[i] = log[i],
         UNCHANGED <<from, read, polled, dpc, state>>,
         sequence' = sequence \/ dpc # "none"
  PROVE  Reading'
<1>1. /\ Len(log) \in Nat /\ from \in Nat /\ from \in 0..Len(log)
      /\ \A j \in read : j \in Nat /\ j \in 1..Len(log) /\ from < j
      /\ \A j \in read : \A i \in (from + 1)..(j - 1) : i \in 1..Len(log)
      /\ read \subseteq (from + 1)..Len(log)
  BY ReadPlaces DEF Reading
<1>2. from \in 0..Len(log') /\ read \subseteq (from + 1)..Len(log')
  BY <1>1
<1>3. ASSUME NEW j \in read, NEW i \in (from + 1)..(j - 1)
      PROVE  i \in read \/ ~SamePartition(log'[i], log'[j])
  <2>1. log'[i] = log[i] /\ log'[j] = log[j]
    BY <1>1
  <2>2. QED
    BY <2>1 DEF Reading
<1>4. ASSUME dpc \in {"polled", "handler"}, NEW j \in read
      PROVE  j <= polled \/ ~SamePartition(log'[j], log'[polled])
  <2>1. polled \in read
    BY <1>4 DEF Reading
  <2>2. log'[j] = log[j] /\ log'[polled] = log[polled]
    BY <1>1, <2>1
  <2>3. QED
    BY <1>4, <2>2 DEF Reading
<1>5. dpc = "handler" => Decodes(log'[polled].text)
  <2>1. SUFFICES ASSUME dpc = "handler" PROVE Decodes(log'[polled].text)
    OBVIOUS
  <2>2. polled \in read /\ Decodes(log[polled].text)
    BY <2>1 DEF Reading, Text
  <2>3. log'[polled] = log[polled]
    BY <1>1, <2>2
  <2>4. QED
    BY <2>2, <2>3
<1>6. ASSUME NEW i \in 1..Len(log'), IsOwn(log'[i].text)
      PROVE  i > from
  <2>1. CASE i \in 1..Len(log)
    BY <1>6, <2>1 DEF Reading, NothingMissed
  <2>2. CASE i = Len(log) + 1
    BY <1>1, <2>2
  <2>3. QED
    BY <1>1, <2>1, <2>2
<1>7. dpc = "none" => sequence' = 0 /\ read = {} /\ from = 0
  BY DEF Reading
<1>8. /\ dpc \in {"none", "loop", "poll", "polled", "handler", "notify", "done"}
      /\ IF dpc \in {"polled", "handler"} THEN polled \in read ELSE polled = 0
      /\ state = "NotStarted" => dpc = "none"
      /\ state \in {"Running", "Draining"} => dpc # "none"
  BY DEF Reading
<1>9. QED
  BY <1>2, <1>3, <1>4, <1>5, <1>6, <1>7, <1>8 DEF Reading, NothingMissed, Text

LEMMA ReadingStart ==
  ASSUME Kept, InTransit, Reading, NEW c \in Clients, Start(c)
  PROVE  Reading'
<1>1. /\ state = "NotStarted" /\ dpc = "none" /\ sequence = 0 /\ read = {} /\ polled = 0
      /\ dpc' = "loop" /\ state' = "Running" /\ from' = Len(log) /\ Len(log) \in Nat
      /\ UNCHANGED <<log, read, polled, sequence>>
  BY DEF Start, Subscribe, Reading, Kept, End
<1>2. ASSUME NEW i \in 1..Len(log) PROVE ~IsOwn(log[i].text)
  BY <1>1 DEF InTransit, Sent
<1>3. QED
  BY <1>1, <1>2 DEF Reading, NothingMissed

(* A client changes the state, but not to one of a bus that runs.          *)
LEMMA ReadingState ==
  ASSUME Reading, UNCHANGED <<log, from, read, polled, dpc, sequence>>,
         state' = "Stopped" \/ (state = "Running" /\ state' = "Draining") \/ state' = state
  PROVE  Reading'
BY DEF Reading, NothingMissed, Text

LEMMA ReadingPoll ==
  ASSUME Kept, Reading, PollMessage
  PROVE  Reading'
<1>1. PICK p \in Readables : Poll(p) /\ polled' = p
  BY DEF PollMessage
<1>2. /\ dpc = "poll" /\ dpc' = "polled" /\ read' = read \cup {p} /\ polled' = p
      /\ UNCHANGED <<log, from, state, sequence>>
  BY <1>1 DEF PollMessage, Poll, busVars
<1>3. /\ p \in (from + 1)..Len(log) /\ p \notin read
      /\ \A i \in (from + 1)..(p - 1) : i \in read \/ ~SamePartition(log[i], log[p])
  BY DEF Readables, SamePartition
<1>4. /\ Len(log) \in Nat /\ from \in Nat
      /\ \A j \in read : j \in Nat /\ j \in 1..Len(log) /\ from < j
  BY ReadPlaces
<1>5. \A j \in read : j <= p \/ ~SamePartition(log[j], log[p])
  <2>1. SUFFICES ASSUME NEW j \in read, j > p PROVE ~SamePartition(log[j], log[p])
    BY <1>3, <1>4
  <2>2. p \in (from + 1)..(j - 1)
    BY <1>3, <1>4, <2>1
  <2>3. ~SamePartition(log[p], log[j])
    BY <1>3, <2>2 DEF Reading
  <2>4. QED
    BY <2>3 DEF SamePartition
<1>6. \A j \in read' : \A i \in (from + 1)..(j - 1) : i \in read' \/ ~SamePartition(log[i], log[j])
  BY <1>2, <1>3 DEF Reading
<1>7. \A j \in read' : j <= p \/ ~SamePartition(log[j], log[p])
  BY <1>2, <1>3, <1>5
<1>8. read' \subseteq (from + 1)..Len(log)
  BY <1>2, <1>3 DEF Reading
<1>9. state \notin {"NotStarted"}
  BY <1>2 DEF Reading
<1>10. QED
  BY <1>2, <1>6, <1>7, <1>8, <1>9 DEF Reading, NothingMissed

LEMMA ReadingDispatch ==
  ASSUME Reading,
         TestStop \/ PollNothing \/ SkipUndecodable \/ BeginDelivery \/ EndDelivery \/ NotifyIdle
  PROVE  Reading'
<1>1. /\ dpc # "none" /\ dpc' \in {"loop", "poll", "handler", "notify", "done"}
      /\ UNCHANGED <<log, from, read, state, sequence>>
  BY DEF TestStop, PollNothing, SkipUndecodable, BeginDelivery, EndDelivery, NotifyIdle,
         transportVars, busVars
<1>2. CASE BeginDelivery
  <2>1. dpc = "polled" /\ Decodes(Text) /\ dpc' = "handler" /\ polled' = polled
    BY <1>2 DEF BeginDelivery
  <2>2. QED
    BY <1>1, <2>1 DEF Reading, NothingMissed, Text
<1>3. CASE ~BeginDelivery
  <2>1. polled' = 0 /\ dpc' \in {"loop", "poll", "notify", "done"}
    BY <1>3 DEF Reading, TestStop, PollNothing, SkipUndecodable, EndDelivery, NotifyIdle
  <2>2. QED
    BY <1>1, <2>1 DEF Reading, NothingMissed
<1>4. QED
  BY <1>2, <1>3

LEMMA PublishUnderway ==
  ASSUME Reading, (\E c \in Clients : ClientPublish(c)) \/ HandlerPublish
  PROVE  dpc # "none"
BY DEF Reading, ClientPublish, HandlerPublish

(* The steps, by what they do to the messages.                             *)
Publishes == \E event \in Events : Publish(event)

Others ==
    \/ \E c \in Clients : Start(c) \/ RequestShutdown(c) \/ DrainCall(c) \/ Continue(c)
                          \/ WaitTimesOut(c)
    \/ Dispatch
    \/ UNCHANGED vars

LEMMA StepKinds ==
  ASSUME [Next]_vars
  PROVE  \/ /\ Publishes
            /\ (\E c \in Clients : ClientPublish(c)) \/ HandlerPublish
         \/ BrokerAcknowledges \/ DeliveryFails \/ OthersWrite
         \/ Others
BY DEF Next, Call, ClientPublish, HandlerPublish, Publishes, Others

LEMMA OthersKeepTransit ==
  ASSUME Others
  PROVE  UNCHANGED transitVars
BY DEF Others, Start, RequestShutdown, DrainCall, Continue, WaitSleeps, WaitReturns, Join,
       WaitTimesOut, EndWait, Dispatch, TestStop, PollNothing, PollMessage, SkipUndecodable,
       BeginDelivery, EndDelivery, NotifyIdle, vars, transitVars, transportVars, busVars,
       historyVars, Subscribe, Poll

LEMMA TransitSteps ==
  ASSUME Kept, InTransit, [Next]_vars
  PROVE  Kept' /\ InTransit'
<1>1. CASE Publishes
  BY <1>1, TransitPublish DEF Publishes
<1>2. CASE BrokerAcknowledges \/ DeliveryFails \/ OthersWrite
  BY <1>2, TransitAcknowledges, TransitFails, TransitOthers
<1>3. CASE Others
  BY <1>3, OthersKeepTransit, TransitUnchanged
<1>4. QED
  BY <1>1, <1>2, <1>3, StepKinds

LEMMA ReadingSteps ==
  ASSUME Kept, InTransit, Reading, [Next]_vars
  PROVE  Reading'
<1>1. CASE Publishes /\ ((\E c \in Clients : ClientPublish(c)) \/ HandlerPublish)
  <2>1. PICK event \in Events : Publish(event)
    BY <1>1 DEF Publishes
  <2>2. UNCHANGED <<from, read, polled, dpc, state>> /\ dpc # "none"
    BY <1>1, <2>1, PublishUnderway DEF Publish
  <2>3. \/ log' = log
        \/ /\ Len(log') = Len(log) + 1
           /\ \A i \in 1..Len(log) : log'[i] = log[i]
    BY <2>1, TransitPublish
  <2>4. CASE log' = log
    BY <2>2, <2>4 DEF Reading, NothingMissed, Text
  <2>5. CASE Len(log') = Len(log) + 1 /\ \A i \in 1..Len(log) : log'[i] = log[i]
    BY <2>2, <2>5, ReadingGrows
  <2>6. QED
    BY <2>3, <2>4, <2>5
<1>2. CASE BrokerAcknowledges
  <2>1. /\ Len(log') = Len(log) + 1 /\ \A i \in 1..Len(log) : log'[i] = log[i]
    BY <1>2, TransitAcknowledges
  <2>2. UNCHANGED <<from, read, polled, dpc, state, sequence>>
    BY <1>2 DEF BrokerAcknowledges, Acknowledge, busVars
  <2>3. QED
    BY <2>1, <2>2, ReadingGrows
<1>3. CASE OthersWrite
  <2>1. /\ Len(log') = Len(log) + 1 /\ \A i \in 1..Len(log) : log'[i] = log[i]
    BY <1>3, TransitOthers
  <2>2. UNCHANGED <<from, read, polled, dpc, state, sequence>>
    BY <1>3 DEF OthersWrite, busVars
  <2>3. QED
    BY <2>1, <2>2, ReadingGrows
<1>4. CASE DeliveryFails
  <2>1. UNCHANGED <<log, from, read, polled, dpc, state, sequence>>
    BY <1>4 DEF DeliveryFails, FailDelivery, busVars
  <2>2. QED
    BY <2>1, ReadingUnchanged
<1>5. CASE \E c \in Clients : Start(c)
  BY <1>5, ReadingStart
<1>6. CASE PollMessage
  BY <1>6, ReadingPoll
<1>7. CASE TestStop \/ PollNothing \/ SkipUndecodable \/ BeginDelivery \/ EndDelivery \/ NotifyIdle
  BY <1>7, ReadingDispatch
<1>8. CASE \/ UNCHANGED vars
           \/ \E c \in Clients : RequestShutdown(c) \/ DrainCall(c) \/ Continue(c) \/ WaitTimesOut(c)
  <2>1. /\ UNCHANGED <<log, from, read, polled, dpc, sequence>>
        /\ state' = "Stopped" \/ (state = "Running" /\ state' = "Draining") \/ state' = state
    BY <1>8 DEF RequestShutdown, DrainCall, Continue, WaitSleeps, WaitReturns, Join,
                WaitTimesOut, EndWait, vars, transportVars, busVars
  <2>2. QED
    BY <2>1, ReadingState
<1>9. QED
  BY <1>1, <1>2, <1>3, <1>4, <1>5, <1>6, <1>7, <1>8, StepKinds DEF Others, Dispatch

-----------------------------------------------------------------------------
(* What the handlers have been given.                                      *)

LEMMA HandledKept ==
  ASSUME Kept, HandledInOrder, UNCHANGED <<handled, receivedOwn>>,
         sequence' \in Nat, sequence <= sequence',
         \A n \in 1..sequence : published'[n] = published[n],
         read \subseteq read',
         \A i \in read : log'[i] = log[i] /\ (i # polled => i # polled')
  PROVE  HandledInOrder'
<1>1. \A k \in 1..Len(handled) :
         /\ handled[k].sequence \in 1..sequence'
         /\ \E i \in read' : /\ i # polled' /\ IsOwn(log'[i].text)
                             /\ NumberOf(log'[i]) = handled[k].sequence
  <2>1. SUFFICES ASSUME NEW k \in 1..Len(handled)
                 PROVE  /\ handled[k].sequence \in 1..sequence'
                        /\ \E i \in read' : /\ i # polled' /\ IsOwn(log'[i].text)
                                            /\ NumberOf(log'[i]) = handled[k].sequence
    OBVIOUS
  <2>2. sequence \in Nat /\ handled[k].sequence \in 1..sequence
    BY DEF HandledInOrder, Kept
  <2>3. PICK i \in read : /\ i # polled /\ IsOwn(log[i].text)
                          /\ NumberOf(log[i]) = handled[k].sequence
    BY DEF HandledInOrder
  <2>4. log'[i] = log[i] /\ i # polled' /\ i \in read'
    BY <2>3
  <2>5. QED
    BY <2>2, <2>3, <2>4
<1>2. \A k \in 1..Len(handled) : handled[k] = published'[handled[k].sequence]
  BY DEF HandledInOrder, ReadBackAsPublished
<1>3. QED
  BY <1>1, <1>2 DEF HandledInOrder, ReadBackAsPublished, OrderPerSymbol

(* Two own messages that were read are of different numbers, and the       *)
(* dispatcher works on the last of its partition.                          *)
LEMMA OlderThanPolled ==
  ASSUME Kept, InTransit, Reading, dpc = "handler", Own,
         NEW i \in read, i # polled, IsOwn(log[i].text)
  PROVE  /\ NumberOf(log[i]) # NumberOf(log[polled])
         /\ SamePartition(log[i], log[polled]) => NumberOf(log[i]) < NumberOf(log[polled])
<1>1. /\ polled \in read /\ IsOwn(log[polled].text)
      /\ i <= polled \/ ~SamePartition(log[i], log[polled])
  BY DEF Reading, Own, Text
<1>2. i \in Nat /\ polled \in Nat /\ i \in 1..Len(log) /\ polled \in 1..Len(log)
  BY <1>1, ReadPlaces
<1>3. CASE i < polled
  <2>1. i \in 1..(polled - 1)
    BY <1>2, <1>3
  <2>2. Ahead(log[i], log[polled])
    BY <1>1, <1>2, <2>1 DEF InTransit
  <2>3. QED
    BY <2>2 DEF Ahead
<1>4. CASE polled < i
  <2>1. polled \in 1..(i - 1)
    BY <1>2, <1>4
  <2>2. Ahead(log[polled], log[i])
    BY <1>1, <1>2, <2>1 DEF InTransit
  <2>3. ~SamePartition(log[i], log[polled])
    BY <1>1, <1>2, <1>4
  <2>4. QED
    BY <2>2, <2>3 DEF Ahead
<1>5. QED
  BY <1>2, <1>3, <1>4

LEMMA HandledEndDelivery ==
  ASSUME Kept, InTransit, Reading, HandledInOrder, EndDelivery
  PROVE  HandledInOrder'
<1>1. /\ UNCHANGED <<read, log, sequence, published>> /\ polled' = 0
      /\ polled \in read /\ dpc = "handler" /\ sequence \in Nat
  BY DEF EndDelivery, transportVars, Reading, Kept
<1>2. 0 \notin read
  BY ReadPlaces
<1>3. CASE ~Own
  <2>1. UNCHANGED <<handled, receivedOwn>>
    BY <1>3 DEF EndDelivery
  <2>2. QED
    BY <1>1, <1>2, <2>1, HandledKept
<1>4. CASE Own
  <2>01. PICK m : m = log[polled]
    OBVIOUS
  <2>02. PICK n : n = NumberOf(m)
    OBVIOUS
  <2>03. PICK e : e = Decode(m.text)
    OBVIOUS
  <2>1. polled \in 1..Len(log) /\ IsOwn(m.text)
    BY <1>1, <1>4, <2>01, ReadPlaces DEF Own, Text
  <2>2. Sent(m)
    BY <2>01, <2>1 DEF InTransit
  <2>3. /\ n \in 1..sequence /\ n \in Nat /\ e = published[n] /\ e \in PublishedEvents
        /\ e.sequence = n /\ m.topic = e.type /\ m.key = PartitionKey(e)
    BY <2>02, <2>03, <2>2, SentMessage
  <2>4. handled' = Append(handled, e) /\ receivedOwn' = receivedOwn + 1
    BY <1>4, <2>01, <2>03 DEF EndDelivery, Text
  <2>5. /\ handled' \in Seq(PublishedEvents) /\ Len(handled') = Len(handled) + 1
        /\ Len(handled) \in Nat /\ handled'[Len(handled) + 1] = e
        /\ \A i \in 1..Len(handled) : handled'[i] = handled[i]
    <3>1. handled \in Seq(PublishedEvents)
      BY DEF HandledInOrder
    <3>2. QED
      BY <2>3, <2>4, <3>1, AppendOne
  <2>6. ASSUME NEW k \in 1..Len(handled)
        PROVE  /\ handled[k].sequence \in 1..sequence /\ handled[k] = published[handled[k].sequence]
               /\ handled[k].sequence # n
               /\ handled[k].type = e.type /\ PartitionKey(handled[k]) = PartitionKey(e) =>
                     handled[k].sequence < n
               /\ \E i \in read : /\ i # 0 /\ IsOwn(log[i].text)
                                  /\ NumberOf(log[i]) = handled[k].sequence
    <3>1. handled[k].sequence \in 1..sequence /\ handled[k] = published[handled[k].sequence]
      BY DEF HandledInOrder, ReadBackAsPublished
    <3>2. PICK i \in read : /\ i # polled /\ IsOwn(log[i].text)
                            /\ NumberOf(log[i]) = handled[k].sequence
      BY DEF HandledInOrder
    <3>3. Sent(log[i])
      BY <3>2, ReadPlaces DEF InTransit
    <3>4. log[i].topic = handled[k].type /\ log[i].key = PartitionKey(handled[k])
      BY <3>1, <3>2, <3>3, SentMessage
    <3>5. /\ handled[k].sequence # n
          /\ SamePartition(log[i], m) => handled[k].sequence < n
      BY <1>1, <1>4, <2>01, <2>02, <3>2, OlderThanPolled
    <3>6. handled[k].type = e.type /\ PartitionKey(handled[k]) = PartitionKey(e) =>
             SamePartition(log[i], m)
      BY <2>3, <3>4 DEF SamePartition
    <3>7. QED
      BY <1>2, <3>1, <3>2, <3>5, <3>6
  <2>7. ASSUME NEW k \in 1..Len(handled')
        PROVE  /\ handled'[k].sequence \in 1..sequence
               /\ handled'[k] = published[handled'[k].sequence]
               /\ \E i \in read : /\ i # 0 /\ IsOwn(log[i].text)
                                  /\ NumberOf(log[i]) = handled'[k].sequence
    <3>1. CASE k \in 1..Len(handled)
      BY <2>5, <2>6, <3>1
    <3>2. CASE k = Len(handled) + 1
      BY <1>1, <1>2, <2>01, <2>02, <2>1, <2>3, <2>5, <3>2
    <3>3. QED
      BY <2>5, <3>1, <3>2
  <2>8. ASSUME NEW k \in 1..Len(handled'), NEW l \in 1..Len(handled'),
               handled'[k].sequence = handled'[l].sequence
        PROVE  k = l
    <3>1. CASE k \in 1..Len(handled) /\ l \in 1..Len(handled)
      BY <2>5, <2>8, <3>1 DEF HandledInOrder, ReadBackAsPublished
    <3>2. CASE k \in 1..Len(handled) /\ l = Len(handled) + 1
      BY <2>3, <2>5, <2>6, <2>8, <3>2
    <3>3. CASE l \in 1..Len(handled) /\ k = Len(handled) + 1
      BY <2>3, <2>5, <2>6, <2>8, <3>3
    <3>4. QED
      BY <2>5, <3>1, <3>2, <3>3
  <2>9. ASSUME NEW l \in 1..Len(handled'), NEW k \in 1..(l - 1),
               handled'[k].type = handled'[l].type,
               PartitionKey(handled'[k]) = PartitionKey(handled'[l])
        PROVE  handled'[k].sequence < handled'[l].sequence
    <3>1. k \in 1..Len(handled) /\ handled'[k] = handled[k]
      BY <2>5
    <3>2. CASE l \in 1..Len(handled)
      BY <2>5, <2>9, <3>1, <3>2 DEF HandledInOrder, OrderPerSymbol
    <3>3. CASE l = Len(handled) + 1
      BY <2>3, <2>5, <2>6, <2>9, <3>1, <3>3
    <3>4. QED
      BY <2>5, <3>2, <3>3
  <2>10. Len(handled') = receivedOwn'
    BY <2>4, <2>5 DEF HandledInOrder
  <2>11. ReadBackAsPublished'
    BY <1>1, <2>7, <2>8 DEF ReadBackAsPublished
  <2>12. OrderPerSymbol'
    BY <2>9 DEF OrderPerSymbol, PartitionKey
  <2>13. QED
    BY <1>1, <2>5, <2>7, <2>10, <2>11, <2>12 DEF HandledInOrder
<1>5. QED
  BY <1>3, <1>4

LEMMA HandledSteps ==
  ASSUME Kept, InTransit, Reading, HandledInOrder, [Next]_vars
  PROVE  HandledInOrder'
<1>1. sequence \in Nat /\ \A i \in read : i \in 1..Len(log) /\ i # 0
  BY ReadPlaces DEF Kept
<1>2. CASE Publishes /\ ((\E c \in Clients : ClientPublish(c)) \/ HandlerPublish)
  <2>1. PICK event \in Events : Publish(event)
    BY <1>2 DEF Publishes
  <2>2. UNCHANGED <<handled, receivedOwn, read, polled>>
    BY <2>1 DEF Publish
  <2>3. /\ \A n \in 1..sequence : published'[n] = published[n]
        /\ sequence' = sequence + 1
        /\ log' = log \/ \A i \in 1..Len(log) : log'[i] = log[i]
    BY <2>1, TransitPublish
  <2>4. QED
    BY <1>1, <2>2, <2>3, HandledKept
<1>3. CASE BrokerAcknowledges \/ OthersWrite
  <2>1. \A i \in 1..Len(log) : log'[i] = log[i]
    BY <1>3, TransitAcknowledges, TransitOthers
  <2>2. UNCHANGED <<handled, receivedOwn, read, polled, sequence, published>>
    BY <1>3 DEF BrokerAcknowledges, Acknowledge, OthersWrite, busVars, historyVars
  <2>3. QED
    BY <1>1, <2>1, <2>2, HandledKept
<1>4. CASE EndDelivery
  BY <1>4, HandledEndDelivery
<1>5. CASE PollMessage
  <2>1. /\ UNCHANGED <<handled, receivedOwn, log, sequence, published>>
        /\ polled' \notin read /\ read \subseteq read'
    BY <1>5 DEF PollMessage, Poll, Readables, busVars, historyVars
  <2>2. QED
    BY <1>1, <2>1, HandledKept
<1>6. CASE \/ DeliveryFails \/ TestStop \/ PollNothing \/ SkipUndecodable \/ BeginDelivery
           \/ NotifyIdle \/ UNCHANGED vars
           \/ \E c \in Clients : Start(c) \/ RequestShutdown(c) \/ DrainCall(c) \/ Continue(c)
                                 \/ WaitTimesOut(c)
  <2>1. /\ UNCHANGED <<handled, receivedOwn, log, sequence, published, read>>
        /\ polled' = polled \/ polled' = 0
    BY <1>6 DEF DeliveryFails, FailDelivery, TestStop, PollNothing, SkipUndecodable,
                BeginDelivery, NotifyIdle, Start, Subscribe, RequestShutdown, DrainCall, Continue,
                WaitSleeps, WaitReturns, Join, WaitTimesOut, EndWait, vars, transportVars,
                busVars, historyVars
  <2>2. QED
    BY <1>1, <2>1, HandledKept
<1>7. QED
  BY <1>2, <1>3, <1>4, <1>5, <1>6, StepKinds DEF Others, Dispatch

-----------------------------------------------------------------------------
(* The clients that drain.                                                 *)

LEMMA DrainingPublish ==
  ASSUME Kept, Reading, Draining, Publishes,
         (\E c \in Clients : ClientPublish(c)) \/ HandlerPublish
  PROVE  Draining'
<1>1. PICK event \in Events : Publish(event)
  BY DEF Publishes
<1>2. /\ sequence' = sequence + 1 /\ sequence' \in 0..MaxSent
      /\ UNCHANGED <<state, stop, busy, receivedOwn, timeouts, dpc, pc, asleep, owed>>
  BY <1>1, TopicBusAssumption DEF Publish, Draining
<1>3. state # "Stopped"
  BY DEF ClientPublish, HandlerPublish
<1>4. \A c \in Clients : owed[c] <= sequence'
  BY <1>2, TopicBusAssumption DEF Draining
<1>5. QED
  BY <1>2, <1>3, <1>4 DEF Draining

LEMMA DrainingUnchanged ==
  ASSUME Draining, UNCHANGED <<state, stop, busy, sequence, receivedOwn, timeouts, pc, asleep, owed>>,
         dpc' = "handler" <=> dpc = "handler"
  PROVE  Draining'
BY DEF Draining

LEMMA DrainingOwner ==
  ASSUME Kept, Draining, NEW c \in Clients,
         Start(c) \/ RequestShutdown(c) \/ DrainCall(c) \/ WaitSleeps(c) \/ Join(c),
         Reading
  PROVE  Draining'
<1>1. CASE Start(c)
  <2>1. /\ UNCHANGED <<stop, busy, sequence, receivedOwn, timeouts, pc, asleep, owed>>
        /\ state' = "Running" /\ dpc' = "loop" /\ dpc = "none" /\ state = "NotStarted"
    BY <1>1 DEF Start, historyVars, Reading
  <2>2. ~stop /\ ~busy
    BY <2>1 DEF Draining
  <2>3. QED
    BY <2>1, <2>2 DEF Draining, States
<1>2. CASE RequestShutdown(c)
  <2>1. ~stop
    BY <1>2 DEF Draining, RequestShutdown
  <2>2. QED
    BY <1>2, <2>1 DEF Draining, RequestShutdown, historyVars, States
<1>3. CASE DrainCall(c)
  <2>1. /\ pc' = [pc EXCEPT ![c] = "wait"] /\ owed' = [owed EXCEPT ![c] = sequence]
        /\ pc[c] = "idle"
        /\ UNCHANGED <<state, stop, busy, sequence, receivedOwn, timeouts, asleep, dpc>>
    BY <1>3 DEF DrainCall, Goto, busVars
  <2>2. sequence \in Nat
    BY DEF Kept
  <2>3. QED
    BY <2>1, <2>2 DEF Draining
<1>4. CASE WaitSleeps(c)
  BY <1>4 DEF Draining, WaitSleeps, busVars, historyVars
<1>5. CASE Join(c)
  <2>1. /\ pc' = [pc EXCEPT ![c] = "idle"] /\ owed' = [owed EXCEPT ![c] = 0]
        /\ pc[c] = "join"
        /\ UNCHANGED <<state, stop, busy, sequence, receivedOwn, timeouts, asleep, dpc>>
    BY <1>5 DEF Join, Leave, Goto, busVars
  <2>2. sequence \in Nat
    BY DEF Kept
  <2>3. QED
    BY <2>1, <2>2 DEF Draining
<1>6. QED
  BY <1>1, <1>2, <1>3, <1>4, <1>5

LEMMA DrainingEndWait ==
  ASSUME Kept, HandledInOrder, Draining, NEW c \in Clients, EndWait(c),
         timeouts' \in 0..MaxTimeouts, timeouts <= timeouts',
         pc[c] = "wait", timeouts' = 0 => AllHandled \/ stop
  PROVE  /\ Draining'
         /\ timeouts' = 0 => receivedOwn >= owed[c]
<1>1. /\ sequence \in Nat /\ owed[c] <= sequence /\ owed[c] \in Nat
      /\ timeouts \in Nat /\ receivedOwn \in Nat
  BY TopicBusAssumption DEF Kept, Draining, HandledInOrder
<1>2. timeouts' = 0 => receivedOwn >= sequence
  BY <1>1 DEF Draining, AllHandled
<1>3. asleep' = asleep \ {c} /\ UNCHANGED <<busy, sequence, receivedOwn, dpc>>
  BY DEF EndWait
<1>4. CASE state = "Running"
  <2>1. /\ pc' = [pc EXCEPT ![c] = "idle"] /\ owed' = [owed EXCEPT ![c] = 0]
        /\ UNCHANGED <<state, stop>>
    BY <1>4 DEF EndWait, Leave, Goto
  <2>2. ~stop
    BY <1>4 DEF Draining
  <2>3. Draining'
    BY <1>1, <1>3, <2>1, <2>2 DEF Draining
  <2>4. QED
    BY <1>1, <1>2, <2>3
<1>5. CASE state # "Running"
  <2>1. /\ pc' = [pc EXCEPT ![c] = "join"] /\ owed' = owed
        /\ stop' = TRUE /\ state' = "Stopped"
    BY <1>5 DEF EndWait, Goto
  <2>2. Draining'
    BY <1>1, <1>2, <1>3, <2>1 DEF Draining, States
  <2>3. QED
    BY <1>1, <1>2, <2>2
<1>6. QED
  BY <1>4, <1>5

LEMMA DrainingWaits ==
  ASSUME Kept, HandledInOrder, Draining, NEW c \in Clients, WaitReturns(c) \/ WaitTimesOut(c)
  PROVE  /\ Draining'
         /\ timeouts' = 0 => receivedOwn >= owed[c]
         /\ pc[c] = "wait"
<1>1. /\ EndWait(c) /\ pc[c] = "wait"
      /\ timeouts' \in 0..MaxTimeouts /\ timeouts <= timeouts'
      /\ timeouts' = 0 => AllHandled \/ stop
  <2>1. timeouts \in 0..MaxTimeouts /\ MaxTimeouts \in Nat
    BY TopicBusAssumption DEF Draining
  <2>2. CASE WaitReturns(c)
    BY <2>1, <2>2 DEF WaitReturns
  <2>3. CASE WaitTimesOut(c)
    <3>1. pc[c] = "wait" /\ EndWait(c)
      BY <2>3 DEF WaitTimesOut, Draining
    <3>2. \/ (AllHandled \/ stop) /\ timeouts' = timeouts
          \/ timeouts < MaxTimeouts /\ timeouts' = timeouts + 1
      BY <2>3 DEF WaitTimesOut
    <3>3. QED
      BY <2>1, <3>1, <3>2
  <2>4. QED
    BY <2>2, <2>3
<1>2. QED
  BY <1>1, DrainingEndWait

LEMMA DrainingDelivery ==
  ASSUME Kept, Reading, HandledInOrder, Draining, BeginDelivery \/ EndDelivery
  PROVE  Draining'
<1>1. CASE BeginDelivery
  BY <1>1 DEF Draining, BeginDelivery, historyVars
<1>2. CASE EndDelivery
  <2>1. /\ UNCHANGED <<state, stop, sequence, timeouts, pc, asleep, owed>>
        /\ busy' = FALSE /\ dpc' = "notify"
        /\ receivedOwn' = receivedOwn \/ receivedOwn' = receivedOwn + 1
    BY <1>2 DEF EndDelivery
  <2>2. receivedOwn \in Nat /\ sequence \in Nat
    BY DEF HandledInOrder, Kept
  <2>3. receivedOwn >= sequence => receivedOwn' >= sequence
    BY <2>1, <2>2
  <2>4. QED
    BY <2>1, <2>3 DEF Draining
<1>3. QED
  BY <1>1, <1>2

LEMMA DrainingNotify ==
  ASSUME Draining, NotifyIdle
  PROVE  Draining'
BY DEF Draining, NotifyIdle, busVars, historyVars

LEMMA DrainingSteps ==
  ASSUME Kept, Reading, HandledInOrder, Draining, [Next]_vars
  PROVE  Draining'
<1>1. CASE Publishes /\ ((\E c \in Clients : ClientPublish(c)) \/ HandlerPublish)
  BY <1>1, DrainingPublish
<1>2. CASE \E c \in Clients : Start(c) \/ RequestShutdown(c) \/ DrainCall(c) \/ WaitSleeps(c)
                              \/ Join(c)
  BY <1>2, DrainingOwner
<1>3. CASE \E c \in Clients : WaitReturns(c) \/ WaitTimesOut(c)
  BY <1>3, DrainingWaits
<1>4. CASE BeginDelivery \/ EndDelivery
  BY <1>4, DrainingDelivery
<1>5. CASE NotifyIdle
  BY <1>5, DrainingNotify
<1>6. CASE \/ BrokerAcknowledges \/ DeliveryFails \/ OthersWrite
           \/ TestStop \/ PollNothing \/ PollMessage \/ SkipUndecodable \/ UNCHANGED vars
  <2>1. UNCHANGED <<state, stop, busy, sequence, receivedOwn, timeouts, pc, asleep, owed>>
    BY <1>6 DEF BrokerAcknowledges, DeliveryFails, OthersWrite, TestStop, PollNothing,
                PollMessage, SkipUndecodable, vars, busVars, historyVars
  <2>2. dpc' = "handler" <=> dpc = "handler"
    BY <1>6 DEF BrokerAcknowledges, DeliveryFails, OthersWrite, TestStop, PollNothing,
                PollMessage, SkipUndecodable, vars, busVars, historyVars
  <2>3. QED
    BY <2>1, <2>2, DrainingUnchanged
<1>7. QED
  BY <1>1, <1>2, <1>3, <1>4, <1>5, <1>6, StepKinds DEF Others, Continue, Dispatch

-----------------------------------------------------------------------------
(* The invariant.                                                          *)

LEMMA BusInit == Init => BusInv
<1> SUFFICES ASSUME Init PROVE BusInv
  OBVIOUS
<1>1. /\ log = <<>> /\ inFlight = <<>> /\ published = <<>> /\ handled = <<>> /\ from = 0
      /\ read = {} /\ kind \in {"memory", "kafka"}
      /\ Len(log) = 0 /\ Len(inFlight) = 0 /\ Len(published) = 0 /\ Len(handled) = 0
  BY DEF Init, TransportInit
<1>2. Kept
  BY <1>1 DEF Init, Kept
<1>3. InTransit
  BY <1>1 DEF InTransit
<1>4. Reading
  BY <1>1 DEF Init, Reading, NothingMissed
<1>5. HandledInOrder
  BY <1>1 DEF Init, HandledInOrder, ReadBackAsPublished, OrderPerSymbol
<1>6. Draining
  <2>1. pc = [c \in Clients |-> "idle"] /\ owed = [c \in Clients |-> 0] /\ asleep = {}
    BY DEF Init
  <2>2. /\ pc \in [Clients -> {"idle", "wait", "join"}] /\ owed \in [Clients -> Nat]
        /\ \A c \in Clients : pc[c] = "idle" /\ owed[c] = 0
    BY <2>1
  <2>3. /\ state = "NotStarted" /\ stop = FALSE /\ busy = FALSE /\ dpc = "none"
        /\ sequence = 0 /\ timeouts = 0
        /\ MaxSent \in Nat /\ MaxTimeouts \in Nat
    BY TopicBusAssumption DEF Init
  <2>4. /\ busy <=> dpc = "handler"
        /\ stop \in BOOLEAN /\ busy \in BOOLEAN /\ ~stop
    BY <2>3
  <2>5. /\ asleep \subseteq Clients /\ \A c \in asleep : pc[c] = "wait"
        /\ \A c \in Clients : owed[c] <= sequence
        /\ \A c \in Clients : pc[c] # "join"
    BY <2>1, <2>2, <2>3
  <2>6. sequence \in 0..MaxSent /\ timeouts \in 0..MaxTimeouts /\ state \in States
    BY <2>3 DEF States
  <2>7. QED
    BY <2>2, <2>4, <2>5, <2>6 DEF Draining
<1>7. QED
  BY <1>2, <1>3, <1>4, <1>5, <1>6 DEF BusInv

LEMMA BusStep == BusInv /\ [Next]_vars => BusInv'
BY TransitSteps, ReadingSteps, HandledSteps, DrainingSteps DEF BusInv

LEMMA BusInvHolds == Spec => []BusInv
<1>1. BusInv /\ [Next]_vars => BusInv'
  BY BusStep
<1>2. QED
  BY <1>1, BusInit, PTL DEF Spec

(* Each own event is handled once, so no more than were sent.              *)
LEMMA NoMoreThanSent ==
  ASSUME Kept, HandledInOrder
  PROVE  Len(handled) \in Nat /\ Len(handled) <= sequence
<1>01. PICK n : n = Len(handled)
  OBVIOUS
<1>02. PICK k : k = sequence
  OBVIOUS
<1>03. PICK number : number = [i \in 1..n |-> handled[i].sequence]
  OBVIOUS
<1>1. n \in Nat /\ k \in Nat /\ 1 \in Int
  BY <1>01, <1>02 DEF HandledInOrder, Kept
<1>2. \A i \in 1..n : handled[i].sequence \in 1..k
  BY <1>01, <1>02 DEF HandledInOrder
<1>3. number \in [1..n -> 1..k] /\ \A i \in 1..n : number[i] = handled[i].sequence
  BY <1>03, <1>2
<1>4. \A i, j \in 1..n : number[i] = number[j] => i = j
  BY <1>01, <1>3 DEF HandledInOrder, ReadBackAsPublished
<1>5. number \in Injection(1..n, 1..k)
  BY <1>3, <1>4 DEF Injection, IsInjective
<1>6. IsFiniteSet(1..k) /\ Cardinality(1..n) = n /\ Cardinality(1..k) = k
  <2>1. /\ IsFiniteSet(1..k) /\ Cardinality(1..k) = (IF 1 > k THEN 0 ELSE k - 1 + 1)
        /\ Cardinality(1..n) = (IF 1 > n THEN 0 ELSE n - 1 + 1)
    <3>1. n \in Int /\ k \in Int
      BY <1>1
    <3>2. QED
      BY <1>1, <3>1, FS_Interval, Zenon
  <2>2. QED
    BY <1>1, <2>1
<1>7. Cardinality(1..n) <= Cardinality(1..k)
  BY <1>5, <1>6, FS_Injection, Zenon
<1>8. QED
  BY <1>01, <1>02, <1>1, <1>6, <1>7

(* What a handler is given is whole, and what comes back of this bus's own *)
(* events is what it published, each at most once, whatever is lost and    *)
(* whatever other processes write.                                         *)
THEOREM EventsComeBackWhole == Spec => []ReadBackWhole
<1>1. ASSUME BusInv PROVE ReadBackWhole
  <2> USE <1>1 DEF BusInv
  <2>1. TypeOK
    <3>1. Len(handled) \in Nat /\ Len(handled) <= sequence /\ sequence \in Nat
      BY NoMoreThanSent DEF Kept
    <3>2. receivedOwn \in 0..sequence
      BY <3>1 DEF HandledInOrder
    <3>3. read \subseteq 1..Len(log) /\ polled \in 0..Len(log)
      BY ReadPlaces
    <3>4. QED
      BY <3>2, <3>3 DEF TypeOK, Draining, Reading
  <2>2. HandlersSeeWholeEvents
    <3>1. dpc = "handler" => Decodes(Text)
      BY DEF Reading
    <3>2. QED
      BY <3>1, WholeEvents DEF HandlersSeeWholeEvents
  <2>3. QED
    BY <2>1, <2>2 DEF ReadBackWhole, HandledInOrder
<1>2. QED
  BY <1>1, BusInvHolds, PTL

(* The events of one type and symbol are handled in the order they were    *)
(* published in, and none was sent before the bus had taken its place.     *)
THEOREM EventsReadInOrder == Spec => []ReadInOrder
<1>1. BusInv => ReadInOrder
  BY DEF BusInv, ReadInOrder, Reading, HandledInOrder
<1>2. QED
  BY <1>1, BusInvHolds, PTL

(* wait_until_drained() that returns without a timeout leaves nothing      *)
(* unhandled of what was sent before it was called; one that shuts the bus *)
(* down returns when no handler can run.                                   *)
THEOREM DrainsMeanHandled == Spec => DrainMeansHandled
<1>1. ASSUME BusInv, [Next]_vars
      PROVE  [\A c \in Clients :
                 pc[c] # "idle" /\ pc'[c] = "idle" =>
                    /\ timeouts' = 0 => Len(handled') >= owed[c]
                    /\ pc[c] = "join" => dpc' = "done"]_vars
  <2> USE <1>1 DEF BusInv
  <2>1. SUFFICES ASSUME NEW c \in Clients, pc[c] # "idle", pc'[c] = "idle"
                 PROVE  /\ timeouts' = 0 => Len(handled') >= owed[c]
                        /\ pc[c] = "join" => dpc' = "done"
    OBVIOUS
  <2>2. pc' # pc /\ pc \in [Clients -> {"idle", "wait", "join"}]
    BY <2>1 DEF Draining
  <2>3. \/ \E d \in Clients : DrainCall(d) \/ WaitReturns(d) \/ WaitTimesOut(d) \/ Join(d)
    BY <2>2, StepKinds
       DEF Publishes, Publish, BrokerAcknowledges, DeliveryFails, OthersWrite, Others, Start,
           RequestShutdown, Continue, WaitSleeps, Dispatch, TestStop, PollNothing, PollMessage,
           SkipUndecodable, BeginDelivery, EndDelivery, NotifyIdle, vars
  <2>4. PICK d \in Clients : DrainCall(d) \/ WaitReturns(d) \/ WaitTimesOut(d) \/ Join(d)
    BY <2>3
  <2>5. \E l \in {"idle", "wait", "join"} : pc' = [pc EXCEPT ![d] = l]
    BY <2>4 DEF DrainCall, WaitReturns, WaitTimesOut, Join, EndWait, Leave, Goto
  <2>6. d = c
    BY <2>1, <2>2, <2>5
  <2>7. handled' = handled /\ dpc' = dpc /\ Len(handled) = receivedOwn
    BY <2>4 DEF DrainCall, WaitReturns, WaitTimesOut, Join, EndWait, HandledInOrder
  <2>8. ~DrainCall(c)
    BY <2>1 DEF DrainCall
  <2>9. CASE WaitReturns(c) \/ WaitTimesOut(c)
    BY <2>7, <2>9, DrainingWaits
  <2>10. CASE Join(c)
    <3>1. pc[c] = "join" /\ dpc = "done" /\ timeouts' = timeouts
      BY <2>10 DEF Join, busVars
    <3>2. stop /\ owed[c] <= sequence /\ owed[c] \in Nat /\ sequence \in Nat
          /\ receivedOwn \in Nat
      BY <3>1 DEF Draining, Kept, HandledInOrder
    <3>3. timeouts = 0 => receivedOwn >= sequence
      BY <3>2 DEF Draining
    <3>4. QED
      BY <2>7, <3>1, <3>2, <3>3
  <2>11. QED
    BY <2>4, <2>6, <2>8, <2>9, <2>10
<1>2. QED
  BY <1>1, BusInvHolds, PTL DEF Spec, DrainMeansHandled
=============================================================================
