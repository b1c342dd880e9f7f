-------------------------- MODULE OrderFlowProofs --------------------------
(***************************************************************************)
(* What a configured run keeps true, whatever its bars, its strategies and *)
(* its limits, and on either bus where the property speaks of both.        *)
(***************************************************************************)
EXTENDS OrderFlow, PipelineProofs

-----------------------------------------------------------------------------
(* The queue after a step.                                                 *)

LEMMA WithoutIs ==
  ASSUME NEW E, NEW s \in Seq(E), NEW i \in 1..Len(s)
  PROVE  /\ Without(s, i) \in Seq(E) /\ Len(Without(s, i)) = Len(s) - 1
         /\ \A k \in 1..(Len(s) - 1) : Without(s, i)[k] = s[IF k < i THEN k ELSE k + 1]
<1>1. Len(s) - 1 \in Nat /\ \A k \in 1..(Len(s) - 1) : s[IF k < i THEN k ELSE k + 1] \in E
  OBVIOUS
<1>2. QED
  BY <1>1 DEF Without

(* The i-th event is gone (none when i is 0), the others keep their order, *)
(* and what of out is queued comes behind: on the InProcessEventBus all.   *)
Queued(i, out) ==
    /\ queue' \in Seq(Events)
    /\ \E src : /\ Sourced(queue, i, out, queue', src)
                /\ bus = "InProcess" => Complete(queue, i, out, queue', src)

LEMMA Sends ==
  ASSUME queue \in Seq(Events), NEW out \in Seq(Events), NEW i \in 0..Len(queue),
         NEW rest \in Seq(Events), Len(rest) = (IF i = 0 THEN Len(queue) ELSE Len(queue) - 1),
         \A k \in 1..Len(rest) : rest[k] = queue[IF i = 0 \/ k < i THEN k ELSE k + 1],
         Send(rest, out)
  PROVE  Queued(i, out)
<1>1. CASE queue' = rest \o out
  <2>1. 0 \in 0..Len(out)
    OBVIOUS
  <2>2. \A k \in 1..Len(out) : out[k] = out[IF 0 = 0 \/ k < 0 THEN k ELSE k + 1]
    OBVIOUS
  <2>3. /\ rest \o out \in Seq(Events)
        /\ \E src : /\ Sourced(queue, i, out, rest \o out, src)
                    /\ 0 = 0 => Complete(queue, i, out, rest \o out, src)
    BY <2>1, <2>2, SourcedBy
  <2>4. QED
    BY <1>1, <2>3 DEF Queued
<1>2. CASE bus = "Topic" /\ \E r \in 1..Len(out) : queue' = rest \o Without(out, r)
  <2>1. PICK r \in 1..Len(out) : queue' = rest \o Without(out, r)
    BY <1>2
  <2> DEFINE less == Without(out, r)
  <2>2. /\ less \in Seq(Events) /\ Len(less) = Len(out) - 1
        /\ \A k \in 1..(Len(out) - 1) : less[k] = out[IF k < r THEN k ELSE k + 1]
    BY WithoutIs
  <2>3. r \in 0..Len(out) /\ r # 0
    OBVIOUS
  <2> HIDE DEF less
  <2>4. /\ Len(less) = (IF r = 0 THEN Len(out) ELSE Len(out) - 1)
        /\ \A k \in 1..Len(less) : less[k] = out[IF r = 0 \/ k < r THEN k ELSE k + 1]
    BY <2>2, <2>3
  <2>5. /\ rest \o less \in Seq(Events)
        /\ \E src : /\ Sourced(queue, i, out, rest \o less, src)
                    /\ r = 0 => Complete(queue, i, out, rest \o less, src)
    BY <2>2, <2>3, <2>4, SourcedBy
  <2>6. queue' = rest \o less
    BY <2>1 DEF less
  <2>7. QED
    BY <1>2, <2>5, <2>6 DEF Queued
<1>3. QED
  BY <1>1, <1>2 DEF Send

LEMMA Delivers ==
  ASSUME queue \in Seq(Events), NEW out \in Seq(Events), NEW i \in 1..Len(queue),
         Send(Without(queue, i), out)
  PROVE  Queued(i, out)
<1>1. /\ Without(queue, i) \in Seq(Events) /\ Len(Without(queue, i)) = Len(queue) - 1
      /\ \A k \in 1..(Len(queue) - 1) : Without(queue, i)[k] = queue[IF k < i THEN k ELSE k + 1]
  BY WithoutIs
<1>2. i \in 0..Len(queue) /\ i # 0
  OBVIOUS
<1>3. /\ Len(Without(queue, i)) = (IF i = 0 THEN Len(queue) ELSE Len(queue) - 1)
      /\ \A k \in 1..Len(Without(queue, i)) :
            Without(queue, i)[k] = queue[IF i = 0 \/ k < i THEN k ELSE k + 1]
  BY <1>1, <1>2
<1>4. QED
  BY <1>1, <1>2, <1>3, Sends

LEMMA Publishes ==
  ASSUME queue \in Seq(Events), NEW out \in Seq(Events), Send(queue, out)
  PROVE  Queued(0, out)
<1>1. 0 \in 0..Len(queue) /\ \A k \in 1..Len(queue) : queue[k] = queue[IF 0 = 0 \/ k < 0 THEN k ELSE k + 1]
  OBVIOUS
<1>2. QED
  BY <1>1, Sends

-----------------------------------------------------------------------------
(* The steps, each with the event it takes, if any, and what it publishes. *)

FlowTypeOK == TypeOK /\ AccountTypeOK

TakesBar(i, fills, ideas, out) ==
    /\ i \in Deliverable /\ i \in 1..Len(queue) /\ queue[i] \in MarketEvents
    /\ fills \in FillChoices(queue[i])
    /\ ideas \in Seq(Ideas) /\ emitted + Len(ideas) <= MaxSignals
    /\ Execute(queue[i], fills) /\ HandleMarketData(queue[i], ideas)
    /\ out = Publications(queue[i], fills) \o SignalsFrom(ideas, queue[i])
    /\ Queued(i, out)
    /\ UNCHANGED <<fed, finished, bus>>

TakesSignal(i, out) ==
    /\ i \in Deliverable /\ i \in 1..Len(queue) /\ queue[i] \in Signals
    /\ HandleSignal(queue[i]) /\ out = OrdersFor(queue[i])
    /\ Queued(i, out)
    /\ UNCHANGED <<fed, finished, bus>>

TakesOrder(i) ==
    /\ i \in Deliverable /\ i \in 1..Len(queue) /\ queue[i] \in Orders
    /\ HandleOrder(queue[i])
    /\ Queued(i, <<>>)
    /\ UNCHANGED <<fed, finished, bus>>

TakesFill(i) ==
    /\ i \in Deliverable /\ i \in 1..Len(queue) /\ queue[i] \in Fills
    /\ HandleFill(queue[i])
    /\ Queued(i, <<>>)
    /\ UNCHANGED <<fed, finished, bus>>

SendsBar(bar) ==
    /\ bar \in MarketEvents /\ bar.time = clock /\ bar.open \in Prices /\ bar.price \in Prices
    /\ Queued(0, <<bar>>)
    /\ UNCHANGED <<portfolioVars, executionVars, riskVars, pipelineVars, finished, bus>>

(* The rest moves no event and touches no book.                            *)
MovesOn ==
    /\ clock' \in {clock, clock + 1} /\ clock' \in Nat
    /\ killSwitch' \in BOOLEAN /\ UNCHANGED <<referencePrices, sessionDay, sessionStart>>
    /\ UNCHANGED <<portfolioVars, executionVars, lastMarks, emitted, queue, bus>>

LEMMA SignalTypedFrom ==
  ASSUME NEW idea \in Ideas, NEW id \in Nat, NEW market \in MarketEvents
  PROVE  LET signal == SignalFrom(idea, id, market) IN
         /\ signal \in Signals /\ signal.type = "Signal" /\ signal.id = id
         /\ signal.symbol = idea.symbol /\ signal.side = idea.side
         /\ signal.order = idea.order /\ signal.limit = idea.limit
         /\ signal.quantity = idea.quantity /\ signal.decided = market.time
<1>1. IsIdea(idea)
  BY FlowAssumption DEF IsIdea
<1>2. QED
  BY <1>1, SignalSays

(* What a delivered bar makes the simulator and the strategies publish.    *)
BarNews(market, fills, ideas, out) ==
    /\ out \in Seq(Events)
    /\ \A k \in 1..Len(out) :
          \/ \E o \in Executes(market, fills) : IsNews(out[k], market, fills, o)
          \/ \E n \in 1..Len(ideas) :
                /\ ideas[n] \in Ideas /\ emitted + n \in Nat
                /\ out[k] = SignalFrom(ideas[n], emitted + n, market)
    /\ \A k, l \in 1..Len(out) :
          (out[k].type = "Fill" /\ out[l].type = "Fill" /\ out[k].order = out[l].order) => k = l
    /\ \A k, l \in 1..Len(out) :
          (out[k].type = "Signal" /\ out[l].type = "Signal" /\ out[k].id = out[l].id) => k = l
    /\ \A k, l \in 1..Len(out) :
          (out[k].type = "Fill" /\ out[l].type = "Fill" /\ out[k].id = out[l].id) => k = l
    /\ \A o \in Executes(market, fills) :
          \E k \in 1..Len(out) : IsFillOf(out[k], market, fills, o)

LEMMA NewsOfBar ==
  ASSUME FlowTypeOK, NEW market \in MarketEvents, NEW fills \in FillChoices(market),
         NEW ideas \in Seq(Ideas)
  PROVE  BarNews(market, fills, ideas, Publications(market, fills) \o SignalsFrom(ideas, market))
<1> DEFINE pub == Publications(market, fills)
           sig == SignalsFrom(ideas, market)
<1>1. ExecutionTypeOK /\ emitted \in Nat
  BY FlowAssumption DEF FlowTypeOK, AccountTypeOK, TypeOK
<1>2. /\ pub \in Seq(Events)
      /\ \A k \in 1..Len(pub) : \E o \in Executes(market, fills) : IsNews(pub[k], market, fills, o)
      /\ \A k, l \in 1..Len(pub) :
            (/\ pub[k].type = "Fill" /\ pub[l].type = "Fill"
             /\ pub[k].order = pub[l].order \/ pub[k].id = pub[l].id) => k = l
  BY <1>1, PublicationsAre
<1>3. /\ sig \in Seq(Events) /\ Len(sig) = Len(ideas)
      /\ \A n \in 1..Len(sig) : /\ ideas[n] \in Ideas /\ emitted + n \in Nat
                                /\ sig[n] = SignalFrom(ideas[n], emitted + n, market)
                                /\ sig[n].type = "Signal" /\ sig[n].id = emitted + n
  <2>1. \A n \in 1..Len(ideas) : ideas[n] \in Ideas /\ emitted + n \in Nat
    BY <1>1
  <2>2. \A n \in 1..Len(ideas) :
           /\ SignalFrom(ideas[n], emitted + n, market) \in Signals
           /\ SignalFrom(ideas[n], emitted + n, market).type = "Signal"
           /\ SignalFrom(ideas[n], emitted + n, market).id = emitted + n
    BY <2>1, SignalTypedFrom
  <2>3. sig = [n \in 1..Len(ideas) |-> SignalFrom(ideas[n], emitted + n, market)]
    BY DEF SignalsFrom
  <2>4. Len(ideas) \in Nat
    OBVIOUS
  <2> HIDE DEF sig
  <2>5. sig \in Seq(Signals) /\ Len(sig) = Len(ideas)
    BY <2>2, <2>3, <2>4
  <2>6. sig \in Seq(Events)
    BY <2>5 DEF Events
  <2>7. QED
    BY <2>1, <2>2, <2>3, <2>5, <2>6
<1> HIDE DEF pub, sig
<1>4. /\ pub \o sig \in Seq(Events) /\ Len(pub) \in Nat /\ Len(sig) \in Nat
      /\ Len(pub \o sig) = Len(pub) + Len(sig)
      /\ \A k \in 1..Len(pub \o sig) :
            (pub \o sig)[k] = IF k <= Len(pub) THEN pub[k] ELSE sig[k - Len(pub)]
  BY <1>2, <1>3, Concat
<1> DEFINE out == pub \o sig
<1> HIDE DEF out
<1>5. ASSUME NEW k \in 1..Len(out)
      PROVE  \/ k \in 1..Len(pub) /\ out[k] = pub[k]
             \/ k - Len(pub) \in 1..Len(sig) /\ out[k] = sig[k - Len(pub)]
  BY <1>4 DEF out
<1>6. \A k \in 1..Len(pub) : pub[k].type # "Signal"
  <2> SUFFICES ASSUME NEW k \in 1..Len(pub) PROVE pub[k].type # "Signal"
    OBVIOUS
  <2>1. PICK o \in Executes(market, fills) : IsNews(pub[k], market, fills, o)
    BY <1>2
  <2>2. Filling(market, fills, o)
    BY <1>1, Fillings
  <2>3. CASE pub[k] = Executed(working[o], fills[o])
    <3>1. working[o] \in Orders /\ fills[o] \in Nat
      BY <2>2 DEF Filling, Remaining, Orders
    <3>2. Executed(working[o], fills[o]).type = "Order"
      BY <3>1, ExecutedTyped
    <3>3. QED
      BY <2>3, <3>2
  <2>4. CASE IsFillOf(pub[k], market, fills, o)
    BY <1>1, <2>2, <2>4, FillSays
  <2>5. QED
    BY <2>1, <2>3, <2>4 DEF IsNews
<1>7. ASSUME NEW k \in 1..Len(out)
      PROVE  \/ \E o \in Executes(market, fills) : IsNews(out[k], market, fills, o)
             \/ \E n \in 1..Len(ideas) :
                   /\ ideas[n] \in Ideas /\ emitted + n \in Nat
                   /\ out[k] = SignalFrom(ideas[n], emitted + n, market)
  BY <1>2, <1>3, <1>5
<1>8. ASSUME NEW k \in 1..Len(out), NEW l \in 1..Len(out),
             out[k].type = "Fill", out[l].type = "Fill", out[k].order = out[l].order
      PROVE  k = l
  <2>1. k \in 1..Len(pub) /\ out[k] = pub[k] /\ l \in 1..Len(pub) /\ out[l] = pub[l]
    BY <1>3, <1>5, <1>8
  <2>2. QED
    BY <1>2, <1>8, <2>1
<1>9. ASSUME NEW k \in 1..Len(out), NEW l \in 1..Len(out),
             out[k].type = "Signal", out[l].type = "Signal", out[k].id = out[l].id
      PROVE  k = l
  <2>1. /\ k - Len(pub) \in 1..Len(sig) /\ out[k] = sig[k - Len(pub)]
        /\ l - Len(pub) \in 1..Len(sig) /\ out[l] = sig[l - Len(pub)]
    BY <1>5, <1>6, <1>9
  <2>2. emitted + (k - Len(pub)) = emitted + (l - Len(pub))
    BY <1>3, <1>9, <2>1
  <2>3. QED
    BY <1>1, <1>4, <2>2 DEF out
<1>10. ASSUME NEW k \in 1..Len(out), NEW l \in 1..Len(out),
              out[k].type = "Fill", out[l].type = "Fill", out[k].id = out[l].id
       PROVE  k = l
  <2>1. k \in 1..Len(pub) /\ out[k] = pub[k] /\ l \in 1..Len(pub) /\ out[l] = pub[l]
    BY <1>3, <1>5, <1>10
  <2>2. QED
    BY <1>2, <1>10, <2>1
<1>11. ASSUME NEW o \in Executes(market, fills)
       PROVE  \E k \in 1..Len(out) : IsFillOf(out[k], market, fills, o)
  <2>1. PICK k \in 1..Len(pub) : IsFillOf(pub[k], market, fills, o)
    BY <1>1, PublicationsAre DEF pub
  <2>2. k \in 1..Len(out) /\ out[k] = pub[k]
    BY <1>4 DEF out
  <2>3. QED
    BY <2>1, <2>2
<1>12. out \in Seq(Events)
  BY <1>4 DEF out
<1>13. BarNews(market, fills, ideas, out)
  BY <1>7, <1>8, <1>9, <1>10, <1>11, <1>12 DEF BarNews
<1>14. QED
  BY <1>13 DEF out, pub, sig

LEMMA Steps ==
  ASSUME FlowTypeOK, Next
  PROVE  \/ \E i, fills, ideas, out :
               TakesBar(i, fills, ideas, out) /\ BarNews(queue[i], fills, ideas, out)
         \/ \E i, out : TakesSignal(i, out)
         \/ \E i : TakesOrder(i)
         \/ \E i : TakesFill(i)
         \/ \E bar : SendsBar(bar)
         \/ MovesOn
<1>1. /\ queue \in Seq(Events) /\ emitted \in 0..MaxSignals /\ MaxSignals \in Nat /\ MaxEmitted \in Nat
      /\ clock \in Nat /\ MaxTime \in Nat
  BY FlowAssumption DEF FlowTypeOK, TypeOK
<1>2. <<>> \in Seq(Events)
  OBVIOUS
<1>3. ASSUME NEW i \in Deliverable, UNCHANGED bus, DeliverMarketData(i)
      PROVE  \E fills, ideas, out :
                TakesBar(i, fills, ideas, out) /\ BarNews(queue[i], fills, ideas, out)
  <2>1. i \in 1..Len(queue) /\ queue[i] \in MarketEvents
    BY <1>1, <1>3, EventKinds DEF Deliverable, DeliverMarketData
  <2>2. PICK fills \in FillChoices(queue[i]),
             ideas \in BoundedSeq(Ideas, Min({MaxEmitted, MaxSignals - emitted})) :
               /\ Execute(queue[i], fills) /\ HandleMarketData(queue[i], ideas)
               /\ Send(Without(queue, i), Publications(queue[i], fills) \o SignalsFrom(ideas, queue[i]))
    BY <1>3 DEF DeliverMarketData
  <2>3. ideas \in Seq(Ideas) /\ emitted + Len(ideas) <= MaxSignals
    <3>1. Min({MaxEmitted, MaxSignals - emitted}) \in {MaxEmitted, MaxSignals - emitted}
          /\ Min({MaxEmitted, MaxSignals - emitted}) <= MaxSignals - emitted
      <4>1. \A a, b \in Int : Min({a, b}) \in {a, b} /\ Min({a, b}) <= b
        BY DEF Min
      <4>2. MaxEmitted \in Int /\ MaxSignals - emitted \in Int
        BY <1>1
      <4>3. QED
        BY <4>1, <4>2
    <3>2. PICK m \in 0..Min({MaxEmitted, MaxSignals - emitted}) : ideas \in [1..m -> Ideas]
      BY DEF BoundedSeq, SeqOf
    <3>3. m \in Nat /\ m <= MaxSignals - emitted
      BY <1>1, <3>1
    <3>4. QED
      BY <1>1, <3>2, <3>3
  <2> DEFINE out == Publications(queue[i], fills) \o SignalsFrom(ideas, queue[i])
  <2>4. BarNews(queue[i], fills, ideas, out)
    BY <2>1, <2>3, NewsOfBar
  <2>5. out \in Seq(Events)
    BY <2>4 DEF BarNews
  <2> HIDE DEF out
  <2>6. Queued(i, out)
    BY <1>1, <2>1, <2>2, <2>5, Delivers DEF out
  <2>7. TakesBar(i, fills, ideas, out)
    BY <1>3, <2>1, <2>2, <2>3, <2>6 DEF TakesBar, DeliverMarketData, out
  <2>8. QED
    BY <2>4, <2>7
<1>4. ASSUME NEW i \in Deliverable, UNCHANGED bus, DeliverSignal(i)
      PROVE  \E out : TakesSignal(i, out)
  <2>1. i \in 1..Len(queue) /\ queue[i] \in Signals
    BY <1>1, <1>4, EventKinds DEF Deliverable, DeliverSignal
  <2>2. OrdersFor(queue[i]) \in Seq(Events)
    <3>1. Resized(queue[i]) \in Signals
      BY <2>1, ResizedTyped
    <3>2. NewOrder(Resized(queue[i]), clock) \in Orders
      BY <1>1, <3>1, NewOrderTyped DEF FlowTypeOK, AccountTypeOK
    <3> DEFINE order == NewOrder(Resized(queue[i]), clock)
    <3>3. <<order>> \in Seq(Events)
      BY <3>2 DEF Events
    <3>4. OrdersFor(queue[i]) = IF Approves(queue[i]) THEN <<order>> ELSE <<>>
      BY DEF OrdersFor
    <3> HIDE DEF order
    <3>5. QED
      BY <1>2, <3>3, <3>4
  <2>3. Queued(i, OrdersFor(queue[i]))
    BY <1>1, <1>4, <2>1, <2>2, Delivers DEF DeliverSignal
  <2>4. QED
    BY <1>4, <2>1, <2>3 DEF TakesSignal, DeliverSignal
<1>5. ASSUME NEW i \in Deliverable, UNCHANGED bus, DeliverOrder(i)
      PROVE  TakesOrder(i)
  <2>1. i \in 1..Len(queue) /\ queue[i] \in Orders
    BY <1>1, <1>5, EventKinds DEF Deliverable, DeliverOrder
  <2>2. Queued(i, <<>>)
    BY <1>1, <1>2, <1>5, <2>1, Delivers DEF DeliverOrder
  <2>3. QED
    BY <1>5, <2>1, <2>2 DEF TakesOrder, DeliverOrder
<1>6. ASSUME NEW i \in Deliverable, UNCHANGED bus, DeliverFill(i)
      PROVE  TakesFill(i)
  <2>1. i \in 1..Len(queue) /\ queue[i] \in Fills
    BY <1>1, <1>6, EventKinds DEF Deliverable, DeliverFill
  <2>2. Queued(i, <<>>)
    BY <1>1, <1>2, <1>6, <2>1, Delivers DEF DeliverFill
  <2>3. QED
    BY <1>6, <2>1, <2>2 DEF TakesFill, DeliverFill
<1>7. ASSUME NEW s \in Symbols, UNCHANGED bus, PublishBar(s)
      PROVE  \E bar : SendsBar(bar)
  <2>1. PICK open \in Prices, price \in Prices :
           Send(queue, <<[type |-> "MarketData", symbol |-> s, time |-> clock,
                          open |-> open, price |-> price]>>)
    BY <1>7 DEF PublishBar
  <2> DEFINE bar == [type |-> "MarketData", symbol |-> s, time |-> clock,
                     open |-> open, price |-> price]
  <2>2. /\ bar \in MarketEvents /\ bar.time = clock /\ bar.open \in Prices /\ bar.price \in Prices
    BY <1>1, FlowAssumption DEF MarketEvents
  <2> HIDE DEF bar
  <2>3. <<bar>> \in Seq(Events)
    BY <2>2 DEF Events
  <2>4. Queued(0, <<bar>>)
    BY <1>1, <2>1, <2>3, Publishes DEF bar
  <2>5. SendsBar(bar)
    BY <1>7, <2>2, <2>4 DEF SendsBar, PublishBar, pipelineVars
  <2>6. QED
    BY <2>5
<1>8. ASSUME NextTime \/ Finish \/ Control, UNCHANGED bus
      PROVE  MovesOn
  <2>1. killSwitch \in BOOLEAN
    BY DEF FlowTypeOK, AccountTypeOK, RiskTypeOK
  <2>2. QED
    BY <1>1, <1>8, <2>1 DEF MovesOn, NextTime, Finish, Control, SetKillSwitch, flowVars,
       pipelineVars, riskVars
<1>9. CASE Dispatch
  BY <1>3, <1>4, <1>5, <1>6, <1>9 DEF Dispatch
<1>10. CASE Replay
  BY <1>7, <1>8, <1>10 DEF Replay
<1>11. CASE Control
  BY <1>8, <1>11 DEF Control, flowVars
<1>12. QED
  BY <1>9, <1>10, <1>11 DEF Next

-----------------------------------------------------------------------------
(* Types.                                                                  *)

(* The event a step takes out of the queue is of a type of its own.        *)
LEMMA FlowTypeStep ==
  ASSUME FlowTypeOK, [Next]_vars
  PROVE  FlowTypeOK'
<1>1. /\ clock \in Nat /\ emitted \in Nat /\ lastMarks = lastMarks
      /\ DOMAIN lastMarks \subseteq Symbols /\ AccountTypeOK
      /\ \A s \in DOMAIN lastMarks : lastMarks[s] \in MarketEvents
  BY FlowAssumption DEF FlowTypeOK, TypeOK
<1>2. ASSUME Next
      PROVE  /\ fed' \subseteq Symbols /\ clock' \in 1..MaxTime /\ faults' \in 0..MaxFaults
             /\ finished' \in BOOLEAN /\ bus' \in Buses
  <2>1. /\ fed \subseteq Symbols /\ clock \in 1..MaxTime /\ faults \in 0..MaxFaults
        /\ finished \in BOOLEAN /\ bus \in Buses /\ MaxTime \in Nat /\ MaxFaults \in Nat
    BY FlowAssumption DEF FlowTypeOK, TypeOK
  <2>2. \A rest, out : Send(rest, out) => faults' \in 0..MaxFaults
    BY <2>1 DEF Send
  <2>3. CASE Dispatch
    <3>1. PICK i \in Deliverable :
             DeliverMarketData(i) \/ DeliverSignal(i) \/ DeliverOrder(i) \/ DeliverFill(i)
      BY <2>3 DEF Dispatch
    <3>2. clock' = clock
      BY <3>1 DEF DeliverMarketData, DeliverSignal, DeliverOrder, DeliverFill,
                  HandleMarketData, HandleSignal, HandleOrder, HandleFill, pipelineVars
    <3>3. UNCHANGED <<fed, finished, bus>> /\ faults' \in 0..MaxFaults
      BY <2>2, <2>3, <3>1 DEF Dispatch, DeliverMarketData, DeliverSignal, DeliverOrder, DeliverFill
    <3>4. QED
      BY <2>1, <3>2, <3>3
  <2>4. CASE Replay
    <3>1. CASE \E s \in Symbols : PublishBar(s)
      BY <2>1, <2>2, <2>4, <3>1 DEF Replay, PublishBar
    <3>2. CASE NextTime
      BY <2>1, <2>4, <3>2 DEF Replay, NextTime, Drained
    <3>3. CASE Finish
      <4>1. finished' \in BOOLEAN
        BY <3>3, Zenon DEF Finish
      <4>2. QED
        BY <2>1, <2>4, <3>3, <4>1 DEF Replay, Finish, Drained
    <3>4. QED
      BY <2>4, <3>1, <3>2, <3>3 DEF Replay
  <2>5. CASE Control
    BY <2>1, <2>5 DEF Control, flowVars, pipelineVars
  <2>6. QED
    BY <1>2, <2>3, <2>4, <2>5 DEF Next
<1>3. ASSUME NEW i, NEW fills, NEW ideas, NEW out, TakesBar(i, fills, ideas, out)
      PROVE  /\ AccountTypeOK' /\ queue' \in Seq(Events) /\ DOMAIN lastMarks' \subseteq Symbols
             /\ \A s \in DOMAIN lastMarks' : lastMarks'[s] \in MarketEvents
             /\ emitted' \in 0..MaxSignals
  <2>1. /\ queue[i] \in MarketEvents /\ fills \in FillChoices(queue[i])
        /\ Execute(queue[i], fills) /\ HandleMarketData(queue[i], ideas)
        /\ ideas \in Seq(Ideas) /\ emitted + Len(ideas) <= MaxSignals
    BY <1>3 DEF TakesBar
  <2>2. AccountTypeOK'
    BY <1>1, <2>1, MarketDataTyped
  <2>3. queue' \in Seq(Events)
    BY <1>3 DEF TakesBar, Queued
  <2>4. lastMarks' = Put(lastMarks, queue[i].symbol, queue[i]) /\ emitted' = emitted + Len(ideas)
    BY <2>1 DEF HandleMarketData
  <2>5. queue[i].symbol \in Symbols
    BY <2>1 DEF MarketEvents
  <2>6. /\ DOMAIN lastMarks' \subseteq Symbols
        /\ \A s \in DOMAIN lastMarks' : lastMarks'[s] \in MarketEvents
    BY <1>1, <2>1, <2>4, <2>5 DEF Put
  <2>7. emitted' \in 0..MaxSignals
    BY <1>1, <2>1, <2>4, FlowAssumption
  <2>8. QED
    BY <2>2, <2>3, <2>6, <2>7
<1>4. ASSUME NEW i, NEW out, TakesSignal(i, out)
      PROVE  AccountTypeOK' /\ queue' \in Seq(Events) /\ UNCHANGED <<lastMarks, emitted>>
  BY <1>1, <1>4, SignalTyped DEF TakesSignal, Queued, HandleSignal, pipelineVars
<1>5. ASSUME NEW i, TakesOrder(i)
      PROVE  AccountTypeOK' /\ queue' \in Seq(Events) /\ UNCHANGED <<lastMarks, emitted>>
  BY <1>1, <1>5, OrderTyped DEF TakesOrder, Queued, HandleOrder, pipelineVars
<1>6. ASSUME NEW i, TakesFill(i)
      PROVE  AccountTypeOK' /\ queue' \in Seq(Events) /\ UNCHANGED <<lastMarks, emitted>>
  BY <1>1, <1>6, FillHandledTyped DEF TakesFill, Queued, HandleFill, pipelineVars
<1>7. ASSUME NEW bar, SendsBar(bar)
      PROVE  AccountTypeOK' /\ queue' \in Seq(Events) /\ UNCHANGED <<lastMarks, emitted>>
  <2>1. UNCHANGED <<portfolioVars, executionVars, riskVars, lastMarks, emitted>>
    BY <1>7 DEF SendsBar, pipelineVars
  <2>2. QED
    BY <1>1, <1>7, <2>1 DEF SendsBar, Queued, AccountTypeOK, portfolioVars, executionVars, riskVars,
       PortfolioTypeOK, ExecutionTypeOK, RiskTypeOK
<1>8. ASSUME MovesOn
      PROVE  AccountTypeOK' /\ queue' \in Seq(Events) /\ UNCHANGED <<lastMarks, emitted>>
  <2>1. UNCHANGED <<portfolioVars, executionVars, queue, lastMarks, emitted>>
    BY <1>8 DEF MovesOn
  <2>2. PortfolioTypeOK' /\ ExecutionTypeOK' /\ queue' \in Seq(Events)
    BY <1>1, <2>1 DEF FlowTypeOK, TypeOK, AccountTypeOK, portfolioVars, executionVars,
       PortfolioTypeOK, ExecutionTypeOK
  <2>3. /\ IsFiniteSet(DOMAIN holds') /\ IsFiniteSet(DOMAIN openOrders')
        /\ IsFiniteSet(appliedFills')
    BY <1>1, <2>1 DEF AccountTypeOK, portfolioVars
  <2>4. RiskTypeOK'
    BY <1>1, <1>8 DEF MovesOn, AccountTypeOK, RiskTypeOK
  <2>5. QED
    BY <2>1, <2>2, <2>3, <2>4 DEF AccountTypeOK
<1>9. ASSUME Next
      PROVE  /\ AccountTypeOK' /\ queue' \in Seq(Events) /\ DOMAIN lastMarks' \subseteq Symbols
             /\ \A s \in DOMAIN lastMarks' : lastMarks'[s] \in MarketEvents
             /\ emitted' \in 0..MaxSignals
  <2>1. emitted \in 0..MaxSignals
    BY DEF FlowTypeOK, TypeOK
  <2>2. CASE \E i, fills, ideas, out : TakesBar(i, fills, ideas, out)
    BY <1>3, <2>2
  <2>3. CASE AccountTypeOK' /\ queue' \in Seq(Events) /\ UNCHANGED <<lastMarks, emitted>>
    BY <1>1, <2>1, <2>3
  <2>4. QED
    BY <1>4, <1>5, <1>6, <1>7, <1>8, <1>9, <2>2, <2>3, Steps
<1>10. CASE Next
  BY <1>2, <1>9, <1>10 DEF FlowTypeOK, TypeOK, AccountTypeOK
<1>11. CASE UNCHANGED vars
  BY <1>11 DEF FlowTypeOK, TypeOK, AccountTypeOK, vars, flowVars, pipelineVars, portfolioVars,
     executionVars, riskVars, PortfolioTypeOK, ExecutionTypeOK, RiskTypeOK
<1>12. QED
  BY <1>10, <1>11

LEMMA FlowTypeInit ==
  ASSUME Init
  PROVE  FlowTypeOK
<1>1. DOMAIN <<>> = {} /\ IsFiniteSet({})
  BY FS_EmptySet
<1>2. PortfolioTypeOK /\ IsFiniteSet(DOMAIN holds) /\ IsFiniteSet(DOMAIN openOrders)
      /\ IsFiniteSet(appliedFills)
  BY <1>1, PortfolioAssumption DEF Init, PortfolioInit, PortfolioTypeOK
<1>3. ExecutionTypeOK
  BY <1>1 DEF Init, ExecutionInit, ExecutionTypeOK
<1>4. RiskTypeOK
  <2>1. sessionDay \in Int /\ sessionStart \in Int \cup {None}
    BY DEF Init, RiskInit
  <2>2. killSwitch \in BOOLEAN /\ referencePrices = <<>>
    BY Zenon DEF Init, RiskInit
  <2>3. QED
    BY <1>1, <2>1, <2>2 DEF RiskTypeOK
<1>5. queue \in Seq(Events) /\ clock \in 1..MaxTime /\ emitted \in 0..MaxSignals
      /\ faults \in 0..MaxFaults
  BY FlowAssumption DEF Init
<1>6. QED
  BY <1>1, <1>2, <1>3, <1>4, <1>5 DEF Init, FlowTypeOK, TypeOK, AccountTypeOK

(* The portfolio's, the simulator's, the risk manager's and the run's own  *)
(* state keep their types, and the portfolio's books stay finite.          *)
THEOREM FlowTypesHold == Spec => []FlowTypeOK
<1>1. Init => FlowTypeOK
  BY FlowTypeInit
<1>2. FlowTypeOK /\ [Next]_vars => FlowTypeOK'
  BY FlowTypeStep
<1>3. QED
  BY <1>1, <1>2, PTL DEF Spec

-----------------------------------------------------------------------------
(* Where the events of the queue come from.                                *)

LEMMA Comes ==
  ASSUME queue \in Seq(Events), NEW out \in Seq(Events), NEW i, Queued(i, out),
         NEW k \in 1..Len(queue')
  PROVE  \/ \E j \in 1..Len(queue) : j # i /\ queue'[k] = queue[j]
         \/ \E m \in 1..Len(out) : queue'[k] = out[m]
<1>1. PICK src : Sourced(queue, i, out, queue', src)
  BY DEF Queued
<1>2. src[k] \in 1..(Len(queue) + Len(out)) /\ src[k] # i
      /\ queue'[k] = IF src[k] <= Len(queue) THEN queue[src[k]] ELSE out[src[k] - Len(queue)]
  BY <1>1 DEF Sourced
<1>3. Len(queue) \in Nat /\ Len(out) \in Nat
  OBVIOUS
<1>4. CASE src[k] <= Len(queue)
  BY <1>2, <1>3, <1>4
<1>5. CASE ~(src[k] <= Len(queue))
  <2>1. src[k] - Len(queue) \in 1..Len(out)
    BY <1>2, <1>3, <1>5
  <2>2. QED
    BY <1>2, <1>5, <2>1
<1>6. QED
  BY <1>4, <1>5

CameInOrder(d, e, i, out) ==
    \/ \E j, h \in 1..Len(queue) : j < h /\ j # i /\ h # i /\ d = queue[j] /\ e = queue[h]
    \/ \E j \in 1..Len(queue), m \in 1..Len(out) : j # i /\ d = queue[j] /\ e = out[m]
    \/ \E m, n \in 1..Len(out) : m < n /\ d = out[m] /\ e = out[n]

LEMMA ComeInOrder ==
  ASSUME queue \in Seq(Events), NEW out \in Seq(Events), NEW i, Queued(i, out),
         NEW k \in 1..Len(queue'), NEW l \in 1..Len(queue'), k < l
  PROVE  CameInOrder(queue'[k], queue'[l], i, out)
<1>1. PICK src : Sourced(queue, i, out, queue', src)
  BY DEF Queued
<1>2. /\ src[k] \in 1..(Len(queue) + Len(out)) /\ src[k] # i
      /\ queue'[k] = IF src[k] <= Len(queue) THEN queue[src[k]] ELSE out[src[k] - Len(queue)]
  BY <1>1 DEF Sourced
<1>3. /\ src[l] \in 1..(Len(queue) + Len(out)) /\ src[l] # i
      /\ queue'[l] = IF src[l] <= Len(queue) THEN queue[src[l]] ELSE out[src[l] - Len(queue)]
  BY <1>1 DEF Sourced
<1>4. src[k] < src[l]
  BY <1>1 DEF Sourced
<1>5. Len(queue) \in Nat /\ Len(out) \in Nat
  OBVIOUS
<1>6. CASE src[l] <= Len(queue)
  <2>1. src[k] \in 1..Len(queue) /\ src[l] \in 1..Len(queue)
    BY <1>2, <1>3, <1>4, <1>5, <1>6
  <2>2. QED
    BY <1>2, <1>3, <1>4, <1>6, <2>1 DEF CameInOrder
<1>7. CASE src[k] <= Len(queue) /\ ~(src[l] <= Len(queue))
  <2>1. src[l] - Len(queue) \in 1..Len(out) /\ src[k] \in 1..Len(queue)
    BY <1>2, <1>3, <1>5, <1>7
  <2>2. QED
    BY <1>2, <1>3, <1>7, <2>1 DEF CameInOrder
<1>8. CASE ~(src[k] <= Len(queue)) /\ ~(src[l] <= Len(queue))
  <2>0. \A x, y, n, m \in Int :
           (x \in 1..(n + m) /\ y \in 1..(n + m) /\ x < y /\ ~(x <= n) /\ ~(y <= n)) =>
              y - n \in 1..m /\ x - n \in 1..m /\ x - n < y - n
    OBVIOUS
  <2>1. /\ src[l] - Len(queue) \in 1..Len(out) /\ src[k] - Len(queue) \in 1..Len(out)
        /\ src[k] - Len(queue) < src[l] - Len(queue)
    <3>1. src[k] \in Int /\ src[l] \in Int /\ Len(queue) \in Int /\ Len(out) \in Int
      BY <1>2, <1>3, <1>5
    <3>2. QED
      BY <1>2, <1>3, <1>4, <1>8, <2>0, <3>1
  <2>2. QED
    BY <1>2, <1>3, <1>8, <2>1 DEF CameInOrder
<1>9. QED
  BY <1>2, <1>3, <1>4, <1>5, <1>6, <1>7, <1>8

-----------------------------------------------------------------------------
(* No look-ahead.                                                          *)

(* Nothing is known before its time: an order is older than the fills it   *)
(* gets, and its strategy decided no later than it was made.               *)
TimelyEvent(e) ==
    /\ e.type = "MarketData" => e.time <= clock
    /\ e.type = "Signal" => e.decided <= clock
    /\ e.type = "Fill" => e.time > e.decided

Timely ==
    /\ \A k \in 1..Len(queue) : TimelyEvent(queue[k])
    /\ \A o \in DOMAIN working : working[o].decided <= working[o].created
    /\ \A s \in DOMAIN lastMarks : lastMarks[s].time <= clock

LEMMA TimelyStep ==
  ASSUME FlowTypeOK, Timely, [Next]_vars
  PROVE  Timely'
<1>1. /\ queue \in Seq(Events) /\ clock \in Nat /\ ExecutionTypeOK
  BY FlowAssumption DEF FlowTypeOK, TypeOK
<1>2. ASSUME NEW i, NEW fills, NEW ideas, NEW out,
             TakesBar(i, fills, ideas, out), BarNews(queue[i], fills, ideas, out)
      PROVE  Timely'
  <2>1. /\ i \in 1..Len(queue) /\ queue[i] \in MarketEvents /\ fills \in FillChoices(queue[i])
        /\ Execute(queue[i], fills) /\ HandleMarketData(queue[i], ideas) /\ Queued(i, out)
    BY <1>2 DEF TakesBar
  <2>2. /\ clock' = clock /\ lastMarks' = Put(lastMarks, queue[i].symbol, queue[i])
        /\ queue[i].time <= clock
    BY <2>1 DEF HandleMarketData, Timely, TimelyEvent, MarketEvents
  <2>3. ASSUME NEW m \in 1..Len(out)
        PROVE  TimelyEvent(out[m])
    <3>1. CASE \E o \in Executes(queue[i], fills) : IsNews(out[m], queue[i], fills, o)
      <4>1. PICK o \in Executes(queue[i], fills) : IsNews(out[m], queue[i], fills, o)
        BY <3>1
      <4>2. Filling(queue[i], fills, o)
        BY <1>1, <2>1, Fillings
      <4>3. CASE out[m] = Executed(working[o], fills[o])
        <5>1. working[o] \in Orders /\ fills[o] \in Nat
          BY <4>2 DEF Filling, Remaining, Orders
        <5>2. Executed(working[o], fills[o]).type = "Order"
          BY <5>1, ExecutedTyped
        <5>3. QED
          BY <4>3, <5>2 DEF TimelyEvent
      <4>4. CASE IsFillOf(out[m], queue[i], fills, o)
        <5>1. /\ out[m].type = "Fill" /\ out[m].time = queue[i].time
              /\ out[m].decided = working[o].decided
          BY <1>1, <2>1, <4>2, <4>4, FillSays
        <5>2. working[o].created < queue[i].time /\ working[o].decided <= working[o].created
              /\ working[o] \in Orders
          BY <4>2 DEF Filling, Timely
        <5>3. working[o].created \in Nat /\ working[o].decided \in Nat /\ queue[i].time \in Nat
          BY <2>1, <5>2 DEF Orders, MarketEvents
        <5>4. QED
          BY <5>1, <5>2, <5>3 DEF TimelyEvent
      <4>5. QED
        BY <4>1, <4>3, <4>4 DEF IsNews
    <3>2. CASE \E n \in 1..Len(ideas) :
                  /\ ideas[n] \in Ideas /\ emitted + n \in Nat
                  /\ out[m] = SignalFrom(ideas[n], emitted + n, queue[i])
      BY <2>1, <2>2, <3>2, SignalTypedFrom DEF TimelyEvent
    <3>3. QED
      BY <1>2, <3>1, <3>2 DEF BarNews
  <2>4. ASSUME NEW k \in 1..Len(queue')
        PROVE  TimelyEvent(queue'[k])
    <3>1. out \in Seq(Events)
      BY <1>2 DEF BarNews
    <3>2. QED
      BY <1>1, <2>1, <2>3, <3>1, Comes DEF Timely
  <2>5. ASSUME NEW o \in DOMAIN working'
        PROVE  working'[o].decided <= working'[o].created
    <3>1. o \in DOMAIN working /\ working[o] \in Orders
      BY <1>1, <2>1, ExecuteLeaves DEF ExecutionTypeOK
    <3>2. CASE working'[o] = working[o]
      BY <3>1, <3>2 DEF Timely
    <3>3. CASE o \in Executes(queue[i], fills) /\ working'[o] = Executed(working[o], fills[o])
      <4>1. Filling(queue[i], fills, o)
        BY <1>1, <2>1, <3>3, Fillings
      <4>2. fills[o] \in Nat
        BY <3>1, <4>1 DEF Filling, Remaining, Orders
      <4>3. working'[o].created = working[o].created /\ working'[o].decided = working[o].decided
        BY <3>1, <3>3, <4>2, ExecutedTyped
      <4>4. QED
        BY <3>1, <4>3 DEF Timely
    <3>4. QED
      BY <1>1, <2>1, <3>2, <3>3, ExecuteLeaves
  <2>6. \A s \in DOMAIN lastMarks' : lastMarks'[s].time <= clock'
    BY <2>2 DEF Put, Timely
  <2>7. QED
    BY <2>2, <2>4, <2>5, <2>6 DEF Timely, TimelyEvent
<1>3. ASSUME NEW i, NEW out, TakesSignal(i, out)
      PROVE  Timely'
  <2>1. i \in 1..Len(queue) /\ queue[i] \in Signals /\ HandleSignal(queue[i]) /\ Queued(i, out)
        /\ out = OrdersFor(queue[i])
    BY <1>3 DEF TakesSignal
  <2>2. UNCHANGED <<clock, lastMarks>>
    BY <2>1 DEF HandleSignal, pipelineVars
  <2> DEFINE signal == Resized(queue[i])
             order == NewOrder(signal, clock)
  <2>3. signal \in Signals /\ signal.decided = queue[i].decided /\ queue[i].decided <= clock
    BY <2>1, ResizedTyped DEF Timely, TimelyEvent, Signals
  <2> HIDE DEF signal
  <2>4. order \in Orders /\ order.decided = signal.decided /\ order.created = clock
        /\ order.type = "Order"
    BY <1>1, <2>3, NewOrderTyped DEF NewOrder
  <2> HIDE DEF order
  <2>5. out \in Seq(Events) /\ \A m \in 1..Len(out) : TimelyEvent(out[m])
    <3>1. out = IF Approves(queue[i]) THEN <<order>> ELSE <<>>
      BY <2>1 DEF OrdersFor, order, signal
    <3>2. TimelyEvent(order) /\ order \in Events
      BY <2>4 DEF TimelyEvent, Events
    <3>3. QED
      BY <3>1, <3>2
  <2>6. \A k \in 1..Len(queue') : TimelyEvent(queue'[k])
    BY <1>1, <2>1, <2>5, Comes DEF Timely
  <2>7. ASSUME NEW o \in DOMAIN working'
        PROVE  working'[o].decided <= working'[o].created
    <3>1. \/ working' = working
          \/ working' = [x \in DOMAIN working \cup {order.id} |->
                            IF x = order.id THEN order ELSE working[x]]
      BY <2>1, Zenon DEF HandleSignal, Submit, executionVars, order, signal
    <3>2. (o \in DOMAIN working /\ working'[o] = working[o]) \/ working'[o] = order
      BY <3>1
    <3>3. QED
      BY <2>3, <2>4, <3>2 DEF Timely
  <2>8. QED
    BY <2>2, <2>6, <2>7 DEF Timely, TimelyEvent
<1>4. ASSUME NEW i, TakesOrder(i) \/ TakesFill(i)
      PROVE  Timely'
  <2>1. UNCHANGED <<clock, lastMarks, working>> /\ Queued(i, <<>>)
    BY <1>4 DEF TakesOrder, TakesFill, HandleOrder, HandleFill, executionVars, pipelineVars
  <2>2. \A k \in 1..Len(queue') : \E j \in 1..Len(queue) : queue'[k] = queue[j]
    <3>1. <<>> \in Seq(Events) /\ 1..Len(<<>>) = {}
      OBVIOUS
    <3>2. QED
      BY <1>1, <2>1, <3>1, Comes
  <2>3. QED
    BY <2>1, <2>2 DEF Timely, TimelyEvent
<1>5. ASSUME NEW bar, SendsBar(bar)
      PROVE  Timely'
  <2>1. UNCHANGED <<clock, lastMarks, working>> /\ Queued(0, <<bar>>)
        /\ bar \in MarketEvents /\ bar.time = clock
    BY <1>5 DEF SendsBar, executionVars, pipelineVars
  <2>2. TimelyEvent(bar) /\ <<bar>> \in Seq(Events)
    BY <1>1, <2>1 DEF TimelyEvent, MarketEvents, Events
  <2>3. \A k \in 1..Len(queue') : queue'[k] = bar \/ \E j \in 1..Len(queue) : queue'[k] = queue[j]
    <3>1. \A m \in 1..Len(<<bar>>) : <<bar>>[m] = bar
      OBVIOUS
    <3>2. QED
      BY <1>1, <2>1, <2>2, <3>1, Comes
  <2>4. QED
    BY <2>1, <2>2, <2>3 DEF Timely, TimelyEvent
<1>6. CASE MovesOn
  <2>1. /\ UNCHANGED <<queue, working, lastMarks>> /\ clock' \in Nat /\ clock <= clock'
    BY <1>1, <1>6 DEF MovesOn, executionVars
  <2>2. ASSUME NEW k \in 1..Len(queue)
        PROVE  TimelyEvent(queue[k])'
    <3>1. /\ queue[k].type = "MarketData" => queue[k].time \in Nat
          /\ queue[k].type = "Signal" => queue[k].decided \in Nat
      BY <1>1, EventKinds DEF MarketEvents, Signals
    <3>2. TimelyEvent(queue[k])
      BY DEF Timely
    <3>3. QED
      BY <1>1, <2>1, <3>1, <3>2 DEF TimelyEvent
  <2>3. \A s \in DOMAIN lastMarks : lastMarks[s].time \in Nat
    BY DEF FlowTypeOK, TypeOK, MarketEvents
  <2>4. QED
    BY <1>1, <2>1, <2>2, <2>3 DEF Timely
<1>7. CASE UNCHANGED vars
  BY <1>7 DEF Timely, TimelyEvent, vars, flowVars, executionVars, pipelineVars
<1>8. CASE Next
  BY <1>2, <1>3, <1>4, <1>5, <1>6, <1>8, Steps
<1>9. QED
  BY <1>7, <1>8

(* No look-ahead, whatever the bus does with the order of what it carries: *)
(* an order only executes at a bar newer than the one it was made at, and  *)
(* the clock at which it is made has passed the bar its strategy saw.      *)
THEOREM ExecutesLater == Spec => []NoLookAhead
<1>1. Init => Timely
  BY DEF Init, ExecutionInit, Timely
<1>2. FlowTypeOK /\ Timely /\ [Next]_vars => Timely'
  BY TimelyStep
<1>3. Timely => NoLookAhead
  BY DEF Timely, TimelyEvent, NoLookAhead
<1>4. QED
  BY <1>1, <1>2, <1>3, FlowTypesHold, PTL DEF Spec

-----------------------------------------------------------------------------
(* The outcomes of a step.                                                 *)

(* Each thing a delivered bar has published.                               *)
LEMMA NewsIs ==
  ASSUME FlowTypeOK, NEW i, NEW fills, NEW ideas, NEW out,
         TakesBar(i, fills, ideas, out), BarNews(queue[i], fills, ideas, out),
         NEW m \in 1..Len(out)
  PROVE  \/ \E o \in Executes(queue[i], fills) :
               /\ Filling(queue[i], fills, o)
               /\ out[m] = Executed(working[o], fills[o]) /\ out[m] \in Orders
               /\ out[m].type = "Order" /\ out[m].status \in {"PartiallyFilled", "Filled"}
         \/ \E o \in Executes(queue[i], fills) :
               /\ Filling(queue[i], fills, o) /\ IsFillOf(out[m], queue[i], fills, o)
               /\ out[m].type = "Fill" /\ out[m] \in Fills
         \/ \E n \in 1..Len(ideas) :
               /\ ideas[n] \in Ideas /\ emitted + n \in Nat
               /\ out[m] = SignalFrom(ideas[n], emitted + n, queue[i])
               /\ out[m].type = "Signal" /\ out[m] \in Signals
<1>1. queue[i] \in MarketEvents /\ fills \in FillChoices(queue[i]) /\ ExecutionTypeOK
  BY DEF TakesBar, FlowTypeOK, TypeOK
<1>2. CASE \E o \in Executes(queue[i], fills) : IsNews(out[m], queue[i], fills, o)
  <2>1. PICK o \in Executes(queue[i], fills) : IsNews(out[m], queue[i], fills, o)
    BY <1>2
  <2>2. Filling(queue[i], fills, o)
    BY <1>1, Fillings
  <2>3. CASE out[m] = Executed(working[o], fills[o])
    <3>1. working[o] \in Orders /\ fills[o] \in Nat
      BY <2>2 DEF Filling, Remaining, Orders
    <3> DEFINE done == Executed(working[o], fills[o])
    <3>2. done \in Orders /\ done.type = "Order" /\ done.status \in {"PartiallyFilled", "Filled"}
      <4>1. done \in Orders /\ done.type = "Order"
        BY <3>1, ExecutedTyped
      <4>2. done.status = IF fills[o] >= Remaining(working[o]) THEN "Filled" ELSE "PartiallyFilled"
        BY <3>1, ExecutedTyped
      <4>3. QED
        BY <4>1, <4>2
    <3>3. QED
      BY <2>1, <2>2, <2>3, <3>2
  <2>4. CASE IsFillOf(out[m], queue[i], fills, o)
    BY <1>1, <2>1, <2>2, <2>4, FillSays
  <2>5. QED
    BY <2>1, <2>3, <2>4 DEF IsNews
<1>3. CASE \E n \in 1..Len(ideas) :
              /\ ideas[n] \in Ideas /\ emitted + n \in Nat
              /\ out[m] = SignalFrom(ideas[n], emitted + n, queue[i])
  BY <1>1, <1>3, SignalTypedFrom
<1>4. QED
  BY <1>2, <1>3 DEF BarNews

(* The simulator's books after a bar.                                      *)
LEMMA BarLeaves ==
  ASSUME FlowTypeOK, NEW i, NEW fills, NEW ideas, NEW out,
         TakesBar(i, fills, ideas, out), NEW o \in DOMAIN working'
  PROVE  /\ o \in DOMAIN working /\ working[o] \in Orders /\ working'[o] \in Orders
         /\ working'[o].symbol = working[o].symbol /\ working'[o].side = working[o].side
         /\ working'[o].limit = working[o].limit /\ working'[o].quantity = working[o].quantity
         /\ working'[o].created = working[o].created /\ working'[o].decided = working[o].decided
         /\ o \notin Executes(queue[i], fills) =>
               working'[o] = working[o] /\ Remaining(working'[o]) = Remaining(working[o])
         /\ o \in Executes(queue[i], fills) =>
               /\ fills[o] < Remaining(working[o])
               /\ working'[o].filled = working[o].filled + fills[o]
               /\ Remaining(working'[o]) = Remaining(working[o]) - fills[o]
<1>1. /\ queue[i] \in MarketEvents /\ fills \in FillChoices(queue[i]) /\ ExecutionTypeOK
      /\ Execute(queue[i], fills)
  BY DEF TakesBar, FlowTypeOK, TypeOK
<1>2. /\ o \in DOMAIN working /\ working[o] \in Orders
      /\ \/ working'[o] = working[o] /\ o \notin Executes(queue[i], fills)
         \/ /\ o \in Executes(queue[i], fills) /\ fills[o] < Remaining(working[o])
            /\ working'[o] = Executed(working[o], fills[o])
  BY <1>1, ExecuteLeaves DEF ExecutionTypeOK
<1>3. CASE working'[o] = working[o] /\ o \notin Executes(queue[i], fills)
  BY <1>2, <1>3
<1>4. CASE /\ o \in Executes(queue[i], fills) /\ fills[o] < Remaining(working[o])
           /\ working'[o] = Executed(working[o], fills[o])
  <2>1. Filling(queue[i], fills, o)
    BY <1>1, <1>4, Fillings
  <2>2. fills[o] \in Nat
    BY <1>2, <2>1 DEF Filling, Remaining, Orders
  <2>3. QED
    BY <1>2, <1>4, <2>2, ExecutedTyped
<1>5. QED
  BY <1>2, <1>3, <1>4

LEMMA SignalOutcome ==
  ASSUME FlowTypeOK, NEW i, NEW out, TakesSignal(i, out)
  PROVE  /\ UNCHANGED <<riskVars, pipelineVars, fillsIssued, fillCounts>>
         /\ \/ out = <<>> /\ out \in Seq(Events) /\ UNCHANGED <<portfolioVars, executionVars>>
            \/ \E signal, order : Approved(queue[i], signal, order, out)
<1>1. /\ queue[i] \in Signals /\ HandleSignal(queue[i]) /\ out = OrdersFor(queue[i])
      /\ ExecutionTypeOK /\ clock \in Nat
  BY FlowAssumption DEF TakesSignal, FlowTypeOK, TypeOK
<1>2. QED
  BY <1>1, SignalChecked

(* What is left when an event is taken and nothing is published.           *)
StayedInOrder(d, e, i) ==
    \E j, h \in 1..Len(queue) : j < h /\ j # i /\ h # i /\ d = queue[j] /\ e = queue[h]

LEMMA Taken ==
  ASSUME queue \in Seq(Events), NEW i, Queued(i, <<>>)
  PROVE  /\ \A k \in 1..Len(queue') : \E j \in 1..Len(queue) : j # i /\ queue'[k] = queue[j]
         /\ \A k, l \in 1..Len(queue') : k < l => StayedInOrder(queue'[k], queue'[l], i)
<1>1. <<>> \in Seq(Events) /\ 1..Len(<<>>) = {}
  OBVIOUS
<1>2. ASSUME NEW k \in 1..Len(queue')
      PROVE  \E j \in 1..Len(queue) : j # i /\ queue'[k] = queue[j]
  BY <1>1, Comes
<1>3. ASSUME NEW k \in 1..Len(queue'), NEW l \in 1..Len(queue'), k < l
      PROVE  StayedInOrder(queue'[k], queue'[l], i)
  <2>1. CameInOrder(queue'[k], queue'[l], i, <<>>)
    BY <1>1, <1>3, ComeInOrder
  <2>2. QED
    BY <1>1, <2>1 DEF CameInOrder, StayedInOrder
<1>4. QED
  BY <1>2, <1>3

-----------------------------------------------------------------------------
(* Marks.                                                                  *)

(* Bars of a symbol are queued in their order, behind the one the symbol   *)
(* is marked at, and fills are of bars that were delivered.                *)
BarInPlace(e, last) ==
    /\ (e.type = "MarketData" /\ e.symbol \in DOMAIN last) =>
          last[e.symbol].time <= e.time
    /\ e.type = "Fill" => e.symbol \in DOMAIN last /\ e.time <= last[e.symbol].time

BarsOrdered(d, e) ==
    (d.type = "MarketData" /\ e.type = "MarketData" /\ d.symbol = e.symbol) => d.time <= e.time

BarsInOrder ==
    /\ \A k \in 1..Len(queue) : BarInPlace(queue[k], lastMarks)
    /\ \A k, l \in 1..Len(queue) : k < l => BarsOrdered(queue[k], queue[l])
    /\ DOMAIN lastMarks \subseteq DOMAIN marks
    /\ MarkedAtNewestBar

LEMMA BarsInOrderStep ==
  ASSUME FlowTypeOK, Timely, BarsInOrder, [Next]_vars
  PROVE  BarsInOrder'
<1>1. /\ queue \in Seq(Events) /\ clock \in Nat /\ ExecutionTypeOK
      /\ \A s \in DOMAIN lastMarks : lastMarks[s] \in MarketEvents /\ lastMarks[s].time \in Nat
  BY FlowAssumption DEF FlowTypeOK, TypeOK, MarketEvents
<1>2. ASSUME NEW i, NEW fills, NEW ideas, NEW out,
             TakesBar(i, fills, ideas, out), BarNews(queue[i], fills, ideas, out)
      PROVE  BarsInOrder'
  <2>1. /\ i \in 1..Len(queue) /\ i \in Deliverable
        /\ queue[i] \in MarketEvents /\ queue[i].time \in Nat
        /\ HandleMarketData(queue[i], ideas) /\ Queued(i, out) /\ out \in Seq(Events)
    BY <1>2 DEF TakesBar, BarNews, MarketEvents
  <2> DEFINE bar == queue[i]
  <2>2. lastMarks' = Put(lastMarks, bar.symbol, bar) /\ marks' = Put(marks, bar.symbol, bar.price)
    BY <2>1 DEF HandleMarketData, Mark
  <2>3. /\ DOMAIN lastMarks' = DOMAIN lastMarks \cup {bar.symbol}
        /\ DOMAIN marks' = DOMAIN marks \cup {bar.symbol}
        /\ lastMarks'[bar.symbol] = bar /\ marks'[bar.symbol] = bar.price
        /\ \A s \in DOMAIN lastMarks : s # bar.symbol => lastMarks'[s] = lastMarks[s]
        /\ \A s \in DOMAIN marks : s # bar.symbol => marks'[s] = marks[s]
    BY <2>2 DEF Put
  <2>4. /\ DOMAIN lastMarks' \subseteq DOMAIN marks' /\ MarkedAtNewestBar'
    BY <2>3 DEF BarsInOrder, MarkedAtNewestBar
  <2>5. ASSUME NEW j \in 1..Len(queue), j # i
        PROVE  BarInPlace(queue[j], lastMarks')
    <3>1. BarInPlace(queue[j], lastMarks) /\ queue[j] \in Events
      BY <1>1 DEF BarsInOrder
    <3>2. CASE queue[j].symbol # bar.symbol
      BY <2>3, <3>1, <3>2 DEF BarInPlace
    <3>3. CASE queue[j].symbol = bar.symbol
      <4>1. queue[j].type = "MarketData" => bar.time <= queue[j].time
        <5>1. i < j \/ j < i
          BY <2>1, <2>5
        <5>2. (queue[j].type = "MarketData" /\ j < i) => FALSE
          BY <2>1, <3>3 DEF Deliverable, MarketEvents
        <5>3. i < j => BarsOrdered(bar, queue[j])
          BY <2>1 DEF BarsInOrder
        <5>4. QED
          BY <2>1, <3>3, <5>1, <5>2, <5>3 DEF BarsOrdered, MarketEvents
      <4>2. queue[j].type = "Fill" => queue[j].time <= bar.time
        <5>1. bar.type = "MarketData" /\ BarInPlace(bar, lastMarks)
          BY <2>1 DEF BarsInOrder, MarketEvents
        <5>2. SUFFICES ASSUME queue[j].type = "Fill" PROVE queue[j].time <= bar.time
          OBVIOUS
        <5>3. queue[j].time \in Nat
          BY <3>1, <5>2, EventKinds DEF Fills
        <5>4. QED
          BY <1>1, <2>1, <3>1, <3>3, <5>1, <5>2, <5>3 DEF BarInPlace
      <4>3. QED
        BY <2>3, <3>3, <4>1, <4>2 DEF BarInPlace
    <3>4. QED
      BY <3>2, <3>3
  <2>6. ASSUME NEW m \in 1..Len(out)
        PROVE  BarInPlace(out[m], lastMarks') /\ out[m].type # "MarketData"
    <3>1. CASE out[m].type = "Fill" /\ \E o \in Executes(queue[i], fills) :
                  Filling(queue[i], fills, o) /\ IsFillOf(out[m], queue[i], fills, o)
      <4>1. out[m].symbol = bar.symbol /\ out[m].time = bar.time
        BY <1>1, <2>1, <3>1, FillSays
      <4>2. QED
        BY <2>1, <2>3, <3>1, <4>1 DEF BarInPlace
    <3>2. CASE out[m].type \in {"Order", "Signal"}
      BY <3>2 DEF BarInPlace
    <3>3. QED
      BY <1>2, <3>1, <3>2, NewsIs
  <2> HIDE DEF bar
  <2>7. ASSUME NEW k \in 1..Len(queue')
        PROVE  BarInPlace(queue'[k], lastMarks')
    <3>1. CASE \E j \in 1..Len(queue) : j # i /\ queue'[k] = queue[j]
      <4>1. PICK j \in 1..Len(queue) : j # i /\ queue'[k] = queue[j]
        BY <3>1
      <4>2. BarInPlace(queue[j], lastMarks')
        BY <2>5, <4>1
      <4>3. QED
        BY <2>5, <4>1 DEF BarInPlace
    <3>2. CASE \E m \in 1..Len(out) : queue'[k] = out[m]
      BY <2>6, <3>2 DEF BarInPlace
    <3>3. QED
      BY <1>1, <2>1, <3>1, <3>2, Comes
  <2>8. ASSUME NEW k \in 1..Len(queue'), NEW l \in 1..Len(queue'), k < l
        PROVE  BarsOrdered(queue'[k], queue'[l])
    <3>1. CASE queue'[k].type = "MarketData" /\ queue'[l].type = "MarketData"
      <4>1. \E j, h \in 1..Len(queue) : j < h /\ queue'[k] = queue[j] /\ queue'[l] = queue[h]
        BY <1>1, <2>1, <2>6, <2>8, <3>1, ComeInOrder DEF CameInOrder
      <4>2. QED
        BY <4>1 DEF BarsInOrder
    <3>2. QED
      BY <3>1 DEF BarsOrdered
  <2>9. QED
    BY <2>4, <2>7, <2>8 DEF BarsInOrder
<1>3. ASSUME NEW i, NEW out, TakesSignal(i, out)
      PROVE  BarsInOrder'
  <2>1. Queued(i, out) /\ UNCHANGED <<lastMarks, marks>>
        /\ out \in Seq(Events) /\ \A m \in 1..Len(out) : out[m].type = "Order"
    <3>1. UNCHANGED lastMarks /\ Queued(i, out)
      BY <1>3, SignalOutcome DEF TakesSignal, pipelineVars
    <3>2. CASE out = <<>> /\ out \in Seq(Events) /\ UNCHANGED <<portfolioVars, executionVars>>
      BY <3>1, <3>2 DEF portfolioVars
    <3>3. CASE \E signal, order : Approved(queue[i], signal, order, out)
      BY <3>1, <3>3 DEF Approved, HoldForSignal
    <3>4. QED
      BY <1>3, <3>2, <3>3, SignalOutcome
  <2>2. ASSUME NEW k \in 1..Len(queue')
        PROVE  BarInPlace(queue'[k], lastMarks)
    <3>1. \/ \E j \in 1..Len(queue) : queue'[k] = queue[j]
          \/ \E m \in 1..Len(out) : queue'[k] = out[m]
      BY <1>1, <2>1, Comes
    <3>2. \A m \in 1..Len(out) : BarInPlace(out[m], lastMarks)
      BY <2>1 DEF BarInPlace
    <3>3. QED
      BY <3>1, <3>2 DEF BarsInOrder
  <2>3. ASSUME NEW k \in 1..Len(queue'), NEW l \in 1..Len(queue'), k < l
        PROVE  BarsOrdered(queue'[k], queue'[l])
    <3>1. CASE queue'[k].type = "MarketData" /\ queue'[l].type = "MarketData"
      <4>1. CameInOrder(queue'[k], queue'[l], i, out)
        BY <1>1, <2>1, <2>3, ComeInOrder
      <4>2. \E j, h \in 1..Len(queue) : j < h /\ queue'[k] = queue[j] /\ queue'[l] = queue[h]
        BY <2>1, <3>1, <4>1 DEF CameInOrder
      <4>3. QED
        BY <4>2 DEF BarsInOrder
    <3>2. QED
      BY <3>1 DEF BarsOrdered
  <2>4. QED
    BY <2>1, <2>2, <2>3 DEF BarsInOrder, BarInPlace, MarkedAtNewestBar
<1>4. ASSUME NEW i, TakesOrder(i) \/ TakesFill(i)
      PROVE  BarsInOrder'
  <2>1. /\ i \in 1..Len(queue) /\ Queued(i, <<>>) /\ UNCHANGED lastMarks
        /\ (TakesOrder(i) \/ TakesFill(i)) /\ (TakesOrder(i) => UNCHANGED marks)
    BY <1>4 DEF TakesOrder, TakesFill, HandleOrder, HandleFill, ApplyOrderUpdate, pipelineVars
  <2>2. DOMAIN lastMarks' \subseteq DOMAIN marks' /\ MarkedAtNewestBar'
    <3>1. CASE UNCHANGED marks
      BY <2>1, <3>1 DEF BarsInOrder, MarkedAtNewestBar
    <3>2. CASE TakesFill(i) /\ ApplyFill(queue[i], MarkAfter(queue[i]))
      <4>1. queue[i] \in Fills /\ BarInPlace(queue[i], lastMarks)
        BY <2>1, <3>2 DEF TakesFill, BarsInOrder
      <4>2. queue[i].symbol \in DOMAIN lastMarks /\ lastMarks[queue[i].symbol].time >= queue[i].time
        BY <1>1, <4>1 DEF BarInPlace, Fills
      <4>3. marks' = Put(marks, queue[i].symbol, lastMarks[queue[i].symbol].price)
        BY <3>2, <4>2 DEF ApplyFill, MarkAfter
      <4>4. /\ DOMAIN marks' = DOMAIN marks \cup {queue[i].symbol}
            /\ marks'[queue[i].symbol] = lastMarks[queue[i].symbol].price
            /\ \A s \in DOMAIN marks : s # queue[i].symbol => marks'[s] = marks[s]
        BY <4>3 DEF Put
      <4>5. QED
        BY <2>1, <4>2, <4>4 DEF BarsInOrder, MarkedAtNewestBar
    <3>3. QED
      BY <2>1, <3>1, <3>2 DEF TakesFill, HandleFill, portfolioVars
  <2>3. \A k \in 1..Len(queue') : BarInPlace(queue'[k], lastMarks')
    BY <1>1, <2>1, Taken DEF BarsInOrder
  <2>4. ASSUME NEW k \in 1..Len(queue'), NEW l \in 1..Len(queue'), k < l
        PROVE  BarsOrdered(queue'[k], queue'[l])
    <3>1. StayedInOrder(queue'[k], queue'[l], i)
      BY <1>1, <2>1, <2>4, Taken
    <3>2. QED
      BY <3>1 DEF BarsInOrder, StayedInOrder
  <2>5. QED
    BY <2>1, <2>2, <2>3, <2>4 DEF BarsInOrder, BarInPlace
<1>5. ASSUME NEW bar, SendsBar(bar)
      PROVE  BarsInOrder'
  <2>1. UNCHANGED <<clock, lastMarks, marks>> /\ Queued(0, <<bar>>)
        /\ bar \in MarketEvents /\ bar.time = clock
    BY <1>5 DEF SendsBar, portfolioVars, pipelineVars
  <2>2. /\ <<bar>> \in Seq(Events) /\ BarInPlace(bar, lastMarks) /\ \A m \in 1..Len(<<bar>>) : <<bar>>[m] = bar
        /\ \A m, n \in 1..Len(<<bar>>) : ~(m < n)
    BY <1>1, <2>1 DEF BarInPlace, Timely, MarketEvents, Events
  <2>3. \A j \in 1..Len(queue) : BarsOrdered(queue[j], bar)
    BY <2>1 DEF BarsOrdered, Timely, TimelyEvent
  <2>4. \A k \in 1..Len(queue') : BarInPlace(queue'[k], lastMarks')
    BY <1>1, <2>1, <2>2, Comes DEF BarsInOrder
  <2>5. ASSUME NEW k \in 1..Len(queue'), NEW l \in 1..Len(queue'), k < l
        PROVE  BarsOrdered(queue'[k], queue'[l])
    <3>1. CameInOrder(queue'[k], queue'[l], 0, <<bar>>)
      BY <1>1, <2>1, <2>2, <2>5, ComeInOrder
    <3>2. QED
      BY <2>2, <2>3, <3>1 DEF CameInOrder, BarsInOrder
  <2>6. QED
    BY <2>1, <2>4, <2>5 DEF BarsInOrder, BarInPlace, MarkedAtNewestBar
<1>6. CASE MovesOn \/ UNCHANGED vars
  <2>1. UNCHANGED <<queue, lastMarks, marks>>
    BY <1>6 DEF MovesOn, vars, flowVars, pipelineVars, portfolioVars
  <2>2. QED
    BY <2>1 DEF BarsInOrder, BarInPlace, MarkedAtNewestBar
<1>7. CASE Next
  BY <1>2, <1>3, <1>4, <1>5, <1>6, <1>7, Steps
<1>8. QED
  BY <1>6, <1>7

(* A symbol is always valued at the close of the newest bar delivered for  *)
(* it: bars of a symbol are not reordered, and a fill, which is of a bar   *)
(* already delivered, does not bring an older price back.                  *)
THEOREM MarksStayNewest == Spec => []MarksAreNewest
<1>1. Init => Timely /\ BarsInOrder
  BY DEF Init, ExecutionInit, PortfolioInit, Timely, BarsInOrder, MarkedAtNewestBar
<1>2. FlowTypeOK /\ (Timely /\ BarsInOrder) /\ [Next]_vars => (Timely /\ BarsInOrder)'
  BY TimelyStep, BarsInOrderStep
<1>3. FlowTypeOK /\ Timely /\ BarsInOrder => MarksAreNewest
  BY DEF FlowTypeOK, BarsInOrder, MarksAreNewest
<1>4. QED
  BY <1>1, <1>2, <1>3, FlowTypesHold, PTL DEF Spec

-----------------------------------------------------------------------------
(* The order path.  What each queued event says of an order still agrees   *)
(* with the simulator's books and the portfolio's.                         *)

IsSubmitted(e) == e.type = "Order" /\ e.status \in {"Working", "Rejected"}

(* Signals on their way to the risk manager have ids of their own.         *)
FreshSignals ==
    {e \in Events : e.type = "Signal" =>
        e.id \in 1..emitted /\ \A n \in 1..Len(issued) : issued[n] # e.id}

(* A new order on its way to the portfolio has not been opened, and its    *)
(* signal's hold is of what it will ask for.                               *)
SoundOrders ==
    {e \in Events : IsSubmitted(e) =>
        /\ e.id \in 1..Len(issued) /\ e.signal = issued[e.id] /\ e.filled = 0
        /\ e.status = "Working" => e.quantity > 0
        /\ e.status = "Rejected" => e.id \notin DOMAIN working
        /\ e.id \notin DOMAIN openOrders
        /\ e.signal \in DOMAIN holds
        /\ holds[e.signal].symbol = e.symbol /\ holds[e.signal].side = e.side
        /\ holds[e.signal].quantity = e.quantity
        /\ e.id \in DOMAIN working => Remaining(working[e.id]) <= e.quantity
        /\ bus = "InProcess" => e.id \notin closed}

(* A fill on its way is of an order that is not closed, of no more than    *)
(* the order had left, and the simulator has at most the rest of it.       *)
SoundFills ==
    {e \in Events : e.type = "Fill" =>
        /\ e.order \in 1..Len(issued) /\ e.order \notin closed
        /\ 1 <= Shares(e) /\ Shares(e) <= e.left
        /\ e.status = "Filled" <=> Shares(e) = e.left
        /\ e.order \in DOMAIN working =>
              /\ working[e.order].symbol = e.symbol
              /\ working[e.order].side = "Sell" <=> e.quantity < 0
              /\ Remaining(working[e.order]) <= e.left - Shares(e)
        /\ e.order \in DOMAIN openOrders => e.left <= openOrders[e.order].remaining}

SoundEvents == FreshSignals \cap SoundOrders \cap SoundFills

(* Two queued events, d before e: no id comes twice, the fills of an order *)
(* are for ever less of it, and a refused order has none.                  *)
Apart(d, e) ==
    /\ (d.type = "Signal" /\ e.type = "Signal") => d.id # e.id
    /\ (IsSubmitted(d) /\ IsSubmitted(e)) => d.id # e.id
    /\ (d.type = "Fill" /\ e.type = "Fill" /\ d.order = e.order) =>
          /\ d.symbol = e.symbol /\ (d.quantity < 0 <=> e.quantity < 0)
          /\ e.left <= d.left - Shares(d)
    /\ (IsSubmitted(d) /\ e.type = "Fill" /\ e.order = d.id) =>
          d.status = "Working" /\ e.left <= d.quantity
    /\ (IsSubmitted(e) /\ d.type = "Fill" /\ d.order = e.id) =>
          e.status = "Working" /\ d.left <= e.quantity

SoundIds ==
    /\ \A n \in 1..Len(issued) : issued[n] \in 1..emitted
    /\ \A n, m \in 1..Len(issued) : issued[n] = issued[m] => n = m
    /\ \A s \in DOMAIN holds : \E n \in 1..Len(issued) : issued[n] = s
    /\ DOMAIN openOrders \subseteq 1..Len(issued)
    /\ closed \subseteq 1..Len(issued)
    /\ DOMAIN openOrders \cap closed = {}

SoundWorking ==
    \A o \in DOMAIN working :
        /\ 1 <= Remaining(working[o]) /\ o \notin closed
        /\ o \in DOMAIN openOrders => Remaining(working[o]) <= openOrders[o].remaining

(* On the InProcessEventBus an order is opened before its fills come.      *)
OpenedFirst ==
    bus = "InProcess" =>
    /\ \A k \in 1..Len(queue) :
          (queue[k].type = "Fill" /\ queue[k].order \notin DOMAIN openOrders) =>
             \E j \in 1..Len(queue) : j < k /\ IsOpening(queue[j], queue[k].order)
    /\ \A o \in DOMAIN working \ DOMAIN openOrders :
          \E j \in 1..Len(queue) : IsOpening(queue[j], o)

EventsApart == \A k, l \in 1..Len(queue) : k < l => Apart(queue[k], queue[l])

Books ==
    /\ SoundIds /\ SoundWorking /\ OpenedFirst /\ EventsApart
    /\ \A k \in 1..Len(queue) : queue[k] \in SoundEvents

(* The queue after a step has what its parts have.                         *)
LEMMA All ==
  ASSUME queue \in Seq(Events), NEW out \in Seq(Events), NEW i, Queued(i, out), NEW S,
         \A j \in 1..Len(queue) : j # i => queue[j] \in S,
         \A m \in 1..Len(out) : out[m] \in S
  PROVE  \A k \in 1..Len(queue') : queue'[k] \in S
BY Comes

LEMMA AllApart ==
  ASSUME queue \in Seq(Events), NEW out \in Seq(Events), NEW i, Queued(i, out), EventsApart,
         \A j \in 1..Len(queue), m \in 1..Len(out) : j # i => Apart(queue[j], out[m]),
         \A m, n \in 1..Len(out) : m < n => Apart(out[m], out[n])
  PROVE  EventsApart'
<1>1. SUFFICES ASSUME NEW k \in 1..Len(queue'), NEW l \in 1..Len(queue'), k < l
               PROVE  Apart(queue'[k], queue'[l])
  BY DEF EventsApart
<1>2. CameInOrder(queue'[k], queue'[l], i, out)
  BY <1>1, ComeInOrder
<1>3. QED
  BY <1>2 DEF CameInOrder, EventsApart

(* On the InProcessEventBus nothing is lost on the way.                    *)
KeptBehind(k, i) ==
    \E h \in 1..Len(queue) :
       /\ h # i /\ queue'[k] = queue[h]
       /\ \A j \in 1..Len(queue) : (j # i /\ j < h) =>
             \E l \in 1..Len(queue') : l < k /\ queue'[l] = queue[j]

SentBehind(k, i, out) ==
    \E m \in 1..Len(out) :
       /\ queue'[k] = out[m]
       /\ \A j \in 1..Len(queue) : j # i =>
             \E l \in 1..Len(queue') : l < k /\ queue'[l] = queue[j]

LEMMA Stays ==
  ASSUME queue \in Seq(Events), NEW out \in Seq(Events), NEW i \in 0..Len(queue),
         Queued(i, out), bus = "InProcess"
  PROVE  /\ \A j \in 1..Len(queue) : j # i => \E k \in 1..Len(queue') : queue'[k] = queue[j]
         /\ \A m \in 1..Len(out) : \E k \in 1..Len(queue') : queue'[k] = out[m]
         /\ \A k \in 1..Len(queue') : KeptBehind(k, i) \/ SentBehind(k, i, out)
<1>1. PICK src : Sourced(queue, i, out, queue', src) /\ Complete(queue, i, out, queue', src)
  BY DEF Queued
<1>2. /\ Len(queue) \in Nat /\ Len(out) \in Nat /\ queue' \in Seq(Events) /\ Len(queue') \in Nat
      /\ Len(queue) + Len(out) \in Nat
  BY DEF Queued
<1>3. \A k \in 1..Len(queue') :
         /\ src[k] \in 1..(Len(queue) + Len(out)) /\ src[k] # i
         /\ queue'[k] = IF src[k] <= Len(queue) THEN queue[src[k]] ELSE out[src[k] - Len(queue)]
  BY <1>1 DEF Sourced
<1>4. \A k, l \in 1..Len(queue') : src[l] < src[k] => l < k
  <2> SUFFICES ASSUME NEW k \in 1..Len(queue'), NEW l \in 1..Len(queue'), src[l] < src[k], ~(l < k)
               PROVE  FALSE
    OBVIOUS
  <2>1. k = l \/ src[k] < src[l]
    BY <1>1, <1>2 DEF Sourced
  <2>2. src[k] \in Int /\ src[l] \in Int
    <3>1. src[k] \in 1..(Len(queue) + Len(out)) /\ src[l] \in 1..(Len(queue) + Len(out))
      BY <1>3
    <3>2. QED
      BY <1>2, <3>1
  <2>3. QED
    BY <2>1, <2>2
<1>5. ASSUME NEW j \in 1..Len(queue), j # i
      PROVE  \E l \in 1..Len(queue') : src[l] = j /\ queue'[l] = queue[j]
  <2>1. j \in 1..(Len(queue) + Len(out)) /\ j <= Len(queue)
    BY <1>2
  <2>2. PICK l \in 1..Len(queue') : src[l] = j
    BY <1>1, <1>5, <2>1 DEF Complete
  <2>3. QED
    BY <1>3, <2>1, <2>2
<1>6. ASSUME NEW m \in 1..Len(out)
      PROVE  \E k \in 1..Len(queue') : queue'[k] = out[m]
  <2>1. /\ Len(queue) + m \in 1..(Len(queue) + Len(out)) /\ ~(Len(queue) + m <= Len(queue))
        /\ (Len(queue) + m) - Len(queue) = m /\ Len(queue) + m # i
    BY <1>2
  <2>2. PICK k \in 1..Len(queue') : src[k] = Len(queue) + m
    BY <1>1, <2>1 DEF Complete
  <2>3. QED
    BY <1>3, <2>1, <2>2
<1>7. ASSUME NEW k \in 1..Len(queue')
      PROVE  KeptBehind(k, i) \/ SentBehind(k, i, out)
  <2>1. CASE src[k] <= Len(queue)
    <3>0. src[k] \in Int /\ src[k] >= 1
      BY <1>2, <1>3
    <3>1. src[k] \in 1..Len(queue) /\ src[k] # i /\ queue'[k] = queue[src[k]]
      BY <1>2, <1>3, <2>1, <3>0
    <3>2. \A j \in 1..Len(queue) : (j # i /\ j < src[k]) =>
             \E l \in 1..Len(queue') : l < k /\ queue'[l] = queue[j]
      BY <1>4, <1>5
    <3>3. QED
      BY <3>1, <3>2 DEF KeptBehind
  <2>2. CASE ~(src[k] <= Len(queue))
    <3>1. src[k] - Len(queue) \in 1..Len(out) /\ queue'[k] = out[src[k] - Len(queue)]
      BY <1>2, <1>3, <2>2
    <3>2. \A j \in 1..Len(queue) : j # i =>
             \E l \in 1..Len(queue') : l < k /\ queue'[l] = queue[j]
      <4> SUFFICES ASSUME NEW j \in 1..Len(queue), j # i
                   PROVE  \E l \in 1..Len(queue') : l < k /\ queue'[l] = queue[j]
        OBVIOUS
      <4>1. PICK l \in 1..Len(queue') : src[l] = j /\ queue'[l] = queue[j]
        BY <1>5
      <4>2. src[l] < src[k]
        BY <1>2, <1>3, <2>2, <4>1
      <4>3. QED
        BY <1>4, <4>1, <4>2
    <3>3. QED
      BY <3>1, <3>2 DEF SentBehind
  <2>3. QED
    BY <2>1, <2>2
<1>8. QED
  BY <1>5, <1>6, <1>7

-----------------------------------------------------------------------------
(* A bar.                                                                  *)

LEMMA BarKeepsBooks ==
  ASSUME FlowTypeOK, Books, NEW i, NEW fills, NEW ideas, NEW out,
         TakesBar(i, fills, ideas, out), BarNews(queue[i], fills, ideas, out)
  PROVE  Books'
<1>1. /\ queue \in Seq(Events) /\ ExecutionTypeOK /\ PortfolioTypeOK /\ emitted \in Nat
      /\ i \in 0..Len(queue) /\ i \in 1..Len(queue) /\ queue[i] \in MarketEvents
      /\ Queued(i, out) /\ out \in Seq(Events) /\ i \in Deliverable
  BY FlowAssumption DEF FlowTypeOK, TypeOK, TakesBar, BarNews
<1>2. UNCHANGED <<issued, holds, openOrders, closed, bus>> /\ emitted' = emitted + Len(ideas)
      /\ Len(ideas) \in Nat
  BY DEF TakesBar, Execute, HandleMarketData, Mark
<1>3. /\ SoundIds /\ SoundWorking /\ OpenedFirst /\ EventsApart
      /\ \A k \in 1..Len(queue) : queue[k] \in SoundEvents
  BY DEF Books
<1>4. ASSUME NEW o \in DOMAIN working'
      PROVE  /\ o \in DOMAIN working /\ o \in 1..Len(issued)
             /\ working'[o].symbol = working[o].symbol /\ working'[o].side = working[o].side
             /\ Remaining(working'[o]) <= Remaining(working[o])
             /\ 1 <= Remaining(working'[o])
             /\ Remaining(working'[o]) \in Int /\ Remaining(working[o]) \in Int
             /\ o \in Executes(queue[i], fills) =>
                   Remaining(working'[o]) = Remaining(working[o]) - fills[o]
  <2>1. /\ o \in DOMAIN working /\ working[o] \in Orders /\ working'[o] \in Orders
        /\ working'[o].symbol = working[o].symbol /\ working'[o].side = working[o].side
        /\ o \notin Executes(queue[i], fills) => Remaining(working'[o]) = Remaining(working[o])
        /\ o \in Executes(queue[i], fills) =>
               /\ fills[o] < Remaining(working[o])
               /\ Remaining(working'[o]) = Remaining(working[o]) - fills[o]
    BY BarLeaves
  <2>2. Remaining(working'[o]) \in Int /\ Remaining(working[o]) \in Int
    BY <2>1 DEF Remaining, Orders
  <2>3. 1 <= Remaining(working[o]) /\ o \in 1..Len(issued)
    BY <1>1, <1>3, <2>1 DEF SoundWorking, ExecutionTypeOK
  <2>4. o \in Executes(queue[i], fills) => fills[o] \in 1..Remaining(working[o])
    <3>1. queue[i] \in MarketEvents /\ fills \in FillChoices(queue[i])
      BY DEF TakesBar
    <3>2. QED
      BY <1>1, <3>1, Fillings DEF Filling
  <2>5. QED
    BY <2>1, <2>2, <2>3, <2>4
<1>5. ASSUME NEW o \in Executes(queue[i], fills), Filling(queue[i], fills, o)
      PROVE  /\ o \in DOMAIN working /\ o \in 1..Len(issued) /\ o \notin closed
             /\ working[o] \in Orders
             /\ Remaining(working[o]) \in Nat /\ fills[o] \in 1..Remaining(working[o])
             /\ o \in DOMAIN openOrders => Remaining(working[o]) <= openOrders[o].remaining
  <2>1. o \in DOMAIN working /\ fills[o] \in 1..Remaining(working[o]) /\ working[o] \in Orders
    BY <1>5 DEF Filling
  <2>2. Remaining(working[o]) \in Int
    BY <2>1 DEF Remaining, Orders
  <2>3. QED
    BY <1>1, <1>3, <2>1, <2>2 DEF SoundWorking, ExecutionTypeOK
<1>6. SoundIds'
  <2>1. \A n \in 1..Len(issued) : issued[n] \in 1..emitted'
    BY <1>1, <1>2, <1>3 DEF SoundIds
  <2>2. QED
    BY <1>2, <1>3, <2>1 DEF SoundIds
<1>7. SoundWorking'
  <2>1. ASSUME NEW o \in DOMAIN working'
        PROVE  /\ 1 <= Remaining(working'[o]) /\ o \notin closed
               /\ o \in DOMAIN openOrders => Remaining(working'[o]) <= openOrders[o].remaining
    <3>1. o \in DOMAIN openOrders => openOrders[o].remaining \in Int
      BY <1>1 DEF PortfolioTypeOK, PendingOrders
    <3>2. /\ o \notin closed
          /\ o \in DOMAIN openOrders => Remaining(working[o]) <= openOrders[o].remaining
      BY <1>3, <1>4 DEF SoundWorking
    <3>3. QED
      BY <1>4, <3>1, <3>2
  <2>2. QED
    BY <1>2, <2>1 DEF SoundWorking, Remaining
<1>8. ASSUME NEW e \in SoundEvents
      PROVE  e \in SoundEvents'
  <2>1. e \in Events
    BY DEF SoundEvents, SoundOrders
  <2>2. e \in FreshSignals'
    BY <1>1, <1>2, <2>1 DEF SoundEvents, FreshSignals
  <2>3. e \in SoundOrders'
    <3>1. CASE IsSubmitted(e)
      <4>1. e \in Orders /\ e.id \in Nat /\ e.quantity \in Nat
        BY <2>1, <3>1, EventKinds DEF IsSubmitted, Orders
      <4>2. /\ e.status = "Rejected" => e.id \notin DOMAIN working'
            /\ e.id \in DOMAIN working' => Remaining(working'[e.id]) <= e.quantity
        <5>1. e \in SoundOrders
          BY DEF SoundEvents
        <5>2. /\ e.status = "Rejected" => e.id \notin DOMAIN working
              /\ e.id \in DOMAIN working => Remaining(working[e.id]) <= e.quantity
          BY <3>1, <5>1 DEF SoundOrders
        <5>3. QED
          BY <1>4, <4>1, <5>2
      <4>3. QED
        BY <1>2, <2>1, <3>1, <4>2 DEF SoundEvents, SoundOrders, Remaining
    <3>2. QED
      BY <2>1, <3>1 DEF SoundOrders
  <2>4. e \in SoundFills'
    <3>1. CASE e.type = "Fill"
      <4>1. e \in Fills /\ e.left \in Nat /\ Shares(e) \in Nat
        BY <2>1, <3>1, EventKinds, SharesOfFill DEF Fills
      <4>2. e.order \in DOMAIN working' =>
              /\ working'[e.order].symbol = e.symbol
              /\ working'[e.order].side = "Sell" <=> e.quantity < 0
              /\ Remaining(working'[e.order]) <= e.left - Shares(e)
        <5>1. e \in SoundFills
          BY DEF SoundEvents
        <5>2. e.order \in DOMAIN working =>
              /\ working[e.order].symbol = e.symbol
              /\ working[e.order].side = "Sell" <=> e.quantity < 0
              /\ Remaining(working[e.order]) <= e.left - Shares(e)
          BY <3>1, <5>1 DEF SoundFills
        <5>3. e.left - Shares(e) \in Int
          BY <4>1
        <5>4. QED
          BY <1>4, <5>2, <5>3
      <4>3. QED
        BY <1>2, <2>1, <3>1, <4>2 DEF SoundEvents, SoundFills, Remaining
    <3>2. QED
      BY <2>1, <3>1 DEF SoundFills
  <2>5. QED
    BY <2>2, <2>3, <2>4 DEF SoundEvents
<1>9. ASSUME NEW m \in 1..Len(out)
      PROVE  /\ out[m] \in SoundEvents' /\ ~IsSubmitted(out[m])
             /\ \A j \in 1..Len(queue) : j # i => Apart(queue[j], out[m])
  <2>1. out[m] \in Events
    BY <1>1
  <2>2. CASE \E o \in Executes(queue[i], fills) :
                /\ Filling(queue[i], fills, o)
                /\ out[m] = Executed(working[o], fills[o]) /\ out[m] \in Orders
                /\ out[m].type = "Order" /\ out[m].status \in {"PartiallyFilled", "Filled"}
    <3>1. out[m].type = "Order" /\ ~IsSubmitted(out[m])
      BY <2>2 DEF IsSubmitted
    <3>2. QED
      BY <2>1, <3>1 DEF SoundEvents, FreshSignals, SoundOrders, SoundFills, Apart
  <2>3. CASE \E o \in Executes(queue[i], fills) :
                /\ Filling(queue[i], fills, o) /\ IsFillOf(out[m], queue[i], fills, o)
                /\ out[m].type = "Fill" /\ out[m] \in Fills
    <3>1. PICK o \in Executes(queue[i], fills) :
                /\ Filling(queue[i], fills, o) /\ IsFillOf(out[m], queue[i], fills, o)
                /\ out[m].type = "Fill" /\ out[m] \in Fills
      BY <2>3
    <3> DEFINE f == out[m]
    <3>2. /\ f.order = o /\ f.symbol = queue[i].symbol /\ f.left = Remaining(working[o])
          /\ Shares(f) = fills[o] /\ (f.quantity < 0 <=> working[o].side = "Sell")
          /\ (f.status = "Filled" <=> fills[o] >= Remaining(working[o]))
          /\ f.type = "Fill" /\ working[o].symbol = queue[i].symbol
      BY <1>1, <3>1, FillSays DEF Filling
    <3>3. /\ o \in DOMAIN working /\ o \in 1..Len(issued) /\ o \notin closed
          /\ Remaining(working[o]) \in Nat /\ fills[o] \in 1..Remaining(working[o])
          /\ o \in DOMAIN openOrders => Remaining(working[o]) <= openOrders[o].remaining
      BY <1>5, <3>1
    <3> HIDE DEF f
    <3>4. o \in DOMAIN working' =>
             /\ working'[o].symbol = f.symbol
             /\ working'[o].side = "Sell" <=> f.quantity < 0
             /\ Remaining(working'[o]) <= f.left - Shares(f)
      BY <1>4, <3>1, <3>2, <3>3
    <3>5. /\ f.order \in 1..Len(issued) /\ f.order \notin closed
          /\ 1 <= Shares(f) /\ Shares(f) <= f.left
          /\ f.status = "Filled" <=> Shares(f) = f.left
          /\ f.order \in DOMAIN openOrders => f.left <= openOrders[f.order].remaining
      BY <3>2, <3>3
    <3>6. f \in SoundFills'
      BY <1>2, <2>1, <3>2, <3>4, <3>5 DEF SoundFills, f, Remaining
    <3>7. f \in SoundEvents' /\ ~IsSubmitted(f)
      BY <2>1, <3>2, <3>6 DEF SoundEvents, FreshSignals, SoundOrders, IsSubmitted, f
    <3>8. ASSUME NEW j \in 1..Len(queue), j # i
          PROVE  Apart(queue[j], f)
      <4>1. queue[j] \in SoundOrders /\ queue[j] \in SoundFills
        BY <1>3 DEF SoundEvents
      <4>2. (queue[j].type = "Fill" /\ queue[j].order = o) =>
               /\ queue[j].symbol = f.symbol /\ (queue[j].quantity < 0 <=> f.quantity < 0)
               /\ f.left <= queue[j].left - Shares(queue[j])
        BY <3>2, <3>3, <4>1 DEF SoundFills
      <4>3. (IsSubmitted(queue[j]) /\ queue[j].id = o) =>
               queue[j].status = "Working" /\ f.left <= queue[j].quantity
        BY <3>2, <3>3, <4>1 DEF SoundOrders, IsSubmitted
      <4>4. QED
        BY <3>2, <3>7, <4>2, <4>3 DEF Apart
    <3>9. QED
      BY <3>7, <3>8 DEF f
  <2>4. CASE \E n \in 1..Len(ideas) :
                /\ ideas[n] \in Ideas /\ emitted + n \in Nat
                /\ out[m] = SignalFrom(ideas[n], emitted + n, queue[i])
                /\ out[m].type = "Signal" /\ out[m] \in Signals
    <3>1. PICK n \in 1..Len(ideas) :
                /\ ideas[n] \in Ideas /\ emitted + n \in Nat
                /\ out[m] = SignalFrom(ideas[n], emitted + n, queue[i])
                /\ out[m].type = "Signal" /\ out[m] \in Signals
      BY <2>4
    <3>2. out[m].id = emitted + n
      BY <3>1 DEF SignalFrom
    <3>3. out[m].id \in 1..emitted' /\ \A x \in 1..Len(issued) : issued[x] # out[m].id
      BY <1>1, <1>2, <1>3, <3>2 DEF SoundIds
    <3>4. out[m] \in SoundEvents' /\ ~IsSubmitted(out[m])
      BY <1>2, <2>1, <3>1, <3>3 DEF SoundEvents, FreshSignals, SoundOrders, SoundFills, IsSubmitted
    <3>5. \A j \in 1..Len(queue) : queue[j].type = "Signal" => queue[j].id # out[m].id
      BY <1>1, <1>3, <3>2 DEF SoundEvents, FreshSignals
    <3>6. QED
      BY <3>1, <3>4, <3>5 DEF Apart
  <2>5. QED
    BY <2>2, <2>3, <2>4, NewsIs
<1>10. ASSUME NEW m \in 1..Len(out), NEW n \in 1..Len(out), m < n
       PROVE  Apart(out[m], out[n])
  <2>1. m # n
    BY <1>10
  <2>2. QED
    BY <1>9, <2>1 DEF BarNews, Apart
<1>11. EventsApart'
  BY <1>1, <1>3, <1>9, <1>10, AllApart
<1>12. \A k \in 1..Len(queue') : queue'[k] \in SoundEvents'
  BY <1>1, <1>3, <1>8, <1>9, All
<1>13. OpenedFirst'
  <2>1. SUFFICES ASSUME bus = "InProcess" PROVE OpenedFirst'
    BY <1>2 DEF OpenedFirst
  <2>2. ASSUME NEW o \in DOMAIN working \ DOMAIN openOrders
        PROVE  \E j \in 1..Len(queue) : j # i /\ IsOpening(queue[j], o)
    <3>1. queue[i].type = "MarketData"
      BY <1>1 DEF MarketEvents
    <3>2. QED
      BY <1>3, <2>1, <2>2, <3>1 DEF OpenedFirst, IsOpening
  <2>3. ASSUME NEW o \in DOMAIN working' \ DOMAIN openOrders
        PROVE  \E j \in 1..Len(queue') : IsOpening(queue'[j], o)
    <3>1. PICK j \in 1..Len(queue) : j # i /\ IsOpening(queue[j], o)
      BY <1>4, <2>2, <2>3
    <3>2. QED
      BY <1>1, <2>1, <3>1, Stays
  <2>4. ASSUME NEW k \in 1..Len(queue'), queue'[k].type = "Fill",
               queue'[k].order \notin DOMAIN openOrders
        PROVE  \E l \in 1..Len(queue') : l < k /\ IsOpening(queue'[l], queue'[k].order)
    <3>1. CASE KeptBehind(k, i)
      <4>1. PICK h \in 1..Len(queue) :
               /\ h # i /\ queue'[k] = queue[h]
               /\ \A j \in 1..Len(queue) : (j # i /\ j < h) =>
                     \E l \in 1..Len(queue') : l < k /\ queue'[l] = queue[j]
        BY <3>1 DEF KeptBehind
      <4>2. PICK j \in 1..Len(queue) : j < h /\ IsOpening(queue[j], queue[h].order)
        BY <1>3, <2>1, <2>4, <4>1 DEF OpenedFirst
      <4>3. j # i
        BY <1>1, <4>2 DEF IsOpening, MarketEvents
      <4>4. QED
        BY <4>1, <4>2, <4>3
    <3>2. CASE SentBehind(k, i, out)
      <4>1. PICK m \in 1..Len(out) :
               /\ queue'[k] = out[m]
               /\ \A j \in 1..Len(queue) : j # i =>
                     \E l \in 1..Len(queue') : l < k /\ queue'[l] = queue[j]
        BY <3>2 DEF SentBehind
      <4>2. PICK o \in Executes(queue[i], fills) :
               Filling(queue[i], fills, o) /\ IsFillOf(out[m], queue[i], fills, o)
        BY <2>4, <4>1, NewsIs
      <4>3. out[m].order = o /\ o \in DOMAIN working
        BY <1>1, <4>2, FillSays DEF Filling
      <4>4. PICK j \in 1..Len(queue) : j # i /\ IsOpening(queue[j], o)
        BY <2>2, <2>4, <4>1, <4>3
      <4>5. QED
        BY <4>1, <4>3, <4>4
    <3>3. QED
      BY <1>1, <2>1, <3>1, <3>2, Stays
  <2>5. QED
    BY <1>2, <2>3, <2>4 DEF OpenedFirst
<1>14. QED
  BY <1>6, <1>7, <1>11, <1>12, <1>13 DEF Books
-----------------------------------------------------------------------------
(* A signal.                                                               *)

(* An approved signal is new to the portfolio, and its order to everyone.  *)
LEMMA ApprovedIsNew ==
  ASSUME FlowTypeOK, Books, NEW i, NEW out, TakesSignal(i, out), NEW signal, NEW order,
         Approved(queue[i], signal, order, out)
  PROVE  /\ queue[i].id \in 1..emitted /\ queue[i].id \notin DOMAIN holds
         /\ \A n \in 1..Len(issued) : issued[n] # queue[i].id
         /\ holds' = Put(holds, queue[i].id, HoldFor(signal))
         /\ DOMAIN holds' = DOMAIN holds \cup {queue[i].id}
         /\ holds'[queue[i].id] = HoldFor(signal)
         /\ \A s \in DOMAIN holds : holds'[s] = holds[s]
         /\ UNCHANGED <<cash, position, marks, openOrders, closed, lastSequence, appliedFills>>
         /\ issued \in Seq(Nat) /\ issued' \in Seq(Nat) /\ Len(issued) \in Nat
         /\ Len(issued') = Len(issued) + 1 /\ issued'[Len(issued) + 1] = queue[i].id
         /\ \A n \in 1..Len(issued) : issued'[n] = issued[n]
         /\ order.id \notin DOMAIN working /\ order.id \notin 1..Len(issued)
         /\ order.id \in 1..Len(issued')
<1>1. /\ i \in 1..Len(queue) /\ queue[i] \in Signals /\ issued \in Seq(Nat)
      /\ DOMAIN working \subseteq 1..Len(issued)
  BY DEF TakesSignal, FlowTypeOK, TypeOK, ExecutionTypeOK
<1>2. queue[i].type = "Signal" /\ queue[i].id \in Nat
  BY <1>1 DEF Signals
<1>3. queue[i].id \in 1..emitted /\ \A n \in 1..Len(issued) : issued[n] # queue[i].id
  BY <1>1, <1>2 DEF Books, SoundEvents, FreshSignals
<1>4. queue[i].id \notin DOMAIN holds
  BY <1>3 DEF Books, SoundIds
<1>5. /\ holds' = Put(holds, queue[i].id, HoldFor(signal))
      /\ UNCHANGED <<cash, position, marks, openOrders, closed, lastSequence, appliedFills>>
  BY <1>4 DEF Approved, HoldForSignal
<1>6. /\ DOMAIN holds' = DOMAIN holds \cup {queue[i].id}
      /\ holds'[queue[i].id] = HoldFor(signal)
      /\ \A s \in DOMAIN holds : holds'[s] = holds[s]
  BY <1>4, <1>5 DEF Put
<1>7. /\ issued' \in Seq(Nat) /\ Len(issued) \in Nat
      /\ Len(issued') = Len(issued) + 1 /\ issued'[Len(issued) + 1] = queue[i].id
      /\ \A n \in 1..Len(issued) : issued'[n] = issued[n]
  BY <1>1, <1>2 DEF Approved
<1>8. order.id = Len(issued) + 1
  BY DEF Approved
<1>9. /\ order.id \notin 1..Len(issued) /\ order.id \in 1..Len(issued')
  BY <1>7, <1>8
<1>10. QED
  BY <1>1, <1>3, <1>4, <1>5, <1>6, <1>7, <1>9

LEMMA ApprovalKeepsBooks ==
  ASSUME FlowTypeOK, Books, NEW i, NEW out, TakesSignal(i, out), NEW signal, NEW order,
         Approved(queue[i], signal, order, out)
  PROVE  Books'
<1>1. /\ queue \in Seq(Events) /\ ExecutionTypeOK /\ PortfolioTypeOK
      /\ i \in 0..Len(queue) /\ i \in 1..Len(queue) /\ queue[i] \in Signals
      /\ Queued(i, out) /\ out = <<order>> /\ out \in Seq(Events)
      /\ 1..Len(out) = {1} /\ out[1] = order
  BY DEF FlowTypeOK, TypeOK, TakesSignal, Approved
<1>2. UNCHANGED <<emitted, bus>>
  BY SignalOutcome DEF TakesSignal, pipelineVars
<1>3. /\ SoundIds /\ SoundWorking /\ OpenedFirst /\ EventsApart
      /\ \A k \in 1..Len(queue) : queue[k] \in SoundEvents
  BY DEF Books
<1> DEFINE id == queue[i].id
<1>4. /\ id \in 1..emitted /\ id \notin DOMAIN holds
      /\ \A n \in 1..Len(issued) : issued[n] # id
      /\ DOMAIN holds' = DOMAIN holds \cup {id} /\ holds'[id] = HoldFor(signal)
      /\ \A s \in DOMAIN holds : holds'[s] = holds[s]
      /\ UNCHANGED <<openOrders, closed>>
      /\ Len(issued) \in Nat
      /\ Len(issued') = Len(issued) + 1 /\ issued'[Len(issued) + 1] = id
      /\ \A n \in 1..Len(issued) : issued'[n] = issued[n]
      /\ order.id \notin DOMAIN working /\ order.id \notin 1..Len(issued)
      /\ order.id \in 1..Len(issued')
  BY ApprovedIsNew
<1>5. /\ order.type = "Order" /\ order.id = Len(issued) + 1 /\ order.signal = id
      /\ order \in Orders /\ order \in Events /\ order.filled = 0 /\ order.quantity \in Nat
      /\ order.side = OrderSide(signal) /\ order.symbol = signal.symbol
      /\ order.quantity = signal.quantity
      /\ order.status \in {"Working", "Rejected"}
      /\ order.status = "Working" => order.quantity > 0
      /\ DOMAIN working' = DOMAIN working \cup {x \in {order.id} : order.status = "Working"}
      /\ \A x \in DOMAIN working : x # order.id => working'[x] = working[x]
      /\ order.status = "Working" => working'[order.id] = order
  <2>1. order.status = "Working" => order.quantity > 0
    BY DEF Approved, Refused, Orders
  <2>2. order \in Events
    BY DEF Approved, Events
  <2>3. order.quantity \in Nat
    BY DEF Approved, Orders
  <2>4. QED
    BY <2>1, <2>2, <2>3 DEF Approved
<1>6. /\ holds'[id].symbol = order.symbol /\ holds'[id].side = order.side
      /\ holds'[id].quantity = order.quantity
  BY <1>4, <1>5 DEF HoldFor
<1> HIDE DEF id
<1>7. Remaining(order) = order.quantity
  BY <1>5 DEF Remaining
<1>8. 1..Len(issued') = 1..Len(issued) \cup {order.id}
  BY <1>4, <1>5
<1>9. SoundIds'
  <2>1. ASSUME NEW n \in 1..Len(issued')
        PROVE  \/ n \in 1..Len(issued) /\ issued'[n] = issued[n] /\ issued'[n] # id
               \/ n = order.id /\ issued'[n] = id
    BY <1>4, <1>5, <1>8
  <2>2. \A n \in 1..Len(issued') : issued'[n] \in 1..emitted'
    BY <1>2, <1>3, <1>4, <2>1 DEF SoundIds
  <2>3. \A n, m \in 1..Len(issued') : issued'[n] = issued'[m] => n = m
    BY <1>3, <2>1 DEF SoundIds
  <2>4. ASSUME NEW s \in DOMAIN holds'
        PROVE  \E n \in 1..Len(issued') : issued'[n] = s
    <3>1. CASE s = id
      BY <1>4, <1>5, <3>1
    <3>2. CASE s \in DOMAIN holds
      <4>1. PICK n \in 1..Len(issued) : issued[n] = s
        BY <1>3, <3>2 DEF SoundIds
      <4>2. n \in 1..Len(issued') /\ issued'[n] = s
        BY <1>4, <1>8, <4>1
      <4>3. QED
        BY <4>2
    <3>3. QED
      BY <1>4, <2>4, <3>1, <3>2
  <2>5. QED
    BY <1>3, <1>4, <1>8, <2>2, <2>3, <2>4 DEF SoundIds
<1>10. SoundWorking'
  <2>1. ASSUME NEW o \in DOMAIN working'
        PROVE  /\ 1 <= Remaining(working'[o]) /\ o \notin closed
               /\ o \in DOMAIN openOrders => Remaining(working'[o]) <= openOrders[o].remaining
    <3>1. CASE o \in DOMAIN working
      BY <1>3, <1>4, <1>5, <3>1 DEF SoundWorking
    <3>2. CASE o = order.id /\ working'[o] = order
      BY <1>3, <1>4, <1>5, <1>7, <2>1, <3>2 DEF SoundIds
    <3>3. QED
      BY <1>5, <3>1, <3>2
  <2>2. QED
    BY <1>4, <2>1 DEF SoundWorking, Remaining
<1>11. ASSUME NEW e \in SoundEvents, e.type = "Signal" => e.id # id
       PROVE  e \in SoundEvents'
  <2>1. e \in Events /\ e \in FreshSignals /\ e \in SoundOrders /\ e \in SoundFills
    BY DEF SoundEvents, SoundOrders
  <2>2. e \in FreshSignals'
    BY <1>2, <1>4, <1>5, <1>8, <1>11, <2>1 DEF FreshSignals
  <2>3. e \in SoundOrders'
    <3>1. CASE IsSubmitted(e)
      <4>1. /\ e.id \in 1..Len(issued) /\ e.signal \in DOMAIN holds
        BY <2>1, <3>1 DEF SoundOrders
      <4>2. e.id \in DOMAIN working' <=> e.id \in DOMAIN working
        BY <1>4, <1>5, <4>1
      <4>3. e.id \in DOMAIN working => working'[e.id] = working[e.id]
        BY <1>4, <1>5, <4>1
      <4>4. /\ e.id \in 1..Len(issued') /\ issued'[e.id] = issued[e.id]
            /\ e.signal \in DOMAIN holds' /\ holds'[e.signal] = holds[e.signal]
        BY <1>4, <1>8, <4>1
      <4>5. QED
        BY <1>2, <1>4, <2>1, <3>1, <4>2, <4>3, <4>4 DEF SoundOrders, Remaining
    <3>2. QED
      BY <2>1, <3>1 DEF SoundOrders
  <2>4. e \in SoundFills'
    <3>1. CASE e.type = "Fill"
      <4>1. e.order \in 1..Len(issued)
        BY <2>1, <3>1 DEF SoundFills
      <4>2. /\ e.order \in DOMAIN working' <=> e.order \in DOMAIN working
            /\ e.order \in DOMAIN working => working'[e.order] = working[e.order]
        BY <1>4, <1>5, <4>1
      <4>3. QED
        BY <1>4, <1>8, <2>1, <3>1, <4>1, <4>2 DEF SoundFills, Remaining
    <3>2. QED
      BY <2>1, <3>1 DEF SoundFills
  <2>5. QED
    BY <2>2, <2>3, <2>4 DEF SoundEvents
<1>12. \A j \in 1..Len(queue) : j # i => queue[j] \in SoundEvents'
  <2> SUFFICES ASSUME NEW j \in 1..Len(queue), j # i PROVE queue[j] \in SoundEvents'
    OBVIOUS
  <2>1. queue[i].type = "Signal"
    BY <1>1 DEF Signals
  <2>2. queue[j].type = "Signal" => queue[j].id # id
    <3>1. j < i \/ i < j
      BY <1>1
    <3>2. QED
      BY <1>1, <1>3, <2>1, <3>1 DEF EventsApart, Apart, id
  <2>3. QED
    BY <1>3, <1>11, <2>2
<1>13. order \in SoundEvents' /\ \A j \in 1..Len(queue) : Apart(queue[j], order)
  <2>1. order \in FreshSignals' /\ order \in SoundFills'
    BY <1>5 DEF FreshSignals, SoundFills
  <2>2. order \in SoundOrders'
    <3>1. /\ order.status = "Rejected" => order.id \notin DOMAIN working'
          /\ order.id \in DOMAIN working' => Remaining(working'[order.id]) <= order.quantity
      BY <1>4, <1>5, <1>7
    <3>2. order.id \notin DOMAIN openOrders /\ order.id \notin closed
      BY <1>3, <1>4 DEF SoundIds
    <3>3. QED
      BY <1>4, <1>5, <1>6, <3>1, <3>2 DEF SoundOrders, Remaining
  <2>3. \A j \in 1..Len(queue) :
           /\ IsSubmitted(queue[j]) => queue[j].id # order.id
           /\ queue[j].type = "Fill" => queue[j].order # order.id
    BY <1>3, <1>4 DEF SoundEvents, SoundOrders, SoundFills
  <2>4. QED
    BY <1>5, <2>1, <2>2, <2>3 DEF SoundEvents, Apart
<1>14. EventsApart'
  <2>1. \A j \in 1..Len(queue), m \in 1..Len(out) : j # i => Apart(queue[j], out[m])
    BY <1>1, <1>13
  <2>2. \A m, n \in 1..Len(out) : m < n => Apart(out[m], out[n])
    BY <1>1
  <2>3. QED
    BY <1>1, <1>3, <2>1, <2>2, AllApart
<1>15. \A k \in 1..Len(queue') : queue'[k] \in SoundEvents'
  <2>1. \A m \in 1..Len(out) : out[m] \in SoundEvents'
    BY <1>1, <1>13
  <2>2. QED
    BY <1>1, <1>12, <2>1, All
<1>16. OpenedFirst'
  <2>1. SUFFICES ASSUME bus = "InProcess" PROVE OpenedFirst'
    BY <1>2 DEF OpenedFirst
  <2>2. queue[i].type = "Signal"
    BY <1>1 DEF Signals
  <2>3. ASSUME NEW o \in DOMAIN working' \ DOMAIN openOrders
        PROVE  \E j \in 1..Len(queue') : IsOpening(queue'[j], o)
    <3>1. CASE o \in DOMAIN working
      <4>1. PICK j \in 1..Len(queue) : IsOpening(queue[j], o)
        BY <1>3, <2>1, <2>3, <3>1 DEF OpenedFirst
      <4>2. j # i
        BY <2>2, <4>1 DEF IsOpening
      <4>3. QED
        BY <1>1, <2>1, <4>1, <4>2, Stays
    <3>2. CASE o = order.id /\ order.status = "Working"
      <4>1. IsOpening(out[1], o)
        BY <1>1, <1>5, <3>2 DEF IsOpening
      <4>2. 1 \in 1..Len(out)
        BY <1>1
      <4>3. PICK l \in 1..Len(queue') : queue'[l] = out[1]
        BY <1>1, <2>1, <4>2, Stays
      <4>4. QED
        BY <4>1, <4>3
    <3>3. QED
      BY <1>5, <3>1, <3>2
  <2>4. ASSUME NEW k \in 1..Len(queue'), queue'[k].type = "Fill",
               queue'[k].order \notin DOMAIN openOrders
        PROVE  \E l \in 1..Len(queue') : l < k /\ IsOpening(queue'[l], queue'[k].order)
    <3>1. ~SentBehind(k, i, out)
      BY <1>1, <1>5, <2>4 DEF SentBehind
    <3>2. PICK h \in 1..Len(queue) :
             /\ h # i /\ queue'[k] = queue[h]
             /\ \A j \in 1..Len(queue) : (j # i /\ j < h) =>
                   \E l \in 1..Len(queue') : l < k /\ queue'[l] = queue[j]
      BY <1>1, <2>1, <3>1, Stays DEF KeptBehind
    <3>3. PICK j \in 1..Len(queue) : j < h /\ IsOpening(queue[j], queue[h].order)
      BY <1>3, <2>1, <2>4, <3>2 DEF OpenedFirst
    <3>4. j # i
      BY <2>2, <3>3 DEF IsOpening
    <3>5. QED
      BY <3>2, <3>3, <3>4
  <2>5. QED
    BY <1>2, <1>4, <2>3, <2>4 DEF OpenedFirst
<1>17. QED
  BY <1>9, <1>10, <1>14, <1>15, <1>16 DEF Books
-----------------------------------------------------------------------------
(* The steps that leave the order path's books alone.                      *)

LEMMA QuietKeepsBooks ==
  ASSUME queue \in Seq(Events), Books, NEW out \in Seq(Events), NEW i \in 0..Len(queue),
         Queued(i, out), \A m \in 1..Len(out) : out[m].type = "MarketData",
         UNCHANGED <<issued, holds, openOrders, closed, bus, working, emitted>>,
         bus = "InProcess" => \A j \in 1..Len(queue) : \A o : j = i => ~IsOpening(queue[j], o)
  PROVE  Books'
<1>1. /\ SoundIds /\ SoundWorking /\ OpenedFirst /\ EventsApart
      /\ \A k \in 1..Len(queue) : queue[k] \in SoundEvents
  BY DEF Books
<1>2. SoundIds' /\ SoundWorking' /\ SoundEvents' = SoundEvents
  BY <1>1 DEF SoundIds, SoundWorking, SoundEvents, FreshSignals, SoundOrders, SoundFills, Remaining
<1>3. EventsApart'
  <2>1. \A j \in 1..Len(queue), m \in 1..Len(out) : j # i => Apart(queue[j], out[m])
    BY DEF Apart, IsSubmitted
  <2>2. \A m, n \in 1..Len(out) : m < n => Apart(out[m], out[n])
    BY DEF Apart, IsSubmitted
  <2>3. QED
    BY <1>1, <2>1, <2>2, AllApart
<1>4. \A k \in 1..Len(queue') : queue'[k] \in SoundEvents'
  <2>1. \A m \in 1..Len(out) : out[m] \in SoundEvents
    <3>1. \A m \in 1..Len(out) : out[m] \in Events
      OBVIOUS
    <3>2. QED
      BY <3>1 DEF SoundEvents, FreshSignals, SoundOrders, SoundFills, IsSubmitted
  <2>2. QED
    BY <1>1, <1>2, <2>1, All
<1>5. OpenedFirst'
  <2>1. SUFFICES ASSUME bus = "InProcess" PROVE OpenedFirst'
    BY DEF OpenedFirst
  <2>2. ASSUME NEW o \in DOMAIN working' \ DOMAIN openOrders
        PROVE  \E j \in 1..Len(queue') : IsOpening(queue'[j], o)
    <3>1. PICK j \in 1..Len(queue) : IsOpening(queue[j], o)
      BY <1>1, <2>1, <2>2 DEF OpenedFirst
    <3>2. j # i
      BY <2>1, <3>1
    <3>3. QED
      BY <2>1, <3>1, <3>2, Stays
  <2>3. ASSUME NEW k \in 1..Len(queue'), queue'[k].type = "Fill",
               queue'[k].order \notin DOMAIN openOrders
        PROVE  \E l \in 1..Len(queue') : l < k /\ IsOpening(queue'[l], queue'[k].order)
    <3>1. ~SentBehind(k, i, out)
      BY <2>3 DEF SentBehind
    <3>2. PICK h \in 1..Len(queue) :
             /\ h # i /\ queue'[k] = queue[h]
             /\ \A j \in 1..Len(queue) : (j # i /\ j < h) =>
                   \E l \in 1..Len(queue') : l < k /\ queue'[l] = queue[j]
      BY <2>1, <3>1, Stays DEF KeptBehind
    <3>3. PICK j \in 1..Len(queue) : j < h /\ IsOpening(queue[j], queue[h].order)
      BY <1>1, <2>1, <2>3, <3>2 DEF OpenedFirst
    <3>4. j # i
      BY <2>1, <3>3
    <3>5. QED
      BY <3>2, <3>3, <3>4
  <2>4. QED
    BY <2>2, <2>3 DEF OpenedFirst
<1>6. QED
  BY <1>2, <1>3, <1>4, <1>5 DEF Books

LEMMA TakenKeeps ==
  ASSUME queue \in Seq(Events), NEW i, Queued(i, <<>>)
  PROVE  /\ EventsApart => EventsApart'
         /\ \A S : (\A j \in 1..Len(queue) : j # i => queue[j] \in S) =>
                      \A k \in 1..Len(queue') : queue'[k] \in S
<1>1. <<>> \in Seq(Events) /\ 1..Len(<<>>) = {}
  OBVIOUS
<1>2. ASSUME EventsApart PROVE EventsApart'
  BY <1>1, <1>2, AllApart
<1>3. ASSUME NEW S, \A j \in 1..Len(queue) : j # i => queue[j] \in S
      PROVE  \A k \in 1..Len(queue') : queue'[k] \in S
  BY <1>1, <1>3, Taken
<1>4. QED
  BY <1>2, <1>3

(* What one taken event leaves of the order of the others.                 *)
LEMMA StillOpenedFirst ==
  ASSUME queue \in Seq(Events), NEW i \in 1..Len(queue), Queued(i, <<>>), OpenedFirst,
         bus = "InProcess", UNCHANGED bus, UNCHANGED working,
         \A j \in 1..Len(queue) :
            (j # i /\ queue[j].type = "Fill" /\ queue[j].order \notin DOMAIN openOrders') =>
               queue[j].order \notin DOMAIN openOrders,
         \A o \in DOMAIN working : o \notin DOMAIN openOrders' => o \notin DOMAIN openOrders,
         \A o : IsOpening(queue[i], o) => o \in DOMAIN openOrders'
  PROVE  OpenedFirst'
<1>1. <<>> \in Seq(Events) /\ 1..Len(<<>>) = {} /\ i \in 0..Len(queue)
  OBVIOUS
<1>2. ASSUME NEW o \in DOMAIN working \ DOMAIN openOrders'
      PROVE  \E j \in 1..Len(queue') : IsOpening(queue'[j], o)
  <2>1. PICK j \in 1..Len(queue) : IsOpening(queue[j], o)
    BY <1>2 DEF OpenedFirst
  <2>2. j # i
    BY <1>2, <2>1
  <2>3. QED
    BY <1>1, <2>1, <2>2, Stays
<1>3. ASSUME NEW k \in 1..Len(queue'), queue'[k].type = "Fill",
             queue'[k].order \notin DOMAIN openOrders'
      PROVE  \E l \in 1..Len(queue') : l < k /\ IsOpening(queue'[l], queue'[k].order)
  <2>1. ~SentBehind(k, i, <<>>)
    BY <1>1 DEF SentBehind
  <2>2. KeptBehind(k, i)
    BY <1>1, <2>1, Stays
  <2>3. PICK h \in 1..Len(queue) :
           /\ h # i /\ queue'[k] = queue[h]
           /\ \A j \in 1..Len(queue) : (j # i /\ j < h) =>
                 \E l \in 1..Len(queue') : l < k /\ queue'[l] = queue[j]
    BY <2>2 DEF KeptBehind
  <2>4. PICK j \in 1..Len(queue) : j < h /\ IsOpening(queue[j], queue[h].order)
    BY <1>3, <2>3 DEF OpenedFirst
  <2>5. j # i
    BY <1>3, <2>3, <2>4
  <2>6. QED
    BY <2>3, <2>4, <2>5
<1>4. QED
  BY <1>2, <1>3 DEF OpenedFirst

-----------------------------------------------------------------------------
(* An order event.                                                         *)

(* What is known of a new order, or a refused one, as it is delivered.     *)
LEMMA SubmittedIs ==
  ASSUME FlowTypeOK, Books, NEW i \in 1..Len(queue), IsSubmitted(queue[i])
  PROVE  LET e == queue[i] IN
         /\ e \in Orders /\ e.id \in 1..Len(issued) /\ e.signal = issued[e.id] /\ e.filled = 0
         /\ e.status = "Working" => e.quantity > 0
         /\ e.status = "Rejected" => e.id \notin DOMAIN working
         /\ e.id \notin DOMAIN openOrders
         /\ e.signal \in DOMAIN holds
         /\ holds[e.signal].symbol = e.symbol /\ holds[e.signal].side = e.side
         /\ holds[e.signal].quantity = e.quantity
         /\ e.id \in DOMAIN working => Remaining(working[e.id]) <= e.quantity
         /\ bus = "InProcess" => e.id \notin closed /\ (e.status = "Working" => Opens(e))
         /\ \A j \in 1..Len(queue) : (j # i /\ IsSubmitted(queue[j])) =>
               queue[j].id # e.id /\ queue[j].signal # e.signal
         /\ \A j \in 1..Len(queue) : (queue[j].type = "Fill" /\ queue[j].order = e.id) =>
               e.status = "Working" /\ queue[j].left <= e.quantity
<1> DEFINE e == queue[i]
<1>1. /\ queue \in Seq(Events) /\ e \in SoundOrders /\ e.type = "Order" /\ e \in Orders
  BY EventKinds DEF FlowTypeOK, TypeOK, Books, SoundEvents, IsSubmitted
<1>2. /\ e.id \in 1..Len(issued) /\ e.signal = issued[e.id] /\ e.filled = 0
      /\ e.status = "Working" => e.quantity > 0
      /\ e.status = "Rejected" => e.id \notin DOMAIN working
      /\ e.id \notin DOMAIN openOrders
      /\ e.signal \in DOMAIN holds
      /\ holds[e.signal].symbol = e.symbol /\ holds[e.signal].side = e.side
      /\ holds[e.signal].quantity = e.quantity
      /\ e.id \in DOMAIN working => Remaining(working[e.id]) <= e.quantity
      /\ bus = "InProcess" => e.id \notin closed
  BY <1>1 DEF SoundOrders
<1>3. bus = "InProcess" => (e.status = "Working" => Opens(e))
  BY <1>2 DEF Opens
<1>4. ASSUME NEW j \in 1..Len(queue), j # i, IsSubmitted(queue[j])
      PROVE  queue[j].id # e.id /\ queue[j].signal # e.signal
  <2>1. j < i \/ i < j
    BY <1>4
  <2>2. queue[j].id # e.id
    BY <1>4, <2>1 DEF Books, EventsApart, Apart
  <2>3. queue[j].id \in 1..Len(issued) /\ queue[j].signal = issued[queue[j].id]
    BY <1>4 DEF Books, SoundEvents, SoundOrders
  <2>4. QED
    BY <1>2, <2>2, <2>3 DEF Books, SoundIds
<1>5. ASSUME NEW j \in 1..Len(queue), queue[j].type = "Fill", queue[j].order = e.id
      PROVE  e.status = "Working" /\ queue[j].left <= e.quantity
  <2>1. j < i \/ i < j
    BY <1>1, <1>5
  <2>2. QED
    BY <1>5, <2>1 DEF Books, EventsApart, Apart
<1>6. QED
  BY <1>1, <1>2, <1>3, <1>4, <1>5

LEMMA OpenKeepsBooks ==
  ASSUME FlowTypeOK, Books, NEW i, TakesOrder(i), OpenOrder(queue[i])
  PROVE  Books'
<1> DEFINE e == queue[i]
<1>1. /\ queue \in Seq(Events) /\ PortfolioTypeOK /\ ExecutionTypeOK /\ i \in 1..Len(queue)
      /\ Queued(i, <<>>) /\ e \in Orders /\ e.status = "Working" /\ IsSubmitted(e)
      /\ e.id \notin closed
  BY DEF FlowTypeOK, TypeOK, TakesOrder, OpenOrder, Opens, IsSubmitted, Orders
<1>2. /\ UNCHANGED <<issued, closed, bus, working, emitted>>
      /\ openOrders' = Put(openOrders, e.id, Pending(e)) /\ holds' = Drop(holds, e.signal)
  BY DEF TakesOrder, HandleOrder, OpenOrder, executionVars, pipelineVars
<1>3. /\ SoundIds /\ SoundWorking /\ OpenedFirst /\ EventsApart
      /\ \A k \in 1..Len(queue) : queue[k] \in SoundEvents
  BY DEF Books
<1>4. /\ e.id \in 1..Len(issued) /\ e.filled = 0 /\ e.quantity \in Nat
      /\ e.id \notin DOMAIN openOrders
      /\ e.id \in DOMAIN working => Remaining(working[e.id]) <= e.quantity
      /\ \A j \in 1..Len(queue) : (j # i /\ IsSubmitted(queue[j])) =>
               queue[j].id # e.id /\ queue[j].signal # e.signal
      /\ \A j \in 1..Len(queue) : (queue[j].type = "Fill" /\ queue[j].order = e.id) =>
               queue[j].left <= e.quantity
  BY <1>1, SubmittedIs DEF Orders
<1>5. /\ DOMAIN openOrders' = DOMAIN openOrders \cup {e.id}
      /\ openOrders'[e.id].remaining = e.quantity
      /\ \A o \in DOMAIN openOrders : openOrders'[o] = openOrders[o]
      /\ DOMAIN holds' = DOMAIN holds \ {e.signal}
      /\ \A s \in DOMAIN holds' : holds'[s] = holds[s]
  <2>1. Pending(e).remaining = e.quantity
    BY <1>4 DEF Pending
  <2>2. QED
    BY <1>2, <1>4, <2>1 DEF Put, Drop
<1> HIDE DEF e
<1>6. SoundIds'
  <2>1. DOMAIN openOrders' \subseteq 1..Len(issued) /\ DOMAIN openOrders' \cap closed = {}
    BY <1>1, <1>3, <1>4, <1>5 DEF SoundIds, e
  <2>2. \A s \in DOMAIN holds' : \E n \in 1..Len(issued) : issued[n] = s
    BY <1>3, <1>5 DEF SoundIds
  <2>3. QED
    BY <1>2, <1>3, <2>1, <2>2 DEF SoundIds
<1>7. SoundWorking'
  <2>1. ASSUME NEW o \in DOMAIN working
        PROVE  /\ 1 <= Remaining(working[o]) /\ o \notin closed
               /\ o \in DOMAIN openOrders' => Remaining(working[o]) <= openOrders'[o].remaining
    BY <1>3, <1>4, <1>5 DEF SoundWorking
  <2>2. QED
    BY <1>2, <2>1 DEF SoundWorking, Remaining
<1>8. ASSUME NEW j \in 1..Len(queue), j # i
      PROVE  queue[j] \in SoundEvents'
  <2>1. /\ queue[j] \in Events /\ queue[j] \in FreshSignals /\ queue[j] \in SoundOrders
        /\ queue[j] \in SoundFills
    BY <1>3 DEF SoundEvents, SoundOrders
  <2>2. queue[j] \in FreshSignals'
    BY <1>2, <2>1 DEF FreshSignals
  <2>3. queue[j] \in SoundOrders'
    <3>1. CASE IsSubmitted(queue[j])
      <4>1. queue[j].id # e.id /\ queue[j].signal # e.signal
        BY <1>4, <1>8, <3>1
      <4>2. /\ queue[j].id \notin DOMAIN openOrders' /\ queue[j].signal \in DOMAIN holds'
            /\ holds'[queue[j].signal] = holds[queue[j].signal]
        BY <1>5, <2>1, <3>1, <4>1 DEF SoundOrders
      <4>3. QED
        BY <1>2, <2>1, <3>1, <4>2 DEF SoundOrders, Remaining
    <3>2. QED
      BY <2>1, <3>1 DEF SoundOrders
  <2>4. queue[j] \in SoundFills'
    <3>1. CASE queue[j].type = "Fill"
      <4>1. queue[j].order \in DOMAIN openOrders' =>
               queue[j].left <= openOrders'[queue[j].order].remaining
        BY <1>4, <1>5, <2>1, <3>1 DEF SoundFills
      <4>2. QED
        BY <1>2, <2>1, <3>1, <4>1 DEF SoundFills, Remaining
    <3>2. QED
      BY <2>1, <3>1 DEF SoundFills
  <2>5. QED
    BY <2>2, <2>3, <2>4 DEF SoundEvents
<1>9. EventsApart' /\ \A k \in 1..Len(queue') : queue'[k] \in SoundEvents'
  BY <1>1, <1>3, <1>8, TakenKeeps
<1>10. OpenedFirst'
  <2>1. SUFFICES ASSUME bus = "InProcess" PROVE OpenedFirst'
    BY <1>2 DEF OpenedFirst
  <2>2. \A o : IsOpening(queue[i], o) => o \in DOMAIN openOrders'
    BY <1>5 DEF IsOpening, e
  <2>3. QED
    BY <1>1, <1>2, <1>3, <1>5, <2>1, <2>2, StillOpenedFirst
<1>11. QED
  BY <1>6, <1>7, <1>9, <1>10 DEF Books

LEMMA ReleaseKeepsBooks ==
  ASSUME FlowTypeOK, Books, NEW i, TakesOrder(i), ReleaseOrder(queue[i])
  PROVE  Books'
<1> DEFINE e == queue[i]
<1>1. /\ queue \in Seq(Events) /\ PortfolioTypeOK /\ ExecutionTypeOK /\ i \in 1..Len(queue)
      /\ Queued(i, <<>>) /\ e \in Orders /\ e.status = "Rejected" /\ IsSubmitted(e)
  BY DEF FlowTypeOK, TypeOK, TakesOrder, ReleaseOrder, IsSubmitted, Orders
<1>2. /\ UNCHANGED <<issued, bus, working, emitted>>
      /\ openOrders' = Drop(openOrders, e.id) /\ holds' = Drop(holds, e.signal)
      /\ closed' = closed \cup {e.id}
  BY DEF TakesOrder, HandleOrder, ReleaseOrder, executionVars, pipelineVars
<1>3. /\ SoundIds /\ SoundWorking /\ OpenedFirst /\ EventsApart
      /\ \A k \in 1..Len(queue) : queue[k] \in SoundEvents
  BY DEF Books
<1>4. /\ e.id \in 1..Len(issued) /\ e.id \notin DOMAIN openOrders /\ e.id \notin DOMAIN working
      /\ \A j \in 1..Len(queue) : (j # i /\ IsSubmitted(queue[j])) =>
               queue[j].id # e.id /\ queue[j].signal # e.signal
      /\ \A j \in 1..Len(queue) : queue[j].type = "Fill" => queue[j].order # e.id
  BY <1>1, SubmittedIs
<1>5. /\ DOMAIN openOrders' = DOMAIN openOrders
      /\ \A o \in DOMAIN openOrders : openOrders'[o] = openOrders[o]
      /\ DOMAIN holds' = DOMAIN holds \ {e.signal}
      /\ \A s \in DOMAIN holds' : holds'[s] = holds[s]
  BY <1>2, <1>4 DEF Drop
<1> HIDE DEF e
<1>6. SoundIds'
  BY <1>1, <1>2, <1>3, <1>4, <1>5 DEF SoundIds
<1>7. SoundWorking'
  <2>1. ASSUME NEW o \in DOMAIN working
        PROVE  /\ 1 <= Remaining(working[o]) /\ o \notin closed'
               /\ o \in DOMAIN openOrders' => Remaining(working[o]) <= openOrders'[o].remaining
    BY <1>2, <1>3, <1>4, <1>5 DEF SoundWorking
  <2>2. QED
    BY <1>2, <2>1 DEF SoundWorking, Remaining
<1>8. ASSUME NEW j \in 1..Len(queue), j # i
      PROVE  queue[j] \in SoundEvents'
  <2>1. /\ queue[j] \in Events /\ queue[j] \in FreshSignals /\ queue[j] \in SoundOrders
        /\ queue[j] \in SoundFills
    BY <1>3 DEF SoundEvents, SoundOrders
  <2>2. queue[j] \in FreshSignals'
    BY <1>2, <2>1 DEF FreshSignals
  <2>3. queue[j] \in SoundOrders'
    <3>1. CASE IsSubmitted(queue[j])
      <4>1. queue[j].id # e.id /\ queue[j].signal # e.signal
        BY <1>4, <1>8, <3>1
      <4>2. /\ queue[j].id \notin DOMAIN openOrders' /\ queue[j].signal \in DOMAIN holds'
            /\ holds'[queue[j].signal] = holds[queue[j].signal]
            /\ bus = "InProcess" => queue[j].id \notin closed'
        BY <1>2, <1>5, <2>1, <3>1, <4>1 DEF SoundOrders
      <4>3. QED
        BY <1>2, <2>1, <3>1, <4>2 DEF SoundOrders, Remaining
    <3>2. QED
      BY <2>1, <3>1 DEF SoundOrders
  <2>4. queue[j] \in SoundFills'
    <3>1. CASE queue[j].type = "Fill"
      <4>1. /\ queue[j].order \notin closed'
            /\ queue[j].order \in DOMAIN openOrders' =>
                  queue[j].left <= openOrders'[queue[j].order].remaining
        BY <1>2, <1>4, <1>5, <2>1, <3>1 DEF SoundFills
      <4>2. QED
        BY <1>2, <2>1, <3>1, <4>1 DEF SoundFills, Remaining
    <3>2. QED
      BY <2>1, <3>1 DEF SoundFills
  <2>5. QED
    BY <2>2, <2>3, <2>4 DEF SoundEvents
<1>9. EventsApart' /\ \A k \in 1..Len(queue') : queue'[k] \in SoundEvents'
  BY <1>1, <1>3, <1>8, TakenKeeps
<1>10. OpenedFirst'
  <2>1. SUFFICES ASSUME bus = "InProcess" PROVE OpenedFirst'
    BY <1>2 DEF OpenedFirst
  <2>2. \A o : ~IsOpening(queue[i], o)
    BY <1>1 DEF IsOpening, e
  <2>3. QED
    BY <1>1, <1>2, <1>3, <1>5, <2>1, <2>2, StillOpenedFirst
<1>11. QED
  BY <1>6, <1>7, <1>9, <1>10 DEF Books
-----------------------------------------------------------------------------
(* A fill.                                                                 *)

(* A delivered fill is its order's oldest: those behind it are of the rest *)
(* of the order, and so is what the simulator still works.                 *)
LEMMA FillIs ==
  ASSUME FlowTypeOK, Books, NEW i, TakesFill(i)
  PROVE  LET f == queue[i]
             n == Shares(f) IN
         /\ f \in Fills /\ f.order \in 1..Len(issued) /\ f.order \notin closed
         /\ n \in Nat /\ f.left \in Nat /\ 1 <= n /\ n <= f.left
         /\ f.quantity \in Int /\ f.quantity = (IF f.quantity < 0 THEN -n ELSE n)
         /\ EndsOrder(f) => n = f.left
         /\ f.order \in DOMAIN openOrders => f.left <= openOrders[f.order].remaining
         /\ f.order \in DOMAIN working =>
               /\ working[f.order].symbol = f.symbol
               /\ working[f.order].side = "Sell" <=> f.quantity < 0
               /\ Remaining(working[f.order]) <= f.left - n /\ ~EndsOrder(f)
         /\ \A j \in 1..Len(queue) :
               (j # i /\ queue[j].type = "Fill" /\ queue[j].order = f.order) =>
                  /\ queue[j].symbol = f.symbol /\ (queue[j].quantity < 0 <=> f.quantity < 0)
                  /\ queue[j].left <= f.left - n /\ ~EndsOrder(f)
         /\ bus = "InProcess" => f.order \in DOMAIN openOrders
<1> DEFINE f == queue[i]
           n == Shares(f)
<1>1. /\ queue \in Seq(Events) /\ i \in 1..Len(queue) /\ i \in Deliverable /\ f \in Fills
      /\ f.type = "Fill" /\ f \in SoundFills /\ PortfolioTypeOK /\ EventsApart
      /\ f.left \in Nat
  BY DEF FlowTypeOK, TypeOK, TakesFill, Fills, Books, SoundEvents
<1>2. n \in Nat /\ f.quantity \in Int /\ (f.quantity = n \/ f.quantity = -n)
  BY <1>1, SharesOfFill
<1>3. f.quantity = (IF f.quantity < 0 THEN -n ELSE n)
  BY <1>2 DEF Shares
<1>4. /\ f.order \in 1..Len(issued) /\ f.order \notin closed /\ 1 <= n /\ n <= f.left
      /\ f.status = "Filled" <=> n = f.left
      /\ f.order \in DOMAIN openOrders => f.left <= openOrders[f.order].remaining
      /\ f.order \in DOMAIN working =>
            /\ working[f.order].symbol = f.symbol
            /\ working[f.order].side = "Sell" <=> f.quantity < 0
            /\ Remaining(working[f.order]) <= f.left - n
  BY <1>1 DEF SoundFills
<1>5. EndsOrder(f) => n = f.left
  <2>1. CASE f.status = "Filled"
    BY <1>4, <2>1
  <2>2. CASE f.order \in DOMAIN openOrders /\ n >= openOrders[f.order].remaining
    <3>1. openOrders[f.order].remaining \in Nat
      BY <1>1, <2>2 DEF PortfolioTypeOK, PendingOrders
    <3>2. QED
      BY <1>1, <1>2, <1>4, <2>2, <3>1
  <2>3. QED
    BY <2>1, <2>2 DEF EndsOrder
<1> HIDE DEF n
<1>6. f.order \in DOMAIN working => ~EndsOrder(f)
  <2> SUFFICES ASSUME f.order \in DOMAIN working, EndsOrder(f) PROVE FALSE
    OBVIOUS
  <2>1. Remaining(working[f.order]) \in Int /\ 1 <= Remaining(working[f.order])
    <3>1. working[f.order] \in Orders
      BY DEF FlowTypeOK, TypeOK, ExecutionTypeOK
    <3>2. QED
      BY <3>1 DEF Books, SoundWorking, Remaining, Orders
  <2>2. QED
    BY <1>1, <1>2, <1>4, <1>5, <2>1
<1>7. ASSUME NEW j \in 1..Len(queue), j # i, queue[j].type = "Fill", queue[j].order = f.order
      PROVE  /\ queue[j].symbol = f.symbol /\ (queue[j].quantity < 0 <=> f.quantity < 0)
             /\ queue[j].left <= f.left - n /\ ~EndsOrder(f)
  <2>1. i < j
    <3>1. SUFFICES ASSUME j < i PROVE FALSE
      BY <1>1, <1>7
    <3>2. queue[j].symbol = f.symbol
      BY <1>1, <1>7, <3>1 DEF EventsApart, Apart
    <3>3. j \in 1..(i - 1)
      BY <1>1, <3>1
    <3>4. QED
      BY <1>1, <1>7, <3>2, <3>3 DEF Deliverable
  <2>2. /\ f.symbol = queue[j].symbol /\ (f.quantity < 0 <=> queue[j].quantity < 0)
        /\ queue[j].left <= f.left - n
    BY <1>1, <1>7, <2>1 DEF EventsApart, Apart, n
  <2>3. ~EndsOrder(f)
    <3>1. queue[j] \in Fills /\ queue[j] \in SoundFills
      BY <1>1, <1>7, EventKinds DEF Books, SoundEvents
    <3>2. Shares(queue[j]) \in Nat /\ queue[j].left \in Nat
      BY <3>1, SharesOfFill DEF Fills
    <3>3. 1 <= queue[j].left
      BY <1>7, <3>1, <3>2 DEF SoundFills
    <3>4. QED
      BY <1>1, <1>2, <1>5, <2>2, <3>2, <3>3
  <2>4. QED
    BY <2>2, <2>3
<1>8. bus = "InProcess" => f.order \in DOMAIN openOrders
  <2> SUFFICES ASSUME bus = "InProcess", f.order \notin DOMAIN openOrders PROVE FALSE
    OBVIOUS
  <2>1. PICK j \in 1..Len(queue) : j < i
    BY <1>1 DEF Books, OpenedFirst
  <2>2. j \in 1..(i - 1)
    BY <1>1, <2>1
  <2>3. QED
    BY <1>1, <2>2 DEF Deliverable
<1>9. QED
  BY <1>1, <1>2, <1>3, <1>4, <1>5, <1>6, <1>7, <1>8 DEF n

LEMMA FillKeepsBooks ==
  ASSUME FlowTypeOK, Books, NEW i, TakesFill(i), NEW mark, ApplyFill(queue[i], mark)
  PROVE  Books'
<1> DEFINE f == queue[i]
           n == Shares(f)
<1>1. /\ queue \in Seq(Events) /\ PortfolioTypeOK /\ ExecutionTypeOK /\ i \in 1..Len(queue)
      /\ Queued(i, <<>>) /\ f \in Fills /\ f.type = "Fill" /\ AccountTypeOK
  BY DEF FlowTypeOK, TypeOK, TakesFill, Fills
<1>2. /\ UNCHANGED <<issued, bus, working, emitted, holds>> /\ ReleaseForFill(f)
      /\ closed' = IF EndsOrder(f) THEN closed \cup {f.order} ELSE closed
  BY DEF TakesFill, HandleFill, ApplyFill, ReleaseForFill, executionVars, pipelineVars
<1>3. /\ SoundIds /\ SoundWorking /\ OpenedFirst /\ EventsApart
      /\ \A k \in 1..Len(queue) : queue[k] \in SoundEvents
  BY DEF Books
<1>4. /\ f.order \in 1..Len(issued) /\ f.order \notin closed
      /\ n \in Nat /\ f.left \in Nat /\ 1 <= n /\ n <= f.left
      /\ EndsOrder(f) => n = f.left
      /\ f.order \in DOMAIN openOrders => f.left <= openOrders[f.order].remaining
      /\ f.order \in DOMAIN working =>
            Remaining(working[f.order]) <= f.left - n /\ ~EndsOrder(f)
      /\ \A j \in 1..Len(queue) :
            (j # i /\ queue[j].type = "Fill" /\ queue[j].order = f.order) =>
               queue[j].left <= f.left - n /\ ~EndsOrder(f)
      /\ bus = "InProcess" => f.order \in DOMAIN openOrders
  BY FillIs
<1>5. /\ DOMAIN openOrders' = DOMAIN openOrders \ {o \in {f.order} : EndsOrder(f)}
      /\ \A o \in DOMAIN openOrders' : o # f.order => openOrders'[o] = openOrders[o]
      /\ f.order \in DOMAIN openOrders' =>
            openOrders'[f.order].remaining = openOrders[f.order].remaining - n
  BY <1>1, <1>2, ReleaseLeaves
<1>6. \A o \in DOMAIN openOrders : openOrders[o].remaining \in Nat
  BY <1>1 DEF PortfolioTypeOK, PendingOrders
<1> HIDE DEF f, n
<1>7. SoundIds'
  <2>1. /\ DOMAIN openOrders' \subseteq 1..Len(issued) /\ closed' \subseteq 1..Len(issued)
        /\ DOMAIN openOrders' \cap closed' = {}
    BY <1>2, <1>3, <1>4, <1>5 DEF SoundIds
  <2>2. QED
    BY <1>2, <1>3, <2>1 DEF SoundIds
<1>8. SoundWorking'
  <2>1. ASSUME NEW o \in DOMAIN working
        PROVE  /\ 1 <= Remaining(working[o]) /\ o \notin closed'
               /\ o \in DOMAIN openOrders' => Remaining(working[o]) <= openOrders'[o].remaining
    <3>1. 1 <= Remaining(working[o]) /\ o \notin closed'
      BY <1>2, <1>3, <1>4 DEF SoundWorking
    <3>2. ASSUME o \in DOMAIN openOrders'
          PROVE  Remaining(working[o]) <= openOrders'[o].remaining
      <4>1. CASE o # f.order
        BY <1>3, <1>5, <3>2, <4>1 DEF SoundWorking
      <4>2. CASE o = f.order
        <5>1. working[o] \in Orders /\ Remaining(working[o]) \in Int
          BY <1>1 DEF ExecutionTypeOK, Remaining, Orders
        <5>2. o \in DOMAIN openOrders
          BY <1>5, <3>2
        <5>3. QED
          BY <1>4, <1>5, <1>6, <3>2, <4>2, <5>1, <5>2
      <4>3. QED
        BY <4>1, <4>2
    <3>3. QED
      BY <3>1, <3>2
  <2>2. QED
    BY <1>2, <2>1 DEF SoundWorking, Remaining
<1>9. ASSUME NEW j \in 1..Len(queue), j # i
      PROVE  queue[j] \in SoundEvents'
  <2>1. /\ queue[j] \in Events /\ queue[j] \in FreshSignals /\ queue[j] \in SoundOrders
        /\ queue[j] \in SoundFills
    BY <1>3 DEF SoundEvents, SoundOrders
  <2>2. queue[j] \in FreshSignals'
    BY <1>2, <2>1 DEF FreshSignals
  <2>3. queue[j] \in SoundOrders'
    <3>1. CASE IsSubmitted(queue[j])
      <4>1. /\ queue[j].id \notin DOMAIN openOrders'
            /\ bus = "InProcess" => queue[j].id \notin closed'
        BY <1>2, <1>4, <1>5, <2>1, <3>1 DEF SoundOrders
      <4>2. QED
        BY <1>2, <2>1, <3>1, <4>1 DEF SoundOrders, Remaining
    <3>2. QED
      BY <2>1, <3>1 DEF SoundOrders
  <2>4. queue[j] \in SoundFills'
    <3>1. CASE queue[j].type = "Fill"
      <4>1. queue[j].order \notin closed'
        BY <1>2, <1>4, <1>9, <2>1, <3>1 DEF SoundFills
      <4>2. ASSUME queue[j].order \in DOMAIN openOrders'
            PROVE  queue[j].left <= openOrders'[queue[j].order].remaining
        <5>1. CASE queue[j].order # f.order
          BY <1>5, <2>1, <3>1, <4>2, <5>1 DEF SoundFills
        <5>2. CASE queue[j].order = f.order
          <6>1. queue[j].left \in Nat /\ f.order \in DOMAIN openOrders
            BY <1>5, <2>1, <3>1, <4>2, <5>2, EventKinds DEF Fills
          <6>2. /\ queue[j].left <= f.left - n
                /\ f.left <= openOrders[f.order].remaining
                /\ openOrders[f.order].remaining \in Nat
            BY <1>4, <1>6, <1>9, <3>1, <5>2, <6>1
          <6>3. openOrders'[queue[j].order].remaining = openOrders[f.order].remaining - n
            BY <1>5, <4>2, <5>2
          <6>4. queue[j].left <= openOrders[f.order].remaining - n
            <7>1. \A a, b, c, d \in Int : (a <= b - d /\ b <= c) => a <= c - d
              OBVIOUS
            <7>2. /\ queue[j].left \in Int /\ f.left \in Int /\ n \in Int
                  /\ openOrders[f.order].remaining \in Int
              BY <1>4, <6>1, <6>2
            <7>3. QED
              BY <6>2, <7>1, <7>2
          <6>5. QED
            BY <6>3, <6>4
        <5>3. QED
          BY <5>1, <5>2
      <4>3. QED
        BY <1>2, <2>1, <3>1, <4>1, <4>2 DEF SoundFills, Remaining
    <3>2. QED
      BY <2>1, <3>1 DEF SoundFills
  <2>5. QED
    BY <2>2, <2>3, <2>4 DEF SoundEvents
<1>10. EventsApart' /\ \A k \in 1..Len(queue') : queue'[k] \in SoundEvents'
  BY <1>1, <1>3, <1>9, TakenKeeps
<1>11. OpenedFirst'
  <2>1. SUFFICES ASSUME bus = "InProcess" PROVE OpenedFirst'
    BY <1>2 DEF OpenedFirst
  <2>2. \A o : ~IsOpening(queue[i], o)
    BY <1>1 DEF IsOpening, f
  <2>3. \A j \in 1..Len(queue) :
           (j # i /\ queue[j].type = "Fill" /\ queue[j].order \notin DOMAIN openOrders') =>
              queue[j].order \notin DOMAIN openOrders
    BY <1>4, <1>5
  <2>4. \A o \in DOMAIN working : o \notin DOMAIN openOrders' => o \notin DOMAIN openOrders
    BY <1>4, <1>5
  <2>5. QED
    BY <1>1, <1>2, <1>3, <2>1, <2>2, <2>3, <2>4, StillOpenedFirst
<1>12. QED
  BY <1>7, <1>8, <1>10, <1>11 DEF Books

-----------------------------------------------------------------------------
LEMMA BooksStep ==
  ASSUME FlowTypeOK, Books, [Next]_vars
  PROVE  Books'
<1>1. queue \in Seq(Events) /\ <<>> \in Seq(Events) /\ 1..Len(<<>>) = {}
  BY DEF FlowTypeOK, TypeOK
<1>2. ASSUME NEW i, NEW out, TakesSignal(i, out)
      PROVE  Books'
  <2>1. /\ i \in 1..Len(queue) /\ i \in 0..Len(queue) /\ Queued(i, out) /\ queue[i].type = "Signal"
        /\ UNCHANGED <<emitted, bus>>
    BY <1>2, SignalOutcome DEF TakesSignal, Signals, pipelineVars
  <2>2. CASE out = <<>> /\ UNCHANGED <<portfolioVars, executionVars>>
    <3>1. UNCHANGED <<issued, holds, openOrders, closed, bus, working, emitted>>
      BY <2>1, <2>2 DEF portfolioVars, executionVars
    <3>2. \A j \in 1..Len(queue) : \A o : j = i => ~IsOpening(queue[j], o)
      BY <2>1 DEF IsOpening
    <3>3. QED
      BY <1>1, <2>1, <2>2, <3>1, <3>2, QuietKeepsBooks
  <2>3. CASE \E signal, order : Approved(queue[i], signal, order, out)
    BY <1>2, <2>3, ApprovalKeepsBooks
  <2>4. QED
    BY <1>2, <2>2, <2>3, SignalOutcome
<1>3. ASSUME NEW i, TakesOrder(i)
      PROVE  Books'
  <2>1. /\ i \in 1..Len(queue) /\ i \in 0..Len(queue) /\ Queued(i, <<>>) /\ queue[i] \in Orders
        /\ ApplyOrderUpdate(queue[i]) /\ UNCHANGED <<issued, working, emitted, bus>>
    BY <1>3 DEF TakesOrder, HandleOrder, executionVars, pipelineVars
  <2>2. CASE IgnoreOrder(queue[i])
    <3>1. UNCHANGED <<issued, holds, openOrders, closed, bus, working, emitted>>
      BY <2>1, <2>2 DEF IgnoreOrder
    <3>2. bus = "InProcess" => \A j \in 1..Len(queue) : \A o : j = i => ~IsOpening(queue[j], o)
      <4>1. SUFFICES ASSUME bus = "InProcess", NEW o, IsOpening(queue[i], o) PROVE FALSE
        OBVIOUS
      <4>2. IsSubmitted(queue[i]) /\ queue[i].status = "Working"
        BY <4>1 DEF IsOpening, IsSubmitted
      <4>3. Opens(queue[i])
        BY <2>1, <4>1, <4>2, SubmittedIs
      <4>4. QED
        BY <2>2, <4>3 DEF IgnoreOrder
    <3>3. QED
      BY <1>1, <2>1, <3>1, <3>2, QuietKeepsBooks
  <2>3. CASE OpenOrder(queue[i])
    BY <1>3, <2>3, OpenKeepsBooks
  <2>4. CASE ReleaseOrder(queue[i])
    BY <1>3, <2>4, ReleaseKeepsBooks
  <2>5. QED
    BY <2>1, <2>2, <2>3, <2>4 DEF ApplyOrderUpdate
<1>4. ASSUME NEW i, TakesFill(i)
      PROVE  Books'
  <2>1. /\ i \in 1..Len(queue) /\ i \in 0..Len(queue) /\ Queued(i, <<>>) /\ queue[i].type = "Fill"
        /\ UNCHANGED <<issued, working, emitted, bus>> /\ HandleFill(queue[i])
    BY <1>4 DEF TakesFill, HandleFill, Fills, executionVars, pipelineVars
  <2>2. CASE UNCHANGED portfolioVars
    <3>1. UNCHANGED <<issued, holds, openOrders, closed, bus, working, emitted>>
      BY <2>1, <2>2 DEF portfolioVars
    <3>2. \A j \in 1..Len(queue) : \A o : j = i => ~IsOpening(queue[j], o)
      BY <2>1 DEF IsOpening
    <3>3. QED
      BY <1>1, <2>1, <3>1, <3>2, QuietKeepsBooks
  <2>3. CASE ApplyFill(queue[i], MarkAfter(queue[i]))
    BY <1>4, <2>3, FillKeepsBooks
  <2>4. QED
    BY <2>1, <2>2, <2>3 DEF HandleFill
<1>5. ASSUME NEW bar, SendsBar(bar)
      PROVE  Books'
  <2>1. /\ UNCHANGED <<issued, holds, openOrders, closed, bus, working, emitted>>
        /\ Queued(0, <<bar>>) /\ bar \in MarketEvents
    BY <1>5 DEF SendsBar, portfolioVars, executionVars, pipelineVars
  <2>2. /\ <<bar>> \in Seq(Events) /\ 0 \in 0..Len(queue)
        /\ \A m \in 1..Len(<<bar>>) : <<bar>>[m].type = "MarketData"
    BY <1>1, <2>1 DEF MarketEvents, Events
  <2>3. \A j \in 1..Len(queue) : \A o : j = 0 => ~IsOpening(queue[j], o)
    OBVIOUS
  <2>4. QED
    BY <1>1, <2>1, <2>2, <2>3, QuietKeepsBooks
<1>6. CASE MovesOn \/ UNCHANGED vars
  <2>1. UNCHANGED <<issued, holds, openOrders, closed, bus, working, emitted, queue>>
    BY <1>6 DEF MovesOn, vars, flowVars, portfolioVars, executionVars, pipelineVars
  <2>2. QED
    BY <2>1 DEF Books, SoundIds, SoundWorking, OpenedFirst, EventsApart, SoundEvents,
       FreshSignals, SoundOrders, SoundFills, Remaining
<1>7. CASE Next
  BY <1>2, <1>3, <1>4, <1>5, <1>6, <1>7, BarKeepsBooks, Steps
<1>8. QED
  BY <1>6, <1>7

LEMMA BooksInit ==
  ASSUME Init
  PROVE  Books
<1>1. DOMAIN <<>> = {} /\ Len(<<>>) = 0
  OBVIOUS
<1>2. QED
  BY <1>1 DEF Init, PortfolioInit, ExecutionInit, Books, SoundIds, SoundWorking, OpenedFirst,
     EventsApart

LEMMA BooksHold == Spec => [](FlowTypeOK /\ Books)
<1>1. FlowTypeOK /\ Books /\ [Next]_vars => Books'
  BY BooksStep
<1>2. QED
  BY <1>1, BooksInit, FlowTypesHold, PTL DEF Spec

-----------------------------------------------------------------------------
(* No short selling.                                                       *)

(* The shares of a symbol are shared out to the holds and open orders that *)
(* sell it, to none more than it asks for and on the InProcessEventBus no  *)
(* less.  On the TopicEventBus a hold may stand for shares already sold,   *)
(* and this is where what is still sold for it is told from what is gone.  *)
Backed(s, held, open) ==
    /\ held \in [DOMAIN holds -> Nat] /\ open \in [DOMAIN openOrders -> Nat]
    /\ \A h \in DOMAIN holds : held[h] <= HeldToSell(s)[h]
    /\ \A o \in DOMAIN openOrders : open[o] <= OpenToSell(s)[o]
    /\ bus = "InProcess" => held = HeldToSell(s) /\ open = OpenToSell(s)
    /\ SumFunction(held) + SumFunction(open) <= position[s]

(* n shares of order o, made of the signal signals[o], are set aside: for  *)
(* the order, or for its signal until it is open.                          *)
Claims(signals, held, open, o, n) ==
    IF o \in DOMAIN open THEN n <= open[o]
    ELSE signals[o] \in DOMAIN held /\ n <= held[signals[o]]

ClaimsOfFills(s, signals, held, open) ==
    {e \in Events : (e.type = "Fill" /\ e.quantity < 0 /\ e.symbol = s) =>
                       Claims(signals, held, open, e.order, e.left)}

IsSale(order, s) == order.side = "Sell" /\ order.symbol = s

Covers(s, held, open) ==
    /\ Backed(s, held, open)
    /\ \A o \in DOMAIN working : IsSale(working[o], s) =>
                                   Claims(issued, held, open, o, Remaining(working[o]))
    /\ \A k \in 1..Len(queue) : queue[k] \in ClaimsOfFills(s, issued, held, open)

Covered == \A s \in Symbols : \E held, open : Covers(s, held, open)

LEMMA ToSellTyped ==
  ASSUME AccountTypeOK, NEW s
  PROVE  /\ HeldToSell(s) \in [DOMAIN holds -> Nat] /\ OpenToSell(s) \in [DOMAIN openOrders -> Nat]
         /\ IsFiniteSet(DOMAIN holds) /\ IsFiniteSet(DOMAIN openOrders)
<1>1. /\ \A h \in DOMAIN holds : holds[h].quantity \in Nat
      /\ \A o \in DOMAIN openOrders : openOrders[o].remaining \in Nat
  BY DEF AccountTypeOK, PortfolioTypeOK, Holds, PendingOrders
<1>2. QED
  BY <1>1 DEF HeldToSell, OpenToSell, AccountTypeOK

(* What is shared out is no more than what is promised.                    *)
LEMMA BackedIsCommitted ==
  ASSUME AccountTypeOK, NEW s, NEW held, NEW open, Backed(s, held, open)
  PROVE  /\ SumFunction(held) \in Nat /\ SumFunction(open) \in Nat /\ CommittedToSell(s) \in Nat
         /\ SumFunction(held) + SumFunction(open) <= CommittedToSell(s)
<1>1. /\ held \in [DOMAIN holds -> Nat] /\ open \in [DOMAIN openOrders -> Nat]
      /\ \A h \in DOMAIN holds : held[h] <= HeldToSell(s)[h]
      /\ \A o \in DOMAIN openOrders : open[o] <= OpenToSell(s)[o]
  BY DEF Backed
<1>2. /\ HeldToSell(s) \in [DOMAIN holds -> Nat] /\ OpenToSell(s) \in [DOMAIN openOrders -> Nat]
      /\ IsFiniteSet(DOMAIN holds) /\ IsFiniteSet(DOMAIN openOrders)
  BY ToSellTyped
<1> DEFINE H == SumFunction(HeldToSell(s))
           O == SumFunction(OpenToSell(s))
<1>3. SumFunction(held) \in Nat /\ SumFunction(open) \in Nat /\ H \in Nat /\ O \in Nat
  BY <1>1, <1>2, SumOfMap
<1>4. SumFunction(held) <= H /\ SumFunction(open) <= O
  BY <1>1, <1>2, MapMonotone
<1>5. CommittedToSell(s) = H + O
  BY DEF CommittedToSell
<1> HIDE DEF H, O
<1>6. QED
  BY <1>3, <1>4, <1>5

LEMMA CoveredIsSafe ==
  ASSUME FlowTypeOK, Covered
  PROVE  NeverShort /\ NeverNegative
<1> SUFFICES ASSUME NEW s \in Symbols
             PROVE  position[s] >= 0 /\ (bus = "InProcess" => position[s] >= CommittedToSell(s))
  BY DEF NeverShort, NeverNegative
<1>1. PICK held, open : Backed(s, held, open)
  BY DEF Covered, Covers
<1>2. /\ SumFunction(held) \in Nat /\ SumFunction(open) \in Nat /\ position[s] \in Int
      /\ SumFunction(held) + SumFunction(open) <= position[s]
  BY <1>1, BackedIsCommitted DEF Backed, FlowTypeOK, AccountTypeOK, PortfolioTypeOK
<1>3. bus = "InProcess" => CommittedToSell(s) = SumFunction(held) + SumFunction(open)
  BY <1>1 DEF Backed, CommittedToSell
<1>4. QED
  BY <1>2, <1>3

(* What a step has to show for the shares set aside after it.              *)
LEMMA CoversNext ==
  ASSUME queue \in Seq(Events), NEW i, NEW out \in Seq(Events), Queued(i, out), NEW s,
         NEW held, NEW open, Backed(s, held, open)',
         \A o \in DOMAIN working' : IsSale(working'[o], s) =>
            Claims(issued', held, open, o, Remaining(working'[o])),
         \A j \in 1..Len(queue) : j # i => queue[j] \in ClaimsOfFills(s, issued', held, open),
         \A m \in 1..Len(out) : out[m] \in ClaimsOfFills(s, issued', held, open)
  PROVE  \E h, p : Covers(s, h, p)'
<1>1. \A k \in 1..Len(queue') : queue'[k] \in ClaimsOfFills(s, issued', held, open)
  BY All
<1>2. (\A o \in DOMAIN working : IsSale(working[o], s) =>
          Claims(issued, held, open, o, Remaining(working[o])))'
  BY DEF Remaining, IsSale
<1>3. Covers(s, held, open)'
  BY <1>1, <1>2 DEF Covers
<1>4. QED
  BY <1>3

(* Steps that leave the portfolio's books alone share out as before.       *)
LEMMA StillCovered ==
  ASSUME FlowTypeOK, Covered, NEW i, NEW out \in Seq(Events), Queued(i, out),
         UNCHANGED <<holds, openOrders, position, issued, bus>>,
         \A o \in DOMAIN working' :
            /\ o \in DOMAIN working /\ working'[o].side = working[o].side
            /\ working'[o].symbol = working[o].symbol
            /\ Remaining(working'[o]) <= Remaining(working[o])
            /\ working'[o] \in Orders /\ working[o] \in Orders,
         \A m \in 1..Len(out) : out[m].type = "Fill" =>
            /\ out[m].order \in DOMAIN working /\ out[m].left = Remaining(working[out[m].order])
            /\ out[m].symbol = working[out[m].order].symbol
            /\ (out[m].quantity < 0 <=> working[out[m].order].side = "Sell")
  PROVE  Covered'
<1> SUFFICES ASSUME NEW s \in Symbols PROVE \E held, open : Covers(s, held, open)'
  BY DEF Covered
<1>1. PICK held, open : Covers(s, held, open)
  BY DEF Covered
<1>2. queue \in Seq(Events)
  BY DEF FlowTypeOK, TypeOK
<1>3. Backed(s, held, open)'
  BY <1>1 DEF Covers, Backed, HeldToSell, OpenToSell
<1>4. ASSUME NEW o \in DOMAIN working', IsSale(working'[o], s)
      PROVE  Claims(issued', held, open, o, Remaining(working'[o]))
  <2>1. Claims(issued, held, open, o, Remaining(working[o]))
    BY <1>1, <1>4 DEF Covers, IsSale
  <2>2. /\ Remaining(working'[o]) \in Int /\ Remaining(working[o]) \in Int
        /\ Remaining(working'[o]) <= Remaining(working[o])
    BY DEF Remaining, Orders
  <2>3. /\ \A h \in DOMAIN held : held[h] \in Int
        /\ \A p \in DOMAIN open : open[p] \in Int
    BY <1>1 DEF Covers, Backed
  <2>4. QED
    BY <2>1, <2>2, <2>3 DEF Claims
<1>5. \A m \in 1..Len(out) : out[m] \in ClaimsOfFills(s, issued', held, open)
  <2>1. \A m \in 1..Len(out) : out[m] \in Events
    OBVIOUS
  <2>2. QED
    BY <1>1, <2>1 DEF Covers, ClaimsOfFills, IsSale
<1>6. \A j \in 1..Len(queue) : queue[j] \in ClaimsOfFills(s, issued', held, open)
  BY <1>1 DEF Covers
<1>7. QED
  BY <1>2, <1>3, <1>4, <1>5, <1>6, CoversNext

(* What is claimed for an order can be claimed of the shares set aside     *)
(* after a step.                                                           *)
Carries(held, open, held1, open1) ==
    \A o \in 1..Len(issued), n \in Int :
        Claims(issued, held, open, o, n) => Claims(issued', held1, open1, o, n)

LEMMA ClaimsCarry ==
  ASSUME FlowTypeOK, Books, NEW s, NEW held, NEW open, Covers(s, held, open),
         NEW held1, NEW open1, Carries(held, open, held1, open1)
  PROVE  /\ \A o \in DOMAIN working : IsSale(working[o], s) =>
               Claims(issued', held1, open1, o, Remaining(working[o]))
         /\ \A j \in 1..Len(queue) : queue[j] \in ClaimsOfFills(s, issued', held1, open1)
<1>1. \A o \in DOMAIN working : o \in 1..Len(issued) /\ Remaining(working[o]) \in Int
  BY DEF FlowTypeOK, TypeOK, ExecutionTypeOK, Remaining, Orders
<1>2. \A o \in DOMAIN working : IsSale(working[o], s) =>
         Claims(issued', held1, open1, o, Remaining(working[o]))
  BY <1>1 DEF Covers, Carries
<1>3. ASSUME NEW j \in 1..Len(queue)
      PROVE  queue[j] \in ClaimsOfFills(s, issued', held1, open1)
  <2>1. queue[j] \in ClaimsOfFills(s, issued, held, open) /\ queue[j] \in SoundFills
    BY DEF Covers, Books, SoundEvents
  <2>2. queue[j].type = "Fill" => queue[j].order \in 1..Len(issued) /\ queue[j].left \in Int
    <3>1. queue[j].type = "Fill" => queue[j] \in Fills
      BY <2>1, EventKinds DEF ClaimsOfFills
    <3>2. QED
      BY <2>1, <3>1 DEF SoundFills, Fills
  <2>3. QED
    BY <2>1, <2>2 DEF ClaimsOfFills, Carries
<1>4. QED
  BY <1>2, <1>3

(* An approved sale is of shares that no other sale was promised.          *)
LEMMA ApprovalCovered ==
  ASSUME FlowTypeOK, Books, Covered, NEW i, NEW out, TakesSignal(i, out),
         NEW signal, NEW order, Approved(queue[i], signal, order, out)
  PROVE  Covered'
<1> SUFFICES ASSUME NEW s \in Symbols PROVE \E h, p : Covers(s, h, p)'
  BY DEF Covered
<1> DEFINE id == queue[i].id
           n == IF IsSale(order, s) THEN order.quantity ELSE 0
<1>1. /\ queue \in Seq(Events) /\ AccountTypeOK /\ i \in 1..Len(queue)
      /\ Queued(i, out) /\ out = <<order>> /\ out \in Seq(Events)
      /\ 1..Len(out) = {1} /\ out[1] = order /\ UNCHANGED bus
  BY DEF FlowTypeOK, TypeOK, TakesSignal, Approved
<1>2. /\ id \notin DOMAIN holds /\ DOMAIN holds' = DOMAIN holds \cup {id}
      /\ holds'[id] = HoldFor(signal)
      /\ \A h \in DOMAIN holds : holds'[h] = holds[h]
      /\ UNCHANGED <<openOrders, position>>
      /\ issued'[Len(issued) + 1] = id
      /\ \A k \in 1..Len(issued) : issued'[k] = issued[k]
      /\ order.id \notin 1..Len(issued)
  BY ApprovedIsNew
<1>3. /\ order.type = "Order" /\ order.id = Len(issued) + 1 /\ order.filled = 0
      /\ order.quantity \in Nat /\ order.side = OrderSide(signal) /\ order.symbol = signal.symbol
      /\ order.quantity = signal.quantity
      /\ DOMAIN working' = DOMAIN working \cup {x \in {order.id} : order.status = "Working"}
      /\ \A x \in DOMAIN working : x # order.id => working'[x] = working[x]
      /\ order.status = "Working" => working'[order.id] = order
      /\ HoldGranted(signal) /\ signal.id = id
  BY DEF Approved, Orders, HoldForSignal
<1>4. n \in Nat /\ (n <= position[s] - CommittedToSell(s) \/ n = 0)
  BY <1>2, <1>3 DEF HoldGranted, IsSale
<1>5. PICK held, open : Covers(s, held, open)
  BY DEF Covered
<1>6. Backed(s, held, open) /\ held \in [DOMAIN holds -> Nat] /\ open \in [DOMAIN openOrders -> Nat]
  BY <1>5 DEF Covers, Backed
<1>7. n \in Nat /\ holds'[id].side = order.side /\ holds'[id].symbol = order.symbol
      /\ holds'[id].quantity = order.quantity
  BY <1>2, <1>3 DEF HoldFor
<1>8. HeldToSell(s)' = [h \in DOMAIN holds \cup {id} |-> IF h = id THEN n ELSE HeldToSell(s)[h]]
  BY <1>2, <1>7 DEF HeldToSell, IsSale
<1>9. OpenToSell(s)' = OpenToSell(s)
  BY <1>2 DEF OpenToSell
<1> HIDE DEF id, n
<1>. PICK held1 : held1 = [h \in DOMAIN holds \cup {id} |-> IF h = id THEN n ELSE held[h]]
  OBVIOUS
<1>10. /\ held1 \in [DOMAIN holds \cup {id} -> Nat] /\ held1[id] = n
       /\ \A h \in DOMAIN holds : held1[h] = held[h]
  BY <1>2, <1>6, <1>7
<1>11. SumFunction(held1) = SumFunction(held) + n
  <2>1. IsFiniteSet(DOMAIN holds) /\ IsFiniteSet(DOMAIN holds \cup {id})
    <3>1. IsFiniteSet(DOMAIN holds)
      BY <1>1 DEF AccountTypeOK
    <3>2. QED
      BY <3>1, FS_AddElement, Zenon
  <2>2. (DOMAIN holds) \ {id} = (DOMAIN holds \cup {id}) \ {id}
    BY <1>2
  <2>3. \A h \in (DOMAIN holds) \ {id} : held[h] = held1[h]
    BY <1>10
  <2>4. /\ SumFunction(held1) = SumFunction(held) - At(held, DOMAIN holds, id)
                                  + At(held1, DOMAIN holds \cup {id}, id)
        /\ SumFunction(held) \in Nat
    BY <1>6, <1>10, <2>1, <2>2, <2>3, MapChange
  <2>5. At(held, DOMAIN holds, id) = 0 /\ At(held1, DOMAIN holds \cup {id}, id) = n
    BY <1>2, <1>10 DEF At
  <2>6. QED
    BY <1>7, <2>4, <2>5
<1>12. SumFunction(held1) + SumFunction(open) <= position[s]
  <2>1. /\ SumFunction(held) \in Nat /\ SumFunction(open) \in Nat /\ CommittedToSell(s) \in Nat
        /\ SumFunction(held) + SumFunction(open) <= CommittedToSell(s)
        /\ SumFunction(held) + SumFunction(open) <= position[s] /\ position[s] \in Int
    BY <1>1, <1>6, BackedIsCommitted DEF Backed, AccountTypeOK, PortfolioTypeOK
  <2>2. QED
    BY <1>4, <1>7, <1>11, <2>1
<1>13. Backed(s, held1, open)'
  <2>1. bus = "InProcess" => held1 = HeldToSell(s)' /\ open = OpenToSell(s)'
    BY <1>6, <1>8, <1>9 DEF Backed
  <2>2. \A h \in DOMAIN holds' : held1[h] <= HeldToSell(s)'[h]
    BY <1>2, <1>6, <1>7, <1>8, <1>10 DEF Backed
  <2>3. \A o \in DOMAIN openOrders' : open[o] <= OpenToSell(s)'[o]
    BY <1>2, <1>6, <1>9 DEF Backed
  <2>4. held1 \in [DOMAIN holds' -> Nat] /\ open \in [DOMAIN openOrders' -> Nat]
    BY <1>2, <1>6, <1>10
  <2>5. SumFunction(held1) + SumFunction(open) <= position'[s] /\ bus' = bus
    BY <1>1, <1>2, <1>12
  <2>6. QED
    BY <2>1, <2>2, <2>3, <2>4, <2>5 DEF Backed
<1>14. Carries(held, open, held1, open)
  BY <1>2, <1>6, <1>10 DEF Carries, Claims
<1>15. ASSUME NEW o \in DOMAIN working', IsSale(working'[o], s)
       PROVE  Claims(issued', held1, open, o, Remaining(working'[o]))
  <2>1. CASE o \in DOMAIN working
    <3>1. working'[o] = working[o]
      BY <1>2, <1>3, <2>1 DEF FlowTypeOK, TypeOK, ExecutionTypeOK
    <3>2. QED
      BY <1>5, <1>14, <1>15, <2>1, <3>1, ClaimsCarry
  <2>2. CASE o = order.id /\ working'[o] = order
    <3>1. Remaining(working'[o]) = n
      BY <1>3, <1>15, <2>2 DEF Remaining, n
    <3>2. o \notin DOMAIN open
      BY <1>2, <1>6, <2>2 DEF Books, SoundIds
    <3>3. QED
      BY <1>2, <1>3, <1>7, <1>10, <2>2, <3>1, <3>2 DEF Claims
  <2>3. QED
    BY <1>3, <2>1, <2>2
<1>16. \A m \in 1..Len(out) : out[m] \in ClaimsOfFills(s, issued', held1, open)
  <2>1. order \in Events
    BY DEF Approved, Events
  <2>2. QED
    BY <1>1, <1>3, <2>1 DEF ClaimsOfFills
<1>17. \A j \in 1..Len(queue) : queue[j] \in ClaimsOfFills(s, issued', held1, open)
  BY <1>5, <1>14, ClaimsCarry
<1>18. QED
  BY <1>1, <1>13, <1>15, <1>16, <1>17, CoversNext

(* An opened order takes over what its signal's hold has.                  *)
LEMMA OpenCovered ==
  ASSUME FlowTypeOK, Books, Covered, NEW i, TakesOrder(i), OpenOrder(queue[i])
  PROVE  Covered'
<1> SUFFICES ASSUME NEW s \in Symbols PROVE \E h, p : Covers(s, h, p)'
  BY DEF Covered
<1> DEFINE e == queue[i]
<1>1. /\ queue \in Seq(Events) /\ AccountTypeOK /\ i \in 1..Len(queue)
      /\ Queued(i, <<>>) /\ e \in Orders /\ e.status = "Working" /\ IsSubmitted(e)
      /\ <<>> \in Seq(Events) /\ 1..Len(<<>>) = {}
  BY DEF FlowTypeOK, TypeOK, TakesOrder, OpenOrder, Opens, IsSubmitted, Orders
<1>2. /\ UNCHANGED <<issued, bus, working, position>>
      /\ openOrders' = Put(openOrders, e.id, Pending(e)) /\ holds' = Drop(holds, e.signal)
  BY DEF TakesOrder, HandleOrder, ApplyOrderUpdate, OpenOrder, Opens, ReleaseOrder, IgnoreOrder,
     executionVars, pipelineVars
<1>3. /\ e.id \in 1..Len(issued) /\ e.signal = issued[e.id] /\ e.filled = 0 /\ e.quantity \in Nat
      /\ e.id \notin DOMAIN openOrders /\ e.signal \in DOMAIN holds
      /\ holds[e.signal].symbol = e.symbol /\ holds[e.signal].side = e.side
      /\ holds[e.signal].quantity = e.quantity
  BY <1>1, SubmittedIs DEF Orders
<1>4. /\ Pending(e).remaining = e.quantity /\ Pending(e).side = e.side
      /\ Pending(e).symbol = e.symbol
  BY <1>3 DEF Pending
<1>5. PICK held, open : Covers(s, held, open)
  BY DEF Covered
<1>6. Backed(s, held, open) /\ held \in [DOMAIN holds -> Nat] /\ open \in [DOMAIN openOrders -> Nat]
  BY <1>5 DEF Covers, Backed
<1>. PICK held1, open1 :
        /\ held1 = [h \in DOMAIN holds \ {e.signal} |-> held[h]]
        /\ open1 = [o \in DOMAIN openOrders \cup {e.id} |->
                      IF o = e.id THEN held[e.signal] ELSE open[o]]
  OBVIOUS
<1> HIDE DEF e
<1>7. HeldToSell(s)' = [h \in DOMAIN holds \ {e.signal} |-> HeldToSell(s)[h]]
  BY <1>2 DEF HeldToSell, Drop
<1>8. OpenToSell(s)' = [o \in DOMAIN openOrders \cup {e.id} |->
                          IF o = e.id THEN HeldToSell(s)[e.signal] ELSE OpenToSell(s)[o]]
  <2>1. HeldToSell(s)[e.signal] =
          IF e.side = "Sell" /\ e.symbol = s THEN e.quantity ELSE 0
    BY <1>3 DEF HeldToSell
  <2>2. /\ DOMAIN openOrders' = DOMAIN openOrders \cup {e.id} /\ openOrders'[e.id] = Pending(e)
        /\ \A o \in DOMAIN openOrders : openOrders'[o] = openOrders[o]
    BY <1>2, <1>3 DEF Put
  <2>3. QED
    BY <1>3, <1>4, <2>1, <2>2 DEF OpenToSell
<1>9. /\ held1 \in [DOMAIN holds \ {e.signal} -> Nat]
      /\ open1 \in [DOMAIN openOrders \cup {e.id} -> Nat]
      /\ open1[e.id] = held[e.signal] /\ \A o \in DOMAIN openOrders : open1[o] = open[o]
      /\ \A h \in DOMAIN holds \ {e.signal} : held1[h] = held[h]
  BY <1>3, <1>6
<1>10. /\ DOMAIN holds' = DOMAIN holds \ {e.signal}
       /\ DOMAIN openOrders' = DOMAIN openOrders \cup {e.id}
  BY <1>2 DEF Put, Drop
<1>11. /\ IsFiniteSet(DOMAIN holds) /\ IsFiniteSet(DOMAIN holds \ {e.signal})
       /\ IsFiniteSet(DOMAIN openOrders) /\ IsFiniteSet(DOMAIN openOrders \cup {e.id})
  <2>1. IsFiniteSet(DOMAIN holds) /\ IsFiniteSet(DOMAIN openOrders)
    BY <1>1 DEF AccountTypeOK
  <2>2. IsFiniteSet(DOMAIN holds \ {e.signal})
    BY <2>1, FS_RemoveElement, Zenon
  <2>3. IsFiniteSet(DOMAIN openOrders \cup {e.id})
    BY <2>1, FS_AddElement, Zenon
  <2>4. QED
    BY <2>1, <2>2, <2>3
<1>12. SumFunction(held1) = SumFunction(held) - held[e.signal] /\ SumFunction(held) \in Nat
  <2>1. /\ (DOMAIN holds) \ {e.signal} = (DOMAIN holds \ {e.signal}) \ {e.signal}
        /\ \A h \in (DOMAIN holds) \ {e.signal} : held[h] = held1[h]
    BY <1>9
  <2>2. /\ SumFunction(held1) = SumFunction(held) - At(held, DOMAIN holds, e.signal)
                                  + At(held1, DOMAIN holds \ {e.signal}, e.signal)
        /\ SumFunction(held) \in Nat
    BY <1>6, <1>9, <1>11, <2>1, MapChange
  <2>3. /\ At(held, DOMAIN holds, e.signal) = held[e.signal]
        /\ At(held1, DOMAIN holds \ {e.signal}, e.signal) = 0 /\ held[e.signal] \in Nat
    BY <1>3, <1>6 DEF At
  <2>4. QED
    BY <2>2, <2>3
<1>13. SumFunction(open1) = SumFunction(open) + held[e.signal] /\ SumFunction(open) \in Nat
  <2>1. /\ (DOMAIN openOrders) \ {e.id} = (DOMAIN openOrders \cup {e.id}) \ {e.id}
        /\ \A o \in (DOMAIN openOrders) \ {e.id} : open[o] = open1[o]
    BY <1>9
  <2>2. /\ SumFunction(open1) = SumFunction(open) - At(open, DOMAIN openOrders, e.id)
                                  + At(open1, DOMAIN openOrders \cup {e.id}, e.id)
        /\ SumFunction(open) \in Nat
    BY <1>6, <1>9, <1>11, <2>1, MapChange
  <2>3. /\ At(open, DOMAIN openOrders, e.id) = 0
        /\ At(open1, DOMAIN openOrders \cup {e.id}, e.id) = held[e.signal]
        /\ held[e.signal] \in Nat
    BY <1>3, <1>6, <1>9 DEF At
  <2>4. QED
    BY <2>2, <2>3
<1>14. Backed(s, held1, open1)'
  <2>1. bus = "InProcess" => held1 = HeldToSell(s)' /\ open1 = OpenToSell(s)'
    BY <1>6, <1>7, <1>8 DEF Backed
  <2>2. \A h \in DOMAIN holds' : held1[h] <= HeldToSell(s)'[h]
    BY <1>6, <1>7, <1>9, <1>10 DEF Backed
  <2>3. \A o \in DOMAIN openOrders' : open1[o] <= OpenToSell(s)'[o]
    BY <1>3, <1>6, <1>8, <1>9, <1>10 DEF Backed
  <2>4. held1 \in [DOMAIN holds' -> Nat] /\ open1 \in [DOMAIN openOrders' -> Nat]
    BY <1>9, <1>10
  <2>5. SumFunction(held1) + SumFunction(open1) <= position'[s] /\ bus' = bus
    <3>1. held[e.signal] \in Nat /\ SumFunction(held) + SumFunction(open) <= position[s]
      BY <1>3, <1>6 DEF Backed
    <3>2. QED
      BY <1>2, <1>12, <1>13, <3>1
  <2>6. QED
    BY <2>1, <2>2, <2>3, <2>4, <2>5 DEF Backed
<1>15. Carries(held, open, held1, open1)
  <2> SUFFICES ASSUME NEW o \in 1..Len(issued), NEW n \in Int, Claims(issued, held, open, o, n)
               PROVE  Claims(issued, held1, open1, o, n)
    BY <1>2 DEF Carries
  <2>1. CASE o \in DOMAIN openOrders
    BY <1>6, <1>9, <2>1 DEF Claims
  <2>2. CASE o = e.id
    BY <1>3, <1>6, <1>9, <2>2 DEF Claims
  <2>3. CASE o \notin DOMAIN openOrders /\ o # e.id
    <3>1. issued[o] # e.signal
      BY <1>3, <2>3 DEF Books, SoundIds
    <3>2. QED
      BY <1>6, <1>9, <2>3, <3>1 DEF Claims
  <2>4. QED
    BY <2>1, <2>2, <2>3
<1>16. /\ \A o \in DOMAIN working' : IsSale(working'[o], s) =>
             Claims(issued', held1, open1, o, Remaining(working'[o]))
       /\ \A j \in 1..Len(queue) : queue[j] \in ClaimsOfFills(s, issued', held1, open1)
  BY <1>2, <1>5, <1>15, ClaimsCarry
<1>17. QED
  BY <1>1, <1>14, <1>16, CoversNext

(* A refused order frees its signal's hold, and nothing will be sold of it. *)
LEMMA ReleaseCovered ==
  ASSUME FlowTypeOK, Books, Covered, NEW i, TakesOrder(i), ReleaseOrder(queue[i])
  PROVE  Covered'
<1> SUFFICES ASSUME NEW s \in Symbols PROVE \E h, p : Covers(s, h, p)'
  BY DEF Covered
<1> DEFINE e == queue[i]
<1>1. /\ queue \in Seq(Events) /\ AccountTypeOK /\ i \in 1..Len(queue)
      /\ Queued(i, <<>>) /\ e \in Orders /\ e.status = "Rejected" /\ IsSubmitted(e)
      /\ <<>> \in Seq(Events) /\ 1..Len(<<>>) = {}
  BY DEF FlowTypeOK, TypeOK, TakesOrder, ReleaseOrder, IsSubmitted, Orders
<1>2. /\ UNCHANGED <<issued, bus, working, position>>
      /\ openOrders' = Drop(openOrders, e.id) /\ holds' = Drop(holds, e.signal)
  BY DEF TakesOrder, HandleOrder, ApplyOrderUpdate, ReleaseOrder, executionVars, pipelineVars
<1>3. /\ e.id \in 1..Len(issued) /\ e.signal = issued[e.id]
      /\ e.id \notin DOMAIN openOrders /\ e.signal \in DOMAIN holds
      /\ e.id \notin DOMAIN working
      /\ \A j \in 1..Len(queue) : queue[j].type = "Fill" => queue[j].order # e.id
  BY <1>1, SubmittedIs
<1>4. openOrders' = [o \in DOMAIN openOrders |-> openOrders[o]]
  BY <1>2, <1>3 DEF Drop
<1>5. PICK held, open : Covers(s, held, open)
  BY DEF Covered
<1>6. Backed(s, held, open) /\ held \in [DOMAIN holds -> Nat] /\ open \in [DOMAIN openOrders -> Nat]
  BY <1>5 DEF Covers, Backed
<1>. PICK held1 : held1 = [h \in DOMAIN holds \ {e.signal} |-> held[h]]
  OBVIOUS
<1> HIDE DEF e
<1>7. HeldToSell(s)' = [h \in DOMAIN holds \ {e.signal} |-> HeldToSell(s)[h]]
  BY <1>2 DEF HeldToSell, Drop
<1>8. OpenToSell(s)' = OpenToSell(s)
  BY <1>4 DEF OpenToSell
<1>9. /\ held1 \in [DOMAIN holds \ {e.signal} -> Nat]
      /\ \A h \in DOMAIN holds \ {e.signal} : held1[h] = held[h]
      /\ DOMAIN holds' = DOMAIN holds \ {e.signal} /\ DOMAIN openOrders' = DOMAIN openOrders
  BY <1>2, <1>4, <1>6 DEF Drop
<1>10. IsFiniteSet(DOMAIN holds) /\ IsFiniteSet(DOMAIN holds \ {e.signal})
  <2>1. IsFiniteSet(DOMAIN holds)
    BY <1>1 DEF AccountTypeOK
  <2>2. QED
    BY <2>1, FS_RemoveElement, Zenon
<1>11. SumFunction(held1) <= SumFunction(held) /\ SumFunction(held) \in Nat
       /\ SumFunction(held1) \in Nat
  <2>1. /\ (DOMAIN holds) \ {e.signal} = (DOMAIN holds \ {e.signal}) \ {e.signal}
        /\ \A h \in (DOMAIN holds) \ {e.signal} : held[h] = held1[h]
    BY <1>9
  <2>2. /\ SumFunction(held1) = SumFunction(held) - At(held, DOMAIN holds, e.signal)
                                  + At(held1, DOMAIN holds \ {e.signal}, e.signal)
        /\ SumFunction(held) \in Nat /\ SumFunction(held1) \in Nat
    BY <1>6, <1>9, <1>10, <2>1, MapChange
  <2>3. /\ At(held, DOMAIN holds, e.signal) \in Nat
        /\ At(held1, DOMAIN holds \ {e.signal}, e.signal) = 0
    BY <1>3, <1>6 DEF At
  <2>4. QED
    BY <2>2, <2>3
<1>12. Backed(s, held1, open)'
  <2>1. bus = "InProcess" => held1 = HeldToSell(s)' /\ open = OpenToSell(s)'
    BY <1>6, <1>7, <1>8 DEF Backed
  <2>2. \A h \in DOMAIN holds' : held1[h] <= HeldToSell(s)'[h]
    BY <1>6, <1>7, <1>9 DEF Backed
  <2>3. \A o \in DOMAIN openOrders' : open[o] <= OpenToSell(s)'[o]
    BY <1>6, <1>8, <1>9 DEF Backed
  <2>4. held1 \in [DOMAIN holds' -> Nat] /\ open \in [DOMAIN openOrders' -> Nat]
    BY <1>6, <1>9
  <2>5. SumFunction(held1) + SumFunction(open) <= position'[s] /\ bus' = bus
    <3>1. /\ SumFunction(held) + SumFunction(open) <= position[s] /\ SumFunction(open) \in Nat
          /\ position[s] \in Int
      BY <1>1, <1>6, BackedIsCommitted DEF Backed, AccountTypeOK, PortfolioTypeOK
    <3>2. QED
      BY <1>2, <1>11, <3>1
  <2>6. QED
    BY <2>1, <2>2, <2>3, <2>4, <2>5 DEF Backed
<1>13. ASSUME NEW o \in 1..Len(issued), o # e.id, NEW n, Claims(issued, held, open, o, n)
       PROVE  Claims(issued, held1, open, o, n)
  <2>1. issued[o] # e.signal
    BY <1>3, <1>13 DEF Books, SoundIds
  <2>2. QED
    BY <1>6, <1>9, <1>13, <2>1 DEF Claims
<1>14. \A o \in DOMAIN working' : IsSale(working'[o], s) =>
          Claims(issued', held1, open, o, Remaining(working'[o]))
  <2>1. \A o \in DOMAIN working : o \in 1..Len(issued) /\ o # e.id
    BY <1>3 DEF FlowTypeOK, TypeOK, ExecutionTypeOK
  <2>2. \A o \in DOMAIN working : IsSale(working[o], s) =>
          Claims(issued, held1, open, o, Remaining(working[o]))
    BY <1>5, <1>13, <2>1 DEF Covers
  <2>3. QED
    BY <1>2, <2>2
<1>15. \A j \in 1..Len(queue) : queue[j] \in ClaimsOfFills(s, issued', held1, open)
  <2>1. ASSUME NEW j \in 1..Len(queue), queue[j].type = "Fill"
        PROVE  queue[j].order \in 1..Len(issued) /\ queue[j].order # e.id
    BY <1>3, <2>1 DEF Books, SoundEvents, SoundFills
  <2>2. \A j \in 1..Len(queue) : queue[j] \in ClaimsOfFills(s, issued, held, open)
    BY <1>5 DEF Covers
  <2>3. \A j \in 1..Len(queue) : queue[j] \in ClaimsOfFills(s, issued, held1, open)
    BY <1>13, <2>1, <2>2 DEF ClaimsOfFills
  <2>4. QED
    BY <1>2, <2>3
<1>16. QED
  BY <1>1, <1>12, <1>14, <1>15, CoversNext

(* An applied fill: the shares that leave the position were set aside for  *)
(* its order.                                                              *)
FillBooks(i) ==
    LET f == queue[i]
        n == Shares(f) IN
    /\ f \in Fills /\ f.order \in 1..Len(issued) /\ n \in Nat /\ f.left \in Nat /\ 1 <= n /\ n <= f.left
    /\ EndsOrder(f) => n = f.left
    /\ DOMAIN openOrders' = DOMAIN openOrders \ {o \in {f.order} : EndsOrder(f)}
    /\ \A o \in DOMAIN openOrders' : o # f.order => openOrders'[o] = openOrders[o]
    /\ f.order \in DOMAIN openOrders' =>
          /\ openOrders'[f.order].remaining = openOrders[f.order].remaining - n
          /\ openOrders'[f.order].side = openOrders[f.order].side
          /\ openOrders'[f.order].symbol = openOrders[f.order].symbol
          /\ openOrders'[f.order].remaining \in Nat
    /\ UNCHANGED <<issued, bus, working, holds>>
    /\ \A s \in Symbols :
          position'[s] = position[s] + (IF f.symbol # s THEN 0 ELSE IF f.quantity < 0 THEN -n ELSE n)
    /\ bus = "InProcess" => f.order \in DOMAIN openOrders
    /\ Queued(i, <<>>)

(* What is claimed of an order besides a fill of it being applied.         *)
Rest(i, s) ==
    LET f == queue[i]
        n == Shares(f) IN
    /\ \A o \in DOMAIN working : IsSale(working[o], s) =>
          /\ o \in 1..Len(issued) /\ Remaining(working[o]) \in Int
          /\ o = f.order => /\ f.quantity < 0 /\ f.symbol = s
                            /\ Remaining(working[o]) <= f.left - n /\ ~EndsOrder(f)
    /\ \A j \in 1..Len(queue) :
          (j # i /\ queue[j].type = "Fill" /\ queue[j].quantity < 0 /\ queue[j].symbol = s) =>
          /\ queue[j].order \in 1..Len(issued) /\ queue[j].left \in Int
          /\ queue[j].order = f.order => /\ f.quantity < 0 /\ f.symbol = s
                                         /\ queue[j].left <= f.left - n /\ ~EndsOrder(f)

LEMMA FillSettles ==
  ASSUME FlowTypeOK, Books, NEW i, TakesFill(i), NEW mark, ApplyFill(queue[i], mark)
  PROVE  FillBooks(i) /\ \A s : Rest(i, s)
<1> DEFINE f == queue[i]
           n == Shares(f)
<1>1. /\ queue \in Seq(Events) /\ AccountTypeOK /\ i \in 1..Len(queue) /\ Queued(i, <<>>)
      /\ f \in Fills /\ ReleaseForFill(f) /\ position' = [position EXCEPT ![f.symbol] = @ + f.quantity]
      /\ UNCHANGED <<issued, bus, working, holds>>
  BY DEF FlowTypeOK, TypeOK, TakesFill, HandleFill, ApplyFill, executionVars
<1>2. /\ f.order \in 1..Len(issued)
      /\ n \in Nat /\ f.left \in Nat /\ 1 <= n /\ n <= f.left
      /\ f.quantity \in Int /\ f.quantity = (IF f.quantity < 0 THEN -n ELSE n)
      /\ EndsOrder(f) => n = f.left
      /\ f.order \in DOMAIN working =>
            /\ working[f.order].symbol = f.symbol
            /\ working[f.order].side = "Sell" <=> f.quantity < 0
            /\ Remaining(working[f.order]) <= f.left - n /\ ~EndsOrder(f)
      /\ \A j \in 1..Len(queue) :
            (j # i /\ queue[j].type = "Fill" /\ queue[j].order = f.order) =>
               /\ queue[j].symbol = f.symbol /\ (queue[j].quantity < 0 <=> f.quantity < 0)
               /\ queue[j].left <= f.left - n /\ ~EndsOrder(f)
      /\ bus = "InProcess" => f.order \in DOMAIN openOrders
  BY FillIs
<1>3. /\ DOMAIN openOrders' = DOMAIN openOrders \ {o \in {f.order} : EndsOrder(f)}
      /\ \A o \in DOMAIN openOrders' : o # f.order => openOrders'[o] = openOrders[o]
      /\ f.order \in DOMAIN openOrders' =>
            /\ openOrders'[f.order].remaining = openOrders[f.order].remaining - n
            /\ openOrders'[f.order].side = openOrders[f.order].side
            /\ openOrders'[f.order].symbol = openOrders[f.order].symbol
      /\ MapOf(openOrders', Nat, PendingOrders)
  BY <1>1, ReleaseLeaves
<1>4. \A o \in DOMAIN openOrders' : openOrders'[o].remaining \in Nat
  BY <1>3 DEF MapOf, PendingOrders
<1>5. ASSUME NEW s \in Symbols
      PROVE  position'[s] = position[s] + (IF f.symbol # s THEN 0 ELSE IF f.quantity < 0 THEN -n ELSE n)
  <2>1. position \in [Symbols -> Int]
    BY <1>1 DEF AccountTypeOK, PortfolioTypeOK
  <2>2. position'[s] = IF f.symbol = s THEN position[s] + f.quantity ELSE position[s]
    BY <1>1, <2>1
  <2>3. QED
    BY <1>2, <2>1, <2>2
<1>6. FillBooks(i)
  BY <1>1, <1>2, <1>3, <1>4, <1>5 DEF FillBooks
<1>7. ASSUME NEW s, NEW o \in DOMAIN working, IsSale(working[o], s)
      PROVE  /\ o \in 1..Len(issued) /\ Remaining(working[o]) \in Int
             /\ o = f.order => /\ f.quantity < 0 /\ f.symbol = s
                               /\ Remaining(working[o]) <= f.left - n /\ ~EndsOrder(f)
  <2>1. o \in 1..Len(issued) /\ Remaining(working[o]) \in Int
    BY DEF FlowTypeOK, TypeOK, ExecutionTypeOK, Remaining, Orders
  <2>2. QED
    BY <1>2, <1>7, <2>1 DEF IsSale
<1>8. ASSUME NEW s, NEW j \in 1..Len(queue),
             j # i /\ queue[j].type = "Fill" /\ queue[j].quantity < 0 /\ queue[j].symbol = s
      PROVE  /\ queue[j].order \in 1..Len(issued) /\ queue[j].left \in Int
             /\ queue[j].order = f.order => /\ f.quantity < 0 /\ f.symbol = s
                                            /\ queue[j].left <= f.left - n /\ ~EndsOrder(f)
  <2>1. queue[j] \in Fills /\ queue[j] \in SoundFills
    BY <1>1, <1>8, EventKinds DEF Books, SoundEvents
  <2>2. queue[j].order \in 1..Len(issued) /\ queue[j].left \in Int
    BY <1>8, <2>1 DEF SoundFills, Fills
  <2>3. QED
    BY <1>2, <1>8, <2>2
<1>9. \A s : Rest(i, s)
  BY <1>7, <1>8 DEF Rest
<1>10. QED
  BY <1>6, <1>9

(* The claims that are left fit what is set aside after the fill.          *)
LEMMA RestCovered ==
  ASSUME FlowTypeOK, Books, NEW i, FillBooks(i), NEW s, Rest(i, s),
         NEW held, NEW open, Covers(s, held, open), NEW held1, NEW open1, Backed(s, held1, open1)',
         \A o \in 1..Len(issued), n \in Int :
            (o # queue[i].order /\ Claims(issued, held, open, o, n)) => Claims(issued, held1, open1, o, n),
         \A n \in Int :
            (/\ queue[i].quantity < 0 /\ queue[i].symbol = s /\ ~EndsOrder(queue[i])
             /\ n <= queue[i].left - Shares(queue[i])) =>
                Claims(issued, held1, open1, queue[i].order, n)
  PROVE  \E h, p : Covers(s, h, p)'
<1>1. /\ queue \in Seq(Events) /\ <<>> \in Seq(Events) /\ 1..Len(<<>>) = {} /\ Queued(i, <<>>)
      /\ UNCHANGED <<issued, working>>
  BY DEF FlowTypeOK, TypeOK, FillBooks
<1>2. ASSUME NEW o \in DOMAIN working, IsSale(working[o], s)
      PROVE  Claims(issued, held1, open1, o, Remaining(working[o]))
  <2>1. Claims(issued, held, open, o, Remaining(working[o]))
    BY <1>2 DEF Covers
  <2>2. QED
    BY <1>2, <2>1 DEF Rest
<1>3. ASSUME NEW j \in 1..Len(queue), j # i
      PROVE  queue[j] \in ClaimsOfFills(s, issued, held1, open1)
  <2>1. queue[j] \in ClaimsOfFills(s, issued, held, open)
    BY DEF Covers
  <2>2. QED
    BY <1>3, <2>1 DEF Rest, ClaimsOfFills
<1>4. QED
  BY <1>1, <1>2, <1>3, CoversNext

LEMMA SaleOfOpenCovered ==
  ASSUME FlowTypeOK, Books, NEW i, FillBooks(i), NEW s \in Symbols, Rest(i, s), AccountTypeOK',
         NEW held, NEW open, Covers(s, held, open), i \in 1..Len(queue),
         queue[i].quantity < 0, queue[i].symbol = s, queue[i].order \in DOMAIN openOrders
  PROVE  \E h, p : Covers(s, h, p)'
<1> DEFINE f == queue[i]
           n == Shares(f)
           k == f.order
<1>1. Backed(s, held, open) /\ held \in [DOMAIN holds -> Nat] /\ open \in [DOMAIN openOrders -> Nat]
  BY DEF Covers, Backed
<1>2. /\ n \in Nat /\ f.left \in Nat /\ 1 <= n /\ n <= f.left
      /\ EndsOrder(f) => n = f.left
      /\ DOMAIN openOrders' = DOMAIN openOrders \ {o \in {k} : EndsOrder(f)}
      /\ \A o \in DOMAIN openOrders' : o # k => openOrders'[o] = openOrders[o]
      /\ k \in DOMAIN openOrders' =>
            /\ openOrders'[k].remaining = openOrders[k].remaining - n
            /\ openOrders'[k].side = openOrders[k].side
            /\ openOrders'[k].symbol = openOrders[k].symbol
      /\ UNCHANGED <<issued, bus, working, holds>> /\ position'[s] = position[s] - n
      /\ position[s] \in Int /\ AccountTypeOK /\ f \in Fills
  <2>1. position[s] \in Int
    BY DEF FlowTypeOK, AccountTypeOK, PortfolioTypeOK
  <2>2. QED
    BY <2>1 DEF FillBooks, FlowTypeOK
<1>3. f.left <= open[k] /\ open[k] \in Nat /\ n <= open[k] /\ 1 <= open[k] /\ n \in Nat
      /\ f.left \in Nat /\ open[k] - n \in Nat /\ f.left - n <= open[k] - n
  <2>1. queue[i] \in ClaimsOfFills(s, issued, held, open) /\ f.type = "Fill"
    BY <1>2 DEF Covers, Fills
  <2>2. f.left <= open[k] /\ open[k] \in Nat
    BY <1>1, <2>1 DEF ClaimsOfFills, Claims
  <2>3. n \in Nat /\ f.left \in Nat /\ 1 <= n /\ n <= f.left
    BY <1>2
  <2>4. \A x, y, z \in Nat : (1 <= x /\ x <= y /\ y <= z) =>
           x <= z /\ 1 <= z /\ z - x \in Nat /\ y - x <= z - x
    OBVIOUS
  <2> HIDE DEF n, f, k
  <2>5. n <= open[k] /\ 1 <= open[k] /\ open[k] - n \in Nat /\ f.left - n <= open[k] - n
    BY <2>2, <2>3, <2>4
  <2>6. QED
    BY <2>2, <2>3, <2>5
<1>4. /\ openOrders[k].side = "Sell" /\ openOrders[k].symbol = s
      /\ OpenToSell(s)[k] = openOrders[k].remaining /\ open[k] <= openOrders[k].remaining
      /\ openOrders[k].remaining \in Nat
  <2>1. open[k] <= OpenToSell(s)[k] /\ openOrders[k].remaining \in Nat
    BY <1>1, <1>2 DEF Backed, AccountTypeOK, PortfolioTypeOK, PendingOrders
  <2>2. OpenToSell(s)[k] = IF openOrders[k].side = "Sell" /\ openOrders[k].symbol = s
                           THEN openOrders[k].remaining ELSE 0
    BY DEF OpenToSell
  <2>3. OpenToSell(s)[k] # 0
    BY <1>3, <2>1
  <2>4. QED
    BY <2>1, <2>2, <2>3
<1>5. k \in DOMAIN openOrders /\ queue[i].order = k
  OBVIOUS
<1> HIDE DEF f, n, k
<1>0. PICK open1 : open1 = [o \in DOMAIN openOrders' |-> IF o = k THEN open[k] - n ELSE open[o]]
  OBVIOUS
<1>6. /\ open1 \in [DOMAIN openOrders' -> Nat]
      /\ \A o \in DOMAIN openOrders' : open1[o] = IF o = k THEN open[k] - n ELSE open[o]
      /\ DOMAIN open1 = DOMAIN openOrders'
  <2>1. open[k] - n \in Nat
    BY <1>3
  <2>2. \A o \in DOMAIN openOrders' : o \in DOMAIN openOrders
    BY <1>2
  <2>3. QED
    BY <1>0, <1>1, <2>1, <2>2
<1>7. OpenToSell(s)' = [o \in DOMAIN openOrders' |->
                          IF o = k THEN openOrders[k].remaining - n ELSE OpenToSell(s)[o]]
  BY <1>2, <1>4 DEF OpenToSell
<1>8. HeldToSell(s)' = HeldToSell(s)
  BY <1>2 DEF HeldToSell
<1>9. SumFunction(open1) <= SumFunction(open) - n /\ SumFunction(open) \in Nat
      /\ SumFunction(open1) \in Nat
  <2>1. IsFiniteSet(DOMAIN openOrders) /\ IsFiniteSet(DOMAIN openOrders')
    BY <1>2 DEF AccountTypeOK
  <2>2. (DOMAIN openOrders) \ {k} = (DOMAIN openOrders') \ {k}
    BY <1>2
  <2>3. \A o \in (DOMAIN openOrders) \ {k} : open[o] = open1[o]
    BY <1>6, <2>2
  <2>4. open1 \in [DOMAIN openOrders' -> Nat] /\ (k \in DOMAIN openOrders' => open1[k] <= open[k] - n)
    BY <1>3, <1>6
  <2>5. SumFunction(open1) <= SumFunction(open) - n
    <3>0. PICK S, R, x, m : S = DOMAIN openOrders /\ R = DOMAIN openOrders' /\ x = k /\ m = n
      OBVIOUS
    <3>1. IsFiniteSet(S)
      BY <2>1, <3>0
    <3>2. IsFiniteSet(R)
      BY <2>1, <3>0
    <3>3. open \in [S -> Nat]
      BY <1>1, <3>0
    <3>4. open1 \in [R -> Nat]
      BY <2>4, <3>0
    <3>5. S \ {x} = R \ {x}
      BY <2>2, <3>0
    <3>6. \A y \in S \ {x} : open[y] = open1[y]
      BY <2>3, <3>0
    <3>7. x \in S
      BY <1>5, <3>0
    <3>8. m \in Nat /\ m <= open[x]
      BY <1>3, <3>0
    <3>9. x \in R => open1[x] <= open[x] - m
      BY <2>4, <3>0
    <3>10. SumFunction(open1) <= SumFunction(open) - m
      BY <3>1, <3>2, <3>3, <3>4, <3>5, <3>6, <3>7, <3>8, <3>9, MapShrinks
    <3>11. QED
      BY <3>0, <3>10
  <2>6. QED
    BY <1>1, <2>1, <2>4, <2>5, SumOfMap
<1>10. Backed(s, held, open1)'
  <2>1. bus = "InProcess" => held = HeldToSell(s)' /\ open1 = OpenToSell(s)'
    <3>1. SUFFICES ASSUME bus = "InProcess" PROVE open1 = OpenToSell(s)'
      BY <1>1, <1>8 DEF Backed
    <3>2. open = OpenToSell(s) /\ open[k] = openOrders[k].remaining
      BY <1>1, <1>4, <3>1 DEF Backed
    <3>3. QED
      BY <1>0, <1>7, <3>2
  <2>2. \A h \in DOMAIN holds' : held[h] <= HeldToSell(s)'[h]
    BY <1>1, <1>2, <1>8 DEF Backed
  <2>3. ASSUME NEW o \in DOMAIN openOrders' PROVE open1[o] <= OpenToSell(s)'[o]
    <3>1. o \in DOMAIN openOrders
      BY <1>2
    <3>2. CASE o = k
      <4>1. open1[o] = open[k] - n /\ OpenToSell(s)'[o] = openOrders[k].remaining - n
        BY <1>6, <1>7, <3>2
      <4>2. \A x, y, z \in Nat : y <= z => y - x <= z - x
        OBVIOUS
      <4>3. open[k] - n <= openOrders[k].remaining - n
        BY <1>3, <1>4, <4>2
      <4>4. QED
        BY <4>1, <4>3
    <3>3. CASE o # k
      BY <1>1, <1>6, <1>7, <3>1, <3>3 DEF Backed
    <3>4. QED
      BY <3>2, <3>3
  <2>4. held \in [DOMAIN holds' -> Nat] /\ open1 \in [DOMAIN openOrders' -> Nat]
    BY <1>1, <1>2, <1>6
  <2>5. SumFunction(held) + SumFunction(open1) <= position'[s] /\ bus' = bus
    <3>1. SumFunction(held) \in Nat /\ SumFunction(held) + SumFunction(open) <= position[s]
      BY <1>1, <1>2, BackedIsCommitted DEF Backed
    <3>2. position'[s] = position[s] - n /\ position[s] \in Int /\ n \in Nat /\ bus' = bus
      BY <1>2
    <3>3. \A a, b, c, d, x \in Int : (a + b <= c /\ d <= b - x) => a + d <= c - x
      OBVIOUS
    <3>4. SumFunction(held) + SumFunction(open1) <= position[s] - n
      BY <1>9, <3>1, <3>2, <3>3
    <3>5. QED
      BY <3>2, <3>4
  <2>6. QED
    BY <2>1, <2>2, <2>3, <2>4, <2>5 DEF Backed
<1>11. \A o \in 1..Len(issued), m \in Int :
          (o # k /\ Claims(issued, held, open, o, m)) => Claims(issued, held, open1, o, m)
  <2>1. DOMAIN open = DOMAIN openOrders /\ \A o : o # k => (o \in DOMAIN open1 <=> o \in DOMAIN open)
    BY <1>1, <1>2, <1>6
  <2>2. QED
    BY <1>6, <2>1 DEF Claims
<1>12. \A m \in Int : (~EndsOrder(f) /\ m <= f.left - n) => Claims(issued, held, open1, k, m)
  <2> SUFFICES ASSUME NEW m \in Int, ~EndsOrder(f), m <= f.left - n
               PROVE  Claims(issued, held, open1, k, m)
    OBVIOUS
  <2>1. k \in DOMAIN open1 /\ open1[k] = open[k] - n
    BY <1>2, <1>5, <1>6
  <2>2. m <= open[k] - n
    <3>1. \A x, y, z \in Int : (x <= y /\ y <= z) => x <= z
      OBVIOUS
    <3>2. f.left - n \in Int /\ open[k] - n \in Int
      BY <1>3
    <3>3. QED
      BY <1>3, <3>1, <3>2
  <2>3. QED
    BY <2>1, <2>2 DEF Claims
<1>13. QED
  BY <1>10, <1>11, <1>12, RestCovered DEF f, n, k

(* On the TopicEventBus a sale may come before its order is opened: then   *)
(* its shares are those of its signal's hold, which stands for them on.    *)
LEMMA SaleOfHeldCovered ==
  ASSUME FlowTypeOK, Books, NEW i, FillBooks(i), NEW s \in Symbols, Rest(i, s),
         NEW held, NEW open, Covers(s, held, open), i \in 1..Len(queue),
         queue[i].quantity < 0, queue[i].symbol = s, queue[i].order \notin DOMAIN openOrders
  PROVE  \E h, p : Covers(s, h, p)'
<1> DEFINE f == queue[i]
           n == Shares(f)
           k == issued[f.order]
<1>1. Backed(s, held, open) /\ held \in [DOMAIN holds -> Nat] /\ open \in [DOMAIN openOrders -> Nat]
  BY DEF Covers, Backed
<1>2. /\ n \in Nat /\ f.left \in Nat /\ 1 <= n /\ n <= f.left /\ f.order \in 1..Len(issued)
      /\ DOMAIN openOrders' = DOMAIN openOrders
      /\ \A o \in DOMAIN openOrders : openOrders'[o] = openOrders[o]
      /\ UNCHANGED <<issued, bus, working, holds>> /\ position'[s] = position[s] - n
      /\ bus # "InProcess"
      /\ position[s] \in Int /\ AccountTypeOK /\ f \in Fills
  <2>1. position[s] \in Int /\ AccountTypeOK
    BY DEF FlowTypeOK, AccountTypeOK, PortfolioTypeOK
  <2>2. /\ DOMAIN openOrders' = DOMAIN openOrders
        /\ \A o \in DOMAIN openOrders : openOrders'[o] = openOrders[o]
    <3>1. /\ DOMAIN openOrders' = DOMAIN openOrders \ {o \in {f.order} : EndsOrder(f)}
          /\ \A o \in DOMAIN openOrders' : o # f.order => openOrders'[o] = openOrders[o]
      BY DEF FillBooks
    <3>2. f.order \notin DOMAIN openOrders
      OBVIOUS
    <3> HIDE DEF f
    <3>3. QED
      BY <3>1, <3>2
  <2>3. position'[s] = position[s] - n /\ bus # "InProcess"
    <3>1. position'[s] = position[s] + (-n) /\ n \in Nat
      BY DEF FillBooks
    <3>2. QED
      BY <2>1, <3>1 DEF FillBooks
  <2>4. QED
    BY <2>1, <2>2, <2>3 DEF FillBooks
<1>3. k \in DOMAIN holds /\ f.left <= held[k] /\ held[k] \in Nat
  <2>1. queue[i] \in ClaimsOfFills(s, issued, held, open) /\ f.type = "Fill"
    BY <1>2 DEF Covers, Fills
  <2>2. QED
    BY <1>1, <2>1 DEF ClaimsOfFills, Claims
<1>4. queue[i].order = f.order /\ issued[f.order] = k
  OBVIOUS
<1> HIDE DEF f, n, k
<1>5. n <= held[k] /\ held[k] - n \in Nat /\ f.left - n <= held[k] - n
  <2>1. \A x, y, z \in Nat : (1 <= x /\ x <= y /\ y <= z) => x <= z /\ z - x \in Nat /\ y - x <= z - x
    OBVIOUS
  <2>2. QED
    BY <1>2, <1>3, <2>1
<1>6. PICK held1 : held1 = [h \in DOMAIN holds |-> IF h = k THEN held[k] - n ELSE held[h]]
  OBVIOUS
<1>7. /\ held1 \in [DOMAIN holds -> Nat] /\ held1[k] = held[k] - n
      /\ \A h \in DOMAIN holds : h # k => held1[h] = held[h]
  BY <1>1, <1>3, <1>5, <1>6
<1>8. HeldToSell(s)' = HeldToSell(s) /\ OpenToSell(s)' = OpenToSell(s)
  BY <1>2 DEF HeldToSell, OpenToSell
<1>9. SumFunction(held1) <= SumFunction(held) - n /\ SumFunction(held) \in Nat
      /\ SumFunction(held1) \in Nat
  <2>0. PICK S, x, m : S = DOMAIN holds /\ x = k /\ m = n
    OBVIOUS
  <2>1. IsFiniteSet(S)
    BY <1>2, <2>0 DEF AccountTypeOK
  <2>2. held \in [S -> Nat]
    BY <1>1, <2>0
  <2>3. held1 \in [S -> Nat]
    BY <1>7, <2>0
  <2>4. \A y \in S \ {x} : held[y] = held1[y]
    BY <1>7, <2>0
  <2>5. x \in S
    BY <1>3, <2>0
  <2>6. m \in Nat /\ m <= held[x]
    BY <1>2, <1>5, <2>0
  <2>7. x \in S => held1[x] <= held[x] - m
    BY <1>5, <1>7, <2>0
  <2>8. SumFunction(held1) <= SumFunction(held) - m
    BY <2>1, <2>2, <2>3, <2>4, <2>5, <2>6, <2>7, MapShrinks
  <2>9. QED
    BY <2>0, <2>1, <2>2, <2>3, <2>8, SumOfMap
<1>10. Backed(s, held1, open)'
  <2>1. ASSUME NEW h \in DOMAIN holds PROVE held1[h] <= HeldToSell(s)[h]
    <3>1. held[h] <= HeldToSell(s)[h] /\ held[h] \in Nat /\ held1[h] <= held[h]
      BY <1>1, <1>2, <1>3, <1>5, <1>7 DEF Backed
    <3>2. HeldToSell(s)[h] \in Nat /\ held1[h] \in Nat
      BY <1>2, <1>7, ToSellTyped
    <3>3. QED
      BY <3>1, <3>2
  <2>2. \A o \in DOMAIN openOrders : open[o] <= OpenToSell(s)[o]
    BY <1>1 DEF Backed
  <2>3. SumFunction(held1) + SumFunction(open) <= position'[s] /\ bus' = bus
    <3>1. SumFunction(open) \in Nat /\ SumFunction(held) + SumFunction(open) <= position[s]
      BY <1>1, <1>2, BackedIsCommitted DEF Backed
    <3>2. position'[s] = position[s] - n /\ position[s] \in Int /\ n \in Nat /\ bus' = bus
      BY <1>2
    <3>3. \A a, b, c, d, x \in Int : (a + b <= c /\ d <= a - x) => d + b <= c - x
      OBVIOUS
    <3>4. SumFunction(held1) + SumFunction(open) <= position[s] - n
      BY <1>9, <3>1, <3>2, <3>3
    <3>5. QED
      BY <3>2, <3>4
  <2>4. /\ held1 \in [DOMAIN holds' -> Nat] /\ open \in [DOMAIN openOrders' -> Nat]
        /\ DOMAIN holds' = DOMAIN holds /\ DOMAIN openOrders' = DOMAIN openOrders
    BY <1>1, <1>2, <1>7
  <2>5. QED
    BY <1>2, <1>8, <2>1, <2>2, <2>3, <2>4 DEF Backed
<1>11. \A o \in 1..Len(issued), m \in Int :
          (o # queue[i].order /\ Claims(issued, held, open, o, m)) => Claims(issued, held1, open, o, m)
  <2>1. \A o \in 1..Len(issued) : o # f.order => issued[o] # k
    BY <1>2, <1>4 DEF Books, SoundIds
  <2>2. QED
    BY <1>1, <1>4, <1>7, <2>1 DEF Claims
<1>12. \A m \in Int : m <= f.left - n => Claims(issued, held1, open, f.order, m)
  <2> SUFFICES ASSUME NEW m \in Int, m <= f.left - n
               PROVE  Claims(issued, held1, open, f.order, m)
    OBVIOUS
  <2>1. f.order \notin DOMAIN open /\ k \in DOMAIN held1
    BY <1>1, <1>3, <1>4, <1>7
  <2>2. m <= held1[k]
    <3>1. \A x, y, z \in Int : (x <= y /\ y <= z) => x <= z
      OBVIOUS
    <3>2. f.left - n \in Int /\ held[k] - n \in Int
      BY <1>2, <1>5
    <3>3. QED
      BY <1>5, <1>7, <3>1, <3>2
  <2>3. QED
    BY <1>4, <2>1, <2>2 DEF Claims
<1>13. QED
  BY <1>10, <1>11, <1>12, RestCovered DEF f, n

(* A fill that is no sale of s takes nothing of what is set aside in s.    *)
LEMMA OtherFillCovered ==
  ASSUME FlowTypeOK, Books, NEW i, FillBooks(i), NEW s \in Symbols, Rest(i, s), AccountTypeOK',
         NEW held, NEW open, Covers(s, held, open), i \in 1..Len(queue),
         ~(queue[i].quantity < 0 /\ queue[i].symbol = s)
  PROVE  \E h, p : Covers(s, h, p)'
<1> DEFINE f == queue[i]
           n == Shares(f)
           k == f.order
<1>1. Backed(s, held, open) /\ held \in [DOMAIN holds -> Nat] /\ open \in [DOMAIN openOrders -> Nat]
  BY DEF Covers, Backed
<1>2. /\ n \in Nat
      /\ DOMAIN openOrders' = DOMAIN openOrders \ {o \in {k} : EndsOrder(f)}
      /\ \A o \in DOMAIN openOrders' : o # k => openOrders'[o] = openOrders[o]
      /\ k \in DOMAIN openOrders' =>
            /\ openOrders'[k].remaining = openOrders[k].remaining - n
            /\ openOrders'[k].side = openOrders[k].side
            /\ openOrders'[k].symbol = openOrders[k].symbol
            /\ openOrders'[k].remaining \in Nat
      /\ UNCHANGED <<issued, bus, working, holds>> /\ position'[s] >= position[s]
      /\ position[s] \in Int /\ position'[s] \in Int /\ AccountTypeOK
  <2>1. position[s] \in Int /\ AccountTypeOK /\ position'[s] \in Int
    BY DEF FlowTypeOK, AccountTypeOK, PortfolioTypeOK
  <2>2. n \in Nat /\ position'[s] = position[s] + (IF f.symbol # s THEN 0 ELSE n)
    BY DEF FillBooks
  <2>3. position'[s] >= position[s]
    BY <2>1, <2>2
  <2>4. QED
    BY <2>1, <2>2, <2>3 DEF FillBooks
<1>3. \A o \in DOMAIN openOrders : openOrders[o].remaining \in Nat
  BY <1>2 DEF AccountTypeOK, PortfolioTypeOK, PendingOrders
<1>4. OpenToSell(s)' \in [DOMAIN openOrders' -> Nat] /\ OpenToSell(s) \in [DOMAIN openOrders -> Nat]
      /\ HeldToSell(s)' = HeldToSell(s)
  <2>1. OpenToSell(s)' \in [DOMAIN openOrders' -> Nat]
    <3>1. \A o \in DOMAIN openOrders' : openOrders'[o].remaining \in Nat
      BY <1>2, <1>3
    <3>2. QED
      BY <3>1 DEF OpenToSell
  <2>2. QED
    BY <1>2, <2>1, ToSellTyped DEF HeldToSell
<1> HIDE DEF f, n, k
<1>5. /\ \A o \in DOMAIN openOrders' : o # k => OpenToSell(s)'[o] = OpenToSell(s)[o]
      /\ k \in DOMAIN openOrders' => OpenToSell(s)'[k] <= OpenToSell(s)[k]
  <2>1. \A o \in DOMAIN openOrders' : o # k => OpenToSell(s)'[o] = OpenToSell(s)[o]
    BY <1>2 DEF OpenToSell
  <2>2. ASSUME k \in DOMAIN openOrders'
        PROVE  OpenToSell(s)'[k] <= OpenToSell(s)[k]
    <3>1. k \in DOMAIN openOrders /\ openOrders[k].remaining \in Nat
      BY <1>2, <1>3, <2>2
    <3>2. openOrders'[k].remaining <= openOrders[k].remaining
      BY <1>2, <2>2, <3>1
    <3>3. QED
      BY <1>2, <2>2, <3>1, <3>2 DEF OpenToSell
  <2>3. QED
    BY <2>1, <2>2
<1>6. PICK less : less = OpenToSell(s)'
  OBVIOUS
<1>7. PICK open1 : open1 = [o \in DOMAIN openOrders' |->
                              IF o = k /\ less[o] < open[o] THEN less[o] ELSE open[o]]
  OBVIOUS
<1>8. /\ open1 \in [DOMAIN openOrders' -> Nat]
      /\ \A o \in DOMAIN openOrders' :
            /\ o \in DOMAIN openOrders /\ open1[o] <= open[o] /\ open1[o] <= less[o]
            /\ o # k => open1[o] = open[o]
  <2>1. less \in [DOMAIN openOrders' -> Nat] /\ \A o \in DOMAIN openOrders' : o \in DOMAIN openOrders
    BY <1>2, <1>4, <1>6
  <2>2. \A o \in DOMAIN openOrders' : o # k => open[o] <= less[o]
    BY <1>1, <1>5, <1>6, <2>1 DEF Backed
  <2>3. QED
    BY <1>1, <1>7, <2>1, <2>2
<1>9. bus = "InProcess" => open1 = less
  <2>1. SUFFICES ASSUME bus = "InProcess" PROVE open1 = less
    OBVIOUS
  <2>2. open = OpenToSell(s) /\ less \in [DOMAIN openOrders' -> Nat]
    BY <1>1, <1>4, <1>6, <2>1 DEF Backed
  <2>3. \A o \in DOMAIN openOrders' : o # k => open[o] = less[o]
    BY <1>5, <1>6, <2>2
  <2>4. k \in DOMAIN openOrders' => less[k] <= open[k] /\ less[k] \in Nat /\ open[k] \in Nat
    BY <1>1, <1>5, <1>6, <1>8, <2>2
  <2>5. \A o \in DOMAIN openOrders' : open1[o] = less[o]
    BY <1>7, <2>3, <2>4
  <2>6. QED
    BY <1>8, <2>2, <2>5
<1>10. SumFunction(open1) <= SumFunction(open) /\ SumFunction(open) \in Nat
       /\ SumFunction(open1) \in Nat
  <2>0. PICK S, R, x : S = DOMAIN openOrders /\ R = DOMAIN openOrders' /\ x = k
    OBVIOUS
  <2>1. IsFiniteSet(S)
    BY <1>2, <2>0 DEF AccountTypeOK
  <2>2. IsFiniteSet(R)
    BY <2>0 DEF AccountTypeOK
  <2>3. open \in [S -> Nat]
    BY <1>1, <2>0
  <2>4. open1 \in [R -> Nat]
    BY <1>8, <2>0
  <2>5. S \ {x} = R \ {x}
    BY <1>2, <2>0
  <2>6. \A y \in S \ {x} : open[y] = open1[y]
    BY <1>8, <2>0, <2>5
  <2>7. CASE x \in S
    <3>1. 0 \in Nat /\ 0 <= open[x]
      BY <2>3, <2>7
    <3>2. x \in R => open1[x] <= open[x] - 0
      BY <1>8, <2>0, <2>3, <2>7
    <3>3. SumFunction(open1) <= SumFunction(open) - 0
      BY <2>1, <2>2, <2>3, <2>4, <2>5, <2>6, <2>7, <3>1, <3>2, MapShrinks
    <3>4. QED
      BY <2>1, <2>2, <2>3, <2>4, <3>3, SumOfMap
  <2>8. CASE x \notin S
    <3>1. R = S
      BY <1>8, <2>0, <2>5, <2>8
    <3>2. open1 = open
      BY <2>3, <2>4, <2>6, <2>8, <3>1
    <3>3. QED
      BY <2>1, <2>3, <3>2, SumOfMap
  <2>9. QED
    BY <2>7, <2>8
<1>11. Backed(s, held, open1)'
  <2>1. \A h \in DOMAIN holds : held[h] <= HeldToSell(s)[h]
    BY <1>1 DEF Backed
  <2>2. \A o \in DOMAIN openOrders' : open1[o] <= OpenToSell(s)'[o]
    BY <1>6, <1>8
  <2>3. bus = "InProcess" => held = HeldToSell(s)' /\ open1 = OpenToSell(s)'
    BY <1>1, <1>4, <1>6, <1>9 DEF Backed
  <2>4. SumFunction(held) + SumFunction(open1) <= position'[s] /\ bus' = bus
    <3>1. SumFunction(held) \in Nat /\ SumFunction(held) + SumFunction(open) <= position[s]
      BY <1>1, <1>2, BackedIsCommitted DEF Backed
    <3>2. \A a, b, c, d, x \in Int : (a + b <= c /\ d <= b /\ c <= x) => a + d <= x
      OBVIOUS
    <3>3. QED
      BY <1>2, <1>10, <3>1, <3>2
  <2>5. held \in [DOMAIN holds' -> Nat] /\ DOMAIN holds' = DOMAIN holds
    BY <1>1, <1>2
  <2>6. QED
    BY <1>4, <1>8, <2>1, <2>2, <2>3, <2>4, <2>5 DEF Backed
<1>12. \A o \in 1..Len(issued), m \in Int :
          (o # queue[i].order /\ Claims(issued, held, open, o, m)) => Claims(issued, held, open1, o, m)
  <2>1. \A o : o # k => (o \in DOMAIN open1 <=> o \in DOMAIN open)
    BY <1>1, <1>2, <1>8
  <2>2. \A o \in DOMAIN open1 : o # k => open1[o] = open[o]
    BY <1>8
  <2>3. QED
    BY <2>1, <2>2 DEF Claims, k, f
<1>13. QED
  BY <1>11, <1>12, RestCovered

LEMMA FillCovered ==
  ASSUME FlowTypeOK, AccountTypeOK', Books, Covered, NEW i, TakesFill(i), NEW mark,
         ApplyFill(queue[i], mark)
  PROVE  Covered'
<1> SUFFICES ASSUME NEW s \in Symbols PROVE \E h, p : Covers(s, h, p)'
  BY DEF Covered
<1>1. FillBooks(i) /\ Rest(i, s) /\ i \in 1..Len(queue)
  BY FillSettles DEF TakesFill
<1>2. PICK held, open : Covers(s, held, open)
  BY DEF Covered
<1>3. QED
  BY <1>1, <1>2, SaleOfOpenCovered, SaleOfHeldCovered, OtherFillCovered

-----------------------------------------------------------------------------
LEMMA CoveredStep ==
  ASSUME FlowTypeOK, FlowTypeOK', Books, Covered, [Next]_vars
  PROVE  Covered'
<1>1. queue \in Seq(Events) /\ <<>> \in Seq(Events) /\ 1..Len(<<>>) = {}
  BY DEF FlowTypeOK, TypeOK
<1>2. \A o \in DOMAIN working : working[o] \in Orders /\ Remaining(working[o]) \in Int
  BY DEF FlowTypeOK, TypeOK, ExecutionTypeOK, Remaining, Orders
<1>3. ASSUME NEW i, NEW fills, NEW ideas, NEW out,
             TakesBar(i, fills, ideas, out), BarNews(queue[i], fills, ideas, out)
      PROVE  Covered'
  <2>1. /\ out \in Seq(Events) /\ Queued(i, out) /\ queue[i] \in MarketEvents /\ ExecutionTypeOK
        /\ UNCHANGED <<holds, openOrders, position, issued, bus>>
    BY <1>3 DEF TakesBar, BarNews, Execute, HandleMarketData, Mark, FlowTypeOK, TypeOK
  <2>2. ASSUME NEW o \in DOMAIN working'
        PROVE  /\ o \in DOMAIN working /\ working'[o].side = working[o].side
               /\ working'[o].symbol = working[o].symbol
               /\ Remaining(working'[o]) <= Remaining(working[o])
               /\ working'[o] \in Orders /\ working[o] \in Orders
    <3>1. /\ o \in DOMAIN working /\ working[o] \in Orders /\ working'[o] \in Orders
          /\ working'[o].symbol = working[o].symbol /\ working'[o].side = working[o].side
          /\ o \notin Executes(queue[i], fills) => Remaining(working'[o]) = Remaining(working[o])
          /\ o \in Executes(queue[i], fills) =>
                 Remaining(working'[o]) = Remaining(working[o]) - fills[o]
      BY <1>3, BarLeaves
    <3>2. o \in Executes(queue[i], fills) => fills[o] \in Nat
      <4>1. o \in Executes(queue[i], fills) => Filling(queue[i], fills, o)
        BY <1>3, <2>1, Fillings DEF TakesBar
      <4>2. QED
        BY <3>1, <4>1, <1>2 DEF Filling
    <3>3. Remaining(working'[o]) <= Remaining(working[o])
      BY <1>2, <3>1, <3>2
    <3>4. QED
      BY <3>1, <3>3
  <2>3. ASSUME NEW m \in 1..Len(out), out[m].type = "Fill"
        PROVE  /\ out[m].order \in DOMAIN working /\ out[m].left = Remaining(working[out[m].order])
               /\ out[m].symbol = working[out[m].order].symbol
               /\ (out[m].quantity < 0 <=> working[out[m].order].side = "Sell")
    <3>1. PICK o \in Executes(queue[i], fills) :
             Filling(queue[i], fills, o) /\ IsFillOf(out[m], queue[i], fills, o)
      BY <1>3, <2>3, NewsIs
    <3>2. QED
      BY <2>1, <3>1, FillSays DEF Filling
  <2>4. QED
    BY <2>1, <2>2, <2>3, StillCovered
<1>4. ASSUME NEW i, NEW out \in Seq(Events), Queued(i, out),
             UNCHANGED <<holds, openOrders, position, issued, bus, working>>,
             \A m \in 1..Len(out) : out[m].type # "Fill"
      PROVE  Covered'
  <2>1. \A o \in DOMAIN working' :
            /\ o \in DOMAIN working /\ working'[o].side = working[o].side
            /\ working'[o].symbol = working[o].symbol
            /\ Remaining(working'[o]) <= Remaining(working[o])
            /\ working'[o] \in Orders /\ working[o] \in Orders
    BY <1>2, <1>4
  <2>2. QED
    BY <1>4, <2>1, StillCovered
<1>5. ASSUME NEW i, NEW out, TakesSignal(i, out)
      PROVE  Covered'
  <2>1. CASE out = <<>> /\ UNCHANGED <<portfolioVars, executionVars>>
    <3>1. UNCHANGED <<holds, openOrders, position, issued, bus, working>> /\ Queued(i, <<>>)
      BY <1>5, <2>1 DEF TakesSignal, portfolioVars, executionVars
    <3>2. QED
      BY <1>1, <1>4, <3>1
  <2>2. CASE \E signal, order : Approved(queue[i], signal, order, out)
    BY <1>5, <2>2, ApprovalCovered
  <2>3. QED
    BY <1>5, <2>1, <2>2, SignalOutcome
<1>6. ASSUME NEW i, TakesOrder(i)
      PROVE  Covered'
  <2>1. /\ Queued(i, <<>>) /\ ApplyOrderUpdate(queue[i])
        /\ UNCHANGED <<issued, working, bus, position>>
    BY <1>6 DEF TakesOrder, HandleOrder, ApplyOrderUpdate, executionVars
  <2>2. CASE IgnoreOrder(queue[i])
    <3>1. UNCHANGED <<holds, openOrders>>
      BY <2>2 DEF IgnoreOrder
    <3>2. QED
      BY <1>1, <1>4, <2>1, <3>1
  <2>3. QED
    BY <1>6, <2>1, <2>2, OpenCovered, ReleaseCovered DEF ApplyOrderUpdate
<1>7. ASSUME NEW i, TakesFill(i)
      PROVE  Covered'
  <2>1. Queued(i, <<>>) /\ HandleFill(queue[i]) /\ UNCHANGED <<issued, working, bus>>
    BY <1>7 DEF TakesFill, HandleFill, executionVars
  <2>2. CASE UNCHANGED portfolioVars
    <3>1. UNCHANGED <<holds, openOrders, position>>
      BY <2>2 DEF portfolioVars
    <3>2. QED
      BY <1>1, <1>4, <2>1, <3>1
  <2>3. CASE ApplyFill(queue[i], MarkAfter(queue[i]))
    <3>1. AccountTypeOK'
      BY DEF FlowTypeOK
    <3>2. QED
      BY <1>7, <2>3, <3>1, FillCovered
  <2>4. QED
    BY <2>1, <2>2, <2>3 DEF HandleFill
<1>8. ASSUME NEW bar, SendsBar(bar)
      PROVE  Covered'
  <2>1. /\ UNCHANGED <<holds, openOrders, position, issued, bus, working>>
        /\ Queued(0, <<bar>>) /\ bar \in MarketEvents
    BY <1>8 DEF SendsBar, portfolioVars, executionVars
  <2>2. <<bar>> \in Seq(Events) /\ \A m \in 1..Len(<<bar>>) : <<bar>>[m].type # "Fill"
    BY <2>1 DEF MarketEvents, Events
  <2>3. QED
    BY <1>4, <2>1, <2>2
<1>9. CASE MovesOn \/ UNCHANGED vars
  <2>1. UNCHANGED <<issued, holds, openOrders, position, bus, working, queue>>
    BY <1>9 DEF MovesOn, vars, flowVars, portfolioVars, executionVars
  <2> SUFFICES ASSUME NEW s \in Symbols PROVE \E held, open : Covers(s, held, open)'
    BY DEF Covered
  <2>2. PICK held, open : Covers(s, held, open)
    BY DEF Covered
  <2>3. Backed(s, held, open)'
    BY <2>1, <2>2 DEF Covers, Backed, HeldToSell, OpenToSell
  <2>4. Covers(s, held, open)'
    BY <2>1, <2>2, <2>3 DEF Covers, Remaining, IsSale
  <2>5. QED
    BY <2>4
<1>10. CASE Next
  BY <1>3, <1>5, <1>6, <1>7, <1>8, <1>9, <1>10, Steps
<1>11. QED
  BY <1>9, <1>10

LEMMA CoveredInit ==
  ASSUME Init
  PROVE  Covered
<1> SUFFICES ASSUME NEW s \in Symbols PROVE \E held, open : Covers(s, held, open)
  BY DEF Covered
<1>1. DOMAIN <<>> = {} /\ Len(<<>>) = 0 /\ <<>> \in [{} -> Nat] /\ IsFiniteSet({})
  BY FS_EmptySet
<1>2. /\ holds = <<>> /\ openOrders = <<>> /\ working = <<>> /\ queue = <<>> /\ position[s] = 0
  BY DEF Init, PortfolioInit, ExecutionInit
<1>3. HeldToSell(s) = <<>> /\ OpenToSell(s) = <<>>
  BY <1>1, <1>2 DEF HeldToSell, OpenToSell
<1>4. SumFunction(<<>>) = 0
  BY <1>1, SumEmpty DEF SumFunction
<1>5. Covers(s, <<>>, <<>>)
  BY <1>1, <1>2, <1>3, <1>4 DEF Covers, Backed
<1>6. QED
  BY <1>5

LEMMA CoveredHolds == Spec => [](FlowTypeOK /\ Books /\ Covered)
<1>1. FlowTypeOK /\ FlowTypeOK' /\ Books /\ Covered /\ [Next]_vars => Covered'
  BY CoveredStep
<1>2. QED
  BY <1>1, CoveredInit, FlowTypesHold, BooksHold, PTL DEF Spec

(* No short selling: the shares promised to sales, at the portfolio, in    *)
(* flight or at the simulator, are always held.                            *)
THEOREM SalesAreCovered == Spec => []NeverShort
<1>1. FlowTypeOK /\ Covered => NeverShort
  BY CoveredIsSafe
<1>2. QED
  BY <1>1, CoveredHolds, PTL

(* Whatever the TopicEventBus reorders, drops or delivers late, no sale of *)
(* shares that are not held is ever applied, and no closed order opens.    *)
THEOREM ReorderingSurvived == Spec => []SurvivesReordering
<1>1. FlowTypeOK /\ Books /\ Covered => SurvivesReordering
  BY CoveredIsSafe DEF Books, SoundIds, SurvivesReordering, ClosedStaysClosed
<1>2. QED
  BY <1>1, CoveredHolds, PTL

-----------------------------------------------------------------------------
(* Cash.  What a fill of a buy can cost is set aside for it, as long as    *)
(* reservations suffice.                                                   *)

Cost(n, p) == p * n + FeesOn(n, p * n)

(* A sale of n shares pays its own fees.                                   *)
Affordable(n) == \A p \in Prices : FeesOn(n, p * n) <= p * n

Sufficient == bus = "InProcess" /\ ReservationsSuffice

HeldCash == [s \in DOMAIN holds |-> holds[s].amount]

OpenCash == [o \in DOMAIN openOrders |-> openOrders[o].reserved]

FundedEvents(signals, held, open) ==
    {e \in Events :
        /\ e.type = "MarketData" => e.open \in Prices /\ e.price \in Prices
        /\ e.type = "Signal" =>
              /\ e.order = "Market" => e.limit = None
              /\ \A n \in 1..e.quantity : Affordable(n)
        /\ e.type = "Fill" =>
              /\ e.price \in Prices /\ e.fees = FeesOn(Shares(e), e.price * Shares(e))
              /\ Shares(e) = e.left
              /\ e.quantity < 0 => Affordable(Shares(e))
              /\ ~(e.quantity < 0) =>
                    Claims(signals, held, open, e.order, Cost(Shares(e), e.price))}

FundedOrder(w, signals, held, open) ==
    /\ w.filled = 0
    /\ w.side = "Sell" => Affordable(w.quantity)
    /\ w.side = "Buy" => \A p \in Prices :
          LimitReached(w, p) => Claims(signals, held, open, w.id, Cost(w.quantity, p))

PricesOffered ==
    /\ \A s \in DOMAIN marks : marks[s] \in Prices
    /\ \A s \in DOMAIN lastMarks : lastMarks[s].price \in Prices

Funded ==
    /\ BuyingPower >= 0
    /\ PricesOffered
    /\ \A o \in DOMAIN working : FundedOrder(working[o], issued, HeldCash, OpenCash)
    /\ \A k \in 1..Len(queue) : queue[k] \in FundedEvents(issued, HeldCash, OpenCash)

LEMMA TimesMonotone ==
  ASSUME NEW n \in Nat, NEW p \in Nat, NEW q \in Nat, p <= q
  PROVE  p * n <= q * n /\ p * n \in Nat /\ q * n \in Nat
<1>1. PICK d \in Nat : q = p + d
  BY q - p \in Nat
<1>2. q * n = p * n + d * n /\ d * n >= 0
  BY <1>1
<1>3. QED
  BY <1>2

LEMMA ScaledByMonotone ==
  ASSUME NEW a \in Nat, NEW b \in Nat, a <= b, NEW percent \in Nat
  PROVE  ScaledBy(a, percent) <= ScaledBy(b, percent)
<1>1. a * percent <= b * percent /\ a * percent \in Nat /\ b * percent \in Nat
  BY TimesMonotone
<1>2. \A x, y \in Nat : x <= y => (x + 50) \div 100 <= (y + 50) \div 100
  OBVIOUS
<1>3. QED
  BY <1>1, <1>2 DEF ScaledBy

LEMMA CostMonotone ==
  ASSUME NEW n \in Nat, NEW a \in Nat, NEW b \in Nat, a <= b
  PROVE  a + FeesOn(n, a) <= b + FeesOn(n, b) /\ FeesOn(n, a) \in Nat /\ FeesOn(n, b) \in Nat
<1>1. ScaledBy(a, FeePercent) <= ScaledBy(b, FeePercent)
  BY FeesAssumption, ScaledByMonotone
<1>2. ScaledBy(a, FeePercent) \in Nat /\ ScaledBy(b, FeePercent) \in Nat
  BY FeesAssumption, ScaledByNat
<1>3. FeesOn(n, a) \in Nat /\ FeesOn(n, b) \in Nat
  BY FeesNat
<1>4. PerShareFee * n \in Nat /\ PerTradeFee \in Nat
  BY FeesAssumption
<1>5. FeesOn(n, a) <= FeesOn(n, b)
  BY <1>1, <1>2, <1>4 DEF FeesOn
<1>6. QED
  BY <1>3, <1>5

LEMMA CostNat ==
  ASSUME NEW n \in Nat, NEW p \in Nat
  PROVE  Cost(n, p) \in Nat /\ p * n \in Nat /\ FeesOn(n, p * n) \in Nat
<1>1. p * n \in Nat
  OBVIOUS
<1>2. FeesOn(n, p * n) \in Nat
  BY <1>1, FeesNat
<1>3. QED
  BY <1>1, <1>2 DEF Cost

(* An execution inside its limit is at the bar's open when nothing slips.  *)
LEMMA FillsAtOpen ==
  ASSUME NEW w \in Orders, NEW open \in Nat, SlipPercent = 0, LimitReached(w, open)
  PROVE  FillPrice(w, open) = open
<1>1. ScaledBy(open, SlipPercent) = 0
  BY DEF ScaledBy
<1>2. open + ScaledBy(open, SlipPercent) = open /\ open - ScaledBy(open, SlipPercent) = open
  BY <1>1
<1>3. \A a, b \in Int : (a <= b => Min({a, b}) = a) /\ (a >= b => Max({a, b}) = a)
  BY DEF Min, Max
<1>4. w.limit \in Nat \cup {None}
  BY DEF Orders
<1> DEFINE slip == ScaledBy(open, SlipPercent)
           moved == IF w.side = "Buy" THEN open + slip ELSE open - slip
<1>5. moved = open
  BY <1>2
<1>6. FillPrice(w, open) = IF w.limit = None THEN moved
                           ELSE IF w.side = "Buy" THEN Min({moved, w.limit})
                           ELSE Max({moved, w.limit})
  BY DEF FillPrice
<1> HIDE DEF moved
<1>7. CASE w.limit = None
  BY <1>5, <1>6, <1>7
<1>8. CASE w.limit \in Nat /\ w.limit # None
  <2>1. CASE w.side = "Buy"
    <3>1. open <= w.limit
      BY <1>8, <2>1 DEF LimitReached
    <3>2. Min({open, w.limit}) = open
      BY <1>3, <1>8, <3>1
    <3>3. QED
      BY <1>5, <1>6, <1>8, <2>1, <3>2
  <2>2. CASE w.side # "Buy"
    <3>1. open >= w.limit
      BY <1>8, <2>2 DEF LimitReached
    <3>2. Max({open, w.limit}) = open
      BY <1>3, <1>8, <3>1
    <3>3. QED
      BY <1>5, <1>6, <1>8, <2>2, <3>2
  <2>3. QED
    BY <2>1, <2>2
<1>9. QED
  BY <1>4, <1>7, <1>8

(* What an approved buy holds is what it can cost at any price in reach.   *)
LEMMA BuyCostSuffices ==
  ASSUME ReservationsSuffice, NEW symbol \in DOMAIN marks, marks[symbol] \in Prices,
         NEW n \in Nat, NEW p \in Prices
  PROVE  Cost(n, p) <= BuyCost(symbol, n, None)
<1>1. /\ p \in Nat /\ marks[symbol] \in Nat /\ BuyBuffer \in Nat
      /\ 100 * p <= (100 + BuyBuffer) * marks[symbol]
  BY FlowAssumption, PortfolioAssumption DEF ReservationsSuffice
<1> DEFINE m == marks[symbol]
           b == 100 + BuyBuffer
<1>2. m \in Nat /\ b \in Nat /\ 100 * p <= b * m
  BY <1>1
<1> HIDE DEF m, b
<1>3. 100 * p \in Nat /\ b * m \in Nat
  BY <1>1, <1>2
<1>4. (100 * p) * n <= (b * m) * n
  BY <1>2, <1>3, TimesMonotone
<1>5. (100 * p) * n = 100 * (p * n) /\ (b * m) * n = (m * n) * b
      /\ p * n \in Nat /\ (m * n) * b \in Nat
  BY <1>1, <1>2
<1>6. \A x, y \in Nat : 100 * x <= y => x <= (y + 50) \div 100
  OBVIOUS
<1>7. p * n <= ScaledBy(m * n, b)
  BY <1>4, <1>5, <1>6 DEF ScaledBy
<1>8. ScaledBy(m * n, b) \in Nat
  <2>1. m * n \in Nat
    BY <1>2
  <2>2. QED
    BY <1>2, <2>1, ScaledByNat
<1>9. Cost(n, p) <= ScaledBy(m * n, b) + FeesOn(n, ScaledBy(m * n, b))
  BY <1>5, <1>7, <1>8, CostMonotone DEF Cost
<1>10. QED
  BY <1>9 DEF BuyCost, m, b

LEMMA LimitCostSuffices ==
  ASSUME NEW symbol, NEW n \in Nat, NEW limit \in Nat, NEW p \in Nat, p <= limit
  PROVE  Cost(n, p) <= BuyCost(symbol, n, limit)
<1>1. limit # None
  BY FeesAssumption
<1>2. p * n <= limit * n /\ p * n \in Nat /\ limit * n \in Nat
  BY TimesMonotone
<1>3. QED
  BY <1>1, <1>2, CostMonotone DEF Cost, BuyCost

(* What a step has to show for the cash set aside after it.                *)
LEMMA FundedNext ==
  ASSUME queue \in Seq(Events), NEW i, NEW out \in Seq(Events), Queued(i, out),
         BuyingPower' >= 0, PricesOffered', NEW held, NEW open, held = HeldCash', open = OpenCash',
         \A o \in DOMAIN working' : FundedOrder(working'[o], issued', held, open),
         \A j \in 1..Len(queue) : j # i => queue[j] \in FundedEvents(issued', held, open),
         \A m \in 1..Len(out) : out[m] \in FundedEvents(issued', held, open)
  PROVE  Funded'
<1>1. \A k \in 1..Len(queue') : queue'[k] \in FundedEvents(issued', held, open)
  BY All
<1>2. QED
  BY <1>1 DEF Funded, FundedOrder, FundedEvents, LimitReached

LEMMA CashTyped ==
  ASSUME AccountTypeOK
  PROVE  /\ HeldCash \in [DOMAIN holds -> Nat] /\ OpenCash \in [DOMAIN openOrders -> Nat]
         /\ IsFiniteSet(DOMAIN holds) /\ IsFiniteSet(DOMAIN openOrders)
         /\ SumFunction(HeldCash) \in Nat /\ SumFunction(OpenCash) \in Nat /\ cash \in Int
<1>1. /\ \A h \in DOMAIN holds : holds[h].amount \in Nat
      /\ \A o \in DOMAIN openOrders : openOrders[o].reserved \in Nat
  BY DEF AccountTypeOK, PortfolioTypeOK, Holds, PendingOrders
<1>2. /\ HeldCash \in [DOMAIN holds -> Nat] /\ OpenCash \in [DOMAIN openOrders -> Nat]
      /\ IsFiniteSet(DOMAIN holds) /\ IsFiniteSet(DOMAIN openOrders)
  BY <1>1 DEF HeldCash, OpenCash, AccountTypeOK
<1>3. SumFunction(HeldCash) \in Nat /\ SumFunction(OpenCash) \in Nat
  BY <1>2, SumOfMap
<1>4. QED
  BY <1>2, <1>3 DEF AccountTypeOK, PortfolioTypeOK

LEMMA BuyingPowerIs ==
  /\ BuyingPower = cash - (SumFunction(HeldCash) + SumFunction(OpenCash))
  /\ \A h, p : h = HeldCash' /\ p = OpenCash' =>
        BuyingPower' = cash' - (SumFunction(h) + SumFunction(p))
<1>1. ReservedTotal = SumFunction(HeldCash) + SumFunction(OpenCash)
  BY DEF ReservedTotal, HeldCash, OpenCash
<1>2. ASSUME NEW h, NEW p, h = HeldCash', p = OpenCash'
      PROVE  BuyingPower' = cash' - (SumFunction(h) + SumFunction(p))
  <2>1. h = [s \in DOMAIN holds' |-> holds'[s].amount]
    BY <1>2 DEF HeldCash
  <2>2. p = [o \in DOMAIN openOrders' |-> openOrders'[o].reserved]
    BY <1>2 DEF OpenCash
  <2>3. QED
    BY <2>1, <2>2 DEF BuyingPower, ReservedTotal
<1>3. QED
  BY <1>1, <1>2 DEF BuyingPower

(* Every order but x can claim after a step what it could before.          *)
LEMMA FundsCarry ==
  ASSUME FlowTypeOK, Books, Funded, NEW x, NEW held, NEW open,
         \A o \in 1..Len(issued), n \in Int : o # x =>
            (Claims(issued, HeldCash, OpenCash, o, n) => Claims(issued', held, open, o, n))
  PROVE  /\ \A o \in DOMAIN working : o # x => FundedOrder(working[o], issued', held, open)
         /\ \A j \in 1..Len(queue) : (queue[j].type = "Fill" => queue[j].order # x) =>
               queue[j] \in FundedEvents(issued', held, open)
<1>1. ASSUME NEW o \in DOMAIN working, o # x
      PROVE  FundedOrder(working[o], issued', held, open)
  <2>0. \A n, p \in Nat : Cost(n, p) \in Int
    BY CostNat
  <2>1. /\ o \in 1..Len(issued) /\ working[o].id = o /\ working[o].quantity \in Nat
    BY DEF FlowTypeOK, TypeOK, ExecutionTypeOK, Orders
  <2>2. \A p \in Prices : p \in Nat /\ Cost(working[o].quantity, p) \in Int
    <3>1. \A p \in Prices : p \in Nat
      BY FlowAssumption
    <3>2. QED
      BY <2>0, <2>1, <3>1
  <2>3. FundedOrder(working[o], issued, HeldCash, OpenCash)
    BY DEF Funded
  <2>4. QED
    BY <1>1, <2>1, <2>2, <2>3 DEF FundedOrder
<1>2. ASSUME NEW j \in 1..Len(queue), queue[j].type = "Fill" => queue[j].order # x
      PROVE  queue[j] \in FundedEvents(issued', held, open)
  <2>0. \A n, p \in Nat : Cost(n, p) \in Int
    BY CostNat
  <2>1. queue[j] \in FundedEvents(issued, HeldCash, OpenCash) /\ queue[j] \in SoundFills
    BY DEF Funded, Books, SoundEvents
  <2>2. queue[j].type = "Fill" =>
           queue[j].order \in 1..Len(issued) /\ Cost(Shares(queue[j]), queue[j].price) \in Int
    <3>1. queue[j].type = "Fill" => queue[j] \in Fills
      BY <2>1, EventKinds DEF SoundFills
    <3>2. queue[j].type = "Fill" => Shares(queue[j]) \in Nat /\ queue[j].price \in Nat
      BY <3>1, SharesOfFill DEF Fills
    <3>3. queue[j].type = "Fill" => Cost(Shares(queue[j]), queue[j].price) \in Int
      BY <2>0, <3>2
    <3>4. QED
      BY <2>1, <3>3 DEF SoundFills
  <2>3. QED
    BY <1>2, <2>1, <2>2 DEF FundedEvents
<1>3. QED
  BY <1>1, <1>2

(* Steps that leave the portfolio's cash and promises alone.               *)
LEMMA StillFunded ==
  ASSUME FlowTypeOK, Books, Funded, NEW i, NEW out \in Seq(Events), Queued(i, out),
         UNCHANGED <<cash, holds, openOrders, issued>>, PricesOffered',
         \A o \in DOMAIN working' : o \in DOMAIN working /\ working'[o] = working[o],
         \A m \in 1..Len(out) : out[m] \in FundedEvents(issued, HeldCash, OpenCash)
  PROVE  Funded'
<1>1. HeldCash' = HeldCash /\ OpenCash' = OpenCash
  BY DEF HeldCash, OpenCash
<1>2. BuyingPower' = BuyingPower
  BY DEF BuyingPower, ReservedTotal
<1>3. /\ \A o \in DOMAIN working' : FundedOrder(working'[o], issued', HeldCash, OpenCash)
      /\ \A j \in 1..Len(queue) : queue[j] \in FundedEvents(issued', HeldCash, OpenCash)
      /\ BuyingPower' >= 0
  BY <1>2 DEF Funded
<1>4. queue \in Seq(Events) /\ HeldCash = HeldCash' /\ OpenCash = OpenCash'
  BY <1>1 DEF FlowTypeOK, TypeOK
<1>5. \A m \in 1..Len(out) : out[m] \in FundedEvents(issued', HeldCash, OpenCash)
  OBVIOUS
<1>6. QED
  BY <1>3, <1>4, <1>5, FundedNext

LEMMA OrdersNeedNoFunds ==
  ASSUME NEW e \in Events, e.type = "Order", NEW signals, NEW held, NEW open
  PROVE  e \in FundedEvents(signals, held, open)
<1>1. e.type # "MarketData" /\ e.type # "Signal" /\ e.type # "Fill"
  OBVIOUS
<1>2. QED
  BY <1>1, Zenon DEF FundedEvents

(* Executions are whole and at the open of a bar within their limits.      *)
LEMMA FundedNews ==
  ASSUME FlowTypeOK, Sufficient, Funded, NEW i, NEW fills, NEW ideas, NEW out,
         TakesBar(i, fills, ideas, out), BarNews(queue[i], fills, ideas, out),
         NEW m \in 1..Len(out)
  PROVE  out[m] \in FundedEvents(issued, HeldCash, OpenCash)
<1> DEFINE e == out[m]
<1>1. /\ out \in Seq(Events) /\ queue[i] \in MarketEvents /\ ExecutionTypeOK
      /\ i \in 1..Len(queue)
  BY DEF TakesBar, BarNews, FlowTypeOK, TypeOK
<1>2. e \in Events
  BY <1>1
<1>3. /\ WholeFills /\ SlipPercent = 0
      /\ \A idea \in Ideas :
            /\ idea.order = "Market" => idea.limit = None
            /\ \A p \in Prices, n \in 1..idea.quantity : FeesOn(n, p * n) <= p * n
  BY DEF Sufficient, ReservationsSuffice
<1> HIDE DEF e
<1>4. ASSUME e.type = "Order"
      PROVE  e \in FundedEvents(issued, HeldCash, OpenCash)
  BY <1>2, <1>4, OrdersNeedNoFunds
<1>5. ASSUME NEW n \in 1..Len(ideas), ideas[n] \in Ideas,
             e = SignalFrom(ideas[n], emitted + n, queue[i])
      PROVE  e \in FundedEvents(issued, HeldCash, OpenCash)
  <2>1. /\ e.type = "Signal" /\ e.order = ideas[n].order /\ e.limit = ideas[n].limit
        /\ e.quantity = ideas[n].quantity
    BY <1>5 DEF SignalFrom
  <2>2. \A k \in 1..e.quantity : Affordable(k)
    BY <1>3, <1>5, <2>1 DEF Affordable
  <2>3. e.order = "Market" => e.limit = None
    BY <1>3, <1>5, <2>1
  <2>4. QED
    BY <1>2, <2>1, <2>2, <2>3 DEF FundedEvents
<1>6. ASSUME NEW o \in Executes(queue[i], fills), Filling(queue[i], fills, o),
             IsFillOf(e, queue[i], fills, o)
      PROVE  e \in FundedEvents(issued, HeldCash, OpenCash)
  <2> DEFINE w == working[o]
  <2>1. /\ w \in Orders /\ w.id = o /\ fills[o] = Remaining(w) /\ LimitReached(w, queue[i].open)
        /\ o \in DOMAIN working
    BY <1>3, <1>6 DEF Filling
  <2>2. FundedOrder(w, issued, HeldCash, OpenCash)
    BY <2>1 DEF Funded
  <2>3. queue[i].open \in Prices /\ queue[i].open \in Nat
    BY <1>1 DEF Funded, FundedEvents, MarketEvents
  <2>4. fills[o] = w.quantity
    BY <2>1, <2>2 DEF FundedOrder, Remaining, Orders
  <2>5. /\ e.type = "Fill" /\ e.order = o /\ e.left = Remaining(w) /\ Shares(e) = fills[o]
        /\ (e.quantity < 0 <=> w.side = "Sell")
        /\ e.price = FillPrice(w, queue[i].open) /\ e.fees = FeesOn(fills[o], e.price * fills[o])
    BY <1>1, <1>6, FillSays
  <2>6. FillPrice(w, queue[i].open) = queue[i].open
    BY <1>3, <2>1, <2>3, FillsAtOpen
  <2>7. w.side \in {"Buy", "Sell"}
    BY <2>1 DEF Orders, Sides
  <2> HIDE DEF w
  <2>8. e.quantity < 0 => Affordable(Shares(e))
    BY <2>2, <2>4, <2>5 DEF FundedOrder
  <2>9. ~(e.quantity < 0) => Claims(issued, HeldCash, OpenCash, e.order, Cost(Shares(e), e.price))
    BY <2>1, <2>2, <2>3, <2>4, <2>5, <2>6, <2>7 DEF FundedOrder
  <2>10. e.price \in Prices /\ e.fees = FeesOn(Shares(e), e.price * Shares(e)) /\ Shares(e) = e.left
    BY <2>1, <2>3, <2>5, <2>6
  <2>11. QED
    BY <1>2, <2>5, <2>8, <2>9, <2>10 DEF FundedEvents
<1>7. QED
  BY <1>4, <1>5, <1>6, NewsIs DEF e

LEMMA BarFunded ==
  ASSUME FlowTypeOK, Books, Sufficient, Funded, NEW i, NEW fills, NEW ideas, NEW out,
         TakesBar(i, fills, ideas, out), BarNews(queue[i], fills, ideas, out)
  PROVE  Funded'
<1>1. /\ queue \in Seq(Events) /\ queue[i] \in MarketEvents /\ i \in 1..Len(queue)
      /\ out \in Seq(Events) /\ Queued(i, out)
      /\ UNCHANGED <<cash, holds, openOrders, issued>>
      /\ marks' = Put(marks, queue[i].symbol, queue[i].price)
      /\ lastMarks' = Put(lastMarks, queue[i].symbol, queue[i])
  BY DEF TakesBar, BarNews, HandleMarketData, Mark, Execute, FlowTypeOK, TypeOK
<1>2. queue[i].price \in Prices
  BY <1>1 DEF Funded, FundedEvents, MarketEvents
<1>3. PricesOffered'
  <2>1. \A s \in DOMAIN marks' : marks'[s] \in Prices
    BY <1>1, <1>2 DEF Put, Funded, PricesOffered
  <2>2. \A s \in DOMAIN lastMarks' : lastMarks'[s].price \in Prices
    BY <1>1, <1>2 DEF Put, Funded, PricesOffered
  <2>3. QED
    BY <2>1, <2>2 DEF PricesOffered
<1>4. ASSUME NEW o \in DOMAIN working'
      PROVE  o \in DOMAIN working /\ working'[o] = working[o]
  <2>1. /\ o \in DOMAIN working
        /\ o \notin Executes(queue[i], fills) => working'[o] = working[o]
        /\ o \in Executes(queue[i], fills) => fills[o] < Remaining(working[o])
    BY BarLeaves
  <2>2. o \in Executes(queue[i], fills) =>
          fills[o] = Remaining(working[o]) /\ fills[o] \in Int
    <3>1. o \in Executes(queue[i], fills) => Filling(queue[i], fills, o)
      BY <1>1, Fillings DEF TakesBar, FlowTypeOK, TypeOK
    <3>2. WholeFills
      BY DEF Sufficient, ReservationsSuffice
    <3>3. QED
      BY <3>1, <3>2 DEF Filling
  <2>3. QED
    BY <2>1, <2>2
<1>5. \A m \in 1..Len(out) : out[m] \in FundedEvents(issued, HeldCash, OpenCash)
  BY FundedNews
<1>6. QED
  BY <1>1, <1>3, <1>4, <1>5, StillFunded

(* An approved buy holds what it can cost, out of cash not promised yet.   *)
LEMMA ApprovalFunded ==
  ASSUME FlowTypeOK, Books, Sufficient, Funded, NEW i, NEW out, TakesSignal(i, out),
         NEW signal, NEW order, Approved(queue[i], signal, order, out),
         UNCHANGED lastMarks
  PROVE  Funded'
<1> DEFINE id == queue[i].id
           amount == HoldFor(signal).amount
<1>1. /\ queue \in Seq(Events) /\ AccountTypeOK /\ i \in 1..Len(queue)
      /\ Queued(i, out) /\ out = <<order>> /\ out \in Seq(Events)
      /\ 1..Len(out) = {1} /\ out[1] = order
  BY DEF FlowTypeOK, TypeOK, TakesSignal, Approved
<1>2. /\ id \notin DOMAIN holds /\ DOMAIN holds' = DOMAIN holds \cup {id}
      /\ holds'[id] = HoldFor(signal)
      /\ \A h \in DOMAIN holds : holds'[h] = holds[h]
      /\ UNCHANGED <<openOrders, cash, marks>>
      /\ issued'[Len(issued) + 1] = id
      /\ \A k \in 1..Len(issued) : issued'[k] = issued[k]
      /\ order.id \notin 1..Len(issued)
  BY ApprovedIsNew
<1>3. /\ order.type = "Order" /\ order.id = Len(issued) + 1 /\ order.filled = 0
      /\ order.quantity \in Nat /\ order.side = OrderSide(signal)
      /\ order.quantity = signal.quantity /\ order.symbol = signal.symbol
      /\ order.limit = (IF signal.order = "Limit" THEN signal.limit ELSE None)
      /\ order.status = "Working" => ~Refused(signal)
      /\ DOMAIN working' = DOMAIN working \cup {x \in {order.id} : order.status = "Working"}
      /\ \A x \in DOMAIN working : x # order.id => working'[x] = working[x]
      /\ order.status = "Working" => working'[order.id] = order
      /\ HoldGranted(signal) /\ signal.id = id /\ signal \in Signals
      /\ signal.quantity <= queue[i].quantity /\ signal.limit = queue[i].limit
      /\ signal.order = queue[i].order
  BY DEF Approved, Orders, HoldForSignal
<1>4. /\ signal.quantity > 0 /\ signal.quantity \in Nat
      /\ OrderSide(signal) = "Sell" => amount = 0
      /\ OrderSide(signal) # "Sell" =>
            /\ CanPrice(signal.symbol, signal.limit)
            /\ amount = BuyCost(signal.symbol, signal.quantity, signal.limit)
            /\ amount <= BuyingPower
  BY <1>2, <1>3 DEF HoldGranted, HoldFor, Signals
<1>5. /\ signal.order = "Market" => signal.limit = None
      /\ Affordable(signal.quantity)
  <2>1. queue[i] \in Signals /\ queue[i] \in FundedEvents(issued, HeldCash, OpenCash)
    BY <1>1 DEF TakesSignal, Funded
  <2>2. queue[i].type = "Signal" /\ queue[i].quantity \in Nat
    BY <2>1 DEF Signals
  <2>3. signal.quantity \in 1..queue[i].quantity
    BY <1>3, <1>4, <2>2
  <2>4. /\ queue[i].order = "Market" => queue[i].limit = None
        /\ \A n \in 1..queue[i].quantity : Affordable(n)
    BY <2>1, <2>2 DEF FundedEvents
  <2>5. QED
    BY <1>3, <2>3, <2>4
<1>6. amount \in Nat
  <2>1. OrderSide(signal) # "Sell" => BuyCost(signal.symbol, signal.quantity, signal.limit) \in Nat
    BY <1>1, <1>3, <1>4, BuyCostNat DEF AccountTypeOK, Signals
  <2>2. QED
    BY <1>4, <2>1
<1>7. /\ HeldCash \in [DOMAIN holds -> Nat] /\ OpenCash \in [DOMAIN openOrders -> Nat]
      /\ IsFiniteSet(DOMAIN holds) /\ SumFunction(HeldCash) \in Nat /\ SumFunction(OpenCash) \in Nat
      /\ cash \in Int
  BY <1>1, CashTyped
<1>8. /\ HeldCash' = [h \in DOMAIN holds \cup {id} |-> IF h = id THEN amount ELSE HeldCash[h]]
      /\ OpenCash' = OpenCash
  BY <1>2 DEF HeldCash, OpenCash
<1> HIDE DEF id, amount
<1>01. PICK held, open : held = HeldCash /\ open = OpenCash
  OBVIOUS
<1>02. PICK S, x, n : S = DOMAIN holds /\ x = id /\ n = amount
  OBVIOUS
<1>03. PICK held1 : held1 = [h \in S \cup {x} |-> IF h = x THEN n ELSE held[h]]
  OBVIOUS
<1>0. /\ held = HeldCash /\ open = OpenCash /\ S = DOMAIN holds /\ x = id /\ n = amount
      /\ held1 = [h \in S \cup {x} |-> IF h = x THEN n ELSE held[h]]
  BY <1>01, <1>02, <1>03
<1>9. /\ held \in [S -> Nat] /\ held1 \in [S \cup {x} -> Nat] /\ held1[x] = n /\ x \notin S
      /\ \A h \in S : held1[h] = held[h]
  BY <1>0, <1>2, <1>6, <1>7
<1>10. SumFunction(held1) = SumFunction(held) + n
  <2>1. IsFiniteSet(S) /\ IsFiniteSet(S \cup {x})
    <3>1. IsFiniteSet(S)
      BY <1>0, <1>7
    <3>2. QED
      BY <3>1, FS_AddElement, Zenon
  <2>2. S \ {x} = (S \cup {x}) \ {x} /\ \A h \in S \ {x} : held[h] = held1[h]
    BY <1>9
  <2>3. SumFunction(held1) = SumFunction(held) - At(held, S, x) + At(held1, S \cup {x}, x)
        /\ SumFunction(held) \in Nat
    BY <1>9, <2>1, <2>2, MapChange
  <2>4. At(held, S, x) = 0 /\ At(held1, S \cup {x}, x) = n /\ n \in Nat
    BY <1>0, <1>6, <1>9 DEF At
  <2>5. QED
    BY <2>3, <2>4
<1>11. BuyingPower' >= 0
  <2>1. held1 = HeldCash' /\ open = OpenCash'
    BY <1>0, <1>8
  <2>2. BuyingPower' = cash' - (SumFunction(held1) + SumFunction(open))
    BY <2>1, BuyingPowerIs
  <2>3. BuyingPower = cash - (SumFunction(held) + SumFunction(open)) /\ BuyingPower >= 0
    BY <1>0, BuyingPowerIs DEF Funded
  <2>4. /\ SumFunction(held) \in Int /\ SumFunction(open) \in Int /\ n \in Int
        /\ n <= BuyingPower
    BY <1>0, <1>4, <1>6, <1>7, <2>3
  <2>5. cash' = cash
    BY <1>2
  <2>6. QED
    BY <1>7, <1>10, <2>2, <2>3, <2>4, <2>5
<1>12. PricesOffered'
  BY <1>2 DEF PricesOffered, Funded
<1>13. \A o \in 1..Len(issued), k \in Int : o # 0 =>
          (Claims(issued, HeldCash, OpenCash, o, k) => Claims(issued', held1, open, o, k))
  BY <1>0, <1>2, <1>9 DEF Claims
<1>14. /\ \A o \in DOMAIN working : o # 0 => FundedOrder(working[o], issued', held1, open)
       /\ \A j \in 1..Len(queue) : (queue[j].type = "Fill" => queue[j].order # 0) =>
             queue[j] \in FundedEvents(issued', held1, open)
  BY <1>13, FundsCarry
<1>15. \A j \in 1..Len(queue) : queue[j] \in FundedEvents(issued', held1, open)
  <2>1. \A j \in 1..Len(queue) : queue[j].type = "Fill" => queue[j].order # 0
    BY DEF Books, SoundEvents, SoundFills
  <2>2. QED
    BY <1>14, <2>1
<1>16. ASSUME order.status = "Working"
       PROVE  FundedOrder(order, issued', held1, open)
  <2>1. order.side = "Sell" => Affordable(order.quantity)
    BY <1>3, <1>5
  <2>2. ASSUME order.side = "Buy", NEW p \in Prices, LimitReached(order, p)
        PROVE  Claims(issued', held1, open, order.id, Cost(order.quantity, p))
    <3>1. OrderSide(signal) # "Sell" /\ p \in Nat
      BY <1>3, <2>2, FlowAssumption
    <3>2. Cost(order.quantity, p) <= n
      <4>1. CASE signal.limit = None
        <5>1. signal.symbol \in DOMAIN marks /\ marks[signal.symbol] \in Prices
          BY <1>4, <3>1, <4>1 DEF CanPrice, Funded, PricesOffered
        <5>2. ReservationsSuffice
          BY DEF Sufficient
        <5>3. Cost(signal.quantity, p) <= BuyCost(signal.symbol, signal.quantity, None)
          BY <1>4, <5>1, <5>2, BuyCostSuffices
        <5>4. QED
          BY <1>0, <1>3, <1>4, <3>1, <4>1, <5>3
      <4>2. CASE signal.limit \in Nat /\ signal.limit # None
        <5>1. order.limit = signal.limit
          BY <1>3, <1>5, <4>2 DEF Signals
        <5>2. p <= signal.limit
          BY <2>2, <4>2, <5>1 DEF LimitReached
        <5>3. Cost(signal.quantity, p) <= BuyCost(signal.symbol, signal.quantity, signal.limit)
          BY <1>4, <3>1, <4>2, <5>2, LimitCostSuffices
        <5>4. QED
          BY <1>0, <1>3, <1>4, <3>1, <5>3
      <4>3. QED
        BY <1>3, <4>1, <4>2 DEF Signals
    <3>3. order.id \notin DOMAIN open
      BY <1>0, <1>2, <1>7 DEF Books, SoundIds
    <3>4. issued'[order.id] = x /\ x \in DOMAIN held1 /\ held1[x] = n
      BY <1>0, <1>2, <1>3, <1>9
    <3>5. QED
      BY <3>2, <3>3, <3>4 DEF Claims
  <2>3. QED
    BY <1>3, <2>1, <2>2 DEF FundedOrder
<1>17. ASSUME NEW o \in DOMAIN working'
       PROVE  FundedOrder(working'[o], issued', held1, open)
  <2>1. CASE o \in DOMAIN working
    <3>1. working'[o] = working[o] /\ o # 0
      BY <1>2, <1>3, <2>1 DEF FlowTypeOK, TypeOK, ExecutionTypeOK
    <3>2. QED
      BY <1>14, <2>1, <3>1
  <2>2. CASE o = order.id /\ order.status = "Working"
    BY <1>3, <1>16, <2>2
  <2>3. QED
    BY <1>3, <2>1, <2>2
<1>18. \A m \in 1..Len(out) : out[m] \in FundedEvents(issued', held1, open)
  <2>1. order \in Events
    BY DEF Approved, Events
  <2>2. order \in FundedEvents(issued', held1, open)
    BY <1>3, <2>1, OrdersNeedNoFunds
  <2>3. QED
    BY <1>1, <2>2
<1>19. held1 = HeldCash' /\ open = OpenCash'
  BY <1>0, <1>8
<1>20. QED
  BY <1>1, <1>11, <1>12, <1>15, <1>17, <1>18, <1>19, FundedNext

(* An opened order takes over what its signal's hold has, a refused one    *)
(* frees it.                                                               *)
LEMMA OpenFunded ==
  ASSUME FlowTypeOK, Books, Funded, NEW i, TakesOrder(i), OpenOrder(queue[i])
  PROVE  Funded'
<1> DEFINE e == queue[i]
<1>1. /\ queue \in Seq(Events) /\ AccountTypeOK /\ i \in 1..Len(queue)
      /\ Queued(i, <<>>) /\ e \in Orders /\ IsSubmitted(e)
      /\ <<>> \in Seq(Events) /\ 1..Len(<<>>) = {}
  BY DEF FlowTypeOK, TypeOK, TakesOrder, OpenOrder, Opens, IsSubmitted, Orders
<1>2. /\ UNCHANGED <<issued, working, cash, marks, lastMarks>>
      /\ openOrders' = Put(openOrders, e.id, Pending(e)) /\ holds' = Drop(holds, e.signal)
  BY DEF TakesOrder, HandleOrder, ApplyOrderUpdate, OpenOrder, Opens, ReleaseOrder, IgnoreOrder,
     executionVars, pipelineVars
<1>3. /\ e.id \in 1..Len(issued) /\ e.signal = issued[e.id]
      /\ e.id \notin DOMAIN openOrders /\ e.signal \in DOMAIN holds
  BY <1>1, SubmittedIs
<1>4. Pending(e).reserved = HeldCash[e.signal]
  BY <1>3 DEF Pending, HeldCash
<1>5. /\ HeldCash \in [DOMAIN holds -> Nat] /\ OpenCash \in [DOMAIN openOrders -> Nat]
      /\ IsFiniteSet(DOMAIN holds) /\ IsFiniteSet(DOMAIN openOrders)
      /\ SumFunction(HeldCash) \in Nat /\ SumFunction(OpenCash) \in Nat /\ cash \in Int
  BY <1>1, CashTyped
<1>6. HeldCash' = [h \in DOMAIN holds \ {e.signal} |-> HeldCash[h]]
  BY <1>2 DEF HeldCash, Drop
<1>7. OpenCash' = [o \in DOMAIN openOrders \cup {e.id} |->
                     IF o = e.id THEN HeldCash[e.signal] ELSE OpenCash[o]]
  <2>1. /\ DOMAIN openOrders' = DOMAIN openOrders \cup {e.id} /\ openOrders'[e.id] = Pending(e)
        /\ \A o \in DOMAIN openOrders : openOrders'[o] = openOrders[o]
    BY <1>2, <1>3 DEF Put
  <2>2. QED
    BY <1>3, <1>4, <2>1 DEF OpenCash
<1>01. PICK held, open : held = HeldCash /\ open = OpenCash
  OBVIOUS
<1>02. PICK S, R, s, r : S = DOMAIN holds /\ R = DOMAIN openOrders /\ s = e.signal /\ r = e.id
  OBVIOUS
<1> HIDE DEF e
<1>03. PICK held1, open1 : /\ held1 = [h \in S \ {s} |-> held[h]]
                           /\ open1 = [o \in R \cup {r} |-> IF o = r THEN held[s] ELSE open[o]]
  OBVIOUS
<1>8. held1 = HeldCash' /\ open1 = OpenCash'
  BY <1>01, <1>02, <1>03, <1>6, <1>7
<1>9. /\ held \in [S -> Nat] /\ open \in [R -> Nat] /\ s \in S /\ r \notin R /\ held[s] \in Nat
      /\ held1 \in [S \ {s} -> Nat] /\ open1 \in [R \cup {r} -> Nat] /\ open1[r] = held[s]
      /\ \A h \in S \ {s} : held1[h] = held[h]
      /\ \A o \in R : open1[o] = open[o]
  BY <1>01, <1>02, <1>03, <1>3, <1>5
<1>10. SumFunction(held1) = SumFunction(held) - held[s] /\ SumFunction(held) \in Nat
  <2>1. IsFiniteSet(S) /\ IsFiniteSet(S \ {s})
    <3>1. IsFiniteSet(S)
      BY <1>02, <1>5
    <3>2. QED
      BY <3>1, FS_RemoveElement, Zenon
  <2>2. S \ {s} = (S \ {s}) \ {s} /\ \A h \in S \ {s} : held[h] = held1[h]
    BY <1>9
  <2>3. SumFunction(held1) = SumFunction(held) - At(held, S, s) + At(held1, S \ {s}, s)
        /\ SumFunction(held) \in Nat
    BY <1>9, <2>1, <2>2, MapChange
  <2>4. At(held, S, s) = held[s] /\ At(held1, S \ {s}, s) = 0
    BY <1>9 DEF At
  <2>5. QED
    BY <1>9, <2>3, <2>4
<1>11. SumFunction(open1) = SumFunction(open) + held[s] /\ SumFunction(open) \in Nat
  <2>1. IsFiniteSet(R) /\ IsFiniteSet(R \cup {r})
    <3>1. IsFiniteSet(R)
      BY <1>02, <1>5
    <3>2. QED
      BY <3>1, FS_AddElement, Zenon
  <2>2. R \ {r} = (R \cup {r}) \ {r} /\ \A o \in R \ {r} : open[o] = open1[o]
    BY <1>9
  <2>3. SumFunction(open1) = SumFunction(open) - At(open, R, r) + At(open1, R \cup {r}, r)
        /\ SumFunction(open) \in Nat
    BY <1>9, <2>1, <2>2, MapChange
  <2>4. At(open, R, r) = 0 /\ At(open1, R \cup {r}, r) = held[s]
    BY <1>9 DEF At
  <2>5. QED
    BY <1>9, <2>3, <2>4
<1>12. BuyingPower' >= 0
  <2>1. BuyingPower' = cash' - (SumFunction(held1) + SumFunction(open1))
    BY <1>8, BuyingPowerIs
  <2>2. BuyingPower = cash - (SumFunction(held) + SumFunction(open)) /\ BuyingPower >= 0
    BY <1>01, BuyingPowerIs DEF Funded
  <2>3. cash' = cash
    BY <1>2
  <2>4. QED
    BY <1>5, <1>9, <1>10, <1>11, <2>1, <2>2, <2>3
<1>13. PricesOffered'
  BY <1>2 DEF PricesOffered, Funded
<1>14. \A o \in 1..Len(issued), k \in Int : o # 0 =>
          (Claims(issued, HeldCash, OpenCash, o, k) => Claims(issued', held1, open1, o, k))
  <2> SUFFICES ASSUME NEW o \in 1..Len(issued), NEW k \in Int, Claims(issued, held, open, o, k)
               PROVE  Claims(issued, held1, open1, o, k)
    BY <1>2, <1>01
  <2>1. CASE o \in R
    BY <1>9, <2>1 DEF Claims
  <2>2. CASE o = r
    BY <1>02, <1>3, <1>9, <2>2 DEF Claims, e
  <2>3. CASE o \notin R /\ o # r
    <3>1. issued[o] # s
      BY <1>02, <1>3, <2>3 DEF Books, SoundIds
    <3>2. QED
      BY <1>9, <2>3, <3>1 DEF Claims
  <2>4. QED
    BY <2>1, <2>2, <2>3
<1>15. /\ \A o \in DOMAIN working : o # 0 => FundedOrder(working[o], issued', held1, open1)
       /\ \A j \in 1..Len(queue) : (queue[j].type = "Fill" => queue[j].order # 0) =>
             queue[j] \in FundedEvents(issued', held1, open1)
  BY <1>14, FundsCarry
<1>16. \A j \in 1..Len(queue) : queue[j].type = "Fill" => queue[j].order # 0
  BY DEF Books, SoundEvents, SoundFills
<1>17. \A o \in DOMAIN working' : FundedOrder(working'[o], issued', held1, open1)
  <2>1. \A o \in DOMAIN working : o # 0
    BY DEF FlowTypeOK, TypeOK, ExecutionTypeOK
  <2>2. QED
    BY <1>2, <1>15, <2>1
<1>18. QED
  BY <1>1, <1>8, <1>12, <1>13, <1>15, <1>16, <1>17, FundedNext

LEMMA ReleaseFunded ==
  ASSUME FlowTypeOK, Books, Funded, NEW i, TakesOrder(i), ReleaseOrder(queue[i])
  PROVE  Funded'
<1> DEFINE e == queue[i]
<1>1. /\ queue \in Seq(Events) /\ AccountTypeOK /\ i \in 1..Len(queue)
      /\ Queued(i, <<>>) /\ e \in Orders /\ IsSubmitted(e)
      /\ <<>> \in Seq(Events) /\ 1..Len(<<>>) = {}
  BY DEF FlowTypeOK, TypeOK, TakesOrder, ReleaseOrder, IsSubmitted, Orders
<1>2. /\ UNCHANGED <<issued, working, cash, marks, lastMarks>> /\ e.status = "Rejected"
      /\ openOrders' = Drop(openOrders, e.id) /\ holds' = Drop(holds, e.signal)
  BY DEF TakesOrder, HandleOrder, ApplyOrderUpdate, ReleaseOrder, executionVars, pipelineVars
<1>3. /\ e.id \in 1..Len(issued) /\ e.signal = issued[e.id]
      /\ e.id \notin DOMAIN openOrders /\ e.signal \in DOMAIN holds
      /\ e.id \notin DOMAIN working
      /\ \A j \in 1..Len(queue) : queue[j].type = "Fill" => queue[j].order # e.id
  BY <1>1, <1>2, SubmittedIs
<1>4. /\ HeldCash \in [DOMAIN holds -> Nat] /\ OpenCash \in [DOMAIN openOrders -> Nat]
      /\ IsFiniteSet(DOMAIN holds)
      /\ SumFunction(HeldCash) \in Nat /\ SumFunction(OpenCash) \in Nat /\ cash \in Int
  BY <1>1, CashTyped
<1>5. HeldCash' = [h \in DOMAIN holds \ {e.signal} |-> HeldCash[h]]
  BY <1>2 DEF HeldCash, Drop
<1>6. OpenCash' = OpenCash
  BY <1>2, <1>3 DEF OpenCash, Drop
<1>01. PICK held, open : held = HeldCash /\ open = OpenCash
  OBVIOUS
<1>02. PICK S, s : S = DOMAIN holds /\ s = e.signal
  OBVIOUS
<1> HIDE DEF e
<1>03. PICK held1 : held1 = [h \in S \ {s} |-> held[h]]
  OBVIOUS
<1>7. held1 = HeldCash' /\ open = OpenCash'
  BY <1>01, <1>02, <1>03, <1>5, <1>6
<1>8. /\ held \in [S -> Nat] /\ s \in S /\ held1 \in [S \ {s} -> Nat]
      /\ \A h \in S \ {s} : held1[h] = held[h]
  BY <1>01, <1>02, <1>03, <1>3, <1>4
<1>9. /\ SumFunction(held1) <= SumFunction(held) /\ SumFunction(held) \in Nat
      /\ SumFunction(held1) \in Nat
  <2>1. IsFiniteSet(S) /\ IsFiniteSet(S \ {s})
    <3>1. IsFiniteSet(S)
      BY <1>02, <1>4
    <3>2. QED
      BY <3>1, FS_RemoveElement, Zenon
  <2>2. S \ {s} = (S \ {s}) \ {s} /\ \A h \in S \ {s} : held[h] = held1[h]
    BY <1>8
  <2>3. /\ SumFunction(held1) = SumFunction(held) - At(held, S, s) + At(held1, S \ {s}, s)
        /\ SumFunction(held) \in Nat /\ SumFunction(held1) \in Nat
    BY <1>8, <2>1, <2>2, MapChange
  <2>4. At(held, S, s) \in Nat /\ At(held1, S \ {s}, s) = 0
    BY <1>8 DEF At
  <2>5. QED
    BY <2>3, <2>4
<1>10. BuyingPower' >= 0
  <2>1. BuyingPower' = cash' - (SumFunction(held1) + SumFunction(open))
    BY <1>7, BuyingPowerIs
  <2>2. BuyingPower = cash - (SumFunction(held) + SumFunction(open)) /\ BuyingPower >= 0
    BY <1>01, BuyingPowerIs DEF Funded
  <2>3. cash' = cash /\ SumFunction(open) \in Nat
    BY <1>01, <1>2, <1>4
  <2>4. QED
    BY <1>4, <1>9, <2>1, <2>2, <2>3
<1>11. PricesOffered'
  BY <1>2 DEF PricesOffered, Funded
<1>12. ASSUME NEW o \in 1..Len(issued), NEW k \in Int, o # e.id,
              Claims(issued, HeldCash, OpenCash, o, k)
       PROVE  Claims(issued', held1, open, o, k)
  <2>1. issued[o] # s
    BY <1>02, <1>3, <1>12 DEF Books, SoundIds
  <2>2. QED
    BY <1>01, <1>2, <1>8, <1>12, <2>1 DEF Claims
<1>13. /\ \A o \in DOMAIN working : o # e.id => FundedOrder(working[o], issued', held1, open)
       /\ \A j \in 1..Len(queue) : (queue[j].type = "Fill" => queue[j].order # e.id) =>
             queue[j] \in FundedEvents(issued', held1, open)
  BY <1>12, FundsCarry
<1>14. \A o \in DOMAIN working' : FundedOrder(working'[o], issued', held1, open)
  BY <1>2, <1>3, <1>13
<1>15. \A j \in 1..Len(queue) : queue[j] \in FundedEvents(issued', held1, open)
  BY <1>3, <1>13
<1>16. QED
  BY <1>1, <1>7, <1>10, <1>11, <1>14, <1>15, FundedNext

(* An applied fill is its order's last: the cash it takes is no more than  *)
(* what its order had reserved, and a sale brings no less than it costs.   *)
LEMMA FillFunded ==
  ASSUME FlowTypeOK, Books, Sufficient, Funded, NEW i, TakesFill(i),
         ApplyFill(queue[i], MarkAfter(queue[i])), FillBooks(i)
  PROVE  Funded'
<1> DEFINE f == queue[i]
           n == Shares(f)
<1>1. /\ queue \in Seq(Events) /\ AccountTypeOK /\ i \in 1..Len(queue)
      /\ Queued(i, <<>>) /\ f \in Fills /\ f.type = "Fill"
      /\ <<>> \in Seq(Events) /\ 1..Len(<<>>) = {}
      /\ f.price \in Nat /\ f.fees \in Nat /\ f.left \in Nat
  BY DEF FlowTypeOK, TypeOK, TakesFill, Fills
<1>2. /\ UNCHANGED <<issued, working, holds, lastMarks>>
      /\ cash' = cash - (f.price * f.quantity + f.fees)
      /\ marks' = Put(marks, f.symbol, MarkAfter(f))
      /\ ReleaseForFill(f)
  BY DEF TakesFill, HandleFill, ApplyFill, executionVars, pipelineVars
<1>3. /\ f \in FundedEvents(issued, HeldCash, OpenCash) /\ f \in SoundFills /\ bus = "InProcess"
  BY <1>1 DEF Funded, Sufficient, Books, SoundEvents
<1>4. /\ f.price \in Prices /\ f.fees = FeesOn(n, f.price * n) /\ n = f.left
      /\ f.quantity < 0 => Affordable(n)
      /\ ~(f.quantity < 0) => Claims(issued, HeldCash, OpenCash, f.order, Cost(n, f.price))
  BY <1>1, <1>3 DEF FundedEvents
<1>5. f.status = "Filled" /\ f.order \in DOMAIN openOrders
  BY <1>1, <1>3, <1>4 DEF SoundFills, FillBooks
<1>6. openOrders' = Drop(openOrders, f.order)
  BY <1>2, <1>5 DEF ReleaseForFill, EndsOrder
<1>7. /\ n \in Nat /\ f.order \in 1..Len(issued)
      /\ f.quantity = (IF f.quantity < 0 THEN -n ELSE n)
      /\ EndsOrder(f) /\ f.order \notin DOMAIN working
      /\ \A j \in 1..Len(queue) : j # i => (queue[j].type = "Fill" => queue[j].order # f.order)
  <2>1. EndsOrder(f)
    BY <1>5 DEF EndsOrder
  <2>2. QED
    BY <2>1, FillIs
<1>8. /\ HeldCash \in [DOMAIN holds -> Nat] /\ OpenCash \in [DOMAIN openOrders -> Nat]
      /\ IsFiniteSet(DOMAIN openOrders)
      /\ SumFunction(HeldCash) \in Nat /\ SumFunction(OpenCash) \in Nat /\ cash \in Int
  BY <1>1, CashTyped
<1>9. HeldCash' = HeldCash
  BY <1>2 DEF HeldCash
<1>10. OpenCash' = [o \in DOMAIN openOrders \ {f.order} |-> OpenCash[o]]
  BY <1>6 DEF OpenCash, Drop
<1>01. PICK held, open : held = HeldCash /\ open = OpenCash
  OBVIOUS
<1>02. PICK R, r, m, c : /\ R = DOMAIN openOrders /\ r = f.order /\ m = n
                         /\ c = f.price * f.quantity + f.fees
  OBVIOUS
<1> HIDE DEF f, n
<1>03. PICK open1 : open1 = [o \in R \ {r} |-> open[o]]
  OBVIOUS
<1>11. held = HeldCash' /\ open1 = OpenCash'
  BY <1>01, <1>02, <1>03, <1>9, <1>10
<1>12. /\ open \in [R -> Nat] /\ r \in R /\ open1 \in [R \ {r} -> Nat] /\ open[r] \in Nat
       /\ \A o \in R \ {r} : open1[o] = open[o]
  BY <1>01, <1>02, <1>03, <1>5, <1>8
<1>13. SumFunction(open1) = SumFunction(open) - open[r] /\ SumFunction(open) \in Nat
  <2>1. IsFiniteSet(R) /\ IsFiniteSet(R \ {r})
    <3>1. IsFiniteSet(R)
      BY <1>02, <1>8
    <3>2. QED
      BY <3>1, FS_RemoveElement, Zenon
  <2>2. R \ {r} = (R \ {r}) \ {r} /\ \A o \in R \ {r} : open[o] = open1[o]
    BY <1>12
  <2>3. SumFunction(open1) = SumFunction(open) - At(open, R, r) + At(open1, R \ {r}, r)
        /\ SumFunction(open) \in Nat
    BY <1>12, <2>1, <2>2, MapChange
  <2>4. At(open, R, r) = open[r] /\ At(open1, R \ {r}, r) = 0
    BY <1>12 DEF At
  <2>5. QED
    BY <1>12, <2>3, <2>4
<1>14. c \in Int /\ c <= open[r]
  <2>1. /\ f.price * m \in Nat /\ Cost(m, f.price) \in Nat /\ FeesOn(m, f.price * m) \in Nat
    BY <1>02, <1>1, <1>7, CostNat
  <2>2. CASE f.quantity < 0
    <3>1. f.quantity = -m /\ FeesOn(m, f.price * m) <= f.price * m
      BY <1>02, <1>4, <1>7, <2>2 DEF Affordable
    <3>2. f.price * f.quantity = -(f.price * m)
      BY <1>02, <1>1, <1>7, <3>1
    <3>3. c = FeesOn(m, f.price * m) - f.price * m
      BY <1>02, <1>4, <2>1, <3>2
    <3>4. QED
      BY <1>12, <2>1, <3>1, <3>3
  <2>3. CASE ~(f.quantity < 0)
    <3>1. f.quantity = m
      BY <1>02, <1>7, <2>3
    <3>2. c = Cost(m, f.price)
      BY <1>02, <1>4, <3>1 DEF Cost
    <3>3. Cost(m, f.price) <= open[r]
      BY <1>01, <1>02, <1>4, <1>12, <2>3 DEF Claims
    <3>4. QED
      BY <2>1, <3>2, <3>3
  <2>4. QED
    BY <2>2, <2>3
<1>15. BuyingPower' >= 0
  <2>1. BuyingPower' = cash' - (SumFunction(held) + SumFunction(open1))
    BY <1>11, BuyingPowerIs
  <2>2. BuyingPower = cash - (SumFunction(held) + SumFunction(open)) /\ BuyingPower >= 0
    BY <1>01, BuyingPowerIs DEF Funded
  <2>3. cash' = cash - c /\ SumFunction(held) \in Nat
    BY <1>01, <1>02, <1>2, <1>8
  <2>4. QED
    BY <1>8, <1>12, <1>13, <1>14, <2>1, <2>2, <2>3
<1>16. PricesOffered'
  <2>1. MarkAfter(f) \in Prices
    BY <1>4 DEF MarkAfter, Funded, PricesOffered
  <2>2. \A s \in DOMAIN marks' : marks'[s] \in Prices
    BY <1>2, <2>1 DEF Put, Funded, PricesOffered
  <2>3. QED
    BY <1>2, <2>2 DEF Funded, PricesOffered
<1>17. ASSUME NEW o \in 1..Len(issued), NEW k \in Int, o # r,
              Claims(issued, HeldCash, OpenCash, o, k)
       PROVE  Claims(issued', held, open1, o, k)
  BY <1>01, <1>2, <1>12, <1>17 DEF Claims
<1>18. /\ \A o \in DOMAIN working : o # r => FundedOrder(working[o], issued', held, open1)
       /\ \A j \in 1..Len(queue) : (queue[j].type = "Fill" => queue[j].order # r) =>
             queue[j] \in FundedEvents(issued', held, open1)
  BY <1>17, FundsCarry
<1>19. \A o \in DOMAIN working' : FundedOrder(working'[o], issued', held, open1)
  BY <1>02, <1>2, <1>7, <1>18
<1>20. \A j \in 1..Len(queue) : j # i => queue[j] \in FundedEvents(issued', held, open1)
  BY <1>02, <1>7, <1>18
<1>21. QED
  BY <1>1, <1>11, <1>15, <1>16, <1>19, <1>20, FundedNext

-----------------------------------------------------------------------------
LEMMA FundedStep ==
  ASSUME FlowTypeOK, Books, Sufficient, Funded, [Next]_vars
  PROVE  Funded'
<1>1. /\ queue \in Seq(Events) /\ <<>> \in Seq(Events) /\ 1..Len(<<>>) = {}
      /\ DOMAIN working \subseteq DOMAIN working
  BY DEF FlowTypeOK, TypeOK
<1>2. ASSUME NEW i, Queued(i, <<>>), UNCHANGED <<portfolioVars, executionVars, lastMarks>>
      PROVE  Funded'
  <2>1. PricesOffered' /\ UNCHANGED <<cash, holds, openOrders, issued, working>>
    BY <1>2 DEF Funded, PricesOffered, portfolioVars, executionVars
  <2>2. QED
    BY <1>1, <1>2, <2>1, StillFunded
<1>3. ASSUME NEW i, NEW out, TakesSignal(i, out)
      PROVE  Funded'
  <2>1. UNCHANGED lastMarks /\ Queued(i, out)
    BY <1>3, SignalOutcome DEF TakesSignal, pipelineVars
  <2>2. CASE out = <<>> /\ UNCHANGED <<portfolioVars, executionVars>>
    BY <1>2, <2>1, <2>2
  <2>3. CASE \E signal, order : Approved(queue[i], signal, order, out)
    BY <1>3, <2>1, <2>3, ApprovalFunded
  <2>4. QED
    BY <1>3, <2>2, <2>3, SignalOutcome
<1>4. ASSUME NEW i, TakesOrder(i)
      PROVE  Funded'
  <2>1. /\ Queued(i, <<>>) /\ ApplyOrderUpdate(queue[i])
        /\ UNCHANGED <<executionVars, lastMarks, cash, position, marks, lastSequence, appliedFills>>
    BY <1>4 DEF TakesOrder, HandleOrder, ApplyOrderUpdate, pipelineVars
  <2>2. CASE IgnoreOrder(queue[i])
    <3>1. UNCHANGED portfolioVars
      BY <2>1, <2>2 DEF IgnoreOrder, portfolioVars
    <3>2. QED
      BY <1>2, <2>1, <3>1
  <2>3. QED
    BY <1>4, <2>1, <2>2, OpenFunded, ReleaseFunded DEF ApplyOrderUpdate
<1>5. ASSUME NEW i, TakesFill(i)
      PROVE  Funded'
  <2>1. Queued(i, <<>>) /\ HandleFill(queue[i]) /\ UNCHANGED <<executionVars, lastMarks>>
    BY <1>5 DEF TakesFill, HandleFill, pipelineVars
  <2>2. CASE UNCHANGED portfolioVars
    BY <1>2, <2>1, <2>2
  <2>3. CASE ApplyFill(queue[i], MarkAfter(queue[i]))
    <3>1. FillBooks(i)
      BY <1>5, <2>3, FillSettles
    <3>2. QED
      BY <1>5, <2>3, <3>1, FillFunded
  <2>4. QED
    BY <2>1, <2>2, <2>3 DEF HandleFill
<1>6. ASSUME NEW bar, SendsBar(bar)
      PROVE  Funded'
  <2>1. /\ UNCHANGED <<cash, holds, openOrders, issued, working, marks, lastMarks>>
        /\ Queued(0, <<bar>>) /\ bar \in MarketEvents /\ bar.open \in Prices /\ bar.price \in Prices
    BY <1>6 DEF SendsBar, portfolioVars, executionVars, pipelineVars
  <2>2. PricesOffered'
    BY <2>1 DEF Funded, PricesOffered
  <2>3. bar \in Events /\ bar.type = "MarketData"
    BY <2>1 DEF MarketEvents, Events
  <2>4. bar \in FundedEvents(issued, HeldCash, OpenCash)
    BY <2>1, <2>3 DEF FundedEvents
  <2>5. <<bar>> \in Seq(Events) /\ 1..Len(<<bar>>) = {1} /\ <<bar>>[1] = bar
    BY <2>3
  <2>6. \A m \in 1..Len(<<bar>>) : <<bar>>[m] \in FundedEvents(issued, HeldCash, OpenCash)
    BY <2>4, <2>5
  <2>7. QED
    BY <2>1, <2>2, <2>5, <2>6, StillFunded
<1>7. CASE MovesOn \/ UNCHANGED vars
  <2>1. UNCHANGED <<cash, holds, openOrders, issued, working, marks, lastMarks, queue>>
    BY <1>7 DEF MovesOn, vars, flowVars, pipelineVars, portfolioVars, executionVars
  <2>2. HeldCash' = HeldCash /\ OpenCash' = OpenCash
    BY <2>1 DEF HeldCash, OpenCash
  <2>3. BuyingPower' = BuyingPower
    BY <2>1 DEF BuyingPower, ReservedTotal
  <2>4. PricesOffered'
    BY <2>1 DEF Funded, PricesOffered
  <2>5. (\A o \in DOMAIN working : FundedOrder(working[o], issued, HeldCash, OpenCash))'
    BY <2>1, <2>2 DEF Funded, FundedOrder, LimitReached
  <2>6. (\A k \in 1..Len(queue) : queue[k] \in FundedEvents(issued, HeldCash, OpenCash))'
    BY <2>1, <2>2 DEF Funded, FundedEvents
  <2>7. BuyingPower' >= 0
    BY <2>3 DEF Funded
  <2>8. QED
    BY <2>4, <2>5, <2>6, <2>7 DEF Funded
<1>8. CASE Next
  <2>1. ASSUME NEW i, NEW fills, NEW ideas, NEW out,
               TakesBar(i, fills, ideas, out), BarNews(queue[i], fills, ideas, out)
        PROVE  Funded'
    BY <2>1, BarFunded
  <2>2. QED
    BY <1>3, <1>4, <1>5, <1>6, <1>7, <1>8, <2>1, Steps
<1>9. QED
  BY <1>7, <1>8

LEMMA FundedInit ==
  ASSUME Init
  PROVE  Funded
<1>1. DOMAIN <<>> = {} /\ 1..Len(<<>>) = {}
  OBVIOUS
<1>2. /\ holds = <<>> /\ openOrders = <<>> /\ working = <<>> /\ queue = <<>> /\ marks = <<>>
      /\ lastMarks = <<>> /\ cash = StartingCash /\ StartingCash \in Nat
  BY PortfolioAssumption DEF Init, PortfolioInit, ExecutionInit
<1>3. HeldCash = <<>> /\ OpenCash = <<>>
  BY <1>1, <1>2 DEF HeldCash, OpenCash
<1>4. SumFunction(<<>>) = 0
  BY <1>1, SumEmpty DEF SumFunction
<1>5. BuyingPower = cash - (SumFunction(HeldCash) + SumFunction(OpenCash))
  BY BuyingPowerIs
<1>6. BuyingPower >= 0
  BY <1>2, <1>3, <1>4, <1>5
<1>7. QED
  BY <1>1, <1>2, <1>6 DEF Funded, PricesOffered

(* Approvals promise no cash twice: while reservations allow for what the  *)
(* market can do and sales pay their fees, buying power is never negative, *)
(* whatever signals, orders and fills are under way.                       *)
THEOREM CashSuffices == Spec => []CashCoversReservations
<1> DEFINE Inv == Sufficient => Funded
<1>1. Init => Inv
  BY FundedInit
<1>2. FlowTypeOK /\ Books /\ Inv /\ [Next]_vars => Inv'
  <2> SUFFICES ASSUME FlowTypeOK, Books, Inv, [Next]_vars, Sufficient'
               PROVE  Funded'
    OBVIOUS
  <2>1. bus' = bus
    BY DEF Next, Dispatch, Replay, Control, vars, flowVars
  <2>2. Sufficient
    BY <2>1 DEF Sufficient, ReservationsSuffice, FeesOn, ScaledBy
  <2>3. QED
    BY <2>2, FundedStep
<1>3. Inv => CashCoversReservations
  BY DEF Sufficient, Funded, CashCoversReservations
<1> HIDE DEF Inv
<1>4. QED
  BY <1>1, <1>2, <1>3, BooksHold, PTL DEF Spec

-----------------------------------------------------------------------------
(* The shares in flight.                                                   *)

FillsOf(q, o) == {k \in 1..Len(q) : IsFill(q[k], o)}
FlightOf(q, o) == [k \in FillsOf(q, o) |-> Shares(q[k])]

LEMMA FlightTyped ==
  ASSUME NEW q \in Seq(Events), NEW o
  PROVE  /\ IsFiniteSet(FillsOf(q, o)) /\ FlightOf(q, o) \in [FillsOf(q, o) -> Nat]
         /\ SumFunction(FlightOf(q, o)) \in Nat
         /\ (\A k \in 1..Len(q) : ~IsFill(q[k], o)) => SumFunction(FlightOf(q, o)) = 0
<1>1. Len(q) \in Nat /\ IsFiniteSet(1..Len(q))
  BY FS_Interval
<1>2. IsFiniteSet(FillsOf(q, o))
  BY <1>1, FS_Subset DEF FillsOf
<1>3. \A k \in FillsOf(q, o) : Shares(q[k]) \in Nat
  <2> SUFFICES ASSUME NEW k \in FillsOf(q, o) PROVE Shares(q[k]) \in Nat
    OBVIOUS
  <2>1. q[k] \in Fills
    BY EventKinds DEF FillsOf, IsFill
  <2>2. QED
    BY <2>1, SharesOfFill
<1>4. FlightOf(q, o) \in [FillsOf(q, o) -> Nat]
  BY <1>3 DEF FlightOf
<1>5. ASSUME \A k \in 1..Len(q) : ~IsFill(q[k], o)
      PROVE  SumFunction(FlightOf(q, o)) = 0
  <2>1. FillsOf(q, o) = {}
    BY <1>5 DEF FillsOf
  <2>2. QED
    BY <1>2, <1>4, <2>1, SumOfMap, SumEmpty
<1>6. QED
  BY <1>2, <1>4, <1>5, SumOfMap

LEMMA InFlightIs ==
  ASSUME NEW o
  PROVE  /\ SharesInFlight(o) = SumFunction(FlightOf(queue, o))
         /\ SharesInFlight(o)' = SumFunction(FlightOf(queue', o))
  BY DEF SharesInFlight, FlightOf, FillsOf

(* The fills of an order that a step leaves queued, numbered by the places *)
(* they come from, and their shares.                                       *)
Whence(i, out, o) ==
    {j \in 1..(Len(queue) + Len(out)) :
        /\ j # i
        /\ IsFill(IF j <= Len(queue) THEN queue[j] ELSE out[j - Len(queue)], o)}

SharesFrom(i, out, o) ==
    [j \in Whence(i, out, o) |->
        Shares(IF j <= Len(queue) THEN queue[j] ELSE out[j - Len(queue)])]

LEMMA FlightMoves ==
  ASSUME queue \in Seq(Events), NEW out \in Seq(Events), NEW i \in 0..Len(queue),
         Queued(i, out), bus = "InProcess", NEW o
  PROVE  /\ IsFiniteSet(Whence(i, out, o))
         /\ SharesFrom(i, out, o) \in [Whence(i, out, o) -> Nat]
         /\ SharesInFlight(o)' = SumFunction(SharesFrom(i, out, o))
<1> DEFINE L == Len(queue)
           item(j) == IF j <= L THEN queue[j] ELSE out[j - L]
           R == Whence(i, out, o)
           g == SharesFrom(i, out, o)
<1>1. PICK src : Sourced(queue, i, out, queue', src) /\ Complete(queue, i, out, queue', src)
  BY DEF Queued
<1>2. L \in Nat /\ Len(out) \in Nat /\ queue' \in Seq(Events) /\ L + Len(out) \in Nat
      /\ Len(queue') \in Nat
  BY DEF Queued
<1>3. IsFiniteSet(R)
  <2>1. IsFiniteSet(1..(L + Len(out)))
    BY <1>2, FS_Interval
  <2>2. R \subseteq 1..(L + Len(out))
    BY DEF Whence
  <2>3. QED
    BY <2>1, <2>2, FS_Subset
<1>4. \A j \in 1..(L + Len(out)) : item(j) \in Events
  <2> SUFFICES ASSUME NEW j \in 1..(L + Len(out)) PROVE item(j) \in Events
    OBVIOUS
  <2>1. CASE j <= L
    BY <1>2, <2>1
  <2>2. CASE ~(j <= L)
    <3>1. j - L \in 1..Len(out)
      BY <1>2, <2>2
    <3>2. QED
      BY <2>2, <3>1
  <2>3. QED
    BY <2>1, <2>2
<1>5. R = {j \in 1..(L + Len(out)) : j # i /\ IsFill(item(j), o)}
  BY DEF Whence
<1>6. g = [j \in R |-> Shares(item(j))]
  BY Zenon DEF SharesFrom
<1>7. \A k \in 1..Len(queue') : src[k] \in 1..(L + Len(out)) /\ src[k] # i /\ queue'[k] = item(src[k])
  BY <1>1 DEF Sourced
<1> HIDE DEF item, R, g
<1>8. g \in [R -> Nat]
  <2>1. \A j \in R : Shares(item(j)) \in Nat
    <3> SUFFICES ASSUME NEW j \in R PROVE Shares(item(j)) \in Nat
      OBVIOUS
    <3>1. item(j) \in Fills
      BY <1>4, <1>5, EventKinds DEF IsFill
    <3>2. QED
      BY <3>1, SharesOfFill
  <2>2. QED
    BY <1>6, <2>1
<1> DEFINE f == FlightOf(queue', o)
           S == FillsOf(queue', o)
<1>9. IsFiniteSet(S) /\ f \in [S -> Nat]
  BY <1>2, FlightTyped
<1>10. \A k \in S : k \in 1..Len(queue') /\ IsFill(queue'[k], o) /\ f[k] = Shares(queue'[k])
  BY DEF FillsOf, FlightOf
<1>11. \A k \in 1..Len(queue') : IsFill(queue'[k], o) => k \in S
  BY DEF FillsOf
<1>12. SharesInFlight(o)' = SumFunction(f)
  BY InFlightIs
<1> HIDE DEF f, S
<1>13. \A k \in S : src[k] \in R /\ g[src[k]] = f[k]
  BY <1>5, <1>6, <1>7, <1>10
<1>14. \A k, l \in S : src[k] = src[l] => k = l
  <2> SUFFICES ASSUME NEW k \in S, NEW l \in S, src[k] = src[l], k # l PROVE FALSE
    OBVIOUS
  <2>1. k \in 1..Len(queue') /\ l \in 1..Len(queue')
    BY <1>10
  <2>2. k < l \/ l < k
    BY <1>2, <2>1
  <2>3. src[k] < src[l] \/ src[l] < src[k]
    BY <1>1, <2>1, <2>2 DEF Sourced
  <2>4. src[k] \in Int /\ src[l] \in Int
    <3>1. src[k] \in 1..(L + Len(out)) /\ src[l] \in 1..(L + Len(out))
      BY <1>7, <2>1
    <3>2. QED
      BY <1>2, <3>1
  <2>5. QED
    BY <2>3, <2>4
<1>15. \A j \in R : \E k \in S : src[k] = j
  <2> SUFFICES ASSUME NEW j \in R PROVE \E k \in S : src[k] = j
    OBVIOUS
  <2>1. j \in 1..(L + Len(out)) /\ j # i /\ IsFill(item(j), o)
    BY <1>5
  <2>2. PICK k \in 1..Len(queue') : src[k] = j
    BY <1>1, <2>1 DEF Complete
  <2>3. QED
    BY <1>7, <1>11, <2>1, <2>2
<1>16. SumFunction(f) = SumFunction(g)
  <2>1. Renames(src, f, S, g, R)
    BY <1>13, <1>14, <1>15 DEF Renames
  <2>2. QED
    BY <1>3, <1>8, <1>9, <2>1, MapRenamed, Z3
<1>17. QED
  BY <1>3, <1>8, <1>12, <1>16 DEF R, g

LEMMA FlightChanges ==
  ASSUME queue \in Seq(Events), NEW out \in Seq(Events), NEW i \in 0..Len(queue),
         Queued(i, out), bus = "InProcess", NEW o, NEW x,
         FillsOf(queue, o) \ {x} = Whence(i, out, o) \ {x}
  PROVE  /\ SharesInFlight(o)' =
              SharesInFlight(o) - At(FlightOf(queue, o), FillsOf(queue, o), x)
                  + At(SharesFrom(i, out, o), Whence(i, out, o), x)
         /\ SharesInFlight(o) \in Nat
<1> DEFINE f == FlightOf(queue, o)
           S == FillsOf(queue, o)
           g == SharesFrom(i, out, o)
           R == Whence(i, out, o)
<1>1. IsFiniteSet(S) /\ f \in [S -> Nat] /\ SharesInFlight(o) = SumFunction(f)
  BY FlightTyped, InFlightIs
<1>2. IsFiniteSet(R) /\ g \in [R -> Nat] /\ SharesInFlight(o)' = SumFunction(g)
  BY FlightMoves
<1>3. \A y \in S \ {x} : f[y] = g[y]
  <2> SUFFICES ASSUME NEW y \in S, y # x PROVE f[y] = g[y]
    OBVIOUS
  <2>1. y <= Len(queue) /\ y \in R
    BY DEF FillsOf
  <2>2. f[y] = Shares(queue[y])
    BY DEF FlightOf
  <2>3. g[y] = Shares(queue[y])
    BY <2>1 DEF SharesFrom
  <2>4. QED
    BY <2>2, <2>3
<1>4. DifferAt(x, f, S, g, R)
  BY <1>3 DEF DifferAt
<1> HIDE DEF f, S, g, R
<1>5. /\ SumFunction(g) = SumFunction(f) - At(f, S, x) + At(g, R, x) /\ SumFunction(f) \in Nat
  BY <1>1, <1>2, <1>4, MapDiffers, Z3
<1>6. QED
  BY <1>1, <1>2, <1>5 DEF f, S, g, R

(* A step in which no fill of the order is taken or sent.                  *)
LEMMA FlightStays ==
  ASSUME queue \in Seq(Events), NEW out \in Seq(Events), NEW i \in 0..Len(queue),
         Queued(i, out), bus = "InProcess", NEW o,
         \A k \in 1..Len(queue) : k = i => ~IsFill(queue[k], o),
         \A m \in 1..Len(out) : ~IsFill(out[m], o)
  PROVE  SharesInFlight(o)' = SharesInFlight(o) /\ SharesInFlight(o) \in Nat
<1>1. Len(queue) \in Nat /\ Len(out) \in Nat
  OBVIOUS
<1>2. 0 \notin FillsOf(queue, o) /\ 0 \notin Whence(i, out, o)
  BY <1>1 DEF FillsOf, Whence
<1>3. FillsOf(queue, o) = Whence(i, out, o)
  <2>1. ASSUME NEW j \in FillsOf(queue, o) PROVE j \in Whence(i, out, o)
    BY <1>1 DEF FillsOf, Whence
  <2>2. ASSUME NEW j \in Whence(i, out, o) PROVE j \in FillsOf(queue, o)
    <3>1. CASE j <= Len(queue)
      BY <1>1, <3>1 DEF FillsOf, Whence
    <3>2. CASE ~(j <= Len(queue))
      <4>1. j - Len(queue) \in 1..Len(out) /\ IsFill(out[j - Len(queue)], o)
        BY <1>1, <3>2 DEF Whence
      <4>2. QED
        BY <4>1
    <3>3. QED
      BY <3>1, <3>2
  <2>3. QED
    BY <2>1, <2>2
<1>4. /\ SharesInFlight(o)' =
           SharesInFlight(o) - At(FlightOf(queue, o), FillsOf(queue, o), 0)
               + At(SharesFrom(i, out, o), Whence(i, out, o), 0)
      /\ SharesInFlight(o) \in Nat
  BY <1>3, FlightChanges
<1>5. QED
  BY <1>2, <1>4 DEF At

(* A step that sends one.                                                  *)
LEMMA FlightGrows ==
  ASSUME queue \in Seq(Events), NEW out \in Seq(Events), NEW i \in 0..Len(queue),
         Queued(i, out), bus = "InProcess", NEW o,
         \A k \in 1..Len(queue) : k = i => ~IsFill(queue[k], o),
         NEW m \in 1..Len(out), IsFill(out[m], o),
         \A n \in 1..Len(out) : IsFill(out[n], o) => n = m
  PROVE  /\ SharesInFlight(o)' = SharesInFlight(o) + Shares(out[m])
         /\ SharesInFlight(o) \in Nat /\ Shares(out[m]) \in Nat
<1> DEFINE x == Len(queue) + m
<1>1. Len(queue) \in Nat /\ Len(out) \in Nat
  OBVIOUS
<1>2. /\ x \in 1..(Len(queue) + Len(out)) /\ x # i /\ ~(x <= Len(queue)) /\ x - Len(queue) = m
  BY <1>1
<1>3. x \notin FillsOf(queue, o) /\ x \in Whence(i, out, o)
  BY <1>1, <1>2 DEF FillsOf, Whence
<1>4. SharesFrom(i, out, o)[x] = Shares(out[m])
  BY <1>2, <1>3 DEF SharesFrom
<1> HIDE DEF x
<1>5. FillsOf(queue, o) \ {x} = Whence(i, out, o) \ {x}
  <2>1. ASSUME NEW j \in FillsOf(queue, o) PROVE j \in Whence(i, out, o)
    BY <1>1 DEF FillsOf, Whence
  <2>2. ASSUME NEW j \in Whence(i, out, o), j # x PROVE j \in FillsOf(queue, o)
    <3>1. CASE j <= Len(queue)
      BY <1>1, <3>1 DEF FillsOf, Whence
    <3>2. CASE ~(j <= Len(queue))
      <4>1. j - Len(queue) \in 1..Len(out) /\ IsFill(out[j - Len(queue)], o) /\ j \in Int
        BY <1>1, <3>2 DEF Whence
      <4>2. j - Len(queue) = m
        BY <4>1
      <4>3. QED
        BY <1>1, <2>2, <4>1, <4>2 DEF x
    <3>3. QED
      BY <3>1, <3>2
  <2>3. QED
    BY <2>1, <2>2
<1>6. /\ SharesInFlight(o)' =
           SharesInFlight(o) - At(FlightOf(queue, o), FillsOf(queue, o), x)
               + At(SharesFrom(i, out, o), Whence(i, out, o), x)
      /\ SharesInFlight(o) \in Nat
  BY <1>5, FlightChanges
<1>7. Shares(out[m]) \in Nat
  <2>1. out[m] \in Fills
    BY EventKinds DEF IsFill
  <2>2. QED
    BY <2>1, SharesOfFill
<1>8. QED
  BY <1>3, <1>4, <1>6, <1>7 DEF At

(* A step that takes one.                                                  *)
LEMMA FlightShrinks ==
  ASSUME queue \in Seq(Events), NEW i \in 1..Len(queue), Queued(i, <<>>), bus = "InProcess",
         NEW o, IsFill(queue[i], o)
  PROVE  /\ SharesInFlight(o)' = SharesInFlight(o) - Shares(queue[i])
         /\ SharesInFlight(o) \in Nat /\ Shares(queue[i]) \in Nat
<1>1. /\ Len(queue) \in Nat /\ <<>> \in Seq(Events) /\ Len(<<>>) = 0 /\ i \in 0..Len(queue)
  OBVIOUS
<1>2. i \in FillsOf(queue, o) /\ i \notin Whence(i, <<>>, o)
  BY DEF FillsOf, Whence
<1>3. FlightOf(queue, o)[i] = Shares(queue[i])
  BY <1>2 DEF FlightOf
<1>4. FillsOf(queue, o) \ {i} = Whence(i, <<>>, o) \ {i}
  BY <1>1 DEF FillsOf, Whence
<1>5. /\ SharesInFlight(o)' =
           SharesInFlight(o) - At(FlightOf(queue, o), FillsOf(queue, o), i)
               + At(SharesFrom(i, <<>>, o), Whence(i, <<>>, o), i)
      /\ SharesInFlight(o) \in Nat
  BY <1>1, <1>4, FlightChanges
<1>6. Shares(queue[i]) \in Nat
  <2>1. queue[i] \in Fills
    BY EventKinds DEF IsFill
  <2>2. QED
    BY <2>1, SharesOfFill
<1>7. QED
  BY <1>2, <1>3, <1>5, <1>6 DEF At

-----------------------------------------------------------------------------
(* The books agree.                                                        *)

(* What the simulator still works of an order.                             *)
Left(o) == IF o \in DOMAIN working THEN Remaining(working[o]) ELSE 0

EndQueued(o) == \E k \in 1..Len(queue) : IsFill(queue[k], o) /\ queue[k].status = "Filled"

(* n shares of an order are still to come: they are worked or in flight,   *)
(* and the last of them is marked as such.                                 *)
Owing(o, n) ==
    /\ n = Left(o) + SharesInFlight(o)
    /\ o \notin DOMAIN working => EndQueued(o)

HoldsOwed ==
    \A s \in DOMAIN holds :
        \E k \in 1..Len(queue) : IsSubmitted(queue[k]) /\ queue[k].signal = s

SharesAgree ==
    /\ \A o \in DOMAIN openOrders : Owing(o, openOrders[o].remaining)
    /\ \A k \in 1..Len(queue) :
          (IsSubmitted(queue[k]) /\ queue[k].status = "Working") =>
             Owing(queue[k].id, queue[k].quantity)

(* A fill has an id of its own and has not been applied.                   *)
FillIds ==
    /\ appliedFills \subseteq 1..fillsIssued
    /\ \A k \in 1..Len(queue) : queue[k].type = "Fill" =>
          queue[k].id \in 1..fillsIssued /\ queue[k].id \notin appliedFills
    /\ \A k, l \in 1..Len(queue) :
          (k < l /\ queue[k].type = "Fill" /\ queue[l].type = "Fill") => queue[k].id # queue[l].id

(* The fills of an order from sequence a to b are queued.                  *)
SentFrom(o, a, b) ==
    \A n \in a..b : \E k \in 1..Len(queue) : IsFill(queue[k], o) /\ queue[k].sequence = n

FillInSequence(e) ==
    /\ ExpectedSequence(e.order) <= e.sequence
    /\ SentFrom(e.order, ExpectedSequence(e.order), e.sequence)

(* The fills the simulator has made of an order and the portfolio has not  *)
(* applied are queued in their sequence, without a gap.                    *)
CountAgrees(o) ==
    /\ ExpectedSequence(o) <= FillCount(o) + 1
    /\ SentFrom(o, ExpectedSequence(o), FillCount(o))
    /\ \A k \in 1..Len(queue) : IsFill(queue[k], o) => queue[k].sequence <= FillCount(o)

InSequence(d, e) ==
    (d.type = "Fill" /\ e.type = "Fill" /\ d.order = e.order) => d.sequence < e.sequence

SequencesAgree ==
    /\ DOMAIN lastSequence \subseteq 1..Len(issued)
    /\ \A k \in 1..Len(queue) : queue[k].type = "Fill" => FillInSequence(queue[k])
    /\ \A k, l \in 1..Len(queue) : k < l => InSequence(queue[k], queue[l])
    /\ \A o \in DOMAIN working : CountAgrees(o)

Agreed == bus = "InProcess" => HoldsOwed /\ SharesAgree /\ FillIds /\ SequencesAgree

Submits(e, s) == IsSubmitted(e) /\ e.signal = s

LEMMA HoldsStayOwed ==
  ASSUME queue \in Seq(Events), NEW out \in Seq(Events), NEW i \in 0..Len(queue),
         Queued(i, out), bus = "InProcess", HoldsOwed,
         \A s \in DOMAIN holds' :
            \/ /\ s \in DOMAIN holds
               /\ \A k \in 1..Len(queue) : k = i => ~Submits(queue[k], s)
            \/ \E m \in 1..Len(out) : Submits(out[m], s)
  PROVE  HoldsOwed'
<1> SUFFICES ASSUME NEW s \in DOMAIN holds'
             PROVE  \E k \in 1..Len(queue') : IsSubmitted(queue'[k]) /\ queue'[k].signal = s
  BY DEF HoldsOwed, IsSubmitted
<1>1. CASE \E m \in 1..Len(out) : Submits(out[m], s)
  BY <1>1, Stays DEF Submits
<1>2. CASE /\ s \in DOMAIN holds
           /\ \A k \in 1..Len(queue) : k = i => ~Submits(queue[k], s)
  <2>1. PICK k \in 1..Len(queue) : Submits(queue[k], s)
    BY <1>2 DEF HoldsOwed, Submits
  <2>2. k # i
    BY <1>2, <2>1
  <2>3. QED
    BY <2>1, <2>2, Stays DEF Submits
<1>3. QED
  BY <1>1, <1>2

LEMMA OwingStays ==
  ASSUME queue \in Seq(Events), NEW out \in Seq(Events), NEW i \in 0..Len(queue),
         Queued(i, out), bus = "InProcess", NEW o, NEW n, Owing(o, n),
         \A k \in 1..Len(queue) : k = i => ~IsFill(queue[k], o),
         \A m \in 1..Len(out) : ~IsFill(out[m], o),
         o \in DOMAIN working <=> o \in DOMAIN working',
         o \in DOMAIN working => Remaining(working'[o]) = Remaining(working[o])
  PROVE  Owing(o, n)'
<1>1. SharesInFlight(o)' = SharesInFlight(o)
  BY FlightStays
<1>2. Left(o)' = Left(o)
  BY DEF Left, Remaining
<1>3. ASSUME o \notin DOMAIN working' PROVE EndQueued(o)'
  <2>1. PICK k \in 1..Len(queue) : IsFill(queue[k], o) /\ queue[k].status = "Filled"
    BY <1>3 DEF Owing, EndQueued
  <2>2. k # i
    BY <2>1
  <2>3. PICK l \in 1..Len(queue') : queue'[l] = queue[k]
    BY <2>2, Stays
  <2>4. QED
    BY <2>1, <2>3 DEF EndQueued, IsFill
<1>4. QED
  BY <1>1, <1>2, <1>3 DEF Owing

(* What is sent stays so until it is taken, and what is sent again too.    *)
LEMMA SentStays ==
  ASSUME queue \in Seq(Events), NEW out \in Seq(Events), NEW i \in 0..Len(queue),
         Queued(i, out), bus = "InProcess", NEW o, NEW a, NEW b, NEW c, NEW d,
         SentFrom(o, a, b),
         \A n \in c..d : \/ n \in a..b /\ \A k \in 1..Len(queue) :
                                k = i => ~(IsFill(queue[k], o) /\ queue[k].sequence = n)
                         \/ \E m \in 1..Len(out) : IsFill(out[m], o) /\ out[m].sequence = n
  PROVE  SentFrom(o, c, d)'
<1> SUFFICES ASSUME NEW n \in c..d
             PROVE  \E k \in 1..Len(queue') : IsFill(queue'[k], o) /\ queue'[k].sequence = n
  BY DEF SentFrom, IsFill
<1>1. CASE \E m \in 1..Len(out) : IsFill(out[m], o) /\ out[m].sequence = n
  BY <1>1, Stays
<1>2. CASE /\ n \in a..b
           /\ \A k \in 1..Len(queue) : k = i => ~(IsFill(queue[k], o) /\ queue[k].sequence = n)
  <2>1. PICK k \in 1..Len(queue) : IsFill(queue[k], o) /\ queue[k].sequence = n
    BY <1>2 DEF SentFrom
  <2>2. k # i
    BY <1>2, <2>1
  <2>3. QED
    BY <2>1, <2>2, Stays
<1>3. QED
  BY <1>1, <1>2

NoFillMoves(i, out) ==
    /\ \A k \in 1..Len(queue) : k = i => queue[k].type # "Fill"
    /\ \A m \in 1..Len(out) : out[m].type # "Fill"

(* A step that takes no fill and sends none.                               *)
LEMMA QuietIds ==
  ASSUME queue \in Seq(Events), NEW out \in Seq(Events), NEW i \in 0..Len(queue),
         Queued(i, out), FillIds, NoFillMoves(i, out), UNCHANGED <<appliedFills, fillsIssued>>
  PROVE  FillIds'
<1>1. ASSUME NEW k \in 1..Len(queue'), queue'[k].type = "Fill"
      PROVE  \E j \in 1..Len(queue) : queue'[k] = queue[j]
  BY <1>1, Comes DEF NoFillMoves
<1>2. ASSUME NEW k \in 1..Len(queue'), queue'[k].type = "Fill"
      PROVE  queue'[k].id \in 1..fillsIssued /\ queue'[k].id \notin appliedFills
  BY <1>1, <1>2 DEF FillIds
<1>3. ASSUME NEW k \in 1..Len(queue'), NEW l \in 1..Len(queue'), k < l,
             queue'[k].type = "Fill", queue'[l].type = "Fill"
      PROVE  queue'[k].id # queue'[l].id
  <2>1. CameInOrder(queue'[k], queue'[l], i, out)
    BY <1>3, ComeInOrder
  <2>2. PICK j, h \in 1..Len(queue) : j < h /\ queue'[k] = queue[j] /\ queue'[l] = queue[h]
    BY <1>3, <2>1 DEF CameInOrder, NoFillMoves
  <2>3. QED
    BY <1>3, <2>2 DEF FillIds
<1>4. QED
  BY <1>2, <1>3 DEF FillIds

LEMMA SequencesTyped ==
  ASSUME FlowTypeOK
  PROVE  \A o : ExpectedSequence(o) \in Nat /\ FillCount(o) \in Nat
  BY DEF ExpectedSequence, FillCount, FlowTypeOK, TypeOK, PortfolioTypeOK, ExecutionTypeOK

LEMMA QuietSequences ==
  ASSUME FlowTypeOK, NEW out \in Seq(Events), NEW i \in 0..Len(queue), Queued(i, out),
         bus = "InProcess", SequencesAgree, NoFillMoves(i, out),
         UNCHANGED <<lastSequence, fillCounts>>, Len(issued) <= Len(issued'), Len(issued') \in Nat,
         \A o \in DOMAIN working' :
            \/ o \in DOMAIN working
            \/ o \notin 1..Len(issued) /\ \A k \in 1..Len(queue) : ~IsFill(queue[k], o)
  PROVE  SequencesAgree'
<1>1. /\ queue \in Seq(Events) /\ Len(issued) \in Nat /\ DOMAIN working \subseteq 1..Len(issued)
      /\ DOMAIN fillCounts \subseteq DOMAIN working
  BY DEF FlowTypeOK, TypeOK, ExecutionTypeOK
<1>2. \A o : ExpectedSequence(o)' = ExpectedSequence(o) /\ FillCount(o)' = FillCount(o)
  BY DEF ExpectedSequence, FillCount
<1>3. ASSUME NEW k \in 1..Len(queue'), queue'[k].type = "Fill"
      PROVE  \E j \in 1..Len(queue) : queue'[k] = queue[j]
  BY <1>1, <1>3, Comes DEF NoFillMoves
<1>4. ASSUME NEW o, NEW a, NEW b, SentFrom(o, a, b)
      PROVE  SentFrom(o, a, b)'
  <2>1. \A k \in 1..Len(queue) : k = i => ~IsFill(queue[k], o)
    BY DEF NoFillMoves, IsFill
  <2>2. QED
    BY <1>1, <1>4, <2>1, SentStays
<1>5. ASSUME NEW e, FillInSequence(e), UNCHANGED e
      PROVE  FillInSequence(e)'
  BY <1>2, <1>4, <1>5 DEF FillInSequence
<1>6. ASSUME NEW o \in DOMAIN working'
      PROVE  CountAgrees(o)'
  <2>1. \A k \in 1..Len(queue') : IsFill(queue'[k], o) =>
           \E j \in 1..Len(queue) : queue'[k] = queue[j] /\ IsFill(queue[j], o)
    BY <1>3 DEF IsFill
  <2>2. CASE o \in DOMAIN working
    <3>1. CountAgrees(o)
      BY <2>2 DEF SequencesAgree
    <3>2. /\ ExpectedSequence(o)' <= FillCount(o)' + 1
          /\ SentFrom(o, ExpectedSequence(o), FillCount(o))'
          /\ \A k \in 1..Len(queue') : IsFill(queue'[k], o) => queue'[k].sequence <= FillCount(o)'
      BY <1>2, <1>4, <2>1, <3>1 DEF CountAgrees
    <3>3. QED
      BY <1>2, <3>2 DEF CountAgrees, SentFrom, IsFill
  <2>3. CASE o \notin 1..Len(issued) /\ \A k \in 1..Len(queue) : ~IsFill(queue[k], o)
    <3>1. ExpectedSequence(o) = 1 /\ FillCount(o) = 0
      BY <1>1, <2>3 DEF ExpectedSequence, FillCount, SequencesAgree
    <3>2. 1..0 = {}
      OBVIOUS
    <3>3. QED
      BY <1>2, <2>1, <2>3, <3>1, <3>2 DEF CountAgrees, SentFrom, IsFill
  <2>4. QED
    BY <2>2, <2>3
<1>7. ASSUME NEW k \in 1..Len(queue'), queue'[k].type = "Fill"
      PROVE  FillInSequence(queue[k])'
  <2>01. PICK e : e = queue'[k]
    OBVIOUS
  <2>1. FillInSequence(e)
    BY <1>3, <1>7, <2>01 DEF SequencesAgree
  <2>2. FillInSequence(e)'
    BY <1>5, <2>1
  <2>3. QED
    BY <2>01, <2>2 DEF FillInSequence
<1>8. ASSUME NEW k \in 1..Len(queue'), NEW l \in 1..Len(queue'), k < l
      PROVE  InSequence(queue'[k], queue'[l])
  <2> SUFFICES ASSUME queue'[k].type = "Fill", queue'[l].type = "Fill"
               PROVE  InSequence(queue'[k], queue'[l])
    BY DEF InSequence
  <2>1. CameInOrder(queue'[k], queue'[l], i, out)
    BY <1>1, <1>8, ComeInOrder
  <2>2. PICK j, h \in 1..Len(queue) : j < h /\ queue'[k] = queue[j] /\ queue'[l] = queue[h]
    BY <2>1 DEF CameInOrder, NoFillMoves
  <2>3. QED
    BY <2>2 DEF SequencesAgree
<1>9. DOMAIN lastSequence' \subseteq 1..Len(issued')
  BY <1>1 DEF SequencesAgree
<1>10. QED
  BY <1>6, <1>7, <1>8, <1>9 DEF SequencesAgree, InSequence

(* What of SharesAgree a step keeps that moves no fill.                    *)
LEMMA QuietShares ==
  ASSUME queue \in Seq(Events), NEW out \in Seq(Events), NEW i \in 0..Len(queue),
         Queued(i, out), bus = "InProcess", SharesAgree, NoFillMoves(i, out),
         \A o \in DOMAIN openOrders' :
            o \in 1..Len(issued) /\ Owing(o, openOrders'[o].remaining),
         \A k \in 1..Len(queue) : IsSubmitted(queue[k]) => queue[k].id \in 1..Len(issued),
         \A m \in 1..Len(out) : (IsSubmitted(out[m]) /\ out[m].status = "Working") =>
            Owing(out[m].id, out[m].quantity)',
         \A o \in 1..Len(issued) :
            /\ o \in DOMAIN working <=> o \in DOMAIN working'
            /\ o \in DOMAIN working => Remaining(working'[o]) = Remaining(working[o])
  PROVE  SharesAgree'
<1>1. ASSUME NEW o \in 1..Len(issued), NEW n, Owing(o, n)
      PROVE  Owing(o, n)'
  <2>1. /\ \A k \in 1..Len(queue) : k = i => ~IsFill(queue[k], o)
        /\ \A m \in 1..Len(out) : ~IsFill(out[m], o)
    BY DEF NoFillMoves, IsFill
  <2>2. /\ o \in DOMAIN working <=> o \in DOMAIN working'
        /\ o \in DOMAIN working => Remaining(working'[o]) = Remaining(working[o])
    OBVIOUS
  <2>3. QED
    BY <1>1, <2>1, <2>2, OwingStays
<1>2. ASSUME NEW o \in DOMAIN openOrders'
      PROVE  Owing(o, openOrders[o].remaining)'
  <2>01. PICK n : n = openOrders'[o].remaining
    OBVIOUS
  <2>1. o \in 1..Len(issued) /\ Owing(o, n)
    BY <2>01
  <2>2. Owing(o, n)'
    BY <1>1, <2>1
  <2>3. QED
    BY <2>01, <2>2 DEF Owing
<1>3. ASSUME NEW k \in 1..Len(queue'), IsSubmitted(queue'[k]), queue'[k].status = "Working"
      PROVE  Owing(queue[k].id, queue[k].quantity)'
  <2>01. PICK o, n : o = queue'[k].id /\ n = queue'[k].quantity
    OBVIOUS
  <2>1. CASE \E j \in 1..Len(queue) : queue'[k] = queue[j]
    <3>1. o \in 1..Len(issued) /\ Owing(o, n)
      BY <1>3, <2>1, <2>01 DEF SharesAgree
    <3>2. Owing(o, n)'
      BY <1>1, <3>1
    <3>3. QED
      BY <2>01, <3>2 DEF Owing, Left, EndQueued, SharesInFlight, IsFill
  <2>2. CASE \E m \in 1..Len(out) : queue'[k] = out[m]
    <3>1. PICK m \in 1..Len(out) : queue'[k] = out[m]
      BY <2>2
    <3>2. Owing(out[m].id, out[m].quantity)'
      BY <1>3, <3>1
    <3>3. Owing(o, n)'
      BY <2>01, <3>1, <3>2
    <3>4. QED
      BY <2>01, <3>3 DEF Owing, Left, EndQueued, SharesInFlight, IsFill
  <2>3. QED
    BY <2>1, <2>2, Comes
<1>4. QED
  BY <1>2, <1>3 DEF SharesAgree, IsSubmitted

LEMMA OrdersIssued ==
  ASSUME FlowTypeOK, Books
  PROVE  /\ \A k \in 1..Len(queue) : IsSubmitted(queue[k]) => queue[k].id \in 1..Len(issued)
         /\ \A k \in 1..Len(queue) : queue[k].type = "Fill" => queue[k].order \in 1..Len(issued)
         /\ DOMAIN openOrders \subseteq 1..Len(issued) /\ DOMAIN working \subseteq 1..Len(issued)
         /\ queue \in Seq(Events) /\ Len(issued) \in Nat
  BY DEF Books, SoundIds, SoundEvents, SoundOrders, SoundFills, FlowTypeOK, TypeOK, ExecutionTypeOK

LEMMA ApprovalAgrees ==
  ASSUME FlowTypeOK, Books, Agreed, NEW i, NEW out, TakesSignal(i, out), NEW signal, NEW order,
         Approved(queue[i], signal, order, out)
  PROVE  Agreed'
<1>01. UNCHANGED <<riskVars, pipelineVars, fillsIssued, fillCounts>>
  BY SignalOutcome
<1>1. /\ queue \in Seq(Events) /\ i \in 0..Len(queue) /\ i \in 1..Len(queue)
      /\ Queued(i, out) /\ queue[i].type = "Signal" /\ bus' = bus
      /\ out \in Seq(Events) /\ out = <<order>> /\ order.type = "Order"
      /\ fillsIssued' = fillsIssued /\ fillCounts' = fillCounts
  BY <1>01 DEF TakesSignal, Approved, FlowTypeOK, TypeOK, Signals
<1>2. SUFFICES ASSUME bus = "InProcess" PROVE Agreed'
  BY <1>1 DEF Agreed
<1>3. HoldsOwed /\ SharesAgree /\ FillIds /\ SequencesAgree
  BY <1>2 DEF Agreed
<1>4. Len(out) = 1 /\ out[1] = order
  BY <1>1
<1>5. NoFillMoves(i, out)
  BY <1>1, <1>4 DEF NoFillMoves
<1>6. /\ DOMAIN holds' = DOMAIN holds \cup {queue[i].id}
      /\ UNCHANGED <<openOrders, lastSequence, appliedFills>>
      /\ Len(issued) \in Nat /\ Len(issued') = Len(issued) + 1
      /\ order.id \notin DOMAIN working /\ order.id \notin 1..Len(issued)
  BY ApprovedIsNew
<1>7. /\ order.signal = queue[i].id /\ IsSubmitted(order) /\ order.quantity \in Nat
      /\ order.filled = 0
      /\ DOMAIN working' = DOMAIN working \cup {x \in {order.id} : order.status = "Working"}
      /\ \A x \in DOMAIN working : x # order.id => working'[x] = working[x]
      /\ order.status = "Working" => working'[order.id] = order
  BY DEF Approved, IsSubmitted, Orders
<1>8. /\ \A k \in 1..Len(queue) : IsSubmitted(queue[k]) => queue[k].id \in 1..Len(issued)
      /\ \A k \in 1..Len(queue) : queue[k].type = "Fill" => queue[k].order \in 1..Len(issued)
      /\ DOMAIN openOrders \subseteq 1..Len(issued) /\ DOMAIN working \subseteq 1..Len(issued)
  BY OrdersIssued
<1>9. \A k \in 1..Len(queue) : ~IsFill(queue[k], order.id)
  BY <1>6, <1>8 DEF IsFill
<1>10. HoldsOwed'
  <2>1. ASSUME NEW s \in DOMAIN holds'
        PROVE  \/ /\ s \in DOMAIN holds
                  /\ \A k \in 1..Len(queue) : k = i => ~Submits(queue[k], s)
               \/ \E m \in 1..Len(out) : Submits(out[m], s)
    BY <1>1, <1>4, <1>6, <1>7 DEF Submits, IsSubmitted
  <2>2. QED
    BY <1>1, <1>2, <1>3, <2>1, HoldsStayOwed
<1>11. SharesAgree'
  <2>1. ASSUME NEW o \in DOMAIN openOrders'
        PROVE  o \in 1..Len(issued) /\ Owing(o, openOrders'[o].remaining)
    BY <1>3, <1>6, <1>8 DEF SharesAgree
  <2>2. ASSUME order.status = "Working"
        PROVE  Owing(order.id, order.quantity)'
    <3>01. PICK o, n : o = order.id /\ n = order.quantity
      OBVIOUS
    <3>1. /\ \A k \in 1..Len(queue) : ~IsFill(queue[k], o)
          /\ \A m \in 1..Len(out) : ~IsFill(out[m], o)
      BY <1>4, <1>1, <1>9, <3>01 DEF IsFill
    <3>2. SharesInFlight(o)' = 0
      <4>1. SharesInFlight(o)' = SharesInFlight(o)
        BY <1>1, <1>2, <3>1, FlightStays
      <4>2. SharesInFlight(o) = 0
        BY <1>1, <3>1, FlightTyped, InFlightIs
      <4>3. QED
        BY <4>1, <4>2
    <3>3. o \in DOMAIN working' /\ Remaining(working'[o]) = n
      BY <1>7, <2>2, <3>01 DEF Remaining
    <3>4. Left(o)' = n
      BY <3>3 DEF Left, Remaining
    <3>5. n \in Nat
      BY <1>7, <3>01
    <3>6. Owing(o, n)'
      BY <3>2, <3>3, <3>4, <3>5 DEF Owing
    <3>7. QED
      BY <3>01, <3>6
  <2>3. \A m \in 1..Len(out) : (IsSubmitted(out[m]) /\ out[m].status = "Working") =>
            Owing(out[m].id, out[m].quantity)'
    BY <1>4, <2>2
  <2>4. ASSUME NEW o \in 1..Len(issued)
        PROVE  /\ o \in DOMAIN working <=> o \in DOMAIN working'
               /\ o \in DOMAIN working => Remaining(working'[o]) = Remaining(working[o])
    BY <1>6, <1>7
  <2>5. QED
    BY <1>1, <1>2, <1>3, <1>5, <1>8, <2>1, <2>3, <2>4, QuietShares
<1>12. FillIds'
  BY <1>1, <1>3, <1>5, <1>6, QuietIds
<1>13. SequencesAgree'
  <2>1. ASSUME NEW o \in DOMAIN working'
        PROVE  \/ o \in DOMAIN working
               \/ o \notin 1..Len(issued) /\ \A k \in 1..Len(queue) : ~IsFill(queue[k], o)
    BY <1>6, <1>7, <1>9
  <2>2. Len(issued) <= Len(issued') /\ Len(issued') \in Nat
    BY <1>6
  <2>3. UNCHANGED <<lastSequence, fillCounts>>
    BY <1>1, <1>6
  <2>4. QED
    BY <1>1, <1>2, <1>3, <1>5, <2>1, <2>2, <2>3, QuietSequences
<1>14. QED
  BY <1>1, <1>10, <1>11, <1>12, <1>13 DEF Agreed

(* A step that touches no book and moves no order or fill.                 *)
LEMMA QuietAgrees ==
  ASSUME FlowTypeOK, Books, Agreed, NEW out \in Seq(Events), NEW i \in 0..Len(queue),
         Queued(i, out),
         UNCHANGED <<issued, holds, openOrders, bus, working, lastSequence, fillCounts,
                     appliedFills, fillsIssued>>,
         NoFillMoves(i, out),
         bus = "InProcess" => \A k \in 1..Len(queue) : k = i => ~IsSubmitted(queue[k]),
         \A m \in 1..Len(out) : ~IsSubmitted(out[m])
  PROVE  Agreed'
<1>1. SUFFICES ASSUME bus = "InProcess" PROVE Agreed'
  BY DEF Agreed
<1>2. HoldsOwed /\ SharesAgree /\ FillIds /\ SequencesAgree
  BY <1>1 DEF Agreed
<1>3. /\ \A k \in 1..Len(queue) : IsSubmitted(queue[k]) => queue[k].id \in 1..Len(issued)
      /\ DOMAIN openOrders \subseteq 1..Len(issued) /\ queue \in Seq(Events)
      /\ Len(issued) \in Nat
  BY OrdersIssued
<1>4. HoldsOwed'
  <2>1. ASSUME NEW s \in DOMAIN holds'
        PROVE  \/ /\ s \in DOMAIN holds
                  /\ \A k \in 1..Len(queue) : k = i => ~Submits(queue[k], s)
               \/ \E m \in 1..Len(out) : Submits(out[m], s)
    BY <1>1 DEF Submits
  <2>2. QED
    BY <1>1, <1>2, <1>3, <2>1, HoldsStayOwed
<1>5. SharesAgree'
  <2>1. ASSUME NEW o \in DOMAIN openOrders'
        PROVE  o \in 1..Len(issued) /\ Owing(o, openOrders'[o].remaining)
    BY <1>2, <1>3 DEF SharesAgree
  <2>2. \A m \in 1..Len(out) : (IsSubmitted(out[m]) /\ out[m].status = "Working") =>
            Owing(out[m].id, out[m].quantity)'
    OBVIOUS
  <2>3. ASSUME NEW o \in 1..Len(issued)
        PROVE  /\ o \in DOMAIN working <=> o \in DOMAIN working'
               /\ o \in DOMAIN working => Remaining(working'[o]) = Remaining(working[o])
    OBVIOUS
  <2>4. QED
    BY <1>1, <1>2, <1>3, <2>1, <2>2, <2>3, QuietShares
<1>6. FillIds'
  BY <1>2, <1>3, QuietIds
<1>7. SequencesAgree'
  <2>1. ASSUME NEW o \in DOMAIN working'
        PROVE  \/ o \in DOMAIN working
               \/ o \notin 1..Len(issued) /\ \A k \in 1..Len(queue) : ~IsFill(queue[k], o)
    OBVIOUS
  <2>2. Len(issued) <= Len(issued') /\ Len(issued') \in Nat
    BY <1>3
  <2>3. UNCHANGED <<lastSequence, fillCounts>>
    OBVIOUS
  <2>4. QED
    BY <1>1, <1>2, <2>1, <2>2, <2>3, QuietSequences
<1>8. QED
  BY <1>4, <1>5, <1>6, <1>7 DEF Agreed

LEMMA OrderAgrees ==
  ASSUME FlowTypeOK, Books, Agreed, NEW i, TakesOrder(i)
  PROVE  Agreed'
<1> DEFINE e == queue[i]
<1>1. /\ i \in 0..Len(queue) /\ i \in 1..Len(queue) /\ Queued(i, <<>>) /\ e \in Orders
      /\ e.type = "Order" /\ ApplyOrderUpdate(e)
      /\ UNCHANGED <<issued, bus, working, fillCounts, fillsIssued, lastSequence, appliedFills>>
  BY DEF TakesOrder, HandleOrder, ApplyOrderUpdate, Orders, executionVars
<1>2. SUFFICES ASSUME bus = "InProcess" PROVE Agreed'
  BY <1>1 DEF Agreed
<1>3. HoldsOwed /\ SharesAgree /\ FillIds /\ SequencesAgree
  BY <1>2 DEF Agreed
<1>4. /\ \A k \in 1..Len(queue) : IsSubmitted(queue[k]) => queue[k].id \in 1..Len(issued)
      /\ DOMAIN openOrders \subseteq 1..Len(issued) /\ queue \in Seq(Events)
      /\ Len(issued) \in Nat
  BY OrdersIssued
<1>5. <<>> \in Seq(Events) /\ 1..Len(<<>>) = {}
  OBVIOUS
<1>6. NoFillMoves(i, <<>>)
  BY <1>1, <1>5 DEF NoFillMoves
<1> HIDE DEF e
<1>7. ASSUME IsSubmitted(e), holds' = Drop(holds, e.signal),
             \A o \in DOMAIN openOrders' :
                o \in 1..Len(issued) /\ Owing(o, openOrders'[o].remaining)
      PROVE  Agreed'
  <2>1. HoldsOwed'
    <3>1. DOMAIN holds' = DOMAIN holds \ {e.signal}
      BY <1>7 DEF Drop
    <3>2. ASSUME NEW s \in DOMAIN holds'
          PROVE  \/ /\ s \in DOMAIN holds
                    /\ \A k \in 1..Len(queue) : k = i => ~Submits(queue[k], s)
                 \/ \E m \in 1..Len(<<>>) : Submits(<<>>[m], s)
      BY <3>1 DEF Submits, e
    <3>3. QED
      BY <1>1, <1>2, <1>3, <1>4, <1>5, <3>2, HoldsStayOwed
  <2>2. SharesAgree'
    <3>1. \A m \in 1..Len(<<>>) : (IsSubmitted(<<>>[m]) /\ <<>>[m].status = "Working") =>
              Owing(<<>>[m].id, <<>>[m].quantity)'
      BY <1>5
    <3>2. ASSUME NEW o \in 1..Len(issued)
          PROVE  /\ o \in DOMAIN working <=> o \in DOMAIN working'
                 /\ o \in DOMAIN working => Remaining(working'[o]) = Remaining(working[o])
      BY <1>1
    <3>3. QED
      BY <1>1, <1>2, <1>3, <1>4, <1>5, <1>6, <1>7, <3>1, <3>2, QuietShares
  <2>3. FillIds'
    BY <1>1, <1>3, <1>4, <1>5, <1>6, QuietIds
  <2>4. SequencesAgree'
    <3>1. ASSUME NEW o \in DOMAIN working'
          PROVE  \/ o \in DOMAIN working
                 \/ o \notin 1..Len(issued) /\ \A k \in 1..Len(queue) : ~IsFill(queue[k], o)
      BY <1>1
    <3>2. Len(issued) <= Len(issued') /\ Len(issued') \in Nat
      BY <1>1, <1>4
    <3>3. UNCHANGED <<lastSequence, fillCounts>>
      BY <1>1
    <3>4. QED
      BY <1>1, <1>2, <1>3, <1>5, <1>6, <3>1, <3>2, <3>3, QuietSequences
  <2>5. QED
    BY <2>1, <2>2, <2>3, <2>4 DEF Agreed
<1>8. CASE OpenOrder(e)
  <2>1. /\ e.status = "Working" /\ IsSubmitted(e) /\ holds' = Drop(holds, e.signal)
        /\ openOrders' = Put(openOrders, e.id, Pending(e))
    BY <1>1, <1>8 DEF OpenOrder, Opens, IsSubmitted
  <2>2. e.id \in 1..Len(issued) /\ e.filled = 0 /\ e.quantity \in Nat
    BY <1>1, <2>1, SubmittedIs DEF e, Orders
  <2>3. Owing(e.id, e.quantity)
    BY <1>1, <1>3, <2>1 DEF SharesAgree, e
  <2>4. Pending(e).remaining = e.quantity
    BY <2>2 DEF Pending
  <2>5. ASSUME NEW o \in DOMAIN openOrders'
        PROVE  o \in 1..Len(issued) /\ Owing(o, openOrders'[o].remaining)
    <3>1. CASE o = e.id
      <4>1. openOrders'[o] = Pending(e)
        BY <2>1, <3>1 DEF Put
      <4>2. openOrders'[o].remaining = e.quantity
        BY <2>4, <4>1
      <4>3. QED
        BY <2>2, <2>3, <3>1, <4>2
    <3>2. CASE o # e.id
      <4>1. o \in DOMAIN openOrders /\ openOrders'[o] = openOrders[o]
        BY <2>1, <3>2 DEF Put
      <4>2. QED
        BY <1>3, <1>4, <4>1 DEF SharesAgree
    <3>3. QED
      BY <3>1, <3>2
  <2>6. QED
    BY <1>7, <2>1, <2>5
<1>9. CASE ReleaseOrder(e)
  <2>1. /\ IsSubmitted(e) /\ holds' = Drop(holds, e.signal)
        /\ openOrders' = Drop(openOrders, e.id)
    BY <1>1, <1>9 DEF ReleaseOrder, IsSubmitted
  <2>2. ASSUME NEW o \in DOMAIN openOrders'
        PROVE  o \in 1..Len(issued) /\ Owing(o, openOrders'[o].remaining)
    <3>1. o \in DOMAIN openOrders /\ openOrders'[o] = openOrders[o]
      BY <2>1 DEF Drop
    <3>2. QED
      BY <1>3, <1>4, <3>1 DEF SharesAgree
  <2>3. QED
    BY <1>7, <2>1, <2>2
<1>10. CASE IgnoreOrder(e)
  <2>1. UNCHANGED <<openOrders, holds>> /\ e.status # "Rejected" /\ ~Opens(e)
    BY <1>10 DEF IgnoreOrder
  <2>2. ~IsSubmitted(e)
    <3>1. SUFFICES ASSUME IsSubmitted(e) PROVE FALSE
      OBVIOUS
    <3>2. e.status = "Working"
      BY <2>1, <3>1 DEF IsSubmitted
    <3>3. Opens(e)
      BY <1>1, <1>2, <3>1, <3>2, SubmittedIs DEF e
    <3>4. QED
      BY <2>1, <3>3
  <2>3. /\ \A k \in 1..Len(queue) : k = i => ~IsSubmitted(queue[k])
        /\ \A m \in 1..Len(<<>>) : ~IsSubmitted(<<>>[m])
    BY <1>5, <2>2 DEF e
  <2>4. UNCHANGED <<issued, holds, openOrders, bus, working, lastSequence, fillCounts,
                     appliedFills, fillsIssued>>
    BY <1>1, <2>1
  <2>5. QED
    BY <1>1, <1>5, <1>6, <2>3, <2>4, QuietAgrees
<1>11. QED
  BY <1>1, <1>8, <1>9, <1>10 DEF ApplyOrderUpdate

LEMMA FirstOnly ==
  ASSUME queue \in Seq(Events), NEW i \in 1..Len(queue), i \in Deliverable, bus = "InProcess"
  PROVE  \A j \in 1..Len(queue) : j # i => i < j
<1> SUFFICES ASSUME NEW j \in 1..Len(queue), j < i PROVE FALSE
  OBVIOUS
<1>1. j \in 1..(i - 1)
  OBVIOUS
<1>2. QED
  BY <1>1 DEF Deliverable

(* The fill that comes next is the one the portfolio expects.              *)
LEMMA NextFillApplies ==
  ASSUME FlowTypeOK, Books, Agreed, bus = "InProcess", NEW i \in 1..Len(queue),
         i \in Deliverable, queue[i].type = "Fill"
  PROVE  Applies(queue[i])
<1>1. /\ queue \in Seq(Events) /\ queue[i] \in SoundFills /\ FillIds /\ SequencesAgree
      /\ queue[i] \in Fills
  BY EventKinds DEF FlowTypeOK, TypeOK, Books, SoundEvents, Agreed
<1>2. queue[i].id \notin appliedFills /\ queue[i].order \notin closed
  BY <1>1 DEF FillIds, SoundFills
<1>01. PICK o, q, x : o = queue[i].order /\ q = queue[i].sequence /\ x = ExpectedSequence(o)
  OBVIOUS
<1>3. x <= q /\ SentFrom(o, x, q) /\ x \in Nat /\ q \in Nat
  BY <1>1, <1>01, SequencesTyped DEF SequencesAgree, FillInSequence, Fills
<1>4. PICK k \in 1..Len(queue) : IsFill(queue[k], o) /\ queue[k].sequence = x
  <2>1. x \in x..q
    BY <1>3
  <2>2. QED
    BY <1>3, <2>1 DEF SentFrom
<1>5. q = x
  <2>1. SUFFICES ASSUME k # i PROVE FALSE
    BY <1>4, <1>01
  <2>2. i < k
    BY <1>1, <2>1, FirstOnly
  <2>3. q < x
    BY <1>1, <1>4, <1>01, <2>2 DEF SequencesAgree, InSequence, IsFill
  <2>4. QED
    BY <1>3, <2>3
<1>6. QED
  BY <1>2, <1>5, <1>01 DEF Applies

LEMMA FillAgrees ==
  ASSUME FlowTypeOK, Books, Agreed, NEW i, TakesFill(i)
  PROVE  Agreed'
<1>1. /\ queue \in Seq(Events) /\ i \in 1..Len(queue) /\ i \in 0..Len(queue) /\ Queued(i, <<>>)
      /\ queue[i].type = "Fill" /\ queue[i] \in Fills /\ i \in Deliverable /\ HandleFill(queue[i])
      /\ UNCHANGED <<bus, working, issued, fillsIssued, fillCounts>> /\ PortfolioTypeOK
  BY DEF TakesFill, HandleFill, Fills, executionVars, FlowTypeOK, TypeOK
<1>2. SUFFICES ASSUME bus = "InProcess" PROVE Agreed'
  BY <1>1 DEF Agreed
<1>3. HoldsOwed /\ SharesAgree /\ FillIds /\ SequencesAgree
  BY <1>2 DEF Agreed
<1>4. Applies(queue[i])
  BY <1>1, <1>2, NextFillApplies
<1>5. ApplyFill(queue[i], MarkAfter(queue[i]))
  BY <1>1, <1>4 DEF HandleFill
<1>01. PICK o, n, q, d : /\ o = queue[i].order /\ n = Shares(queue[i])
                         /\ q = queue[i].sequence /\ d = queue[i].id
  OBVIOUS
<1>6. /\ UNCHANGED holds /\ appliedFills' = appliedFills \cup {d} /\ q = ExpectedSequence(o)
      /\ lastSequence' = IF queue[i].status = "Filled" THEN Drop(lastSequence, o)
                         ELSE Put(lastSequence, o, q)
      /\ openOrders' = IF o \notin DOMAIN openOrders THEN openOrders
                       ELSE IF EndsOrder(queue[i]) THEN Drop(openOrders, o)
                       ELSE [openOrders EXCEPT ![o] = AfterFill(@, n)]
  BY <1>5, <1>01 DEF ApplyFill, Applies, ReleaseForFill
<1>7. /\ o \in 1..Len(issued) /\ n \in Nat /\ o \in DOMAIN openOrders
      /\ EndsOrder(queue[i]) => n = queue[i].left
      /\ o \in DOMAIN working => ~EndsOrder(queue[i])
      /\ \A j \in 1..Len(queue) :
            (j # i /\ queue[j].type = "Fill" /\ queue[j].order = o) => ~EndsOrder(queue[i])
  BY <1>2, <1>01, FillIs
<1>8. EndsOrder(queue[i]) <=> queue[i].status = "Filled"
  <2>1. queue[i] \in SoundFills
    BY <1>1 DEF Books, SoundEvents
  <2>2. n = queue[i].left => queue[i].status = "Filled"
    BY <1>1, <1>01, <2>1 DEF SoundFills
  <2>3. QED
    BY <1>7, <2>2 DEF EndsOrder
<1>9. /\ q \in Nat /\ d \in Nat /\ IsFill(queue[i], o) /\ q = ExpectedSequence(o)
      /\ \A x : ExpectedSequence(x) \in Nat /\ FillCount(x) \in Nat
  BY <1>1, <1>6, <1>01, SequencesTyped DEF Fills, IsFill
<1>10. /\ \A x : x # o => ExpectedSequence(x)' = ExpectedSequence(x)
       /\ ~EndsOrder(queue[i]) => ExpectedSequence(o)' = q + 1
       /\ DOMAIN lastSequence' \subseteq 1..Len(issued)
       /\ \A x : FillCount(x)' = FillCount(x)
  <2>1. DOMAIN lastSequence \subseteq 1..Len(issued)
    BY <1>3 DEF SequencesAgree
  <2>2. CASE queue[i].status = "Filled"
    BY <1>1, <1>6, <1>8, <2>1, <2>2 DEF Drop, ExpectedSequence, FillCount
  <2>3. CASE queue[i].status # "Filled"
    BY <1>1, <1>6, <1>7, <1>8, <2>1, <2>3 DEF Put, ExpectedSequence, FillCount
  <2>4. QED
    BY <2>2, <2>3
<1>11. <<>> \in Seq(Events) /\ 1..Len(<<>>) = {}
  OBVIOUS
<1>12. \A j \in 1..Len(queue) : j # i => i < j
  BY <1>1, <1>2, FirstOnly
<1>13. /\ \A k \in 1..Len(queue') : \E j \in 1..Len(queue) : j # i /\ queue'[k] = queue[j]
       /\ \A k, l \in 1..Len(queue') : k < l => StayedInOrder(queue'[k], queue'[l], i)
  BY <1>1, Taken
<1>14. HoldsOwed'
  <2>1. ASSUME NEW s \in DOMAIN holds'
        PROVE  \/ /\ s \in DOMAIN holds
                  /\ \A k \in 1..Len(queue) : k = i => ~Submits(queue[k], s)
               \/ \E m \in 1..Len(<<>>) : Submits(<<>>[m], s)
    BY <1>1, <1>6 DEF Submits, IsSubmitted
  <2>2. QED
    BY <1>1, <1>2, <1>3, <1>11, <2>1, HoldsStayOwed
<1>15. ASSUME NEW x, NEW m, x # o, Owing(x, m)
       PROVE  Owing(x, m)'
  <2>1. /\ \A k \in 1..Len(queue) : k = i => ~IsFill(queue[k], x)
        /\ \A k \in 1..Len(<<>>) : ~IsFill(<<>>[k], x)
    BY <1>11, <1>15, <1>01 DEF IsFill
  <2>2. /\ x \in DOMAIN working <=> x \in DOMAIN working'
        /\ x \in DOMAIN working => Remaining(working'[x]) = Remaining(working[x])
    BY <1>1
  <2>3. QED
    BY <1>1, <1>2, <1>11, <1>15, <2>1, <2>2, OwingStays
<1>16. SharesAgree'
  <2>1. ASSUME NEW x \in DOMAIN openOrders'
        PROVE  Owing(x, openOrders[x].remaining)'
    <3>01. PICK m, r : m = openOrders'[x].remaining /\ r = openOrders[x].remaining
      OBVIOUS
    <3>1. x \in DOMAIN openOrders /\ Owing(x, r)
      BY <1>3, <1>6, <3>01 DEF SharesAgree, Drop
    <3>2. CASE x # o
      <4>1. m = r
        BY <1>6, <1>7, <3>2, <3>01 DEF Drop
      <4>2. Owing(x, m)'
        BY <1>15, <3>1, <3>2, <4>1
      <4>3. QED
        BY <3>01, <4>2 DEF Owing
    <3>3. CASE x = o
      <4>1. ~EndsOrder(queue[i])
        BY <1>6, <1>7, <3>3 DEF Drop
      <4>2. m = r - n /\ r \in Nat
        <5>1. openOrders[o] \in PendingOrders
          BY <1>1, <1>7 DEF PortfolioTypeOK
        <5>2. openOrders'[o] = AfterFill(openOrders[o], n)
          BY <1>6, <1>7, <4>1
        <5>3. QED
          BY <3>3, <3>01, <5>1, <5>2 DEF AfterFill, PendingOrders
      <4>3. SharesInFlight(o)' = SharesInFlight(o) - n /\ SharesInFlight(o) \in Nat
        BY <1>1, <1>2, <1>9, <1>01, FlightShrinks
      <4>4. Left(o)' = Left(o)
        BY <1>1 DEF Left, Remaining
      <4>5. Left(o) \in Int
        BY DEF Left, Remaining, FlowTypeOK, TypeOK, ExecutionTypeOK, Orders
      <4>6. m = Left(o)' + SharesInFlight(o)'
        BY <1>7, <3>1, <3>3, <4>2, <4>3, <4>4, <4>5 DEF Owing
      <4>7. o \notin DOMAIN working' => EndQueued(o)'
        <5>1. SUFFICES ASSUME o \notin DOMAIN working PROVE EndQueued(o)'
          BY <1>1
        <5>2. PICK k \in 1..Len(queue) : IsFill(queue[k], o) /\ queue[k].status = "Filled"
          BY <3>1, <3>3, <5>1 DEF Owing, EndQueued
        <5>3. k # i
          BY <1>8, <4>1, <5>2
        <5>4. PICK l \in 1..Len(queue') : queue'[l] = queue[k]
          BY <1>1, <1>2, <1>11, <5>3, Stays
        <5>5. QED
          BY <5>2, <5>4 DEF EndQueued, IsFill
      <4>8. QED
        BY <3>3, <3>01, <4>6, <4>7 DEF Owing
    <3>4. QED
      BY <3>2, <3>3
  <2>2. ASSUME NEW k \in 1..Len(queue'), IsSubmitted(queue'[k]), queue'[k].status = "Working"
        PROVE  Owing(queue[k].id, queue[k].quantity)'
    <3>01. PICK x, m : x = queue'[k].id /\ m = queue'[k].quantity
      OBVIOUS
    <3>1. PICK j \in 1..Len(queue) : queue'[k] = queue[j]
      BY <1>13
    <3>2. x # o
      BY <1>7, <2>2, <3>1, <3>01, SubmittedIs
    <3>3. Owing(x, m)
      BY <1>3, <2>2, <3>1, <3>01 DEF SharesAgree
    <3>4. Owing(x, m)'
      BY <1>15, <3>2, <3>3
    <3>5. QED
      BY <3>01, <3>4 DEF Owing, Left, EndQueued, SharesInFlight, IsFill
  <2>3. QED
    BY <2>1, <2>2 DEF SharesAgree, IsSubmitted
<1>17. FillIds'
  <2>1. d \in 1..fillsIssued
    BY <1>1, <1>3, <1>01 DEF FillIds
  <2>2. ASSUME NEW k \in 1..Len(queue'), queue'[k].type = "Fill"
        PROVE  queue'[k].id \in 1..fillsIssued /\ queue'[k].id \notin appliedFills'
    <3>1. PICK j \in 1..Len(queue) : j # i /\ queue'[k] = queue[j]
      BY <1>13
    <3>2. queue[j].id \in 1..fillsIssued /\ queue[j].id \notin appliedFills /\ queue[j].id # d
      BY <1>1, <1>3, <1>12, <1>01, <2>2, <3>1 DEF FillIds
    <3>3. QED
      BY <1>6, <3>1, <3>2
  <2>3. ASSUME NEW k \in 1..Len(queue'), NEW l \in 1..Len(queue'), k < l,
               queue'[k].type = "Fill", queue'[l].type = "Fill"
        PROVE  queue'[k].id # queue'[l].id
    <3>1. PICK j, h \in 1..Len(queue) : j < h /\ queue'[k] = queue[j] /\ queue'[l] = queue[h]
      BY <1>13, <2>3 DEF StayedInOrder
    <3>2. QED
      BY <1>3, <2>3, <3>1 DEF FillIds
  <2>4. QED
    BY <1>1, <1>3, <1>6, <2>1, <2>2, <2>3 DEF FillIds
<1>18. SequencesAgree'
  <2>1. ASSUME NEW x, NEW a, NEW b, x # o, SentFrom(x, a, b)
        PROVE  SentFrom(x, a, b)'
    <3>1. \A k \in 1..Len(queue) : k = i => ~IsFill(queue[k], x)
      BY <1>01, <2>1 DEF IsFill
    <3>2. QED
      BY <1>1, <1>2, <1>11, <2>1, <3>1, SentStays
  <2>2. ASSUME NEW b \in Nat, SentFrom(o, q, b)
        PROVE  SentFrom(o, q + 1, b)'
    <3>1. \A m \in (q + 1)..b : m \in q..b /\ m # q
      BY <1>9
    <3>2. \A m \in (q + 1)..b : m \in q..b /\ \A k \in 1..Len(queue) :
             k = i => ~(IsFill(queue[k], o) /\ queue[k].sequence = m)
      BY <1>01, <3>1
    <3>3. QED
      BY <1>1, <1>2, <1>11, <2>2, <3>2, SentStays
  <2>3. ASSUME NEW k \in 1..Len(queue'), queue'[k].type = "Fill"
        PROVE  FillInSequence(queue[k])'
    <3>1. PICK j \in 1..Len(queue) : j # i /\ queue'[k] = queue[j]
      BY <1>13
    <3>01. PICK e : e = queue'[k]
      OBVIOUS
    <3>2. FillInSequence(e) /\ e \in Fills /\ e.sequence \in Nat
      BY <1>1, <1>3, <2>3, <3>1, <3>01, EventKinds DEF SequencesAgree, Fills
    <3>3. CASE e.order # o
      <4>1. SentFrom(e.order, ExpectedSequence(e.order), e.sequence)
        BY <3>2 DEF FillInSequence
      <4>01. PICK x, a, b : x = e.order /\ a = ExpectedSequence(e.order) /\ b = e.sequence
        OBVIOUS
      <4>2. SentFrom(x, a, b)'
        BY <2>1, <3>3, <4>1, <4>01
      <4>3. ExpectedSequence(x)' = a /\ a <= b
        BY <1>10, <3>2, <3>3, <4>01 DEF FillInSequence
      <4>4. FillInSequence(e)'
        BY <4>2, <4>3, <4>01 DEF FillInSequence
      <4>5. QED
        BY <3>01, <4>4 DEF FillInSequence
    <3>4. CASE e.order = o
      <4>1. ~EndsOrder(queue[i]) /\ q < e.sequence
        BY <1>1, <1>3, <1>7, <1>12, <1>01, <2>3, <3>1, <3>4, <3>01 DEF SequencesAgree, InSequence
      <4>2. SentFrom(o, q, e.sequence)
        BY <1>9, <3>2, <3>4 DEF FillInSequence
      <4>3. SentFrom(o, q + 1, e.sequence)'
        BY <2>2, <3>2, <4>2
      <4>4. ExpectedSequence(o)' = q + 1 /\ q + 1 <= e.sequence
        BY <1>9, <1>10, <3>2, <4>1
      <4>5. FillInSequence(e)'
        BY <3>4, <4>3, <4>4 DEF FillInSequence
      <4>6. QED
        BY <3>01, <4>5 DEF FillInSequence
    <3>5. QED
      BY <3>3, <3>4
  <2>4. ASSUME NEW k \in 1..Len(queue'), NEW l \in 1..Len(queue'), k < l
        PROVE  InSequence(queue'[k], queue'[l])
    <3>1. PICK j, h \in 1..Len(queue) : j < h /\ queue'[k] = queue[j] /\ queue'[l] = queue[h]
      BY <1>13, <2>4 DEF StayedInOrder
    <3>2. QED
      BY <1>3, <3>1 DEF SequencesAgree
  <2>5. ASSUME NEW x \in DOMAIN working'
        PROVE  CountAgrees(x)'
    <3>1. CountAgrees(x)
      BY <1>1, <1>3 DEF SequencesAgree
    <3>2. \A k \in 1..Len(queue') : IsFill(queue'[k], x) => queue'[k].sequence <= FillCount(x)
      BY <1>13, <3>1 DEF CountAgrees
    <3>01. PICK a, b : a = ExpectedSequence(x) /\ b = FillCount(x)
      OBVIOUS
    <3>3. a <= b + 1 /\ SentFrom(x, a, b) /\ b \in Nat
      BY <1>9, <3>1, <3>01 DEF CountAgrees
    <3>4. CASE x # o
      <4>1. SentFrom(x, a, b)'
        BY <2>1, <3>3, <3>4
      <4>2. ExpectedSequence(x)' = a /\ FillCount(x)' = b
        BY <1>10, <3>4, <3>01
      <4>3. QED
        BY <3>2, <3>3, <3>01, <4>1, <4>2 DEF CountAgrees, IsFill
    <3>5. CASE x = o
      <4>1. q <= b /\ a = q
        BY <1>1, <1>9, <3>1, <3>5, <3>01, <1>01 DEF CountAgrees
      <4>2. SentFrom(o, q + 1, b)'
        BY <2>2, <3>3, <3>5, <4>1
      <4>3. ExpectedSequence(x)' = q + 1 /\ FillCount(x)' = b
        BY <1>1, <1>7, <1>10, <3>5, <3>01
      <4>4. q + 1 <= b + 1
        BY <1>9, <3>3, <4>1
      <4>5. QED
        BY <3>2, <3>5, <3>01, <4>2, <4>3, <4>4 DEF CountAgrees, IsFill
    <3>6. QED
      BY <3>4, <3>5
  <2>6. QED
    BY <1>1, <1>10, <2>3, <2>4, <2>5 DEF SequencesAgree, InSequence
<1>19. QED
  BY <1>14, <1>16, <1>17, <1>18 DEF Agreed

-----------------------------------------------------------------------------
(* A fill that a bar makes the simulator publish.                          *)
MadeOf(fill, market, fills) ==
    /\ fill.order \in Executes(market, fills)
    /\ Shares(fill) = fills[fill.order] /\ fill.sequence = FillCount(fill.order) + 1
    /\ fill.status = "Filled" <=> fills[fill.order] >= Remaining(working[fill.order])
    /\ fill.id \in (fillsIssued + 1)..(fillsIssued + Cardinality(Executes(market, fills)))

LEMMA NewFills ==
  ASSUME FlowTypeOK, NEW i, NEW fills, NEW ideas, NEW out,
         TakesBar(i, fills, ideas, out), BarNews(queue[i], fills, ideas, out)
  PROVE  /\ \A m \in 1..Len(out) :
               /\ out[m].type = "Fill" => MadeOf(out[m], queue[i], fills)
               /\ ~IsSubmitted(out[m])
         /\ \A o \in Executes(queue[i], fills) : \E m \in 1..Len(out) :
               /\ IsFill(out[m], o)
               /\ \A n \in 1..Len(out) : IsFill(out[n], o) => n = m
<1>1. /\ queue[i] \in MarketEvents /\ fills \in FillChoices(queue[i]) /\ ExecutionTypeOK
      /\ fillsIssued \in Nat
  BY DEF TakesBar, FlowTypeOK, TypeOK, ExecutionTypeOK
<1>2. Cardinality(Executes(queue[i], fills)) \in Nat
  BY <1>1, Fillings, FS_CardinalityType
<1>3. ASSUME NEW fill, NEW o \in Executes(queue[i], fills), IsFillOf(fill, queue[i], fills, o)
      PROVE  MadeOf(fill, queue[i], fills) /\ IsFill(fill, o)
  <2>1. Filling(queue[i], fills, o)
    BY <1>1, Fillings
  <2>2. /\ fill \in Fills /\ fill.type = "Fill" /\ fill.order = o /\ Shares(fill) = fills[o]
        /\ (fill.status = "Filled" <=> fills[o] >= Remaining(working[o]))
        /\ fill.sequence = FillCount(o) + 1 /\ fill.id > fillsIssued
        /\ fill.id <= fillsIssued + Cardinality(Executes(queue[i], fills))
    BY <1>1, <1>3, <2>1, FillSays
  <2>3. fill.id \in Nat
    BY <2>2 DEF Fills
  <2>4. fill.id \in (fillsIssued + 1)..(fillsIssued + Cardinality(Executes(queue[i], fills)))
    BY <1>1, <1>2, <2>2, <2>3
  <2>5. QED
    BY <2>2, <2>4 DEF MadeOf, IsFill
<1>4. ASSUME NEW m \in 1..Len(out)
      PROVE  /\ out[m].type = "Fill" => MadeOf(out[m], queue[i], fills)
             /\ ~IsSubmitted(out[m])
  <2>1. CASE \E o \in Executes(queue[i], fills) : IsFillOf(out[m], queue[i], fills, o)
    BY <1>3, <2>1 DEF IsFill, IsSubmitted
  <2>2. CASE out[m].type = "Order" /\ out[m].status \in {"PartiallyFilled", "Filled"}
    BY <2>2 DEF IsSubmitted
  <2>3. CASE out[m].type = "Signal"
    BY <2>3 DEF IsSubmitted
  <2>4. QED
    BY <2>1, <2>2, <2>3, NewsIs
<1>5. ASSUME NEW o \in Executes(queue[i], fills)
      PROVE  \E m \in 1..Len(out) :
                /\ IsFill(out[m], o)
                /\ \A n \in 1..Len(out) : IsFill(out[n], o) => n = m
  <2>1. PICK m \in 1..Len(out) : IsFillOf(out[m], queue[i], fills, o)
    BY DEF BarNews
  <2>2. IsFill(out[m], o)
    BY <1>3, <2>1
  <2>3. \A n \in 1..Len(out) : IsFill(out[n], o) => n = m
    BY <2>2 DEF BarNews, IsFill
  <2>4. QED
    BY <2>2, <2>3
<1>6. QED
  BY <1>4, <1>5

LEMMA BarOwing ==
  ASSUME FlowTypeOK, bus = "InProcess", NEW i, NEW fills, NEW ideas, NEW out,
         TakesBar(i, fills, ideas, out), BarNews(queue[i], fills, ideas, out),
         NEW o, NEW n, Owing(o, n)
  PROVE  Owing(o, n)'
<1>1. /\ queue \in Seq(Events) /\ out \in Seq(Events) /\ i \in 1..Len(queue) /\ i \in 0..Len(queue)
      /\ Queued(i, out) /\ queue[i] \in MarketEvents /\ fills \in FillChoices(queue[i])
      /\ ExecutionTypeOK /\ Execute(queue[i], fills)
  BY DEF TakesBar, BarNews, FlowTypeOK, TypeOK
<1>2. \A k \in 1..Len(queue) : k = i => ~IsFill(queue[k], o)
  BY <1>1 DEF IsFill, MarketEvents
<1>3. CASE o \notin Executes(queue[i], fills)
  <2>1. \A m \in 1..Len(out) : ~IsFill(out[m], o)
    BY <1>3, NewFills DEF IsFill, MadeOf
  <2>2. o \in DOMAIN working <=> o \in DOMAIN working'
    BY <1>1, <1>3, ExecuteLeaves
  <2>3. o \in DOMAIN working => Remaining(working'[o]) = Remaining(working[o])
    BY <1>3, <2>2, BarLeaves
  <2>4. QED
    BY <1>1, <1>2, <2>1, <2>2, <2>3, OwingStays
<1>4. CASE o \in Executes(queue[i], fills)
  <2>1. PICK m \in 1..Len(out) : /\ IsFill(out[m], o)
                                 /\ \A l \in 1..Len(out) : IsFill(out[l], o) => l = m
    BY <1>4, NewFills
  <2>2. MadeOf(out[m], queue[i], fills) /\ out[m].order = o
    BY <2>1, NewFills DEF IsFill
  <2>3. /\ SharesInFlight(o)' = SharesInFlight(o) + fills[o]
        /\ SharesInFlight(o) \in Nat /\ fills[o] \in Nat
    BY <1>1, <1>2, <2>1, <2>2, FlightGrows DEF MadeOf
  <2>4. /\ o \in DOMAIN working /\ fills[o] <= Remaining(working[o])
        /\ Remaining(working[o]) \in Int
    <3>1. Filling(queue[i], fills, o)
      BY <1>1, <1>4, Fillings
    <3>2. Remaining(working[o]) \in Int
      BY <3>1 DEF Filling, Remaining, Orders
    <3>3. QED
      BY <3>1, <3>2 DEF Filling
  <2>5. Left(o) = Remaining(working[o])
    BY <2>4 DEF Left
  <2>6. CASE o \in DOMAIN working'
    <3>1. Remaining(working'[o]) = Remaining(working[o]) - fills[o]
      BY <1>4, <2>6, BarLeaves
    <3>2. Left(o)' = Remaining(working[o]) - fills[o]
      BY <2>6, <3>1 DEF Left, Remaining
    <3>3. n = Left(o)' + SharesInFlight(o)'
      BY <2>3, <2>4, <2>5, <3>2 DEF Owing
    <3>4. QED
      BY <2>6, <3>3 DEF Owing
  <2>7. CASE o \notin DOMAIN working'
    <3>1. fills[o] >= Remaining(working[o])
      BY <1>1, <1>4, <2>4, <2>7 DEF Execute
    <3>2. Left(o)' = 0
      BY <2>7 DEF Left
    <3>3. n = Left(o)' + SharesInFlight(o)'
      BY <2>3, <2>4, <2>5, <3>1, <3>2 DEF Owing
    <3>4. out[m].status = "Filled"
      BY <2>2, <3>1 DEF MadeOf
    <3>5. PICK k \in 1..Len(queue') : queue'[k] = out[m]
      BY <1>1, Stays
    <3>6. EndQueued(o)'
      BY <2>1, <3>4, <3>5 DEF EndQueued, IsFill
    <3>7. QED
      BY <3>3, <3>6 DEF Owing
  <2>8. QED
    BY <2>6, <2>7
<1>5. QED
  BY <1>3, <1>4

LEMMA BarAgrees ==
  ASSUME FlowTypeOK, Agreed, NEW i, NEW fills, NEW ideas, NEW out,
         TakesBar(i, fills, ideas, out), BarNews(queue[i], fills, ideas, out)
  PROVE  Agreed'
<1> DEFINE hit == Executes(queue[i], fills)
<1>1. /\ queue \in Seq(Events) /\ out \in Seq(Events) /\ i \in 1..Len(queue) /\ i \in 0..Len(queue)
      /\ Queued(i, out) /\ queue[i] \in MarketEvents /\ fills \in FillChoices(queue[i])
      /\ ExecutionTypeOK /\ Execute(queue[i], fills) /\ queue[i].type = "MarketData"
      /\ UNCHANGED <<holds, openOrders, appliedFills, lastSequence, issued, bus>>
      /\ fillsIssued \in Nat
  <2>1. /\ queue \in Seq(Events) /\ i \in 1..Len(queue) /\ queue[i] \in MarketEvents
        /\ fills \in FillChoices(queue[i]) /\ Execute(queue[i], fills) /\ Queued(i, out)
        /\ HandleMarketData(queue[i], ideas) /\ bus' = bus /\ ExecutionTypeOK
    BY DEF TakesBar, FlowTypeOK, TypeOK
  <2>2. UNCHANGED <<holds, openOrders, appliedFills, lastSequence>>
    BY <2>1 DEF HandleMarketData, Mark
  <2>3. issued' = issued /\ fillsIssued \in Nat
    BY <2>1 DEF Execute, ExecutionTypeOK
  <2>4. out \in Seq(Events) /\ i \in 0..Len(queue) /\ queue[i].type = "MarketData"
    BY <2>1 DEF BarNews, MarketEvents
  <2>5. QED
    BY <2>1, <2>2, <2>3, <2>4
<1>2. SUFFICES ASSUME bus = "InProcess" PROVE Agreed'
  BY <1>1 DEF Agreed
<1>3. HoldsOwed /\ SharesAgree /\ FillIds /\ SequencesAgree
  BY <1>2 DEF Agreed
<1>4. /\ \A m \in 1..Len(out) :
            /\ out[m].type = "Fill" => MadeOf(out[m], queue[i], fills)
            /\ ~IsSubmitted(out[m])
      /\ \A o \in hit : \E m \in 1..Len(out) : IsFill(out[m], o)
  BY NewFills
<1>5. /\ fillsIssued' = fillsIssued + Cardinality(hit) /\ Cardinality(hit) \in Nat
      /\ DOMAIN working' \subseteq DOMAIN working
      /\ \A o \in DOMAIN working' : FillCount(o)' = FillCount(o) + IF o \in hit THEN 1 ELSE 0
      /\ \A o \in hit : o \in DOMAIN working
  <2>1. \A o \in hit : Filling(queue[i], fills, o)
    BY <1>1, Fillings
  <2>2. Cardinality(hit) \in Nat
    BY <1>1, Fillings, FS_CardinalityType
  <2>3. QED
    BY <1>1, <2>1, <2>2, ExecuteLeaves DEF Filling
<1>6. \A x : /\ ExpectedSequence(x) \in Nat /\ FillCount(x) \in Nat
             /\ ExpectedSequence(x)' = ExpectedSequence(x)
  BY <1>1, SequencesTyped DEF ExpectedSequence
<1>7. \A k \in 1..Len(queue) : k = i => queue[k].type # "Fill" /\ ~IsSubmitted(queue[k])
  BY <1>1 DEF IsSubmitted
<1> HIDE DEF hit
<1>8. HoldsOwed'
  <2>1. ASSUME NEW s \in DOMAIN holds'
        PROVE  \/ /\ s \in DOMAIN holds
                  /\ \A k \in 1..Len(queue) : k = i => ~Submits(queue[k], s)
               \/ \E m \in 1..Len(out) : Submits(out[m], s)
    BY <1>1, <1>7 DEF Submits
  <2>2. QED
    BY <1>1, <1>2, <1>3, <2>1, HoldsStayOwed
<1>9. SharesAgree'
  <2>1. ASSUME NEW o \in DOMAIN openOrders'
        PROVE  Owing(o, openOrders[o].remaining)'
    <3>01. PICK n : n = openOrders[o].remaining
      OBVIOUS
    <3>1. Owing(o, n)
      BY <1>1, <1>3, <3>01 DEF SharesAgree
    <3>2. Owing(o, n)'
      BY <1>2, <3>1, BarOwing
    <3>3. QED
      BY <1>1, <3>01, <3>2 DEF Owing
  <2>2. ASSUME NEW k \in 1..Len(queue'), IsSubmitted(queue'[k]), queue'[k].status = "Working"
        PROVE  Owing(queue[k].id, queue[k].quantity)'
    <3>01. PICK o, n : o = queue'[k].id /\ n = queue'[k].quantity
      OBVIOUS
    <3>1. PICK j \in 1..Len(queue) : queue'[k] = queue[j]
      BY <1>1, <1>4, <2>2, Comes
    <3>2. Owing(o, n)
      BY <1>3, <2>2, <3>1, <3>01 DEF SharesAgree
    <3>3. Owing(o, n)'
      BY <1>2, <3>2, BarOwing
    <3>4. QED
      BY <3>01, <3>3 DEF Owing, Left, EndQueued, SharesInFlight, IsFill
  <2>3. QED
    BY <2>1, <2>2 DEF SharesAgree, IsSubmitted
<1>10. FillIds'
  <2>1. appliedFills' \subseteq 1..fillsIssued'
    BY <1>1, <1>3, <1>5 DEF FillIds
  <2>2. ASSUME NEW m \in 1..Len(out), out[m].type = "Fill"
        PROVE  out[m].id \in (fillsIssued + 1)..fillsIssued'
    BY <1>4, <1>5, <2>2 DEF MadeOf, hit
  <2>3. ASSUME NEW k \in 1..Len(queue'), queue'[k].type = "Fill"
        PROVE  queue'[k].id \in 1..fillsIssued' /\ queue'[k].id \notin appliedFills'
    <3>1. CASE \E j \in 1..Len(queue) : queue'[k] = queue[j]
      <4>1. queue'[k].id \in 1..fillsIssued /\ queue'[k].id \notin appliedFills
        BY <1>3, <2>3, <3>1 DEF FillIds
      <4>2. QED
        BY <1>1, <1>5, <4>1
    <3>2. CASE \E m \in 1..Len(out) : queue'[k] = out[m]
      <4>1. queue'[k].id \in (fillsIssued + 1)..fillsIssued'
        BY <2>2, <2>3, <3>2
      <4>2. appliedFills' \subseteq 1..fillsIssued
        BY <1>1, <1>3 DEF FillIds
      <4>3. QED
        BY <1>1, <1>5, <4>1, <4>2
    <3>3. QED
      BY <1>1, <3>1, <3>2, Comes
  <2>4. ASSUME NEW k \in 1..Len(queue'), NEW l \in 1..Len(queue'), k < l,
               queue'[k].type = "Fill", queue'[l].type = "Fill"
        PROVE  queue'[k].id # queue'[l].id
    <3>1. CameInOrder(queue'[k], queue'[l], i, out)
      BY <1>1, <2>4, ComeInOrder
    <3>2. CASE \E j, h \in 1..Len(queue) : j < h /\ queue'[k] = queue[j] /\ queue'[l] = queue[h]
      BY <1>3, <2>4, <3>2 DEF FillIds
    <3>3. CASE \E j \in 1..Len(queue), m \in 1..Len(out) : queue'[k] = queue[j] /\ queue'[l] = out[m]
      <4>1. queue'[k].id \in 1..fillsIssued
        BY <1>3, <2>4, <3>3 DEF FillIds
      <4>2. queue'[l].id \in (fillsIssued + 1)..fillsIssued'
        BY <2>2, <2>4, <3>3
      <4>3. QED
        BY <1>1, <1>5, <4>1, <4>2
    <3>4. CASE \E m, n \in 1..Len(out) : m < n /\ queue'[k] = out[m] /\ queue'[l] = out[n]
      BY <2>4, <3>4 DEF BarNews
    <3>5. QED
      BY <3>1, <3>2, <3>3, <3>4 DEF CameInOrder
  <2>5. QED
    BY <2>1, <2>3, <2>4 DEF FillIds
<1>11. SequencesAgree'
  <2>1. ASSUME NEW o, NEW a, NEW b, SentFrom(o, a, b)
        PROVE  SentFrom(o, a, b)'
    <3>1. \A k \in 1..Len(queue) : k = i => ~IsFill(queue[k], o)
      BY <1>7 DEF IsFill
    <3>2. QED
      BY <1>1, <1>2, <2>1, <3>1, SentStays
  <2>2. ASSUME NEW o \in hit, NEW a, NEW b, a = ExpectedSequence(o), b = FillCount(o)
        PROVE  a <= b + 1 /\ SentFrom(o, a, b + 1)'
    <3>1. CountAgrees(o)
      BY <1>3, <1>5 DEF SequencesAgree
    <3>2. a <= b + 1 /\ SentFrom(o, a, b) /\ a \in Nat /\ b \in Nat
      BY <1>6, <2>2, <3>1 DEF CountAgrees
    <3>3. PICK m \in 1..Len(out) : IsFill(out[m], o) /\ out[m].sequence = b + 1
      <4>1. PICK m \in 1..Len(out) : IsFill(out[m], o)
        BY <1>4
      <4>2. QED
        BY <1>4, <2>2, <4>1 DEF MadeOf, IsFill
    <3>4. \A k \in 1..Len(queue) : k = i => ~IsFill(queue[k], o)
      BY <1>7 DEF IsFill
    <3>5. \A n \in a..(b + 1) :
             \/ n \in a..b /\ \A k \in 1..Len(queue) :
                   k = i => ~(IsFill(queue[k], o) /\ queue[k].sequence = n)
             \/ \E l \in 1..Len(out) : IsFill(out[l], o) /\ out[l].sequence = n
      <4>1. ASSUME NEW n \in a..(b + 1) PROVE n \in a..b \/ n = b + 1
        BY <3>2
      <4>2. QED
        BY <3>3, <3>4, <4>1
    <3>6. SentFrom(o, a, b + 1)'
      BY <1>1, <1>2, <3>2, <3>5, SentStays
    <3>7. QED
      BY <3>2, <3>6
  <2>3. ASSUME NEW k \in 1..Len(queue'), queue'[k].type = "Fill"
        PROVE  FillInSequence(queue[k])'
    <3>01. PICK e, o : e = queue'[k] /\ o = e.order
      OBVIOUS
    <3>02. PICK a, b : a = ExpectedSequence(o) /\ b = e.sequence
      OBVIOUS
    <3>1. a <= b /\ SentFrom(o, a, b)'
      <4>1. CASE \E j \in 1..Len(queue) : e = queue[j]
        <5>1. FillInSequence(e)
          BY <1>3, <2>3, <3>01, <4>1 DEF SequencesAgree
        <5>2. a <= b /\ SentFrom(o, a, b)
          BY <3>01, <3>02, <5>1 DEF FillInSequence
        <5>3. QED
          BY <2>1, <5>2
      <4>2. CASE \E m \in 1..Len(out) : e = out[m]
        <5>1. o \in hit /\ b = FillCount(o) + 1
          BY <1>4, <2>3, <3>01, <3>02, <4>2 DEF MadeOf, hit
        <5>02. PICK c : c = FillCount(o)
          OBVIOUS
        <5>2. a <= c + 1 /\ b = c + 1
          BY <2>2, <3>02, <5>1, <5>02
        <5>3. SentFrom(o, a, b)'
          BY <2>2, <3>02, <5>1, <5>02, <5>2
        <5>4. QED
          BY <5>2, <5>3
      <4>3. QED
        BY <1>1, <3>01, <4>1, <4>2, Comes
    <3>2. FillInSequence(e)'
      BY <1>6, <3>01, <3>02, <3>1 DEF FillInSequence, SentFrom
    <3>3. QED
      BY <3>01, <3>2 DEF FillInSequence
  <2>4. ASSUME NEW k \in 1..Len(queue'), NEW l \in 1..Len(queue'), k < l
        PROVE  InSequence(queue'[k], queue'[l])
    <3> SUFFICES ASSUME queue'[k].type = "Fill", queue'[l].type = "Fill",
                        queue'[k].order = queue'[l].order
                 PROVE  queue'[k].sequence < queue'[l].sequence
      BY DEF InSequence
    <3>1. CameInOrder(queue'[k], queue'[l], i, out)
      BY <1>1, <2>4, ComeInOrder
    <3>2. CASE \E j, h \in 1..Len(queue) : j < h /\ queue'[k] = queue[j] /\ queue'[l] = queue[h]
      BY <1>3, <3>2 DEF SequencesAgree, InSequence
    <3>3. CASE \E j \in 1..Len(queue), m \in 1..Len(out) : queue'[k] = queue[j] /\ queue'[l] = out[m]
      <4>1. PICK j \in 1..Len(queue), m \in 1..Len(out) : queue'[k] = queue[j] /\ queue'[l] = out[m]
        BY <3>3
      <4>01. PICK o, b : o = out[m].order /\ b = FillCount(o)
        OBVIOUS
      <4>2. o \in hit /\ out[m].sequence = b + 1 /\ b \in Nat
        BY <1>4, <1>6, <4>1, <4>01 DEF MadeOf, hit
      <4>3. CountAgrees(o)
        BY <1>3, <1>5, <4>2 DEF SequencesAgree
      <4>4. queue[j].sequence <= b
        BY <4>1, <4>3, <4>01 DEF CountAgrees, IsFill
      <4>5. queue[j].sequence \in Nat
        BY <1>1, <4>1, EventKinds DEF Fills
      <4>6. QED
        BY <4>1, <4>2, <4>4, <4>5
    <3>4. CASE \E m, n \in 1..Len(out) : m < n /\ queue'[k] = out[m] /\ queue'[l] = out[n]
      BY <3>4 DEF BarNews
    <3>5. QED
      BY <3>1, <3>2, <3>3, <3>4 DEF CameInOrder
  <2>5. ASSUME NEW o \in DOMAIN working'
        PROVE  CountAgrees(o)'
    <3>1. CountAgrees(o) /\ o \in DOMAIN working
      BY <1>3, <1>5, <2>5 DEF SequencesAgree
    <3>01. PICK a, b, c : a = ExpectedSequence(o) /\ b = FillCount(o) /\ c = FillCount(o)'
      OBVIOUS
    <3>2. a <= b + 1 /\ SentFrom(o, a, b) /\ a \in Nat /\ b \in Nat /\ ExpectedSequence(o)' = a
      BY <1>6, <3>1, <3>01 DEF CountAgrees
    <3>3. (o \in hit => c = b + 1) /\ (o \notin hit => c = b)
      BY <1>5, <2>5, <3>2, <3>01
    <3>4. SentFrom(o, a, c)'
      <4>1. CASE o \in hit
        BY <2>2, <3>01, <3>3, <4>1
      <4>2. CASE o \notin hit
        BY <2>1, <3>2, <3>3, <4>2
      <4>3. QED
        BY <4>1, <4>2
    <3>5. ASSUME NEW k \in 1..Len(queue'), IsFill(queue'[k], o)
          PROVE  queue'[k].sequence <= c
      <4>1. CASE \E j \in 1..Len(queue) : queue'[k] = queue[j]
        <5>1. PICK j \in 1..Len(queue) : queue'[k] = queue[j]
          BY <4>1
        <5>2. queue[j].sequence <= b /\ queue[j].sequence \in Nat
          <6>1. IsFill(queue[j], o)
            BY <3>5, <5>1
          <6>2. queue[j] \in Fills
            BY <1>1, <6>1, EventKinds DEF IsFill
          <6>3. QED
            BY <3>1, <3>01, <6>1, <6>2 DEF CountAgrees, Fills
        <5>3. QED
          BY <3>2, <3>3, <5>1, <5>2
      <4>2. CASE \E m \in 1..Len(out) : queue'[k] = out[m]
        <5>1. o \in hit /\ queue'[k].sequence = b + 1
          BY <1>4, <3>5, <3>01, <4>2 DEF MadeOf, hit, IsFill
        <5>2. QED
          BY <3>2, <3>3, <5>1
      <4>3. QED
        BY <1>1, <4>1, <4>2, Comes
    <3>6. a <= c + 1
      BY <3>2, <3>3
    <3>7. QED
      BY <3>2, <3>4, <3>5, <3>6, <3>01 DEF CountAgrees, SentFrom, IsFill
  <2>6. DOMAIN lastSequence' \subseteq 1..Len(issued')
    BY <1>1, <1>3 DEF SequencesAgree
  <2>7. QED
    BY <2>3, <2>4, <2>5, <2>6 DEF SequencesAgree, InSequence
<1>12. QED
  BY <1>8, <1>9, <1>10, <1>11 DEF Agreed

-----------------------------------------------------------------------------
LEMMA AgreedStep ==
  ASSUME FlowTypeOK, Books, Agreed, [Next]_vars
  PROVE  Agreed'
<1>1. queue \in Seq(Events) /\ <<>> \in Seq(Events) /\ 1..Len(<<>>) = {}
  BY DEF FlowTypeOK, TypeOK
<1>2. ASSUME NEW i, NEW out, TakesSignal(i, out)
      PROVE  Agreed'
  <2>1. /\ i \in 1..Len(queue) /\ i \in 0..Len(queue) /\ Queued(i, out) /\ queue[i].type = "Signal"
        /\ UNCHANGED <<emitted, bus>>
    BY <1>2, SignalOutcome DEF TakesSignal, Signals, pipelineVars
  <2>2. CASE out = <<>> /\ UNCHANGED <<portfolioVars, executionVars>>
    <3>1. UNCHANGED <<issued, holds, openOrders, bus, working, lastSequence, fillCounts,
                      appliedFills, fillsIssued>>
      BY <2>1, <2>2 DEF portfolioVars, executionVars
    <3>2. /\ NoFillMoves(i, out)
          /\ \A k \in 1..Len(queue) : k = i => ~IsSubmitted(queue[k])
          /\ \A m \in 1..Len(out) : ~IsSubmitted(out[m])
      BY <1>1, <2>1, <2>2 DEF NoFillMoves, IsSubmitted
    <3>3. QED
      BY <1>1, <2>1, <2>2, <3>1, <3>2, QuietAgrees
  <2>3. CASE \E signal, order : Approved(queue[i], signal, order, out)
    BY <1>2, <2>3, ApprovalAgrees
  <2>4. QED
    BY <1>2, <2>2, <2>3, SignalOutcome
<1>3. ASSUME NEW bar, SendsBar(bar)
      PROVE  Agreed'
  <2>1. /\ UNCHANGED <<issued, holds, openOrders, bus, working, lastSequence, fillCounts,
                       appliedFills, fillsIssued>>
        /\ Queued(0, <<bar>>) /\ bar \in MarketEvents
    BY <1>3 DEF SendsBar, portfolioVars, executionVars
  <2>2. <<bar>> \in Seq(Events) /\ 0 \in 0..Len(queue)
    BY <1>1, <2>1 DEF Events
  <2>3. /\ NoFillMoves(0, <<bar>>)
        /\ \A k \in 1..Len(queue) : k = 0 => ~IsSubmitted(queue[k])
        /\ \A m \in 1..Len(<<bar>>) : ~IsSubmitted(<<bar>>[m])
    BY <2>1 DEF NoFillMoves, IsSubmitted, MarketEvents
  <2>4. QED
    BY <2>1, <2>2, <2>3, QuietAgrees
<1>4. CASE MovesOn \/ UNCHANGED vars
  <2>1. UNCHANGED <<issued, holds, openOrders, bus, working, lastSequence, fillCounts,
                    appliedFills, fillsIssued, queue>>
    BY <1>4 DEF MovesOn, vars, flowVars, portfolioVars, executionVars
  <2>2. /\ HoldsOwed => HoldsOwed'
        /\ FillIds => FillIds'
    BY <2>1 DEF HoldsOwed, FillIds, IsSubmitted
  <2>3. SharesAgree => SharesAgree'
    <3>1. ASSUME NEW o PROVE SharesInFlight(o)' = SharesInFlight(o)
      BY <2>1, InFlightIs
    <3>2. ASSUME NEW o, NEW n PROVE Owing(o, n)' <=> Owing(o, n)
      BY <2>1, <3>1 DEF Owing, Left, EndQueued, IsFill, Remaining
    <3>3. ASSUME SharesAgree, NEW o \in DOMAIN openOrders'
          PROVE  Owing(o, openOrders[o].remaining)'
      <4>01. PICK n : n = openOrders[o].remaining
        OBVIOUS
      <4>1. Owing(o, n)'
        BY <2>1, <3>2, <3>3, <4>01 DEF SharesAgree
      <4>2. QED
        BY <2>1, <4>01, <4>1 DEF Owing
    <3>4. ASSUME SharesAgree, NEW k \in 1..Len(queue'), IsSubmitted(queue'[k]),
                 queue'[k].status = "Working"
          PROVE  Owing(queue[k].id, queue[k].quantity)'
      <4>01. PICK o, n : o = queue'[k].id /\ n = queue'[k].quantity
        OBVIOUS
      <4>1. Owing(o, n)'
        BY <2>1, <3>2, <3>4, <4>01 DEF SharesAgree
      <4>2. QED
        BY <4>01, <4>1 DEF Owing, Left, EndQueued, SharesInFlight, IsFill
    <3>5. QED
      BY <3>3, <3>4 DEF SharesAgree, IsSubmitted
  <2>4. SequencesAgree => SequencesAgree'
    BY <2>1 DEF SequencesAgree, FillInSequence, CountAgrees, SentFrom, InSequence, FillCount,
       ExpectedSequence, IsFill
  <2>5. QED
    BY <2>1, <2>2, <2>3, <2>4 DEF Agreed
<1>5. CASE Next
  BY <1>2, <1>3, <1>4, <1>5, OrderAgrees, FillAgrees, BarAgrees, Steps
<1>6. QED
  BY <1>4, <1>5

LEMMA AgreedInit ==
  ASSUME Init
  PROVE  Agreed
<1>1. DOMAIN <<>> = {} /\ Len(<<>>) = 0
  OBVIOUS
<1>2. QED
  BY <1>1 DEF Init, PortfolioInit, ExecutionInit, Agreed, HoldsOwed, SharesAgree, FillIds,
     SequencesAgree

LEMMA AgreedHolds == Spec => [](FlowTypeOK /\ Books /\ Agreed)
<1>1. (FlowTypeOK /\ Books) /\ Agreed /\ [Next]_vars => Agreed'
  BY AgreedStep
<1>2. QED
  BY <1>1, AgreedInit, BooksHold, PTL DEF Spec

LEMMA AgreedBooks ==
  ASSUME FlowTypeOK, Books, Agreed
  PROVE  BooksAgree
<1> SUFFICES ASSUME bus = "InProcess" PROVE BooksAgree
  BY DEF BooksAgree, HoldsAreOwed, PortfolioTracksExecution, FillsApply
<1>1. /\ queue \in Seq(Events) /\ Len(queue) \in Nat /\ OpenedFirst /\ HoldsOwed /\ SharesAgree
      /\ \A k \in 1..Len(queue) : queue[k] \in SoundEvents
  BY DEF FlowTypeOK, TypeOK, Books, Agreed
<1>2. HoldsAreOwed
  BY <1>1 DEF HoldsAreOwed, HoldsOwed, InQueue, IsSubmitted
<1>3. PortfolioTracksExecution
  <2>1. ASSUME NEW o \in DOMAIN working, o \notin DOMAIN openOrders
        PROVE  InQueue(LAMBDA e : IsOpening(e, o))
    BY <1>1, <2>1 DEF OpenedFirst, InQueue
  <2>2. ASSUME NEW o \in DOMAIN working, o \in DOMAIN openOrders
        PROVE  openOrders[o].remaining = Remaining(working[o]) + SharesInFlight(o)
    BY <1>1, <2>2 DEF SharesAgree, Owing, Left
  <2>3. ASSUME NEW o \in DOMAIN openOrders \ DOMAIN working
        PROVE  /\ InQueue(LAMBDA e : IsFill(e, o) /\ e.status = "Filled")
               /\ openOrders[o].remaining = SharesInFlight(o)
    <3>1. Owing(o, openOrders[o].remaining) /\ Left(o) = 0 /\ EndQueued(o)
      BY <1>1 DEF SharesAgree, Owing, Left
    <3>2. SharesInFlight(o) \in Nat
      BY <1>1, FlightTyped, InFlightIs
    <3>3. QED
      BY <3>1, <3>2 DEF Owing, EndQueued, InQueue
  <2>4. QED
    BY <2>1, <2>2, <2>3 DEF PortfolioTracksExecution
<1>4. FillsApply
  <2> SUFFICES ASSUME queue # <<>>, Head(queue).type = "Fill" PROVE Applies(Head(queue))
    BY DEF FillsApply
  <2>1. 1 \in 1..Len(queue) /\ queue[1] = Head(queue) /\ 1..(1 - 1) = {}
    BY <1>1
  <2>2. 1 \in Deliverable
    BY <2>1 DEF Deliverable
  <2>3. QED
    BY <2>1, <2>2, NextFillApplies
<1>5. QED
  BY <1>2, <1>3, <1>4 DEF BooksAgree

(* For any symbols, prices, strategies and fills: on the in-process bus    *)
(* every hold has its order event queued, what the portfolio has open of   *)
(* an order is what the simulator still works plus the shares in flight,   *)
(* an order the simulator is done with has its last fill queued, and the   *)
(* fill at the head of the queue is the one the portfolio expects, so      *)
(* apply_fill() (portfolio_manager.cpp) refuses none.                      *)
THEOREM BooksStayInAgreement == Spec => []BooksAgree
<1>1. (FlowTypeOK /\ Books /\ Agreed) => BooksAgree
  BY AgreedBooks
<1>2. QED
  BY <1>1, AgreedHolds, PTL
=============================================================================
