--------------------------- MODULE BacktestProofs ---------------------------
(***************************************************************************)
(* Proofs about a backtest, for any bars, strategies, prices, fees, limits *)
(* and fill model: its steps are apart, its marks are the newest prices,   *)
(* and its report is the account's.                                        *)
(***************************************************************************)
EXTENDS Backtest, PipelineProofs

(* What TypeOK says of the account, with the finiteness of its books.      *)
StateTypeOK ==
    /\ TypeOK
    /\ IsFiniteSet(DOMAIN holds) /\ IsFiniteSet(DOMAIN openOrders)
    /\ IsFiniteSet(appliedFills)
    /\ holds \in [DOMAIN holds -> Holds]

(* The caller's place in the bars; it goes on only once the bus is drained.*)
InStep ==
    /\ phase \in {"Called", "Refused", "Bar", "Done"} => queue = <<>>
    /\ phase \in {"Executed", "Fed"} => at <= Len(bars) /\ clock = bars[at].time

(* An order was made at the clock after the bar it was decided on, and     *)
(* executes at a bar after its making.                                     *)
Ahead ==
    /\ \A o \in DOMAIN working : working[o].decided <= working[o].created
    /\ \A i \in 1..Len(queue) :
          /\ queue[i].type = "MarketData" => queue[i].time <= clock
          /\ queue[i].type = "Signal" => queue[i].decided <= clock
          /\ queue[i].type = "Fill" => queue[i].time > queue[i].decided
    /\ NoLookAhead

-----------------------------------------------------------------------------
IsNew(event) == event.type = "Order" /\ event.status \in {"Working", "Rejected"}

IsFill(event) == event.type = "Fill"

FillQueued(o) == \E i \in 1..Len(queue) : IsFill(queue[i]) /\ queue[i].order = o

OpeningQueued(o) ==
    \E i \in 1..Len(queue) :
        IsNew(queue[i]) /\ queue[i].status = "Working" /\ queue[i].id = o

(* What the simulator has still to execute of an order.                    *)
Left(o) == IF o \in DOMAIN working THEN Remaining(working[o]) ELSE 0

(* Numbers are given out once, and what is closed is done with.            *)
GivenOut ==
    /\ DOMAIN openOrders \cup closed \cup DOMAIN lastSequence \subseteq 1..Len(issued)
    /\ appliedFills \subseteq 1..fillsIssued
    /\ closed \cap (DOMAIN working \cup DOMAIN openOrders) = {}
    /\ \A o \in DOMAIN working : Remaining(working[o]) > 0

(* A hold is there for the order that takes it over.                       *)
HoldsOwed ==
    \A s \in DOMAIN holds : \E i \in 1..Len(queue) : IsNew(queue[i]) /\ queue[i].signal = s

(* The portfolio has not heard of an order that is queued.                 *)
OrderQueued(order) ==
    /\ order.id \in 1..Len(issued)
    /\ order.id \notin DOMAIN openOrders \cup closed \cup DOMAIN lastSequence
    /\ order.status = "Rejected" => order.id \notin DOMAIN working
    /\ order.status = "Working" =>
          /\ order.id \in DOMAIN working
          /\ Remaining(order) = Remaining(working[order.id])
          /\ FillCount(order.id) = 0

(* A fill that is queued is the next of its order, and the portfolio's     *)
(* shares are the simulator's with those of the fill.                      *)
FillQueuedNext(fill) ==
    /\ fill.order \in DOMAIN openOrders
    /\ Shares(fill) > 0
    /\ openOrders[fill.order].remaining = Shares(fill) + Left(fill.order)
    /\ fill.status = "Filled" <=> fill.order \notin DOMAIN working
    /\ fill.id \in (1..fillsIssued) \ appliedFills
    /\ fill.sequence = ExpectedSequence(fill.order)
    /\ fill.order \in DOMAIN working => FillCount(fill.order) = fill.sequence

(* News of one thing.                                                      *)
SameNews(d, e) ==
    \/ IsNew(d) /\ IsNew(e) /\ d.id = e.id
    \/ IsFill(d) /\ IsFill(e) /\ (d.order = e.order \/ d.id = e.id)

OnlyOnce == \A i, j \in 1..Len(queue) : SameNews(queue[i], queue[j]) => i = j

OwedEvents ==
    {d \in Events : (IsNew(d) => OrderQueued(d)) /\ (IsFill(d) => FillQueuedNext(d))}

QueueOwes == \A i \in 1..Len(queue) : queue[i] \in OwedEvents

(* An order the portfolio and the simulator agree on.                      *)
AgreedOn(o) ==
    /\ o \in DOMAIN openOrders
    /\ openOrders[o].remaining = Remaining(working[o])
    /\ ExpectedSequence(o) = FillCount(o) + 1

BooksMatch ==
    /\ \A o \in DOMAIN working : OpeningQueued(o) \/ FillQueued(o) \/ AgreedOn(o)
    /\ \A o \in DOMAIN openOrders : o \in DOMAIN working \/ FillQueued(o)

SaidOfBooks == GivenOut /\ HoldsOwed /\ QueueOwes /\ OnlyOnce /\ BooksMatch

StepsInv == StateTypeOK /\ InStep /\ Ahead /\ SaidOfBooks

-----------------------------------------------------------------------------
(* The queue.                                                              *)

LEMMA Types ==
  ASSUME StateTypeOK
  PROVE  /\ AccountTypeOK /\ ExecutionTypeOK /\ PortfolioTypeOK
         /\ queue \in Seq(Events) /\ Len(queue) \in Nat
         /\ clock \in Nat /\ emitted \in Nat /\ MaxTime \in Nat /\ MaxSignals \in Nat
         /\ MaxEmitted \in Nat
         /\ bars \in Seq(Bars) /\ Len(bars) \in Nat /\ at \in Nat
         /\ fills \in Seq(Fills) /\ Len(fills) \in Nat
         /\ \A o \in DOMAIN working : working[o] \in Orders /\ working[o].id = o
         /\ \A s \in DOMAIN lastMarks : lastMarks[s] \in MarketEvents
<1>1. AccountTypeOK /\ ExecutionTypeOK /\ PortfolioTypeOK
  BY DEF StateTypeOK, TypeOK, AccountTypeOK
<1>2. MaxTime \in Nat /\ MaxSignals \in Nat /\ MaxEmitted \in Nat
  BY BacktestAssumption
<1>3. queue \in Seq(Events) /\ bars \in Seq(Bars) /\ fills \in Seq(Fills)
  BY DEF StateTypeOK, TypeOK
<1>4. Len(queue) \in Nat /\ Len(bars) \in Nat /\ Len(fills) \in Nat
  BY <1>3
<1>5. clock \in Nat /\ emitted \in Nat /\ at \in Nat
  BY <1>2, <1>4 DEF StateTypeOK, TypeOK
<1>6. \A o \in DOMAIN working : working[o] \in Orders /\ working[o].id = o
  BY <1>1 DEF ExecutionTypeOK
<1>7. \A s \in DOMAIN lastMarks : lastMarks[s] \in MarketEvents
  BY DEF StateTypeOK, TypeOK
<1>8. QED
  BY <1>1, <1>2, <1>3, <1>4, <1>5, <1>6, <1>7

(* What follows when the first event is taken and out is published.        *)
TakesHead(out) ==
    /\ queue # <<>> /\ out \in Seq(Events) /\ queue' = Tail(queue) \o out
    /\ UNCHANGED <<bars, at, phase, curve, report, openAtEnd>>

LEMMA Rest ==
  ASSUME queue \in Seq(Events), NEW out, TakesHead(out)
  PROVE  /\ queue' \in Seq(Events)
         /\ Len(queue) \in Nat /\ 1 \in 1..Len(queue)
         /\ Head(queue) = queue[1] /\ queue[1] \in Events
         /\ \A k \in 1..Len(queue') :
               \/ k + 1 \in 2..Len(queue) /\ queue'[k] = queue[k + 1]
               \/ k + 1 - Len(queue) \in 1..Len(out) /\ queue'[k] = out[k + 1 - Len(queue)]
         /\ \A j \in 2..Len(queue) : j - 1 \in 1..Len(queue') /\ queue'[j - 1] = queue[j]
         /\ \A m \in 1..Len(out) :
               /\ m + (Len(queue) - 1) \in 1..Len(queue')
               /\ queue'[m + (Len(queue) - 1)] = out[m]
<1> DEFINE rest == Tail(queue)
<1>1. queue # <<>> /\ out \in Seq(Events) /\ queue' = rest \o out
  BY DEF TakesHead
<1>2. /\ rest \in Seq(Events) /\ Len(rest) = Len(queue) - 1 /\ Len(queue) \in Nat
      /\ Len(queue) >= 1 /\ \A k \in 1..Len(rest) : rest[k] = queue[k + 1]
      /\ Head(queue) = queue[1] /\ queue[1] \in Events
  BY <1>1
<1> HIDE DEF rest
<1>3. /\ queue' \in Seq(Events) /\ Len(queue') = Len(rest) + Len(out) /\ Len(out) \in Nat
      /\ \A k \in 1..Len(queue') :
            queue'[k] = IF k <= Len(rest) THEN rest[k] ELSE out[k - Len(rest)]
  BY <1>1, <1>2, Concat
<1>4. ASSUME NEW k \in 1..Len(queue')
      PROVE  \/ k + 1 \in 2..Len(queue) /\ queue'[k] = queue[k + 1]
             \/ k + 1 - Len(queue) \in 1..Len(out) /\ queue'[k] = out[k + 1 - Len(queue)]
  <2>1. CASE k <= Len(rest)
    <3>1. k \in 1..Len(rest) /\ k + 1 \in 2..Len(queue)
      BY <1>2, <2>1
    <3>2. QED
      BY <1>2, <1>3, <2>1, <3>1
  <2>2. CASE ~(k <= Len(rest))
    <3>1. k - Len(rest) \in 1..Len(out) /\ k - Len(rest) = k + 1 - Len(queue)
      BY <1>2, <1>3, <2>2
    <3>2. queue'[k] = out[k - Len(rest)]
      BY <1>3, <2>2
    <3>3. QED
      BY <3>1, <3>2
  <2>3. QED
    BY <2>1, <2>2
<1>5. ASSUME NEW j \in 2..Len(queue)
      PROVE  j - 1 \in 1..Len(queue') /\ queue'[j - 1] = queue[j]
  <2>1. j - 1 \in 1..Len(rest) /\ j - 1 \in 1..Len(queue') /\ (j - 1) + 1 = j
    BY <1>2, <1>3
  <2>2. QED
    BY <1>2, <1>3, <2>1
<1>6. ASSUME NEW m \in 1..Len(out)
      PROVE  /\ m + (Len(queue) - 1) \in 1..Len(queue')
             /\ queue'[m + (Len(queue) - 1)] = out[m]
  <2> DEFINE k == m + (Len(queue) - 1)
  <2>1. k \in 1..Len(queue') /\ ~(k <= Len(rest)) /\ k - Len(rest) = m
    BY <1>2, <1>3
  <2> HIDE DEF k
  <2>2. queue'[k] = IF k <= Len(rest) THEN rest[k] ELSE out[k - Len(rest)]
    BY <1>3, <2>1
  <2>3. k \in 1..Len(queue') /\ queue'[k] = out[m]
    BY <2>1, <2>2
  <2>4. QED
    BY <2>3 DEF k
<1>7. 1 \in 1..Len(queue)
  BY <1>2
<1>8. queue' \in Seq(Events) /\ Len(queue) \in Nat /\ Head(queue) = queue[1] /\ queue[1] \in Events
  BY <1>2, <1>3
<1>9. QED
  BY <1>4, <1>5, <1>6, <1>7, <1>8, Zenon

LEMMA OnceStays ==
  ASSUME queue \in Seq(Events), NEW out, TakesHead(out), OnlyOnce,
         \A m, n \in 1..Len(out) : SameNews(out[m], out[n]) => m = n,
         \A j \in 2..Len(queue), m \in 1..Len(out) : ~SameNews(queue[j], out[m])
  PROVE  OnlyOnce'
<1>1. SUFFICES ASSUME NEW k \in 1..Len(queue'), NEW l \in 1..Len(queue'),
                      SameNews(queue'[k], queue'[l])
               PROVE  k = l
  BY DEF OnlyOnce
<1>2. SameNews(queue'[l], queue'[k])
  BY <1>1 DEF SameNews
<1>3. queue' \in Seq(Events) /\ Len(queue) \in Nat /\ k \in Int /\ l \in Int
  BY Rest
<1>4. CASE k + 1 \in 2..Len(queue) /\ queue'[k] = queue[k + 1]
  <2>1. CASE l + 1 \in 2..Len(queue) /\ queue'[l] = queue[l + 1]
    <3>1. k + 1 = l + 1
      BY <1>1, <1>3, <1>4, <2>1 DEF OnlyOnce
    <3>2. QED
      BY <1>3, <3>1
  <2>2. CASE l + 1 - Len(queue) \in 1..Len(out) /\ queue'[l] = out[l + 1 - Len(queue)]
    BY <1>1, <1>4, <2>2
  <2>3. QED
    BY <2>1, <2>2, Rest
<1>5. CASE k + 1 - Len(queue) \in 1..Len(out) /\ queue'[k] = out[k + 1 - Len(queue)]
  <2>1. CASE l + 1 \in 2..Len(queue) /\ queue'[l] = queue[l + 1]
    BY <1>2, <1>5, <2>1
  <2>2. CASE l + 1 - Len(queue) \in 1..Len(out) /\ queue'[l] = out[l + 1 - Len(queue)]
    <3>1. k + 1 - Len(queue) = l + 1 - Len(queue)
      BY <1>1, <1>5, <2>2
    <3>2. QED
      BY <1>3, <3>1
  <2>3. QED
    BY <2>1, <2>2, Rest
<1>6. QED
  BY <1>4, <1>5, Rest

(* The caller has gone no further.                                         *)
LEMMA TakenInStep ==
  ASSUME InStep, NEW out, TakesHead(out), UNCHANGED clock
  PROVE  InStep'
<1>1. UNCHANGED <<bars, at, phase, clock>> /\ queue # <<>>
  BY DEF TakesHead
<1>2. phase' \notin {"Called", "Refused", "Bar", "Done"}
  BY <1>1 DEF InStep
<1>3. QED
  BY <1>1, <1>2 DEF InStep

(* What is said of every event stays true of those that stay.              *)
LEMMA TakenAhead ==
  ASSUME StateTypeOK, Ahead, NEW out, TakesHead(out), UNCHANGED clock,
         \A o \in DOMAIN working' : working'[o].decided <= working'[o].created,
         NoLookAhead',
         \A m \in 1..Len(out) : /\ out[m].type \in {"Signal", "Order"}
                                /\ out[m].type = "Signal" => out[m].decided <= clock
  PROVE  Ahead'
<1>1. ASSUME NEW k \in 1..Len(queue')
      PROVE  /\ queue'[k].type = "MarketData" => queue'[k].time <= clock
             /\ queue'[k].type = "Signal" => queue'[k].decided <= clock
             /\ queue'[k].type = "Fill" => queue'[k].time > queue'[k].decided
  <2>1. queue \in Seq(Events) /\ Len(queue) \in Nat
    BY Types
  <2>2. CASE k + 1 \in 2..Len(queue) /\ queue'[k] = queue[k + 1]
    <3>1. k + 1 \in 1..Len(queue)
      BY <2>1, <2>2
    <3>2. QED
      BY <2>2, <3>1 DEF Ahead
  <2>3. CASE k + 1 - Len(queue) \in 1..Len(out) /\ queue'[k] = out[k + 1 - Len(queue)]
    BY <2>3
  <2>4. QED
    BY <2>1, <2>2, <2>3, Rest
<1>2. QED
  BY <1>1 DEF Ahead

-----------------------------------------------------------------------------
(* A bar, which changes no book and publishes signals.                     *)

booksVars == <<executionVars, holds, openOrders, closed, lastSequence, appliedFills>>

(* Events that are neither new orders nor fills come and go.               *)
LEMMA BooksUntouched ==
  ASSUME StateTypeOK, SaidOfBooks, UNCHANGED booksVars, NEW out, TakesHead(out),
         ~IsNew(queue[1]), ~IsFill(queue[1]),
         \A m \in 1..Len(out) : ~IsNew(out[m]) /\ ~IsFill(out[m])
  PROVE  SaidOfBooks'
<1>1. /\ UNCHANGED <<working, issued, fillsIssued, fillCounts, holds, openOrders, closed>>
      /\ UNCHANGED <<lastSequence, appliedFills>>
  BY DEF booksVars, executionVars
<1>2. queue \in Seq(Events) /\ Len(queue) \in Nat /\ Len(queue') \in Nat
  BY Types, Rest
<1>3. GivenOut'
  BY <1>1 DEF SaidOfBooks, GivenOut, Remaining
<1>4. \A j \in 1..Len(queue) : IsNew(queue[j]) \/ IsFill(queue[j]) =>
         \E k \in 1..Len(queue') : queue'[k] = queue[j]
  <2> SUFFICES ASSUME NEW j \in 1..Len(queue), IsNew(queue[j]) \/ IsFill(queue[j])
               PROVE  \E k \in 1..Len(queue') : queue'[k] = queue[j]
    OBVIOUS
  <2>1. j \in 2..Len(queue)
    BY <1>2
  <2>2. QED
    BY <1>2, <2>1, Rest
<1>5. \A k \in 1..Len(queue') : IsNew(queue'[k]) \/ IsFill(queue'[k]) =>
         \E j \in 1..Len(queue) : queue'[k] = queue[j]
  <2> SUFFICES ASSUME NEW k \in 1..Len(queue'), IsNew(queue'[k]) \/ IsFill(queue'[k])
               PROVE  \E j \in 1..Len(queue) : queue'[k] = queue[j]
    OBVIOUS
  <2>1. k + 1 \in 2..Len(queue) /\ queue'[k] = queue[k + 1]
    BY <1>2, Rest
  <2>2. k + 1 \in 1..Len(queue)
    BY <1>2, <2>1
  <2>3. QED
    BY <2>1, <2>2
<1>6. HoldsOwed'
  BY <1>1, <1>4 DEF SaidOfBooks, HoldsOwed
<1>7. QueueOwes'
  <2>1. OwedEvents \subseteq OwedEvents'
    BY <1>1 DEF OwedEvents, OrderQueued, FillQueuedNext, Left, ExpectedSequence, FillCount
  <2>2. ASSUME NEW k \in 1..Len(queue')
        PROVE  queue'[k] \in OwedEvents'
    <3>1. CASE IsNew(queue'[k]) \/ IsFill(queue'[k])
      BY <1>5, <2>1, <3>1 DEF SaidOfBooks, QueueOwes
    <3>2. CASE ~IsNew(queue'[k]) /\ ~IsFill(queue'[k])
      BY <1>2, <3>2, Rest DEF OwedEvents
    <3>3. QED
      BY <3>1, <3>2
  <2>3. QED
    BY <2>2 DEF QueueOwes
<1>8. OnlyOnce'
  BY <1>2, OnceStays DEF SaidOfBooks, SameNews
<1>9. BooksMatch'
  <2>1. \A o : (FillQueued(o) => FillQueued(o)') /\ (OpeningQueued(o) => OpeningQueued(o)')
    BY <1>4 DEF FillQueued, OpeningQueued
  <2>2. \A o \in DOMAIN working : AgreedOn(o) => AgreedOn(o)'
    BY <1>1 DEF AgreedOn, ExpectedSequence, FillCount
  <2>3. QED
    BY <1>1, <2>1, <2>2 DEF SaidOfBooks, BooksMatch
<1>10. QED
  BY <1>3, <1>6, <1>7, <1>8, <1>9 DEF SaidOfBooks

(* The types that an event leaves alone.                                   *)
LEMMA TakenTyped ==
  ASSUME StateTypeOK, NEW out, TakesHead(out), UNCHANGED clock, AccountTypeOK',
         holds' \in [DOMAIN holds' -> Holds], emitted' \in 0..MaxSignals,
         fills' \in Seq(Fills), DOMAIN lastMarks' \subseteq Symbols,
         \A s \in DOMAIN lastMarks' : lastMarks'[s] \in MarketEvents
  PROVE  StateTypeOK'
<1>1. queue' \in Seq(Events)
  BY Types, Rest
<1>2. UNCHANGED <<bars, at, phase, curve, report, openAtEnd, clock>>
  BY DEF TakesHead
<1>3. QED
  BY <1>1, <1>2 DEF StateTypeOK, TypeOK, AccountTypeOK

LEMMA IdeasMayBe ==
  ASSUME StateTypeOK,
         NEW ideas \in BoundedSeq(Ideas, Min({MaxEmitted, MaxSignals - emitted}))
  PROVE  /\ ideas \in Seq(Ideas) /\ Len(ideas) \in Nat
         /\ emitted + Len(ideas) \in 0..MaxSignals
<1>1. /\ emitted \in 0..MaxSignals /\ MaxSignals \in Nat /\ MaxEmitted \in Nat
      /\ emitted \in Nat
  BY Types DEF StateTypeOK, TypeOK
<1>2. /\ Min({MaxEmitted, MaxSignals - emitted}) \in {MaxEmitted, MaxSignals - emitted}
      /\ Min({MaxEmitted, MaxSignals - emitted}) <= MaxSignals - emitted
  <2>1. \A a, b \in Int : Min({a, b}) \in {a, b} /\ Min({a, b}) <= b
    BY DEF Min
  <2>2. MaxEmitted \in Int /\ MaxSignals - emitted \in Int
    BY <1>1
  <2>3. QED
    BY <2>1, <2>2
<1>3. PICK m \in 0..Min({MaxEmitted, MaxSignals - emitted}) : ideas \in [1..m -> Ideas]
  BY DEF BoundedSeq, SeqOf
<1>4. m \in Nat /\ m <= MaxSignals - emitted
  BY <1>1, <1>2
<1>5. QED
  BY <1>1, <1>3, <1>4

LEMMA SignalsSay ==
  ASSUME StateTypeOK, NEW market \in MarketEvents, NEW ideas \in Seq(Ideas),
         NEW out, out = SignalsFrom(ideas, market)
  PROVE  /\ out \in Seq(Events)
         /\ \A m \in 1..Len(out) : out[m].type = "Signal" /\ out[m].decided = market.time
<1>1. \A n \in 1..Len(ideas) : ideas[n] \in Ideas /\ emitted + n \in Nat
  BY Types
<1>2. \A n \in 1..Len(ideas) :
         /\ SignalFrom(ideas[n], emitted + n, market) \in Signals
         /\ SignalFrom(ideas[n], emitted + n, market).type = "Signal"
         /\ SignalFrom(ideas[n], emitted + n, market).decided = market.time
  BY <1>1, SignalSays, BacktestAssumption DEF IsIdea
<1>3. out = [n \in 1..Len(ideas) |-> SignalFrom(ideas[n], emitted + n, market)]
  BY DEF SignalsFrom
<1>4. out \in Seq(Signals) /\ Len(out) = Len(ideas)
  BY <1>2, <1>3
<1>5. out \in Seq(Events)
  BY <1>4 DEF Events
<1>6. QED
  BY <1>2, <1>3, <1>4, <1>5

LEMMA BarKeeps ==
  ASSUME StepsInv, DeliverBar, UNCHANGED <<bars, at, phase, resultVars>>
  PROVE  StepsInv'
<1>1. PICK ideas \in BoundedSeq(Ideas, Min({MaxEmitted, MaxSignals - emitted})) :
         /\ HandleMarketData(Head(queue), ideas)
         /\ queue' = Tail(queue) \o SignalsFrom(ideas, Head(queue))
  BY DEF DeliverBar
<1>2. /\ StateTypeOK /\ queue \in Seq(Events) /\ queue # <<>> /\ Head(queue) = queue[1]
      /\ 1 \in 1..Len(queue) /\ queue[1] \in Events /\ queue[1].type = "MarketData"
  <2>1. StateTypeOK /\ queue \in Seq(Events) /\ queue # <<>> /\ Head(queue).type = "MarketData"
    BY Types DEF StepsInv, DeliverBar
  <2>2. Head(queue) = queue[1] /\ 1 \in 1..Len(queue) /\ queue[1] \in Events
    BY <2>1
  <2>3. QED
    BY <2>1, <2>2
<1>3. queue[1] \in MarketEvents
  BY <1>2, EventKinds
<1> DEFINE market == queue[1]
           out == SignalsFrom(ideas, market)
<1>4. /\ ideas \in Seq(Ideas) /\ Len(ideas) \in Nat /\ emitted + Len(ideas) \in 0..MaxSignals
  BY <1>2, IdeasMayBe
<1>5. /\ out \in Seq(Events)
      /\ \A m \in 1..Len(out) : out[m].type = "Signal" /\ out[m].decided = market.time
  BY <1>2, <1>3, <1>4, SignalsSay
<1>6. HandleMarketData(market, ideas) /\ queue' = Tail(queue) \o out
  BY <1>1, <1>2
<1> HIDE DEF out
<1>7. TakesHead(out)
  BY <1>2, <1>5, <1>6 DEF TakesHead, resultVars
<1>8. /\ UNCHANGED <<executionVars, fills, cash, position, holds, openOrders, closed, lastSequence>>
      /\ UNCHANGED <<appliedFills, clock>> /\ emitted' = emitted + Len(ideas)
      /\ lastMarks' = Put(lastMarks, market.symbol, market)
  BY <1>6 DEF DeliverBar, HandleMarketData, Mark
<1>9. AccountTypeOK'
  <2>1. ExecutionTypeOK'
    BY <1>2, <1>8, Types DEF ExecutionTypeOK, executionVars
  <2>2. QED
    BY <1>2, <1>3, <1>6, <2>1, Types, MarketHandledTyped
<1>10. StateTypeOK'
  <2>1. /\ DOMAIN lastMarks' \subseteq Symbols
        /\ \A s \in DOMAIN lastMarks' : lastMarks'[s] \in MarketEvents
    BY <1>2, <1>3, <1>8 DEF StateTypeOK, TypeOK, Put, MarketEvents
  <2>2. holds' \in [DOMAIN holds' -> Holds] /\ fills' \in Seq(Fills)
    BY <1>2, <1>8 DEF StateTypeOK, TypeOK
  <2>3. emitted' \in 0..MaxSignals /\ UNCHANGED clock
    BY <1>4, <1>8
  <2>4. QED
    BY <1>2, <1>7, <1>9, <2>1, <2>2, <2>3, TakenTyped
<1>11. InStep'
  BY <1>7, <1>8, TakenInStep DEF StepsInv
<1>12. Ahead'
  <2>1. market.time <= clock
    BY <1>2 DEF StepsInv, Ahead
  <2>2. /\ \A o \in DOMAIN working' : working'[o].decided <= working'[o].created
        /\ NoLookAhead'
    BY <1>8 DEF StepsInv, Ahead, NoLookAhead, executionVars
  <2>3. QED
    BY <1>2, <1>5, <1>7, <1>8, <2>1, <2>2, TakenAhead DEF StepsInv
<1>13. SaidOfBooks'
  <2>1. /\ ~IsNew(queue[1]) /\ ~IsFill(queue[1])
        /\ \A m \in 1..Len(out) : ~IsNew(out[m]) /\ ~IsFill(out[m])
    BY <1>2, <1>5 DEF IsNew, IsFill
  <2>2. UNCHANGED booksVars
    BY <1>8 DEF booksVars
  <2>3. QED
    BY <1>2, <1>7, <2>1, <2>2, BooksUntouched DEF StepsInv
<1>14. QED
  BY <1>10, <1>11, <1>12, <1>13 DEF StepsInv

-----------------------------------------------------------------------------
(* A signal, whose order is new to the portfolio.                          *)

LEMMA NewOrderBooks ==
  ASSUME StateTypeOK, SaidOfBooks, NEW e \in Signals, NEW signal, NEW order, NEW out,
         TakesHead(out), queue[1].type = "Signal",
         Approved(e, signal, order, out), UNCHANGED <<fillsIssued, fillCounts>>
  PROVE  SaidOfBooks'
<1>1. /\ queue \in Seq(Events) /\ Len(queue) \in Nat /\ ExecutionTypeOK /\ Len(issued) \in Nat
      /\ DOMAIN working \subseteq 1..Len(issued)
  BY Types DEF ExecutionTypeOK
<1>2. /\ out = <<order>> /\ order \in Orders /\ order.type = "Order"
      /\ order.id = Len(issued) + 1 /\ order.signal = e.id /\ order.filled = 0
      /\ order.quantity = signal.quantity
      /\ order.status \in {"Working", "Rejected"} /\ (order.status = "Rejected" <=> Refused(signal))
      /\ DOMAIN working' = DOMAIN working \cup {x \in {order.id} : order.status = "Working"}
      /\ \A x \in DOMAIN working : x # order.id => working'[x] = working[x]
      /\ order.status = "Working" => working'[order.id] = order
      /\ signal \in Signals /\ signal.id = e.id /\ HoldForSignal(signal)
      /\ issued' = Append(issued, e.id)
  BY DEF Approved
<1>3. /\ UNCHANGED <<openOrders, closed, lastSequence, appliedFills, fillsIssued, fillCounts>>
      /\ DOMAIN holds' = DOMAIN holds \cup {order.signal}
  <2>1. UNCHANGED <<openOrders, closed, lastSequence, appliedFills>>
    BY <1>2 DEF HoldForSignal
  <2>2. holds' = IF signal.id \in DOMAIN holds THEN holds ELSE Put(holds, signal.id, HoldFor(signal))
    BY <1>2 DEF HoldForSignal
  <2>3. DOMAIN holds' = DOMAIN holds \cup {signal.id}
    <3>1. CASE signal.id \in DOMAIN holds
      <4>1. holds' = holds
        BY <2>2, <3>1
      <4>2. QED
        BY <3>1, <4>1
    <3>2. CASE signal.id \notin DOMAIN holds
      <4>1. holds' = Put(holds, signal.id, HoldFor(signal))
        BY <2>2, <3>2
      <4>2. QED
        BY <4>1 DEF Put
    <3>3. QED
      BY <3>1, <3>2
  <2>4. QED
    BY <1>2, <2>1, <2>3
<1>4. Len(issued') = Len(issued) + 1
  BY <1>2 DEF ExecutionTypeOK
<1>5. Len(out) = 1 /\ out[1] = order /\ IsNew(order) /\ ~IsFill(order)
  BY <1>2 DEF IsNew, IsFill
<1>6. order.id \notin 1..Len(issued) /\ order.id \in 1..Len(issued') /\ 1..Len(issued) \subseteq 1..Len(issued')
  BY <1>1, <1>2, <1>4
<1>7. ~IsNew(queue[1]) /\ ~IsFill(queue[1])
  BY DEF IsNew, IsFill
<1>8. \A j \in 1..Len(queue) : IsNew(queue[j]) \/ IsFill(queue[j]) =>
         j \in 2..Len(queue) /\ \E k \in 1..Len(queue') : queue'[k] = queue[j]
  <2> SUFFICES ASSUME NEW j \in 1..Len(queue), IsNew(queue[j]) \/ IsFill(queue[j])
               PROVE  j \in 2..Len(queue) /\ \E k \in 1..Len(queue') : queue'[k] = queue[j]
    OBVIOUS
  <2>1. j \in 2..Len(queue)
    BY <1>1, <1>7
  <2>2. QED
    BY <1>1, <2>1, Rest
<1>9. \A k \in 1..Len(queue') :
         (\E j \in 2..Len(queue) : queue'[k] = queue[j]) \/ queue'[k] = order
  <2> SUFFICES ASSUME NEW k \in 1..Len(queue')
               PROVE  (\E j \in 2..Len(queue) : queue'[k] = queue[j]) \/ queue'[k] = order
    OBVIOUS
  <2>1. CASE k + 1 - Len(queue) \in 1..Len(out) /\ queue'[k] = out[k + 1 - Len(queue)]
    <3>1. k + 1 - Len(queue) = 1
      BY <1>5, <2>1
    <3>2. QED
      BY <1>5, <2>1, <3>1
  <2>2. QED
    BY <1>1, <2>1, Rest
<1>10. \E k \in 1..Len(queue') : queue'[k] = order
  <2>1. 1 \in 1..Len(out)
    BY <1>5
  <2>2. QED
    BY <1>1, <1>5, <2>1, Rest
<1>11. GivenOut'
  <2>1. \A o \in DOMAIN working' : Remaining(working'[o]) > 0
    <3>1. order.status = "Working" => Remaining(order) > 0
      <4>1. signal.quantity \in Nat /\ Remaining(order) = signal.quantity - 0
        BY <1>2 DEF Remaining, Signals
      <4>2. order.status = "Working" => signal.quantity # 0
        BY <1>2 DEF Refused
      <4>3. QED
        BY <4>1, <4>2
    <3>2. ASSUME NEW o \in DOMAIN working' PROVE Remaining(working'[o]) > 0
      <4>1. CASE o = order.id
        BY <1>1, <1>2, <1>6, <3>1, <4>1
      <4>2. CASE o # order.id
        <5>1. o \in DOMAIN working /\ working'[o] = working[o]
          BY <1>2, <4>2
        <5>2. Remaining(working[o]) > 0
          BY <5>1 DEF SaidOfBooks, GivenOut
        <5>3. QED
          BY <5>1, <5>2
      <4>3. QED
        BY <4>1, <4>2
    <3>3. QED
      BY <3>2
  <2>2. \A o \in closed \cup DOMAIN openOrders : o # order.id
    BY <1>6 DEF SaidOfBooks, GivenOut
  <2>3. closed' \cap (DOMAIN working' \cup DOMAIN openOrders') = {}
    BY <1>2, <1>3, <2>2 DEF SaidOfBooks, GivenOut
  <2>4. DOMAIN openOrders' \cup closed' \cup DOMAIN lastSequence' \subseteq 1..Len(issued')
    BY <1>3, <1>6 DEF SaidOfBooks, GivenOut
  <2>5. QED
    BY <1>3, <2>1, <2>3, <2>4 DEF SaidOfBooks, GivenOut
<1>12. HoldsOwed'
  <2>1. ASSUME NEW s \in DOMAIN holds'
        PROVE  \E k \in 1..Len(queue') : IsNew(queue'[k]) /\ queue'[k].signal = s
    <3>1. CASE s = order.signal
      BY <1>5, <1>10, <3>1
    <3>2. CASE s \in DOMAIN holds
      <4>1. PICK j \in 1..Len(queue) : IsNew(queue[j]) /\ queue[j].signal = s
        BY <3>2 DEF SaidOfBooks, HoldsOwed
      <4>2. QED
        BY <1>8, <4>1
    <3>3. QED
      BY <1>3, <2>1, <3>1, <3>2
  <2>2. QED
    BY <2>1 DEF HoldsOwed
<1>13. \A j \in 2..Len(queue) : queue[j] \in OwedEvents
  <2>1. \A j \in 2..Len(queue) : j \in 1..Len(queue)
    BY <1>1
  <2>2. QED
    BY <2>1 DEF SaidOfBooks, QueueOwes
<1>14. \A d \in OwedEvents :
          /\ IsNew(d) => d.id # order.id
          /\ IsFill(d) => d.order # order.id
  BY <1>6 DEF OwedEvents, OrderQueued, FillQueuedNext, SaidOfBooks, GivenOut
<1>15. QueueOwes'
  <2>1. order \in OwedEvents'
    <3>1. order.id \notin DOMAIN openOrders \cup closed \cup DOMAIN lastSequence
      BY <1>6 DEF SaidOfBooks, GivenOut
    <3>2. order.id \notin DOMAIN working /\ FillCount(order.id) = 0
      BY <1>1, <1>6 DEF ExecutionTypeOK, FillCount
    <3>3. FillCount(order.id)' = 0
      BY <1>2, <1>3, <3>2 DEF FillCount
    <3>4. OrderQueued(order)'
      BY <1>2, <1>3, <1>6, <3>1, <3>2, <3>3 DEF OrderQueued
    <3>5. order \in Events
      BY <1>2 DEF Events
    <3>6. QED
      BY <1>5, <3>4, <3>5 DEF OwedEvents
  <2>2. ASSUME NEW d \in OwedEvents
        PROVE  d \in OwedEvents'
    <3>1. ASSUME IsNew(d) PROVE OrderQueued(d)'
      <4>1. OrderQueued(d) /\ d.id # order.id
        BY <1>14, <3>1 DEF OwedEvents
      <4>2. /\ d.id \in 1..Len(issued)' /\ d.id \notin (DOMAIN openOrders \cup closed \cup DOMAIN lastSequence)'
            /\ d.id \in DOMAIN working' <=> d.id \in DOMAIN working
            /\ d.id \in DOMAIN working => working'[d.id] = working[d.id]
            /\ FillCount(d.id)' = FillCount(d.id)
        BY <1>2, <1>3, <1>6, <4>1 DEF OrderQueued, FillCount
      <4>3. QED
        BY <4>1, <4>2 DEF OrderQueued
    <3>2. ASSUME IsFill(d) PROVE FillQueuedNext(d)'
      <4>1. FillQueuedNext(d) /\ d.order # order.id
        BY <1>14, <3>2 DEF OwedEvents
      <4>2. /\ d.order \in DOMAIN working' <=> d.order \in DOMAIN working
            /\ d.order \in DOMAIN working => working'[d.order] = working[d.order]
            /\ Left(d.order)' = Left(d.order)
        BY <1>2, <4>1 DEF Left
      <4>3. QED
        BY <1>3, <4>1, <4>2 DEF FillQueuedNext, ExpectedSequence, FillCount
    <3>3. QED
      BY <3>1, <3>2 DEF OwedEvents
  <2>3. \A k \in 1..Len(queue') : queue'[k] \in OwedEvents'
    BY <1>9, <1>13, <2>1, <2>2
  <2>4. QED
    BY <2>3 DEF QueueOwes
<1>16. OnlyOnce'
  <2>1. \A j \in 2..Len(queue), m \in 1..Len(out) : ~SameNews(queue[j], out[m])
    BY <1>5, <1>13, <1>14 DEF SameNews
  <2>2. \A m, n \in 1..Len(out) : m = n
    BY <1>5
  <2>3. QED
    BY <1>1, <2>1, <2>2, OnceStays DEF SaidOfBooks
<1>17. BooksMatch'
  <2>1. \A o : (FillQueued(o) => FillQueued(o)') /\ (OpeningQueued(o) => OpeningQueued(o)')
    BY <1>8 DEF FillQueued, OpeningQueued
  <2>2. ASSUME NEW o \in DOMAIN working'
        PROVE  (OpeningQueued(o) \/ FillQueued(o) \/ AgreedOn(o))'
    <3>1. CASE o = order.id
      BY <1>2, <1>5, <1>6, <1>10, <1>1, <2>2, <3>1 DEF OpeningQueued
    <3>2. CASE o # order.id
      <4>1. o \in DOMAIN working /\ working'[o] = working[o]
        BY <1>2, <2>2, <3>2
      <4>2. AgreedOn(o) => AgreedOn(o)'
        BY <1>3, <4>1 DEF AgreedOn, ExpectedSequence, FillCount
      <4>3. QED
        BY <2>1, <4>1, <4>2 DEF SaidOfBooks, BooksMatch
    <3>3. QED
      BY <3>1, <3>2
  <2>3. ASSUME NEW o \in DOMAIN openOrders'
        PROVE  o \in DOMAIN working' \/ FillQueued(o)'
    BY <1>2, <1>3, <2>1, <2>3 DEF SaidOfBooks, BooksMatch
  <2>4. QED
    BY <2>2, <2>3 DEF BooksMatch
<1>18. QED
  BY <1>11, <1>12, <1>15, <1>16, <1>17 DEF SaidOfBooks

LEMMA SignalKeeps ==
  ASSUME StepsInv, DeliverSignal, UNCHANGED <<bars, at, phase, resultVars>>
  PROVE  StepsInv'
<1>1. /\ StateTypeOK /\ queue \in Seq(Events) /\ queue # <<>> /\ Head(queue) = queue[1]
      /\ 1 \in 1..Len(queue) /\ queue[1] \in Events /\ queue[1].type = "Signal"
  <2>1. StateTypeOK /\ queue \in Seq(Events) /\ queue # <<>> /\ Head(queue).type = "Signal"
    BY Types DEF StepsInv, DeliverSignal
  <2>2. Head(queue) = queue[1] /\ 1 \in 1..Len(queue) /\ queue[1] \in Events
    BY <2>1
  <2>3. QED
    BY <2>1, <2>2
<1> DEFINE e == queue[1]
           out == OrdersFor(e)
<1>2. /\ e \in Signals /\ HandleSignal(e) /\ queue' = Tail(queue) \o out
      /\ ExecutionTypeOK /\ clock \in Nat /\ AccountTypeOK /\ fills' = fills
  BY <1>1, EventKinds, Types DEF DeliverSignal
<1>3. out = OrdersFor(e)
  OBVIOUS
<1> HIDE DEF out
<1>4. /\ UNCHANGED <<riskVars, pipelineVars, fillsIssued, fillCounts>>
      /\ \/ out = <<>> /\ out \in Seq(Events) /\ UNCHANGED <<portfolioVars, executionVars>>
         \/ \E signal, order : Approved(e, signal, order, out)
  BY <1>2, <1>3, SignalChecked
<1>5. TakesHead(out)
  BY <1>1, <1>2, <1>4 DEF TakesHead, resultVars, Approved
<1>6. AccountTypeOK'
  BY <1>2, SignalTyped
<1>7. StateTypeOK'
  <2>1. holds' \in [DOMAIN holds' -> Holds]
    <3>1. CASE UNCHANGED portfolioVars
      BY <1>1, <3>1 DEF portfolioVars, StateTypeOK
    <3>2. CASE \E signal : HoldForSignal(signal)
      <4>1. PICK signal : HoldForSignal(signal)
        BY <3>2
      <4>2. holds' = IF signal.id \in DOMAIN holds THEN holds
                     ELSE Put(holds, signal.id, HoldFor(signal))
        BY <4>1 DEF HoldForSignal
      <4>3. \A s \in DOMAIN holds' : holds'[s] \in Holds
        BY <1>6 DEF AccountTypeOK, PortfolioTypeOK
      <4>4. CASE holds' = holds
        BY <1>1, <4>4 DEF StateTypeOK
      <4>5. CASE holds' = Put(holds, signal.id, HoldFor(signal))
        <5>1. holds' = [s \in DOMAIN holds' |-> holds'[s]]
          BY <4>5 DEF Put
        <5>2. QED
          BY <4>3, <5>1
      <4>6. QED
        BY <4>2, <4>4, <4>5
    <3>3. QED
      BY <1>4, <3>1, <3>2 DEF Approved
  <2>2. UNCHANGED <<clock, lastMarks, emitted, fills>>
    BY <1>2, <1>4 DEF pipelineVars
  <2>3. QED
    BY <1>1, <1>5, <1>6, <2>1, <2>2, TakenTyped DEF StateTypeOK, TypeOK
<1>8. UNCHANGED <<clock, fills>>
  BY <1>2, <1>4 DEF pipelineVars
<1>9. InStep'
  BY <1>5, <1>8, TakenInStep DEF StepsInv
<1>10. Ahead'
  <2>1. e.decided <= clock
    BY <1>1 DEF StepsInv, Ahead
  <2>2. NoLookAhead'
    BY <1>8 DEF StepsInv, Ahead, NoLookAhead
  <2>3. CASE out = <<>> /\ UNCHANGED executionVars
    <3>1. Len(out) = 0 /\ UNCHANGED working
      BY <2>3 DEF executionVars
    <3>2. QED
      BY <1>1, <1>5, <1>8, <2>2, <3>1, TakenAhead DEF StepsInv, Ahead
  <2>4. CASE \E signal, order : Approved(e, signal, order, out)
    <3>1. PICK signal, order : Approved(e, signal, order, out)
      BY <2>4
    <3>2. /\ out = <<order>> /\ order.type = "Order" /\ order.created = clock
          /\ order.decided = e.decided
          /\ DOMAIN working' = DOMAIN working \cup {x \in {order.id} : order.status = "Working"}
          /\ \A x \in DOMAIN working : x # order.id => working'[x] = working[x]
          /\ order.status = "Working" => working'[order.id] = order
      BY <3>1 DEF Approved
    <3>3. ASSUME NEW o \in DOMAIN working'
          PROVE  working'[o].decided <= working'[o].created
      <4>1. CASE o = order.id /\ order.status = "Working"
        BY <2>1, <3>2, <4>1
      <4>2. CASE o \in DOMAIN working /\ o # order.id
        BY <3>2, <4>2 DEF StepsInv, Ahead
      <4>3. order.id \notin DOMAIN working
        BY <1>2, <3>1 DEF Approved, ExecutionTypeOK
      <4>4. QED
        BY <3>2, <4>1, <4>2, <4>3
    <3>4. \A m \in 1..Len(out) : out[m].type = "Order"
      BY <3>2
    <3>5. QED
      BY <1>1, <1>5, <1>8, <2>2, <3>3, <3>4, TakenAhead DEF StepsInv
  <2>5. QED
    BY <1>4, <2>3, <2>4
<1>11. SaidOfBooks'
  <2>1. CASE out = <<>> /\ UNCHANGED <<portfolioVars, executionVars>>
    <3>1. Len(out) = 0 /\ UNCHANGED booksVars /\ ~IsNew(queue[1]) /\ ~IsFill(queue[1])
      BY <1>1, <2>1 DEF portfolioVars, booksVars, IsNew, IsFill
    <3>2. QED
      BY <1>1, <1>5, <3>1, BooksUntouched DEF StepsInv
  <2>2. CASE \E signal, order : Approved(e, signal, order, out)
    BY <1>1, <1>2, <1>4, <1>5, <2>2, NewOrderBooks DEF StepsInv
  <2>3. QED
    BY <1>4, <2>1, <2>2
<1>12. QED
  BY <1>7, <1>9, <1>10, <1>11 DEF StepsInv

-----------------------------------------------------------------------------
(* The order, which the portfolio opens, or drops if it was refused.       *)

LEMMA OrderTaken ==
  ASSUME StateTypeOK, SaidOfBooks, NEW e \in Orders, IsNew(e), OrderQueued(e),
         ApplyOrderUpdate(e), UNCHANGED executionVars
  PROVE  /\ DOMAIN openOrders' = DOMAIN openOrders \cup {o \in {e.id} : e.status = "Working"}
         /\ \A o \in DOMAIN openOrders : openOrders'[o] = openOrders[o]
         /\ closed' = closed \cup {o \in {e.id} : e.status = "Rejected"}
         /\ holds' = Drop(holds, e.signal)
         /\ e.status = "Working" => e.id \in DOMAIN working /\ AgreedOn(e.id)'
         /\ e.status = "Rejected" => e.id \notin DOMAIN working
<1>1. UNCHANGED <<working, issued, fillsIssued, fillCounts, lastSequence>>
  BY DEF executionVars, ApplyOrderUpdate
<1>2. /\ e.id \in 1..Len(issued) /\ e.status \in {"Working", "Rejected"}
      /\ e.id \notin DOMAIN openOrders \cup closed \cup DOMAIN lastSequence
  BY DEF OrderQueued, IsNew
<1>3. CASE e.status = "Working"
  <2>1. /\ e.id \in DOMAIN working /\ Remaining(e) = Remaining(working[e.id])
        /\ FillCount(e.id) = 0 /\ Remaining(working[e.id]) > 0
    BY <1>3 DEF OrderQueued, SaidOfBooks, GivenOut
  <2>2. e.quantity \in Nat /\ e.filled \in Nat /\ e.quantity > e.filled
    BY <2>1 DEF Remaining, Orders
  <2>3. Opens(e)
    BY <1>2, <1>3, <2>2 DEF Opens
  <2>4. OpenOrder(e)
    BY <1>3, <2>3 DEF ApplyOrderUpdate, ReleaseOrder, IgnoreOrder
  <2>5. openOrders' = Put(openOrders, e.id, Pending(e)) /\ closed' = closed
    BY <2>4 DEF OpenOrder
  <2>6. /\ DOMAIN openOrders' = DOMAIN openOrders \cup {e.id}
        /\ openOrders'[e.id] = Pending(e)
        /\ \A o \in DOMAIN openOrders : openOrders'[o] = openOrders[o]
    BY <1>2, <2>5 DEF Put
  <2>7. openOrders'[e.id].remaining = Remaining(working[e.id])
    BY <2>1, <2>6 DEF Pending, Remaining
  <2>8. ExpectedSequence(e.id)' = FillCount(e.id)' + 1
    BY <1>1, <1>2, <2>1 DEF ExpectedSequence, FillCount
  <2>9. AgreedOn(e.id)'
    BY <1>1, <2>6, <2>7, <2>8 DEF AgreedOn
  <2>10. holds' = Drop(holds, e.signal)
    BY <2>4 DEF OpenOrder
  <2>11. QED
    BY <1>3, <2>1, <2>5, <2>6, <2>9, <2>10
<1>4. CASE e.status = "Rejected"
  <2>1. ReleaseOrder(e) /\ e.id \notin DOMAIN working
    BY <1>4 DEF ApplyOrderUpdate, OpenOrder, Opens, IgnoreOrder, OrderQueued
  <2>2. /\ openOrders' = Drop(openOrders, e.id) /\ closed' = closed \cup {e.id}
        /\ holds' = Drop(holds, e.signal)
    BY <2>1 DEF ReleaseOrder
  <2>3. /\ DOMAIN openOrders' = DOMAIN openOrders
        /\ \A o \in DOMAIN openOrders : openOrders'[o] = openOrders[o]
    BY <1>2, <2>2 DEF Drop
  <2>4. QED
    BY <1>4, <2>1, <2>2, <2>3
<1>5. QED
  BY <1>2, <1>3, <1>4

LEMMA OrderBooks ==
  ASSUME StateTypeOK, SaidOfBooks, NEW e \in Orders, e = queue[1], e.type = "Order",
         TakesHead(<<>>), ApplyOrderUpdate(e), UNCHANGED executionVars
  PROVE  SaidOfBooks'
<1>1. /\ queue \in Seq(Events) /\ Len(queue) \in Nat /\ 1 \in 1..Len(queue)
      /\ Len(<<>>) = 0
  BY Types, Rest
<1>2. /\ UNCHANGED <<working, issued, fillsIssued, fillCounts, lastSequence, appliedFills>>
  BY DEF executionVars, ApplyOrderUpdate
<1>3. \A j \in 1..Len(queue) : j # 1 =>
         j \in 2..Len(queue) /\ \E k \in 1..Len(queue') : queue'[k] = queue[j]
  <2> SUFFICES ASSUME NEW j \in 1..Len(queue), j # 1
               PROVE  j \in 2..Len(queue) /\ \E k \in 1..Len(queue') : queue'[k] = queue[j]
    OBVIOUS
  <2>1. j \in 2..Len(queue)
    BY <1>1
  <2>2. QED
    BY <1>1, <2>1, Rest
<1>4. \A k \in 1..Len(queue') : \E j \in 1..Len(queue) : j # 1 /\ queue'[k] = queue[j]
  <2> SUFFICES ASSUME NEW k \in 1..Len(queue')
               PROVE  \E j \in 1..Len(queue) : j # 1 /\ queue'[k] = queue[j]
    OBVIOUS
  <2>1. k + 1 \in 2..Len(queue) /\ queue'[k] = queue[k + 1]
    BY <1>1, Rest
  <2>2. k + 1 \in 1..Len(queue) /\ k + 1 # 1
    BY <1>1, <2>1
  <2>3. QED
    BY <2>1, <2>2
<1>5. CASE ~IsNew(e)
  <2>1. UNCHANGED <<openOrders, holds, closed>>
    BY <1>5 DEF ApplyOrderUpdate, OpenOrder, Opens, ReleaseOrder, IgnoreOrder, IsNew
  <2>2. UNCHANGED booksVars
    BY <1>2, <2>1 DEF booksVars, executionVars
  <2>3. ~IsNew(queue[1]) /\ ~IsFill(queue[1])
    BY <1>5 DEF IsFill
  <2>4. QED
    BY <1>1, <2>2, <2>3, BooksUntouched
<1>6. CASE IsNew(e)
  <2>1. OrderQueued(e) /\ e.status \in {"Working", "Rejected"}
    BY <1>1, <1>6 DEF SaidOfBooks, QueueOwes, OwedEvents, IsNew
  <2>2. /\ e.id \in 1..Len(issued)
        /\ e.id \notin DOMAIN openOrders \cup closed \cup DOMAIN lastSequence
    BY <2>1 DEF OrderQueued
  <2>3. /\ DOMAIN openOrders' = DOMAIN openOrders \cup {o \in {e.id} : e.status = "Working"}
        /\ \A o \in DOMAIN openOrders : openOrders'[o] = openOrders[o]
        /\ closed' = closed \cup {o \in {e.id} : e.status = "Rejected"}
        /\ DOMAIN holds' = DOMAIN holds \ {e.signal}
        /\ e.status = "Working" => e.id \in DOMAIN working /\ AgreedOn(e.id)'
        /\ e.status = "Rejected" => e.id \notin DOMAIN working
    <3>1. holds' = Drop(holds, e.signal)
      BY <1>6, <2>1, OrderTaken
    <3>2. DOMAIN holds' = DOMAIN holds \ {e.signal}
      BY <3>1 DEF Drop
    <3>3. QED
      BY <1>6, <2>1, <3>2, OrderTaken
  <2>4. GivenOut'
    BY <1>2, <2>1, <2>2, <2>3 DEF SaidOfBooks, GivenOut
  <2>5. HoldsOwed'
    <3>1. ASSUME NEW s \in DOMAIN holds'
          PROVE  \E k \in 1..Len(queue') : IsNew(queue'[k]) /\ queue'[k].signal = s
      <4>1. PICK j \in 1..Len(queue) : IsNew(queue[j]) /\ queue[j].signal = s
        BY <2>3, <3>1 DEF SaidOfBooks, HoldsOwed
      <4>2. j # 1
        BY <2>3, <3>1, <4>1
      <4>3. QED
        BY <1>3, <4>1, <4>2
    <3>2. QED
      BY <3>1 DEF HoldsOwed
  <2>6. ASSUME NEW j \in 1..Len(queue), j # 1
        PROVE  queue[j] \in OwedEvents'
    <3>1. PICK d : d = queue[j]
      OBVIOUS
    <3>2. d \in OwedEvents /\ ~SameNews(e, d)
      BY <1>1, <2>6, <3>1 DEF SaidOfBooks, QueueOwes, OnlyOnce
    <3>3. ASSUME IsNew(d) PROVE OrderQueued(d)'
      <4>1. OrderQueued(d) /\ d.id # e.id
        BY <1>6, <3>2, <3>3 DEF OwedEvents, SameNews
      <4>2. d.id \notin DOMAIN openOrders' \cup closed' \cup DOMAIN lastSequence'
        BY <1>2, <2>3, <4>1 DEF OrderQueued
      <4>3. QED
        BY <1>2, <4>1, <4>2 DEF OrderQueued, FillCount
    <3>4. ASSUME IsFill(d) PROVE FillQueuedNext(d)'
      <4>1. FillQueuedNext(d)
        BY <3>2, <3>4 DEF OwedEvents
      <4>2. d.order \in DOMAIN openOrders' /\ openOrders'[d.order] = openOrders[d.order]
        BY <2>3, <4>1 DEF FillQueuedNext
      <4>3. QED
        BY <1>2, <4>1, <4>2 DEF FillQueuedNext, Left, ExpectedSequence, FillCount
    <3>5. QED
      BY <3>1, <3>2, <3>3, <3>4 DEF OwedEvents
  <2>7. QueueOwes'
    BY <1>4, <2>6 DEF QueueOwes
  <2>8. OnlyOnce'
    BY <1>1, OnceStays DEF SaidOfBooks
  <2>9. BooksMatch'
    <3>1. \A o : FillQueued(o) => FillQueued(o)'
      BY <1>1, <1>3, <1>6 DEF FillQueued, IsNew, IsFill
    <3>2. \A o : (OpeningQueued(o) /\ ~(o = e.id /\ e.status = "Working")) => OpeningQueued(o)'
      BY <1>1, <1>3 DEF OpeningQueued
    <3>3. \A o \in DOMAIN working : AgreedOn(o) => AgreedOn(o)'
      BY <1>2, <2>3 DEF AgreedOn, ExpectedSequence, FillCount
    <3>4. ASSUME NEW o \in DOMAIN working'
          PROVE  (OpeningQueued(o) \/ FillQueued(o) \/ AgreedOn(o))'
      <4>1. CASE o = e.id /\ e.status = "Working"
        BY <2>3, <4>1
      <4>2. CASE ~(o = e.id /\ e.status = "Working")
        BY <1>2, <3>1, <3>2, <3>3, <3>4, <4>2 DEF SaidOfBooks, BooksMatch
      <4>3. QED
        BY <4>1, <4>2
    <3>5. \A o \in DOMAIN openOrders' : o \in DOMAIN working' \/ FillQueued(o)'
      BY <1>2, <2>3, <3>1 DEF SaidOfBooks, BooksMatch
    <3>6. QED
      BY <3>4, <3>5 DEF BooksMatch
  <2>10. QED
    BY <2>4, <2>5, <2>7, <2>8, <2>9 DEF SaidOfBooks
<1>7. QED
  BY <1>5, <1>6

LEMMA OrderKeeps ==
  ASSUME StepsInv, DeliverOrder, UNCHANGED <<bars, at, phase, resultVars>>
  PROVE  StepsInv'
<1>1. /\ StateTypeOK /\ queue \in Seq(Events) /\ queue # <<>> /\ Head(queue) = queue[1]
      /\ 1 \in 1..Len(queue) /\ queue[1] \in Events /\ queue[1].type = "Order"
  <2>1. StateTypeOK /\ queue \in Seq(Events) /\ queue # <<>> /\ Head(queue).type = "Order"
    BY Types DEF StepsInv, DeliverOrder
  <2>2. Head(queue) = queue[1] /\ 1 \in 1..Len(queue) /\ queue[1] \in Events
    BY <2>1
  <2>3. QED
    BY <2>1, <2>2
<1> DEFINE e == queue[1]
<1>2. /\ e \in Orders /\ HandleOrder(e) /\ queue' = Tail(queue)
      /\ AccountTypeOK /\ fills' = fills
  BY <1>1, EventKinds, Types DEF DeliverOrder
<1>3. TakesHead(<<>>)
  <2>1. Tail(queue) \o <<>> = Tail(queue) /\ <<>> \in Seq(Events)
    BY <1>1
  <2>2. QED
    BY <1>1, <1>2, <2>1 DEF TakesHead, resultVars
<1>4. UNCHANGED <<executionVars, clock, lastMarks, emitted>> /\ ApplyOrderUpdate(e)
  BY <1>2 DEF HandleOrder, pipelineVars
<1>5. AccountTypeOK'
  BY <1>2, OrderTyped
<1>6. StateTypeOK'
  <2>1. holds' \in [DOMAIN holds' -> Holds]
    <3>1. CASE holds' = holds
      BY <1>1, <3>1 DEF StateTypeOK
    <3>2. CASE holds' = Drop(holds, e.signal)
      <4>1. \A s \in DOMAIN holds' : holds'[s] \in Holds
        BY <1>5 DEF AccountTypeOK, PortfolioTypeOK
      <4>2. holds' = [s \in DOMAIN holds' |-> holds'[s]]
        BY <3>2 DEF Drop
      <4>3. QED
        BY <4>1, <4>2
    <3>3. QED
      BY <1>4, <3>1, <3>2 DEF ApplyOrderUpdate, OpenOrder, ReleaseOrder, IgnoreOrder
  <2>2. QED
    BY <1>1, <1>2, <1>3, <1>4, <1>5, <2>1, TakenTyped DEF StateTypeOK, TypeOK
<1>7. InStep'
  BY <1>3, <1>4, TakenInStep DEF StepsInv
<1>8. Ahead'
  <2>1. /\ \A o \in DOMAIN working' : working'[o].decided <= working'[o].created
        /\ NoLookAhead' /\ Len(<<>>) = 0
    BY <1>2, <1>4 DEF StepsInv, Ahead, NoLookAhead, executionVars
  <2>2. QED
    BY <1>1, <1>3, <1>4, <2>1, TakenAhead DEF StepsInv
<1>9. SaidOfBooks'
  BY <1>1, <1>2, <1>3, <1>4, OrderBooks DEF StepsInv
<1>10. QED
  BY <1>6, <1>7, <1>8, <1>9 DEF StepsInv

-----------------------------------------------------------------------------
(* The fill, which is always the one that the portfolio awaits.            *)

LEMMA FillTaken ==
  ASSUME StateTypeOK, SaidOfBooks, NEW e \in Fills, FillQueuedNext(e), HandleFill(e)
  PROVE  /\ ApplyFill(e, MarkAfter(e))
         /\ DOMAIN openOrders' = DOMAIN openOrders \ {o \in {e.order} : e.status = "Filled"}
         /\ \A o \in DOMAIN openOrders' : o # e.order => openOrders'[o] = openOrders[o]
         /\ closed' = closed \cup {o \in {e.order} : e.status = "Filled"}
         /\ DOMAIN lastSequence' \subseteq DOMAIN lastSequence \cup {e.order}
         /\ \A o : o # e.order => ExpectedSequence(o)' = ExpectedSequence(o)
         /\ appliedFills' = appliedFills \cup {e.id} /\ holds' = holds
         /\ e.order \in DOMAIN working => AgreedOn(e.order)'
<1>1. /\ e.order \in DOMAIN openOrders /\ Shares(e) > 0
      /\ openOrders[e.order].remaining = Shares(e) + Left(e.order)
      /\ e.status = "Filled" <=> e.order \notin DOMAIN working
      /\ e.id \notin appliedFills /\ e.sequence = ExpectedSequence(e.order)
      /\ e.order \in DOMAIN working => FillCount(e.order) = e.sequence
  BY DEF FillQueuedNext
<1>2. Applies(e)
  BY <1>1 DEF SaidOfBooks, GivenOut, Applies
<1>3. ApplyFill(e, MarkAfter(e)) /\ UNCHANGED executionVars
  BY <1>2 DEF HandleFill
<1>4. UNCHANGED <<working, fillCounts, holds>>
  BY <1>3 DEF executionVars, ApplyFill
<1>5. /\ ReleaseForFill(e) /\ appliedFills' = appliedFills \cup {e.id}
      /\ lastSequence' = IF e.status = "Filled" THEN Drop(lastSequence, e.order)
                         ELSE Put(lastSequence, e.order, e.sequence)
  BY <1>3 DEF ApplyFill
<1>6. Shares(e) \in Nat /\ AccountTypeOK
  BY SharesOfFill, Types
<1>7. e.order \in DOMAIN working => Left(e.order) = Remaining(working[e.order]) /\ Left(e.order) > 0
                                    /\ Left(e.order) \in Int
  BY Types DEF Left, SaidOfBooks, GivenOut, Remaining, Orders
<1>8. EndsOrder(e) <=> e.status = "Filled"
  <2>1. CASE e.status = "Filled"
    BY <2>1 DEF EndsOrder
  <2>2. CASE e.status # "Filled"
    <3>1. ~(Shares(e) >= openOrders[e.order].remaining)
      BY <1>1, <1>6, <1>7, <2>2
    <3>2. QED
      BY <2>2, <3>1 DEF EndsOrder
  <2>3. QED
    BY <2>1, <2>2
<1>9. /\ DOMAIN openOrders' = DOMAIN openOrders \ {o \in {e.order} : e.status = "Filled"}
      /\ \A o \in DOMAIN openOrders' : o # e.order => openOrders'[o] = openOrders[o]
      /\ e.order \in DOMAIN openOrders' =>
            openOrders'[e.order].remaining = openOrders[e.order].remaining - Shares(e)
  BY <1>5, <1>6, <1>8, ReleaseLeaves
<1>10. closed' = closed \cup {o \in {e.order} : e.status = "Filled"}
  BY <1>5, <1>8 DEF ReleaseForFill
<1>11. /\ DOMAIN lastSequence' = IF e.status = "Filled" THEN DOMAIN lastSequence \ {e.order}
                                 ELSE DOMAIN lastSequence \cup {e.order}
       /\ \A o \in DOMAIN lastSequence : o # e.order => lastSequence'[o] = lastSequence[o]
       /\ e.status # "Filled" => lastSequence'[e.order] = e.sequence
  BY <1>5 DEF Put, Drop
<1>12. \A o : o # e.order => ExpectedSequence(o)' = ExpectedSequence(o)
  BY <1>11 DEF ExpectedSequence
<1>13. ASSUME e.order \in DOMAIN working PROVE AgreedOn(e.order)'
  <2>1. e.status # "Filled" /\ e.order \in DOMAIN openOrders'
    BY <1>1, <1>9, <1>13
  <2>2. openOrders'[e.order].remaining = Remaining(working[e.order])
    BY <1>1, <1>6, <1>7, <1>9, <1>13, <2>1
  <2>3. ExpectedSequence(e.order)' = e.sequence + 1
    BY <1>11, <2>1 DEF ExpectedSequence
  <2>4. ExpectedSequence(e.order)' = FillCount(e.order)' + 1
    BY <1>1, <1>4, <1>13, <2>3 DEF FillCount
  <2>5. QED
    BY <1>4, <2>1, <2>2, <2>4 DEF AgreedOn
<1>14. DOMAIN lastSequence' \subseteq DOMAIN lastSequence \cup {e.order}
  BY <1>11
<1>15. QED
  BY <1>3, <1>4, <1>5, <1>9, <1>10, <1>12, <1>13, <1>14

LEMMA FillBooks ==
  ASSUME StateTypeOK, SaidOfBooks, NEW e \in Fills, e = queue[1], e.type = "Fill",
         TakesHead(<<>>), HandleFill(e)
  PROVE  SaidOfBooks'
<1>1. /\ queue \in Seq(Events) /\ Len(queue) \in Nat /\ 1 \in 1..Len(queue)
      /\ Len(<<>>) = 0 /\ IsFill(e) /\ ~IsNew(e)
  BY Types, Rest DEF IsFill, IsNew
<1>2. \A j \in 1..Len(queue) : j # 1 =>
         j \in 2..Len(queue) /\ \E k \in 1..Len(queue') : queue'[k] = queue[j]
  <2> SUFFICES ASSUME NEW j \in 1..Len(queue), j # 1
               PROVE  j \in 2..Len(queue) /\ \E k \in 1..Len(queue') : queue'[k] = queue[j]
    OBVIOUS
  <2>1. j \in 2..Len(queue)
    BY <1>1
  <2>2. QED
    BY <1>1, <2>1, Rest
<1>3. \A k \in 1..Len(queue') : \E j \in 1..Len(queue) : j # 1 /\ queue'[k] = queue[j]
  <2> SUFFICES ASSUME NEW k \in 1..Len(queue')
               PROVE  \E j \in 1..Len(queue) : j # 1 /\ queue'[k] = queue[j]
    OBVIOUS
  <2>1. k + 1 \in 2..Len(queue) /\ queue'[k] = queue[k + 1]
    BY <1>1, Rest
  <2>2. k + 1 \in 1..Len(queue) /\ k + 1 # 1
    BY <1>1, <2>1
  <2>3. QED
    BY <2>1, <2>2
<1>4. FillQueuedNext(e)
  BY <1>1 DEF SaidOfBooks, QueueOwes, OwedEvents
<1>5. /\ DOMAIN openOrders' = DOMAIN openOrders \ {o \in {e.order} : e.status = "Filled"}
      /\ \A o \in DOMAIN openOrders' : o # e.order => openOrders'[o] = openOrders[o]
      /\ closed' = closed \cup {o \in {e.order} : e.status = "Filled"}
      /\ DOMAIN lastSequence' \subseteq DOMAIN lastSequence \cup {e.order}
      /\ \A o : o # e.order => ExpectedSequence(o)' = ExpectedSequence(o)
      /\ appliedFills' = appliedFills \cup {e.id} /\ holds' = holds
      /\ e.order \in DOMAIN working => AgreedOn(e.order)'
  BY <1>4, FillTaken
<1>6. UNCHANGED <<working, issued, fillsIssued, fillCounts>>
  BY DEF HandleFill, executionVars
<1>7. /\ e.order \in DOMAIN openOrders /\ e.id \in 1..fillsIssued
      /\ e.status = "Filled" <=> e.order \notin DOMAIN working
  BY <1>4 DEF FillQueuedNext
<1>8. GivenOut'
  BY <1>5, <1>6, <1>7 DEF SaidOfBooks, GivenOut
<1>9. HoldsOwed'
  <2>1. ASSUME NEW s \in DOMAIN holds
        PROVE  \E k \in 1..Len(queue') : IsNew(queue'[k]) /\ queue'[k].signal = s
    <3>1. PICK j \in 1..Len(queue) : IsNew(queue[j]) /\ queue[j].signal = s
      BY DEF SaidOfBooks, HoldsOwed
    <3>2. QED
      BY <1>1, <1>2, <3>1
  <2>2. QED
    BY <1>5, <2>1 DEF HoldsOwed
<1>10. ASSUME NEW j \in 1..Len(queue), j # 1
       PROVE  queue[j] \in OwedEvents'
  <2>1. PICK d : d = queue[j]
    OBVIOUS
  <2>2. d \in OwedEvents /\ ~SameNews(e, d)
    BY <1>1, <1>10, <2>1 DEF SaidOfBooks, QueueOwes, OnlyOnce
  <2>3. ASSUME IsNew(d) PROVE OrderQueued(d)'
    <3>1. OrderQueued(d)
      BY <2>2, <2>3 DEF OwedEvents
    <3>2. d.id \notin DOMAIN openOrders' \cup closed' \cup DOMAIN lastSequence'
      BY <1>5, <1>7, <3>1 DEF OrderQueued
    <3>3. QED
      BY <1>6, <3>1, <3>2 DEF OrderQueued, FillCount
  <2>4. ASSUME IsFill(d) PROVE FillQueuedNext(d)'
    <3>1. FillQueuedNext(d) /\ d.order # e.order /\ d.id # e.id
      BY <1>1, <2>2, <2>4 DEF OwedEvents, SameNews
    <3>2. /\ d.order \in DOMAIN openOrders' /\ openOrders'[d.order] = openOrders[d.order]
          /\ ExpectedSequence(d.order)' = ExpectedSequence(d.order)
      BY <1>5, <3>1 DEF FillQueuedNext
    <3>3. QED
      BY <1>5, <1>6, <3>1, <3>2 DEF FillQueuedNext, Left, FillCount
  <2>5. QED
    BY <2>1, <2>2, <2>3, <2>4 DEF OwedEvents
<1>11. QueueOwes'
  BY <1>3, <1>10 DEF QueueOwes
<1>12. OnlyOnce'
  BY <1>1, OnceStays DEF SaidOfBooks
<1>13. BooksMatch'
  <2>1. \A o : OpeningQueued(o) => OpeningQueued(o)'
    BY <1>1, <1>2 DEF OpeningQueued
  <2>2. \A o : (FillQueued(o) /\ o # e.order) => FillQueued(o)'
    BY <1>1, <1>2 DEF FillQueued
  <2>3. \A o \in DOMAIN working : (AgreedOn(o) /\ o # e.order) => AgreedOn(o)'
    BY <1>5, <1>6 DEF AgreedOn, FillCount
  <2>4. ASSUME NEW o \in DOMAIN working'
        PROVE  (OpeningQueued(o) \/ FillQueued(o) \/ AgreedOn(o))'
    <3>1. CASE o = e.order
      BY <1>5, <1>6, <2>4, <3>1
    <3>2. CASE o # e.order
      BY <1>6, <2>1, <2>2, <2>3, <2>4, <3>2 DEF SaidOfBooks, BooksMatch
    <3>3. QED
      BY <3>1, <3>2
  <2>5. ASSUME NEW o \in DOMAIN openOrders'
        PROVE  o \in DOMAIN working' \/ FillQueued(o)'
    BY <1>5, <1>6, <1>7, <2>2, <2>5 DEF SaidOfBooks, BooksMatch
  <2>6. QED
    BY <2>4, <2>5 DEF BooksMatch
<1>14. QED
  BY <1>8, <1>9, <1>11, <1>12, <1>13 DEF SaidOfBooks

LEMMA FillKeeps ==
  ASSUME StepsInv, DeliverFill, UNCHANGED <<bars, at, phase, resultVars>>
  PROVE  StepsInv'
<1>1. /\ StateTypeOK /\ queue \in Seq(Events) /\ queue # <<>> /\ Head(queue) = queue[1]
      /\ 1 \in 1..Len(queue) /\ queue[1] \in Events /\ queue[1].type = "Fill"
  <2>1. StateTypeOK /\ queue \in Seq(Events) /\ queue # <<>> /\ Head(queue).type = "Fill"
    BY Types DEF StepsInv, DeliverFill
  <2>2. Head(queue) = queue[1] /\ 1 \in 1..Len(queue) /\ queue[1] \in Events
    BY <2>1
  <2>3. QED
    BY <2>1, <2>2
<1> DEFINE e == queue[1]
<1>2. /\ e \in Fills /\ HandleFill(e) /\ queue' = Tail(queue)
      /\ AccountTypeOK /\ fills' = Append(fills, e)
      /\ \A s \in DOMAIN lastMarks : lastMarks[s] \in MarketEvents
  BY <1>1, EventKinds, Types DEF DeliverFill
<1>3. TakesHead(<<>>)
  <2>1. Tail(queue) \o <<>> = Tail(queue) /\ <<>> \in Seq(Events)
    BY <1>1
  <2>2. QED
    BY <1>1, <1>2, <2>1 DEF TakesHead, resultVars
<1>4. UNCHANGED <<executionVars, clock, lastMarks, emitted, holds>>
  BY <1>2 DEF HandleFill, pipelineVars, ApplyFill, portfolioVars
<1>5. AccountTypeOK'
  BY <1>2, FillHandledTyped
<1>6. StateTypeOK'
  <2>1. holds' \in [DOMAIN holds' -> Holds]
    BY <1>1, <1>4 DEF StateTypeOK
  <2>2. fills' \in Seq(Fills)
    BY <1>1, <1>2 DEF StateTypeOK, TypeOK
  <2>3. QED
    BY <1>1, <1>3, <1>4, <1>5, <2>1, <2>2, TakenTyped DEF StateTypeOK, TypeOK
<1>7. InStep'
  BY <1>3, <1>4, TakenInStep DEF StepsInv
<1>8. Ahead'
  <2>1. e.time > e.decided /\ fills \in Seq(Fills)
    BY <1>1 DEF StepsInv, Ahead, StateTypeOK, TypeOK
  <2>2. /\ Len(fills') = Len(fills) + 1 /\ fills'[Len(fills) + 1] = e
        /\ \A i \in 1..Len(fills) : fills'[i] = fills[i]
    BY <1>2, <2>1
  <2>3. NoLookAhead'
    BY <2>1, <2>2 DEF StepsInv, Ahead, NoLookAhead
  <2>4. /\ \A o \in DOMAIN working' : working'[o].decided <= working'[o].created
        /\ Len(<<>>) = 0
    BY <1>4 DEF StepsInv, Ahead, executionVars
  <2>5. QED
    BY <1>1, <1>3, <1>4, <2>3, <2>4, TakenAhead DEF StepsInv
<1>9. SaidOfBooks'
  BY <1>1, <1>2, <1>3, FillBooks DEF StepsInv
<1>10. QED
  BY <1>6, <1>7, <1>8, <1>9 DEF StepsInv

-----------------------------------------------------------------------------
(* The bars in their order.                                                *)

Earlier(given, i, j) ==
    given[i].time < given[j].time \/ (given[i].time = given[j].time /\ i < j)

InTheirPlaces(given, p) ==
    \A i, j \in 1..Len(given) : i < j => Earlier(given, p[i], p[j])

(* Numbers that are in the order of the bars.                              *)
KeyOf(given, i) == given[i].time * (Len(given) + 1) + i

LEMMA KeysOrder ==
  ASSUME NEW t \in Nat, NEW u \in Nat, NEW n \in Nat, NEW i \in 1..n, NEW j \in 1..n,
         t * (n + 1) + i <= u * (n + 1) + j
  PROVE  t < u \/ (t = u /\ i <= j)
<1>1. CASE t > u
  <2>1. t - u - 1 \in Nat /\ n + 1 \in Nat
    BY <1>1
  <2>2. (t - u - 1) * (n + 1) \in Nat
    BY <2>1
  <2>3. t * (n + 1) = (t - u - 1) * (n + 1) + u * (n + 1) + (n + 1)
    BY <2>1
  <2> DEFINE x == t * (n + 1)
             y == u * (n + 1)
             z == (t - u - 1) * (n + 1)
  <2>4. x \in Int /\ y \in Int /\ z \in Nat /\ x = z + y + (n + 1) /\ x + i <= y + j
    BY <2>1, <2>2, <2>3
  <2> HIDE DEF x, y, z
  <2>5. FALSE
    BY <2>4
  <2>6. QED
    BY <2>5
<1>2. CASE t = u
  <2> DEFINE x == t * (n + 1)
  <2>1. x \in Int /\ x + i <= x + j
    BY <1>2
  <2> HIDE DEF x
  <2>2. QED
    BY <1>2, <2>1
<1>3. QED
  BY <1>1, <1>2

LEMMA BarSays ==
  ASSUME NEW bar \in Bars
  PROVE  /\ bar.time \in 1..MaxTime /\ bar.time \in Nat /\ MaxTime \in Nat
         /\ bar.refused \in BOOLEAN
         /\ EventOf(bar) \in MarketEvents /\ EventOf(bar).type = "MarketData"
         /\ EventOf(bar).symbol = bar.symbol /\ EventOf(bar).time = bar.time
         /\ EventOf(bar).open = bar.open /\ EventOf(bar).price = bar.price
<1>1. MaxTime \in Nat
  BY BacktestAssumption
<1>2. /\ bar.time \in 1..MaxTime /\ bar.symbol \in Symbols /\ bar.open \in Nat
      /\ bar.price \in Nat /\ bar.refused \in BOOLEAN
  BY DEF Bars
<1>3. bar.time \in Nat
  BY <1>1, <1>2
<1>4. QED
  BY <1>1, <1>2, <1>3 DEF EventOf, MarketEvents

LEMMA PlacesExist ==
  ASSUME NEW given \in Seq(Bars)
  PROVE  \E p \in [1..Len(given) -> 1..Len(given)] : InTheirPlaces(given, p)
<1> DEFINE n == Len(given)
           key == [i \in 1..n |-> KeyOf(given, i)]
           S == {key[i] : i \in 1..n}
<1>1. n \in Nat /\ \A i \in 1..n : given[i].time \in Nat
  <2>1. \A i \in 1..n : given[i] \in Bars
    OBVIOUS
  <2>2. QED
    BY <2>1, BarSays
<1> HIDE DEF n
<1>2. \A i \in 1..n : key[i] \in Nat
  <2> SUFFICES ASSUME NEW i \in 1..n PROVE key[i] \in Nat
    OBVIOUS
  <2>1. given[i].time * (n + 1) \in Nat
    BY <1>1
  <2>2. key[i] = given[i].time * (n + 1) + i
    BY DEF KeyOf, n
  <2>3. QED
    BY <1>1, <2>1, <2>2
<1>3. ASSUME NEW i \in 1..n, NEW j \in 1..n, key[i] <= key[j]
      PROVE  Earlier(given, i, j) \/ i = j
  <2>1. given[i].time * (n + 1) + i <= given[j].time * (n + 1) + j
    BY <1>3 DEF KeyOf, n
  <2>2. given[i].time < given[j].time \/ (given[i].time = given[j].time /\ i <= j)
    BY <1>1, <2>1, KeysOrder
  <2>3. QED
    BY <1>1, <2>2 DEF Earlier
<1>4. IsFiniteSet(S) /\ Cardinality(S) = n
  <2>1. key \in Surjection(1..n, S)
    BY DEF Surjection
  <2>2. key \in Injection(1..n, S)
    <3>1. ASSUME NEW i \in 1..n, NEW j \in 1..n, key[i] = key[j]
          PROVE  i = j
      <4>1. key[i] <= key[j] /\ key[j] <= key[i]
        BY <1>2, <3>1
      <4>2. (Earlier(given, i, j) \/ i = j) /\ (Earlier(given, j, i) \/ i = j)
        BY <1>3, <4>1
      <4>3. QED
        BY <1>1, <4>2 DEF Earlier
    <3>2. DOMAIN key = 1..n /\ key \in [1..n -> S]
      OBVIOUS
    <3> HIDE DEF key, S
    <3>3. QED
      BY <3>1, <3>2 DEF Injection, IsInjective
  <2>3. IsFiniteSet(1..n) /\ Cardinality(1..n) = n
    <3>1. 1 - 1 <= n
      BY <1>1
    <3>2. QED
      BY <1>1, FS_Interval
  <2> HIDE DEF key, S
  <2>4. QED
    BY <2>1, <2>2, <2>3, FS_Surjection
<1>5. S \in SUBSET Nat
  BY <1>2
<1> DEFINE nth == [i \in 1..Cardinality(S) |-> CHOOSE x \in S : Cardinality({y \in S : y <= x}) = i]
<1>6. /\ \A i \in 1..n : nth[i] \in S
      /\ \A i, j \in 1..n : i < j => nth[i] < nth[j]
  <2> HIDE DEF S
  <2>1. nth = [i \in 1..Cardinality(S) |-> CHOOSE x \in S : Cardinality({y \in S : y <= x}) = i]
    OBVIOUS
  <2> HIDE DEF nth
  <2>2. /\ \A i \in 1..Cardinality(S) : nth[i] \in S
        /\ \A i, j \in 1..Cardinality(S) : i < j => nth[i] < nth[j]
    BY <1>4, <1>5, <2>1, InOrder
  <2>3. QED
    BY <1>4, <2>2
<1> HIDE DEF nth
<1> DEFINE p == [i \in 1..n |-> CHOOSE k \in 1..n : key[k] = nth[i]]
<1>7. \A i \in 1..n : p[i] \in 1..n /\ key[p[i]] = nth[i]
  BY <1>6
<1>9. p \in [1..n -> 1..n]
  <2>1. \A i \in 1..n : (CHOOSE k \in 1..n : key[k] = nth[i]) \in 1..n
    BY <1>7
  <2> HIDE DEF key
  <2>2. QED
    BY <2>1
<1> HIDE DEF p
<1>8. ASSUME NEW i \in 1..n, NEW j \in 1..n, i < j
      PROVE  Earlier(given, p[i], p[j])
  <2>1. p[i] \in 1..n /\ p[j] \in 1..n
    BY <1>7
  <2>2. key[p[i]] < key[p[j]] /\ key[p[i]] \in Nat /\ key[p[j]] \in Nat
    BY <1>2, <1>6, <1>7, <1>8
  <2> HIDE DEF key
  <2>3. key[p[i]] <= key[p[j]] /\ p[i] # p[j]
    BY <2>2
  <2>4. QED
    BY <1>3, <2>1, <2>3
<1>10. QED
  BY <1>8, <1>9 DEF InTheirPlaces, n

LEMMA SortedIs ==
  ASSUME NEW given \in Seq(Bars), NEW sorted, sorted = Sorted(given)
  PROVE  /\ sorted \in Seq(Bars) /\ Len(sorted) = Len(given)
         /\ \A i, j \in 1..Len(sorted) : i < j => sorted[i].time <= sorted[j].time
<1> DEFINE n == Len(given)
           p == CHOOSE p \in [1..n -> 1..n] : InTheirPlaces(given, p)
<1>1. p \in [1..n -> 1..n] /\ InTheirPlaces(given, p)
  BY PlacesExist, Zenon
<1>2. sorted = [k \in 1..n |-> given[p[k]]]
  BY Zenon DEF Sorted, InTheirPlaces, Earlier
<1> HIDE DEF p
<1>3. \A k \in 1..n : given[p[k]] \in Bars /\ p[k] \in 1..n
  BY <1>1
<1>4. sorted \in Seq(Bars) /\ Len(sorted) = n
  BY <1>2, <1>3
<1>5. ASSUME NEW i \in 1..n, NEW j \in 1..n, i < j
      PROVE  sorted[i].time <= sorted[j].time
  <2>1. given[p[i]].time \in Nat /\ given[p[j]].time \in Nat
    BY <1>3, BarSays
  <2>2. given[p[i]].time <= given[p[j]].time
    BY <1>1, <1>5, <2>1 DEF InTheirPlaces, Earlier
  <2>3. QED
    BY <1>2, <2>2
<1>6. QED
  BY <1>4, <1>5

-----------------------------------------------------------------------------
(* The caller, who acts when the bus is drained.                           *)

(* Nothing is queued before the step or after.                             *)
Quiet == queue = <<>> /\ queue' = <<>>

LEMMA QuietKeeps ==
  ASSUME StateTypeOK, Ahead, SaidOfBooks, Quiet, UNCHANGED <<booksVars, fills>>
  PROVE  Ahead' /\ SaidOfBooks'
<1>1. /\ UNCHANGED <<working, issued, fillsIssued, fillCounts, holds, openOrders, closed>>
      /\ UNCHANGED <<lastSequence, appliedFills, fills, queue>> /\ queue = <<>>
  BY DEF booksVars, executionVars, Quiet
<1>2. Len(queue) = 0
  BY <1>1
<1>3. Ahead'
  BY <1>1, <1>2 DEF Ahead, NoLookAhead
<1>4. GivenOut' /\ HoldsOwed' /\ OnlyOnce'
  BY <1>1 DEF SaidOfBooks, GivenOut, HoldsOwed, OnlyOnce, Remaining
<1>5. QueueOwes'
  BY <1>1, <1>2 DEF QueueOwes
<1>6. BooksMatch'
  BY <1>1 DEF SaidOfBooks, BooksMatch, OpeningQueued, FillQueued, AgreedOn, ExpectedSequence,
     FillCount
<1>7. QED
  BY <1>3, <1>4, <1>5, <1>6 DEF SaidOfBooks

LEMMA CallerKeeps ==
  ASSUME StepsInv, RefuseNoBars \/ Begin \/ EndBar \/ Finish
  PROVE  StepsInv'
<1>1. /\ UNCHANGED <<accountVars, lastMarks, emitted, queue, fills>> /\ StateTypeOK
      /\ openAtEnd' \in {openAtEnd, Cardinality(DOMAIN working)}
  BY DEF RefuseNoBars, Begin, EndBar, Finish, pipelineVars, resultVars, StepsInv
<1>2. Quiet
  BY <1>1 DEF Quiet, StepsInv, InStep, RefuseNoBars, Begin, EndBar, Finish, Drained
<1>3. UNCHANGED <<booksVars, fills>>
  BY <1>1 DEF accountVars, booksVars, portfolioVars
<1>4. Ahead' /\ SaidOfBooks'
  BY <1>2, <1>3, QuietKeeps DEF StepsInv
<1>5. TotalEquity \in Int /\ Cardinality(DOMAIN working) \in Nat
  <2>1. DOMAIN working \subseteq 1..Len(issued) /\ Len(issued) \in Nat
    BY <1>1, Types DEF ExecutionTypeOK
  <2>2. IsFiniteSet(1..Len(issued))
    BY <2>1, FS_Interval
  <2>3. IsFiniteSet(DOMAIN working)
    BY <2>1, <2>2, FS_Subset
  <2>4. QED
    BY <1>1, <2>3, Types, EquityInt, FS_CardinalityType
<1>6. /\ bars' \in Seq(Bars) /\ at' \in 1..(Len(bars') + 1) /\ clock' \in 0..MaxTime
      /\ curve' \in Seq(Int) /\ openAtEnd' \in Nat /\ phase' \in Phases
      /\ report' # None => phase' = "Done"
  <2>1. /\ bars \in Seq(Bars) /\ at \in 1..(Len(bars) + 1) /\ clock \in 0..MaxTime
        /\ curve \in Seq(Int) /\ openAtEnd \in Nat /\ (report # None => phase = "Done")
        /\ Len(bars) \in Nat
    BY <1>1 DEF StateTypeOK, TypeOK
  <2>2. CASE RefuseNoBars
    BY <2>1, <2>2 DEF RefuseNoBars, pipelineVars, resultVars, Phases
  <2>3. CASE Begin
    <3> DEFINE sorted == Sorted(bars)
    <3>1. sorted \in Seq(Bars) /\ Len(sorted) = Len(bars)
      BY <2>1, SortedIs
    <3>2. /\ bars' = sorted /\ clock' = sorted[1].time /\ curve' = <<TotalEquity>>
          /\ phase = "Called" /\ phase' = "Bar" /\ UNCHANGED <<at, report, openAtEnd>>
          /\ Len(bars) >= 1
      BY <2>1, <2>3 DEF Begin
    <3> HIDE DEF sorted
    <3>3. sorted[1] \in Bars
      BY <2>1, <3>1, <3>2
    <3>4. clock' \in 0..MaxTime
      BY <3>2, <3>3, BarSays
    <3>5. QED
      BY <1>5, <2>1, <3>1, <3>2, <3>4 DEF Phases
  <2>4. CASE EndBar
    <3>1. /\ UNCHANGED <<bars, clock, report, openAtEnd>> /\ at' = at + 1
          /\ phase = "Fed" /\ phase' = "Bar"
          /\ curve' = IF LastAtTime THEN Append(curve, TotalEquity) ELSE curve
      BY <2>4 DEF EndBar, pipelineVars
    <3>2. at <= Len(bars)
      BY <3>1 DEF StepsInv, InStep
    <3>3. curve' \in Seq(Int)
      BY <1>5, <2>1, <3>1
    <3>4. at' \in 1..(Len(bars) + 1)
      BY <2>1, <3>1, <3>2
    <3>5. QED
      BY <2>1, <3>1, <3>3, <3>4 DEF Phases
  <2>5. CASE Finish
    <3>1. /\ UNCHANGED <<bars, clock, curve, at>> /\ phase' = "Done"
      BY <2>5 DEF Finish, pipelineVars
    <3>2. openAtEnd' \in Nat
      BY <1>1, <1>5, <2>1
    <3>3. QED
      BY <2>1, <3>1, <3>2 DEF Phases
  <2>6. QED
    BY <2>2, <2>3, <2>4, <2>5
<1>7. StateTypeOK'
  <2>1. PortfolioTypeOK' /\ ExecutionTypeOK' /\ RiskTypeOK'
    BY <1>1 DEF accountVars, portfolioVars, executionVars, riskVars, StateTypeOK, TypeOK,
       PortfolioTypeOK, ExecutionTypeOK, RiskTypeOK
  <2>2. UNCHANGED <<holds, openOrders, appliedFills, queue, fills, emitted, lastMarks>>
    BY <1>1 DEF accountVars, portfolioVars
  <2>3. QED
    BY <1>1, <1>6, <2>1, <2>2 DEF StateTypeOK, TypeOK
<1>8. InStep'
  BY <1>2 DEF Quiet, InStep, RefuseNoBars, Begin, EndBar, Finish
<1>9. QED
  BY <1>4, <1>7, <1>8 DEF StepsInv

LEMMA FeedKeeps ==
  ASSUME StepsInv, FeedBar
  PROVE  StepsInv'
<1>1. /\ queue = <<>> /\ at <= Len(bars) /\ clock = bars[at].time /\ phase = "Executed"
      /\ StateTypeOK /\ at \in 1..(Len(bars) + 1) /\ bars \in Seq(Bars)
  BY DEF StepsInv, InStep, FeedBar, Drained, StateTypeOK, TypeOK
<1>2. bars[at] \in Bars
  BY <1>1
<1> DEFINE bar == EventOf(bars[at])
<1>3. bar \in MarketEvents /\ bar.type = "MarketData" /\ bar.time = clock
  BY <1>1, <1>2, BarSays
<1>4. /\ queue' = (IF bars[at].refused THEN queue ELSE Append(queue, bar)) /\ phase' = "Fed"
      /\ UNCHANGED <<accountVars, pipelineVars, bars, at, fills, resultVars>>
  BY DEF FeedBar
<1>5. UNCHANGED <<working, fillCounts, issued, fillsIssued, portfolioVars, riskVars>>
      /\ UNCHANGED <<clock, lastMarks, emitted, curve, report, openAtEnd>>
  BY <1>4 DEF accountVars, executionVars, pipelineVars, resultVars
<1>6. /\ UNCHANGED <<holds, openOrders, closed, lastSequence, appliedFills>>
      /\ UNCHANGED <<cash, position, marks, referencePrices, killSwitch, sessionDay, sessionStart>>
  BY <1>5 DEF portfolioVars, riskVars
<1> HIDE DEF bar
<1>7. queue' \in Seq(Events) /\ \A k \in 1..Len(queue') : queue'[k] = bar
  <2>1. CASE bars[at].refused
    BY <1>1, <1>4, <2>1
  <2>2. CASE ~bars[at].refused
    <3>1. queue' = <<bar>> /\ bar \in Events
      BY <1>1, <1>3, <1>4, <2>2 DEF Events
    <3>2. QED
      BY <3>1
  <2>3. QED
    BY <2>1, <2>2
<1>8. StateTypeOK'
  BY <1>1, <1>4, <1>5, <1>6, <1>7 DEF StateTypeOK, TypeOK, PortfolioTypeOK, ExecutionTypeOK,
     RiskTypeOK, Phases
<1>9. InStep'
  BY <1>1, <1>4, <1>5 DEF InStep
<1>10. Ahead'
  BY <1>1, <1>3, <1>4, <1>5, <1>7, Types DEF StepsInv, Ahead, NoLookAhead
<1>11. ~IsNew(bar) /\ ~IsFill(bar) /\ Len(queue) = 0
  BY <1>1, <1>3 DEF IsNew, IsFill
<1>12. SaidOfBooks'
  <2>1. GivenOut'
    BY <1>5, <1>6 DEF StepsInv, SaidOfBooks, GivenOut, Remaining
  <2>2. HoldsOwed'
    BY <1>6, <1>11 DEF StepsInv, SaidOfBooks, HoldsOwed
  <2>3. QueueOwes'
    BY <1>7, <1>11 DEF QueueOwes, OwedEvents
  <2>4. OnlyOnce'
    BY <1>7, <1>11 DEF OnlyOnce, SameNews
  <2>5. BooksMatch'
    BY <1>5, <1>6, <1>11 DEF StepsInv, SaidOfBooks, BooksMatch, OpeningQueued, FillQueued,
       AgreedOn, ExpectedSequence, FillCount
  <2>6. QED
    BY <2>1, <2>2, <2>3, <2>4, <2>5 DEF SaidOfBooks
<1>13. QED
  BY <1>8, <1>9, <1>10, <1>12 DEF StepsInv

-----------------------------------------------------------------------------
(* The execution of a bar, on books that agree.                            *)

LEMMA Settled ==
  ASSUME StepsInv, queue = <<>>
  PROVE  /\ DOMAIN holds = {} /\ holds = <<>> /\ DOMAIN openOrders = DOMAIN working
         /\ \A o \in DOMAIN working : AgreedOn(o)
<1>1. 1..Len(queue) = {}
  OBVIOUS
<1>2. DOMAIN holds = {}
  BY <1>1 DEF StepsInv, SaidOfBooks, HoldsOwed
<1>3. holds = <<>>
  <2>1. holds \in [DOMAIN holds -> Holds]
    BY DEF StepsInv, StateTypeOK
  <2>2. QED
    BY <1>2, <2>1
<1>4. \A o : ~FillQueued(o) /\ ~OpeningQueued(o)
  BY <1>1 DEF FillQueued, OpeningQueued
<1>5. QED
  BY <1>2, <1>3, <1>4 DEF StepsInv, SaidOfBooks, BooksMatch, AgreedOn

(* What is published: fills that are next, and orders that are not new.    *)
LEMMA NewsOwed ==
  ASSUME StepsInv, queue = <<>>, NEW market \in MarketEvents,
         NEW executed \in FillChoices(market), Execute(market, executed),
         UNCHANGED portfolioVars, NEW o \in Executes(market, executed), NEW e,
         IsNews(e, market, executed, o)
  PROVE  /\ e \in Events /\ ~IsNew(e)
         /\ IsFill(e) => /\ FillQueuedNext(e)' /\ e.order = o /\ e.time > e.decided
                         /\ e.time = market.time
         /\ e.type \notin {"MarketData", "Signal"}
<1>1. ExecutionTypeOK /\ AccountTypeOK
  BY Types DEF StepsInv
<1>2. Filling(market, executed, o)
  BY <1>1, Fillings
<1>3. /\ o \in DOMAIN working /\ working[o] \in Orders /\ working[o].created < market.time
      /\ executed[o] \in 1..Remaining(working[o]) /\ Remaining(working[o]) \in Int
      /\ executed[o] \in Nat /\ executed[o] > 0
  BY <1>2 DEF Filling, Remaining, Orders
<1>4. CASE e = Executed(working[o], executed[o])
  <2>1. /\ e \in Orders /\ e.type = "Order"
        /\ e.status = IF executed[o] >= Remaining(working[o]) THEN "Filled" ELSE "PartiallyFilled"
    BY <1>3, <1>4, ExecutedTyped
  <2>2. e.status \notin {"Working", "Rejected"}
    BY <2>1
  <2>3. QED
    BY <2>1, <2>2 DEF IsNew, IsFill, Events
<1>5. CASE IsFillOf(e, market, executed, o)
  <2>1. /\ e \in Fills /\ e.type = "Fill" /\ e.order = o /\ e.time = market.time
        /\ e.decided = working[o].decided /\ Shares(e) = executed[o]
        /\ (e.status = "Filled" <=> executed[o] >= Remaining(working[o]))
        /\ e.sequence = FillCount(o) + 1 /\ e.id > fillsIssued
        /\ e.id <= fillsIssued + Cardinality(Executes(market, executed))
    BY <1>1, <1>2, <1>5, FillSays
  <2>2. e.time > e.decided
    <3>1. working[o].decided <= working[o].created
      BY <1>3 DEF StepsInv, Ahead
    <3>2. market.time \in Nat /\ working[o].decided \in Nat /\ working[o].created \in Nat
      BY <1>3 DEF MarketEvents, Orders
    <3>3. QED
      BY <1>3, <2>1, <3>1, <3>2
  <2>3. /\ fillsIssued' = fillsIssued + Cardinality(Executes(market, executed))
        /\ o \in DOMAIN working' <=> executed[o] < Remaining(working[o])
        /\ o \in DOMAIN working' => working'[o] = Executed(working[o], executed[o])
        /\ o \in DOMAIN working' => FillCount(o)' = FillCount(o) + 1
    BY <1>1, <1>3, ExecuteLeaves
  <2>4. AgreedOn(o) /\ UNCHANGED <<openOrders, lastSequence, appliedFills>>
    BY <1>3, Settled DEF portfolioVars
  <2>5. Left(o)' = Remaining(working[o]) - executed[o]
    <3>1. CASE o \in DOMAIN working'
      <4>1. Remaining(Executed(working[o], executed[o])) = Remaining(working[o]) - executed[o]
        BY <1>3, ExecutedTyped
      <4>2. Left(o)' = Remaining(Executed(working[o], executed[o]))
        BY <2>3, <3>1 DEF Left, Remaining
      <4>3. QED
        BY <4>1, <4>2
    <3>2. CASE o \notin DOMAIN working'
      BY <1>3, <2>3, <3>2 DEF Left
    <3>3. QED
      BY <3>1, <3>2
  <2>6. FillQueuedNext(e)'
    <3>1. o \in DOMAIN openOrders' /\ Shares(e) > 0
      BY <1>3, <2>1, <2>4 DEF AgreedOn
    <3>2. openOrders'[o].remaining = Shares(e) + Left(o)'
      BY <1>3, <2>1, <2>4, <2>5 DEF AgreedOn
    <3>3. e.status = "Filled" <=> o \notin DOMAIN working'
      BY <1>3, <2>1, <2>3
    <3>4. e.id \in (1..fillsIssued') \ appliedFills'
      <4>1. /\ fillsIssued \in Nat /\ e.id \in Nat /\ appliedFills \subseteq 1..fillsIssued
            /\ fillsIssued' \in Nat
        BY <1>1, <2>1, ExecuteLeaves DEF ExecutionTypeOK, Fills, StepsInv, SaidOfBooks, GivenOut
      <4>2. QED
        BY <2>1, <2>3, <2>4, <4>1
    <3>5. e.sequence = ExpectedSequence(o)'
      BY <2>1, <2>4 DEF AgreedOn, ExpectedSequence
    <3>6. o \in DOMAIN working' => FillCount(o)' = e.sequence
      BY <2>1, <2>3
    <3>7. QED
      BY <2>1, <3>1, <3>2, <3>3, <3>4, <3>5, <3>6 DEF FillQueuedNext, ExpectedSequence, Left,
         FillCount
  <2>7. QED
    BY <2>1, <2>2, <2>6 DEF IsNew, IsFill, Events
<1>6. QED
  BY <1>4, <1>5 DEF IsNews

LEMMA ExecuteKeeps ==
  ASSUME StepsInv, ExecuteBar
  PROVE  StepsInv'
<1>1. /\ StateTypeOK /\ ExecutionTypeOK /\ queue = <<>> /\ phase = "Bar" /\ phase' = "Executed"
      /\ at \in Nat /\ at \in 1..(Len(bars) + 1) /\ at <= Len(bars) /\ bars \in Seq(Bars)
      /\ clock' = bars[at].time
      /\ UNCHANGED <<portfolioVars, riskVars, bars, at, lastMarks, emitted, fills, resultVars>>
  BY Types DEF StepsInv, InStep, ExecuteBar, StateTypeOK, TypeOK
<1> DEFINE market == EventOf(bars[at])
<1>2. PICK executed \in FillChoices(market) :
         Execute(market, executed) /\ queue' = queue \o Publications(market, executed)
  BY DEF ExecuteBar
<1>3. /\ market \in MarketEvents /\ market.time = bars[at].time /\ clock' \in 0..MaxTime
  <2>1. bars[at] \in Bars
    BY <1>1
  <2>2. QED
    BY <1>1, <2>1, BarSays
<1> HIDE DEF market
<1> DEFINE out == Publications(market, executed)
           hit == Executes(market, executed)
<1>4. /\ out \in Seq(Events)
      /\ \A k \in 1..Len(out) : \E o \in hit : IsNews(out[k], market, executed, o)
      /\ \A k, l \in 1..Len(out) :
            (/\ out[k].type = "Fill" /\ out[l].type = "Fill"
             /\ out[k].order = out[l].order \/ out[k].id = out[l].id) => k = l
      /\ \A x \in hit : \E k \in 1..Len(out) : IsFillOf(out[k], market, executed, x)
  BY <1>1, <1>2, <1>3, PublicationsAre
<1> HIDE DEF out
<1>5. queue' = out
  BY <1>1, <1>2, <1>4 DEF out
<1>6. /\ ExecutionTypeOK' /\ issued' = issued /\ DOMAIN working' \subseteq DOMAIN working
      /\ fillsIssued' = fillsIssued + Cardinality(hit)
      /\ \A o \in DOMAIN working' :
            \/ working'[o] = working[o] /\ o \notin hit
            \/ /\ o \in hit /\ executed[o] < Remaining(working[o])
               /\ working'[o] = Executed(working[o], executed[o])
      /\ \A o \in DOMAIN working : o \notin hit => o \in DOMAIN working'
      /\ \A o \in DOMAIN working' : FillCount(o)' = FillCount(o) + IF o \in hit THEN 1 ELSE 0
  <2>1. \A o \in DOMAIN working : o \notin hit => o \in DOMAIN working'
    BY <1>1, <1>2, <1>3, ExecuteLeaves
  <2>2. QED
    BY <1>1, <1>2, <1>3, <2>1, ExecuteLeaves
<1>7. \A o \in hit : Filling(market, executed, o)
  BY <1>1, <1>2, <1>3, Fillings
<1>8. UNCHANGED <<cash, position, marks, holds, openOrders, closed, lastSequence, appliedFills>>
      /\ UNCHANGED <<referencePrices, killSwitch, sessionDay, sessionStart, curve, report, openAtEnd>>
      /\ UNCHANGED <<bars, at, lastMarks, emitted, fills>>
  BY <1>1 DEF portfolioVars, riskVars, resultVars
<1>9. StateTypeOK'
  BY <1>1, <1>3, <1>4, <1>5, <1>6, <1>8 DEF StateTypeOK, TypeOK, PortfolioTypeOK, RiskTypeOK, Phases
<1>10. InStep'
  BY <1>1, <1>8 DEF InStep
<1>11. ASSUME NEW k \in 1..Len(queue')
       PROVE  /\ queue'[k] \in Events /\ ~IsNew(queue'[k])
              /\ IsFill(queue'[k]) => /\ \E d : d = queue'[k] /\ FillQueuedNext(d)'
                                      /\ queue'[k].time > queue'[k].decided
              /\ queue'[k].type \notin {"MarketData", "Signal"}
  <2>1. PICK o \in hit : IsNews(out[k], market, executed, o)
    BY <1>4, <1>5, <1>11
  <2>2. PICK d : d = out[k]
    OBVIOUS
  <2>3. /\ d \in Events /\ ~IsNew(d) /\ (IsFill(d) => FillQueuedNext(d)' /\ d.time > d.decided)
        /\ d.type \notin {"MarketData", "Signal"}
    BY <1>1, <1>2, <1>3, <2>1, <2>2, NewsOwed
  <2>4. QED
    BY <1>5, <2>2, <2>3
<1>12. Ahead'
  <2>1. ASSUME NEW o \in DOMAIN working'
        PROVE  working'[o].decided <= working'[o].created
    <3>1. working[o].decided <= working[o].created
      BY <1>6, <2>1 DEF StepsInv, Ahead
    <3>2. CASE working'[o] = working[o]
      BY <3>1, <3>2
    <3>3. CASE o \in hit /\ working'[o] = Executed(working[o], executed[o])
      <4>1. working[o] \in Orders
        BY <1>7, <3>3 DEF Filling
      <4>2. /\ Executed(working[o], executed[o]).decided = working[o].decided
            /\ Executed(working[o], executed[o]).created = working[o].created
        BY <4>1 DEF Executed, Orders
      <4>3. QED
        BY <3>1, <3>3, <4>2
    <3>4. QED
      BY <1>6, <2>1, <3>2, <3>3
  <2>2. NoLookAhead'
    BY <1>8 DEF StepsInv, Ahead, NoLookAhead
  <2>3. QED
    BY <1>11, <2>1, <2>2 DEF Ahead, IsFill
<1>13. GivenOut'
  <2>1. ASSUME NEW o \in DOMAIN working' PROVE Remaining(working'[o]) > 0
    <3>1. CASE working'[o] = working[o]
      BY <1>6, <2>1, <3>1 DEF StepsInv, SaidOfBooks, GivenOut
    <3>2. CASE /\ o \in hit /\ executed[o] < Remaining(working[o])
               /\ working'[o] = Executed(working[o], executed[o])
      <4>1. working[o] \in Orders /\ executed[o] \in Nat /\ Remaining(working[o]) \in Int
        BY <1>7, <3>2 DEF Filling, Remaining, Orders
      <4>2. Remaining(Executed(working[o], executed[o])) = Remaining(working[o]) - executed[o]
        BY <4>1, ExecutedTyped
      <4>3. QED
        BY <3>2, <4>1, <4>2
    <3>3. QED
      BY <1>6, <2>1, <3>1, <3>2
  <2>2. fillsIssued \in Nat /\ fillsIssued' \in Nat /\ Cardinality(hit) \in Nat
    BY <1>1, <1>2, <1>3, <1>6, Fillings, FS_CardinalityType DEF ExecutionTypeOK
  <2>3. appliedFills' \subseteq 1..fillsIssued'
    BY <1>6, <1>8, <2>2 DEF StepsInv, SaidOfBooks, GivenOut
  <2>4. QED
    BY <1>6, <1>8, <2>1, <2>3 DEF StepsInv, SaidOfBooks, GivenOut
<1>14. DOMAIN holds = {} /\ DOMAIN openOrders = DOMAIN working /\ \A o \in DOMAIN working : AgreedOn(o)
  BY <1>1, Settled
<1>15. HoldsOwed'
  BY <1>8, <1>14 DEF HoldsOwed
<1>16. QueueOwes'
  BY <1>11 DEF QueueOwes, OwedEvents
<1>17. OnlyOnce'
  BY <1>4, <1>5, <1>11 DEF OnlyOnce, SameNews, IsFill
<1>18. \A o \in hit : FillQueued(o)'
  <2> SUFFICES ASSUME NEW o \in hit PROVE FillQueued(o)'
    OBVIOUS
  <2>1. PICK k \in 1..Len(out) : IsFillOf(out[k], market, executed, o)
    BY <1>4
  <2>2. out[k].type = "Fill" /\ out[k].order = o
    BY <1>1, <1>3, <1>7, <2>1, FillSays
  <2>3. QED
    BY <1>5, <2>2 DEF FillQueued, IsFill
<1>19. BooksMatch'
  <2>1. ASSUME NEW o \in DOMAIN working', o \notin hit
        PROVE  AgreedOn(o)'
    <3>1. /\ AgreedOn(o) /\ working'[o] = working[o] /\ FillCount(o)' = FillCount(o) + 0
          /\ o \in DOMAIN working /\ FillCount(o) \in Nat
      BY <1>1, <1>6, <1>14, <2>1 DEF FillCount, ExecutionTypeOK
    <3>2. QED
      BY <1>8, <3>1 DEF AgreedOn, ExpectedSequence
  <2>2. \A o \in DOMAIN openOrders' : o \in DOMAIN working' \/ o \in hit
    BY <1>6, <1>8, <1>14
  <2>3. QED
    BY <1>18, <2>1, <2>2 DEF BooksMatch
<1>20. QED
  BY <1>9, <1>10, <1>12, <1>13, <1>15, <1>16, <1>17, <1>19 DEF StepsInv, SaidOfBooks

-----------------------------------------------------------------------------
(* The steps together.                                                     *)

LEMMA StepsInit ==
  ASSUME Init
  PROVE  StepsInv
<1>1. DOMAIN <<>> = {} /\ <<>> \in [{} -> Holds] /\ Len(<<>>) = 0 /\ 1..0 = {}
  OBVIOUS
<1>2. /\ queue = <<>> /\ fills = <<>> /\ curve = <<>> /\ lastMarks = <<>>
      /\ clock = 0 /\ emitted = 0 /\ at = 1 /\ phase = "Called" /\ report = None
      /\ openAtEnd = 0 /\ bars \in DataSets
  BY DEF Init
<1>3. /\ cash = StartingCash /\ position = [s \in Symbols |-> 0] /\ marks = <<>> /\ holds = <<>>
      /\ openOrders = <<>> /\ closed = {} /\ lastSequence = <<>> /\ appliedFills = {}
  BY DEF Init, PortfolioInit
<1>4. working = <<>> /\ issued = <<>> /\ fillsIssued = 0 /\ fillCounts = <<>>
  BY DEF Init, ExecutionInit
<1>5. /\ referencePrices = <<>> /\ killSwitch = FALSE /\ sessionDay = -1 /\ sessionStart = None
  BY DEF Init, RiskInit
<1>6. PortfolioTypeOK
  BY <1>1, <1>3, PortfolioAssumption DEF PortfolioTypeOK
<1>7. ExecutionTypeOK
  BY <1>1, <1>4 DEF ExecutionTypeOK
<1>8. RiskTypeOK
  <2>1. killSwitch \in BOOLEAN
    BY <1>5
  <2>2. /\ DOMAIN referencePrices = {} /\ sessionDay \in Int /\ sessionStart \in Int \cup {None}
    BY <1>1, <1>5
  <2>3. QED
    BY <2>1, <2>2 DEF RiskTypeOK
<1>9. TypeOK
  <2>1. bars \in Seq(Bars) /\ MaxTime \in Nat /\ MaxSignals \in Nat
    BY <1>2, BacktestAssumption
  <2>2. at \in 1..(Len(bars) + 1) /\ clock \in 0..MaxTime /\ emitted \in 0..MaxSignals
    BY <1>2, <2>1
  <2>3. /\ queue \in Seq(Events) /\ fills \in Seq(Fills) /\ curve \in Seq(Int) /\ openAtEnd \in Nat
        /\ DOMAIN lastMarks = {} /\ (report # None => phase = "Done")
    BY <1>1, <1>2
  <2>4. phase \in Phases
    BY <1>2 DEF Phases
  <2>5. QED
    BY <1>6, <1>7, <1>8, <2>1, <2>2, <2>3, <2>4 DEF TypeOK
<1>10. StateTypeOK
  BY <1>1, <1>3, <1>9, FS_EmptySet DEF StateTypeOK
<1>11. InStep /\ Ahead
  BY <1>1, <1>2, <1>4 DEF InStep, Ahead, NoLookAhead
<1>12. SaidOfBooks
  <2>1. GivenOut
    BY <1>1, <1>3, <1>4 DEF GivenOut
  <2>2. HoldsOwed /\ QueueOwes /\ OnlyOnce /\ BooksMatch
    BY <1>1, <1>2, <1>3, <1>4 DEF HoldsOwed, QueueOwes, OnlyOnce, BooksMatch
  <2>3. QED
    BY <2>1, <2>2 DEF SaidOfBooks
<1>13. QED
  BY <1>10, <1>11, <1>12 DEF StepsInv

LEMMA StepsStutter ==
  ASSUME StepsInv, UNCHANGED vars
  PROVE  StepsInv'
<1>1. /\ UNCHANGED <<cash, position, marks, holds, openOrders, closed, lastSequence, appliedFills>>
      /\ UNCHANGED <<working, issued, fillsIssued, fillCounts>>
      /\ UNCHANGED <<referencePrices, killSwitch, sessionDay, sessionStart>>
      /\ UNCHANGED <<clock, lastMarks, emitted, bars, at, phase, queue, fills>>
      /\ UNCHANGED <<curve, report, openAtEnd>>
  BY DEF vars, accountVars, portfolioVars, executionVars, riskVars, pipelineVars, resultVars
<1>2. StateTypeOK'
  BY <1>1 DEF StepsInv, StateTypeOK, TypeOK, PortfolioTypeOK, ExecutionTypeOK, RiskTypeOK
<1>3. InStep' /\ Ahead'
  BY <1>1 DEF StepsInv, InStep, Ahead, NoLookAhead
<1>4. SaidOfBooks'
  <2>1. GivenOut' /\ HoldsOwed' /\ OnlyOnce' /\ BooksMatch'
    BY <1>1 DEF StepsInv, SaidOfBooks, GivenOut, HoldsOwed, OnlyOnce, BooksMatch, Remaining,
       OpeningQueued, FillQueued, AgreedOn, ExpectedSequence, FillCount
  <2>2. QueueOwes'
    BY <1>1 DEF StepsInv, SaidOfBooks, QueueOwes, OwedEvents, OrderQueued, FillQueuedNext,
       Remaining, Left, ExpectedSequence, FillCount
  <2>3. QED
    BY <2>1, <2>2 DEF SaidOfBooks
<1>5. QED
  BY <1>2, <1>3, <1>4 DEF StepsInv

LEMMA StepsStep ==
  ASSUME StepsInv, [Next]_vars
  PROVE  StepsInv'
<1>1. CASE RefuseNoBars \/ Begin \/ EndBar \/ Finish
  BY <1>1, CallerKeeps
<1>2. CASE ExecuteBar
  BY <1>2, ExecuteKeeps
<1>3. CASE FeedBar
  BY <1>3, FeedKeeps
<1>4. CASE Dispatch
  BY <1>4, BarKeeps, SignalKeeps, OrderKeeps, FillKeeps DEF Dispatch
<1>5. CASE UNCHANGED vars
  BY <1>5, StepsStutter
<1>6. QED
  BY <1>1, <1>2, <1>3, <1>4, <1>5 DEF Next, Caller

(* In every state the caller has gone on only when nothing was queued, and *)
(* the books of the portfolio and of the simulator differ by no more than  *)
(* what is queued.                                                         *)
THEOREM StepsHold == Spec => []StepsInv
<1>1. Init => StepsInv
  BY StepsInit
<1>2. StepsInv /\ [Next]_vars => StepsInv'
  BY StepsStep
<1>3. QED
  BY <1>1, <1>2, PTL DEF Spec

(* The steps of a bar are apart, whatever the bars and the strategies: an  *)
(* order executes only at a bar later than the one it was decided on, and  *)
(* when wait_until_drained() returns no hold is waiting for its order and  *)
(* the portfolio's open orders are the simulator's working ones, share for *)
(* share.                                                                  *)
THEOREM StepsApart == Spec => []StepsAreSeparate
<1>1. StepsInv => StepsAreSeparate
  <2>1. StepsInv => NoLookAhead
    BY DEF StepsInv, Ahead
  <2>2. StepsInv => SettledBetweenSteps
    BY Settled DEF SettledBetweenSteps, Drained, AgreedOn
  <2>3. QED
    BY <2>1, <2>2 DEF StepsAreSeparate
<1>2. QED
  BY <1>1, StepsHold, PTL

-----------------------------------------------------------------------------
(* The marks.                                                              *)

BarQueued == \E i \in 1..Len(queue) : queue[i].type = "MarketData"

(* The accepted bars that have been delivered.                             *)
Seen ==
    {i \in 1..Len(bars) :
        ~bars[i].refused /\ (i < at \/ (i = at /\ phase = "Fed" /\ ~BarQueued))}

SeenOf(symbol) == {i \in Seen : bars[i].symbol = symbol}

(* When the newest bar of a symbol was, and the fills after it.            *)
BarTime(symbol) == IF symbol \in DOMAIN lastMarks THEN lastMarks[symbol].time ELSE 0

FillsSince(symbol) ==
    {i \in 1..Len(fills) : fills[i].symbol = symbol /\ fills[i].time > BarTime(symbol)}

IsLast(k, S) == k \in S /\ \A i \in S : i <= k

NotBegun == phase \in {"Called", "Refused"}

(* Nothing has happened, or the bars are in order and time has come as far *)
(* as the one at work; only its own events are queued.                     *)
InTime ==
    /\ NotBegun =>
          /\ at = 1 /\ fills = <<>> /\ curve = <<>> /\ lastMarks = <<>>
          /\ cash = StartingCash /\ \A s \in Symbols : position[s] = 0
    /\ ~NotBegun =>
          /\ bars # <<>>
          /\ \A i, j \in 1..Len(bars) : i < j => bars[i].time <= bars[j].time
          /\ at <= Len(bars) => clock <= bars[at].time
    /\ \A i \in 1..Len(fills) : fills[i].time <= clock
    /\ \A i \in 1..Len(queue) :
          /\ IsFill(queue[i]) => phase = "Executed" /\ queue[i].time = clock
          /\ queue[i].type = "MarketData" =>
                phase = "Fed" /\ ~bars[at].refused /\ queue = <<EventOf(bars[at])>>

BarsKept ==
    \A s \in Symbols :
        IF s \in DOMAIN lastMarks
        THEN \E k \in SeenOf(s) : IsLast(k, SeenOf(s)) /\ lastMarks[s] = EventOf(bars[k])
        ELSE SeenOf(s) = {}

(* A mark is the close of the symbol's newest bar, or the price of its     *)
(* newest fill since.                                                      *)
MarksNewest ==
    \A s \in DOMAIN marks :
        IF FillsSince(s) = {}
        THEN s \in DOMAIN lastMarks /\ marks[s] = lastMarks[s].price
        ELSE \E k \in FillsSince(s) : IsLast(k, FillsSince(s)) /\ marks[s] = fills[k].price

HeldMarked == \A s \in Symbols : position[s] # 0 => s \in DOMAIN marks

SaidOfMarks == BarsKept /\ MarksNewest /\ HeldMarked

MarksInv == InTime /\ SaidOfMarks

LEMMA MarksStay ==
  ASSUME SaidOfMarks, Seen' = Seen, UNCHANGED <<fills, lastMarks, marks, position>>,
         \A i \in Seen : bars'[i] = bars[i]
  PROVE  SaidOfMarks'
<1>1. \A s : SeenOf(s)' = SeenOf(s)
  BY DEF SeenOf
<1>2. BarsKept'
  <2> SUFFICES ASSUME NEW s \in Symbols
               PROVE  IF s \in DOMAIN lastMarks
                      THEN \E k \in SeenOf(s) :
                              IsLast(k, SeenOf(s)) /\ lastMarks[s] = EventOf(bars'[k])
                      ELSE SeenOf(s) = {}
    BY <1>1 DEF BarsKept, IsLast, EventOf
  <2>1. CASE s \in DOMAIN lastMarks
    <3>1. PICK k \in SeenOf(s) : IsLast(k, SeenOf(s)) /\ lastMarks[s] = EventOf(bars[k])
      BY <2>1 DEF SaidOfMarks, BarsKept
    <3>2. bars'[k] = bars[k]
      BY <3>1 DEF IsLast, SeenOf
    <3>3. QED
      BY <2>1, <3>1, <3>2
  <2>2. CASE s \notin DOMAIN lastMarks
    BY <2>2 DEF SaidOfMarks, BarsKept
  <2>3. QED
    BY <2>1, <2>2
<1>3. \A s : FillsSince(s)' = FillsSince(s)
  BY DEF FillsSince, BarTime
<1>4. MarksNewest'
  BY <1>3 DEF SaidOfMarks, MarksNewest, IsLast
<1>5. HeldMarked'
  BY DEF SaidOfMarks, HeldMarked
<1>6. QED
  BY <1>2, <1>4, <1>5 DEF SaidOfMarks

(* The caller's steps.                                                     *)
LEMMA CallerMarks ==
  ASSUME StepsInv, MarksInv, RefuseNoBars \/ Begin \/ EndBar \/ Finish
  PROVE  MarksInv'
<1>1. UNCHANGED <<accountVars, lastMarks, emitted, queue, fills>> /\ queue = <<>> /\ queue' = <<>>
  BY DEF RefuseNoBars, Begin, EndBar, Finish, pipelineVars, StepsInv, InStep, Drained
<1>2. /\ UNCHANGED <<cash, position, marks>> /\ ~BarQueued /\ ~BarQueued' /\ Len(queue) = 0
      /\ Len(queue') = 0
  BY <1>1 DEF accountVars, portfolioVars, BarQueued
<1>3. /\ bars \in Seq(Bars) /\ Len(bars) \in Nat /\ at \in 1..(Len(bars) + 1) /\ at \in Nat
      /\ \A i \in 1..Len(bars) : bars[i].time \in Nat
  <2>1. StateTypeOK
    BY DEF StepsInv
  <2>2. bars \in Seq(Bars) /\ at \in 1..(Len(bars) + 1)
    BY <2>1 DEF StateTypeOK, TypeOK
  <2>3. \A i \in 1..Len(bars) : bars[i] \in Bars
    BY <2>2
  <2>4. QED
    BY <2>1, <2>2, <2>3, Types, BarSays
<1>4. CASE RefuseNoBars
  <2>1. phase = "Called" /\ phase' = "Refused" /\ UNCHANGED <<bars, at, clock, curve>>
    BY <1>4 DEF RefuseNoBars, pipelineVars, resultVars
  <2>2. Seen' = Seen
    BY <1>2, <2>1 DEF Seen
  <2>3. SaidOfMarks'
    BY <1>1, <1>2, <2>1, <2>2, MarksStay DEF MarksInv
  <2>4. InTime'
    BY <1>1, <1>2, <2>1 DEF MarksInv, InTime, NotBegun
  <2>5. QED
    BY <2>3, <2>4 DEF MarksInv
<1>5. CASE Begin
  <2> DEFINE sorted == Sorted(bars)
  <2>1. /\ phase = "Called" /\ phase' = "Bar" /\ bars' = sorted /\ clock' = sorted[1].time
        /\ bars # <<>> /\ UNCHANGED at
    BY <1>5 DEF Begin
  <2>2. /\ sorted \in Seq(Bars) /\ Len(sorted) = Len(bars)
        /\ \A i, j \in 1..Len(sorted) : i < j => sorted[i].time <= sorted[j].time
    BY <1>3, SortedIs
  <2> HIDE DEF sorted
  <2>3. at = 1 /\ fills = <<>>
    BY <2>1 DEF MarksInv, InTime, NotBegun
  <2>4. Seen = {} /\ Seen' = {}
    BY <1>3, <2>1, <2>3 DEF Seen
  <2>5. SaidOfMarks'
    BY <1>1, <1>2, <2>4, MarksStay DEF MarksInv
  <2>6. bars' # <<>> /\ sorted[1].time \in Nat
    <3>1. Len(sorted) >= 1 /\ sorted[1] \in Bars
      BY <1>3, <2>1, <2>2
    <3>2. QED
      BY <2>1, <3>1, BarSays
  <2>7. InTime'
    BY <1>1, <1>2, <2>1, <2>2, <2>3, <2>6 DEF InTime, NotBegun
  <2>8. QED
    BY <2>5, <2>7 DEF MarksInv
<1>6. CASE EndBar
  <2>1. phase = "Fed" /\ phase' = "Bar" /\ UNCHANGED <<bars, clock>> /\ at' = at + 1
    BY <1>6 DEF EndBar, pipelineVars
  <2>2. at <= Len(bars) /\ clock = bars[at].time
    BY <2>1 DEF StepsInv, InStep
  <2>3. Seen' = Seen
    BY <1>2, <1>3, <2>1, <2>2 DEF Seen
  <2>4. SaidOfMarks'
    BY <1>1, <1>2, <2>1, <2>3, MarksStay DEF MarksInv
  <2>5. at + 1 <= Len(bars) => clock <= bars[at + 1].time
    BY <1>3, <2>1, <2>2 DEF MarksInv, InTime, NotBegun
  <2>6. InTime'
    BY <1>1, <1>2, <2>1, <2>5 DEF MarksInv, InTime, NotBegun
  <2>7. QED
    BY <2>4, <2>6 DEF MarksInv
<1>7. CASE Finish
  <2>1. phase = "Bar" /\ phase' = "Done" /\ UNCHANGED <<bars, clock, at>>
    BY <1>7 DEF Finish, pipelineVars
  <2>2. Seen' = Seen
    BY <2>1 DEF Seen
  <2>3. SaidOfMarks'
    BY <1>1, <1>2, <2>1, <2>2, MarksStay DEF MarksInv
  <2>4. InTime'
    BY <1>1, <1>2, <2>1 DEF MarksInv, InTime, NotBegun
  <2>5. QED
    BY <2>3, <2>4 DEF MarksInv
<1>8. QED
  BY <1>4, <1>5, <1>6, <1>7

LEMMA FeedMarks ==
  ASSUME StepsInv, MarksInv, FeedBar
  PROVE  MarksInv'
<1>1. /\ queue = <<>> /\ phase = "Executed" /\ phase' = "Fed" /\ Len(queue) = 0
      /\ UNCHANGED <<accountVars, pipelineVars, bars, at, fills, resultVars>>
      /\ queue' = IF bars[at].refused THEN queue ELSE Append(queue, EventOf(bars[at]))
  BY DEF FeedBar, Drained
<1>2. UNCHANGED <<cash, position, marks, lastMarks, clock, curve>>
  BY <1>1 DEF accountVars, portfolioVars, pipelineVars, resultVars
<1>3. /\ bars \in Seq(Bars) /\ Len(bars) \in Nat /\ at \in 1..Len(bars) /\ clock = bars[at].time
      /\ at \in Nat
  BY <1>1, Types DEF StepsInv, InStep, StateTypeOK, TypeOK
<1>4. EventOf(bars[at]).type = "MarketData"
  BY DEF EventOf
<1>5. CASE bars[at].refused
  <2>1. queue' = <<>> /\ Len(queue') = 0
    BY <1>1, <1>5
  <2>2. Seen' = Seen
    BY <1>1, <1>3, <1>5 DEF Seen
  <2>3. InTime'
    BY <1>1, <1>2, <2>1 DEF MarksInv, InTime, NotBegun
  <2>4. QED
    BY <1>1, <1>2, <2>2, <2>3, MarksStay DEF MarksInv
<1>6. CASE ~bars[at].refused
  <2>1. queue' = <<EventOf(bars[at])>> /\ Len(queue') = 1 /\ queue'[1] = EventOf(bars[at])
    BY <1>1, <1>6
  <2>2. BarQueued'
    BY <1>4, <2>1 DEF BarQueued
  <2>3. Seen' = Seen
    BY <1>1, <1>3, <2>2 DEF Seen
  <2>4. \A i \in 1..Len(queue') : queue'[i] = EventOf(bars[at])
    BY <2>1
  <2>5. InTime'
    BY <1>1, <1>2, <1>4, <1>6, <2>1, <2>4 DEF MarksInv, InTime, NotBegun, IsFill
  <2>6. QED
    BY <1>1, <1>2, <2>3, <2>5, MarksStay DEF MarksInv
<1>7. QED
  BY <1>5, <1>6

LEMMA ExecuteMarks ==
  ASSUME StepsInv, MarksInv, ExecuteBar
  PROVE  MarksInv'
<1>1. /\ queue = <<>> /\ phase = "Bar" /\ phase' = "Executed" /\ at <= Len(bars)
      /\ bars \in Seq(Bars) /\ at \in 1..(Len(bars) + 1) /\ at \in Nat /\ ExecutionTypeOK
      /\ clock' = bars[at].time
      /\ UNCHANGED <<portfolioVars, riskVars, bars, at, lastMarks, emitted, fills, resultVars>>
  BY Types DEF StepsInv, InStep, ExecuteBar, StateTypeOK, TypeOK
<1> DEFINE market == EventOf(bars[at])
<1>2. PICK executed \in FillChoices(market) :
         Execute(market, executed) /\ queue' = queue \o Publications(market, executed)
  BY DEF ExecuteBar
<1>3. market \in MarketEvents /\ market.time = clock' /\ clock' \in Nat
  <2>1. bars[at] \in Bars
    BY <1>1
  <2>2. QED
    BY <1>1, <2>1, BarSays
<1> HIDE DEF market
<1> DEFINE out == Publications(market, executed)
           hit == Executes(market, executed)
<1>4. out \in Seq(Events) /\ \A k \in 1..Len(out) : \E o \in hit : IsNews(out[k], market, executed, o)
  BY <1>1, <1>2, <1>3, PublicationsAre
<1> HIDE DEF out
<1>5. queue' = out
  BY <1>1, <1>2, <1>4 DEF out
<1>6. ASSUME NEW k \in 1..Len(queue')
      PROVE  queue'[k].type # "MarketData" /\ (IsFill(queue'[k]) => queue'[k].time = clock')
  <2>1. PICK o \in hit : IsNews(out[k], market, executed, o)
    BY <1>4, <1>5, <1>6
  <2>2. PICK d : d = out[k]
    OBVIOUS
  <2>3. d.type # "MarketData" /\ (IsFill(d) => d.time = market.time)
    BY <1>1, <1>2, <1>3, <2>1, <2>2, NewsOwed
  <2>4. QED
    BY <1>3, <1>5, <2>2, <2>3
<1>7. UNCHANGED <<cash, position, marks, curve>>
  BY <1>1 DEF portfolioVars, resultVars
<1>8. Seen' = Seen
  BY <1>1 DEF Seen
<1>9. clock \in Nat /\ fills \in Seq(Fills) /\ clock <= clock'
  BY <1>1, Types DEF StepsInv, MarksInv, InTime, NotBegun
<1>10. \A i \in 1..Len(fills) : fills[i].time <= clock'
  <2> SUFFICES ASSUME NEW i \in 1..Len(fills) PROVE fills[i].time <= clock'
    OBVIOUS
  <2>1. fills[i] \in Fills
    BY <1>9
  <2>2. fills[i].time \in Nat /\ fills[i].time <= clock
    BY <2>1 DEF Fills, MarksInv, InTime
  <2>3. QED
    BY <1>3, <1>9, <2>2
<1>11. InTime'
  <2>1. ~NotBegun /\ ~NotBegun' /\ UNCHANGED <<bars, at, fills>>
    BY <1>1 DEF NotBegun
  <2>2. /\ bars # <<>>
        /\ \A i, j \in 1..Len(bars) : i < j => bars[i].time <= bars[j].time
        /\ clock' <= bars[at].time
    BY <1>1, <1>3, <2>1 DEF MarksInv, InTime
  <2>3. QED
    BY <1>1, <1>6, <1>10, <2>1, <2>2 DEF InTime
<1>12. QED
  BY <1>1, <1>7, <1>8, <1>11, MarksStay DEF MarksInv

(* What the dispatcher leaves queued, when what it publishes are signals   *)
(* and orders.                                                             *)
LEMMA TakenInTime ==
  ASSUME StepsInv, InTime, NEW out, TakesHead(out), UNCHANGED <<clock, lastMarks>>,
         \A m \in 1..Len(out) : out[m].type \in {"Signal", "Order"},
         \A i \in 1..Len(fills') : fills'[i].time <= clock
  PROVE  InTime' /\ ~BarQueued' /\ ~NotBegun
<1>1. /\ UNCHANGED <<bars, at, phase, curve>> /\ queue \in Seq(Events) /\ queue # <<>>
      /\ 1 \in 1..Len(queue) /\ Len(queue) \in Nat
  BY Types, Rest DEF StepsInv, TakesHead
<1>2. ~NotBegun
  BY <1>1 DEF StepsInv, InStep, NotBegun
<1>3. ASSUME NEW k \in 1..Len(queue')
      PROVE  /\ IsFill(queue'[k]) => phase = "Executed" /\ queue'[k].time = clock
             /\ queue'[k].type # "MarketData"
  <2>1. CASE k + 1 \in 2..Len(queue) /\ queue'[k] = queue[k + 1]
    <3>1. k + 1 \in 1..Len(queue) /\ Len(queue) # 1
      BY <1>1, <2>1
    <3>2. queue[k + 1].type # "MarketData"
      <4>1. Len(<<EventOf(bars[at])>>) = 1
        OBVIOUS
      <4>2. QED
        BY <3>1, <4>1 DEF InTime
    <3>3. QED
      BY <2>1, <3>1, <3>2 DEF InTime
  <2>2. CASE k + 1 - Len(queue) \in 1..Len(out) /\ queue'[k] = out[k + 1 - Len(queue)]
    BY <2>2 DEF IsFill
  <2>3. QED
    BY <1>1, <2>1, <2>2, Rest
<1>4. ~BarQueued'
  BY <1>3 DEF BarQueued
<1>5. InTime'
  <2>1. NotBegun' = NotBegun /\ UNCHANGED clock
    BY <1>1 DEF NotBegun
  <2>2. /\ bars # <<>>
        /\ \A i, j \in 1..Len(bars) : i < j => bars[i].time <= bars[j].time
        /\ at <= Len(bars) => clock <= bars[at].time
    BY <1>2 DEF InTime
  <2>3. QED
    BY <1>1, <1>2, <1>3, <2>1, <2>2 DEF InTime
<1>6. QED
  BY <1>2, <1>4, <1>5

LEMMA BarMarks ==
  ASSUME StepsInv, MarksInv, DeliverBar, UNCHANGED <<bars, at, phase, resultVars>>
  PROVE  MarksInv'
<1>1. PICK ideas \in BoundedSeq(Ideas, Min({MaxEmitted, MaxSignals - emitted})) :
         /\ HandleMarketData(Head(queue), ideas)
         /\ queue' = Tail(queue) \o SignalsFrom(ideas, Head(queue))
  BY DEF DeliverBar
<1> DEFINE market == queue[1]
           out == SignalsFrom(ideas, market)
<1>2. /\ StateTypeOK /\ queue \in Seq(Events) /\ queue # <<>> /\ Head(queue) = market
      /\ 1 \in 1..Len(queue) /\ market \in Events /\ market.type = "MarketData"
  <2>1. StateTypeOK /\ queue \in Seq(Events) /\ queue # <<>> /\ Head(queue).type = "MarketData"
    BY Types DEF StepsInv, DeliverBar
  <2>2. Head(queue) = queue[1] /\ 1 \in 1..Len(queue) /\ queue[1] \in Events
    BY <2>1
  <2>3. QED
    BY <2>1, <2>2
<1>3. /\ phase = "Fed" /\ ~bars[at].refused /\ market = EventOf(bars[at])
      /\ queue = <<EventOf(bars[at])>>
  <2>1. phase = "Fed" /\ ~bars[at].refused /\ queue = <<EventOf(bars[at])>>
    BY <1>2 DEF MarksInv, InTime
  <2>2. QED
    BY <2>1
<1>4. /\ bars \in Seq(Bars) /\ Len(bars) \in Nat /\ at \in 1..Len(bars) /\ at \in Nat
      /\ clock = bars[at].time /\ bars[at] \in Bars
  BY <1>2, <1>3, Types DEF StepsInv, InStep, StateTypeOK, TypeOK
<1>5. /\ market \in MarketEvents /\ market.symbol \in Symbols /\ market.symbol = bars[at].symbol
      /\ market.time = clock /\ clock \in Nat
  BY <1>3, <1>4, BarSays DEF MarketEvents
<1>6. /\ ideas \in Seq(Ideas) /\ Len(ideas) \in Nat
  BY <1>2, IdeasMayBe
<1>7. out \in Seq(Events) /\ \A m \in 1..Len(out) : out[m].type = "Signal"
  BY <1>2, <1>5, <1>6, IdeasMayBe, SignalsSay
<1>8. HandleMarketData(market, ideas) /\ queue' = Tail(queue) \o out
  BY <1>1, <1>2
<1> HIDE DEF out, market
<1>9. TakesHead(out)
  BY <1>2, <1>7, <1>8 DEF TakesHead, resultVars
<1>10. /\ UNCHANGED <<fills, cash, position, clock, bars, at, phase>>
       /\ lastMarks' = Put(lastMarks, market.symbol, market)
       /\ marks' = Put(marks, market.symbol, market.price)
  BY <1>8 DEF DeliverBar, HandleMarketData, Mark
<1>11. queue' = out
  <2>1. Tail(queue) = <<>>
    BY <1>3
  <2>2. <<>> \o out = out
    BY <1>7
  <2>3. QED
    BY <1>8, <2>1, <2>2
<1>12. ~BarQueued' /\ BarQueued
  <2>1. queue[1] = market
    BY DEF market
  <2>2. QED
    BY <1>2, <1>7, <1>11, <2>1 DEF BarQueued
<1>13. Seen' = Seen \cup {at} /\ \A i \in Seen : i < at
  BY <1>3, <1>4, <1>10, <1>12 DEF Seen
<1>14. InTime'
  <2>1. ~NotBegun /\ UNCHANGED <<curve>>
    BY <1>3, <1>9 DEF NotBegun, TakesHead
  <2>2. \A k \in 1..Len(queue') : ~IsFill(queue'[k]) /\ queue'[k].type # "MarketData"
    BY <1>7, <1>11 DEF IsFill
  <2>3. QED
    BY <1>10, <2>1, <2>2 DEF MarksInv, InTime, NotBegun
<1>15. BarsKept'
  <2> SUFFICES ASSUME NEW s \in Symbols
               PROVE  IF s \in DOMAIN lastMarks'
                      THEN \E k : IsLast(k, SeenOf(s)') /\ lastMarks'[s] = EventOf(bars[k])
                      ELSE SeenOf(s)' = {}
    BY <1>10 DEF BarsKept, IsLast, EventOf
  <2>1. CASE s = market.symbol
    <3>1. IsLast(at, SeenOf(s)')
      BY <1>4, <1>5, <1>10, <1>13, <2>1 DEF IsLast, SeenOf, Seen
    <3>2. s \in DOMAIN lastMarks' /\ lastMarks'[s] = EventOf(bars[at])
      BY <1>3, <1>10, <2>1 DEF Put
    <3>3. QED
      BY <3>1, <3>2
  <2>2. CASE s # market.symbol
    <3>1. SeenOf(s)' = SeenOf(s)
      BY <1>5, <1>10, <1>13, <2>2 DEF SeenOf
    <3>2. /\ s \in DOMAIN lastMarks' <=> s \in DOMAIN lastMarks
          /\ s \in DOMAIN lastMarks => lastMarks'[s] = lastMarks[s]
      BY <1>10, <2>2 DEF Put
    <3>3. QED
      BY <3>1, <3>2 DEF MarksInv, SaidOfMarks, BarsKept
  <2>3. QED
    BY <2>1, <2>2
<1>16. MarksNewest'
  <2> SUFFICES ASSUME NEW s \in DOMAIN marks'
               PROVE  IF FillsSince(s)' = {}
                      THEN s \in DOMAIN lastMarks' /\ marks'[s] = lastMarks'[s].price
                      ELSE \E k : IsLast(k, FillsSince(s)') /\ marks'[s] = fills[k].price
    BY <1>10 DEF MarksNewest, IsLast
  <2>1. CASE s = market.symbol
    <3>1. /\ s \in DOMAIN lastMarks' /\ lastMarks'[s] = market /\ marks'[s] = market.price
      BY <1>10, <2>1 DEF Put
    <3>2. BarTime(s)' = clock
      BY <1>5, <3>1 DEF BarTime
    <3>3. FillsSince(s)' = {}
      <4>1. fills \in Seq(Fills)
        BY <1>2 DEF StateTypeOK, TypeOK
      <4>2. ASSUME NEW i \in 1..Len(fills)
            PROVE  fills[i].time \in Nat /\ fills[i].time <= clock
        <5>1. fills[i] \in Fills
          BY <4>1
        <5>2. QED
          BY <5>1 DEF Fills, MarksInv, InTime
      <4>3. QED
        BY <1>5, <1>10, <3>2, <4>2 DEF FillsSince
    <3>4. QED
      BY <3>1, <3>3
  <2>2. CASE s # market.symbol
    <3>1. /\ s \in DOMAIN marks /\ marks'[s] = marks[s]
          /\ s \in DOMAIN lastMarks' <=> s \in DOMAIN lastMarks
          /\ s \in DOMAIN lastMarks => lastMarks'[s] = lastMarks[s]
      BY <1>10, <2>2 DEF Put
    <3>2. FillsSince(s)' = FillsSince(s)
      BY <1>10, <3>1 DEF FillsSince, BarTime
    <3>3. QED
      BY <1>10, <3>1, <3>2 DEF MarksInv, SaidOfMarks, MarksNewest
  <2>3. QED
    BY <2>1, <2>2
<1>17. HeldMarked'
  BY <1>10 DEF MarksInv, SaidOfMarks, HeldMarked, Put
<1>18. QED
  BY <1>14, <1>15, <1>16, <1>17 DEF MarksInv, SaidOfMarks

LEMMA SignalMarks ==
  ASSUME StepsInv, MarksInv, DeliverSignal, UNCHANGED <<bars, at, phase, resultVars>>
  PROVE  MarksInv'
<1>1. /\ StateTypeOK /\ queue \in Seq(Events) /\ queue # <<>> /\ Head(queue) = queue[1]
      /\ 1 \in 1..Len(queue) /\ queue[1] \in Events /\ queue[1].type = "Signal"
  <2>1. StateTypeOK /\ queue \in Seq(Events) /\ queue # <<>> /\ Head(queue).type = "Signal"
    BY Types DEF StepsInv, DeliverSignal
  <2>2. Head(queue) = queue[1] /\ 1 \in 1..Len(queue) /\ queue[1] \in Events
    BY <2>1
  <2>3. QED
    BY <2>1, <2>2
<1> DEFINE e == queue[1]
           out == OrdersFor(e)
<1>2. /\ e \in Signals /\ HandleSignal(e) /\ queue' = Tail(queue) \o out
      /\ ExecutionTypeOK /\ clock \in Nat /\ AccountTypeOK /\ fills' = fills
  BY <1>1, EventKinds, Types DEF DeliverSignal
<1>3. out = OrdersFor(e)
  OBVIOUS
<1> HIDE DEF out
<1>4. /\ UNCHANGED pipelineVars
      /\ \/ out = <<>> /\ out \in Seq(Events) /\ UNCHANGED portfolioVars
         \/ \E signal, order : Approved(e, signal, order, out)
  BY <1>2, <1>3, SignalChecked
<1>5. TakesHead(out) /\ \A m \in 1..Len(out) : out[m].type = "Order"
  <2>1. TakesHead(out)
    BY <1>1, <1>2, <1>4 DEF TakesHead, resultVars, Approved
  <2>2. CASE out = <<>>
    <3>1. Len(out) = 0
      BY <2>2
    <3>2. QED
      BY <2>1, <3>1
  <2>3. CASE \E signal, order : Approved(e, signal, order, out)
    <3>1. PICK order : out = <<order>> /\ order.type = "Order"
      BY <2>3 DEF Approved
    <3>2. QED
      BY <2>1, <3>1
  <2>4. QED
    BY <1>4, <2>2, <2>3
<1>6. UNCHANGED <<cash, position, marks, lastMarks, clock, fills>>
  BY <1>2, <1>4 DEF pipelineVars, portfolioVars, Approved, HoldForSignal
<1>7. InTime' /\ ~BarQueued'
  <2>1. \A i \in 1..Len(fills') : fills'[i].time <= clock
    BY <1>6 DEF MarksInv, InTime
  <2>2. QED
    BY <1>5, <1>6, <2>1, TakenInTime DEF MarksInv
<1>8. ~BarQueued
  BY <1>1 DEF MarksInv, InTime, BarQueued, EventOf
<1>9. Seen' = Seen
  BY <1>7, <1>8 DEF Seen
<1>10. QED
  BY <1>6, <1>7, <1>9, MarksStay DEF MarksInv

LEMMA OrderMarks ==
  ASSUME StepsInv, MarksInv, DeliverOrder, UNCHANGED <<bars, at, phase, resultVars>>
  PROVE  MarksInv'
<1>1. /\ StateTypeOK /\ queue \in Seq(Events) /\ queue # <<>> /\ Head(queue) = queue[1]
      /\ 1 \in 1..Len(queue) /\ queue[1].type = "Order"
      /\ HandleOrder(Head(queue)) /\ queue' = Tail(queue) /\ fills' = fills
  BY Types DEF StepsInv, DeliverOrder
<1>2. TakesHead(<<>>)
  <2>1. Tail(queue) \o <<>> = Tail(queue) /\ <<>> \in Seq(Events)
    BY <1>1
  <2>2. QED
    BY <1>1, <2>1 DEF TakesHead, resultVars
<1>3. UNCHANGED <<cash, position, marks, lastMarks, clock, fills>>
  BY <1>1 DEF HandleOrder, ApplyOrderUpdate, pipelineVars
<1>4. InTime' /\ ~BarQueued'
  <2>1. \A i \in 1..Len(fills') : fills'[i].time <= clock
    BY <1>3 DEF MarksInv, InTime
  <2>2. Len(<<>>) = 0
    OBVIOUS
  <2>3. QED
    BY <1>2, <1>3, <2>1, <2>2, TakenInTime DEF MarksInv
<1>5. ~BarQueued
  BY <1>1 DEF MarksInv, InTime, BarQueued, EventOf
<1>6. Seen' = Seen
  BY <1>4, <1>5 DEF Seen
<1>7. QED
  BY <1>3, <1>4, <1>6, MarksStay DEF MarksInv

(* A fill that is taken is applied, at a time no earlier than any before.  *)
LEMMA FillApplies ==
  ASSUME StepsInv, MarksInv, DeliverFill
  PROVE  /\ Head(queue) = queue[1] /\ queue[1] \in Fills /\ 1 \in 1..Len(queue)
         /\ ApplyFill(queue[1], MarkAfter(queue[1])) /\ Shares(queue[1]) > 0
         /\ fills' = Append(fills, queue[1]) /\ fills \in Seq(Fills)
         /\ queue' = Tail(queue)
         /\ UNCHANGED <<lastMarks, clock>>
         /\ queue[1].time = clock /\ clock > 0 /\ phase = "Executed"
<1>1. /\ StateTypeOK /\ queue \in Seq(Events) /\ queue # <<>> /\ Head(queue).type = "Fill"
      /\ HandleFill(Head(queue)) /\ queue' = Tail(queue) /\ fills' = Append(fills, Head(queue))
      /\ fills \in Seq(Fills)
  BY Types DEF StepsInv, DeliverFill
<1>2. Head(queue) = queue[1] /\ 1 \in 1..Len(queue) /\ queue[1] \in Events
  BY <1>1
<1>3. queue[1] \in Fills /\ IsFill(queue[1])
  BY <1>1, <1>2, EventKinds DEF IsFill
<1>4. FillQueuedNext(queue[1])
  BY <1>2, <1>3 DEF StepsInv, SaidOfBooks, QueueOwes, OwedEvents
<1>5. Applies(queue[1])
  <2>1. queue[1].order \notin closed
    BY <1>4 DEF StepsInv, SaidOfBooks, GivenOut, FillQueuedNext
  <2>2. QED
    BY <1>4, <2>1 DEF Applies, FillQueuedNext
<1>6. queue[1].time = clock /\ phase = "Executed"
  BY <1>2, <1>3 DEF MarksInv, InTime
<1>7. clock > 0
  <2>1. bars \in Seq(Bars) /\ at \in 1..Len(bars) /\ clock = bars[at].time
    BY <1>1, <1>6, Types DEF StepsInv, InStep, StateTypeOK, TypeOK
  <2>2. bars[at] \in Bars
    BY <2>1
  <2>3. QED
    BY <2>1, <2>2, BarSays
<1>8. QED
  BY <1>1, <1>2, <1>3, <1>4, <1>5, <1>6, <1>7 DEF HandleFill, FillQueuedNext, pipelineVars

LEMMA FillMarks ==
  ASSUME StepsInv, MarksInv, DeliverFill, UNCHANGED <<bars, at, phase, resultVars>>
  PROVE  MarksInv'
<1> DEFINE e == queue[1]
           n == Len(fills) + 1
<1>1. /\ e \in Fills /\ fills' = Append(fills, e) /\ fills \in Seq(Fills) /\ e.time = clock
      /\ clock > 0 /\ phase = "Executed" /\ ApplyFill(e, MarkAfter(e))
      /\ queue \in Seq(Events) /\ queue # <<>> /\ queue' = Tail(queue)
      /\ UNCHANGED <<lastMarks, clock, bars, at, phase>>
  BY FillApplies, Types DEF StepsInv, DeliverFill
<1> HIDE DEF e
<1>2. e.symbol \in Symbols /\ e.time \in Nat /\ clock \in Nat
  BY <1>1 DEF Fills
<1>3. /\ Len(fills') = n /\ n \in Nat /\ Len(fills) \in Nat /\ fills'[n] = e
      /\ \A i \in 1..Len(fills) : fills'[i] = fills[i] /\ fills[i].time \in Nat
                                  /\ fills[i].time <= clock
  <2>1. /\ Len(fills') = n /\ n \in Nat /\ Len(fills) \in Nat /\ fills'[n] = e
        /\ \A i \in 1..Len(fills) : fills'[i] = fills[i] /\ fills[i] \in Fills
    BY <1>1
  <2>2. QED
    BY <2>1 DEF MarksInv, InTime, Fills
<1>4. /\ position' = [position EXCEPT ![e.symbol] = @ + e.quantity]
      /\ marks' = Put(marks, e.symbol, MarkAfter(e))
  BY <1>1 DEF ApplyFill
<1>5. TakesHead(<<>>)
  <2>1. Tail(queue) \o <<>> = Tail(queue) /\ <<>> \in Seq(Events)
    BY <1>1
  <2>2. QED
    BY <1>1, <2>1 DEF TakesHead, resultVars
<1>6. InTime'
  <2>1. \A i \in 1..Len(fills') : fills'[i].time <= clock
    <3> SUFFICES ASSUME NEW i \in 1..Len(fills') PROVE fills'[i].time <= clock
      OBVIOUS
    <3>1. i \in 1..Len(fills) \/ i = n
      BY <1>3
    <3>2. QED
      BY <1>1, <1>2, <1>3, <3>1
  <2>2. Len(<<>>) = 0
    OBVIOUS
  <2>3. QED
    BY <1>1, <1>5, <2>1, <2>2, TakenInTime DEF MarksInv
<1>7. Seen' = Seen
  BY <1>1 DEF Seen
<1>8. BarsKept'
  BY <1>1, <1>7 DEF MarksInv, SaidOfMarks, BarsKept, SeenOf, IsLast, EventOf
<1>9. \A s : BarTime(s)' = BarTime(s)
  BY <1>1 DEF BarTime
<1>10. ASSUME NEW s \in Symbols, s # e.symbol
       PROVE  FillsSince(s)' = FillsSince(s)
  BY <1>3, <1>9, <1>10 DEF FillsSince
<1>11. ASSUME NEW s \in DOMAIN marks'
       PROVE  IF FillsSince(s)' = {}
              THEN s \in DOMAIN lastMarks' /\ marks'[s] = lastMarks'[s].price
              ELSE \E k : IsLast(k, FillsSince(s)') /\ marks'[s] = fills'[k].price
  <2>1. CASE s # e.symbol
    <3>1. s \in DOMAIN marks /\ marks'[s] = marks[s] /\ s \in Symbols
      BY <1>4, <2>1, Types DEF Put, StepsInv, PortfolioTypeOK
    <3>2. FillsSince(s)' = FillsSince(s)
      BY <1>10, <2>1, <3>1
    <3>3. \A k \in FillsSince(s) : fills'[k] = fills[k]
      BY <1>3 DEF FillsSince
    <3>4. QED
      BY <1>1, <3>1, <3>2, <3>3 DEF MarksInv, SaidOfMarks, MarksNewest, IsLast
  <2>2. CASE s = e.symbol /\ s \in DOMAIN lastMarks /\ lastMarks[s].time >= e.time
    <3>1. marks'[s] = lastMarks[s].price
      BY <1>4, <2>2 DEF Put, MarkAfter
    <3>2. lastMarks[s].time \in Nat
      <4>1. lastMarks[s] \in MarketEvents
        BY <2>2 DEF StepsInv, StateTypeOK, TypeOK
      <4>2. QED
        BY <4>1 DEF MarketEvents
    <3>3. FillsSince(s)' = {}
      <4>1. \A i \in 1..Len(fills') : fills'[i].time <= clock /\ fills'[i].time \in Nat
        <5> SUFFICES ASSUME NEW i \in 1..Len(fills')
                     PROVE  fills'[i].time <= clock /\ fills'[i].time \in Nat
          OBVIOUS
        <5>1. i \in 1..Len(fills) \/ i = n
          BY <1>3
        <5>2. QED
          BY <1>1, <1>2, <1>3, <5>1
      <4>2. BarTime(s)' = lastMarks[s].time
        BY <1>9, <2>2 DEF BarTime
      <4>3. QED
        BY <1>1, <1>2, <2>2, <3>2, <4>1, <4>2 DEF FillsSince
    <3>4. QED
      BY <1>1, <2>2, <3>1, <3>3
  <2>3. CASE s = e.symbol /\ ~(s \in DOMAIN lastMarks /\ lastMarks[s].time >= e.time)
    <3>1. marks'[s] = e.price
      BY <1>4, <2>3 DEF Put, MarkAfter
    <3>2. BarTime(s)' < e.time
      <4>1. s \in DOMAIN lastMarks => lastMarks[s].time \in Nat
        BY DEF StepsInv, StateTypeOK, TypeOK, MarketEvents
      <4>2. QED
        BY <1>1, <1>2, <1>9, <2>3, <4>1 DEF BarTime
    <3>3. n \in FillsSince(s)' /\ \A i \in FillsSince(s)' : i <= n
      <4>1. BarTime(s)' \in Int
        BY <1>9 DEF BarTime, StepsInv, StateTypeOK, TypeOK, MarketEvents
      <4>2. QED
        BY <1>2, <1>3, <2>3, <3>2, <4>1 DEF FillsSince
    <3>4. QED
      BY <1>3, <3>1, <3>3 DEF IsLast
  <2>4. QED
    BY <2>1, <2>2, <2>3
<1>12. MarksNewest'
  BY <1>11 DEF MarksNewest, IsLast
<1>13. HeldMarked'
  <2>1. position \in [Symbols -> Int]
    BY Types DEF StepsInv, PortfolioTypeOK
  <2>2. QED
    BY <1>4, <2>1 DEF MarksInv, SaidOfMarks, HeldMarked, Put
<1>14. QED
  BY <1>6, <1>8, <1>12, <1>13 DEF MarksInv, SaidOfMarks

LEMMA MarksInit ==
  ASSUME Init
  PROVE  MarksInv
<1>1. /\ queue = <<>> /\ fills = <<>> /\ curve = <<>> /\ lastMarks = <<>> /\ at = 1
      /\ phase = "Called" /\ cash = StartingCash /\ position = [s \in Symbols |-> 0]
      /\ marks = <<>> /\ bars \in Seq(Bars)
  BY BacktestAssumption DEF Init, PortfolioInit
<1>2. Len(queue) = 0 /\ Len(fills) = 0 /\ DOMAIN lastMarks = {} /\ DOMAIN marks = {}
  BY <1>1
<1>3. InTime
  BY <1>1, <1>2 DEF InTime, NotBegun
<1>4. Seen = {}
  BY <1>1 DEF Seen
<1>5. SaidOfMarks
  BY <1>1, <1>2, <1>4 DEF SaidOfMarks, BarsKept, SeenOf, MarksNewest, HeldMarked
<1>6. QED
  BY <1>3, <1>5 DEF MarksInv

LEMMA MarksStep ==
  ASSUME StepsInv, MarksInv, [Next]_vars
  PROVE  MarksInv'
<1>1. CASE RefuseNoBars \/ Begin \/ EndBar \/ Finish
  BY <1>1, CallerMarks
<1>2. CASE ExecuteBar
  BY <1>2, ExecuteMarks
<1>3. CASE FeedBar
  BY <1>3, FeedMarks
<1>4. CASE Dispatch
  BY <1>4, BarMarks, SignalMarks, OrderMarks, FillMarks DEF Dispatch
<1>5. CASE UNCHANGED vars
  <2>1. /\ UNCHANGED <<cash, position, marks, clock, lastMarks, bars, at, phase, queue, fills>>
        /\ UNCHANGED curve
    BY <1>5 DEF vars, accountVars, portfolioVars, pipelineVars, resultVars
  <2>2. Seen' = Seen
    BY <2>1 DEF Seen, BarQueued
  <2>3. InTime'
    BY <2>1 DEF MarksInv, InTime, NotBegun
  <2>4. QED
    BY <2>1, <2>2, <2>3, MarksStay DEF MarksInv
<1>6. QED
  BY <1>1, <1>2, <1>3, <1>4, <1>5 DEF Next, Caller

(* Each mark is, in every state, the newest price the run has delivered.   *)
THEOREM MarksHold == Spec => []MarksInv
<1>1. Init => MarksInv
  BY MarksInit
<1>2. StepsInv /\ MarksInv /\ [Next]_vars => MarksInv'
  BY MarksStep
<1>3. QED
  BY <1>1, <1>2, StepsHold, PTL DEF Spec

LEMMA LastIsMax ==
  ASSUME NEW S, \A i \in S : i \in Int, NEW k, IsLast(k, S)
  PROVE  Max(S) = k /\ S # {}
<1>1. k \in S /\ \A y \in S : k >= y
  BY DEF IsLast
<1>2. PICK x : x = Max(S)
  OBVIOUS
<1>3. x \in S /\ \A y \in S : x >= y
  BY <1>1, <1>2, Zenon DEF Max
<1>4. QED
  BY <1>1, <1>2, <1>3

(* A held symbol's mark is its newest price, once the bar is fed and all   *)
(* that it brought is settled.                                             *)
LEMMA HeldAtNewest ==
  ASSUME StepsInv, MarksInv, phase = "Fed", queue = <<>>, NEW s \in Symbols, position[s] # 0
  PROVE  marks[s] = NewestPrice(s)
<1>1. /\ bars \in Seq(Bars) /\ Len(bars) \in Nat /\ at \in 1..Len(bars) /\ at \in Nat
      /\ fills \in Seq(Fills) /\ Len(fills) \in Nat
  BY Types DEF StepsInv, InStep, StateTypeOK, TypeOK
<1>2. Accepted = Seen
  <2>1. ~BarQueued
    <3>1. Len(queue) = 0
      OBVIOUS
    <3>2. QED
      BY <3>1 DEF BarQueued
  <2>2. Min({at, Len(bars)}) = at
    <3>1. PICK x : x = Min({at, Len(bars)})
      OBVIOUS
    <3>2. at \in {at, Len(bars)} /\ \A y \in {at, Len(bars)} : at <= y
      BY <1>1
    <3>3. x \in {at, Len(bars)} /\ \A y \in {at, Len(bars)} : x <= y
      BY <3>1, <3>2, Zenon DEF Min
    <3>4. QED
      BY <1>1, <3>1, <3>2, <3>3
  <2>3. QED
    BY <1>1, <2>1, <2>2 DEF Accepted, Seen
<1> DEFINE own == {i \in Accepted : bars[i].symbol = s}
           bar == IF own = {} THEN [time |-> 0, price |-> 0] ELSE bars[Max(own)]
           later == {i \in 1..Len(fills) : fills[i].symbol = s /\ fills[i].time > bar.time}
<1>3. own = SeenOf(s) /\ \A i \in own : i \in Int
  BY <1>1, <1>2 DEF SeenOf, Seen
<1>4. NewestPrice(s) = IF later = {} THEN bar.price ELSE fills[Max(later)].price
  BY DEF NewestPrice
<1> HIDE DEF own
<1>5. bar.time = BarTime(s) /\ (s \in DOMAIN lastMarks => bar.price = lastMarks[s].price)
  <2>1. CASE s \in DOMAIN lastMarks
    <3>1. PICK k : IsLast(k, own) /\ lastMarks[s] = EventOf(bars[k])
      BY <1>3, <2>1 DEF MarksInv, SaidOfMarks, BarsKept
    <3>2. Max(own) = k /\ own # {}
      BY <1>3, <3>1, LastIsMax
    <3>3. QED
      BY <2>1, <3>1, <3>2 DEF BarTime, EventOf
  <2>2. CASE s \notin DOMAIN lastMarks
    <3>1. own = {}
      BY <1>3, <2>2 DEF MarksInv, SaidOfMarks, BarsKept
    <3>2. QED
      BY <2>2, <3>1 DEF BarTime
  <2>3. QED
    BY <2>1, <2>2
<1> HIDE DEF bar
<1>6. later = FillsSince(s)
  BY <1>5 DEF FillsSince
<1>7. s \in DOMAIN marks /\ \A i \in later : i \in Int
  BY DEF MarksInv, SaidOfMarks, HeldMarked
<1> HIDE DEF later
<1>8. CASE later = {}
  BY <1>4, <1>5, <1>6, <1>7, <1>8 DEF MarksInv, SaidOfMarks, MarksNewest
<1>9. CASE later # {}
  <2>1. PICK k : IsLast(k, later) /\ marks[s] = fills[k].price
    BY <1>6, <1>7, <1>9 DEF MarksInv, SaidOfMarks, MarksNewest
  <2>2. Max(later) = k
    BY <1>7, <2>1, LastIsMax
  <2>3. QED
    BY <1>4, <1>9, <2>1, <2>2
<1>10. QED
  BY <1>8, <1>9

(* Every snapshot of a backtest values what is held at the newest price,   *)
(* whatever fills were applied after the bar's execution: the bridge's     *)
(* mark at a fill never hides a newer close.                               *)
THEOREM SnapshotsValued == Spec => SnapshotsAtNewest
<1> DEFINE Valued == Len(curve') > Len(curve) =>
                       \A s \in Symbols : position[s] # 0 => marks[s] = NewestPrice(s)
<1>1. ASSUME StepsInv, MarksInv, Next
      PROVE  Valued
  <2>1. CASE RefuseNoBars \/ ExecuteBar \/ FeedBar \/ Finish \/ Dispatch
    <3>1. UNCHANGED curve
      BY <2>1 DEF RefuseNoBars, ExecuteBar, FeedBar, Finish, Dispatch, resultVars
    <3>2. curve \in Seq(Int)
      BY <1>1 DEF StepsInv, StateTypeOK, TypeOK
    <3>3. QED
      BY <3>1, <3>2
  <2>2. CASE Begin
    BY <1>1, <2>2 DEF Begin, MarksInv, InTime, NotBegun
  <2>3. CASE EndBar
    BY <1>1, <2>3, HeldAtNewest DEF EndBar, Drained
  <2>4. QED
    BY <1>1, <2>1, <2>2, <2>3 DEF Next, Caller
<1>2. ASSUME StepsInv, MarksInv, UNCHANGED vars
      PROVE  Valued
  <2>1. UNCHANGED curve /\ curve \in Seq(Int)
    BY <1>2 DEF vars, resultVars, StepsInv, StateTypeOK, TypeOK
  <2>2. QED
    BY <2>1
<1>3. StepsInv /\ MarksInv /\ [Next]_vars => [Valued]_vars
  BY <1>1, <1>2
<1>4. QED
  BY <1>3, StepsHold, MarksHold, PTL DEF Spec, SnapshotsAtNewest

-----------------------------------------------------------------------------
(* The curve.                                                              *)

(* The sum of differences is the difference of the sums.                   *)
LEMMA SumOfDifferences ==
  ASSUME NEW f, NEW g, NEW h, NEW S, Whole(f, S), Whole(g, S), \A x \in S : h[x] = f[x] - g[x]
  PROVE  SumFunctionOnSet(h, S) = SumFunctionOnSet(f, S) - SumFunctionOnSet(g, S)
<1> DEFINE T == {n \in Nat : \A s \in SUBSET S : Cardinality(s) = n =>
                   SumFunctionOnSet(h, s) = SumFunctionOnSet(f, s) - SumFunctionOnSet(g, s)}
<1>0. \A s \in SUBSET S : Whole(f, s) /\ Whole(g, s) /\ Whole(h, s)
  BY FS_Subset DEF Whole
<1>1. 0 \in T
  <2>1. \A s \in SUBSET S : Cardinality(s) = 0 => s = {}
    BY <1>0, FS_EmptySet DEF Whole
  <2>2. /\ SumFunctionOnSet(h, {}) = 0 /\ SumFunctionOnSet(f, {}) = 0
        /\ SumFunctionOnSet(g, {}) = 0
    BY SumEmpty
  <2>3. QED
    BY <2>1, <2>2
<1>2. ASSUME NEW n \in Nat, n \in T PROVE n + 1 \in T
  <2> SUFFICES ASSUME NEW s \in SUBSET S, Cardinality(s) = n + 1
               PROVE  SumFunctionOnSet(h, s) = SumFunctionOnSet(f, s) - SumFunctionOnSet(g, s)
    OBVIOUS
  <2>1. s # {} /\ IsFiniteSet(s)
    BY <1>0, FS_EmptySet DEF Whole
  <2>2. PICK y \in s : TRUE
    BY <2>1
  <2>3. s \ {y} \in SUBSET S /\ Cardinality(s \ {y}) = n
    BY <2>1, <2>2, OneLess
  <2>4. /\ SumFunctionOnSet(f, s) = f[y] + SumFunctionOnSet(f, s \ {y})
        /\ SumFunctionOnSet(g, s) = g[y] + SumFunctionOnSet(g, s \ {y})
        /\ SumFunctionOnSet(h, s) = h[y] + SumFunctionOnSet(h, s \ {y})
    BY <1>0, <2>2, SumAny
  <2>5. SumFunctionOnSet(h, s \ {y}) =
          SumFunctionOnSet(f, s \ {y}) - SumFunctionOnSet(g, s \ {y})
    BY <1>2, <2>3
  <2>6. /\ SumFunctionOnSet(f, s \ {y}) \in Int /\ SumFunctionOnSet(g, s \ {y}) \in Int
        /\ f[y] \in Int /\ g[y] \in Int /\ h[y] = f[y] - g[y]
    BY <1>0, <2>2, <2>3, SumInt DEF Whole
  <2>7. QED
    BY <2>4, <2>5, <2>6
<1> HIDE DEF T
<1>3. \A n \in Nat : n \in T
  BY <1>1, <1>2, Induction
<1>4. Cardinality(S) \in Nat /\ S \in SUBSET S
  BY FS_CardinalityType DEF Whole
<1>5. QED
  BY <1>3, <1>4 DEF T

LEMMA SumOfZeros ==
  ASSUME NEW f, NEW S, IsFiniteSet(S), \A x \in S : f[x] = 0
  PROVE  SumFunctionOnSet(f, S) = 0
<1>1. Whole(f, S) /\ \A x \in S : f[x] = f[x] - f[x]
  BY DEF Whole
<1>2. SumFunctionOnSet(f, S) = SumFunctionOnSet(f, S) - SumFunctionOnSet(f, S)
  BY <1>1, SumOfDifferences
<1>3. SumFunctionOnSet(f, S) \in Int
  BY <1>1, SumInt
<1>4. QED
  BY <1>2, <1>3

(* The last bar of its time.                                               *)
LastOfTime(i) == i = Len(bars) \/ bars[i + 1].time # bars[i].time

(* The times that are done with.                                           *)
TimesDone == {bars[i].time : i \in {k \in 1..Len(bars) : k < at /\ LastOfTime(k)}}

(* A snapshot for each time done with, after that of the starting cash;    *)
(* the last one is of the account as it is in the end.                     *)
CurveInv ==
    /\ ~NotBegun =>
          /\ Len(curve) = Cardinality(TimesDone) + 1 /\ curve[1] = StartingCash
          /\ phase \in {"Bar", "Done"} /\ at > Len(bars) => curve[Len(curve)] = TotalEquity
    /\ phase = "Done" => at > Len(bars) /\ report = Analyze(curve, fills)

LEMMA StartingEquity ==
  ASSUME \A s \in Symbols : position[s] = 0, PortfolioTypeOK
  PROVE  TotalEquity = cash
<1> DEFINE value == [s \in Symbols |-> ValueOf(s)]
<1>1. \A s \in Symbols : value[s] = 0
  <2> SUFFICES ASSUME NEW s \in Symbols PROVE ValueOf(s) = 0
    OBVIOUS
  <2>1. s \in DOMAIN marks => marks[s] \in Nat
    BY DEF PortfolioTypeOK
  <2>2. QED
    BY <2>1 DEF ValueOf
<1>2. DOMAIN value = Symbols
  OBVIOUS
<1> HIDE DEF value
<1>3. SumFunction(value) = 0
  BY <1>1, <1>2, SumOfZeros, FeesAssumption DEF SumFunction
<1>4. QED
  BY <1>3 DEF TotalEquity, value, PortfolioTypeOK

LEMMA CurveTyped ==
  ASSUME StepsInv
  PROVE  /\ bars \in Seq(Bars) /\ Len(bars) \in Nat /\ at \in Nat /\ at \in 1..(Len(bars) + 1)
         /\ curve \in Seq(Int) /\ Len(curve) \in Nat /\ IsFiniteSet(TimesDone)
         /\ Cardinality(TimesDone) \in Nat /\ TotalEquity \in Int
         /\ \A i \in 1..Len(bars) : bars[i].time \in Nat
<1>1. /\ bars \in Seq(Bars) /\ Len(bars) \in Nat /\ at \in Nat /\ at \in 1..(Len(bars) + 1)
      /\ curve \in Seq(Int) /\ PortfolioTypeOK /\ MaxTime \in Nat
  BY Types DEF StepsInv, StateTypeOK, TypeOK
<1>2. \A i \in 1..Len(bars) : bars[i].time \in 1..MaxTime /\ bars[i].time \in Nat
  <2> SUFFICES ASSUME NEW i \in 1..Len(bars)
               PROVE  bars[i].time \in 1..MaxTime /\ bars[i].time \in Nat
    OBVIOUS
  <2>1. bars[i] \in Bars
    BY <1>1
  <2>2. QED
    BY <2>1, BarSays
<1>3. IsFiniteSet(TimesDone)
  <2>1. TimesDone \subseteq 1..MaxTime
    BY <1>2 DEF TimesDone
  <2>2. IsFiniteSet(1..MaxTime)
    BY <1>1, FS_Interval
  <2>3. QED
    BY <2>1, <2>2, FS_Subset
<1>4. QED
  BY <1>1, <1>2, <1>3, EquityInt, FS_CardinalityType

LEMMA EndBarCurve ==
  ASSUME StepsInv, MarksInv, CurveInv, EndBar
  PROVE  CurveInv'
<1>1. /\ phase = "Fed" /\ phase' = "Bar" /\ at' = at + 1 /\ UNCHANGED <<bars, accountVars>>
      /\ curve' = IF LastAtTime THEN Append(curve, TotalEquity) ELSE curve
  BY DEF EndBar
<1>2. /\ at \in 1..Len(bars) /\ ~NotBegun /\ ~NotBegun'
      /\ Len(curve) = Cardinality(TimesDone) + 1 /\ curve[1] = StartingCash
  BY <1>1, CurveTyped DEF StepsInv, InStep, NotBegun, CurveInv
<1>3. \A i, j \in 1..Len(bars) : i < j => bars[i].time <= bars[j].time
  BY <1>2 DEF MarksInv, InTime
<1>4. TotalEquity' = TotalEquity
  BY <1>1 DEF TotalEquity, ValueOf, accountVars, portfolioVars
<1>5. LastAtTime = LastOfTime(at) /\ \A k : LastOfTime(k)' = LastOfTime(k)
  BY <1>1 DEF LastAtTime, LastOfTime
<1>6. CASE ~LastAtTime
  <2>1. TimesDone' = TimesDone
    BY <1>1, <1>2, <1>5, <1>6, CurveTyped DEF TimesDone
  <2>2. at # Len(bars) /\ at' <= Len(bars)
    BY <1>1, <1>2, <1>6, CurveTyped DEF LastAtTime
  <2>3. curve' = curve
    BY <1>1, <1>6
  <2>4. Len(curve') = Cardinality(TimesDone') + 1 /\ curve'[1] = StartingCash
    BY <1>2, <2>1, <2>3
  <2>5. ~(at' > Len(bars'))
    BY <1>1, <2>2, CurveTyped
  <2>6. QED
    BY <1>1, <2>4, <2>5 DEF CurveInv
<1>7. CASE LastAtTime
  <2> DEFINE D == {k \in 1..Len(bars) : k < at /\ LastOfTime(k)}
             E == {k \in 1..Len(bars) : k < at + 1 /\ LastOfTime(k)}
  <2>0. E = D \cup {at}
    <3>1. at \in 1..Len(bars) /\ LastOfTime(at)
      BY <1>2, <1>5, <1>7
    <3>2. \A k \in 1..Len(bars) : k < at + 1 <=> k < at \/ k = at
      BY CurveTyped
    <3>3. QED
      BY <3>1, <3>2
  <2>a. TimesDone = {bars[i].time : i \in D} /\ TimesDone' = {bars[i].time : i \in E}
    BY <1>1, <1>5 DEF TimesDone
  <2> HIDE DEF D, E
  <2>1. TimesDone' = TimesDone \cup {bars[at].time}
    BY <2>0, <2>a
  <2>2. bars[at].time \notin TimesDone
    <3> SUFFICES ASSUME NEW k \in 1..Len(bars), k < at, LastOfTime(k), bars[k].time = bars[at].time
                 PROVE  FALSE
      BY DEF TimesDone
    <3>1. k + 1 \in 1..Len(bars) /\ k # Len(bars) /\ k \in Int /\ at \in Int
      BY <1>2, CurveTyped
    <3>2. bars[k].time <= bars[k + 1].time /\ bars[k + 1].time <= bars[at].time
      BY <1>2, <1>3, <3>1, CurveTyped
    <3>3. bars[k].time # bars[k + 1].time
      BY <3>1 DEF LastOfTime
    <3>4. QED
      BY <1>2, <3>1, <3>2, <3>3, CurveTyped
  <2>3. Cardinality(TimesDone') = Cardinality(TimesDone) + 1
    <3>1. Cardinality(TimesDone \cup {bars[at].time}) = Cardinality(TimesDone) + 1
      BY <2>2, CurveTyped, FS_AddElement, Zenon
    <3>2. QED
      BY <2>1, <3>1
  <2>4. curve' = Append(curve, TotalEquity) /\ TotalEquity \in Int /\ curve \in Seq(Int)
    BY <1>1, <1>7, CurveTyped
  <2>5. Len(curve) >= 1
    BY <1>2, CurveTyped
  <2>6. /\ Len(curve') = Len(curve) + 1 /\ curve'[1] = curve[1]
        /\ curve'[Len(curve')] = TotalEquity
    BY <2>4, <2>5
  <2>7. QED
    BY <1>1, <1>2, <1>4, <2>3, <2>6, CurveTyped DEF CurveInv
<1>8. QED
  BY <1>6, <1>7

LEMMA CurveStep ==
  ASSUME StepsInv, MarksInv, CurveInv, [Next]_vars
  PROVE  CurveInv'
<1>1. CASE RefuseNoBars
  BY <1>1 DEF RefuseNoBars, CurveInv, NotBegun
<1>2. CASE Begin
  <2>1. /\ phase = "Called" /\ phase' = "Bar" /\ bars # <<>> /\ bars' = Sorted(bars)
        /\ curve' = <<TotalEquity>> /\ UNCHANGED at
    BY <1>2 DEF Begin
  <2>2. /\ at = 1 /\ \A s \in Symbols : position[s] = 0
        /\ cash = StartingCash
    BY <2>1 DEF MarksInv, InTime, NotBegun
  <2>3. TotalEquity = StartingCash /\ TotalEquity \in Int
    BY <2>2, StartingEquity, Types, CurveTyped DEF StepsInv
  <2>4. Len(bars') = Len(bars) /\ Len(bars) \in Nat /\ Len(bars) >= 1
    <3>1. bars \in Seq(Bars)
      BY CurveTyped
    <3>2. QED
      BY <2>1, <3>1, SortedIs
  <2>5. TimesDone' = {}
    BY <2>1, <2>2, <2>4 DEF TimesDone
  <2>6. Cardinality(TimesDone') = 0 /\ Len(curve') = 1 /\ curve'[1] = StartingCash
    BY <2>1, <2>3, <2>5, FS_EmptySet
  <2>7. ~(at' > Len(bars'))
    BY <2>1, <2>2, <2>4
  <2>8. QED
    BY <2>1, <2>6, <2>7 DEF CurveInv
<1>3. CASE ExecuteBar
  <2>1. /\ phase = "Bar" /\ phase' = "Executed" /\ UNCHANGED <<bars, at, curve>>
    BY <1>3 DEF ExecuteBar, resultVars
  <2>2. TimesDone' = TimesDone
    BY <2>1 DEF TimesDone, LastOfTime
  <2>3. QED
    BY <2>1, <2>2 DEF CurveInv, NotBegun
<1>4. CASE FeedBar
  <2>1. /\ phase = "Executed" /\ phase' = "Fed" /\ UNCHANGED <<bars, at, curve>>
    BY <1>4 DEF FeedBar, resultVars
  <2>2. TimesDone' = TimesDone
    BY <2>1 DEF TimesDone, LastOfTime
  <2>3. QED
    BY <2>1, <2>2 DEF CurveInv, NotBegun
<1>5. CASE EndBar
  BY <1>5, EndBarCurve
<1>6. CASE Finish
  <2>1. /\ phase = "Bar" /\ phase' = "Done" /\ at > Len(bars) /\ UNCHANGED <<bars, at, curve, fills>>
        /\ report' = Analyze(curve, fills) /\ UNCHANGED accountVars
    BY <1>6 DEF Finish
  <2>2. TimesDone' = TimesDone
    BY <2>1 DEF TimesDone, LastOfTime
  <2>3. TotalEquity' = TotalEquity
    BY <2>1 DEF TotalEquity, ValueOf, accountVars, portfolioVars
  <2>4. QED
    BY <2>1, <2>2, <2>3 DEF CurveInv, NotBegun
<1>7. CASE Dispatch
  <2>1. queue # <<>> /\ UNCHANGED <<bars, at, phase, curve, report>>
    BY <1>7 DEF Dispatch, DeliverBar, DeliverSignal, DeliverOrder, DeliverFill, resultVars
  <2>2. phase \notin {"Called", "Refused", "Bar", "Done"}
    BY <2>1 DEF StepsInv, InStep
  <2>3. TimesDone' = TimesDone
    BY <2>1 DEF TimesDone, LastOfTime
  <2>4. QED
    BY <2>1, <2>2, <2>3 DEF CurveInv, NotBegun
<1>8. CASE UNCHANGED vars
  <2>1. UNCHANGED <<bars, at, phase, curve, report, fills, cash, position, marks>>
    BY <1>8 DEF vars, resultVars, accountVars, portfolioVars
  <2>2. TimesDone' = TimesDone /\ TotalEquity' = TotalEquity
    BY <2>1 DEF TimesDone, LastOfTime, TotalEquity, ValueOf
  <2>3. QED
    BY <2>1, <2>2 DEF CurveInv, NotBegun
<1>9. QED
  BY <1>1, <1>2, <1>3, <1>4, <1>5, <1>6, <1>7, <1>8 DEF Next, Caller

THEOREM CurveHolds == Spec => []CurveInv
<1>1. Init => CurveInv
  BY DEF Init, CurveInv, NotBegun
<1>2. StepsInv /\ MarksInv /\ CurveInv /\ [Next]_vars => CurveInv'
  BY CurveStep
<1>3. QED
  BY <1>1, <1>2, StepsHold, MarksHold, PTL DEF Spec

LEMMA AllTimesDone ==
  ASSUME StepsInv, at > Len(bars)
  PROVE  TimesDone = Times
<1>1. TimesDone \subseteq Times
  BY DEF TimesDone, Times
<1>2. ASSUME NEW i \in 1..Len(bars)
      PROVE  bars[i].time \in TimesDone
  <2> DEFINE T == {Len(bars) - k : k \in {k \in 1..Len(bars) : bars[k].time = bars[i].time}}
  <2>1. T \in SUBSET Nat /\ T # {}
    BY CurveTyped
  <2>2. PICK d \in T : \A y \in T : d <= y
    BY <2>1, Smallest
  <2>3. PICK k \in 1..Len(bars) : d = Len(bars) - k /\ bars[k].time = bars[i].time
    BY <2>2
  <2>4. LastOfTime(k)
    <3> SUFFICES ASSUME k # Len(bars), bars[k + 1].time = bars[k].time PROVE FALSE
      BY DEF LastOfTime
    <3>1. k + 1 \in 1..Len(bars) /\ bars[k + 1].time = bars[i].time
      BY <2>3, CurveTyped
    <3>2. Len(bars) - (k + 1) \in T
      BY <3>1
    <3>3. d <= Len(bars) - (k + 1)
      BY <2>2, <3>2
    <3>4. QED
      BY <2>3, <3>3, CurveTyped
  <2>5. k < at
    BY CurveTyped
  <2>6. QED
    BY <2>3, <2>4, <2>5 DEF TimesDone
<1>3. QED
  BY <1>1, <1>2 DEF Times

LEMMA SnapshotsCounted ==
  ASSUME StepsInv, CurveInv
  PROVE  SnapshotPerTime
<1>1. SUFFICES ASSUME phase = "Done" PROVE Len(curve) = Cardinality(Times) + 1
  BY DEF SnapshotPerTime
<1>2. at > Len(bars) /\ Len(curve) = Cardinality(TimesDone) + 1
  BY <1>1 DEF CurveInv, NotBegun
<1>3. QED
  BY <1>2, AllTimesDone

-----------------------------------------------------------------------------
(* The analyzer reads its curve and its fills one by one.                  *)

(* g takes base through the first n of the steps.                          *)
Takes(g, base, step, n) == g = [i \in 0..n |-> IF i = 0 THEN base ELSE step[i][g[i - 1]]]

(* Steps that stay in R can be taken.                                      *)
LEMMA StepsTaken ==
  ASSUME NEW n \in Nat, NEW R, NEW base \in R, NEW step \in [1..n -> [R -> R]]
  PROVE  \E g \in [0..n -> R] : Takes(g, base, step, n)
<1> DEFINE T == {m \in Nat : m <= n => \E g \in [0..m -> R] : Takes(g, base, step, m)}
<1>1. 0 \in T
  <2> DEFINE g == [i \in 0..0 |-> base]
  <2>1. g \in [0..0 -> R]
    OBVIOUS
  <2>2. g = [i \in 0..0 |-> IF i = 0 THEN base ELSE step[i][g[i - 1]]]
    OBVIOUS
  <2>3. QED
    BY <2>1, <2>2 DEF Takes
<1>2. ASSUME NEW m \in Nat, m \in T
      PROVE  m + 1 \in T
  <2> SUFFICES ASSUME m + 1 <= n
               PROVE  \E h \in [0..(m + 1) -> R] : Takes(h, base, step, m + 1)
    OBVIOUS
  <2>1. PICK g \in [0..m -> R] : Takes(g, base, step, m)
    BY <1>2
  <2>2. \A i \in 0..m : g[i] = IF i = 0 THEN base ELSE step[i][g[i - 1]]
    BY <2>1, Zenon DEF Takes
  <2> DEFINE h == [i \in 0..(m + 1) |-> IF i = 0 THEN base ELSE step[i][g[i - 1]]]
  <2>3. \A i \in 0..m : i \in 0..(m + 1) /\ h[i] = g[i]
    BY <2>2
  <2>4. \A i \in 0..(m + 1) : i # 0 => i - 1 \in 0..m /\ i \in 1..n
    OBVIOUS
  <2>5. h \in [0..(m + 1) -> R]
    <3>1. \A i \in 0..(m + 1) : (IF i = 0 THEN base ELSE step[i][g[i - 1]]) \in R
      BY <2>1, <2>4
    <3>2. QED
      BY <3>1
  <2>6. h = [i \in 0..(m + 1) |-> IF i = 0 THEN base ELSE step[i][h[i - 1]]]
    <3>1. \A i \in 0..(m + 1) : i # 0 => h[i - 1] = g[i - 1]
      BY <2>3, <2>4
    <3>2. QED
      BY <3>1
  <2> HIDE DEF h
  <2>7. QED
    BY <2>5, <2>6 DEF Takes
<1> HIDE DEF T
<1>3. n \in T
  BY <1>1, <1>2, Induction
<1>4. QED
  BY <1>3 DEF T

-----------------------------------------------------------------------------
(* The drawdown.                                                           *)

Falls == {d \in Int \X Int : d[2] > 0}

LEMMA Fractions ==
  ASSUME NEW a \in Falls, NEW b \in Falls, NEW c \in Falls,
         Deeper(b, a), ~Deeper(c, a)
  PROVE  ~Deeper(c, b)
<1> DEFINE a1 == a[1]  a2 == a[2]  b1 == b[1]  b2 == b[2]  c1 == c[1]  c2 == c[2]
<1>1. /\ a1 \in Int /\ b1 \in Int /\ c1 \in Int
      /\ a2 \in Nat /\ b2 \in Nat /\ c2 \in Nat /\ a2 >= 1 /\ b2 >= 1 /\ c2 >= 1
  BY DEF Falls
<1>2. b1 * a2 < a1 * b2 /\ c1 * a2 >= a1 * c2
  BY <1>1 DEF Deeper
<1> HIDE DEF a1, a2, b1, b2, c1, c2
<1>3. SUFFICES ASSUME c1 * b2 < b1 * c2 PROVE FALSE
  BY <1>1 DEF Deeper, b1, b2, c1, c2
<1>4. a1 * b2 - b1 * a2 >= 1 /\ c1 * a2 - a1 * c2 >= 0 /\ b1 * c2 - c1 * b2 >= 1
  BY <1>1, <1>2, <1>3
<1>5. (a1 * b2 - b1 * a2) * c2 >= 1
  <2> DEFINE x == a1 * b2 - b1 * a2
  <2>1. x \in Nat /\ x >= 1
    BY <1>1, <1>4
  <2> HIDE DEF x
  <2>2. x * c2 >= 1
    BY <1>1, <2>1
  <2>3. QED
    BY <2>2 DEF x
<1>6. (c1 * a2 - a1 * c2) * b2 >= 0
  <2> DEFINE x == c1 * a2 - a1 * c2
  <2>1. x \in Nat
    BY <1>1, <1>4
  <2> HIDE DEF x
  <2>2. x * b2 >= 0
    BY <1>1, <2>1
  <2>3. QED
    BY <2>2 DEF x
<1>7. (b1 * c2 - c1 * b2) * a2 >= 1
  <2> DEFINE x == b1 * c2 - c1 * b2
  <2>1. x \in Nat /\ x >= 1
    BY <1>1, <1>4
  <2> HIDE DEF x
  <2>2. x * a2 >= 1
    BY <1>1, <2>1
  <2>3. QED
    BY <2>2 DEF x
<1>8. (a1 * b2 - b1 * a2) * c2 + (c1 * a2 - a1 * c2) * b2 + (b1 * c2 - c1 * b2) * a2 = 0
  BY <1>1
<1>9. /\ (a1 * b2 - b1 * a2) * c2 \in Int /\ (c1 * a2 - a1 * c2) * b2 \in Int
      /\ (b1 * c2 - c1 * b2) * a2 \in Int
  BY <1>1
<1>10. QED
  BY <1>5, <1>6, <1>7, <1>8, <1>9

(* A fall from the peak is at least as deep as one from a lower equity,    *)
(* when it does not end below 0.                                           *)
LEMMA PeakFalls ==
  ASSUME NEW e \in Nat, NEW p \in Nat, NEW q \in Nat, p > 0, p <= q, NEW d \in Falls,
         ~Deeper(<<e, q>>, d)
  PROVE  ~Deeper(<<e, p>>, d)
<1> DEFINE d1 == d[1]  d2 == d[2]
<1>1. d1 \in Int /\ d2 \in Nat /\ d2 >= 1
  BY DEF Falls
<1>2. e * d2 >= d1 * q
  BY <1>1 DEF Deeper
<1> HIDE DEF d1, d2
<1>3. e * d2 >= d1 * p
  <2>1. e * d2 \in Nat
    BY <1>1
  <2>2. CASE d1 >= 0
    <3>1. d1 \in Nat /\ q - p \in Nat
      BY <1>1, <2>2
    <3>2. d1 * (q - p) \in Nat
      BY <3>1
    <3>3. d1 * q = d1 * p + d1 * (q - p)
      BY <1>1
    <3>4. d1 * q \in Int /\ d1 * p \in Int
      BY <1>1
    <3>5. QED
      BY <1>2, <2>1, <3>2, <3>3, <3>4
  <2>3. CASE d1 < 0
    <3>1. -d1 \in Nat
      BY <1>1, <2>3
    <3>2. (-d1) * p \in Nat /\ d1 * p = -((-d1) * p)
      BY <1>1, <3>1
    <3>3. QED
      BY <2>1, <3>2
  <2>4. QED
    BY <1>1, <2>2, <2>3
<1>4. QED
  BY <1>1, <1>3 DEF Deeper, d1, d2

LEMMA PeakIs ==
  ASSUME NEW equities \in Seq(Int), NEW i \in 1..Len(equities)
  PROVE  /\ Peak(equities, i) \in Nat
         /\ \A k \in 1..i : equities[k] <= Peak(equities, i)
         /\ Peak(equities, i) > 0 => \E k \in 1..i : Peak(equities, i) = equities[k]
<1> DEFINE S(n) == {equities[j] : j \in 1..n} \cup {0}
           T == {n \in Nat : n <= Len(equities) => \E x \in S(n) : \A y \in S(n) : x >= y}
<1>1. Len(equities) \in Nat /\ \A j \in 1..Len(equities) : equities[j] \in Int
  OBVIOUS
<1>2. 0 \in T
  BY 1..0 = {}
<1>3. ASSUME NEW n \in Nat, n \in T
      PROVE  n + 1 \in T
  <2> SUFFICES ASSUME n + 1 <= Len(equities)
               PROVE  \E x \in S(n + 1) : \A y \in S(n + 1) : x >= y
    OBVIOUS
  <2>1. PICK x \in S(n) : \A y \in S(n) : x >= y
    BY <1>1, <1>3
  <2>2. n + 1 \in 1..Len(equities) /\ 1..(n + 1) = 1..n \cup {n + 1}
    BY <1>1
  <2>3. S(n + 1) = S(n) \cup {equities[n + 1]} /\ equities[n + 1] \in Int
    BY <1>1, <2>2
  <2>4. \A y \in S(n) : y \in Int
    BY <1>1
  <2> HIDE DEF S
  <2>5. CASE x >= equities[n + 1]
    BY <2>1, <2>3, <2>5
  <2>6. CASE ~(x >= equities[n + 1])
    <3>1. \A y \in S(n + 1) : equities[n + 1] >= y
      BY <2>1, <2>3, <2>4, <2>6
    <3>2. QED
      BY <2>3, <3>1
  <2>7. QED
    BY <2>5, <2>6
<1> HIDE DEF T
<1>a. \A n \in Nat : n \in T
  BY <1>2, <1>3, Induction
<1>4. i \in T /\ i \in Nat /\ i <= Len(equities)
  BY <1>1, <1>a
<1>5. \E x \in S(i) : \A y \in S(i) : x >= y
  BY <1>4 DEF T
<1>6. PICK p : p = Peak(equities, i)
  OBVIOUS
<1>7. p = CHOOSE x \in S(i) : \A y \in S(i) : x >= y
  BY <1>6, Zenon DEF Peak, Max
<1> HIDE DEF S
<1>8. p \in S(i) /\ \A y \in S(i) : p >= y
  BY <1>5, <1>7, Zenon
<1>9. p \in Int /\ p >= 0 /\ \A k \in 1..i : equities[k] <= p
  BY <1>1, <1>4, <1>8 DEF S
<1>10. p > 0 => \E k \in 1..i : p = equities[k]
  BY <1>8, <1>9 DEF S
<1>11. QED
  BY <1>6, <1>9, <1>10

(* The falls up to the i-th equity are no deeper than d, which is one.     *)
IsDeepest(equities, i, d) ==
    /\ d \in Falls
    /\ \A k \in 1..i : \A j \in k..i :
          (/\ equities[k] > 0
           /\ equities[j] >= 0 \/ \A l \in 1..j : equities[l] <= equities[k])
          => ~Deeper(<<equities[j], equities[k]>>, d)
    /\ \/ d = NoDrawdown
       \/ \E k \in 1..i : \E j \in k..i :
             equities[k] > 0 /\ d = <<equities[j], equities[k]>>

(* One more equity.                                                        *)
FallTo(equities, i, d) ==
    LET here == <<equities[i], Peak(equities, i)>>
    IN  IF Peak(equities, i) > 0 /\ Deeper(here, d) THEN here ELSE d

LEMMA FallToDeepest ==
  ASSUME NEW equities \in Seq(Int), NEW i \in 1..Len(equities), NEW d,
         IsDeepest(equities, i - 1, d)
  PROVE  IsDeepest(equities, i, FallTo(equities, i, d))
<1> DEFINE p == Peak(equities, i)
           here == <<equities[i], p>>
           x == FallTo(equities, i, d)
<1>1. /\ Len(equities) \in Nat /\ i \in Nat /\ \A j \in 1..i : equities[j] \in Int
      /\ d \in Falls
  BY DEF IsDeepest
<1>2. /\ p \in Nat /\ \A k \in 1..i : equities[k] <= p
      /\ p > 0 => \E k \in 1..i : p = equities[k]
  BY PeakIs
<1>3. x = IF p > 0 /\ Deeper(here, d) THEN here ELSE d
  BY DEF FallTo
<1> HIDE DEF p, x
<1>4. p > 0 => here \in Falls
  BY <1>1, <1>2 DEF Falls
<1>5. x \in Falls
  BY <1>1, <1>3, <1>4
<1>6. p > 0 => ~Deeper(here, x)
  <2>1. CASE Deeper(here, d) /\ p > 0
    <3>1. x = here
      BY <1>3, <2>1
    <3>2. here[1] * here[2] \in Int
      BY <1>1, <1>2
    <3>3. QED
      BY <3>1, <3>2 DEF Deeper
  <2>2. CASE ~Deeper(here, d)
    BY <1>3, <2>2
  <2>3. QED
    BY <2>1, <2>2
<1>7. ASSUME NEW c \in Falls, ~Deeper(c, d)
      PROVE  ~Deeper(c, x)
  <2>1. CASE p > 0 /\ Deeper(here, d)
    BY <1>1, <1>3, <1>4, <1>7, <2>1, Fractions
  <2>2. CASE ~(p > 0 /\ Deeper(here, d))
    BY <1>3, <1>7, <2>2
  <2>3. QED
    BY <2>1, <2>2
<1>8. ASSUME NEW k \in 1..i, NEW j \in k..i, equities[k] > 0,
             equities[j] >= 0 \/ \A l \in 1..j : equities[l] <= equities[k]
      PROVE  ~Deeper(<<equities[j], equities[k]>>, x)
  <2>1. equities[k] \in Int /\ equities[j] \in Int /\ <<equities[j], equities[k]>> \in Falls
    BY <1>1, <1>8 DEF Falls
  <2>2. CASE j # i
    <3>1. k \in 1..(i - 1) /\ j \in k..(i - 1)
      BY <1>1, <2>2
    <3>2. ~Deeper(<<equities[j], equities[k]>>, d)
      BY <1>8, <3>1 DEF IsDeepest
    <3>3. QED
      BY <1>7, <2>1, <3>2
  <2>3. CASE j = i /\ equities[i] >= 0
    <3>1. p > 0 /\ equities[k] <= p /\ ~Deeper(here, x)
      BY <1>2, <1>6, <1>8, <2>1
    <3>2. QED
      BY <1>2, <1>5, <1>8, <2>1, <2>3, <3>1, PeakFalls
  <2>4. CASE j = i /\ \A l \in 1..i : equities[l] <= equities[k]
    <3>1. p > 0 /\ equities[k] <= p
      BY <1>2, <1>8, <2>1
    <3>2. p <= equities[k]
      BY <1>2, <2>4, <3>1
    <3>3. p = equities[k]
      BY <1>2, <2>1, <3>1, <3>2
    <3>4. QED
      BY <1>6, <2>4, <3>1, <3>3
  <2>5. QED
    BY <1>8, <2>2, <2>3, <2>4
<1>9. \/ x = NoDrawdown
      \/ \E k \in 1..i : \E j \in k..i : equities[k] > 0 /\ x = <<equities[j], equities[k]>>
  <2>1. CASE p > 0 /\ Deeper(here, d)
    <3>1. PICK k \in 1..i : p = equities[k]
      BY <1>2, <2>1
    <3>2. i \in k..i /\ x = <<equities[i], equities[k]>>
      BY <1>1, <1>3, <2>1, <3>1
    <3>3. QED
      BY <2>1, <3>1, <3>2
  <2>2. CASE x = d
    <3>1. \A k \in 1..(i - 1) : k \in 1..i /\ \A j \in k..(i - 1) : j \in k..i
      BY <1>1
    <3>2. QED
      BY <2>2, <3>1 DEF IsDeepest
  <2>3. QED
    BY <1>3, <2>1, <2>2
<1>10. QED
  BY <1>5, <1>8, <1>9 DEF IsDeepest, x

(* The drawdown of a curve is the deepest fall in it.                      *)
LEMMA DrawdownFound ==
  ASSUME NEW equities \in Seq(Int)
  PROVE  IsDeepest(equities, Len(equities), DrawdownOf(equities))
<1> DEFINE n == Len(equities)
           step == [i \in 1..n |-> [d \in Falls |-> FallTo(equities, i, d)]]
           Read(h) == h = [i \in 0..n |->
                              IF i = 0 THEN NoDrawdown
                              ELSE LET here == <<equities[i], Peak(equities, i)>>
                                   IN  IF Peak(equities, i) > 0 /\ Deeper(here, h[i - 1])
                                       THEN here ELSE h[i - 1]]
<1>1. n \in Nat /\ NoDrawdown \in Falls /\ \A i \in 1..n : equities[i] \in Int
  BY DEF NoDrawdown, Falls
<1>2. step \in [1..n -> [Falls -> Falls]]
  <2>1. ASSUME NEW i \in 1..n, NEW d \in Falls
        PROVE  FallTo(equities, i, d) \in Falls
    BY <1>1, PeakIs DEF FallTo, Falls
  <2>2. QED
    BY <2>1
<1> HIDE DEF step
<1>3. PICK g \in [0..n -> Falls] : Takes(g, NoDrawdown, step, n)
  BY <1>1, <1>2, StepsTaken
<1>4. Read(g)
  <2>1. g = [i \in 0..n |-> IF i = 0 THEN NoDrawdown ELSE step[i][g[i - 1]]]
    BY <1>3 DEF Takes
  <2>2. \A i \in 0..n : i # 0 => step[i][g[i - 1]] = FallTo(equities, i, g[i - 1])
    <3> SUFFICES ASSUME NEW i \in 0..n, i # 0
                 PROVE  step[i][g[i - 1]] = FallTo(equities, i, g[i - 1])
      OBVIOUS
    <3>1. i \in 1..n /\ i - 1 \in 0..n
      BY <1>1
    <3>2. g[i - 1] \in Falls
      BY <1>3, <3>1
    <3>3. QED
      BY <3>1, <3>2 DEF step
  <2>3. g = [i \in 0..n |-> IF i = 0 THEN NoDrawdown ELSE FallTo(equities, i, g[i - 1])]
    BY <2>1, <2>2
  <2>4. QED
    BY <2>3 DEF FallTo
<1> DEFINE f == CHOOSE h : Read(h)
<1>5. Read(f)
  BY <1>4, Zenon
<1>6. DrawdownOf(equities) = f[n]
  BY Zenon DEF DrawdownOf
<1> HIDE DEF f
<1>7. \A i \in 0..n : f[i] = IF i = 0 THEN NoDrawdown ELSE FallTo(equities, i, f[i - 1])
  BY <1>5 DEF FallTo
<1> DEFINE T == {m \in Nat : m <= n => IsDeepest(equities, m, f[m])}
<1>8. 0 \in T
  BY <1>1, <1>7, 1..0 = {} DEF IsDeepest
<1>9. ASSUME NEW m \in Nat, m \in T
      PROVE  m + 1 \in T
  <2> SUFFICES ASSUME m + 1 <= n PROVE IsDeepest(equities, m + 1, f[m + 1])
    OBVIOUS
  <2>1. m + 1 \in 1..n /\ m + 1 \in 0..n /\ (m + 1) - 1 = m /\ IsDeepest(equities, m, f[m])
    BY <1>1, <1>9
  <2>2. IsDeepest(equities, m + 1, FallTo(equities, m + 1, f[m]))
    BY <2>1, FallToDeepest
  <2>3. QED
    BY <1>7, <2>1, <2>2
<1> HIDE DEF T
<1>10. n \in T
  BY <1>1, <1>8, <1>9, Induction
<1>11. QED
  BY <1>1, <1>6, <1>10 DEF T

LEMMA DrawdownSays ==
  ASSUME StepsInv, CurveInv
  PROVE  DrawdownIsDeepest
<1>1. SUFFICES ASSUME report # None PROVE IsDeepest(curve, Len(curve), report.drawdown)
  BY DEF DrawdownIsDeepest, IsDeepest
<1>2. curve \in Seq(Int) /\ phase = "Done"
  BY <1>1 DEF StepsInv, StateTypeOK, TypeOK
<1>3. report.drawdown = DrawdownOf(curve)
  BY <1>2 DEF CurveInv, Analyze
<1>4. QED
  BY <1>2, <1>3, DrawdownFound

-----------------------------------------------------------------------------
(* The trades.                                                             *)

(* What divides without remainder is not rounded.                          *)
LEMMA Exact ==
  ASSUME NEW f \in Int, NEW m \in Nat, m > 0
  PROVE  DividedBy(f * m, m) = f
<1>1. PICK a \in Int : a = f * m
  OBVIOUS
<1>a. PICK d : d = DividedBy(a, m)
  OBVIOUS
<1>b. d \in Int /\ 2 * (m * d - a) <= Abs(m) /\ -2 * (m * d - a) <= Abs(m)
  BY <1>a, Rounded
<1>2. d \in Int /\ 2 * (m * d - f * m) <= m /\ -2 * (m * d - f * m) <= m
  <2>1. Abs(m) = m
    BY DEF Abs
  <2>2. QED
    BY <1>1, <1>b, <2>1
<1>3. m * d - f * m = m * (d - f)
  BY <1>2
<1> DEFINE e == d - f
<1>4. e \in Int /\ 2 * (m * e) <= m /\ -2 * (m * e) <= m
  BY <1>2, <1>3
<1> HIDE DEF e
<1>5. e < 1
  <2>1. CASE e >= 1
    <3>1. e - 1 \in Nat /\ m * (e - 1) \in Nat /\ m * e = m * (e - 1) + m
      BY <1>4, <2>1
    <3>2. QED
      BY <1>4, <3>1
  <2>2. QED
    BY <1>4, <2>1
<1>6. e > -1
  <2>1. CASE e <= -1
    <3>1. -e - 1 \in Nat /\ m * (-e - 1) \in Nat /\ m * e = -(m * (-e - 1)) - m
      BY <1>4, <2>1
    <3>2. QED
      BY <1>4, <3>1
  <2>2. QED
    BY <1>4, <2>1
<1>7. e = 0
  BY <1>4, <1>5, <1>6
<1>8. d = f
  BY <1>2, <1>7 DEF e
<1>9. QED
  BY <1>1, <1>a, <1>8

(* A lot without shares is none.                                           *)
Lots ==
    {l \in [quantity : Int, cost : Int, fees : Int] : l.quantity = 0 => l = NoLot}

RealFills == {f \in Fills : f.quantity # 0}

(* What a lot cost.                                                        *)
Basis(lot) == lot.quantity * lot.cost + lot.fees

(* What a fill costs; a sale brings in what it costs less than nothing.    *)
Paid(fill) == fill.price * fill.quantity + fill.fees

LEMMA LotsAre ==
  ASSUME NEW lot \in Lots, NEW fill \in RealFills
  PROVE  /\ lot.quantity \in Int /\ lot.cost \in Int /\ lot.fees \in Int
         /\ fill.quantity \in Int /\ fill.quantity # 0 /\ fill.price \in Int /\ fill.fees \in Int
         /\ fill.symbol \in Symbols /\ fill \in Fills
         /\ lot.quantity = 0 => lot = NoLot
         /\ lot = [quantity |-> lot.quantity, cost |-> lot.cost, fees |-> lot.fees]
<1>1. fill \in Fills /\ fill.quantity # 0
  BY DEF RealFills
<1>2. fill.quantity \in Int /\ fill.price \in Int /\ fill.fees \in Int /\ fill.symbol \in Symbols
  BY <1>1 DEF Fills
<1>3. QED
  BY <1>1, <1>2 DEF Lots

(* Opening costs what the fill does, but for the rounding of the average.  *)
LEMMA LotOpened ==
  ASSUME NEW lot \in Lots, NEW fill \in RealFills, ~Closes(lot, fill)
  PROVE  LET new == Opened(lot, fill)
             off == Paid(fill) + Basis(lot) - Basis(new)
         IN  /\ new \in Lots /\ new.quantity = lot.quantity + fill.quantity
             /\ off \in Int /\ 2 * off <= Abs(new.quantity) /\ -2 * off <= Abs(new.quantity)
<1> DEFINE q == lot.quantity  c == lot.cost  f == fill.quantity  p == fill.price
           total == q + f
           spent == c * q + p * f
           new == Opened(lot, fill)
<1>1. q \in Int /\ c \in Int /\ lot.fees \in Int /\ f \in Int /\ f # 0 /\ p \in Int /\ fill.fees \in Int
  BY LotsAre
<1>2. total \in Int /\ total # 0
  BY <1>1 DEF Closes, Sign
<1>3. PICK k \in Int : k = c * q
  BY <1>1
<1>4. PICK l \in Int : l = p * f
  BY <1>1
<1>5. spent = k + l /\ spent \in Int
  BY <1>3, <1>4
<1> DEFINE d == DividedBy(spent, total)
<1>6. d \in Int /\ 2 * (total * d - spent) <= Abs(total) /\ -2 * (total * d - spent) <= Abs(total)
  BY <1>2, <1>5, Rounded
<1>7. new = [quantity |-> total, fees |-> lot.fees + fill.fees, cost |-> d]
  BY DEF Opened
<1> HIDE DEF d
<1>8. PICK b \in Int : b = total * d
  BY <1>2, <1>6
<1>9. Basis(new) = b + lot.fees + fill.fees /\ Basis(lot) = k + lot.fees /\ Paid(fill) = l + fill.fees
  <2>1. new.quantity = total /\ new.cost = d /\ new.fees = lot.fees + fill.fees
    BY <1>7
  <2>2. Basis(new) = total * d + (lot.fees + fill.fees)
    BY <2>1 DEF Basis
  <2>3. c * q = q * c
    BY <1>1
  <2>4. QED
    BY <1>1, <1>3, <1>4, <1>8, <2>2, <2>3 DEF Basis, Paid
<1>10. new \in Lots /\ new.quantity = total
  BY <1>1, <1>2, <1>6, <1>7 DEF Lots
<1>11. Paid(fill) + Basis(lot) - Basis(new) = -(total * d - spent)
  BY <1>1, <1>5, <1>8, <1>9
<1> HIDE DEF new, total, spent
<1>12. QED
  <2>1. PICK x \in Int : x = total * d - spent
    BY <1>5, <1>8
  <2>2. Abs(total) \in Int
    BY <1>2 DEF Abs
  <2>3. 2 * (-x) <= Abs(total) /\ -2 * (-x) <= Abs(total) /\ -x \in Int
    BY <1>6, <2>1, <2>2
  <2>4. QED
    BY <1>10, <1>11, <2>1, <2>3 DEF new, total

(* What closing makes is exactly what the account gets by it.              *)
LEMMA LotClosed ==
  ASSUME NEW lot \in Lots, NEW fill \in RealFills, Closes(lot, fill)
  PROVE  LET new == Closed(lot, fill)
         IN  /\ new \in Lots /\ new.quantity = lot.quantity + fill.quantity
             /\ Profit(lot, fill) \in Int
             /\ Profit(lot, fill) + Paid(fill) + Basis(lot) - Basis(new) = 0
<1> DEFINE q == lot.quantity  c == lot.cost  f == fill.quantity  p == fill.price
           shares == ClosedShares(lot, fill)
           of == OpeningFees(lot, fill)
           new == Closed(lot, fill)
<1>0. \A e, n \in Int : e * n * Sign(q) = e * (n * Sign(q))
  BY DEF Sign
<1>1. /\ q \in Int /\ c \in Int /\ lot.fees \in Int /\ f \in Int /\ f # 0 /\ p \in Int
      /\ fill.fees \in Int /\ lot = [quantity |-> q, cost |-> c, fees |-> lot.fees]
  BY LotsAre
<1>2. q # 0 /\ Sign(q) # Sign(f)
  BY DEF Closes
<1>3. Abs(q) \in Nat /\ Abs(f) \in Nat /\ Abs(q) > 0 /\ Abs(f) > 0 /\ Abs(Abs(q)) = Abs(q)
  BY <1>1, <1>2 DEF Abs
<1>4. shares = IF Abs(f) >= Abs(q) THEN Abs(q) ELSE Abs(f)
  <2>1. \A a, b \in Int : Min({a, b}) = IF b >= a THEN a ELSE b
    BY DEF Min
  <2>2. QED
    BY <1>3, <2>1 DEF ClosedShares
<1>5. of \in Int
  <2>1. PICK a \in Int : a = lot.fees * shares
    BY <1>1, <1>3, <1>4
  <2>2. of = DividedBy(a, Abs(q))
    BY <2>1 DEF OpeningFees
  <2>3. PICK m \in Int : m = Abs(q) /\ m # 0
    BY <1>3
  <2>4. QED
    BY <2>2, <2>3, Rounded
<1>6. PICK qc \in Int : qc = q * c
  BY <1>1
<1>7. PICK fc \in Int : fc = f * c
  BY <1>1
<1>8. PICK pq \in Int : pq = p * q
  BY <1>1
<1>9. PICK pf \in Int : pf = p * f
  BY <1>1
<1>10. Basis(lot) = qc + lot.fees /\ Paid(fill) = pf + fill.fees
  BY <1>6, <1>9 DEF Basis, Paid
<1>11. CASE Abs(f) >= Abs(q)
  <2>1. shares = Abs(q) /\ shares * Sign(q) = q
    BY <1>1, <1>4, <1>11 DEF Abs, Sign
  <2>2. of = lot.fees
    BY <1>1, <1>3, <2>1, Exact DEF OpeningFees
  <2>3. (p - c) * shares * Sign(q) = pq - qc
    <3>1. (p - c) * shares * Sign(q) = (p - c) * (shares * Sign(q))
      <4>1. p - c \in Int /\ shares \in Int
        BY <1>1, <1>3, <2>1
      <4>2. QED
        BY <1>0, <4>1, Zenon
    <3>2. (p - c) * q = p * q - q * c
      BY <1>1
    <3>3. QED
      BY <1>6, <1>8, <2>1, <3>1, <3>2
  <2>4. Profit(lot, fill) = pq - qc - fill.fees - lot.fees
    BY <2>2, <2>3 DEF Profit
  <2>5. CASE Abs(f) > Abs(q)
    <3>1. new = [quantity |-> q + f, cost |-> p, fees |-> 0]
      BY <2>5 DEF Closed
    <3>2. q + f # 0
      BY <1>1, <2>5 DEF Abs
    <3>3. Basis(new) = (q + f) * p + 0
      BY <3>1 DEF Basis
    <3>4. (q + f) * p = pq + pf
      BY <1>1, <1>8, <1>9
    <3>5. new \in Lots /\ new.quantity = q + f
      BY <1>1, <3>1, <3>2 DEF Lots
    <3> HIDE DEF new
    <3>6. QED
      BY <1>1, <1>10, <2>4, <3>3, <3>4, <3>5 DEF new
  <2>6. CASE ~(Abs(f) > Abs(q))
    <3>1. q + f = 0
      BY <1>1, <1>2, <1>11, <2>6 DEF Abs, Sign
    <3>2. new = NoLot
      BY <2>6, <3>1 DEF Closed
    <3>3. Basis(new) = 0 /\ new \in Lots /\ new.quantity = 0
      BY <3>2 DEF NoLot, Basis, Lots
    <3>4. pq + pf = 0
      <4>1. p * (q + f) = pq + pf
        BY <1>1, <1>8, <1>9
      <4>2. QED
        BY <1>1, <3>1, <4>1
    <3> HIDE DEF new
    <3>5. QED
      BY <1>1, <1>10, <2>4, <3>1, <3>3, <3>4 DEF new
  <2>7. QED
    BY <2>5, <2>6
<1>12. CASE ~(Abs(f) >= Abs(q))
  <2>1. shares = Abs(f) /\ shares * Sign(q) = -f
    BY <1>1, <1>2, <1>4, <1>12 DEF Abs, Sign
  <2>2. (p - c) * shares * Sign(q) = fc - pf
    <3>1. (p - c) * shares * Sign(q) = (p - c) * (shares * Sign(q))
      <4>1. p - c \in Int /\ shares \in Int
        BY <1>1, <1>3, <2>1
      <4>2. QED
        BY <1>0, <4>1, Zenon
    <3>2. (p - c) * (-f) = f * c - p * f
      BY <1>1
    <3>3. QED
      BY <1>7, <1>9, <2>1, <3>1, <3>2
  <2>3. Profit(lot, fill) = fc - pf - fill.fees - of
    BY <2>2 DEF Profit
  <2>4. q + f # 0 /\ ~(Abs(f) > Abs(q))
    BY <1>1, <1>12 DEF Abs
  <2>5. new = [quantity |-> q + f, cost |-> c, fees |-> lot.fees - of]
    BY <1>1, <2>4 DEF Closed
  <2>6. Basis(new) = (q + f) * c + (lot.fees - of)
    BY <2>5 DEF Basis
  <2>7. (q + f) * c = qc + fc
    BY <1>1, <1>6, <1>7
  <2>8. new \in Lots /\ new.quantity = q + f
    BY <1>1, <1>5, <2>4, <2>5 DEF Lots
  <2> HIDE DEF new, of
  <2>9. QED
    BY <1>1, <1>5, <1>10, <2>3, <2>6, <2>7, <2>8 DEF new
<1>13. QED
  BY <1>11, <1>12

-----------------------------------------------------------------------------
(* What the analyzer may have read so far.                                 *)
Readings ==
    [lots : [Symbols -> Lots], fees : Int, trades : Int, winning : Int, losing : Int,
     profit : Int, loss : Int]

Made(r) == r.profit - r.loss

CostOf(r) == SumFunction([s \in Symbols |-> Basis(r.lots[s])])

LEMMA CostInt ==
  ASSUME NEW r \in Readings
  PROVE  CostOf(r) \in Int /\ \A s \in Symbols : Basis(r.lots[s]) \in Int
<1> DEFINE g == [s \in Symbols |-> Basis(r.lots[s])]
<1>1. ASSUME NEW s \in Symbols PROVE Basis(r.lots[s]) \in Int
  <2>1. r.lots[s] \in Lots
    BY DEF Readings
  <2>2. r.lots[s].quantity \in Int /\ r.lots[s].cost \in Int /\ r.lots[s].fees \in Int
    BY <2>1 DEF Lots
  <2>3. r.lots[s].quantity * r.lots[s].cost \in Int
    BY <2>2
  <2>4. QED
    BY <2>2, <2>3 DEF Basis
<1>2. Whole(g, Symbols) /\ DOMAIN g = Symbols
  BY <1>1, FeesAssumption DEF Whole
<1> HIDE DEF g
<1>3. QED
  BY <1>1, <1>2, SumInt DEF CostOf, SumFunction, g

LEMMA ReadingIs ==
  ASSUME NEW r \in Readings
  PROVE  /\ r.lots \in [Symbols -> Lots] /\ r.fees \in Int /\ r.trades \in Int
         /\ r.winning \in Int /\ r.losing \in Int /\ r.profit \in Int /\ r.loss \in Int
BY DEF Readings

LEMMA FillRead ==
  ASSUME NEW r \in Readings, NEW fill \in RealFills
  PROVE  LET next == ReadFill(r, fill)
             lot == r.lots[fill.symbol]
             new == IF Closes(lot, fill) THEN Closed(lot, fill) ELSE Opened(lot, fill)
         IN  /\ next \in Readings /\ next.lots = [r.lots EXCEPT ![fill.symbol] = new]
             /\ Made(next) = Made(r) + (IF Closes(lot, fill) THEN Profit(lot, fill) ELSE 0)
<1> DEFINE s == fill.symbol
           lot == r.lots[s]
           closes == Closes(lot, fill)
           new == IF closes THEN Closed(lot, fill) ELSE Opened(lot, fill)
           profit == Profit(lot, fill)
           counted == IF closes THEN Counted(r, profit) ELSE r
           next == ReadFill(r, fill)
<1>1. s \in Symbols /\ lot \in Lots /\ fill.fees \in Int
  <2>1. s \in Symbols /\ fill.fees \in Int
    BY DEF RealFills, Fills
  <2>2. QED
    BY <2>1 DEF Readings
<1>2. new \in Lots /\ (closes => profit \in Int)
  BY <1>1, LotOpened, LotClosed
<1>3. next = [counted EXCEPT !.fees = @ + fill.fees, !.lots[s] = new]
  BY DEF ReadFill
<1> HIDE DEF new, profit, next, closes, lot
<1>4. /\ counted \in Readings /\ counted.lots = r.lots
      /\ Made(counted) = Made(r) + (IF closes THEN profit ELSE 0)
  <2>1. CASE closes
    <3> DEFINE w == IF profit > 0 THEN r.winning + 1 ELSE r.winning
               l == IF profit < 0 THEN r.losing + 1 ELSE r.losing
               p == IF profit > 0 THEN r.profit + profit ELSE r.profit
               o == IF profit < 0 THEN r.loss - profit ELSE r.loss
    <3>1. counted = [r EXCEPT !.trades = r.trades + 1, !.winning = w, !.losing = l,
                              !.profit = p, !.loss = o]
      BY <2>1 DEF Counted
    <3>a. r.trades + 1 \in Int /\ w \in Int /\ l \in Int /\ p \in Int /\ o \in Int
      BY <1>2, <2>1, ReadingIs
    <3> HIDE DEF counted, w, l, p, o
    <3>2. /\ counted \in Readings /\ counted.lots = r.lots
          /\ counted.profit = p /\ counted.loss = o
      BY <3>1, <3>a DEF Readings
    <3>3. /\ counted.profit = IF profit > 0 THEN r.profit + profit ELSE r.profit
          /\ counted.loss = IF profit < 0 THEN r.loss - profit ELSE r.loss
          /\ r.profit \in Int /\ r.loss \in Int
      BY <3>2, ReadingIs DEF p, o
    <3>4. QED
      BY <1>2, <2>1, <3>2, <3>3 DEF Made
  <2>2. CASE ~closes
    <3>1. counted = r /\ Made(r) \in Int
      BY <2>2 DEF Readings, Made
    <3>2. QED
      BY <2>2, <3>1
  <2>3. QED
    BY <2>1, <2>2
<1> HIDE DEF counted
<1>5. /\ next \in Readings /\ next.lots = [counted.lots EXCEPT ![s] = new]
      /\ next.profit = counted.profit /\ next.loss = counted.loss
  <2>1. PICK lots : lots = [counted.lots EXCEPT ![s] = new]
    OBVIOUS
  <2>2. lots \in [Symbols -> Lots]
    BY <1>1, <1>2, <1>4, <2>1, ReadingIs
  <2>3. PICK fees : fees = counted.fees + fill.fees
    OBVIOUS
  <2>4. fees \in Int
    BY <1>1, <1>4, <2>3, ReadingIs
  <2>5. next = [counted EXCEPT !.fees = fees, !.lots = lots]
    BY <1>3, <1>4, <2>1, <2>3 DEF Readings
  <2>6. QED
    BY <1>4, <2>1, <2>2, <2>4, <2>5 DEF Readings
<1>6. Made(next) = Made(counted)
  BY <1>5 DEF Made
<1>7. QED
  BY <1>4, <1>5, <1>6 DEF new, profit, next, closes, lot

(* How far a reading is from the account: what it made, less what the lots *)
(* cost, is the cash that came in.                                         *)
LEMMA FillAddsUp ==
  ASSUME NEW r \in Readings, NEW fill \in RealFills
  PROVE  LET next == ReadFill(r, fill)
             off == (Made(next) - CostOf(next)) - (Made(r) - CostOf(r)) + Paid(fill)
             held == r.lots[fill.symbol].quantity + fill.quantity
         IN  /\ next \in Readings /\ off \in Int
             /\ 2 * off <= Abs(held) /\ -2 * off <= Abs(held)
             /\ \A s \in Symbols : next.lots[s].quantity =
                    r.lots[s].quantity + (IF s = fill.symbol THEN fill.quantity ELSE 0)
<1> DEFINE next == ReadFill(r, fill)
           lot == r.lots[fill.symbol]
           closes == Closes(lot, fill)
           new == IF closes THEN Closed(lot, fill) ELSE Opened(lot, fill)
           made == IF closes THEN Profit(lot, fill) ELSE 0
           held == lot.quantity + fill.quantity
           off == made + Paid(fill) + Basis(lot) - Basis(new)
<1>1. /\ next \in Readings /\ next.lots = [r.lots EXCEPT ![fill.symbol] = new]
      /\ Made(next) = Made(r) + made
  BY FillRead
<1>2. fill.symbol \in Symbols /\ lot \in Lots /\ r.lots \in [Symbols -> Lots]
  BY DEF RealFills, Fills, Readings
<1>3. /\ new.quantity = held /\ held \in Int /\ made \in Int /\ new \in Lots
      /\ Paid(fill) \in Int /\ Basis(lot) \in Int /\ Basis(new) \in Int
  <2>1. \A l \in Lots : Basis(l) \in Int
    <3> SUFFICES ASSUME NEW l \in Lots PROVE Basis(l) \in Int
      OBVIOUS
    <3>1. l.quantity \in Int /\ l.cost \in Int /\ l.fees \in Int
      BY DEF Lots
    <3>2. l.quantity * l.cost \in Int
      BY <3>1
    <3>3. QED
      BY <3>1, <3>2 DEF Basis
  <2>2. Paid(fill) \in Int
    <3>1. fill.price \in Int /\ fill.quantity \in Int /\ fill.fees \in Int
      BY DEF RealFills, Fills
    <3>2. fill.price * fill.quantity \in Int
      BY <3>1
    <3>3. QED
      BY <3>1, <3>2 DEF Paid
  <2>3. new \in Lots /\ new.quantity = held /\ made \in Int
    BY <1>2, LotOpened, LotClosed
  <2>4. held \in Int
    BY <1>2, LotsAre
  <2> HIDE DEF new, held, made, lot
  <2>5. QED
    BY <1>2, <2>1, <2>2, <2>3, <2>4
<1>4. off \in Int /\ 2 * off <= Abs(held) /\ -2 * off <= Abs(held)
  <2>1. CASE closes
    <3>1. off = 0
      BY <1>2, <2>1, LotClosed
    <3>2. Abs(held) >= 0
      BY <1>3 DEF Abs
    <3> HIDE DEF off, held
    <3>3. QED
      BY <3>1, <3>2
  <2>2. CASE ~closes
    <3>1. off = Paid(fill) + Basis(lot) - Basis(new)
      <4>1. made = 0
        BY <2>2
      <4> HIDE DEF new, lot, made
      <4>2. QED
        BY <1>3, <4>1
    <3>2. new = Opened(lot, fill)
      BY <2>2
    <3> HIDE DEF off
    <3>3. QED
      BY <1>2, <2>2, <3>1, <3>2, LotOpened
  <2>3. QED
    BY <2>1, <2>2
<1>5. CostOf(next) = CostOf(r) - Basis(lot) + Basis(new)
  <2> DEFINE g == [s \in Symbols |-> Basis(r.lots[s])]
             h == [s \in Symbols |-> Basis(next.lots[s])]
  <2>1. Whole(g, Symbols) /\ Whole(h, Symbols)
    BY <1>1, CostInt, FeesAssumption DEF Whole
  <2>2. \A s \in Symbols \ {fill.symbol} : g[s] = h[s]
    BY <1>1
  <2>3. g[fill.symbol] = Basis(lot) /\ h[fill.symbol] = Basis(new)
    BY <1>1, <1>2
  <2>4. DOMAIN g = Symbols /\ DOMAIN h = Symbols
    OBVIOUS
  <2> HIDE DEF g, h, new, lot
  <2>5. SumFunctionOnSet(h, Symbols) =
          SumFunctionOnSet(g, Symbols) - At(g, Symbols, fill.symbol) + At(h, Symbols, fill.symbol)
    BY <2>1, <2>2, SumChange
  <2>6. QED
    BY <1>2, <2>3, <2>4, <2>5 DEF CostOf, SumFunction, At, g, h
<1>6. \A s \in Symbols : next.lots[s].quantity =
          r.lots[s].quantity + (IF s = fill.symbol THEN fill.quantity ELSE 0)
  <2> SUFFICES ASSUME NEW s \in Symbols
               PROVE  next.lots[s].quantity =
                        r.lots[s].quantity + (IF s = fill.symbol THEN fill.quantity ELSE 0)
    OBVIOUS
  <2>1. r.lots[s].quantity \in Int
    BY <1>2 DEF Lots
  <2>2. CASE s = fill.symbol
    BY <1>1, <1>2, <1>3, <2>2
  <2>3. CASE s # fill.symbol
    BY <1>1, <2>1, <2>3
  <2>4. QED
    BY <2>2, <2>3
<1>7. Made(r) \in Int /\ CostOf(r) \in Int
  BY CostInt DEF Made, Readings
<1> HIDE DEF new, made, lot, held, next, closes
<1>8. off = (Made(next) - CostOf(next)) - (Made(r) - CostOf(r)) + Paid(fill)
  BY <1>1, <1>3, <1>5, <1>7
<1> HIDE DEF off
<1>9. QED
  BY <1>1, <1>4, <1>6, <1>8 DEF next, held, lot

(* g is the analyzer's reading after each of the fills.                    *)
Reads(g, fs) ==
    g = [i \in 0..Len(fs) |-> IF i = 0 THEN Unread ELSE ReadFill(g[i - 1], fs[i])]

(* Two readings of the same fills agree, also when one goes on to more.    *)
LEMMA ReadsAgree ==
  ASSUME NEW fs \in Seq(RealFills), NEW gs \in Seq(RealFills), Len(fs) <= Len(gs),
         \A i \in 1..Len(fs) : fs[i] = gs[i],
         NEW g, Reads(g, fs), NEW h, Reads(h, gs)
  PROVE  g[Len(fs)] = h[Len(fs)]
<1> DEFINE n == Len(fs)
           T == {m \in Nat : m <= n => g[m] = h[m]}
<1>1. n \in Nat /\ Len(gs) \in Nat
  OBVIOUS
<1>2. \A i \in 0..n : g[i] = IF i = 0 THEN Unread ELSE ReadFill(g[i - 1], fs[i])
  BY Zenon DEF Reads
<1>3. \A i \in 0..Len(gs) : h[i] = IF i = 0 THEN Unread ELSE ReadFill(h[i - 1], gs[i])
  BY Zenon DEF Reads
<1>4. 0 \in T
  BY <1>1, <1>2, <1>3
<1>5. ASSUME NEW m \in Nat, m \in T PROVE m + 1 \in T
  <2> SUFFICES ASSUME m + 1 <= n PROVE g[m + 1] = h[m + 1]
    OBVIOUS
  <2>1. /\ m + 1 \in 0..n /\ m + 1 \in 0..Len(gs) /\ m + 1 \in 1..n /\ m + 1 # 0
        /\ (m + 1) - 1 = m /\ g[m] = h[m]
    BY <1>1, <1>5
  <2>2. g[m + 1] = ReadFill(g[m], fs[m + 1]) /\ h[m + 1] = ReadFill(h[m], gs[m + 1])
    BY <1>2, <1>3, <2>1
  <2>3. QED
    BY <2>1, <2>2
<1> HIDE DEF T
<1>6. n \in T
  BY <1>1, <1>4, <1>5, Induction
<1>7. QED
  BY <1>1, <1>6 DEF T

LEMMA NothingRead == Unread \in Readings /\ Made(Unread) = 0 /\ CostOf(Unread) = 0
<1>1. NoLot \in Lots /\ Basis(NoLot) = 0
  BY DEF NoLot, Lots, Basis
<1>2. Unread \in Readings /\ Made(Unread) = 0
  BY <1>1 DEF Unread, Readings, Made
<1> DEFINE g == [s \in Symbols |-> Basis(Unread.lots[s])]
<1>3. (\A s \in Symbols : g[s] = 0) /\ DOMAIN g = Symbols
  BY <1>1 DEF Unread
<1> HIDE DEF g
<1>4. SumFunction(g) = 0
  BY <1>3, SumOfZeros, FeesAssumption DEF SumFunction
<1>5. QED
  BY <1>2, <1>4 DEF CostOf, g

LEMMA TradesRead ==
  ASSUME NEW fs \in Seq(RealFills)
  PROVE  \E g \in [0..Len(fs) -> Readings] : Reads(g, fs) /\ TradesOf(fs) = g[Len(fs)]
<1> DEFINE n == Len(fs)
           step == [i \in 1..n |-> [r \in Readings |-> ReadFill(r, fs[i])]]
<1>1. n \in Nat /\ \A i \in 1..n : fs[i] \in RealFills
  OBVIOUS
<1>2. step \in [1..n -> [Readings -> Readings]]
  <2>1. ASSUME NEW i \in 1..n, NEW r \in Readings
        PROVE  ReadFill(r, fs[i]) \in Readings
    BY <1>1, FillRead
  <2>2. QED
    BY <2>1
<1> HIDE DEF step
<1>3. PICK g \in [0..n -> Readings] : Takes(g, Unread, step, n)
  BY <1>1, <1>2, StepsTaken, NothingRead
<1>4. Reads(g, fs)
  <2>1. g = [i \in 0..n |-> IF i = 0 THEN Unread ELSE step[i][g[i - 1]]]
    BY <1>3 DEF Takes
  <2>2. \A i \in 0..n : i # 0 => step[i][g[i - 1]] = ReadFill(g[i - 1], fs[i])
    <3> SUFFICES ASSUME NEW i \in 0..n, i # 0
                 PROVE  step[i][g[i - 1]] = ReadFill(g[i - 1], fs[i])
      OBVIOUS
    <3>1. i \in 1..n /\ i - 1 \in 0..n
      BY <1>1
    <3>2. g[i - 1] \in Readings
      BY <1>3, <3>1
    <3>3. QED
      BY <3>1, <3>2 DEF step
  <2>3. g = [i \in 0..n |-> IF i = 0 THEN Unread ELSE ReadFill(g[i - 1], fs[i])]
    BY <2>1, <2>2
  <2>4. QED
    BY <2>3 DEF Reads
<1> DEFINE f == CHOOSE h : Reads(h, fs)
<1>5. Reads(f, fs)
  BY <1>4, Zenon
<1>6. TradesOf(fs) = f[n]
  BY Zenon DEF TradesOf, Reads
<1> HIDE DEF f
<1>7. f[n] = g[n]
  BY <1>1, <1>4, <1>5, ReadsAgree
<1>8. QED
  BY <1>4, <1>6, <1>7

LEMMA TradesNext ==
  ASSUME NEW fs \in Seq(RealFills), NEW fill \in RealFills
  PROVE  /\ TradesOf(fs) \in Readings
         /\ TradesOf(Append(fs, fill)) = ReadFill(TradesOf(fs), fill)
<1> DEFINE gs == Append(fs, fill)
           n == Len(fs)
<1>1. /\ gs \in Seq(RealFills) /\ n \in Nat /\ Len(gs) = n + 1 /\ gs[n + 1] = fill
      /\ \A i \in 1..n : gs[i] = fs[i]
  OBVIOUS
<1>2. PICK g \in [0..n -> Readings] : Reads(g, fs) /\ TradesOf(fs) = g[n]
  BY TradesRead
<1> HIDE DEF gs
<1>3. PICK h \in [0..Len(gs) -> Readings] : Reads(h, gs) /\ TradesOf(gs) = h[Len(gs)]
  BY <1>1, TradesRead
<1>4. g[n] = h[n]
  BY <1>1, <1>2, <1>3, ReadsAgree
<1>5. \A i \in 0..Len(gs) : h[i] = IF i = 0 THEN Unread ELSE ReadFill(h[i - 1], gs[i])
  BY <1>3, Zenon DEF Reads
<1>6. n + 1 \in 0..Len(gs) /\ n + 1 # 0 /\ (n + 1) - 1 = n /\ n \in 0..n
  BY <1>1
<1>7. h[n + 1] = ReadFill(h[n], gs[n + 1])
  BY <1>5, <1>6
<1>8. QED
  BY <1>1, <1>2, <1>3, <1>4, <1>6, <1>7 DEF gs

LEMMA NoTrades == TradesOf(<<>>) = Unread
<1>1. <<>> \in Seq(RealFills) /\ Len(<<>>) = 0
  OBVIOUS
<1>2. PICK g \in [0..0 -> Readings] : Reads(g, <<>>) /\ TradesOf(<<>>) = g[0]
  BY <1>1, TradesRead
<1>3. \A i \in 0..0 : g[i] = IF i = 0 THEN Unread ELSE ReadFill(g[i - 1], <<>>[i])
  BY <1>1, <1>2, Zenon DEF Reads
<1>4. QED
  BY <1>2, <1>3

-----------------------------------------------------------------------------
(* The shares held of a symbol after the first i fills.                    *)
HeldIn(fs, symbol, i) ==
    SumFunction([j \in 1..i |-> IF fs[j].symbol = symbol THEN fs[j].quantity ELSE 0])

SlackOf(fs) == SumFunction([i \in 1..Len(fs) |-> Abs(HeldIn(fs, fs[i].symbol, i))])

LEMMA HeldInt ==
  ASSUME NEW fs \in Seq(RealFills), NEW s, NEW i \in 0..Len(fs)
  PROVE  HeldIn(fs, s, i) \in Int
<1> DEFINE f == [j \in 1..i |-> IF fs[j].symbol = s THEN fs[j].quantity ELSE 0]
<1>1. \A j \in 1..i : fs[j] \in RealFills /\ fs[j].quantity \in Int
  <2>1. \A j \in 1..i : fs[j] \in RealFills
    OBVIOUS
  <2>2. QED
    BY <2>1 DEF RealFills, Fills
<1>2. Whole(f, 1..i) /\ DOMAIN f = 1..i
  <2>1. IsFiniteSet(1..i)
    BY FS_Interval
  <2>2. QED
    BY <1>1, <2>1 DEF Whole
<1> HIDE DEF f
<1>3. QED
  BY <1>2, SumInt DEF HeldIn, SumFunction, f

LEMMA HeldNext ==
  ASSUME NEW fs \in Seq(RealFills), NEW fill \in RealFills, NEW s
  PROVE  /\ \A i \in 0..Len(fs) : HeldIn(Append(fs, fill), s, i) = HeldIn(fs, s, i)
         /\ HeldIn(Append(fs, fill), s, Len(fs) + 1) =
              HeldIn(fs, s, Len(fs)) + (IF fill.symbol = s THEN fill.quantity ELSE 0)
<1> DEFINE gs == Append(fs, fill)
           n == Len(fs)
           One(hs, j) == IF hs[j].symbol = s THEN hs[j].quantity ELSE 0
           f == [j \in 1..n |-> One(fs, j)]
           g == [j \in 1..(n + 1) |-> One(gs, j)]
<1>1. /\ gs \in Seq(RealFills) /\ n \in Nat /\ Len(gs) = n + 1 /\ gs[n + 1] = fill
      /\ \A j \in 1..n : gs[j] = fs[j]
  OBVIOUS
<1> HIDE DEF gs
<1>2. ASSUME NEW i \in 0..n PROVE HeldIn(gs, s, i) = HeldIn(fs, s, i)
  <2>1. \A j \in 1..i : gs[j] = fs[j]
    BY <1>1
  <2>2. [j \in 1..i |-> One(gs, j)] = [j \in 1..i |-> One(fs, j)]
    BY <2>1
  <2>3. QED
    BY <2>2 DEF HeldIn
<1>3. HeldIn(gs, s, n + 1) = HeldIn(fs, s, n) + (IF fill.symbol = s THEN fill.quantity ELSE 0)
  <2>1. \A hs \in Seq(RealFills) : \A j \in 1..Len(hs) : One(hs, j) \in Int
    <3> SUFFICES ASSUME NEW hs \in Seq(RealFills), NEW j \in 1..Len(hs) PROVE One(hs, j) \in Int
      OBVIOUS
    <3>1. hs[j] \in RealFills
      OBVIOUS
    <3>2. QED
      BY <3>1 DEF RealFills, Fills
  <2>2. IsFiniteSet(1..n) /\ IsFiniteSet(1..(n + 1))
    BY <1>1, FS_Interval
  <2>3. Whole(f, 1..n) /\ Whole(g, 1..(n + 1))
    BY <1>1, <2>1, <2>2 DEF Whole
  <2>4. (1..n) \ {n + 1} = (1..(n + 1)) \ {n + 1} /\ n + 1 \notin 1..n /\ n + 1 \in 1..(n + 1)
    BY <1>1
  <2>5. \A j \in (1..n) \ {n + 1} : f[j] = g[j]
    BY <1>1, <2>4
  <2>6. g[n + 1] = IF fill.symbol = s THEN fill.quantity ELSE 0
    BY <1>1, <2>4
  <2>7. DOMAIN f = 1..n /\ DOMAIN g = 1..(n + 1)
    OBVIOUS
  <2>8. HeldIn(fs, s, n) = SumFunction(f) /\ HeldIn(gs, s, n + 1) = SumFunction(g)
    BY DEF HeldIn
  <2> HIDE DEF f, g
  <2>9. SumFunctionOnSet(g, 1..(n + 1)) =
          SumFunctionOnSet(f, 1..n) - At(f, 1..n, n + 1) + At(g, 1..(n + 1), n + 1)
    BY <2>3, <2>4, <2>5, SumChange
  <2>10. SumFunctionOnSet(f, 1..n) \in Int
    BY <2>3, SumInt
  <2>11. At(f, 1..n, n + 1) = 0 /\ At(g, 1..(n + 1), n + 1) = g[n + 1]
    BY <2>4 DEF At
  <2>12. SumFunctionOnSet(g, 1..(n + 1)) = SumFunctionOnSet(f, 1..n) + g[n + 1]
    <3>1. g[n + 1] \in Int
      BY <2>3, <2>4 DEF Whole
    <3>2. QED
      BY <2>9, <2>10, <2>11, <3>1
  <2>13. QED
    BY <2>6, <2>7, <2>8, <2>12 DEF SumFunction
<1>4. QED
  BY <1>2, <1>3 DEF gs

LEMMA SlackNext ==
  ASSUME NEW fs \in Seq(RealFills), NEW fill \in RealFills
  PROVE  /\ SlackOf(fs) \in Int
         /\ SlackOf(Append(fs, fill)) =
              SlackOf(fs) + Abs(HeldIn(Append(fs, fill), fill.symbol, Len(fs) + 1))
<1> DEFINE gs == Append(fs, fill)
           n == Len(fs)
           One(hs, i) == Abs(HeldIn(hs, hs[i].symbol, i))
           f == [i \in 1..n |-> One(fs, i)]
           g == [i \in 1..(n + 1) |-> One(gs, i)]
<1>1. /\ gs \in Seq(RealFills) /\ n \in Nat /\ Len(gs) = n + 1 /\ gs[n + 1] = fill
      /\ \A i \in 1..n : gs[i] = fs[i]
  OBVIOUS
<1>2. ASSUME NEW i \in 1..n PROVE One(gs, i) = One(fs, i)
  <2>1. i \in 0..Len(fs) /\ gs[i] = fs[i]
    BY <1>1
  <2>2. \A s : HeldIn(gs, s, i) = HeldIn(fs, s, i)
    BY <2>1, HeldNext
  <2> HIDE DEF gs
  <2>3. QED
    BY <2>1, <2>2
<1> HIDE DEF gs
<1>3. \A hs \in Seq(RealFills) : \A i \in 1..Len(hs) : One(hs, i) \in Int
  <2> SUFFICES ASSUME NEW hs \in Seq(RealFills), NEW i \in 1..Len(hs) PROVE One(hs, i) \in Int
    OBVIOUS
  <2>1. HeldIn(hs, hs[i].symbol, i) \in Int
    BY HeldInt
  <2>2. QED
    BY <2>1 DEF Abs
<1>4. Whole(f, 1..n) /\ Whole(g, 1..(n + 1))
  <2>1. IsFiniteSet(1..n) /\ IsFiniteSet(1..(n + 1))
    BY <1>1, FS_Interval
  <2>2. QED
    BY <1>1, <1>3, <2>1 DEF Whole
<1>5. (1..n) \ {n + 1} = (1..(n + 1)) \ {n + 1} /\ n + 1 \notin 1..n /\ n + 1 \in 1..(n + 1)
  BY <1>1
<1>6. \A i \in (1..n) \ {n + 1} : f[i] = g[i]
  BY <1>2, <1>5
<1>7. g[n + 1] = Abs(HeldIn(gs, fill.symbol, n + 1)) /\ DOMAIN f = 1..n /\ DOMAIN g = 1..(n + 1)
  BY <1>1, <1>5
<1>8. SlackOf(fs) = SumFunction(f) /\ SlackOf(gs) = SumFunction(g)
  BY <1>1 DEF SlackOf
<1> HIDE DEF f, g
<1>9. SumFunctionOnSet(g, 1..(n + 1)) =
        SumFunctionOnSet(f, 1..n) - At(f, 1..n, n + 1) + At(g, 1..(n + 1), n + 1)
  BY <1>4, <1>5, <1>6, SumChange
<1>10. SumFunctionOnSet(f, 1..n) \in Int /\ g[n + 1] \in Int
  BY <1>4, <1>5, SumInt DEF Whole
<1>11. At(f, 1..n, n + 1) = 0 /\ At(g, 1..(n + 1), n + 1) = g[n + 1]
  BY <1>5 DEF At
<1>12. SumFunctionOnSet(g, 1..(n + 1)) = SumFunctionOnSet(f, 1..n) + g[n + 1]
  BY <1>9, <1>10, <1>11
<1>13. QED
  BY <1>7, <1>8, <1>10, <1>12 DEF SumFunction, gs

-----------------------------------------------------------------------------
(* What the trades made, less what the lots cost, beyond the cash that has *)
(* come in.                                                                *)
Excess(fs, money) ==
    Made(TradesOf(fs)) - CostOf(TradesOf(fs)) - (money - StartingCash)

(* The analyzer, were it to read the fills now, would find the portfolio's *)
(* shares, and its cash but for the rounding of average costs.             *)
TradesInv ==
    /\ fills \in Seq(RealFills)
    /\ \A s \in Symbols :
          /\ TradesOf(fills).lots[s].quantity = position[s]
          /\ position[s] = HeldIn(fills, s, Len(fills))
    /\ 2 * Excess(fills, cash) <= Slack /\ -2 * Excess(fills, cash) <= Slack

LEMMA SlackIs == Slack = SlackOf(fills)
BY DEF Slack, SlackOf, HeldAfter, HeldIn

LEMMA TradesInit ==
  ASSUME Init
  PROVE  TradesInv
<1>1. fills = <<>> /\ cash = StartingCash /\ \A s \in Symbols : position[s] = 0
  BY DEF Init, PortfolioInit
<1>2. StartingCash \in Int
  BY PortfolioAssumption
<1>3. <<>> \in Seq(RealFills) /\ Len(<<>>) = 0 /\ 1..0 = {}
  OBVIOUS
<1>4. Excess(<<>>, cash) = 0
  BY <1>1, <1>2, NoTrades, NothingRead DEF Excess
<1>5. \A s \in Symbols : Unread.lots[s].quantity = 0
  BY DEF Unread, NoLot
<1>6. \A f : DOMAIN f = {} => SumFunction(f) = 0
  BY SumEmpty DEF SumFunction
<1>7. \A s \in Symbols : HeldIn(<<>>, s, 0) = 0
  <2> SUFFICES ASSUME NEW s \in Symbols PROVE HeldIn(<<>>, s, 0) = 0
    OBVIOUS
  <2> DEFINE f == [j \in 1..0 |-> IF <<>>[j].symbol = s THEN <<>>[j].quantity ELSE 0]
  <2>1. DOMAIN f = {}
    BY <1>3
  <2> HIDE DEF f
  <2>2. QED
    BY <1>6, <2>1 DEF HeldIn, f
<1>8. SlackOf(<<>>) = 0
  <2> DEFINE f == [i \in 1..Len(<<>>) |-> Abs(HeldIn(<<>>, <<>>[i].symbol, i))]
  <2>1. DOMAIN f = {}
    BY <1>3
  <2> HIDE DEF f
  <2>2. QED
    BY <1>6, <2>1 DEF SlackOf, f
<1>9. QED
  BY <1>1, <1>3, <1>4, <1>5, <1>7, <1>8, NoTrades, SlackIs DEF TradesInv

LEMMA TradesStay ==
  ASSUME TradesInv, UNCHANGED <<fills, cash, position>>
  PROVE  TradesInv'
BY DEF TradesInv, Slack, HeldAfter

(* Only a fill changes what the trades are about.                          *)
LEMMA FillTrades ==
  ASSUME StepsInv, MarksInv, TradesInv, DeliverFill
  PROVE  TradesInv'
<1> DEFINE e == queue[1]
           n == Len(fills) + 1
           r == TradesOf(fills)
           next == TradesOf(fills')
<1>1. /\ e \in Fills /\ ApplyFill(e, MarkAfter(e)) /\ Shares(e) > 0 /\ fills' = Append(fills, e)
      /\ PortfolioTypeOK
  BY FillApplies, Types DEF StepsInv
<1>2. e \in RealFills /\ fills \in Seq(RealFills)
  BY <1>1 DEF RealFills, Fills, Shares, TradesInv
<1> HIDE DEF e
<1>3. fills' \in Seq(RealFills) /\ Len(fills') = n /\ n \in Nat
  BY <1>1, <1>2
<1>4. /\ cash' = cash - Paid(e) /\ position' = [position EXCEPT ![e.symbol] = @ + e.quantity]
      /\ e.symbol \in Symbols /\ e.quantity \in Int /\ cash \in Int /\ position \in [Symbols -> Int]
      /\ Paid(e) \in Int
  <2>1. e.price \in Int /\ e.quantity \in Int /\ e.fees \in Int /\ e.symbol \in Symbols
    BY <1>1 DEF Fills
  <2>2. e.price * e.quantity \in Int
    BY <2>1
  <2>3. QED
    BY <1>1, <2>1, <2>2 DEF ApplyFill, PortfolioTypeOK, Paid
<1>5. r \in Readings /\ next = ReadFill(r, e)
  BY <1>1, <1>2, TradesNext
<1>6. \A s \in Symbols : r.lots[s].quantity = position[s] /\ position[s] = HeldIn(fills, s, n - 1)
  BY <1>3 DEF TradesInv
<1> HIDE DEF r, next
<1>7. \A s \in Symbols : position'[s] = position[s] + (IF s = e.symbol THEN e.quantity ELSE 0)
  BY <1>4
<1>8. \A s \in Symbols : next.lots[s].quantity = position'[s]
  <2>1. \A s \in Symbols : next.lots[s].quantity =
           r.lots[s].quantity + (IF s = e.symbol THEN e.quantity ELSE 0)
    BY <1>2, <1>5, FillAddsUp
  <2>2. QED
    BY <1>6, <1>7, <2>1
<1>9. \A s \in Symbols : position'[s] = HeldIn(fills', s, n)
  <2> SUFFICES ASSUME NEW s \in Symbols PROVE position'[s] = HeldIn(fills', s, n)
    OBVIOUS
  <2>1. HeldIn(fills', s, n) =
          HeldIn(fills, s, Len(fills)) + (IF e.symbol = s THEN e.quantity ELSE 0)
    BY <1>1, <1>2, HeldNext
  <2>2. position[s] = HeldIn(fills, s, Len(fills))
    BY DEF TradesInv
  <2>3. QED
    BY <1>7, <2>1, <2>2
<1> DEFINE off == (Made(next) - CostOf(next)) - (Made(r) - CostOf(r)) + Paid(e)
           held == r.lots[e.symbol].quantity + e.quantity
<1>10. off \in Int /\ 2 * off <= Abs(held) /\ -2 * off <= Abs(held) /\ next \in Readings
  BY <1>2, <1>5, FillAddsUp
<1>11. held = position'[e.symbol] /\ held \in Int
  BY <1>4, <1>6, <1>7
<1> HIDE DEF held
<1>12. Slack' = Slack + Abs(held) /\ Slack \in Int /\ Abs(held) \in Int
  <2>1. /\ SlackOf(fills) \in Int
        /\ SlackOf(fills') = SlackOf(fills) + Abs(HeldIn(fills', e.symbol, n))
    BY <1>1, <1>2, SlackNext
  <2>2. Slack' = SlackOf(fills')
    BY SlackIs DEF Slack, SlackOf, HeldAfter, HeldIn
  <2>3. HeldIn(fills', e.symbol, n) = held
    BY <1>4, <1>9, <1>11
  <2>4. Abs(held) \in Int
    BY <1>11 DEF Abs
  <2>5. QED
    BY <2>1, <2>2, <2>3, <2>4, SlackIs
<1>13. Made(r) \in Int /\ CostOf(r) \in Int /\ Made(next) \in Int /\ CostOf(next) \in Int
  BY <1>5, <1>10, CostInt DEF Made, Readings
<1>14. StartingCash \in Int
  BY PortfolioAssumption
<1>15. Excess(fills', cash') = Excess(fills, cash) + off /\ Excess(fills, cash) \in Int
  <2>1. /\ Excess(fills', cash') = Made(next) - CostOf(next) - (cash' - StartingCash)
        /\ Excess(fills, cash) = Made(r) - CostOf(r) - (cash - StartingCash)
    BY DEF Excess, r, next
  <2>2. QED
    BY <1>4, <1>13, <1>14, <2>1
<1> HIDE DEF off
<1>16. 2 * Excess(fills', cash') <= Slack' /\ -2 * Excess(fills', cash') <= Slack'
  <2>1. 2 * Excess(fills, cash) <= Slack /\ -2 * Excess(fills, cash) <= Slack
    BY DEF TradesInv
  <2>2. QED
    BY <1>10, <1>12, <1>15, <2>1
<1>17. QED
  BY <1>3, <1>8, <1>9, <1>16 DEF TradesInv, next

LEMMA TradesStep ==
  ASSUME StepsInv, MarksInv, TradesInv, [Next]_vars
  PROVE  TradesInv'
<1>1. CASE Caller
  <2>1. UNCHANGED <<fills, cash, position>>
    BY <1>1 DEF Caller, RefuseNoBars, Begin, ExecuteBar, FeedBar, EndBar, Finish, accountVars,
                portfolioVars
  <2>2. QED
    BY <2>1, TradesStay
<1>2. CASE DeliverBar
  <2>1. UNCHANGED <<fills, cash, position>>
    BY <1>2 DEF DeliverBar, HandleMarketData, Mark
  <2>2. QED
    BY <2>1, TradesStay
<1>3. CASE DeliverSignal
  <2>1. UNCHANGED <<fills, cash, position>>
    BY <1>3 DEF DeliverSignal, HandleSignal, HoldForSignal, portfolioVars
  <2>2. QED
    BY <2>1, TradesStay
<1>4. CASE DeliverOrder
  <2>1. UNCHANGED <<fills, cash, position>>
    BY <1>4 DEF DeliverOrder, HandleOrder, ApplyOrderUpdate
  <2>2. QED
    BY <2>1, TradesStay
<1>5. CASE DeliverFill
  BY <1>5, FillTrades
<1>6. CASE UNCHANGED vars
  BY <1>6, TradesStay DEF vars, accountVars, portfolioVars
<1>7. QED
  BY <1>1, <1>2, <1>3, <1>4, <1>5, <1>6 DEF Next, Dispatch

(* At any time, not only in the end, the analyzer's lots and profit are    *)
(* the portfolio's shares and cash.                                        *)
THEOREM TradesHold == Spec => []TradesInv
<1>1. Init => TradesInv
  BY TradesInit
<1>2. StepsInv /\ MarksInv /\ TradesInv /\ [Next]_vars => TradesInv'
  BY TradesStep
<1>3. QED
  BY <1>1, <1>2, StepsHold, MarksHold, PTL DEF Spec

(* What the open lots are worth is their shares' value less their cost.    *)
LEMMA TradesSay ==
  ASSUME StepsInv, MarksInv, CurveInv, TradesInv
  PROVE  ReportAddsUp
<1> DEFINE r == TradesOf(fills)
           lots == r.lots
           Open(s) == IF lots[s].quantity = 0 THEN 0
                      ELSE lots[s].quantity * (marks[s] - lots[s].cost) - lots[s].fees
           open == [s \in Symbols |-> Open(s)]
           value == [s \in Symbols |-> ValueOf(s)]
           cost == [s \in Symbols |-> Basis(lots[s])]
<1>1. SUFFICES ASSUME report # None
               PROVE  /\ report.trades = r /\ \A s \in Symbols : lots[s].quantity = position[s]
                      /\ LET error == Made(r) + SumFunction(open)
                                        - (report.ending - report.starting)
                         IN  2 * error <= Slack /\ -2 * error <= Slack
  BY DEF ReportAddsUp, Made
<1>2. phase = "Done" /\ ~NotBegun
  BY <1>1 DEF StepsInv, StateTypeOK, TypeOK, NotBegun
<1>3. /\ report.trades = r /\ report.starting = StartingCash /\ report.ending = TotalEquity
  BY <1>2 DEF CurveInv, Analyze
<1>4. /\ r \in Readings /\ \A s \in Symbols : lots[s].quantity = position[s]
  <2>1. fills \in Seq(RealFills)
    BY DEF TradesInv
  <2>2. r \in Readings
    BY <2>1, TradesRead
  <2>3. QED
    BY <2>2 DEF TradesInv
<1>5. PortfolioTypeOK /\ StartingCash \in Int
  BY Types, PortfolioAssumption DEF StepsInv
<1> HIDE DEF r
<1>6. ASSUME NEW s \in Symbols
      PROVE  /\ Open(s) = ValueOf(s) - Basis(lots[s])
             /\ ValueOf(s) \in Int /\ Basis(lots[s]) \in Int
  <2>1. lots[s] \in Lots /\ position[s] \in Int /\ lots[s].quantity = position[s]
    BY <1>4, <1>5 DEF Readings, PortfolioTypeOK
  <2>2. /\ lots[s].quantity \in Int /\ lots[s].cost \in Int /\ lots[s].fees \in Int
        /\ lots[s].quantity = 0 => lots[s] = NoLot
    BY <2>1 DEF Lots
  <2>3. CASE lots[s].quantity = 0
    <3>1. Basis(lots[s]) = 0
      BY <2>2, <2>3 DEF NoLot, Basis
    <3>2. ValueOf(s) = 0
      <4>1. s \in DOMAIN marks => marks[s] \in Int
        BY <1>5 DEF PortfolioTypeOK
      <4>2. QED
        BY <2>1, <2>3, <4>1 DEF ValueOf
    <3>3. QED
      BY <2>3, <3>1, <3>2
  <2>4. CASE lots[s].quantity # 0
    <3>1. s \in DOMAIN marks /\ marks[s] \in Int
      BY <1>5, <2>1, <2>4 DEF MarksInv, SaidOfMarks, HeldMarked, PortfolioTypeOK
    <3>2. PICK q, c, m, f \in Int :
            q = lots[s].quantity /\ c = lots[s].cost /\ m = marks[s] /\ f = lots[s].fees
      BY <2>2, <3>1
    <3>3. Open(s) = q * (m - c) - f /\ ValueOf(s) = m * q /\ Basis(lots[s]) = q * c + f
      BY <2>1, <2>4, <3>1, <3>2 DEF ValueOf, Basis
    <3>4. m * q \in Int /\ q * c \in Int /\ q * (m - c) = m * q - q * c
      OBVIOUS
    <3> HIDE DEF Open, lots
    <3>5. QED
      BY <3>3, <3>4
  <2>5. QED
    BY <2>3, <2>4
<1>7. /\ Whole(value, Symbols) /\ Whole(cost, Symbols)
      /\ \A s \in Symbols : open[s] = value[s] - cost[s]
      /\ DOMAIN value = Symbols /\ DOMAIN cost = Symbols /\ DOMAIN open = Symbols
  BY <1>6, FeesAssumption DEF Whole
<1>8. CostOf(r) = SumFunction(cost) /\ TotalEquity = cash + SumFunction(value)
  BY DEF CostOf, TotalEquity
<1> HIDE DEF open, value, cost
<1>9. SumFunction(open) = SumFunction(value) - SumFunction(cost)
  BY <1>7, SumOfDifferences DEF SumFunction
<1>10. /\ SumFunction(value) \in Int /\ SumFunction(cost) \in Int /\ Made(r) \in Int
       /\ cash \in Int
  BY <1>4, <1>5, <1>7, SumInt DEF SumFunction, Made, Readings, PortfolioTypeOK
<1>11. Made(r) + SumFunction(open) - (report.ending - report.starting) = Excess(fills, cash)
  <2>1. Excess(fills, cash) = Made(r) - SumFunction(cost) - (cash - StartingCash)
    BY <1>8 DEF Excess, r
  <2>2. QED
    BY <1>3, <1>5, <1>8, <1>9, <1>10, <2>1
<1>12. QED
  BY <1>3, <1>4, <1>11 DEF TradesInv

(* A report tells of the account it is about: a snapshot for every time,   *)
(* a profit that adds up to the change in equity, the deepest drawdown.    *)
THEOREM ReportTold == Spec => []ReportTellsAccount
<1>1. StepsInv /\ MarksInv /\ CurveInv /\ TradesInv => ReportTellsAccount
  <2> SUFFICES ASSUME StepsInv, MarksInv, CurveInv, TradesInv
               PROVE  ReportTellsAccount
    OBVIOUS
  <2>1. TypeOK
    BY DEF StepsInv, StateTypeOK
  <2>2. QED
    BY <2>1, SnapshotsCounted, TradesSay, DrawdownSays DEF ReportTellsAccount
<1>2. QED
  BY <1>1, StepsHold, MarksHold, CurveHolds, TradesHold, PTL
=============================================================================
