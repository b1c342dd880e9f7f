----------------------------- MODULE OrderFlow -----------------------------
(***************************************************************************)
(* A configured run: bars replayed onto the event bus, and on the bus's    *)
(* dispatcher thread the simulator, the risk manager, the portfolio and    *)
(* the strategies (app/order_flow.cpp, app/configured_run.cpp,             *)
(* app/pipeline.cpp, portfolio/portfolio_bus_bridge.cpp).                  *)
(*                                                                         *)
(*   replay --bar--> queue --> simulator, risk, portfolio, strategies      *)
(*   strategies --signal--> queue --> risk --submit--> simulator           *)
(*   simulator --order, fill--> queue --> portfolio                        *)
(*                                                                         *)
(* The replay thread publishes the bars of a timestamp one by one while    *)
(* the dispatcher runs, and drains before the next timestamp.  A third     *)
(* thread sets the kill switch.  Delivering one event, which runs its      *)
(* handlers in the order they were subscribed, is one step: the state they *)
(* change is changed by no other thread, and what they publish is queued   *)
(* behind.                                                                 *)
(*                                                                         *)
(* The bus is either.  On the TopicEventBus events of one type and symbol  *)
(* keep their order and others may overtake, a publication may be refused, *)
(* and a drain may time out.  On the InProcessEventBus, which              *)
(* InProcessEventBus.tla models, none of this happens.                     *)
(*                                                                         *)
(* MaxTime, MaxSignals, MaxEmitted and MaxFaults bound the model.          *)
(***************************************************************************)
EXTENDS Pipeline

CONSTANTS
    Prices,          \* the opens and closes of bars
    Ideas,           \* what strategies may ask for: signals without identity
    Buses,           \* the buses a run may be given
    MaxTime, MaxSignals, MaxEmitted, MaxFaults

ASSUME FlowAssumption ==
    /\ Prices \subseteq Nat \ {0}
    /\ Buses \subseteq {"InProcess", "Topic"}
    /\ MaxTime \in Nat \ {0} /\ MaxSignals \in Nat /\ MaxEmitted \in Nat /\ MaxFaults \in Nat
    /\ \A idea \in Ideas :
          /\ idea.symbol \in Symbols
          /\ idea.side \in Sides \cup {"Flat"}
          /\ idea.order \in {"Market", "Limit"}
          /\ idea.limit \in Nat \cup {None}
          /\ idea.quantity \in Nat

VARIABLES
    queue,           \* published and not delivered yet
    fed,             \* the symbols whose bar at clock has been published
    finished,        \* replay() has returned
    faults,          \* refusals and timeouts so far
    bus              \* the bus of this run

flowVars == <<pipelineVars, queue, fed, finished, faults, bus>>

vars == <<portfolioVars, executionVars, riskVars, flowVars>>

TypeOK ==
    /\ PortfolioTypeOK /\ ExecutionTypeOK /\ RiskTypeOK
    /\ queue \in Seq(Events)
    /\ clock \in 1..MaxTime
    /\ fed \subseteq Symbols
    /\ DOMAIN lastMarks \subseteq Symbols
    /\ \A s \in DOMAIN lastMarks : lastMarks[s] \in MarketEvents
    /\ emitted \in 0..MaxSignals
    /\ finished \in BOOLEAN
    /\ faults \in 0..MaxFaults
    /\ bus \in Buses

Init ==
    /\ PortfolioInit /\ ExecutionInit /\ RiskInit
    /\ queue = <<>>
    /\ clock = 1
    /\ fed = {}
    /\ lastMarks = <<>>
    /\ emitted = 0
    /\ finished = FALSE
    /\ faults = 0
    /\ bus \in Buses

-----------------------------------------------------------------------------
(* The bus.                                                                *)

(* The events the dispatcher may take next, by their place.                *)
Deliverable ==
    {i \in 1..Len(queue) :
        \A j \in 1..(i - 1) :
            bus = "Topic" /\ (queue[j].type # queue[i].type \/ queue[j].symbol # queue[i].symbol)}

Without(s, i) == [k \in 1..(Len(s) - 1) |-> s[IF k < i THEN k ELSE k + 1]]

(* rest is the queue, less what is being delivered, and out is published.   *)
(* A refused publication is dropped: no publisher looks at the result.     *)
Send(rest, out) ==
    \/ /\ queue' = rest \o out
       /\ UNCHANGED faults
    \/ \E i \in 1..Len(out) :
          /\ bus = "Topic" /\ faults < MaxFaults
          /\ queue' = rest \o Without(out, i)
          /\ faults' = faults + 1

-----------------------------------------------------------------------------
(* The simulator is first: it executes orders of earlier bars.             *)
DeliverMarketData(i) ==
    /\ queue[i].type = "MarketData"
    /\ LET market == queue[i]
       IN  \E fills \in FillChoices(market),
              ideas \in BoundedSeq(Ideas, Min({MaxEmitted, MaxSignals - emitted})) :
              /\ Execute(market, fills)
              /\ HandleMarketData(market, ideas)
              /\ Send(Without(queue, i), Publications(market, fills) \o SignalsFrom(ideas, market))
    /\ UNCHANGED <<fed, finished>>

DeliverSignal(i) ==
    /\ queue[i].type = "Signal"
    /\ HandleSignal(queue[i])
    /\ Send(Without(queue, i), OrdersFor(queue[i]))
    /\ UNCHANGED <<fed, finished>>

DeliverOrder(i) ==
    /\ queue[i].type = "Order"
    /\ HandleOrder(queue[i])
    /\ Send(Without(queue, i), <<>>)
    /\ UNCHANGED <<fed, finished>>

DeliverFill(i) ==
    /\ queue[i].type = "Fill"
    /\ HandleFill(queue[i])
    /\ Send(Without(queue, i), <<>>)
    /\ UNCHANGED <<fed, finished>>

(* run(), the dispatcher, which stops when the run ends.                   *)
Dispatch ==
    /\ ~finished
    /\ UNCHANGED bus
    /\ \E i \in Deliverable :
          DeliverMarketData(i) \/ DeliverSignal(i) \/ DeliverOrder(i) \/ DeliverFill(i)

-----------------------------------------------------------------------------
(* replay().                                                               *)

PublishBar(symbol) ==
    /\ ~finished
    /\ symbol \notin fed
    /\ fed' = fed \cup {symbol}
    /\ \E open, price \in Prices :
          Send(queue, <<[type |-> "MarketData", symbol |-> symbol, time |-> clock,
                         open |-> open, price |-> price]>>)
    /\ UNCHANGED <<portfolioVars, executionVars, riskVars, clock, lastMarks, emitted, finished>>

(* wait_until_drained() at the end of a timestamp returns: the bus is      *)
(* empty, or the wait timed out.                                           *)
Drained ==
    /\ ~finished
    /\ fed # {}
    /\ \/ queue = <<>> /\ UNCHANGED faults
       \/ /\ bus = "Topic" /\ queue # <<>> /\ faults < MaxFaults
          /\ faults' = faults + 1

NextTime ==
    /\ Drained
    /\ clock < MaxTime
    /\ clock' = clock + 1
    /\ fed' = {}
    /\ UNCHANGED <<portfolioVars, executionVars, riskVars, queue, lastMarks, emitted, finished>>

(* The bars are at an end, or the caller stopped the run.                  *)
Finish ==
    /\ Drained
    /\ finished' = TRUE
    /\ UNCHANGED <<portfolioVars, executionVars, riskVars, queue, clock, fed, lastMarks, emitted>>

(* The kill switch, from another thread.                                   *)
Control ==
    /\ ~finished
    /\ \E engaged \in BOOLEAN : SetKillSwitch(engaged)
    /\ UNCHANGED <<portfolioVars, executionVars, flowVars>>

-----------------------------------------------------------------------------
Replay ==
    /\ UNCHANGED bus
    /\ (\E s \in Symbols : PublishBar(s)) \/ NextTime \/ Finish

Next == Dispatch \/ Replay \/ Control

Spec == Init /\ [][Next]_vars

(* The two threads of a run keep running.                                  *)
FairSpec == Spec /\ WF_vars(Dispatch) /\ WF_vars(Replay)

-----------------------------------------------------------------------------
(* Properties.                                                             *)

InQueue(P(_)) == \E i \in 1..Len(queue) : P(queue[i])

IsOpening(event, o) == event.type = "Order" /\ event.id = o /\ event.status = "Working"

IsFill(event, o) == event.type = "Fill" /\ event.order = o

SharesInFlight(o) ==
    SumFunction([i \in {j \in 1..Len(queue) : IsFill(queue[j], o)} |-> Shares(queue[i])])

(* No short selling: the shares promised to sells, pending or about to be, *)
(* are always held, although signals are checked one after the other while *)
(* earlier sells have neither reached the portfolio nor been filled.       *)
NeverShort ==
    bus = "InProcess" => \A s \in Symbols : position[s] >= CommittedToSell(s)

(* No signal is approved with cash already promised: as long as the market *)
(* stays inside what a reservation allows for, and a sale, for which no    *)
(* cash is held, pays its own fees, the portfolio never owes more than it  *)
(* has, whatever is in flight between risk, execution and it.              *)
ReservationsSuffice ==
    /\ WholeFills /\ SlipPercent = 0
    /\ \A p, q \in Prices : 100 * p <= (100 + BuyBuffer) * q
    /\ \A idea \in Ideas :
          /\ idea.order = "Market" => idea.limit = None
          /\ \A p \in Prices, n \in 1..idea.quantity : FeesOn(n, p * n) <= p * n

CashCoversReservations ==
    (bus = "InProcess" /\ ReservationsSuffice) => BuyingPower >= 0

(* A hold is never left behind: an approved signal holds cash or shares    *)
(* only while the order event that takes over or frees the hold is queued. *)
HoldsAreOwed ==
    bus = "InProcess" => \A s \in DOMAIN holds :
        InQueue(LAMBDA e : /\ e.type = "Order" /\ e.signal = s
                           /\ e.status \in {"Working", "Rejected"})

(* The portfolio's open orders are the simulator's, seen through the queue: *)
(* an order the simulator works is open with the shares still to execute   *)
(* and those in flight, unless it has yet to be opened; and an order that  *)
(* is open though the simulator is done with it has its last fill queued.  *)
PortfolioTracksExecution ==
    bus = "InProcess" =>
    /\ \A o \in DOMAIN working :
          \/ InQueue(LAMBDA e : IsOpening(e, o)) /\ o \notin DOMAIN openOrders
          \/ /\ o \in DOMAIN openOrders
             /\ openOrders[o].remaining = Remaining(working[o]) + SharesInFlight(o)
    /\ \A o \in DOMAIN openOrders \ DOMAIN working :
          /\ InQueue(LAMBDA e : IsFill(e, o) /\ e.status = "Filled")
          /\ openOrders[o].remaining = SharesInFlight(o)

(* What is still reserved for a limit buy that has executed in part is the *)
(* share that its shares to come have of the cash it was approved for, to  *)
(* half a unit for each share executed.                                    *)
KeepsItsShare(order, held) ==
    2 * Abs(order.quantity * held.reserved
              - held.remaining * BuyCost(order.symbol, order.quantity, order.limit))
        <= order.quantity * (order.quantity - held.remaining)

ReservationsShrink ==
    bus = "InProcess" =>
    \A o \in DOMAIN working \cap DOMAIN openOrders :
        working[o].side = "Buy" /\ working[o].limit # None
            => KeepsItsShare(working[o], openOrders[o])

(* The simulator's fills reach the portfolio as it demands them: none is   *)
(* refused for its order being closed or for a gap in its sequence.        *)
FillsApply ==
    (bus = "InProcess" /\ queue # <<>> /\ Head(queue).type = "Fill") => Applies(Head(queue))

(* No look-ahead: no order executes at the prices of the bar its strategy  *)
(* decided on or of one before it, whenever its signal was delivered.      *)
NoLookAhead ==
    \A i \in 1..Len(queue) :
        queue[i].type = "Fill" => queue[i].time > queue[i].decided

(* A symbol is valued at the close of the newest bar delivered for it,     *)
(* though fills at that bar's open are applied after the bar.              *)
MarkedAtNewestBar ==
    \A s \in DOMAIN lastMarks : marks[s] = lastMarks[s].price

(* An order is never open again once closed, in whatever order its events  *)
(* arrive and whichever of them are lost.                                  *)
ClosedStaysClosed == DOMAIN openOrders \cap closed = {}

(* No event of a broker that drops and reorders makes the account short.   *)
NeverNegative == \A s \in Symbols : position[s] >= 0

(* No more orders are open at the simulator than max_open_orders, as its   *)
(* documentation has it.                                                   *)
OpenOrderLimit == RiskPolicies => Cardinality(DOMAIN working) <= MaxOpenOrders

(* Every hold is taken over or freed in the end.                           *)
HoldsResolve ==
    \A s \in 1..MaxSignals :
        (bus = "InProcess" /\ s \in DOMAIN holds) ~> s \notin DOMAIN holds

(* The replay of a finite data set comes to its end: no drain waits for    *)
(* ever for handlers that keep each other busy.                            *)
ReplayFinishes == <>finished

(* The portfolio's marks, and so every limit risk checks and all equity,   *)
(* are of the newest bars, in a state that is well typed throughout.       *)
MarksAreNewest == TypeOK /\ MarkedAtNewestBar

(* The portfolio's books and the simulator's agree but for what is queued: *)
(* holds, open orders and fills.                                           *)
BooksAgree == HoldsAreOwed /\ PortfolioTracksExecution /\ FillsApply

(* Whatever a broker with topics reorders, drops or delivers late, the     *)
(* account is not short and what is closed stays closed.                   *)
SurvivesReordering == NeverNegative /\ ClosedStaysClosed

(* A run settles: no hold stays for ever and the replay comes to its end.  *)
Settles == HoldsResolve /\ ReplayFinishes
=============================================================================
