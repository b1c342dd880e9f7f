------------------------------ MODULE Backtest ------------------------------
(***************************************************************************)
(* Backtest::run() (app/backtest.cpp): recorded bars through the real      *)
(* simulator, risk manager, portfolio and strategies, one bar at a time.   *)
(* The caller drains the bus after each step, so between two drains only   *)
(* the dispatcher moves.  The handlers are those of Pipeline, but the      *)
(* simulator gets each bar from the caller, before the others, instead of  *)
(* from the bus, which is the InProcessEventBus.                           *)
(*                                                                         *)
(* A bar that is refused is one that MarketDataService refuses (a low that *)
(* is not positive, say), while its open still trades.                     *)
(***************************************************************************)
EXTENDS Pipeline, PerformanceAnalyzer

CONSTANTS
    DataSets,        \* what run() may be called with
    Ideas,           \* what strategies may ask for: signals without identity
    MaxTime, MaxSignals, MaxEmitted

Bars == [symbol : Symbols, time : 1..MaxTime, open : Nat, price : Nat, refused : BOOLEAN]

ASSUME BacktestAssumption ==
    /\ MaxTime \in Nat /\ MaxSignals \in Nat /\ MaxEmitted \in Nat
    /\ \A given \in DataSets : given \in Seq(Bars)
    /\ \A idea \in Ideas :
          /\ idea.symbol \in Symbols
          /\ idea.side \in Sides \cup {"Flat"}
          /\ idea.order \in {"Market", "Limit"}
          /\ idea.limit \in Nat \cup {None}
          /\ idea.quantity \in Nat

VARIABLES
    bars, at,        \* the bars, sorted once run() has begun, and the one at work
    phase,
    queue,
    fills,           \* result.fills
    curve,           \* equities: the starting one, and result.equity_curve
    report,          \* result.report, None before the end
    openAtEnd        \* result.open_orders_at_end

resultVars == <<curve, report, openAtEnd>>

accountVars == <<portfolioVars, executionVars, riskVars>>

vars == <<accountVars, pipelineVars, bars, at, phase, queue, fills, resultVars>>

Phases == {"Called", "Refused", "Bar", "Executed", "Fed", "Done"}

TypeOK ==
    /\ PortfolioTypeOK /\ ExecutionTypeOK /\ RiskTypeOK
    /\ bars \in Seq(Bars) /\ phase \in Phases
    /\ at \in 1..(Len(bars) + 1)
    /\ queue \in Seq(Events) /\ fills \in Seq(Fills)
    /\ clock \in 0..MaxTime /\ emitted \in 0..MaxSignals
    /\ DOMAIN lastMarks \subseteq Symbols
    /\ \A s \in DOMAIN lastMarks : lastMarks[s] \in MarketEvents
    /\ curve \in Seq(Int) /\ openAtEnd \in Nat
    /\ report # None => phase = "Done"

Init ==
    /\ PortfolioInit /\ ExecutionInit /\ RiskInit
    /\ bars \in DataSets /\ at = 1 /\ phase = "Called"
    /\ queue = <<>> /\ clock = 0 /\ lastMarks = <<>> /\ emitted = 0
    /\ fills = <<>> /\ curve = <<>> /\ report = None /\ openAtEnd = 0

-----------------------------------------------------------------------------
(* std::stable_sort by exchange_time.                                      *)
Sorted(given) ==
    LET Before(i, j) == given[i].time < given[j].time \/ (given[i].time = given[j].time /\ i < j)
        places == CHOOSE p \in [1..Len(given) -> 1..Len(given)] :
                     \A i, j \in 1..Len(given) : i < j => Before(p[i], p[j])
    IN  [k \in 1..Len(given) |-> given[places[k]]]

(* No bars: nothing is built.                                              *)
RefuseNoBars ==
    /\ phase = "Called" /\ bars = <<>>
    /\ phase' = "Refused"
    /\ UNCHANGED <<accountVars, pipelineVars, bars, at, queue, fills, resultVars>>

Begin ==
    /\ phase = "Called" /\ bars # <<>>
    /\ bars' = Sorted(bars)
    /\ clock' = Sorted(bars)[1].time
    /\ curve' = <<TotalEquity>>
    /\ phase' = "Bar"
    /\ UNCHANGED <<accountVars, lastMarks, emitted, at, queue, fills, report, openAtEnd>>

(* A fault: the caller does not wait for the dispatcher.                   *)
NothingAwaited == TRUE

(* wait_until_drained() returns.                                           *)
Drained == queue = <<>>

EventOf(bar) ==
    [type |-> "MarketData", symbol |-> bar.symbol, time |-> bar.time, open |-> bar.open,
     price |-> bar.price]

(* The simulator first: orders of earlier bars execute at this one's open. *)
ExecuteBar ==
    /\ phase = "Bar" /\ at <= Len(bars)
    /\ clock' = bars[at].time
    /\ LET market == EventOf(bars[at])
       IN  \E executed \in FillChoices(market) :
              /\ Execute(market, executed)
              /\ queue' = queue \o Publications(market, executed)
    /\ phase' = "Executed"
    /\ UNCHANGED <<portfolioVars, riskVars, bars, at, lastMarks, emitted, fills, resultVars>>

(* Then the market data service, which publishes the bar or refuses it.    *)
FeedBar ==
    /\ phase = "Executed" /\ Drained
    /\ queue' = IF bars[at].refused THEN queue ELSE Append(queue, EventOf(bars[at]))
    /\ phase' = "Fed"
    /\ UNCHANGED <<accountVars, pipelineVars, bars, at, fills, resultVars>>

LastAtTime == at = Len(bars) \/ bars[at + 1].time # bars[at].time

EndBar ==
    /\ phase = "Fed" /\ Drained
    /\ curve' = IF LastAtTime THEN Append(curve, TotalEquity) ELSE curve
    /\ at' = at + 1
    /\ phase' = "Bar"
    /\ UNCHANGED <<accountVars, pipelineVars, bars, queue, fills, report, openAtEnd>>

(* finish(), and the report on everything recorded.                        *)
Finish ==
    /\ phase = "Bar" /\ at > Len(bars)
    /\ report' = Analyze(curve, fills)
    /\ openAtEnd' = Cardinality(DOMAIN working)
    /\ phase' = "Done"
    /\ UNCHANGED <<accountVars, pipelineVars, bars, at, queue, fills, curve>>

-----------------------------------------------------------------------------
(* The dispatcher.  A bar: the risk manager observes it, the portfolio     *)
(* marks its close, and the strategies may ask for an order.               *)
DeliverBar ==
    /\ queue # <<>> /\ Head(queue).type = "MarketData"
    /\ LET market == Head(queue)
       IN  \E ideas \in BoundedSeq(Ideas, Min({MaxEmitted, MaxSignals - emitted})) :
              /\ HandleMarketData(market, ideas)
              /\ queue' = Tail(queue) \o SignalsFrom(ideas, market)
    /\ UNCHANGED <<executionVars, fills>>

DeliverSignal ==
    /\ queue # <<>> /\ Head(queue).type = "Signal"
    /\ HandleSignal(Head(queue))
    /\ queue' = Tail(queue) \o OrdersFor(Head(queue))
    /\ UNCHANGED fills

DeliverOrder ==
    /\ queue # <<>> /\ Head(queue).type = "Order"
    /\ HandleOrder(Head(queue))
    /\ queue' = Tail(queue)
    /\ UNCHANGED fills

(* The recorder hears every fill, whatever the portfolio makes of it.      *)
DeliverFill ==
    /\ queue # <<>> /\ Head(queue).type = "Fill"
    /\ HandleFill(Head(queue))
    /\ queue' = Tail(queue)
    /\ fills' = Append(fills, Head(queue))

Dispatch ==
    /\ DeliverBar \/ DeliverSignal \/ DeliverOrder \/ DeliverFill
    /\ UNCHANGED <<bars, at, phase, resultVars>>

Caller == RefuseNoBars \/ Begin \/ ExecuteBar \/ FeedBar \/ EndBar \/ Finish

Next == Caller \/ Dispatch

Spec == Init /\ [][Next]_vars

-----------------------------------------------------------------------------
(* Properties.                                                             *)

(* No look-ahead: an order executes at a bar later than the one its        *)
(* strategy decided on, also when several bars share a timestamp.          *)
NoLookAhead == \A i \in 1..Len(fills) : fills[i].time > fills[i].decided

(* When the bus is drained nothing is in between: no hold is waiting for   *)
(* its order, and the portfolio's open orders are the simulator's, with    *)
(* the same shares to execute, so each signal is checked against all that  *)
(* came before it.                                                         *)
SettledBetweenSteps ==
    (Drained /\ phase # "Called") =>
        /\ holds = <<>>
        /\ DOMAIN openOrders = DOMAIN working
        /\ \A o \in DOMAIN working : openOrders[o].remaining = Remaining(working[o])

Accepted == {i \in 1..Min({at, Len(bars)}) : ~bars[i].refused}

(* The newest price of a symbol: its newest bar's close, or that of a fill *)
(* at a later time, which only a refused bar leaves behind.                *)
NewestPrice(symbol) ==
    LET own == {i \in Accepted : bars[i].symbol = symbol}
        bar == IF own = {} THEN [time |-> 0, price |-> 0] ELSE bars[Max(own)]
        later == {i \in 1..Len(fills) : fills[i].symbol = symbol /\ fills[i].time > bar.time}
    IN  IF later = {} THEN bar.price ELSE fills[Max(later)].price

(* A snapshot of the curve values every share at its newest price, though  *)
(* fills at the bar's open were applied just before its close was marked.  *)
SnapshotsAtNewest ==
    [][Len(curve') > Len(curve) =>
        \A s \in Symbols : position[s] # 0 => marks[s] = NewestPrice(s)]_vars

Times == {bars[i].time : i \in 1..Len(bars)}

(* One snapshot for every timestamp, after the starting one.               *)
SnapshotPerTime == phase = "Done" => Len(curve) = Cardinality(Times) + 1

(* The shares held of a fill's symbol after it.                            *)
HeldAfter(i) ==
    SumFunction([j \in 1..i |->
        IF fills[j].symbol = fills[i].symbol THEN fills[j].quantity ELSE 0])

(* Twice what the average costs may be off: each share by half a unit.     *)
Slack == SumFunction([i \in 1..Len(fills) |-> Abs(HeldAfter(i))])

(* The report adds up to the account: what the trades made, less what the  *)
(* shares still held cost beyond their value, is the change in equity, but *)
(* for the rounding of average costs; and what the analyzer believes to be *)
(* held is what the portfolio holds.                                       *)
ReportAddsUp ==
    report # None =>
        LET lots == report.trades.lots
            Open(s) == IF lots[s].quantity = 0 THEN 0
                       ELSE lots[s].quantity * (marks[s] - lots[s].cost) - lots[s].fees
            error == report.trades.profit - report.trades.loss
                        + SumFunction([s \in Symbols |-> Open(s)])
                        - (report.ending - report.starting)
        IN  /\ \A s \in Symbols : lots[s].quantity = position[s]
            /\ 2 * error <= Slack /\ -2 * error <= Slack

(* The drawdown is the deepest fall from an equity to a later one, if      *)
(* there is any; to an equity below 0 only from the highest before it,     *)
(* since below 0 a fall is the deeper the lower it began.                  *)
DrawdownIsDeepest ==
    report # None =>
        /\ \A i \in 1..Len(curve) : \A j \in i..Len(curve) :
              (/\ curve[i] > 0
               /\ curve[j] >= 0 \/ \A k \in 1..j : curve[k] <= curve[i])
              => ~Deeper(<<curve[j], curve[i]>>, report.drawdown)
        /\ \/ report.drawdown = NoDrawdown
           \/ \E i \in 1..Len(curve) : \E j \in i..Len(curve) :
                 curve[i] > 0 /\ report.drawdown = <<curve[j], curve[i]>>

(* The steps of a bar are kept apart: execution is over and settled before *)
(* the strategies see the bar, so nothing trades on what it has not seen.  *)
StepsAreSeparate == NoLookAhead /\ SettledBetweenSteps

(* The report is the account's: its curve, its profit and its drawdown.    *)
ReportTellsAccount == TypeOK /\ SnapshotPerTime /\ ReportAddsUp /\ DrawdownIsDeepest
=============================================================================
