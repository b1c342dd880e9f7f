------------------------------ MODULE Pipeline ------------------------------
(***************************************************************************)
(* What the components of a run do with one event, in the order they were  *)
(* subscribed (app/pipeline.cpp, portfolio/portfolio_bus_bridge.cpp,       *)
(* RiskManager::start).  How events get to them is the composition's:      *)
(* OrderFlow's bus, and Backtest's.                                        *)
(***************************************************************************)
EXTENDS RiskManager, ExecutionSimulator

VARIABLES
    clock,           \* the ManualClock
    lastMarks,       \* the bridge's last_marks_
    emitted          \* signal_ids_ of the strategy engine

pipelineVars == <<clock, lastMarks, emitted>>

SignalFrom(idea, id, market) ==
    [type |-> "Signal", id |-> id, symbol |-> idea.symbol, side |-> idea.side,
     order |-> idea.order, limit |-> idea.limit, quantity |-> idea.quantity,
     decided |-> market.time]

SignalsFrom(ideas, market) ==
    [k \in 1..Len(ideas) |-> SignalFrom(ideas[k], emitted + k, market)]

(* MarketData: the risk manager takes the reference price, the bridge      *)
(* marks, and last the strategies emit.                                    *)
HandleMarketData(market, ideas) ==
    /\ Observe(market)
    /\ Mark(market.symbol, market.price)
    /\ lastMarks' = Put(lastMarks, market.symbol, market)
    /\ emitted' = emitted + Len(ideas)
    /\ UNCHANGED clock

(* Signal: the risk manager checks it and submits an approved one itself,  *)
(* and the simulator publishes the order made.                             *)
HandleSignal(signal) ==
    /\ \/ /\ Approves(signal)
          /\ HoldForSignal(Resized(signal))
          /\ Submit(Resized(signal), clock)
       \/ ~Approves(signal) /\ UNCHANGED <<portfolioVars, executionVars>>
    /\ UNCHANGED <<riskVars, pipelineVars>>

OrdersFor(signal) ==
    IF Approves(signal) THEN <<NewOrder(Resized(signal), clock)>> ELSE <<>>

HandleOrder(order) ==
    /\ ApplyOrderUpdate(order)
    /\ UNCHANGED <<executionVars, riskVars, pipelineVars>>

(* A fault: the fill's own price stays as the mark.                        *)
MarkAtFill(fill) == fill.price

(* Fill: the bridge restores a mark that is at least as new as the fill.   *)
MarkAfter(fill) ==
    IF fill.symbol \in DOMAIN lastMarks /\ lastMarks[fill.symbol].time >= fill.time
    THEN lastMarks[fill.symbol].price
    ELSE fill.price

HandleFill(fill) ==
    /\ \/ ApplyFill(fill, MarkAfter(fill))
       \/ ~Applies(fill) /\ UNCHANGED portfolioVars
    /\ UNCHANGED <<executionVars, riskVars, pipelineVars>>
=============================================================================
