----------------------------- MODULE Portfolio -----------------------------
(***************************************************************************)
(* PortfolioManager (portfolio/portfolio_manager.cpp): cash, positions,    *)
(* and the cash and shares promised to signals (holds) and to orders       *)
(* (openOrders).  Every operation holds mutex_ throughout, so each is one  *)
(* action, with the event it applies as its argument.                      *)
(*                                                                         *)
(* Average cost and realised P&L, which no decision of the system reads,   *)
(* are left out.                                                           *)
(***************************************************************************)
EXTENDS Trading

CONSTANTS
    StartingCash,
    BuyBuffer        \* market_buy_buffer, in percent

ASSUME PortfolioAssumption == StartingCash \in Nat /\ BuyBuffer \in Nat

VARIABLES
    cash,
    position,        \* positions_[s].quantity, 0 for a symbol without one
    marks,           \* marks_: the symbols marked so far to their price
    holds,           \* holds_: signal id to what it holds
    openOrders,      \* open_orders_: order id to its PendingOrder
    closed,          \* closed_orders_
    lastSequence,    \* last_sequence_: order id to its last fill's sequence
    appliedFills     \* applied_fills_

portfolioVars ==
    <<cash, position, marks, holds, openOrders, closed, lastSequence, appliedFills>>

Holds == [symbol : Symbols, side : Sides, quantity : Nat, amount : Nat]

PendingOrders ==
    [signal : Nat, symbol : Symbols, side : Sides, remaining : Nat, reserved : Nat]

PortfolioTypeOK ==
    /\ cash \in Int
    /\ position \in [Symbols -> Int]
    /\ DOMAIN marks \subseteq Symbols /\ \A s \in DOMAIN marks : marks[s] \in Nat
    /\ DOMAIN holds \subseteq Nat /\ \A s \in DOMAIN holds : holds[s] \in Holds
    /\ DOMAIN openOrders \subseteq Nat
    /\ \A o \in DOMAIN openOrders : openOrders[o] \in PendingOrders
    /\ closed \subseteq Nat
    /\ DOMAIN lastSequence \subseteq Nat
    /\ \A o \in DOMAIN lastSequence : lastSequence[o] \in Nat
    /\ appliedFills \subseteq Nat

PortfolioInit ==
    /\ cash = StartingCash
    /\ position = [s \in Symbols |-> 0]
    /\ marks = <<>>
    /\ holds = <<>>
    /\ openOrders = <<>>
    /\ closed = {}
    /\ lastSequence = <<>>
    /\ appliedFills = {}

-----------------------------------------------------------------------------
(* The read side.                                                          *)

Put(f, k, v) == [x \in DOMAIN f \cup {k} |-> IF x = k THEN v ELSE f[x]]
Drop(f, k) == [x \in DOMAIN f \ {k} |-> f[x]]

ReservedTotal ==
    SumFunction([s \in DOMAIN holds |-> holds[s].amount])
        + SumFunction([o \in DOMAIN openOrders |-> openOrders[o].reserved])

BuyingPower == cash - ReservedTotal

HeldToSell(symbol) ==
    [s \in DOMAIN holds |->
        IF holds[s].side = "Sell" /\ holds[s].symbol = symbol THEN holds[s].quantity ELSE 0]

OpenToSell(symbol) ==
    [o \in DOMAIN openOrders |->
        IF openOrders[o].side = "Sell" /\ openOrders[o].symbol = symbol
        THEN openOrders[o].remaining ELSE 0]

CommittedToSell(symbol) == SumFunction(HeldToSell(symbol)) + SumFunction(OpenToSell(symbol))

ValueOf(symbol) ==
    IF symbol \in DOMAIN marks THEN marks[symbol] * position[symbol] ELSE 0

GrossExposure ==
    SumFunction([s \in Symbols |-> IF ValueOf(s) < 0 THEN -ValueOf(s) ELSE ValueOf(s)])

TotalEquity == cash + SumFunction([s \in Symbols |-> ValueOf(s)])

(* A fault: a market buy is reserved at the mark, without the buffer.      *)
BuyCostAtMark(symbol, quantity, limit) ==
    LET notional == IF limit # None THEN limit * quantity ELSE marks[symbol] * quantity
    IN  notional + FeesOn(quantity, notional)

(* Cash to hold for a buy: at its limit, else at the mark plus the buffer. *)
BuyCost(symbol, quantity, limit) ==
    LET notional == IF limit # None THEN limit * quantity
                    ELSE ScaledBy(marks[symbol] * quantity, 100 + BuyBuffer)
    IN  notional + FeesOn(quantity, notional)

CanPrice(symbol, limit) == limit # None \/ symbol \in DOMAIN marks

-----------------------------------------------------------------------------
(* hold_for_signal(): a buy needs buying power, a sell shares that are held *)
(* and not promised yet.  A signal that already holds is granted as it is. *)

(* A fault: shares promised to other sells count as free.                  *)
HoldGrantedOnPosition(signal) ==
    \/ signal.id \in DOMAIN holds
    \/ /\ signal.quantity > 0
       /\ IF OrderSide(signal) = "Sell"
          THEN signal.quantity <= position[signal.symbol]
          ELSE /\ CanPrice(signal.symbol, signal.limit)
               /\ BuyCost(signal.symbol, signal.quantity, signal.limit) <= BuyingPower

HoldGranted(signal) ==
    \/ signal.id \in DOMAIN holds
    \/ /\ signal.quantity > 0
       /\ IF OrderSide(signal) = "Sell"
          THEN signal.quantity <= position[signal.symbol] - CommittedToSell(signal.symbol)
          ELSE /\ CanPrice(signal.symbol, signal.limit)
               /\ BuyCost(signal.symbol, signal.quantity, signal.limit) <= BuyingPower

HoldFor(signal) ==
    [symbol |-> signal.symbol, side |-> OrderSide(signal), quantity |-> signal.quantity,
     amount |-> IF OrderSide(signal) = "Sell" THEN 0
                ELSE BuyCost(signal.symbol, signal.quantity, signal.limit)]

HoldForSignal(signal) ==
    /\ HoldGranted(signal)
    /\ holds' = IF signal.id \in DOMAIN holds THEN holds
                ELSE Put(holds, signal.id, HoldFor(signal))
    /\ UNCHANGED <<cash, position, marks, openOrders, closed, lastSequence, appliedFills>>

(* mark(): the last trade price, which every bar has and is positive.      *)
Mark(symbol, price) ==
    /\ marks' = Put(marks, symbol, price)
    /\ UNCHANGED <<cash, position, holds, openOrders, closed, lastSequence, appliedFills>>

-----------------------------------------------------------------------------
(* apply_order_update().  A Working order takes over its signal's hold, or *)
(* reserves now; a rejected one frees whatever it or its signal holds.     *)
(* The other statuses change nothing: fills drive them.                    *)

Pending(order) ==
    [signal |-> order.signal, symbol |-> order.symbol, side |-> order.side,
     remaining |-> order.quantity - order.filled,
     reserved |->
        IF order.signal \in DOMAIN holds THEN holds[order.signal].amount
        ELSE IF order.side = "Buy" /\ CanPrice(order.symbol, order.limit)
        THEN BuyCost(order.symbol, order.quantity - order.filled, order.limit)
        ELSE 0]

(* A fault: a late Working event opens an order that is closed.            *)
OpensEvenClosed(order) ==
    /\ order.status = "Working"
    /\ order.id \notin DOMAIN openOrders
    /\ order.quantity > order.filled

Opens(order) ==
    /\ order.status = "Working"
    /\ order.id \notin DOMAIN openOrders \cup closed
    /\ order.quantity > order.filled

(* A fault: the order's reservation is added to its signal's hold.         *)
OpenOrderKeepingHold(order) ==
    /\ Opens(order)
    /\ openOrders' = Put(openOrders, order.id, Pending(order))
    /\ UNCHANGED <<closed, holds>>

OpenOrder(order) ==
    /\ Opens(order)
    /\ openOrders' = Put(openOrders, order.id, Pending(order))
    /\ holds' = Drop(holds, order.signal)
    /\ UNCHANGED closed

(* A fault: only an order that was open frees what it holds.               *)
ReleaseOpenOrder(order) ==
    /\ order.status = "Rejected"
    /\ openOrders' = Drop(openOrders, order.id)
    /\ closed' = closed \cup {order.id}
    /\ UNCHANGED holds

ReleaseOrder(order) ==
    /\ order.status = "Rejected"
    /\ openOrders' = Drop(openOrders, order.id)
    /\ holds' = Drop(holds, order.signal)
    /\ closed' = closed \cup {order.id}

IgnoreOrder(order) ==
    /\ order.status # "Rejected" /\ ~Opens(order)
    /\ UNCHANGED <<openOrders, holds, closed>>

ApplyOrderUpdate(order) ==
    /\ OpenOrder(order) \/ ReleaseOrder(order) \/ IgnoreOrder(order)
    /\ UNCHANGED <<cash, position, marks, lastSequence, appliedFills>>

-----------------------------------------------------------------------------
(* apply().  A fill already applied is ignored; one of a closed order or    *)
(* with a gap in its sequence throws.  Neither changes anything.           *)

Shares(fill) == IF fill.quantity < 0 THEN -fill.quantity ELSE fill.quantity

ExpectedSequence(order) ==
    IF order \in DOMAIN lastSequence THEN lastSequence[order] + 1 ELSE 1

Applies(fill) ==
    /\ fill.id \notin appliedFills
    /\ fill.order \notin closed
    /\ fill.sequence = ExpectedSequence(fill.order)

(* release_for_fill(): the order's last fill frees all it still holds, any *)
(* other its share of it.                                                  *)
EndsOrder(fill) ==
    \/ fill.status = "Filled"
    \/ /\ fill.order \in DOMAIN openOrders
       /\ Shares(fill) >= openOrders[fill.order].remaining

(* A fault: the shares still to execute are not counted down.              *)
AfterFillSameShares(order, shares) ==
    [order EXCEPT !.reserved = @ - DividedBy(@ * shares, order.remaining)]

(* A fault: the share freed is truncated.                                  *)
AfterFillTruncated(order, shares) ==
    [order EXCEPT !.reserved = @ - (@ * shares) \div order.remaining,
                  !.remaining = @ - shares]

AfterFill(order, shares) ==
    [order EXCEPT !.reserved = @ - DividedBy(@ * shares, order.remaining),
                  !.remaining = @ - shares]

ReleaseForFill(fill) ==
    /\ openOrders' =
        IF fill.order \notin DOMAIN openOrders THEN openOrders
        ELSE IF EndsOrder(fill) THEN Drop(openOrders, fill.order)
        ELSE [openOrders EXCEPT ![fill.order] = AfterFill(@, Shares(fill))]
    /\ closed' = IF EndsOrder(fill) THEN closed \cup {fill.order} ELSE closed

(* The fill marks its symbol at its price; mark is what the caller leaves   *)
(* there before anything else runs (the bus bridge).                       *)
ApplyFill(fill, mark) ==
    /\ Applies(fill)
    /\ ReleaseForFill(fill)
    /\ cash' = cash - (fill.price * fill.quantity + fill.fees)
    /\ position' = [position EXCEPT ![fill.symbol] = @ + fill.quantity]
    /\ marks' = Put(marks, fill.symbol, mark)
    /\ appliedFills' = appliedFills \cup {fill.id}
    /\ lastSequence' = IF fill.status = "Filled" THEN Drop(lastSequence, fill.order)
                       ELSE Put(lastSequence, fill.order, fill.sequence)
    /\ UNCHANGED holds
=============================================================================
