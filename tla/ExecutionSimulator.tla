------------------------- MODULE ExecutionSimulator -------------------------
(***************************************************************************)
(* ExecutionSimulator with NaiveFillModel (execution/*.cpp).  It turns an  *)
(* approved signal into an order, and fills working orders against each    *)
(* market event.  Each operation changes state under mutex_ and publishes  *)
(* after releasing it; here it is an action, and what it publishes is an   *)
(* operator of the same arguments that the composition sends.              *)
(*                                                                         *)
(* WholeFills is NaiveFillModel, which fills all that remains.  The        *)
(* simulator takes any IFillModel: without WholeFills an order executes    *)
(* any part of it, at most once per market event.                          *)
(***************************************************************************)
EXTENDS Trading

CONSTANT WholeFills

ASSUME WholeFillsAssumption == WholeFills \in BOOLEAN

VARIABLES
    working,         \* working_: order id to the order
    issued,          \* the orders made so far: issued[id] is its signal
    fillsIssued,     \* fill_ids_
    fillCounts       \* fill_counts_: order id to its executions

executionVars == <<working, issued, fillsIssued, fillCounts>>

ExecutionTypeOK ==
    /\ DOMAIN working \subseteq 1..Len(issued)
    /\ \A o \in DOMAIN working : working[o] \in Orders /\ working[o].id = o
    /\ issued \in Seq(Nat)
    /\ fillsIssued \in Nat
    /\ DOMAIN fillCounts \subseteq DOMAIN working
    /\ \A o \in DOMAIN fillCounts : fillCounts[o] \in Nat

ExecutionInit ==
    /\ working = <<>>
    /\ issued = <<>>
    /\ fillsIssued = 0
    /\ fillCounts = <<>>

-----------------------------------------------------------------------------
(* submit(): a flat signal, one without a quantity and a limit one without *)
(* a limit price become rejected orders, which never work.                 *)

Refused(signal) ==
    \/ signal.side = "Flat"
    \/ signal.quantity = 0
    \/ signal.order = "Limit" /\ signal.limit = None

NewOrder(signal, now) ==
    [type |-> "Order", id |-> Len(issued) + 1, signal |-> signal.id,
     symbol |-> signal.symbol, side |-> OrderSide(signal),
     limit |-> IF signal.order = "Limit" THEN signal.limit ELSE None,
     quantity |-> signal.quantity, filled |-> 0, created |-> now,
     status |-> IF Refused(signal) THEN "Rejected" ELSE "Working",
     decided |-> signal.decided]

Submit(signal, now) ==
    LET order == NewOrder(signal, now)
    IN  /\ issued' = Append(issued, signal.id)
        /\ working' = IF Refused(signal) THEN working
                      ELSE [o \in DOMAIN working \cup {order.id} |->
                              IF o = order.id THEN order ELSE working[o]]
        /\ UNCHANGED <<fillsIssued, fillCounts>>

-----------------------------------------------------------------------------
(* NaiveFillModel::simulate(): the open moved against the order, no worse  *)
(* than its limit; nothing at all while the open is beyond the limit.      *)

Remaining(order) == order.quantity - order.filled

FillPrice(order, open) ==
    LET slip == ScaledBy(open, SlipPercent)
        moved == IF order.side = "Buy" THEN open + slip ELSE open - slip
    IN  IF order.limit = None THEN moved
        ELSE IF order.side = "Buy" THEN Min({moved, order.limit})
        ELSE Max({moved, order.limit})

LimitReached(order, open) ==
    order.limit # None =>
        IF order.side = "Buy" THEN open <= order.limit ELSE open >= order.limit

Executable(order, open) == LimitReached(order, open) /\ FillPrice(order, open) > 0

-----------------------------------------------------------------------------
(* on_market_event(): orders of the symbol made before the event, in the   *)
(* order of their ids.  fills says how many shares of each execute.        *)

(* A fault: an order made at this bar's own time is eligible.              *)
EligibleAtOnce(market) ==
    {o \in DOMAIN working : /\ working[o].symbol = market.symbol
                            /\ working[o].created <= market.time}

Eligible(market) ==
    {o \in DOMAIN working : /\ working[o].symbol = market.symbol
                            /\ working[o].created < market.time}

FillSizes(order, market) ==
    IF ~Executable(order, market.open) THEN {0}
    ELSE IF WholeFills THEN {Remaining(order)}
    ELSE 0..Remaining(order)

FillChoices(market) ==
    {fills \in [Eligible(market) -> UNION {FillSizes(working[o], market) : o \in Eligible(market)}] :
        \A o \in Eligible(market) : fills[o] \in FillSizes(working[o], market)}

Executes(market, fills) == {o \in Eligible(market) : fills[o] > 0}

Executed(order, shares) ==
    [order EXCEPT !.filled = @ + shares,
                  !.status = IF order.filled + shares >= order.quantity
                             THEN "Filled" ELSE "PartiallyFilled"]

FillCount(o) == IF o \in DOMAIN fillCounts THEN fillCounts[o] ELSE 0

FillOf(market, order, shares, id) ==
    LET price == FillPrice(order, market.open)
    IN  [type |-> "Fill", id |-> id, order |-> order.id, symbol |-> order.symbol,
         quantity |-> IF order.side = "Buy" THEN shares ELSE -shares,
         price |-> price, fees |-> FeesOn(shares, price * shares),
         time |-> market.time, sequence |-> FillCount(order.id) + 1,
         left |-> Remaining(order), status |-> Executed(order, shares).status,
         decided |-> order.decided]

Nth(S, i) == CHOOSE x \in S : Cardinality({y \in S : y <= x}) = i

(* What it publishes: for each execution its fill, then the order.         *)
Publications(market, fills) ==
    LET hit == Executes(market, fills)
    IN  [k \in 1..(2 * Cardinality(hit)) |->
            LET n == (k + 1) \div 2
                o == Nth(hit, n)
            IN  IF k % 2 = 1 THEN FillOf(market, working[o], fills[o], fillsIssued + n)
                ELSE Executed(working[o], fills[o])]

Execute(market, fills) ==
    LET hit == Executes(market, fills)
        done == {o \in hit : fills[o] >= Remaining(working[o])}
    IN  /\ working' = [o \in DOMAIN working \ done |->
                         IF o \in hit THEN Executed(working[o], fills[o]) ELSE working[o]]
        /\ fillCounts' = [o \in (DOMAIN fillCounts \cup hit) \ done |->
                            FillCount(o) + IF o \in hit THEN 1 ELSE 0]
        /\ fillsIssued' = fillsIssued + Cardinality(hit)
        /\ UNCHANGED issued
=============================================================================
