------------------------ MODULE PerformanceAnalyzer -------------------------
(***************************************************************************)
(* PerformanceAnalyzer (analytics/performance_analyzer.cpp): what a run's  *)
(* equity curve and its fills, in execution order, say about it.  The      *)
(* curve is a sequence of equities.  Ratios of doubles (returns,           *)
(* volatility, Sharpe, win rate, profit factor) are left out, except the   *)
(* drawdown, which is the pair of an equity and the peak before it.        *)
(***************************************************************************)
EXTENDS Trading

(* A lot: shares (signed), their average cost, the fees paid to open them. *)
NoLot == [quantity |-> 0, cost |-> 0, fees |-> 0]

Closes(lot, fill) == lot.quantity # 0 /\ Sign(lot.quantity) # Sign(fill.quantity)

ClosedShares(lot, fill) == Min({Abs(lot.quantity), Abs(fill.quantity)})

(* The share of the opening fees that goes with the shares closed.         *)
OpeningFees(lot, fill) == DividedBy(lot.fees * ClosedShares(lot, fill), Abs(lot.quantity))

(* A fault: only the closing fill's own fees count.                        *)
ProfitBeforeOpening(lot, fill) ==
    (fill.price - lot.cost) * ClosedShares(lot, fill) * Sign(lot.quantity) - fill.fees

Profit(lot, fill) ==
    (fill.price - lot.cost) * ClosedShares(lot, fill) * Sign(lot.quantity)
        - fill.fees - OpeningFees(lot, fill)

Opened(lot, fill) ==
    LET total == lot.quantity + fill.quantity
    IN  [quantity |-> total, fees |-> lot.fees + fill.fees,
         cost |-> DividedBy(lot.cost * lot.quantity + fill.price * fill.quantity, total)]

(* What is left of a lot, or the lot of the other side that the rest of    *)
(* the fill opens.                                                         *)
Closed(lot, fill) ==
    LET left == lot.quantity + fill.quantity
    IN  IF Abs(fill.quantity) > Abs(lot.quantity)
        THEN [quantity |-> left, cost |-> fill.price, fees |-> 0]
        ELSE IF left = 0 THEN NoLot
        ELSE [lot EXCEPT !.quantity = left, !.fees = @ - OpeningFees(lot, fill)]

-----------------------------------------------------------------------------
Unread ==
    [lots |-> [s \in Symbols |-> NoLot], fees |-> 0, trades |-> 0, winning |-> 0, losing |-> 0,
     profit |-> 0, loss |-> 0]

Counted(report, profit) ==
    [report EXCEPT !.trades = @ + 1,
                   !.winning = IF profit > 0 THEN @ + 1 ELSE @,
                   !.losing = IF profit < 0 THEN @ + 1 ELSE @,
                   !.profit = IF profit > 0 THEN @ + profit ELSE @,
                   !.loss = IF profit < 0 THEN @ - profit ELSE @]

(* One fill of at least a share.                                           *)
ReadFill(report, fill) ==
    LET lot == report.lots[fill.symbol]
        closes == Closes(lot, fill)
        counted == IF closes THEN Counted(report, Profit(lot, fill)) ELSE report
    IN  [counted EXCEPT !.fees = @ + fill.fees,
                        !.lots[fill.symbol] = IF closes THEN Closed(lot, fill) ELSE Opened(lot, fill)]

TradesOf(fills) ==
    LET read[i \in 0..Len(fills)] ==
            IF i = 0 THEN Unread ELSE ReadFill(read[i - 1], fills[i])
    IN  read[Len(fills)]

-----------------------------------------------------------------------------
(* A drawdown <<equity, peak>> stands for equity / peak - 1.               *)
NoDrawdown == <<1, 1>>

Deeper(a, b) == a[1] * b[2] < b[1] * a[2]

Peak(curve, i) == Max({curve[j] : j \in 1..i} \cup {0})

DrawdownOf(curve) ==
    LET drawdown[i \in 0..Len(curve)] ==
            IF i = 0 THEN NoDrawdown
            ELSE LET here == <<curve[i], Peak(curve, i)>>
                 IN  IF Peak(curve, i) > 0 /\ Deeper(here, drawdown[i - 1])
                     THEN here ELSE drawdown[i - 1]
    IN  drawdown[Len(curve)]

(* analyze().                                                              *)
Analyze(curve, fills) ==
    [trades |-> TradesOf(fills), drawdown |-> DrawdownOf(curve),
     starting |-> curve[1], ending |-> curve[Len(curve)]]
=============================================================================
