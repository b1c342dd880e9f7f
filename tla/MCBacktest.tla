----------------------------- MODULE MCBacktest -----------------------------
(* Instances of Backtest for TLC.                                          *)
EXTENDS Backtest

CONSTANTS a, b       \* symbols

TwoSymbols == {a, b}

Bar(symbol, time, open, price) ==
    [symbol |-> symbol, time |-> time, open |-> open, price |-> price, refused |-> FALSE]

(* Four bars of one symbol, at opens and closes that rise and fall.        *)
Rising == {<<200, 200>>, <<200, 300>>, <<300, 200>>}

OneSymbol ==
    {[t \in 1 .. 4 |-> Bar(a, t, moves[t][1], moves[t][2])] : moves \in [1 .. 4 -> Rising]}

(* Bars of one timestamp, some of one symbol, out of order, and refused.   *)
Odd ==
    {<<Bar(a, 2, 200, 300), Bar(a, 1, 200, 200), Bar(b, 2, 300, 200), Bar(a, 3, 300, 300)>>,
     <<Bar(b, 1, 200, 200), Bar(a, 1, 200, 200), Bar(a, 1, 300, 300), Bar(b, 2, 200, 300),
       Bar(a, 2, 300, 200)>>,
     <<Bar(a, 1, 200, 200), [Bar(a, 2, 300, 300) EXCEPT !.refused = TRUE], Bar(b, 2, 200, 200),
       Bar(a, 3, 200, 300)>>,
     <<>>}

MCDataSets == OneSymbol \cup Odd

Idea(side, order, limit, quantity) ==
    [symbol |-> a, side |-> side, order |-> order, limit |-> limit, quantity |-> quantity]

MCIdeas ==
    {Idea("Buy", "Market", None, 1), Idea("Buy", "Limit", 250, 2), Idea("Sell", "Market", None, 1),
     Idea("Flat", "Market", None, 1)}
=============================================================================
