---------------------------- MODULE MCOrderFlow ----------------------------
(* Instances of OrderFlow for TLC.                                         *)
EXTENDS OrderFlow

CONSTANTS a, b       \* symbols

OneSymbol == {a}
TwoSymbols == {a, b}

Idea(symbol, side, order, limit, quantity) ==
    [symbol |-> symbol, side |-> side, order |-> order, limit |-> limit,
     quantity |-> quantity]

(* A market buy of 2 and of 1, and a market sell of 2.                     *)
MarketIdeas ==
    {Idea(a, "Buy", "Market", None, 2), Idea(a, "Buy", "Market", None, 1),
     Idea(a, "Sell", "Market", None, 2)}

(* Limits that some bars reach, a limit signal without its limit, and a    *)
(* flat one.                                                               *)
LimitIdeas ==
    {Idea(a, "Buy", "Limit", 20, 3), Idea(a, "Sell", "Limit", 21, 2),
     Idea(a, "Buy", "Limit", None, 1), Idea(a, "Flat", "Market", None, 1)}

(* Both symbols, as one strategy that watches both would trade them.       *)
PairIdeas ==
    {Idea(a, "Buy", "Market", None, 1), Idea(a, "Sell", "Market", None, 1),
     Idea(b, "Buy", "Market", None, 2), Idea(b, "Sell", "Market", None, 1)}

BufferedPrices == {20, 21}
OnePrice == {20}

InProcess == {"InProcess"}
Topic == {"Topic"}
Either == InProcess \cup Topic
=============================================================================
