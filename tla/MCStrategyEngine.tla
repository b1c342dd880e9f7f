-------------------------- MODULE MCStrategyEngine --------------------------
(* Instances of StrategyEngine for TLC.                                    *)
EXTENDS StrategyEngine, TLC

Row(symbol, price) ==
    "symbol" :> symbol @@ "exchange_time" :> 1 @@ "price" :> price @@ "low" :> 1

Columns == {"symbol", "exchange_time", "price", "low"}

(* Three good bars of one symbol, so that the bus may refuse the one in the *)
(* middle, and among them one that is rejected; three of two symbols; a     *)
(* file with an unreadable cell, and one without a column of prices.        *)
MCFiles ==
    {[columns |-> Columns, rows |-> <<Row("a", 2), Row("a", -1), Row("a", 3), Row("a", 2)>>],
     [columns |-> Columns, rows |-> <<Row("a", 2), Row("b", 2), Row("a", 3)>>],
     [columns |-> Columns, rows |-> <<Row("a", 2), Row("a", Unreadable)>>],
     [columns |-> Columns \ {"price"}, rows |-> <<"symbol" :> "a" @@ "exchange_time" :> 1>>]}
=============================================================================
