--------------------------- MODULE MCStrategyLab ----------------------------
(* Instances of StrategyLab for TLC: many files under a few command lines, *)
(* and many command lines with a few files.                                *)
EXTENDS StrategyLab, TLC

MCNumber ==
    "0" :> 0 @@ "1" :> 100 @@ "2" :> 200 @@ "3" :> 300 @@ "0.5" :> 50 @@ "0.9" :> 90 @@ "-1" :> -100
    @@ "24" :> 2400

MCList ==
    "" :> <<>> @@ "A" :> <<"A">> @@ "A,B" :> <<"A", "B">> @@ "A,A" :> <<"A", "A">>
    @@ "0,1" :> <<"0", "1">> @@ "1,2,3" :> <<"1", "2", "3">> @@ "1,2" :> <<"1", "2">>

MCAssignment ==
    LET Of(name, text) == [name |-> name, text |-> text]
    IN  "symbols=A" :> Of("symbols", "A") @@ "symbols=A,B" :> Of("symbols", "A,B")
        @@ "symbols=A,A" :> Of("symbols", "A,A") @@ "symbols=" :> Of("symbols", "")
        @@ "short_window=1" :> Of("short_window", "1") @@ "long_window=2" :> Of("long_window", "2")
        @@ "long_window=x" :> Of("long_window", "x") @@ "lookback=2" :> Of("lookback", "2")
        @@ "entry_threshold=0.9" :> Of("entry_threshold", "0.9")
        @@ "strategy_id=second" :> Of("strategy_id", "second")
        @@ "horizon=0,1" :> Of("horizon", "0,1") @@ "horizon=1,2,3" :> Of("horizon", "1,2,3")
        @@ "horizon=2" :> Of("horizon", "2") @@ "horizon=x" :> Of("horizon", "x")
        @@ "horizon=1" :> Of("horizon", "1")
        @@ "min_training_samples=2" :> Of("min_training_samples", "2")
        @@ "min_training_samples=1,2" :> Of("min_training_samples", "1,2")

MCResponse ==
    "@run" :> [readable |-> TRUE, lines |-> <<"run", "--dataset", "d">>]
    @@ "@nested" :> [readable |-> TRUE, lines |-> <<"run", "@run">>]
    @@ "@missing" :> [readable |-> FALSE, lines |-> <<>>]

-----------------------------------------------------------------------------
Text(lines) == [is |-> "text", lines |-> lines]

Header(cells) == [is |-> "header", cells |-> cells]

Cells(price, open, high, low, volume) ==
    LET Cell(v) == CASE v = -1 -> NoCell
                     [] v = -2 -> [is |-> "text", value |-> 0]
                     [] OTHER -> [is |-> "number", value |-> v]
    IN  [price |-> Cell(price), open |-> Cell(open), high |-> Cell(high), low |-> Cell(low),
         volume |-> Cell(volume)]

Row(symbol, time, type, cells) ==
    [is |-> "row", fits |-> TRUE, symbol |-> symbol, exchange_time |-> time, type |-> type] @@ cells

Plain == Cells(5, -1, -1, -1, -1)

Bar(symbol, time) == Row(symbol, time, "bar", Plain)
Trade(symbol, time) == Row(symbol, time, "trade", Plain)

Good == {Bar("A", t) : t \in 1 .. 3} \cup {Bar("B", 1), Bar("B", 2), Trade("A", 1), Trade("A", 2)}

Bad == {Row("?", 2, "bar", Plain), Row("A", 0, "bar", Plain), Row("A", 3, "quote", Plain),
        Row("A", 3, "bar", Cells(0, -1, -1, -1, -1)), Row("B", 3, "bar", Cells(5, 4, 4, 6, 0)),
        Row("A", 2, "trade", Cells(-2, 5, -1, -1, 0)),
        [Bar("A", 3) EXCEPT !.fits = FALSE], [is |-> "unusable"]}

SomeFiles ==
    {Text(<<Header(Columns)>> \o s) : s \in UNION {[1 .. n -> Good \cup Bad] : n \in 0 .. 3}}
    \cup {Text(<<>>), Text(<<[is |-> "unusable"]>>), Text(<<Header(<<"symbol", "symbol", "volum">>)>>),
          Text(<<Header(<<"symbol", "exchange_time", "type", "price">>), Bar("A", 1)>>),
          [is |-> "missing", lines |-> <<>>], [is |-> "too big", lines |-> <<>>]}

Sound == Text(<<Header(Columns), Bar("A", 1), Bar("B", 1), Bar("A", 2)>>)
Mixed == Text(<<Header(Columns), Bar("A", 1), Trade("A", 1), Bar("A", 2)>>)
Missing == [is |-> "missing", lines |-> <<>>]

(* Enough bars for the features of ml_logistic, for its training, or not.  *)
Long(bars, trades) ==
    Text(<<Header(Columns)>> \o [i \in 1..bars |-> Bar("A", i)]
         \o [i \in 1..trades |-> Trade("A", bars)])
LongFiles == {Long(24, 0), Long(22, 2), Long(20, 2)}

Learning ==
    <<"@run", "--max-rows", "24", "--strategy", "ml_logistic", "--param", "symbols=A",
      "--param", "horizon=1", "--param", "min_training_samples=2">>

-----------------------------------------------------------------------------
RunBoth ==
    <<"@run", "--strategy", "sma_crossover", "--param", "short_window=1", "--param", "long_window=2",
      "--param", "symbols=A,B", "--strategy", "mean_reversion", "--param", "lookback=2",
      "--param", "entry_threshold=0.9", "--param", "symbols=A">>

SameId == <<"@run", "--strategy", "mean_reversion", "--param", "symbols=A", "--strategy",
            "mean_reversion", "--param", "symbols=A">>

Training ==
    {<<"train", "--dataset", "d", "--holdout", h>> : h \in {"0", "0.5", "1"}}
    \cup {<<"train", "--dataset", "d", "--param", p>> : p \in {"symbols=A", "symbols=", "horizon=x"}}

Sweeps ==
    {<<"sweep", "--dataset", "d", "--holdout", "0.5", "--grid", "horizon=0,1", "--grid", g>>
        : g \in {"min_training_samples=1,2", "horizon=1,2,3", "symbols=A"}}
    \cup {<<"sweep", "--dataset", "d", "--grid", "horizon=1,2,3">>,
          <<"sweep", "--dataset", "d", "--grid", "horizon=1,2,3", "--grid", "min_training_samples=1,2">>,
          <<"sweep", "--dataset", "d", "--grid", "horizon=x">>,
          <<"sweep", "--dataset", "d", "--param", "horizon=2", "--grid", "horizon=0,1">>}

Replays ==
    {RunBoth \o <<"--bus-fault", f>> : f \in Faults \cup {"some"}}
    \cup {SameId, SameId \o <<"--param", "strategy_id=second">>}

Pieces ==
    {<<"--dataset", "d">>, <<"--dataset">>, <<"--strategy", "sma_crossover">>,
     <<"--strategy", "unknown">>, <<"--param", "symbols=A">>, <<"--param", "symbols=A,A">>,
     <<"--param", "long_window=x">>, <<"--param", "x">>, <<"--max-rows", "0.5">>, <<"--pretty">>,
     <<"--grid", "horizon=0,1">>, <<"@missing">>}

Assembled ==
    {<<name>> \o FlattenSeq(pieces) : name \in {"run", "train", "sweep"},
                                      pieces \in UNION {[1 .. n -> Pieces] : n \in 0 .. 3}}

Others == {<<>>, <<"--help">>, <<"-h">>, <<"describe">>, <<"describe", "--pretty">>, <<"describe", "x">>,
           <<"bogus">>, <<"@nested">>}

MCSessions ==
    [args : {RunBoth}, file : SomeFiles]
    \cup [args : {RunBoth \o <<"--max-rows", "2">>} \cup Training \cup Replays, file : {Sound, Mixed}]
    \cup [args : Sweeps, file : {Sound}]
    \cup [args : Assembled, file : {Sound}]
    \cup [args : Others, file : {Sound, Missing}]
    \cup [args : {Learning}, file : LongFiles]
=============================================================================
