-------------------------- MODULE MCEngineService --------------------------
(* Instances of EngineService for TLC.                                     *)
EXTENDS EngineService

(* Members of one kind at several paths.                                   *)
All(paths, value) == [path \in paths |-> value]

Command(id, action, run) ==
    <<"command_id">> :> Text(id) @@ <<"run_id">> :> Text(run)
    @@ <<"issued_at">> :> <<"Time", 0>> @@ <<"action">> :> Text(action)

Start(id, run, config) ==
    Encode("command", Command(id, "start_backtest", run) @@ <<"settings">> :> Object
                        @@ Under("settings", config))

Stop(id, run) == Encode("command", Command(id, "stop", run))

Kill(id, run, engaged) ==
    Encode("command", Command(id, "set_kill_switch", run) @@ <<"engaged">> :> <<"Bool", engaged>>)

(* Settings with every member there is.                                    *)
Crossover ==
    At(1, "kind") :> SmaCrossover @@ At(1, "strategy_id") :> Text("first")
    @@ At(1, "symbols") :> <<"Texts", <<"a">>>> @@ At(1, "requested_quantity") :> <<"Whole", 2>>
    @@ At(1, "short_window") :> <<"Whole", 2>> @@ At(1, "long_window") :> <<"Whole", 4>>

Reversion ==
    At(2, "kind") :> MeanReversion @@ At(2, "strategy_id") :> Text("second")
    @@ At(2, "symbols") :> <<"Texts", <<"b", "a">>>> @@ At(2, "requested_quantity") :> <<"Whole", 1>>
    @@ At(2, "lookback") :> <<"Whole", 3>> @@ At(2, "entry_threshold") :> <<"Fraction", 1>>
    @@ At(2, "rearm_threshold") :> <<"Whole", 1>>

Limits ==
    All({<<"risk">>, <<"simulation">>, <<"simulation", "fees">>, <<"simulation", "latency_ms">>}, Object)
    @@ All({<<"risk", "max_order_quantity">>, <<"risk", "max_open_orders">>}, <<"Whole", 3>>)
    @@ All({<<"risk", "max_position_notional">>, <<"risk", "max_gross_exposure">>,
            <<"risk", "max_daily_loss">>, <<"simulation", "starting_cash">>}, <<"Amount", 500>>)
    @@ All({<<"risk", "allow_short">>, <<"risk", "policies">>}, <<"Bool", FALSE>>)
    @@ All({<<"simulation", "fees", "per_share">>, <<"simulation", "fees", "per_trade">>},
           <<"Amount", 1>>)
    @@ All({<<"simulation", "slippage_bps">>, <<"simulation", "fees", "bps">>,
            <<"simulation", "participation_cap">>, <<"simulation", "latency_ms", "order_to_fill">>},
           <<"Fraction", 2>>)
    @@ <<"simulation", "latency_ms", "signal_to_order">> :> <<"Whole", 3>>

Full ==
    <<"name">> :> Text("both") @@ <<"mode">> :> Backtest
    @@ <<"period_start">> :> <<"Time", 1>> @@ <<"period_end">> :> <<"Time", 2>>
    @@ <<"strategies">> :> <<"Array", 2>>
    @@ All({<<"strategies", "0">>, <<"strategies", "1">>}, Object)
    @@ Crossover @@ Reversion @@ Limits

(* The least a console may send.                                           *)
Least ==
    <<"strategies">> :> <<"Array", 1>> @@ <<"strategies", "0">> :> Object
    @@ [path \in {At(1, m) : m \in {"kind", "strategy_id", "symbols", "requested_quantity"}} |->
            Crossover[path]]

(* A member, and with it all that is in it, is left out.                   *)
Omitted(config, path) ==
    [p \in {q \in DOMAIN config : ~IsPrefix(path, q)} |-> config[p]]

(* A member is something else.                                             *)
Odd ==
    {<<"Null", 0>>, <<"Whole", 0>>, <<"Whole", -1>>, <<"Whole", 4>>, <<"Whole", 4000000>>,
     <<"Fraction", 0>>, <<"Fraction", -1>>, <<"Huge", 0>>, <<"Infinite", 0>>, <<"Text", "">>,
     <<"Text", "first">>, <<"Text", "second">>, <<"Text", "live">>, <<"Amount", 0>>,
     <<"Amount", -1>>, <<"Time", 0>>, <<"Time", 3>>, <<"Bool", TRUE>>, <<"Texts", <<>>>>,
     <<"Texts", <<"a", "a">>>>, <<"Texts", <<"">>>>, <<"Texts", <<"c">>>>, <<"Array", 0>>, Object}

Replaced(config, path, value) == [config EXCEPT ![path] = value]

OddConfigs ==
    {Omitted(Full, path) : path \in DOMAIN Full}
    \cup {Replaced(Full, path, value) : path \in DOMAIN Full, value \in Odd}

(* Two members that are wrong together, and two that are wrong apart.      *)
OddPairs ==
    {Replaced(Replaced(Full, At(2, "lookback"), <<"Whole", 1>>), <<"risk", "max_open_orders">>,
              <<"Whole", 0>>),
     Replaced(Replaced(Full, <<"period_start">>, <<"Time", 2>>), <<"period_end">>, <<"Time", 1>>),
     Replaced(Replaced(Full, At(1, "short_window"), <<"Whole", 4>>), At(2, "symbols"), <<"Null", 0>>)}

Once(message) == <<{message}>>

Questionable == {Once(Start("1", "r1", config)) : config \in OddConfigs \cup OddPairs}

(* Messages that are no command, or none for a run of this engine.         *)
Unusable ==
    {Once(Start("1", "no topic", Full)), Once(Stop("1", "r1")),
     Once(Encode("command", Command("1", "start_backtest", "r1"))),
     Once(Encode("command", Command("1", "restart", "r1"))),
     Once(Encode("engine", AnnouncementJson(<<"a">>, <<>>))),
     Once([Start("1", "r1", Full) EXCEPT !.envelope[<<"schema">>] = <<"Whole", 2>>])}

(* Runs that fill the queue and are stopped; and a run whose kill switch   *)
(* is set and released around its start, its stop and its end.  Messages   *)
(* may be delivered again.                                                 *)
ThreeStarts ==
    LET starts == {Start("1", "r1", Least), Start("2", "r2", Least), Start("3", "r3", Full)}
    IN  <<{Start("1", "r1", Least)}, starts, starts \cup {Stop("4", "r2")},
          starts \cup {Stop("4", "r2")}>>

Killed ==
    LET messages == {Start("1", "r1", Least), Stop("4", "r1"), Stop("7", "r1"),
                     Kill("5", "r1", TRUE), Kill("6", "r1", FALSE)}
    IN  <<{Start("1", "r1", Least)}, messages, messages, messages>>

All3 == {"r1", "r2", "r3"}

MCCommandIds == {"1", "2", "3", "4", "5", "6", "7"}

MCScenarios == Questionable \cup Unusable \cup {ThreeStarts, Killed}

(* The duration 2 loses its last nanosecond in a report that is read.      *)
MCShortened == {-4, 2}

(* The least duration there is.                                            *)
MCOutOfRange == -(HugeNumber \div 2)

(* The worker against one stop.                                            *)
OneStop == {<<{Start("1", "r1", Least)}, {Stop("2", "r1")}>>}

MCBars == {[symbol |-> s, time |-> t] : s \in {"a", "b"}, t \in 1 .. 2}
=============================================================================
