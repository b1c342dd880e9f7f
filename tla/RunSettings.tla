---------------------------- MODULE RunSettings ----------------------------
(***************************************************************************)
(* control::RunSettings (control/run_settings.cpp): what decides how a run *)
(* behaves, and what is refused about it.                                  *)
(*                                                                         *)
(* Settings are a function from paths to values; a path is the sequence of *)
(* the names that lead to a member in the JSON form, <<"strategies", "0",  *)
(* "kind">>.  A text is the JSON string it came in, a double a number of   *)
(* halves, money and a duration numbers of units, None an empty optional.  *)
(***************************************************************************)
EXTENDS Integers, FiniteSetsExt, SequencesExt

CONSTANT None

Text(text) == <<"Text", text>>

Backtest == Text("backtest")
SmaCrossover == Text("sma_crossover")
MeanReversion == Text("mean_reversion")

(* The defaults of RunSettings, StrategySettings, RiskLimits and           *)
(* SimulationConfig, by the last name of the path.                         *)
Defaults ==
    [name |-> Text(""), mode |-> Backtest, period_start |-> None, period_end |-> None,
     strategies |-> 0,
     short_window |-> 5, long_window |-> 20,
     lookback |-> 20, entry_threshold |-> 4, rearm_threshold |-> 1,
     max_order_quantity |-> 1000, max_position_notional |-> 25000,
     max_gross_exposure |-> 100000, max_daily_loss |-> 5000, max_open_orders |-> 50,
     policies |-> TRUE,
     starting_cash |-> 100000, slippage_bps |-> 2, per_share |-> 0, per_trade |-> 0, bps |-> 0,
     signal_to_order |-> 1, order_to_fill |-> 5, participation_cap |-> 2]

Index(i) == ToString(i - 1)

At(i, member) == <<"strategies", Index(i), member>>

Strategies(s) == 1..s[<<"strategies">>]

(* symbols()                                                               *)
SymbolsOf(s) == UNION {ToSet(s[At(i, "symbols")]) : i \in Strategies(s)}

-----------------------------------------------------------------------------
(* validate(): the checks in their order, each with the field it names.    *)
Check(field, holds) == [field |-> field, holds |-> holds]

UniqueId(s, i) ==
    \A j \in 1..(i - 1) : s[At(j, "strategy_id")] # s[At(i, "strategy_id")]

WindowsFit(s, i) ==
    s[At(i, "kind")] = SmaCrossover =>
        s[At(i, "short_window")] # 0 /\ s[At(i, "short_window")] < s[At(i, "long_window")]

(* A fault: the checks of every strategy name the first.                   *)
StrategyChecksAtFirst(s, i) ==
    <<Check(At(1, "strategy_id"), s[At(i, "strategy_id")] # Text("")),
      Check(At(1, "strategy_id"), UniqueId(s, i)),
      Check(At(1, "symbols"), s[At(i, "symbols")] # <<>>),
      Check(At(1, "requested_quantity"), s[At(i, "requested_quantity")] > 0),
      Check(At(1, "long_window"), WindowsFit(s, i)),
      Check(At(1, "lookback"), s[At(i, "kind")] = MeanReversion => s[At(i, "lookback")] >= 2)>>

StrategyChecks(s, i) ==
    <<Check(At(i, "strategy_id"), s[At(i, "strategy_id")] # Text("")),
      Check(At(i, "strategy_id"), UniqueId(s, i)),
      Check(At(i, "symbols"), s[At(i, "symbols")] # <<>>),
      Check(At(i, "requested_quantity"), s[At(i, "requested_quantity")] > 0),
      Check(At(i, "long_window"), WindowsFit(s, i)),
      Check(At(i, "lookback"), s[At(i, "kind")] = MeanReversion => s[At(i, "lookback")] >= 2)>>

(* A limit must be more than zero; a cost must not be negative.            *)
LimitChecks(s) ==
    LET Positive(path) == Check(path, s[path] > 0)
        Fee(member) == s[<<"simulation", "fees", member>>]
    IN  <<Positive(<<"risk", "max_order_quantity">>),
          Positive(<<"risk", "max_position_notional">>),
          Positive(<<"risk", "max_gross_exposure">>),
          Positive(<<"risk", "max_daily_loss">>),
          Positive(<<"risk", "max_open_orders">>),
          Positive(<<"simulation", "starting_cash">>),
          Check(<<"simulation", "slippage_bps">>, s[<<"simulation", "slippage_bps">>] >= 0),
          Check(<<"simulation", "fees", "per_share">>, Fee("per_share") >= 0),
          Check(<<"simulation", "fees">>, Fee("per_trade") >= 0 /\ Fee("bps") >= 0)>>

(* The longest window whose sums of prices stay exact.                     *)
LongestWindow == 3037000

(* make_strategies(): what else the strategies' constructors refuse.       *)
Constructible(s, i) ==
    /\ IsInjective(s[At(i, "symbols")]) /\ "" \notin ToSet(s[At(i, "symbols")])
    /\ s[At(i, "kind")] = SmaCrossover => s[At(i, "long_window")] <= LongestWindow
    /\ s[At(i, "kind")] = MeanReversion =>
          /\ s[At(i, "rearm_threshold")] >= 0
          /\ s[At(i, "rearm_threshold")] < s[At(i, "entry_threshold")]

Checks(s) ==
    LET start == s[<<"period_start">>]
        end == s[<<"period_end">>]
        count == s[<<"strategies">>]
    IN  <<Check(<<"mode">>, s[<<"mode">>] = Backtest),
          Check(<<"period">>, start = None \/ end = None \/ end >= start),
          Check(<<"strategies">>, count > 0)>>
        \o FlattenSeq([i \in 1..count |-> StrategyChecks(s, i)])
        \o LimitChecks(s)
        \o [i \in 1..count |-> Check(<<"strategies", Index(i)>>, Constructible(s, i))]

(* The field of the SettingsError, or None.                                *)
Problem(s) ==
    LET failing == {k \in DOMAIN Checks(s) : ~Checks(s)[k].holds}
    IN  IF failing = {} THEN None ELSE Checks(s)[Min(failing)].field
=============================================================================
