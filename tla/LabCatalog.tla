----------------------------- MODULE LabCatalog -----------------------------
(***************************************************************************)
(* The strategies a command line may ask for, by kind, and how one is      *)
(* built from its name=value texts (apps/strategy_lab/lab/catalog.cpp and  *)
(* the constructors' checks in src/strategy).                              *)
(*                                                                         *)
(* Text is a model value of the kind it reads as: Number gives the texts   *)
(* that are numbers with their value in hundredths, List the symbols of a  *)
(* comma-separated text.                                                   *)
(***************************************************************************)
EXTENDS Integers, SequencesExt, Functions

CONSTANTS Number, List

ASSUME CatalogAssumption == \A text \in DOMAIN Number : Number[text] \in Int

Parameter(type, default) == [type |-> type, default |-> default]

Symbolless == Parameter("StringList", <<>>)
OneShare == Parameter("UInt", 1)

SmaParams ==
    [strategy_id |-> Parameter("String", "sma_crossover"),
     short_window |-> Parameter("UInt", 5), long_window |-> Parameter("UInt", 20),
     requested_quantity |-> OneShare, symbols |-> Symbolless]

MrParams ==
    [strategy_id |-> Parameter("String", "mean_reversion"),
     lookback |-> Parameter("UInt", 20),
     entry_threshold |-> Parameter("Double", 200), rearm_threshold |-> Parameter("Double", 50),
     requested_quantity |-> OneShare, symbols |-> Symbolless]

(* Training rates are left out of the checks' scale: 0.05 is 5, 0.001 is 1. *)
MlParams ==
    [strategy_id |-> Parameter("String", "ml_logistic"),
     horizon |-> Parameter("UInt", 5), label_dead_band |-> Parameter("Double", 0),
     learning_rate |-> Parameter("Double", 5), l2 |-> Parameter("Double", 1),
     min_training_samples |-> Parameter("UInt", 50),
     entry_probability |-> Parameter("Double", 60), rearm_band |-> Parameter("Double", 5),
     requested_quantity |-> OneShare, symbols |-> Symbolless]

Catalog == [sma_crossover |-> SmaParams, mean_reversion |-> MrParams, ml_logistic |-> MlParams]

-----------------------------------------------------------------------------
(* parse_param_text(): nothing is rounded, a text that does not fit the    *)
(* type is refused.                                                        *)
IsRead(type, text) ==
    CASE type = "String" -> TRUE
      [] type = "StringList" -> text \in DOMAIN List
      [] type = "Double" -> text \in DOMAIN Number
      [] type = "UInt" -> text \in DOMAIN Number /\ Number[text] >= 0 /\ Number[text] % 100 = 0

Read(type, text) ==
    CASE type = "String" -> text
      [] type = "StringList" -> List[text]
      [] type = "Double" -> Number[text]
      [] type = "UInt" -> Number[text] \div 100

(* An assignment that names no parameter, names one again, or is not read. *)
WrongAssignment(params, given, i) ==
    \/ given[i].name \notin DOMAIN params
    \/ \E j \in 1..(i - 1) : given[j].name = given[i].name
    \/ ~IsRead(params[given[i].name].type, given[i].text)

ConfigOf(params, given) ==
    [name \in DOMAIN params |->
        IF \E i \in 1..Len(given) : given[i].name = name
        THEN Read(params[name].type,
                  (CHOOSE g \in Range(given) : g.name = name).text)
        ELSE params[name].default]

(* What every strategy's constructor refuses, and each kind's own checks.  *)
RefusesCommon(c) ==
    \/ c.strategy_id = ""
    \/ c.requested_quantity <= 0
    \/ c.symbols = <<>> \/ "" \in Range(c.symbols) \/ ~IsInjective(c.symbols)

Refuses(kind, c) ==
    \/ RefusesCommon(c)
    \/ /\ kind = "sma_crossover"
       /\ c.short_window = 0 \/ c.long_window <= c.short_window
    \/ /\ kind = "mean_reversion"
       /\ c.lookback < 2 \/ c.rearm_threshold < 0 \/ c.rearm_threshold >= c.entry_threshold
    \/ /\ kind = "ml_logistic"
       /\ \/ c.horizon < 1 \/ c.label_dead_band < 0 \/ c.learning_rate <= 0 \/ c.l2 < 0
          \/ c.entry_probability <= 50 \/ c.entry_probability >= 100
          \/ c.rearm_band < 0 \/ c.rearm_band >= c.entry_probability - 50

FeatureWindow == 21

(* window_size and earliest_signal_accepted_bar: the bars a symbol needs   *)
(* before a decision, and before a signal.                                 *)
WindowOf(kind, c) ==
    CASE kind = "sma_crossover" -> c.long_window
      [] kind = "mean_reversion" -> c.lookback
      [] kind = "ml_logistic" -> FeatureWindow

EarliestSignal(kind, c) ==
    CASE kind = "sma_crossover" -> c.long_window + 1
      [] kind = "mean_reversion" -> c.lookback
      [] kind = "ml_logistic" ->
            IF c.min_training_samples = 0 THEN FeatureWindow
            ELSE FeatureWindow + c.horizon + c.min_training_samples - 1

(* The samples a strategy learns before it decides anything, and the bars  *)
(* it waits for the outcome of each.                                       *)
SamplesOf(kind, c) == IF kind = "ml_logistic" THEN c.min_training_samples ELSE 0
HorizonOf(kind, c) == IF kind = "ml_logistic" THEN c.horizon ELSE 0

(* A crossover only compares: its first full window is what the next is    *)
(* compared with.                                                          *)
Compares(kind) == kind = "sma_crossover"

(* entry_threshold_reachable: |z| never exceeds the root of lookback - 1.  *)
Reachable(kind, c) ==
    kind = "mean_reversion" => c.entry_threshold * c.entry_threshold <= 10000 * (c.lookback - 1)

(* build_strategy(): the first error, or the strategy.                     *)
BuildError(request) ==
    IF request.kind \notin DOMAIN Catalog THEN "UsageError"
    ELSE LET params == Catalog[request.kind]
         IN  IF \E i \in 1..Len(request.params) : WrongAssignment(params, request.params, i)
             THEN "InvalidParameter"
             ELSE IF Refuses(request.kind, ConfigOf(params, request.params)) THEN "ConfigError"
             ELSE "Ok"

Built(request) ==
    LET c == ConfigOf(Catalog[request.kind], request.params)
    IN  [id |-> c.strategy_id, symbols |-> c.symbols,
         window |-> WindowOf(request.kind, c),
         earliest |-> EarliestSignal(request.kind, c),
         samples |-> SamplesOf(request.kind, c), horizon |-> HorizonOf(request.kind, c),
         compares |-> Compares(request.kind),
         reachable |-> Reachable(request.kind, c)]
=============================================================================
