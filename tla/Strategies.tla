------------------------------ MODULE Strategies ------------------------------
(***************************************************************************)
(* The three strategies (strategy/*_strategy.cpp) as the incremental       *)
(* algorithms they are: rings, running sums, latches and queues that stand *)
(* for what a strategy has seen of one symbol.                             *)
(*                                                                         *)
(* A latch is the side last asked for: the relation of the averages, the   *)
(* extreme of the z-score or the leaning of the model.  Prices are exact   *)
(* integers, as in the code, and so are the comparisons made of them here; *)
(* the negligible spread of mean reversion is none at all.  What the       *)
(* logistic model computes is left open: a prediction is any of            *)
(* Probabilities, in percent, and a feature vector is the number of bars   *)
(* behind the statistics it is scaled with.  Symbols never meet, so one is *)
(* followed.  The texts of signals and reports are left out.               *)
(***************************************************************************)
EXTENDS Integers, SequencesExt, FiniteSetsExt

CONSTANTS
    Configs,         \* what constructors are given; kind is the class
    Largest,         \* the largest integer, INT64_MAX
    Unit,            \* a price of one
    Prices, None,
    Probabilities,
    FeatureWindow, AccuracyWindow,   \* kFeatureWindow, kAccuracyWindow
    MaxBars                          \* bound: bars accepted after a start

(* Why a bar is ignored.                                                   *)
Reasons ==
    {"NotABar", "SymbolNotAllowlisted", "PriceAbsent", "PriceInvalid", "PriceAboveMaxClose",
     "TimeNotAfterLastAccepted"}

ASSUME StrategiesAssumption ==
    /\ \A c \in Configs :
          \/ c.kind = "crossover" /\ c.short \in Int /\ c.long \in Int
          \/ c.kind = "reversion" /\ c.long \in Int
          \/ c.kind = "logistic" /\ c.horizon \in Int /\ c.minTraining \in Int
    /\ Largest \in Nat /\ Unit \in Int /\ Prices \subseteq Int /\ None \notin Reasons
    /\ FeatureWindow \in Nat \ {0} /\ AccuracyWindow \in Nat \ {0}

VARIABLES
    config,
    closes,          \* closes; a ring once full, except for the logistic one
    next,            \* next, counted from 0
    shortSum, longSum,
    lastTime,        \* last_time, 0 when empty
    latch,           \* relation, or latch
    pending,         \* samples: bar, close, probability, behind
    observed, trained,               \* the standardizer's count, trained
    hits, nextHit,   \* the ring of right predictions
    report,          \* what the observer was told last, and the signal with it
    \* What the code does not keep:
    history,         \* the bars accepted since on_start(): close, time, probability
    scores           \* every outcome scored: bar, up, right, behind

learnVars == <<pending, observed, trained, hits, nextHit, scores>>
stateVars == <<closes, next, shortSum, longSum, lastTime, latch, learnVars, history>>
vars == <<config, stateVars, report>>

accepted == Len(history)

-----------------------------------------------------------------------------
(* validated(), and what the crossover's constructor adds.                 *)

MaxClose(window) == (Largest \div window) \div window

Valid(c) ==
    /\ c.id # None /\ c.quantity > 0
    /\ c.symbols # <<>> /\ IsInjective(c.symbols) /\ ~Contains(c.symbols, None)
    /\ CASE c.kind = "crossover" ->
              c.short > 0 /\ c.long > c.short /\ MaxClose(c.long) >= Unit
         [] c.kind = "reversion" -> c.long >= 2 /\ c.rearm >= 0 /\ c.rearm < c.entry
         [] c.kind = "logistic" ->
              /\ c.horizon >= 1 /\ c.deadBand >= 0
              /\ c.entry > 50 /\ c.entry < 100 /\ c.rearm >= 0 /\ c.rearm < c.entry - 50

Window == IF config.kind = "logistic" THEN FeatureWindow ELSE config.long

Init ==
    /\ config \in {c \in Configs : Valid(c)}
    /\ closes = <<>> /\ next = 0 /\ shortSum = 0 /\ longSum = 0
    /\ lastTime = 0 /\ latch = "None"
    /\ pending = <<>> /\ observed = 0 /\ trained = 0 /\ hits = <<>> /\ nextHit = 0
    /\ history = <<>> /\ scores = <<>>
    /\ report = [verdict |-> "None", action |-> "None"]

(* SymbolState::reset() of every symbol.                                   *)
OnStart ==
    /\ closes' = <<>> /\ next' = 0 /\ shortSum' = 0 /\ longSum' = 0
    /\ lastTime' = 0 /\ latch' = "None"
    /\ pending' = <<>> /\ observed' = 0 /\ trained' = 0 /\ hits' = <<>> /\ nextHit' = 0
    /\ history' = <<>> /\ scores' = <<>>
    /\ UNCHANGED <<config, report>>

-----------------------------------------------------------------------------
(* The checks of on_market_event(), in their order.                        *)

IgnoreReason(event) ==
    CASE event.type # "Bar" -> "NotABar"
      [] event.type = "Bar" /\ ~Contains(config.symbols, event.symbol) -> "SymbolNotAllowlisted"
      [] OTHER ->
            IF event.price = None THEN "PriceAbsent"
            ELSE IF event.price <= 0 THEN "PriceInvalid"
            ELSE IF config.kind = "crossover" /\ event.price > MaxClose(config.long)
                 THEN "PriceAboveMaxClose"
            ELSE IF event.time <= lastTime THEN "TimeNotAfterLastAccepted" ELSE None

Tell(verdict, action) == report' = [verdict |-> verdict, action |-> action]

Ignore(event) ==
    /\ IgnoreReason(event) # None
    /\ Tell("Ignored", "None")
    /\ UNCHANGED <<config, stateVars>>

(* Evaluated: the latch moves, then the signal, if any, is emitted.        *)
Decide(action, newLatch) == latch' = newLatch /\ Tell("Evaluated", action)

WarmUp == Tell("WarmingUp", "None") /\ UNCHANGED latch

-----------------------------------------------------------------------------
(* accept_close() of the two that keep a ring.                             *)

(* A fault: the close said to leave the short window has left it already.  *)
LeavesShortTooOld == (next + config.long - config.short - 1) % config.long

(* The slot of the close that leaves the short window.                     *)
LeavesShort == (next + config.long - config.short) % config.long

Keep(close) ==
    IF Len(closes) < Window
    THEN closes' = Append(closes, close) /\ UNCHANGED next
    ELSE /\ closes' = [closes EXCEPT ![next + 1] = close]
         /\ next' = (next + 1) % config.long

KeepSums(close) ==
    IF Len(closes) < Window
    THEN /\ longSum' = longSum + close
         /\ shortSum' = shortSum + close -
                (IF Len(closes) >= config.short THEN closes[Len(closes) + 1 - config.short] ELSE 0)
    ELSE /\ longSum' = longSum + close - closes[next + 1]
         /\ shortSum' = shortSum + close - closes[LeavesShort + 1]

(* relate(): the side of the short average, by cross-multiplication.       *)
Side(short, long) ==
    IF short * config.long = long * config.short THEN "None"
    ELSE IF short * config.long > long * config.short THEN "Buy" ELSE "Sell"

(* Equal averages change nothing; the first side is a baseline.            *)
Cross(now) ==
    IF now = "None" THEN Decide("None", latch)
    ELSE Decide(IF latch \in {"None", now} THEN "None" ELSE now, now)

SumOf(numbers) ==
    LET sum[n \in 0 .. Len(numbers)] == IF n = 0 THEN 0 ELSE sum[n - 1] + numbers[n]
    IN  sum[Len(numbers)]

(* measure(): offsets from the newest close.  z is of the sign of -Offset, *)
(* and its square is Offset^2 / Spread.                                    *)
Offset(window, close) == SumOf([i \in DOMAIN window |-> window[i] - close])

Spread(window, close) ==
    Len(window) * SumOf([i \in DOMAIN window |-> (window[i] - close) * (window[i] - close)])
        - Offset(window, close) * Offset(window, close)

(* Where z is: at an entry, inside the band that frees the latch, between. *)
Zone(window, close) ==
    LET offset == Offset(window, close)
        spread == Spread(window, close)
    IN  IF 100 * offset * offset <= config.rearm * config.rearm * spread \/ spread = 0 THEN "Inside"
        ELSE IF 100 * offset * offset < config.entry * config.entry * spread THEN "Between"
        ELSE IF offset > 0 THEN "Buy" ELSE "Sell"

(* A fault: being back in the middle does not free the latch.              *)
BandedForGood(zone) ==
    IF zone \in {"Buy", "Sell"} /\ zone # latch THEN Decide(zone, zone) ELSE Decide("None", latch)

(* One request per excursion.                                              *)
Banded(zone) ==
    IF zone \in {"Buy", "Sell"} /\ zone # latch THEN Decide(zone, zone)
    ELSE Decide("None", IF zone = "Inside" THEN "None" ELSE latch)

Crossover(close) ==
    /\ config.kind = "crossover"
    /\ Keep(close) /\ KeepSums(close)
    /\ IF Len(closes') < Window THEN WarmUp ELSE Cross(Side(shortSum', longSum'))
    /\ UNCHANGED learnVars

Reversion(close) ==
    /\ config.kind = "reversion"
    /\ Keep(close)
    /\ IF Len(closes') < Window THEN WarmUp ELSE Banded(Zone(closes', close))
    /\ UNCHANGED <<shortSum, longSum, learnVars>>

-----------------------------------------------------------------------------
(* The logistic strategy, and train_due().                                 *)

(* The dead band, of the logarithm of the ratio, as percents of the ratio. *)
TooSmall(from, to) ==
    100 * Max({from, to}) <= (100 + config.deadBand) * Min({from, to})

(* A fault: samples wait for one bar more than the horizon.                *)
DueLate(sample) == accepted - sample.bar > config.horizon

(* accepted counts the bars before this one, so it is the index of this.   *)
Due(sample) == accepted - sample.bar >= config.horizon

(* A sample is scored with the probability told then, and trained on.      *)
Score(learned, outcome) ==
    LET ring == learned.hits
        full == Len(ring) = AccuracyWindow
    IN  [hits |-> IF full THEN [ring EXCEPT ![learned.next + 1] = outcome.right]
                  ELSE Append(ring, outcome.right),
         next |-> IF full THEN (learned.next + 1) % AccuracyWindow ELSE learned.next,
         trained |-> learned.trained + 1,
         scores |-> Append(learned.scores, outcome)]

Outcome(sample, close) ==
    LET up == close > sample.close
    IN  [bar |-> sample.bar, up |-> up, right |-> ((sample.probability >= 50) = up),
         behind |-> sample.behind]

(* The samples at the front of the queue whose outcome is known.           *)
Ready == Cardinality({n \in DOMAIN pending : \A m \in 1 .. n : Due(pending[m])})

Waiting == SubSeq(pending, Ready + 1, Len(pending))

(* They leave the queue one by one; those that moved teach something.      *)
TrainDue(close) ==
    LET learned[n \in 0 .. Ready] ==
            IF n = 0
            THEN [hits |-> hits, next |-> nextHit, trained |-> trained, scores |-> scores]
            ELSE IF TooSmall(pending[n].close, close) THEN learned[n - 1]
            ELSE Score(learned[n - 1], Outcome(pending[n], close))
        after == learned[Ready]
    IN  /\ hits' = after.hits /\ nextHit' = after.next
        /\ trained' = after.trained /\ scores' = after.scores

(* Where a probability is, in percent.                                     *)
Leaning(probability) ==
    IF probability >= config.entry THEN "Buy"
    ELSE IF probability <= 100 - config.entry THEN "Sell"
    ELSE IF probability - 50 \in -config.rearm .. config.rearm THEN "Inside" ELSE "Between"

Logistic(close, probability) ==
    /\ config.kind = "logistic"
    /\ closes' = Append(IF Len(closes) = Window THEN Tail(closes) ELSE closes, close)
    /\ TrainDue(close)
    /\ IF Len(closes') < Window
       THEN WarmUp /\ pending' = Waiting /\ UNCHANGED observed
       ELSE /\ pending' = Append(Waiting, [bar |-> accepted, close |-> close,
                                           probability |-> probability, behind |-> observed])
            /\ observed' = observed + 1
            /\ IF trained' < config.minTraining THEN WarmUp ELSE Banded(Leaning(probability))
    /\ UNCHANGED <<next, shortSum, longSum>>

Accept(event, probability) ==
    /\ IgnoreReason(event) = None
    /\ accepted < MaxBars
    /\ Crossover(event.price) \/ Reversion(event.price) \/ Logistic(event.price, probability)
    /\ lastTime' = event.time
    /\ history' = Append(history, [close |-> event.price, time |-> event.time,
                                   probability |-> probability])
    /\ UNCHANGED config

(* Only the logistic strategy computes a probability.                      *)
Told == IF config.kind = "logistic" THEN Probabilities ELSE {None}

OnMarketEvent(event) == Ignore(event) \/ \E probability \in Told : Accept(event, probability)

MarketEvents ==
    [type : {"Bar", "Trade"}, symbol : {"listed", "other"}, price : Prices \cup {0, None},
     time : {lastTime, lastTime + 1}]

Next ==
    \/ OnStart
    \/ \E event \in MarketEvents : OnMarketEvent(event)

Spec == Init /\ [][Next]_vars

-----------------------------------------------------------------------------
Actions == {"None", "Buy", "Sell"}

TypeOK ==
    /\ config \in Configs
    /\ closes \in Seq(Prices) /\ Len(closes) <= Window /\ next \in 0 .. Window - 1
    /\ shortSum \in Nat /\ longSum \in Nat /\ lastTime \in Nat
    /\ latch \in Actions
    /\ hits \in Seq(BOOLEAN) /\ Len(hits) <= AccuracyWindow /\ nextHit \in 0 .. AccuracyWindow - 1
    /\ observed \in Nat /\ trained \in Nat
    /\ report \in [verdict : {"None", "Ignored", "WarmingUp", "Evaluated"}, action : Actions]

Closes(bars) == [i \in DOMAIN bars |-> bars[i].close]

Newest(sequence, n) == SubSeq(sequence, Max({1, Len(sequence) - n + 1}), Len(sequence))

(* What a strategy keeps is about the newest bars and no others: the ring, *)
(* read from the oldest, is the last closes accepted, the sums are those   *)
(* of the last closes of either window, the time is that of the last bar.  *)
WindowIsNewest ==
    LET newest == Closes(Newest(history, Window))
    IN  /\ SubSeq(closes, next + 1, Len(closes)) \o SubSeq(closes, 1, next) = newest
        /\ config.kind = "crossover" =>
              /\ longSum = SumOf(newest)
              /\ shortSum = SumOf(Newest(newest, config.short))
        /\ lastTime = (IF history = <<>> THEN 0 ELSE Last(history).time)

(* What the n-th bar says by itself, from the bars accepted up to it.      *)
Says(bars, n) ==
    LET window == Closes(Newest(SubSeq(bars, 1, n), Window))
    IN  CASE config.kind = "crossover" ->
                Side(SumOf(Newest(window, config.short)), SumOf(window))
          [] config.kind = "reversion" -> Zone(window, Last(window))
          [] config.kind = "logistic" -> Leaning(bars[n].probability)

(* The outcomes known at the n-th bar that count.                          *)
Known(bars, n) ==
    {i \in Window .. n - config.horizon : ~TooSmall(bars[i].close, bars[i + config.horizon].close)}

Decided(bars, n) ==
    /\ n >= Window
    /\ config.kind = "logistic" => Cardinality(Known(bars, n)) >= config.minTraining

Holds(kind) == IF kind = "crossover" THEN {"Buy", "Sell"} ELSE {"Buy", "Sell", "Inside"}

(* The side the bars have put a strategy on.                               *)
SideOf(bars) ==
    LET said == {n \in DOMAIN bars : Decided(bars, n) /\ Says(bars, n) \in Holds(config.kind)}
    IN  IF said = {} \/ Says(bars, Max(said)) = "Inside" THEN "None" ELSE Says(bars, Max(said))

(* The latch, moved bar by bar, is what the whole history says: the last   *)
(* side of the averages that was one, or the last extreme since the inner  *)
(* band was visited.                                                       *)
LatchByHistory == latch = SideOf(history)

(* A signal is emitted exactly when a bar is at an extreme the bars before *)
(* it had not asked for; for the crossover, when the averages change sides *)
(* and never at the first side.                                            *)
SignalDue ==
    LET n == Len(history')
        side == Says(history', n)
    IN  IF /\ Decided(history', n) /\ side \in {"Buy", "Sell"}
           /\ side # SideOf(history) /\ (config.kind = "crossover" => SideOf(history) # "None")
        THEN side ELSE "None"

SignalsByHistory == [][Len(history') > Len(history) => report'.action = SignalDue]_vars

(* The model is trained on every outcome that is known and counts, once    *)
(* and in order, labelled by the close the horizon after its own, with     *)
(* features scaled by earlier bars alone, and scored with the probability  *)
(* told before the outcome was.                                            *)
TrainedOnOutcomes ==
    config.kind = "logistic" =>
        /\ trained = Len(scores)
        /\ {score.bar + 1 : score \in ToSet(scores)} = Known(history, accepted)
        /\ \A i, j \in DOMAIN scores : i < j => scores[i].bar < scores[j].bar
        /\ \A score \in ToSet(scores) :
              LET bar == history[score.bar + 1]
                  up == history[score.bar + 1 + config.horizon].close > bar.close
              IN  score = [bar |-> score.bar, up |-> up, right |-> ((bar.probability >= 50) = up),
                           behind |-> score.bar + 1 - Window]

(* The rolling accuracy is of the newest results scored, whatever the      *)
(* place the ring has reached.                                             *)
AccuracyIsOfNewest ==
    LET newest == Newest(scores, AccuracyWindow)
    IN  SubSeq(hits, nextHit + 1, Len(hits)) \o SubSeq(hits, 1, nextHit)
            = [i \in DOMAIN newest |-> newest[i].right]

(* No comparison of averages can overflow: the bound on a close covers the *)
(* sums and their products with the windows.                               *)
ExactArithmetic ==
    config.kind = "crossover" =>
        shortSum * config.long <= Largest /\ longSum * config.short <= Largest

(* All a strategy keeps is what its history says, and no sum of it can     *)
(* overflow.                                                               *)
StateIsHistory == TypeOK /\ WindowIsNewest /\ LatchByHistory /\ ExactArithmetic

(* The model learns from outcomes, in time and in order, and is judged by  *)
(* the newest of them.                                                     *)
LearnsFromOutcomes == TrainedOnOutcomes /\ AccuracyIsOfNewest
=============================================================================
