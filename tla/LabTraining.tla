---------------------------- MODULE LabTraining -----------------------------
(***************************************************************************)
(* Strategy Lab's training: the ml_logistic strategy fed a data set whose  *)
(* rows are split into a training and a holdout period, and a sweep over a *)
(* grid of configurations ranked by the training period                    *)
(* (apps/strategy_lab/lab/training.cpp).                                   *)
(*                                                                         *)
(* What the model predicts is LogisticRegression of Strategies.tla; here a *)
(* bar scores a prediction or not, rightly or wrongly, and emits a signal  *)
(* or not.  `train' feeds row by row; in a sweep, which calls the same     *)
(* function for every combination, a call is one step with any result the  *)
(* rows allow.                                                             *)
(***************************************************************************)
EXTENDS LabDataset, LabCatalog

CONSTANT MaxCombinations     \* kMaxSweepCombinations

VARIABLES
    trainee,         \* the strategy being trained
    holdout,         \* in hundredths
    fed,             \* rows fed
    score,           \* per symbol: scored, correct and signals so far
    atSplit,         \* the scores at the split, empty until it is reached
    scoredRows,      \* history: what each row fed added
    combination,     \* index: the value of each axis, empty when all are done
    sweepRows,       \* the sweep's rows
    ranked           \* they are sorted

trainingVars == <<trainee, holdout, fed, score, atSplit, scoredRows, combination, sweepRows, ranked>>

NoScore == [scored |-> 0, correct |-> 0, signals |-> 0]

Plus(a, b) == [f \in DOMAIN NoScore |-> a[f] + b[f]]
Minus(a, b) == [f \in DOMAIN NoScore |-> a[f] - b[f]]

SumOfScores(scores) == FoldSeq(Plus, NoScore, scores)

TrainingTypeOK ==
    /\ holdout \in 0..99
    /\ fed = Len(scoredRows)
    /\ DOMAIN score \subseteq Symbols /\ DOMAIN atSplit \subseteq DOMAIN score
    /\ \A s \in DOMAIN score : score[s].correct <= score[s].scored

TrainingInit ==
    /\ trainee = <<>> /\ holdout = 0 /\ fed = 0
    /\ score = <<>> /\ atSplit = <<>> /\ scoredRows = <<>>
    /\ combination = <<>> /\ sweepRows = <<>> /\ ranked = FALSE

InMode(mode) == trainee # <<>> /\ trainee.mode = mode

-----------------------------------------------------------------------------
(* dataset_symbols(): what is traded when the arguments do not say.        *)
TradedByDefault == {s \in DatasetSymbols : BarRows(s) > 0}

(* The rows of the training period.  The product is one of doubles, so a   *)
(* whole number may come out just below itself and lose its last row.      *)
TrainingRows(h) ==
    LET exact == Len(rows) * (100 - h)
    IN  IF exact % 100 = 0 /\ exact > 0 /\ h > 0
        THEN {exact \div 100, exact \div 100 - 1} ELSE {exact \div 100}

(* build_strategy() for the given assignments, with the data set's symbols *)
(* unless they name some.                                                  *)
TraineeError(given) ==
    IF \E i \in 1..Len(given) : given[i].name = "symbols"
    THEN BuildError([kind |-> "ml_logistic", params |-> given])
    ELSE IF \E i \in 1..Len(given) : WrongAssignment(MlParams, given, i) THEN "InvalidParameter"
    ELSE IF Refuses("ml_logistic", [ConfigOf(MlParams, given) EXCEPT
                        !.symbols = SetToSeq(TradedByDefault)])
    THEN "ConfigError" ELSE "Ok"

TraineeSymbols(given) ==
    IF \E i \in 1..Len(given) : given[i].name = "symbols"
    THEN Range(Built([kind |-> "ml_logistic", params |-> given]).symbols)
    ELSE TradedByDefault

StartTraining(given, h) ==
    /\ holdout' = h
    /\ \E n \in TrainingRows(h) : trainee' = [mode |-> "train", symbols |-> TraineeSymbols(given),
                                            training |-> n]
    /\ score' = [s \in TraineeSymbols(given) |-> NoScore]
    /\ UNCHANGED <<fed, atSplit, scoredRows, combination, sweepRows, ranked>>

(* The snapshot before row `training', or after the last row.              *)
AtSplit == fed = trainee.training

TakeSnapshot ==
    /\ InMode("train") /\ AtSplit /\ atSplit = <<>>
    /\ atSplit' = score
    /\ UNCHANGED <<trainee, holdout, fed, score, scoredRows, combination, sweepRows, ranked>>

Outcomes ==
    {[scored |-> 0, correct |-> 0, signals |-> 0], [scored |-> 1, correct |-> 1, signals |-> 0],
     [scored |-> 1, correct |-> 0, signals |-> 1]}

FeedRow ==
    /\ InMode("train") /\ fed < Len(rows)
    /\ AtSplit => atSplit # <<>>
    /\ LET row == rows[fed + 1]
           heard == row.type = "bar" /\ row.symbol \in trainee.symbols
       IN  \E outcome \in IF heard THEN Outcomes ELSE {NoScore} :
              /\ score' = IF heard THEN [score EXCEPT ![row.symbol] = Plus(@, outcome)] ELSE score
              /\ scoredRows' = Append(scoredRows, [symbol |-> row.symbol] @@ outcome)
    /\ fed' = fed + 1
    /\ UNCHANGED <<trainee, holdout, atSplit, combination, sweepRows, ranked>>

Trained == InMode("train") /\ fed = Len(rows) /\ atSplit # <<>>

(* The run's result: each symbol's two periods, and their sums.            *)
TrainingOf(s) == atSplit[s]
HoldoutOf(s) == Minus(score[s], atSplit[s])

-----------------------------------------------------------------------------
(* sweep_ml().                                                             *)

Product(numbers) == FoldSeq(LAMBDA a, b : a * b, 1, numbers)

WrongAxis(given, axes, i) ==
    \/ axes[i].values = <<>>
    \/ \E g \in Range(given) : g.name = axes[i].name
    \/ \E j \in 1..(i - 1) : axes[j].name = axes[i].name

Points(axes) == Product([i \in 1..Len(axes) |-> Len(axes[i].values)])

(* The axes are judged in their order, a grid that gets too large as soon  *)
(* as it does.                                                             *)
SweepError(given, axes) ==
    LET wrong == {i \in 1..Len(axes) : \/ WrongAxis(given, axes, i)
                                      \/ Points(SubSeq(axes, 1, i)) > MaxCombinations}
    IN  IF wrong = {} THEN "Ok"
        ELSE IF WrongAxis(given, axes, Min(wrong)) THEN "UsageError" ELSE "LimitExceeded"

AssignmentOf(axes, index) ==
    [a \in 1..Len(axes) |-> [name |-> axes[a].name, text |-> axes[a].values[index[a]]]]

(* The odometer: the last axis that is not at its end steps, and those     *)
(* after it start again.                                                   *)
NextCombination(axes, index) ==
    LET open == {a \in 1..Len(axes) : index[a] < Len(axes[a].values)}
    IN  IF open = {} THEN <<>>
        ELSE [a \in 1..Len(axes) |->
                IF a = Max(open) THEN index[a] + 1 ELSE IF a > Max(open) THEN 1 ELSE index[a]]

StartSweep(axes, h) ==
    /\ holdout' = h
    /\ \E n \in TrainingRows(h) :
          trainee' = [mode |-> "sweep", symbols |-> {}, training |-> n]
    /\ combination' = [a \in 1..Len(axes) |-> 1]
    /\ UNCHANGED <<fed, score, atSplit, scoredRows, sweepRows, ranked>>

(* What a run may score in a period of n rows.                             *)
PeriodScores(n) ==
    {p \in [scored : 0..Min({n, 2}), correct : 0..Min({n, 2})] : p.correct <= p.scored}

Run(assignment, training, kept) ==
    [assignment |-> assignment, rejected |-> FALSE, training |-> training, holdout |-> kept]

Rejected(assignment) ==
    [assignment |-> assignment, rejected |-> TRUE, training |-> [scored |-> 0, correct |-> 0],
     holdout |-> [scored |-> 0, correct |-> 0]]

(* One combination: a configuration the strategy refuses has a row too.    *)
TryCombination(given, axes) ==
    /\ InMode("sweep") /\ combination # <<>>
    /\ LET assignment == AssignmentOf(axes, combination)
           code == TraineeError(given \o assignment)
       IN  /\ code \in {"Ok", "ConfigError"}
           /\ \/ /\ code = "Ok"
                 /\ \E training \in PeriodScores(trainee.training),
                       kept \in PeriodScores(Len(rows) - trainee.training) :
                       sweepRows' = Append(sweepRows, Run(assignment, training, kept))
              \/ /\ code = "ConfigError"
                 /\ sweepRows' = Append(sweepRows, Rejected(assignment))
    /\ combination' = NextCombination(axes, combination)
    /\ UNCHANGED <<trainee, holdout, fed, score, atSplit, scoredRows, ranked>>

(* Any other error ends the sweep.                                         *)
CombinationFails(given, axes) ==
    /\ InMode("sweep") /\ combination # <<>>
    /\ TraineeError(given \o AssignmentOf(axes, combination)) \notin {"Ok", "ConfigError"}

HasAccuracy(p) == p.scored > 0

(* A fault: the holdout chooses.                                           *)
BetterOnHoldout(a, b) ==
    HasAccuracy(a.holdout) /\ (HasAccuracy(b.holdout) =>
        a.holdout.correct * b.holdout.scored > b.holdout.correct * a.holdout.scored)

Better(a, b) ==
    HasAccuracy(a.training) /\ (HasAccuracy(b.training) =>
        a.training.correct * b.training.scored > b.training.correct * a.training.scored)

(* std::stable_sort by Better: rows neither of which is better stay put.   *)
StableSort(s) ==
    LET Before(i, j) == Better(s[i], s[j]) \/ (~Better(s[j], s[i]) /\ i < j)
        places == SetToSortSeq(1..Len(s), Before)
    IN  [k \in 1..Len(s) |-> s[places[k]]]

RankSweep ==
    /\ InMode("sweep") /\ combination = <<>> /\ ~ranked
    /\ sweepRows' = StableSort(sweepRows)
    /\ ranked' = TRUE
    /\ UNCHANGED <<trainee, holdout, fed, score, atSplit, scoredRows, combination>>

(* The rows with a run: the first is the winner the document prints.       *)
Runs == SelectSeq(sweepRows, LAMBDA r : ~r.rejected)

-----------------------------------------------------------------------------
(* Properties of training.                                                 *)

SumOver(symbol, from, to) ==
    SumOfScores(SelectSeq(SubSeq(scoredRows, from, to), LAMBDA r : r.symbol = symbol))

(* The two periods are the rows before the split and the rows after it:    *)
(* nothing scored or emitted in the holdout counts as training, nothing is *)
(* counted twice and nothing is lost.                                      *)
PeriodsSplitTheRows ==
    Trained => \A s \in trainee.symbols :
        /\ TrainingOf(s) = SumOver(s, 1, trainee.training)
        /\ HoldoutOf(s) = SumOver(s, trainee.training + 1, Len(rows))

(* A sweep has one row for each point of its grid, whatever the odometer   *)
(* and the ranking do to them.                                             *)
GridIsCovered(axes) ==
    ranked =>
        /\ Len(sweepRows) = Points(axes)
        /\ \A i, j \in 1..Len(sweepRows) :
              i # j => sweepRows[i].assignment # sweepRows[j].assignment

(* The holdout never chooses: whatever the holdout scores are, no row      *)
(* stands before one of a higher training accuracy, so that no run beats   *)
(* the winner, the first row that was not rejected.                        *)
HoldoutNeverChooses ==
    ranked =>
        /\ \A r \in Range(Runs) : ~Better(r, Head(Runs))
        /\ \A i, j \in 1..Len(sweepRows) :
              (i < j /\ HasAccuracy(sweepRows[j].training)) =>
                  /\ HasAccuracy(sweepRows[i].training)
                  /\ sweepRows[i].training.correct * sweepRows[j].training.scored
                         >= sweepRows[j].training.correct * sweepRows[i].training.scored
=============================================================================
