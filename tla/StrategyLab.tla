---------------------------- MODULE StrategyLab -----------------------------
(***************************************************************************)
(* strategy_lab_replay: a command line read, a data set loaded, strategies *)
(* built and replayed or trained, and one document with an exit status     *)
(* (apps/strategy_lab/lab/cli.cpp, session.cpp, errors.hpp, main.cpp).     *)
(*                                                                         *)
(* The command line is a sequence of tokens.  Assignment gives the tokens  *)
(* that are name=value, Response the @files.  The file the data set is     *)
(* read from is what it is from the start; nothing else is read.           *)
(***************************************************************************)
EXTENDS LabReplay, LabTraining

CONSTANTS
    Sessions,        \* command lines, each with the file at its path
    Assignment, Response,
    MaxArguments, MaxStrategies, DefaultMaxRows, HardMaxRows

ASSUME LabAssumption ==
    /\ MaxArguments \in Nat /\ MaxStrategies \in Nat
    /\ HardMaxRows \in Nat /\ DefaultMaxRows \in 1..HardMaxRows

VARIABLES
    args,            \* the arguments, until they are parsed
    command,         \* what they ask for, empty until then
    stage,
    warnings,
    code,            \* "Ok" or the code of the LabError thrown
    document,        \* what is to be written on stdout
    status           \* the exit status, -1 before the end

cliVars == <<args, command, stage, warnings, code, document, status>>

vars == <<datasetVars, replayVars, trainingVars, cliVars>>

Stages == {"Arguments", "Dataset", "Replay", "Train", "Sweep", "Write", "Done"}

TypeOK ==
    /\ DatasetTypeOK /\ ReplayTypeOK /\ TrainingTypeOK
    /\ stage \in Stages
    /\ code \in {"Ok", "UsageError", "InvalidParameter", "ConfigError", "DatasetError",
                 "LimitExceeded", "InternalError"}
    /\ document \in {"none", "result", "error"}
    /\ status \in {-1, 0, 2, 3, 4}

Init ==
    /\ \E session \in Sessions : args = session.args /\ file = session.file
    /\ DatasetInit /\ ReplayInit /\ TrainingInit
    /\ command = <<>> /\ stage = "Arguments" /\ warnings = {}
    /\ code = "Ok" /\ document = "none" /\ status = -1

-----------------------------------------------------------------------------
(* The command line.                                                       *)

(* expand_arguments(): an @file stands for its lines; one that cannot be   *)
(* read or holds an @ itself is an error.                                  *)
Expanded(tokens) ==
    FlattenSeq([i \in 1..Len(tokens) |->
        IF tokens[i] \in DOMAIN Response THEN Response[tokens[i]].lines ELSE <<tokens[i]>>])

Expands(tokens) ==
    /\ \A i \in 1..Len(tokens) : tokens[i] \in DOMAIN Response =>
          /\ Response[tokens[i]].readable
          /\ Range(Response[tokens[i]].lines) \cap DOMAIN Response = {}
    /\ Len(Expanded(tokens)) <= MaxArguments

ValueFlags(name) ==
    {"--dataset", "--param", "--max-rows"}
        \cup (IF name = "run" THEN {"--strategy", "--bus-fault"} ELSE {"--holdout"})
        \cup (IF name = "sweep" THEN {"--grid"} ELSE {})

Command(name) ==
    [name |-> name, datasets |-> 0, strategies |-> <<>>, params |-> <<>>, axes |-> <<>>,
     fault |-> "none", holdouts |-> 0, holdout |-> 30, maxRows |-> DefaultMaxRows]

WithParam(c, given) ==
    [c EXCEPT !.strategies[Len(c.strategies)].params = Append(@, given)]

Values(text) == IF text \in DOMAIN List /\ text # "" THEN List[text] ELSE <<text>>

(* One flag and its value: the commands that may result, or none.          *)
Taken(c, flag, value) ==
    CASE flag = "--dataset" ->
            IF c.datasets = 1 THEN {} ELSE {[c EXCEPT !.datasets = 1]}
      [] flag = "--strategy" ->
            IF Len(c.strategies) >= MaxStrategies THEN {}
            ELSE {[c EXCEPT !.strategies = Append(@, [kind |-> value, params |-> <<>>])]}
      [] flag = "--param" ->
            IF value \notin DOMAIN Assignment \/ (c.name = "run" /\ c.strategies = <<>>) THEN {}
            ELSE IF c.name = "run" THEN {WithParam(c, Assignment[value])}
            ELSE {[c EXCEPT !.params = Append(@, Assignment[value])]}
      [] flag = "--grid" ->
            IF value \notin DOMAIN Assignment THEN {}
            ELSE {[c EXCEPT !.axes = Append(@, [name |-> Assignment[value].name,
                                                values |-> Values(Assignment[value].text)])]}
      [] flag = "--bus-fault" ->
            IF value \in Faults THEN {[c EXCEPT !.fault = value]} ELSE {}
      [] flag = "--max-rows" ->
            IF IsRead("UInt", value) /\ Read("UInt", value) \in 1..HardMaxRows
            THEN {[c EXCEPT !.maxRows = Read("UInt", value)]} ELSE {}
      [] flag = "--holdout" ->
            IF c.holdouts = 0 /\ value \in DOMAIN Number /\ Number[value] \in 0..99
            THEN {[c EXCEPT !.holdouts = 1, !.holdout = Number[value]]} ELSE {}

(* One token: a flag waits for its value, which is the next token whatever *)
(* it looks like.                                                          *)
Consume(parse, token) ==
    IF parse.flag # "" THEN
        {[flag |-> "", command |-> c] : c \in Taken(parse.command, parse.flag, token)}
    ELSE IF token \in ValueFlags(parse.command.name) THEN {[parse EXCEPT !.flag = token]}
    ELSE IF token \in {"--pretty", "--no-wall-clock"} THEN {parse}
    ELSE {}

(* The end of the arguments: parse_run() and parse_train() accept.         *)
Complete(parse) ==
    /\ parse.flag = "" /\ parse.command.datasets = 1
    /\ parse.command.name = "run" => parse.command.strategies # <<>>
    /\ parse.command.name = "sweep" => parse.command.axes # <<>>

(* The command the tokens ask for, or none.                                *)
Parsed(tokens) ==
    LET parses[i \in 1..Len(tokens)] ==
            IF i = 1 THEN {[flag |-> "", command |-> Command(tokens[1])]}
            ELSE UNION {Consume(parse, tokens[i]) : parse \in parses[i - 1]}
    IN  {parse.command : parse \in {p \in parses[Len(tokens)] : Complete(p)}}

-----------------------------------------------------------------------------
Finish(c, doc) == /\ code' = c /\ document' = doc /\ stage' = "Write"

Throw(c) == Finish(c, "error")

UnchangedWork == UNCHANGED <<datasetVars, replayVars, trainingVars>>

ReadArguments ==
    /\ stage = "Arguments"
    /\ args' = <<>>
    /\ LET tokens == IF Expands(args) THEN Expanded(args) ELSE <<>>
           name == IF tokens = <<>> THEN "" ELSE tokens[1]
       IN  \/ /\ name \notin {"--help", "-h", "describe", "run", "train", "sweep"}
              /\ Throw("UsageError") /\ UNCHANGED command
           \/ /\ name \in {"--help", "-h"}
              /\ Finish("Ok", "none") /\ UNCHANGED command
           \/ /\ name = "describe"
              /\ IF Range(Tail(tokens)) \subseteq {"--pretty"} THEN Finish("Ok", "result")
                 ELSE Throw("UsageError")
              /\ UNCHANGED command
           \/ /\ name \in {"run", "train", "sweep"}
              /\ \/ /\ command' \in Parsed(tokens)
                    /\ stage' = "Dataset"
                    /\ UNCHANGED <<code, document>>
                 \/ /\ Parsed(tokens) = {}
                    /\ Throw("UsageError") /\ UNCHANGED command
    /\ UNCHANGED <<warnings, status>>
    /\ UnchangedWork

LoadFile ==
    /\ stage = "Dataset" /\ LoadDataset(command.maxRows)
    /\ UNCHANGED <<replayVars, trainingVars, cliVars>>

DatasetRefused ==
    /\ stage = "Dataset" /\ loaded \in {"DatasetError", "LimitExceeded"}
    /\ Throw(loaded)
    /\ UNCHANGED <<args, command, warnings, status>>
    /\ UnchangedWork

-----------------------------------------------------------------------------
(* run: run_session().                                                     *)

Warning(kind, s, symbol) == [kind |-> kind, slot |-> s, symbol |-> symbol]

(* collect_warnings().                                                     *)
WarningsOf(strategies) ==
    LET slots == 1..Len(strategies)
        Of(i) == Range(strategies[i].symbols)
    IN  {Warning("dataset_symbol_not_allowlisted", 0, s) :
            s \in DatasetSymbols \ UNION {Of(i) : i \in slots}}
        \cup UNION {{Warning("allowlisted_symbol_not_in_dataset", i, s) :
                        s \in Of(i) \ DatasetSymbols} : i \in slots}
        \cup UNION {{Warning("fewer_bars_than_warmup", i, s) :
                        s \in {t \in Of(i) \cap DatasetSymbols : BarRows(t) < strategies[i].window}}
                       : i \in slots}
        \cup {Warning("entry_threshold_unreachable", i, "") :
                 i \in {j \in slots : ~strategies[j].reachable}}

(* Strategies are built in order, the first that cannot be ends it.        *)
BuildRun ==
    /\ stage = "Dataset" /\ loaded = "Loaded" /\ command.name = "run"
    /\ LET requests == command.strategies
           errors == SelectSeq([i \in 1..Len(requests) |-> BuildError(requests[i])],
                               LAMBDA e : e # "Ok")
           strategies == [i \in 1..Len(requests) |-> Built(requests[i])]
       IN  \/ /\ errors # <<>>
              /\ Throw(Head(errors)) /\ UNCHANGED <<warnings, replayVars>>
           \/ /\ errors = <<>> /\ DuplicateId(strategies)
              /\ Throw("ConfigError") /\ UNCHANGED <<warnings, replayVars>>
           \/ /\ errors = <<>> /\ ~DuplicateId(strategies)
              /\ warnings' = WarningsOf(strategies)
              /\ StartReplay(strategies, command.fault)
              /\ stage' = "Replay" /\ UNCHANGED <<code, document>>
    /\ UNCHANGED <<datasetVars, trainingVars, args, command, status>>

ReplayStep ==
    /\ stage = "Replay" /\ Replay
    /\ UNCHANGED <<datasetVars, trainingVars, cliVars>>

ReplayDone ==
    /\ stage = "Replay" /\ Replayed
    /\ IF ReportsAreSound THEN Finish("Ok", "result") ELSE Throw("InternalError")
    /\ UNCHANGED <<args, command, warnings, status>>
    /\ UnchangedWork

-----------------------------------------------------------------------------
(* train and sweep.                                                        *)

BeginTraining ==
    /\ stage = "Dataset" /\ loaded = "Loaded" /\ command.name = "train"
    /\ LET error == TraineeError(command.params)
       IN  IF error = "Ok"
           THEN /\ StartTraining(command.params, command.holdout)
                /\ stage' = "Train" /\ UNCHANGED <<code, document>>
           ELSE Throw(error) /\ UNCHANGED trainingVars
    /\ UNCHANGED <<datasetVars, replayVars, args, command, warnings, status>>

TrainStep ==
    /\ stage = "Train" /\ (TakeSnapshot \/ FeedRow)
    /\ UNCHANGED <<datasetVars, replayVars, cliVars>>

BeginSweep ==
    /\ stage = "Dataset" /\ loaded = "Loaded" /\ command.name = "sweep"
    /\ LET error == SweepError(command.params, command.axes)
       IN  IF error = "Ok"
           THEN /\ StartSweep(command.axes, command.holdout)
                /\ stage' = "Sweep" /\ UNCHANGED <<code, document>>
           ELSE Throw(error) /\ UNCHANGED trainingVars
    /\ UNCHANGED <<datasetVars, replayVars, args, command, warnings, status>>

SweepStep ==
    /\ stage = "Sweep"
    /\ TryCombination(command.params, command.axes) \/ RankSweep
    /\ UNCHANGED <<datasetVars, replayVars, cliVars>>

SweepFails ==
    /\ stage = "Sweep" /\ CombinationFails(command.params, command.axes)
    /\ Throw(TraineeError(command.params \o AssignmentOf(command.axes, combination)))
    /\ UNCHANGED <<args, command, warnings, status>>
    /\ UnchangedWork

TrainingDone ==
    /\ (stage = "Train" /\ Trained) \/ (stage = "Sweep" /\ ranked)
    /\ Finish("Ok", "result")
    /\ UNCHANGED <<args, command, warnings, status>>
    /\ UnchangedWork

-----------------------------------------------------------------------------
(* What no part of the tool expects ends, wherever it is thrown, in the    *)
(* document of an internal error.                                          *)
UnexpectedFailure ==
    /\ stage \notin {"Write", "Done"}
    /\ Throw("InternalError")
    /\ UNCHANGED <<args, command, warnings, status>>
    /\ UnchangedWork

(* exit_status().                                                          *)
StatusOf(c) ==
    CASE c = "Ok" -> 0
      [] c \in {"UsageError", "InvalidParameter", "ConfigError"} -> 2
      [] c \in {"DatasetError", "LimitExceeded"} -> 3
      [] c = "InternalError" -> 4

UnwrittenStatus(c) == 4

(* main(): a document that does not get out is an internal error.          *)
WriteDocument ==
    /\ stage = "Write"
    /\ stage' = "Done"
    /\ \/ status' = StatusOf(code) /\ UNCHANGED document
       \/ document # "none" /\ status' = UnwrittenStatus(code) /\ document' = "none"
    /\ UNCHANGED <<args, command, warnings, code>>
    /\ UnchangedWork

Next ==
    \/ ReadArguments \/ LoadFile \/ DatasetRefused
    \/ BuildRun \/ ReplayStep \/ ReplayDone
    \/ BeginTraining \/ TrainStep \/ BeginSweep \/ SweepStep \/ SweepFails \/ TrainingDone
    \/ UnexpectedFailure \/ WriteDocument

Spec == Init /\ [][Next]_vars

-----------------------------------------------------------------------------
(* Properties.                                                             *)

(* The status tells what happened: 0 only with a whole result on stdout    *)
(* (or for --help), a result only of a data set that was read to its end   *)
(* and work that was finished, 2 before the file is touched or once it has *)
(* been found good, 3 for the file or a limit, and 4 for an internal error *)
(* or a document that did not get out, never with a result.                *)
StatusTellsCause ==
    stage = "Done" =>
        /\ status = 0 =>
              /\ document = "none" => command = <<>>
              /\ command # <<>> => loaded = "Loaded" /\ (Replayed \/ Trained \/ ranked)
        /\ document = "result" => status = 0
        /\ status = 2 => loaded = "Loaded" \/ (loaded = "Reading" /\ lineNo = 0)
        /\ status = 3 => loaded # "Loaded" \/ (command.name = "sweep" /\ ~ranked)
        /\ document = "error" => status # 0

(* The warnings of a replay tell the truth: a strategy that is warned      *)
(* about on one of its symbols decides and asks for nothing there, and one *)
(* that has nothing to learn and is not warned about comes to decide.  One *)
(* that learns may stay in training without a warning.                     *)
WarningsAreTrue ==
    Replayed =>
        \A s \in Slots : \A symbol \in Range(built[s].symbols) :
            LET decided == \E r \in Range(records[s]) :
                              r.verdict = "Evaluated" /\ rows[r.event].symbol = symbol
                asks == \E a \in Range(asked) : a.slot = s /\ rows[a.event].symbol = symbol
                warned == \E w \in warnings :
                              /\ w.slot = s /\ w.symbol = symbol
                              /\ w.kind \in {"fewer_bars_than_warmup",
                                             "allowlisted_symbol_not_in_dataset"}
            IN  /\ warned => ~decided /\ ~asks
                /\ ~warned /\ built[s].samples = 0 => decided

(* No strategy asks for anything before the bar of its symbol that the     *)
(* document names as the earliest, or the window of a mean reversion, how- *)
(* ever many of the rows were bars and however fast it learned; and what   *)
(* it says of the row it asks on is that it evaluated it.                  *)
SignalsNotTooEarly ==
    \A a \in Range(asked) :
        LET symbol == rows[a.event].symbol
            barsBy == {i \in 1..a.event : rows[i].symbol = symbol /\ rows[i].type = "bar"}
        IN  /\ Cardinality(barsBy) >= built[a.slot].earliest
            /\ \E r \in Range(records[a.slot]) : r.event = a.event /\ r.verdict = "Evaluated"

SweepCoversGrid == stage \in {"Write", "Done"} => GridIsCovered(command.axes)

(* From the file to the report nothing is left out: a data set that loads  *)
(* is its file, and of a file that does not every line read is judged; and *)
(* of a replay each row, each signal, and their order are in the report,   *)
(* faults of the bus included.                                             *)
EveryRowExplained ==
    /\ TypeOK
    /\ RowsAreLines /\ EveryLineJudged
    /\ RowsExplained /\ SignalsAccounted /\ SequenceTellsOrder

(* Training and holdout are kept apart, in the scores and in the choice,   *)
(* and the choice is out of the whole grid.                                *)
HoldoutKeptApart == PeriodsSplitTheRows /\ HoldoutNeverChooses /\ SweepCoversGrid

(* What the tool says of its work is true: its warnings, the bar it names  *)
(* as a strategy's earliest, and its status.                               *)
VerdictIsTrue == WarningsAreTrue /\ SignalsNotTooEarly /\ StatusTellsCause
=============================================================================
