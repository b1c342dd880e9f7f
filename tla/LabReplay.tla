----------------------------- MODULE LabReplay ------------------------------
(***************************************************************************)
(* Strategy Lab's replay: a data set fed row by row to a StrategyEngine on *)
(* a synchronous bus that may be told to fail every signal, and everything *)
(* the strategies did recorded per row (apps/strategy_lab/lab/runner.cpp,  *)
(* demo_bus.cpp, collector.hpp).                                           *)
(*                                                                         *)
(* publish() delivers before it returns, so the strategies' handlers run   *)
(* inside the publication of a row, and the publications of their signals  *)
(* inside the handlers.  One handler is one step.  What a strategy decides *)
(* is Strategies.tla; here it emits or not on any bar that it evaluates,   *)
(* and a sample that is due teaches it or lies in the dead band.           *)
(* Prices stay below the one above which a crossover ignores a bar.        *)
(***************************************************************************)
EXTENDS LabDataset, LabCatalog

VARIABLES
    built,           \* the strategies, in command line order
    fault,           \* what the bus does to signals
    current,         \* current_event: the row being replayed
    slot,            \* the strategy that handles it next, 0 between rows
    bus,             \* the bus: its state, sequence_ and counters_
    busFailures,     \* failures_ of the bus
    marketSequence,  \* market_sequence, what the recorder saw last
    nextSignal,      \* signal_ids_ of the engine
    stats,           \* per slot: published, rejected, errors
    accepted,        \* per slot and symbol: bars accepted, the last one's time, samples learned
    signals,         \* the recorder of signals
    records,         \* per slot: what its collector was told
    before,          \* signals and failures before the current row
    events, failures,\* the result's rows and failures
    asked            \* history: every signal a strategy emitted

replayVars == <<built, fault, current, slot, bus, busFailures, marketSequence, nextSignal, stats,
                accepted, signals, records, before, events, failures, asked>>

Faults == {"none", "reject-signals", "throw-on-signal"}

Slots == 1..Len(built)

ReplayTypeOK ==
    /\ fault \in Faults
    /\ current \in 0..Len(rows)
    /\ slot \in 0..(Len(built) + 1)
    /\ bus.state \in {"Created", "Running", "ShutDown"}
    /\ bus.sequence = bus.market + bus.signals
    /\ Len(busFailures) = bus.refused
    /\ Len(asked) = nextSignal - 1
    /\ Len(events) = IF slot = 0 THEN current ELSE current - 1

ReplayInit ==
    /\ built = <<>> /\ fault = "none"
    /\ current = 0 /\ slot = 0
    /\ bus = [state |-> "Created", sequence |-> 0, market |-> 0, signals |-> 0, refused |-> 0]
    /\ marketSequence = 0 /\ nextSignal = 1
    /\ stats = <<>> /\ accepted = <<>> /\ records = <<>>
    /\ signals = <<>> /\ busFailures = <<>> /\ events = <<>> /\ failures = <<>> /\ asked = <<>>
    /\ before = [signals |-> 0, failures |-> 0]

-----------------------------------------------------------------------------
(* register_strategy() for each, then start().  A strategy_id twice is     *)
(* refused.                                                                *)
DuplicateId(strategies) ==
    \E i, j \in 1..Len(strategies) : i < j /\ strategies[i].id = strategies[j].id

StartReplay(strategies, withFault) ==
    /\ built' = strategies
    /\ fault' = withFault
    /\ bus' = [bus EXCEPT !.state = "Running"]
    /\ stats' = [i \in 1..Len(strategies) |-> [published |-> 0, rejected |-> 0, errors |-> 0]]
    /\ records' = [i \in 1..Len(strategies) |-> <<>>]
    /\ accepted' = [i \in 1..Len(strategies) |-> 
                     [s \in Symbols |-> [bars |-> 0, time |-> 0, trained |-> 0]]]
    /\ UNCHANGED <<current, slot, busFailures, marketSequence, nextSignal, signals, before,
                   events, failures, asked>>

(* The next row: the recorder sees it first, then the strategies.          *)
PublishRow ==
    /\ bus.state = "Running" /\ slot = 0 /\ current < Len(rows)
    /\ current' = current + 1
    /\ slot' = 1
    /\ bus' = [bus EXCEPT !.sequence = @ + 1, !.market = @ + 1]
    /\ marketSequence' = bus.sequence + 1
    /\ before' = [signals |-> Len(signals), failures |-> Len(busFailures)]
    /\ UNCHANGED <<built, fault, busFailures, nextSignal, stats, accepted, signals, records,
                   events, failures, asked>>

IdAfter == nextSignal + 1

(* StrategyEngine's emit and the bus's publish: the signal takes its id    *)
(* before the bus may refuse it, by returning false or by throwing, and    *)
(* only a signal that is accepted takes a sequence number.                 *)
Emit(s) ==
    LET signal == [id |-> nextSignal, strategy |-> built[s].id]
    IN  /\ nextSignal' = IdAfter
        /\ asked' = Append(asked, [event |-> current, slot |-> s])
        /\ \/ /\ fault = "none"
              /\ bus' = [bus EXCEPT !.sequence = @ + 1, !.signals = @ + 1]
              /\ signals' = Append(signals, signal @@ [event |-> current, sequence |-> bus.sequence + 1])
              /\ stats' = [stats EXCEPT ![s].published = @ + 1]
              /\ UNCHANGED busFailures
           \/ /\ fault # "none"
              /\ bus' = [bus EXCEPT !.refused = @ + 1]
              /\ busFailures' = Append(busFailures, signal)
              /\ stats' = IF fault = "reject-signals" THEN [stats EXCEPT ![s].rejected = @ + 1]
                          ELSE [stats EXCEPT ![s].errors = @ + 1]
              /\ UNCHANGED signals

(* on_market_event() of strategy s: bars of its symbols that are newer     *)
(* than the last one are accepted, everything else is ignored; every event *)
(* is reported to the observer once.                                       *)
Accepts(s, row) ==
    /\ row.type = "bar"
    /\ row.symbol \in Range(built[s].symbols)
    /\ row.time > accepted[s][row.symbol].time

(* train_due(): the samples learned once the bar is in.  One falls due     *)
(* `horizon' bars after each bar with a full window; it counts unless the  *)
(* price has moved too little.                                             *)
TrainedBy(s, row) ==
    LET had == accepted[s][row.symbol]
        due == /\ built[s].samples > 0
               /\ had.bars + 1 >= built[s].window + built[s].horizon
    IN  {had.trained} \cup (IF due THEN {had.trained + 1} ELSE {})

(* A fault: what a strategy has learned is not asked.                      *)
VerdictUntrained(s, row, trained) ==
    IF ~Accepts(s, row) THEN "Ignored"
    ELSE IF accepted[s][row.symbol].bars + 1 < built[s].window THEN "WarmingUp"
    ELSE "Evaluated"

(* A strategy that learns is warming up until it has learned enough.       *)
Verdict(s, row, trained) ==
    IF ~Accepts(s, row) THEN "Ignored"
    ELSE IF accepted[s][row.symbol].bars + 1 < built[s].window THEN "WarmingUp"
    ELSE IF trained < built[s].samples THEN "WarmingUp"
    ELSE "Evaluated"

MayEmit(s, row, trained) ==
    /\ Verdict(s, row, trained) = "Evaluated"
    /\ built[s].compares => accepted[s][row.symbol].bars >= built[s].window

ReportedAt == current

HandleRow ==
    /\ slot \in Slots
    /\ LET row == rows[current]
       IN  \E trained \in IF Accepts(slot, row) THEN TrainedBy(slot, row) ELSE {0} :
           /\ records' = [records EXCEPT ![slot] =
                            Append(@, [event |-> ReportedAt,
                                       verdict |-> Verdict(slot, row, trained)])]
           /\ accepted' = IF Accepts(slot, row)
                          THEN [accepted EXCEPT ![slot][row.symbol] =
                                  [bars |-> @.bars + 1, time |-> row.time, trained |-> trained]]
                          ELSE accepted
           /\ \/ MayEmit(slot, row, trained) /\ Emit(slot)
              \/ UNCHANGED <<nextSignal, asked, bus, signals, stats, busFailures>>
    /\ slot' = slot + 1
    /\ UNCHANGED <<built, fault, current, marketSequence, before, events, failures>>

(* slot_of: the strategy a signal names.                                   *)
SlotOf(signal) == CHOOSE s \in Slots : built[s].id = signal.strategy

(* A fault: all signals so far are taken for the row's.                    *)
NewSignalsFromStart == signals

NewSignals == SubSeq(signals, before.signals + 1, Len(signals))

NewFailures == SubSeq(busFailures, before.failures + 1, Len(busFailures))

RowSequence == marketSequence

(* publish() has returned: the row's result is what came in since.         *)
RecordRow ==
    /\ slot = Len(built) + 1
    /\ slot' = 0
    /\ events' = Append(events,
          [sequence |-> RowSequence,
           ids |-> [s \in Slots |->
                       LET mine == SelectSeq(NewSignals, LAMBDA x : SlotOf(x) = s)
                       IN  [k \in 1..Len(mine) |-> mine[k].id]]])
    /\ failures' = failures \o
          [k \in 1..Len(NewFailures) |-> NewFailures[k] @@ [event |-> current]]
    /\ UNCHANGED <<built, fault, current, bus, busFailures, marketSequence, nextSignal, stats,
                   accepted, signals, records, before, asked>>

(* The bus is shut down, then the engine stopped.                          *)
StopReplay ==
    /\ bus.state = "Running" /\ slot = 0 /\ current = Len(rows)
    /\ bus' = [bus EXCEPT !.state = "ShutDown"]
    /\ UNCHANGED <<built, fault, current, slot, busFailures, marketSequence, nextSignal, stats,
                   accepted, signals, records, before, events, failures, asked>>

Replay == PublishRow \/ HandleRow \/ RecordRow \/ StopReplay

(* The collect step: two reports of one strategy for one row, or a report  *)
(* for no row, are an internal error.                                      *)
ReportsAreSound ==
    \A s \in Slots : \A i \in 1..Len(records[s]) :
        /\ records[s][i].event \in 1..Len(events)
        /\ \A j \in 1..(i - 1) : records[s][j].event # records[s][i].event

-----------------------------------------------------------------------------
(* Properties of a replay.                                                 *)

Replayed == bus.state = "ShutDown"

(* No signal is lost and none is told twice, though the bus may fail it in *)
(* the middle of a handler: each is either recorded or a failure, under    *)
(* its own id, its row and its strategy, and its row's result names it.    *)
SignalsAccounted ==
    Replayed =>
        /\ Len(signals) + Len(failures) = Len(asked)
        /\ \A k \in 1..Len(asked) :
              LET Is(x) == /\ x.id = k /\ x.event = asked[k].event
                           /\ x.strategy = built[asked[k].slot].id
              IN  \/ /\ \E i \in 1..Len(signals) : Is(signals[i])
                     /\ Contains(events[asked[k].event].ids[asked[k].slot], k)
                  \/ \E i \in 1..Len(failures) : Is(failures[i])
        /\ \A i \in 1..Len(events) : \A s \in Slots : \A k \in Range(events[i].ids[s]) :
              asked[k] = [event |-> i, slot |-> s]

(* The bus's numbers give the order in which things happened: rows and     *)
(* signals share one sequence without gaps, and a signal's number lies     *)
(* between those of its row and of the next.                               *)
SequenceTellsOrder ==
    Replayed =>
        /\ {events[i].sequence : i \in 1..Len(events)}
              \cup {signals[i].sequence : i \in 1..Len(signals)} = 1..bus.sequence
        /\ \A i \in 1..Len(signals) :
              /\ signals[i].sequence > events[signals[i].event].sequence
              /\ signals[i].event < Len(events) =>
                    signals[i].sequence < events[signals[i].event + 1].sequence

(* Every strategy explains every row, and accepts every bar of its symbols *)
(* in a data set: none comes too late for it, so none is silently ignored. *)
RowsExplained ==
    Replayed =>
        \A s \in Slots :
            /\ Len(records[s]) = Len(rows)
            /\ \A i \in 1..Len(rows) :
                  \E r \in Range(records[s]) :
                      /\ r.event = i
                      /\ r.verdict # "Ignored" <=>
                            rows[i].type = "bar" /\ rows[i].symbol \in Range(built[s].symbols)
=============================================================================
