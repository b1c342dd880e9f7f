# Verification of the simulated trading engine

TLA+ models of the engine, the TLC runs that check them on small instances, and TLAPS proofs of
theorems about them for every size. The reference is the C++ code (`src/`, `include/`, `apps/`);
`PROJECT.json` maps each definition to the lines it models.

## The system

```
CSV bars -> MarketDataService -> event bus -> ExecutionSimulator (fills)
                                           -> RiskManager (prices)
                                           -> PortfolioBusBridge (marks)
                                           -> StrategyEngine -> signals
signals -> event bus -> RiskManager -> (hold in PortfolioManager) -> ExecutionSimulator::submit
orders, fills -> event bus -> PortfolioBusBridge -> PortfolioManager

console -> command topic -> ControlCodec -> EngineService (queue of runs) -> one ConfiguredRun at a time
events <-> EventCodec <-> message transport (in memory, Kafka) <-> TopicEventBus
command line -> Strategy Lab: data set -> replay, training or sweep -> report and exit status
```

| Component | State | Operations | Interacts through | What is hard |
|---|---|---|---|---|
| `SubscriptionRegistry` | entries, `active` flags, two mutexes | add, remove, deliver | called by both buses | removal races a delivery that works from a copy; re-entrant handlers |
| `InProcessEventBus` | queue, `busy_`, lifecycle, three condition variables | publish, start, request_shutdown, wait_until_drained, the dispatcher | everything publishes and subscribes | lost wakeups, shutdown against blocked publishers, draining while handlers publish |
| `TopicEventBus`, transports | counts of own messages sent, acknowledged, received; lifecycle | the same over a transport | Kafka or an in-memory broker; other processes | foreign messages, losses, drains that time out |
| `EventCodec` | none | encode, decode | the topic bus | what half decodes |
| `PortfolioManager` (+ bridge) | cash, positions, marks, holds, open orders, closed orders, fill sequences | apply, apply_order_update, mark, hold_for_signal, snapshot | bus events; risk reads it and holds in it | money promised at approval, taken over and spent in three later events |
| `RiskManager` + five policies | reference prices, kill switch, session | on_market_event, check, set_kill_switch | snapshot, reservation ledger, approval sink | decides on state that trails what is in flight |
| `ExecutionSimulator` + `NaiveFillModel` | working orders, ids, fill counts | submit, on_market_event | called by risk's sink; publishes orders and fills | which bar an order may fill on; partial fills |
| `ConfiguredRun`, `Pipeline`, `OrderFlow` | clock, subscription order | replay, start, finish | wires the above | bars of one timestamp run into the dispatcher |
| `app::Backtest`, `PerformanceAnalyzer` | equity curve, fills, matched lots | run; report | the same pipeline, one drain per step | the order of execution, strategies and snapshot within a bar |
| `StrategyEngine` | lifecycle, gate, active callback, subscription | register, start, stop, the handler, the sink | bus, strategies | stop against a delivery; failures half way; kept sinks |
| Strategies | rings, sums, latches, training queue | start, on_market_event | their engine | incremental state that must say what the history says |
| `MarketDataService`, bar CSV | per-symbol sequence | on_market_event; read | bus | a sequence used up by a refused event |
| `EngineService` | runs, queue, current run, per-run stop, kill switch and lent `RiskManager` | handle, work, execute, stop | command topic, run status topic | commands between the worker's steps; shutdown; redelivery |
| Control codec, run settings | none | decode commands, validate; encode and decode reports | `EngineService`, consoles | numbers out of range, defaults, members that depend on each other |
| Strategy Lab | problems, collected rows, rankings | load, run, train, sweep | `StrategyEngine` on a synchronous bus with faults | accounting under faults; keeping the holdout apart |
| Gateway, console, web UI | read models | | status and event topics, HTTP | repeated and late messages |

What makes each correct, in a line: the registry's removal is a barrier and costs nobody an
event; a bus delivers each accepted event once, in order, and a drain means it; the portfolio
never sells what it does not hold nor spends what it has promised, and its book agrees with the
simulator's; nothing trades on a bar it could not have seen; a strategy's state is a function of
the bars it was given; the engine runs what it was asked to, in order, answers, and always ends;
the lab's report accounts for every row and every signal.
`PROJECT.json` lists every component, modelled or not, and each hazard at its line.

## The modules

| Module | Models |
|---|---|
| `SubscriptionRegistry` | `events/event_bus.cpp`, the registry. One action per section under `mutex_`; `running` is the holder of `delivery_mutex_`. |
| `EventBusContract` | The contract of `IEventBus` (items 1, 4, 5, 6 of `event_bus.hpp`): a counter of accepted and one of delivered events. |
| `InProcessEventBus` | The bus. A program counter per client and for the dispatcher; `asleep` is who waits at a condition variable; each notify after an unlock is a step of its own. `Contract` is the refinement mapping. |
| `EventCodec`, `MessageTransport`, `TopicEventBus` | The bus over topics: members of each payload; the in-memory broker or Kafka as one process sees it; publish, drain, shutdown and the dispatcher. |
| `Trading`, `Portfolio`, `ExecutionSimulator`, `RiskManager` | Shared parameters and events; the three components of the order path, one operator or action per operation. |
| `Pipeline` | What the handlers of one event do, in subscription order. Shared by the two compositions that follow. |
| `OrderFlow` | A configured run: a replay thread, the dispatcher, and the thread of the kill switch, on either bus. |
| `PerformanceAnalyzer`, `Backtest` | `Backtest::run()`: the caller and the dispatcher, its snapshots, and the report. |
| `MarketDataService`, `StrategyEngine` | From a CSV file to events; the engine between a bus and its strategies, its owner and the dispatcher interleaved. |
| `Strategies` | The three strategies as incremental algorithms, next to the history of what they were given. |
| `RunSettings`, `ControlCodec`, `EngineService` | Settings and their validation; the messages of the control channel, member by member; the command reader, the worker and shutdown, one action per section under `mutex_`. |
| `LabDataset`, `LabCatalog`, `LabReplay`, `LabTraining`, `StrategyLab` | The data set's parser, the strategies on offer, the replay with its faulty bus, training and sweeps, and the command line that ties them together. |
| `MC*` | The values TLC gives the constants. |
| `*Proofs` | The theorems, by component; `PipelineProofs` holds the lemmas that `OrderFlowProofs` and `BacktestProofs` share. |

What the runs check is stated at the end of each module: parts that belong together have names
of their own and are checked as one property (`BooksAgree` is `HoldsAreOwed`,
`PortfolioTracksExecution` and `FillsApply`; the type invariants are parts too).

The correspondence of state is given at each `VARIABLES` line, by the name of the C++ member.
An operator whose comment begins "A fault:" is not part of the specification: it is the plausible
bug by which the property it is paired with (`mutants` in `PROJECT.json`) is shown to be able to
fail.

### Abstractions

* `OrderFlow` and `Backtest` run all handlers of one event in one step. They run on one thread,
  in subscription order, and the state they touch is changed by no other thread, except the kill
  switch, which `check()` copies once. What they publish is queued behind, which is what the bus
  does.
* Money is an integer of one small unit, basis points are percent: the rounding of `scaled_by`
  stays visible at small numbers. All amounts it is applied to are non-negative.
* An order's text, its average fill price, average cost and realised P&L are left out of the
  order path: no decision reads them.
* `WholeFills = FALSE` is a fill model other than `NaiveFillModel`, as `IFillModel` allows: any
  part of an order executes, at most once per bar.
* In `OrderFlow` the bus is chosen at first: in process, or over topics, where order is kept per
  type and symbol (topic and partition key), publications may be refused, and drains may time
  out. What strategies emit is any sequence of up to `MaxEmitted` of the `Ideas` given; what
  they do emit is the matter of `Strategies`.
* Of text its meaning is kept. JSON values are a kind and a value; a cell of a CSV file is empty,
  no number, or a number; a command line is a sequence of tokens with what each reads as. Doubles
  are numbers of halves, or `Huge` (beyond an integer) or `Infinite` (out of a double's range). A
  latency is a number of nanoseconds: `from_millis()` truncates it, what is written of it is
  `millis()`, which for the durations in `Shortened` is a double just short of them, and
  `OutOfRange` is what becomes of one that does not fit.
* What the logistic regression learns is floating point; its prediction is any of a few
  probabilities. When it predicts, from what, and what it is trained on are modelled.
* In `EngineService` a report is part of the step that sends it (both under `mutex_`); of
  reports it keeps which commands they answer and with which error. `StopQueued` removes the run
  from the one place it waits at; that there is only one is part of the proved invariant.

## The runs

| Run | Instance | Shows |
|---|---|---|
| `SubscriptionRegistry` | 2 threads, 2 types, 4 subscriptions | the erasing removal is a barrier, after any other no handler begins; order; live subscribers are served |
| `InProcessEventBus` | 2 clients, capacity 1, 4 events | the bus implements the contract; drains; only a handler's own push exceeds the capacity; no lost wakeup |
| `TopicEventBus` | 2 clients, either transport, 2 messages of ours, 1 foreign, 1 loss, 1 timeout | what comes back is what was sent, whole and in order per symbol; a drain means handled, ends, and leaves a stopped bus quiet |
| `OrderFlow` | 2 symbols, 3 times, 3 market signals | no short sale, no overspending, no look-ahead, marks |
| `OrderFlowLimit` | 1 symbol, 4 times, limit orders, partial fills, rejected signals, 10 % slippage, orders of up to three shares, either bus with 1 fault | the books of portfolio and simulator agree; a partly filled order keeps its remaining shares' part, rounded, of what was reserved for it; no fill refused; no hold left behind; a topic bus leaves no account short and no closed order open; the replay finishes |
| `OpenOrderLimit` | 1 symbol, limit 1 | **violated**: `max_open_orders` |
| `Backtest` | all 81 rises and falls of four bars, 4 odd data sets; 3 signals | no look-ahead, each step settled before the next; snapshots at newest prices; the report adds up to the account |
| `StrategyEngine` | 2 strategies, 2 sessions, 3 files, 1 failure, 2 emissions | callbacks in order, nothing seen twice or by some only, a signal comes from its strategy's own callback for its event; the numbers missing are the bars the bus refused; `stop()` returns |
| `Strategies` | 20 configurations, 5 bars of 3 prices, restarts, events to ignore | rings, sums, latches, training queues and signals say what the history says |
| `EngineService` | 978 scenarios: 976 odd starts and unusable messages once each, and 3 runs or kill switches and stops in 4 deliveries | accepted as asked and read back as sent, latencies to the nanosecond; refusals name the fault; order, bound, kill switch, answers; runs end; shutdown ends |
| `EndIsFinal` | 1 stop | **violated**: a stopped run does not start |
| `StrategyLab` | thousands of files and command lines | a data set is its file; every signal and row is accounted for; the holdout never chooses; warnings and status are true, no signal comes too early |

The violated ones are disagreements between the code and what its comments and documents say of
it; `findings` in `PROJECT.json` quotes both sides.

### Bounds

`MaxId`, `MaxEvents`, `MaxTime`, `MaxSignals`, `MaxEmitted`, `MaxFaults`, `MaxSent`, `MaxForeign`,
`MaxFailures`, `MaxTimeouts`, `MaxSessions`, `MaxEmits`, `MaxBars` bound what never ends in the
code; a scenario's length bounds the commands. They are large enough for the cases the properties
are about:

* with capacity 1 one client can block while the other drains or shuts down and a handler takes
  the room it waits for (more clients are the proofs' part);
* two own messages and a foreign one let each overtake the other on Kafka; the lost one is
  waited for until the drain times out under the second client;
* three bar times let a position be bought, filled, and sold by two signals of one time that the
  queue holds together; four let a limit order execute in two parts and its shares be sold; the
  fault loses an event or times a drain out. A cash of 66 pays for two buys with their buffer
  and fees and, without the buffer, seems to pay for a third, so both approval and refusal
  happen; `MaxOpenOrders`, `MaxDailyLoss = 3` and `MaxOrderQuantity` are reached;
* in `Backtest` four bars let a position be bought, marked, sold at a loss and bought again, so
  that a peak, a deeper trough and a closed trade with fees occur; two signals at one bar
  (`MaxEmitted`) are two orders of one symbol that execute together;
* two sessions let a handler that `unsubscribe()` failed to remove meet the next start;
* five bars fill windows of two, three and four, let a bar leave each, and give a sample of
  horizon two its outcome; `Largest` is reached by the sums of the largest price;
* three runs and `MaxQueued = 2` fill the queue while one executes; `OddConfigs` makes each member
  of the settings missing, and each of 24 values, one at a time;
* the lab's files have up to three rows of 15 kinds, and its command lines up to three of twelve
  pieces; for the regression, which looks at 21 bars, three files have 20 bars, 22, and 24, and it
  learns two samples, so that it stays without features, in training, or decides and may not, when
  samples fall in the dead band.

`CHECK_DEADLOCK FALSE` stands where the program ends: a finished run, backtest or command line,
a service or engine that is stopped, a topic bus shut down by its clients.

Symmetry is used for the threads of the registry only, whose properties treat them alike; no run
with a liveness property uses it.

### Fairness

Threads that can run do run: weak fairness of the dispatchers, of a client inside a call, of the
replay thread, the reader and the worker. In both buses a handler may publish but returns in the
end (strong fairness of `EndDelivery`), and spurious wakeups do not go on for ever; a broker
acknowledges or fails what it was given, and a consumer that keeps polling gets a message that
stays there (strong fairness of `PollMessage`). No client, console or owner is obliged to call
anything: publications, commands, the shutdown and failures have no fairness. The code's
scheduling is the operating system's, with condition-variable waits that are re-tested in a loop;
nothing here assumes that a mutex is granted in turn, and `DrainEnds` needs none of the timeouts.

## The proofs

All checked by `tlapm`, for every value of the constants, from the assumptions that the modules
name and TLC evaluates on their runs. Most of those are types and bounds. The others:
`FilesAssumption` (a file's rows are a sequence), `TopicBusAssumption` (an event has a type, a
time, a sequence and a payload of members, as `DomainEvent` has), `MessageAssumption` (a command
id is not used twice for different configs; a number sent is below the one that `Huge` stands for),
`CodecAssumption` (no duration of zero is `Shortened`, nor is `OutOfRange`), `OriginAssumption` (no other process writes under this bus's origin, which `random_origin()` draws), and in
`StrategyEngineAssumption` that there are finitely many strategies. Constants a module does not
name in an assumption are arbitrary.

What the proofs need of sums, numbered sets and sequences stands first in the modules that use
it. Sums are the community modules' `SumFunction`, a fold over a set whose order is a `CHOOSE`.
The library's induction theorems cannot be instantiated here, so `PipelineProofs` proves, from the
smallest counterexample, that the fold's recursion has one solution, and then what a sum is when a
map is empty, grows, shrinks, changes at one place or is renamed. `Nth`, the n-th member of a
finite set, is shown to number it: by it `Publications` lists executions in the order of order
ids, and `SubscriptionRegistry!Matching` the subscriptions to call.

### The order path (`PipelineProofs`, `OrderFlowProofs`)

`PipelineProofs` says what one operation does to a well-typed account: what executes and what is
published of it, what a hold, an order event or a fill leaves of the books. `OrderFlowProofs` is
about the whole run. `Steps` reduces each disjunct of `Next` to one of six shapes, in which
`Queued` tells where each event of the queue came from: one may be gone, the others keep their
order, new ones are behind, and on the in-process bus none is lost. On that rest, each inductive
together with those before it:

| Invariant | Says | Gives |
|---|---|---|
| `FlowTypeOK` | types, of accounts and of every queued event | `FlowTypesHold` |
| `Timely` | no queued bar or signal is of the future; a worked order was made no earlier than it was decided | `ExecutesLater` (`NoLookAhead`) |
| `BarsInOrder` | a symbol's queued bars are in order, behind the one it is marked at; fills are of delivered bars | `MarksStayNewest` |
| `Books` | ids are given out once; what each queued event says of an order agrees with both books; the fills of an order are for ever less of it | the next three |
| `Covered` | a symbol's shares can be shared out to holds, open orders, queued fills and worked orders that sell it | `SalesAreCovered` (`NeverShort`), `ReorderingSurvived` |
| `Funded` | what a buy can still cost is set aside for it, by its hold or its open order | `CashSuffices` (`CashCoversReservations`) |
| `Agreed` | every hold has its order queued (`HoldsOwed`); what is open is what is worked and in flight (`SharesAgree`); fills have ids of their own, not applied (`FillIds`), and are queued in sequence without a gap (`SequencesAgree`) | `BooksStayInAgreement` (`BooksAgree`) |

`Covered` is what makes `ReorderingSurvived` hold on a bus that drops and reorders: there a hold
may outlive its order, so the property `position >= committed` is false, and the invariant only
says that some share-out exists in which each event still to come has its part.

`CashSuffices` has a premise, `ReservationsSuffice`, that came out of the proof: whole fills, no
slippage, prices within the buffer of each other, and a sale that pays its own fees. Nothing is
reserved for the fees of a sale (`portfolio_manager.cpp:236`: a sell holds no cash), so with fees
above the proceeds the account can fall below zero. `MCOrderFlow` meets the premise.

`BooksAgree` is a conjunction of which no part is inductive. That the next fill is applied
needs the fills of an order to be queued in sequence from the one expected on; that an order
the simulator is done with has its last fill queued needs the shares in flight counted when a
bar executes (`FlightGrows`), when a fill is applied (`FlightShrinks`) and when neither
(`FlightStays`), each a statement about one sum before and after a step.

### The backtest (`BacktestProofs`)

Four invariants, each inductive together with those before it. `MCBacktest`'s instance satisfies
all four (TLC), and the theorems hold for any bars, strategies, prices, fees, limits and fill
model.

| Invariant | Says | Gives |
|---|---|---|
| `StepsInv` | types; the bus is drained when the caller goes on (`InStep`); what is worked and queued is behind the bar it was decided on (`Ahead`); ids are given out once, each hold's order is queued, each queued event is the only news of its order, the next the portfolio expects, and says how its books differ from the simulator's (`SaidOfBooks`) | `StepsHold`, `StepsApart` (`StepsAreSeparate`) |
| `MarksInv` | bars are in time order and the clock is at the one at work; a mark is the symbol's newest accepted bar's close, or its newest fill's price since (`MarksNewest`); what is held is marked | `MarksHold`, `SnapshotsValued` (`SnapshotsAtNewest`) |
| `CurveInv` | one snapshot for each time done with, after the starting cash; the last one, once all bars are done, is the account as it is | `CurveHolds` |
| `TradesInv` | were the analyzer to read the fills so far, its lots would be the portfolio's shares, and the profit less what the lots cost the cash that came in, within the rounding of average costs | `TradesHold` |

`StepsApart` is the pipeline's `BooksAgree` for a caller that drains, but with more: when the bus
is drained the two books are equal. The books differ by what is queued, so the invariant must say
of every queued event by how much, and that no two are news of the same thing.

`ReportTold` (`ReportTellsAccount`) combines all four with what the analyzer computes. Its loops
are recursive functions. That they have a solution (`StepsTaken`) and what it says of every prefix
is proved by induction: for the fall from the peak (`DrawdownFound`), and for lots and profit
(`TradesRead`, `TradesNext`). One fill changes profit less cost by what it paid: exactly when it
closes shares (`LotClosed`; the opening fees are shared out, and the last share gets all the
rest), and but for half a unit a share when the average cost is rounded (`LotOpened`).

The proofs showed two properties to be wrong as they had been stated and checked, though the
instance satisfied them:

* the bound on rounding took, for each fill, the shares held in the end or the largest order, but
  an average is rounded for all the shares held at the time, which several orders may have bought
  and others sold since (`Slack` now sums `HeldAfter`);
* "no deeper fall between any two points of the curve" is false when equity goes below zero: a
  fall from a lower point is then the deeper one. The code, and `docs/BACKTESTING.md:77`, measure
  from the running peak; `DrawdownIsDeepest` now claims any two points only down to equity zero.

### The strategies (`StrategiesProofs`)

A strategy keeps a few numbers where its properties speak of every bar it accepted. The proof is
that each of those numbers can be kept up from what is kept alone. `Inv` has four parts, each
inductive together with those before it; `MCStrategies`' instance satisfies them (TLC), and the
theorems hold for any windows, horizons, prices, probabilities, number of bars and restarts.

| Part | Says |
|---|---|
| `BarsInv` | the configuration is one a constructor accepted; every bar accepted was priced above zero and, for the crossover, at most `MaxClose` |
| `WindowInv` | `closes` and `next` are a ring of the newest closes (`Ringed`); the sums are those of the newest closes of either window |
| `LearnInv` | `pending` holds the samples of the last bars, as many as the horizon at most, the oldest first; the scores are the outcomes known, in order; `hits` is a ring of their newest results |
| `LatchInv` | the latch is the side the history says |

What carries them are facts about sequences, proved first. A ring that grows, or whose oldest
member is overwritten, is again a ring of what was given (`RingGrows`, `RingTurns`), and read
from its oldest member it is the newest of it (`RingRead`): one lemma for the closes of two
strategies and the results of the third. The sum of the newest changes by what came and what left
(`SumNext`), and the slot that `accept_close()` computes for the close that leaves the short
window is that close's (`KeepSumsIs`; the mutant `LeavesShortTooOld` is off by one there). Sums
do not depend on where a ring begins (`SumTurned`), so mean reversion may measure the ring as it
lies. `SumOf` is a recursive function; that it has a solution is `StepsTaken`, as in
`BacktestProofs`.

`ReadyIs` says that of the samples waiting at most the oldest is due, so the `while` of
`train_due()` (`logistic_regression_strategy.cpp:240`) never takes two: the queue can hold no more
than the horizon. `KnownNext` says that a bar settles the one a horizon before it and no other.
`SideNext` is the recurrence that makes the latch enough: bars that come later change nothing of
what earlier ones say (`SaysStays`, `DecidedStays`). `BarJudged` puts it together: what
`on_market_event()` compares is what the history says of its newest bar, for all three strategies.

`StateStaysHistory` (`StateIsHistory`), `LearningHolds` (`LearnsFromOutcomes`) and the action
property `SignalsFollowHistory` (`SignalsByHistory`) follow. That no product overflows uses the
bound the constructor computes (`MaxCloseIs`): the window squared times `MaxClose` is at most the
largest integer. From `StrategiesAssumption` the proofs need that prices, windows, horizon and
`minTraining` are integers, and that `None` is none of the reasons for which a bar is ignored.

### Buses and engine

* `EventBusProofs` is about the table of subscribers and about the bus that owns one. Of the
  table, `!ErasingRemoveWaits`. The property alone is not inductive: a delivery works from a copy
  of the table, so it has to be known that an erased id is inactive, stays so (ids grow and are
  never reused), and that a thread past the erase still owns its place at the barrier. That is
  the strengthening, kept to the few variables it needs.
* `!NoneBeginsAfterRemove`, an action property: a step that begins a handler takes an active id,
  and a returned `remove()` left none with its id active, whether it erased the entry or found it
  gone.
* `!LiveServedInOrder`, from `ServeInv`: besides the property, the table is in the order of ids,
  none of them beyond the last one given (`TableInOrder`), and what is left of a delivery's copy
  is in that order and after every subscription it has invoked (`TargetsInOrder`).
* Of the bus, `!TypeCorrect` and `!BusInvariant`, which no run needs to check again.
  `BusInv` says how queue, `busy_`, lifecycle and dispatcher hang together; with `TypeOK` it is
  inductive. `!BusImplementsContract`: each step of the bus is a step of `EventBusContract` or
  leaves it unchanged; `BusInv` provides that the event taken is the next one and that nothing is
  owed when the bus stops. `!DrainIsADrain`, an action property, and `!ClientsKeepToCapacity`, another: a client that
  pushes found room under the lock, by whatever way it came there.
* `TopicEventBusProofs`, on either transport. Its `BusInv`: what was accepted is known (`Kept`);
  own messages are in the log or in flight once, in the order of their partition (`InTransit`);
  the dispatcher reads each partition in order (`Reading`); what was handled is what was
  published (`HandledInOrder`); nothing is sent once the dispatcher is told to stop (`Draining`).
  `!EventsComeBackWhole`, `!EventsReadInOrder` and the action property `!DrainsMeanHandled`
  follow, the last by counting: no more own events are handled than were sent, so equal counts
  mean all.
* `StrategyEngineProofs`. `EngineInv` relates the owner (`OwnerInOrder`) to the dispatcher
  (`HandlerInOrder`), says where events are (`FedInOrder`, `SeenInOrder`), and which strategies
  have seen the one being delivered (`SeenAlike`), how the numbers of the bars of a symbol follow
  one another (`Numbered`), and that what the bus took after the last event a strategy was given is still to come to
  it (`NoneLeftOut`). `!CallbacksStayInOrder`, which includes that a session's events come in the
  order they were published, `!EventsSeenOnceByAll`, `!SignalsComeFromCallbacks` and
  `!LossStaysVisible` follow.
* `EngineServiceProofs`. `ServiceInv` has five parts: `Waiting` (a run in the queue is queued, is
  there once, and is not the worker's), `Executing` (which states the current run may have at
  each place of the worker), `Room` (the worker's run counts against the limit), `Switched` and
  `Owed` (an unanswered stop is the one its running run remembers). `!KillSwitchIsObeyed`,
  `!LastStopIsAnswered` and `!QueueIsBounded` follow; the last counts the queue's places with the
  library's theorem about surjections. `!RunsStartInOrder` needs, beyond it, that what has begun,
  what the worker holds and the queue stand one after the other as they were accepted
  (`InOrder`). Neither says that a stopped run does not begin, which `EndIsFinal` refutes.
* `!RefusalsNameFault` compares what was refused with a document that is accepted. The fault that
  is named is the first of a list, of members that cannot be read (`UnreadIsAtFault`) or of
  limits that are passed (`FailingIsAtFault`). Whichever member of that list it is, the accepted
  document has it too, at the same path, and there it is in order, so what it depends on must
  differ: `UnreadConcernsChange` for members, and for limits, check by check, `ChecksHold` and
  the lemmas after it. That lists of lists hold what their lists hold comes from `FlattenSeq`'s
  fold (`FlattenedRange`). `RefusalInv` adds which message a refusal answers. The premises, in
  `ValidAssumption` and `MessageAssumption`: some document is accepted, and an id names one
  config, as ids are new for each command (`control_messages.hpp:47`, ADR 0007); a repeated
  delivery is the same. The proof showed the property to be too narrow: of two strategies with
  one id the later is named, also when it was the earlier whose id was wrong, which TLC confirmed
  once the scenarios had an id like that. `Concerns` now covers another strategy's id.

* `!AskedIsWhatIsReported` follows a start from the message it comes in to the report it is told
  in, for any number of strategies. In between, a document is read member by member, validated,
  given a period, kept, written, put inside a report inside an envelope, and all that is undone
  again by the reader. The invariant (`AskedInv`) needs three things beside `OrderInv` and
  `RefusalInv`: that the settings of every run are `Reportable`, also those of a start that was
  refused or could not be read; that an accepted run was `Granted`, that is, some message with its
  id holds a config that is `Sound` and that its settings were read from; and the rest of the
  types (`TypeRest`), where a run that replays must have a bar time left. Only a start touches
  settings (`StartKeepsSettings`), and an accepted run is never started again, because
  `AcceptedOnce` says it is a run the service knows.
  Everything else is about documents. `KeptPaths` are the settings by path; a path is written
  where it is read (`WrittenMembers`, `SettingsReadBack`), a value `Survives` if its literal is
  read as that value, and every value a member can have does (`ReadIsReportable`), as does every
  default of one left out (`DefaultSurvives`). `InsideObject` says that the config found inside a
  report is the one put there, and `EnvelopeRead` the same of the envelope. In the other
  direction, a number may be lost on the way in, where `from_chars()` leaves a value out of range
  unset and the reader goes on (`control_codec.cpp:223`): that no whole number of an accepted
  config is lost like that is `WholeNumbersAreNotLost`, from the check that bounds it. Other
  numbers may be zero, hence the exception for `Infinite` in `AcceptedAsAsked`. A latency is the
  one member whose literal need not be read as the value it was written for: `DurationSurvives`
  bounds what a way there and back costs by a nanosecond, for any set `Shortened`, and
  `AcceptedAsAsked` and `SentIsReadBack` say no more. That a latency fits 64 bits nothing checks,
  so the property exempts one that does not (`Huge`).

### Only model-checked

* Liveness (`Settles`, `DrainEnds`, `RunsAndShutdownEnd` and the like): fairness and `ENABLED`
  are out of the prover's reach.
* `ReservationsShrink`, the amount kept for a partly filled buy: `AfterFill` divides with the
  rounding of `Decimal`, and that what is rounded at one fill after another stays within half a
  unit a share of the exact part is left to the run.
* `StrategyLab`'s three properties: parts of the lab are recursive over its input, and what they
  compute for every input would be an induction over that data.

## What the models showed

Beside the two findings, behaviour that is no contradiction of a document, or not one a run
states, but that a maintainer may want to know:

* A second `unsubscribe()` of the same id, or one of an id whose erasing removal still waits,
  returns while the handler may be running; only `NoneBegins` holds of it
  (`event_bus.hpp:25` describes the erasing one).
* Waiting removers depend on a mutex the dispatcher takes again at once for the next handler
  (`event_bus.cpp:41`), and a drain on a moment at which nothing is queued
  (`event_bus.cpp:164`): other publishers can keep either waiting. `start()` sets Running before
  the thread exists (`event_bus.cpp:140`).
* When one client's drain of a `TopicEventBus` times out it sets `stop_`, after which nothing
  notifies another waiting client: that one is released by its own timeout.
* On a topic bus the hold of a signal may stay although its order was filled, if the order's
  Working event was lost or overtaken by the fill (`portfolio_manager.cpp:311`).
* The 5 % buffer over the mark (`portfolio_manager.cpp:275`) covers neither a gap above it nor
  slippage: an account can go below zero by that much. Position and gross limits
  (`risk_policy.cpp:57`) are tested against filled shares.
* A second stop of a running run overwrites `stop_command`: the first is never answered, though
  ADR 0007 says every command is. Nor is a start whose settings do not decode to an object or
  whose run id is no topic. A report the transport refuses is dropped (`engine_service.cpp:139`).
* A JSON number out of a double's range reads as 0: slippage and fees of `1e999` basis points
  are accepted as none. A latency between 2^63 nanoseconds and the largest double is converted to
  an integer it does not fit (`control_codec.cpp:309`), which has no defined value: such a start is
  accepted, with a latency nobody asked for. One that fits may come back a nanosecond short:
  1.001 ms is kept as 1000999 ns and reported as 1.000999. Nothing uses latencies yet. A field `period` in a refusal is no member's name,
  and a wrong short window is reported under `long_window`.
* In a backtest a bar that `MarketDataService` refuses still executes orders at its open.
* In the lab: the number of training rows is the floor of a product of doubles, one less than
  the exact product for some holdouts; a grid that is too large ends with status 3 (`training.cpp:272`), where
  `training.hpp:99` has a usage error; a run without accuracy ranks with the rejected rows instead
  of before them, by their place in the grid (`training.cpp:312`, `training.hpp:96`); `--help` and
  `-h` leave standard output empty; a flag
  takes the next token for its value even if it is a flag. The warning `fewer_bars_than_warmup`
  compares with the window alone (`session.cpp:40`): a regression that has its 21 bars but never
  `min_training_samples` reports every bar as warming up (`logistic_regression_strategy.cpp:208`),
  decides nothing, and is not warned about. `WarningsAreTrue` therefore promises a decision only
  of strategies that have nothing to learn.

## Not modelled

* Stubs that throw `NotImplemented`: `TradingEngine`, `HistoricalReplay`, config loading,
  `SystemMetrics`, the Alpaca sources and the PostgreSQL repositories.
* The grammar of JSON, CSV quoting, the text of timestamps and decimals, reports' wording and
  `result_json.cpp`; the lab's own backtest command and the programs' `main`s, which build the
  components above from their arguments.
* Real arithmetic: the logistic model's weights, Sharpe ratio, volatility, returns.
* The gateway (a Python process that only shares topics with the engine) and the user
  interfaces.
* Faults that need the environment's: a thread that cannot be created, memory, a broker that
  delivers a message twice (the topic bus would run its handlers twice and count it twice).
* Statistics, heartbeats and counters that no decision reads.

## The plan

Done, in the order in which it was: registry, bus and contract; the order path; the engine
service; topic bus and codecs; strategy engine; strategies; Strategy Lab; backtest and report;
the control channel; the proofs about the engine service, the order path, the topic bus, the
strategy engine, the backtest with its report and the strategies. Left, most important first:

1. The topic bus under a broker that redelivers, and which of its properties then remain.
2. The gateway's read model over repeated and late messages, composed with `EngineService`.
3. Average cost and realised P&L against a reference definition.

## Running

```
tlc -config OrderFlow.cfg MCOrderFlow.tla
tlapm OrderFlowProofs.tla      # about ten minutes from nothing, as BacktestProofs.tla
```
