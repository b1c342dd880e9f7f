--------------------------- MODULE EngineService ---------------------------
(***************************************************************************)
(* EngineService (app/engine_service.cpp): the engine as a process that    *)
(* takes commands.  One thread reads commands and handles each under       *)
(* mutex_; another takes queued runs one at a time and executes them; any  *)
(* thread shuts the service down.  An action is one section under mutex_,  *)
(* or one step between two of them.                                        *)
(*                                                                         *)
(* Commands come as messages of the wire format, and may be delivered      *)
(* again (at least once).  Reports are sent under mutex_ by the step that  *)
(* makes the change; kept of them is which commands they answer, and with  *)
(* which error.  Heartbeats, statistics, the reason and time of a kill     *)
(* switch and a transport that refuses a report are left out.              *)
(*                                                                         *)
(* A scenario gives, for each delivery, the messages it may be, and so how *)
(* many there are, which bounds the model; Instants is the number of bar   *)
(* times a run replays.                                                    *)
(***************************************************************************)
EXTENDS ControlCodec

CONSTANTS
    Runs,            \* run ids that can be a topic prefix
    CommandIds,
    Scenarios,
    Bars,            \* config_.bars: [symbol, time]
    ValidConfig,     \* settings nothing is wrong with, as a console sends them
    MaxQueued, Instants

IsCommand(message) ==
    Decodes(message) /\ message.envelope[<<"type">>] = Text("command")

(* The config in a start.                                                  *)
ConfigIn(message) == Inside(message.payload, "settings")

HasId(message) == <<"command_id">> \in DOMAIN message.payload

IdIn(message) == message.payload[<<"command_id">>]

NoneIsNoPath(members) == \A m \in ToSet(members) : m.path # None

(* The length of an array is a number.                                     *)
Ordinary(config) == CountOf(config) \in Nat /\ NoneIsNoPath(SettingsMembers(config))

(* A pair; a number that none of those Huge stands for is; a time.         *)
Proper(value) ==
    /\ value = <<value[1], value[2]>>
    /\ value[1] \in {"Whole", "Fraction"} => value[2] \in Int /\ 2 * value[2] + 1 < HugeNumber
    /\ value[1] = "Huge" => value[2] = 0
    /\ value[1] = "Time" => value[2] # None

ASSUME ServiceAssumption ==
    /\ None \notin Runs \cup Int
    /\ Bars # {} /\ IsFiniteSet(Bars) /\ \A bar \in Bars : bar.time \in Int
    /\ None \notin {<<"stopping">>, <<"bars">>, <<"queue">>}
    /\ MaxQueued \in Nat /\ Instants \in Nat \ {0}

ASSUME ValidAssumption ==
    /\ Ordinary(ValidConfig)
    /\ SettingsProblem(ValidConfig) = None /\ Problem(SettingsFrom(ValidConfig)) = None
    /\ \A check \in ToSet(Checks(SettingsFrom(ValidConfig))) : check.field # None

(* A console makes a new id for each command, and sends the same again.    *)
ASSUME MessageAssumption ==
    \A s \in Scenarios :
        /\ DOMAIN s = 1..Len(s) /\ Len(s) \in Nat
        /\ \A m \in UNION ToSet(s) :
              /\ NoneIsNoPath(CommandMembers(m.payload))
              /\ HasId(m) =>
                    /\ IdIn(m) \in Texts(CommandIds) /\ Ordinary(ConfigIn(m))
                    /\ \A path \in DOMAIN ConfigIn(m) : Proper(ConfigIn(m)[path])
                    /\ SettingsProblem(ConfigIn(m)) = None =>
                          \A check \in ToSet(Checks(SettingsFrom(ConfigIn(m)))) : check.field # None
                    /\ \A n \in UNION ToSet(s) :
                          HasId(n) /\ IdIn(n) = IdIn(m) => ConfigIn(n) = ConfigIn(m)

VARIABLES
    scenario,        \* what this run of the model is about
    settings,        \* Run::settings
    refusal,         \* history: the error field a refused start was answered with
    runState,        \* Run::state, "none" for a run not in runs_
    startCommand,    \* Run::start_command
    stopFlag,        \* Run::stop
    stopCommand,     \* Run::stop_command
    kill,            \* Run::kill.engaged
    lent,            \* the run whose RiskManager handle() may use (Run::risk)
    riskKill,        \* the kill switch of that RiskManager
    queue,           \* queue_
    current,         \* current_
    stopping,        \* stopping_
    shutDown,        \* stop() has joined the threads and dropped the queue
    reader,          \* the reader's place in read_commands()
    pending,         \* the command it is about to handle
    worker,          \* the worker's place in work() and execute()
    instant,         \* bar times the current run has replayed
    outcome,         \* how the current run's replay ended
    delivered,       \* commands read so far
    answered,        \* history: the ids of commands a report has answered
    asked,           \* history: the last stop acted on for each run
    accepted,        \* history: runs in the order they were queued
    begun            \* history: runs in the order they were started

runVars == <<runState, startCommand, settings, refusal, stopFlag, stopCommand, kill>>
riskVars == <<lent, riskKill>>
readerVars == <<reader, pending>>
workerVars == <<worker, instant, outcome>>
histories == <<answered, asked, accepted, begun>>
vars == <<runVars, riskVars, queue, current, stopping, shutDown, readerVars, workerVars,
          delivered, histories, scenario>>

Finished == {"completed", "stopped", "failed"}

TypeOK ==
    /\ runState \in [Runs -> {"none", "queued", "running"} \cup Finished]
    /\ startCommand \in [Runs -> CommandIds \cup {None}]
    /\ stopFlag \in [Runs -> BOOLEAN]
    /\ stopCommand \in [Runs -> CommandIds \cup {None}]
    /\ kill \in [Runs -> BOOLEAN]
    /\ lent \in Runs \cup {None}
    /\ riskKill \in BOOLEAN
    /\ queue \in Seq(Runs)
    /\ current \in Runs \cup {None}
    /\ stopping \in BOOLEAN /\ shutDown \in BOOLEAN
    /\ reader \in {"polling", "handling", "exited"}
    /\ (pending # None) => pending.action \in CommandActions
    /\ worker \in {"idle", "setup", "replay", "instant", "take_back", "close",
                   "release", "exited"}
    /\ instant \in 0..Instants
    /\ outcome \in Finished \cup {None}
    /\ delivered \in 0..Len(scenario)
    /\ answered \subseteq CommandIds
    /\ asked \in [Runs -> CommandIds \cup {None}]
    /\ accepted \in Seq(Runs) /\ begun \in Seq(Runs)

Init ==
    /\ runState = [r \in Runs |-> "none"]
    /\ startCommand = [r \in Runs |-> None]
    /\ settings = [r \in Runs |-> None]
    /\ refusal = [r \in Runs |-> None]
    /\ stopFlag = [r \in Runs |-> FALSE]
    /\ stopCommand = [r \in Runs |-> None]
    /\ kill = [r \in Runs |-> FALSE]
    /\ lent = None /\ riskKill = FALSE
    /\ queue = <<>> /\ current = None
    /\ stopping = FALSE /\ shutDown = FALSE
    /\ reader = "polling" /\ pending = None /\ worker = "idle"
    /\ instant = 0 /\ outcome = None
    /\ delivered = 0
    /\ scenario \in Scenarios
    /\ answered = {} /\ asked = [r \in Runs |-> None] /\ accepted = <<>> /\ begun = <<>>

-----------------------------------------------------------------------------
(* What handle() works out of a command alone.                             *)

(* select_bars()                                                           *)
Selected(s) ==
    {bar \in Bars :
        /\ bar.symbol \in SymbolsOf(s)
        /\ s[<<"period_start">>] = None \/ bar.time >= s[<<"period_start">>]
        /\ s[<<"period_end">>] = None \/ bar.time <= s[<<"period_end">>]}

(* The period is filled in from the bars.                                  *)
WithPeriod(s) ==
    LET times == {bar.time : bar \in Selected(s)}
    IN  [s EXCEPT ![<<"period_start">>] = IF @ = None THEN Min(times) ELSE @,
                  ![<<"period_end">>] = IF @ = None THEN Max(times) ELSE @]

InvalidField(c) == IF c.field # None THEN c.field ELSE Problem(c.settings)

(* A start with the field at fault, whether there are bars for it, and the *)
(* settings of its run.                                                    *)
Considered(c) ==
    IF c.action # "start_backtest" THEN c
    ELSE LET field == InvalidField(c)
             bars == field = None /\ Selected(c.settings) # {}
         IN  [id |-> c.id, run |-> c.run, action |-> c.action, field |-> field, bars |-> bars,
              settings |-> CASE c.field # None -> NoSettings
                             [] bars -> WithPeriod(c.settings)
                             [] OTHER -> c.settings]

-----------------------------------------------------------------------------
(* read_commands().                                                        *)

Receive(message) ==
    /\ reader = "polling" /\ ~stopping
    /\ IF IsCommand(message)
       THEN reader' = "handling" /\ pending' = Considered(CommandFrom(message.payload))
       ELSE UNCHANGED readerVars
    /\ delivered' = delivered + 1
    /\ UNCHANGED <<runVars, riskVars, queue, current, stopping, shutDown, workerVars, histories,
                   scenario>>

ReaderExits ==
    /\ reader = "polling" /\ stopping
    /\ reader' = "exited"
    /\ UNCHANGED <<pending, runVars, riskVars, queue, current, stopping, shutDown, workerVars,
                   delivered, histories, scenario>>

-----------------------------------------------------------------------------
(* handle().  Each of its branches, for a command c and its run r.         *)

Answer(c) == answered' = answered \cup {c.id}

(* A fault: the run being executed is not counted.                         *)
QueueFullOfWaiting == Len(queue) >= MaxQueued

QueueFull == Len(queue) + (IF current # None THEN 1 ELSE 0) >= MaxQueued

StateOf(run) == IF run \in Runs THEN runState[run] ELSE "none"

(* A start for a run that exists is ignored, redelivered or not, and so is *)
(* one whose run has no topic to answer on.                                *)
IgnoreStart(c) ==
    /\ c.action = "start_backtest"
    /\ c.run \notin Runs \/ StateOf(c.run) # "none"
    /\ UNCHANGED <<runVars, riskVars, queue, histories>>

(* What is wrong with a start: the settings, no bars, or the engine.       *)
Refusal(c) ==
    IF stopping THEN <<"stopping">>
    ELSE IF c.field # None THEN c.field
    ELSE IF ~c.bars THEN <<"bars">>
    ELSE IF QueueFull THEN <<"queue">>
    ELSE None

NewRun(c) ==
    /\ c.action = "start_backtest"
    /\ c.run \in Runs /\ StateOf(c.run) = "none"
    /\ startCommand' = [startCommand EXCEPT ![c.run] = c.id]
    /\ settings' = [settings EXCEPT ![c.run] = c.settings]
    /\ refusal' = [refusal EXCEPT ![c.run] = Refusal(c)]
    /\ Answer(c)
    /\ UNCHANGED <<stopFlag, stopCommand, kill, riskVars, asked, begun>>

RefuseStart(c) ==
    /\ NewRun(c)
    /\ Refusal(c) # None
    /\ runState' = [runState EXCEPT ![c.run] = "failed"]
    /\ UNCHANGED <<queue, accepted>>

(* A fault: the newest run goes first.                                     *)
QueueRunInFront(c) ==
    /\ NewRun(c)
    /\ Refusal(c) = None
    /\ runState' = [runState EXCEPT ![c.run] = "queued"]
    /\ queue' = <<c.run>> \o queue
    /\ accepted' = Append(accepted, c.run)

QueueRun(c) ==
    /\ NewRun(c)
    /\ Refusal(c) = None
    /\ runState' = [runState EXCEPT ![c.run] = "queued"]
    /\ queue' = Append(queue, c.run)
    /\ accepted' = Append(accepted, c.run)

(* Another engine may own it.                                              *)
IgnoreUnknown(c) ==
    /\ c.action # "start_backtest"
    /\ StateOf(c.run) = "none"
    /\ UNCHANGED <<runVars, riskVars, queue, histories>>

RefuseFinished(c) ==
    /\ c.action # "start_backtest"
    /\ StateOf(c.run) \in Finished
    /\ Answer(c)
    /\ UNCHANGED <<runVars, riskVars, queue, asked, accepted, begun>>

(* A run waits in one place, or in none once the worker has taken it.      *)
PlacesOf(run) == {i \in DOMAIN queue : queue[i] = run}

StopQueued(c) ==
    /\ c.action = "stop"
    /\ StateOf(c.run) = "queued"
    /\ queue' = IF PlacesOf(c.run) = {} THEN queue
                ELSE RemoveAt(queue, CHOOSE i \in PlacesOf(c.run) : TRUE)
    /\ runState' = [runState EXCEPT ![c.run] = "stopped"]
    /\ Answer(c)
    /\ asked' = [asked EXCEPT ![c.run] = c.id]
    /\ UNCHANGED <<startCommand, settings, refusal, stopFlag, stopCommand, kill, riskVars, accepted, begun>>

(* A fault: the command to answer is not remembered.                       *)
StopRunningUnanswered(c) ==
    /\ c.action = "stop"
    /\ StateOf(c.run) = "running"
    /\ stopFlag' = [stopFlag EXCEPT ![c.run] = TRUE]
    /\ asked' = [asked EXCEPT ![c.run] = c.id]
    /\ UNCHANGED <<runState, startCommand, settings, refusal, stopCommand, kill, riskVars, queue, answered,
                   accepted, begun>>

(* The worker answers when the replay ends.                                *)
StopRunning(c) ==
    /\ c.action = "stop"
    /\ StateOf(c.run) = "running"
    /\ stopFlag' = [stopFlag EXCEPT ![c.run] = TRUE]
    /\ stopCommand' = [stopCommand EXCEPT ![c.run] = c.id]
    /\ asked' = [asked EXCEPT ![c.run] = c.id]
    /\ UNCHANGED <<runState, startCommand, settings, refusal, kill, riskVars, queue, answered, accepted, begun>>

SetKillSwitch(c) ==
    /\ c.action = "set_kill_switch"
    /\ StateOf(c.run) \in {"queued", "running"}
    /\ kill' = [kill EXCEPT ![c.run] = c.engaged]
    /\ riskKill' = IF lent = c.run THEN c.engaged ELSE riskKill
    /\ Answer(c)
    /\ UNCHANGED <<runState, startCommand, settings, refusal, stopFlag, stopCommand, lent, queue,
                   asked, accepted, begun>>

Handle(c) ==
    /\ reader = "handling" /\ pending = c
    /\ \/ IgnoreStart(c) \/ RefuseStart(c) \/ QueueRun(c)
       \/ IgnoreUnknown(c) \/ RefuseFinished(c)
       \/ StopQueued(c) \/ StopRunning(c) \/ SetKillSwitch(c)
    /\ reader' = "polling"
    /\ pending' = None
    /\ UNCHANGED <<current, stopping, shutDown, workerVars, delivered, scenario>>

-----------------------------------------------------------------------------
(* work().                                                                 *)

WorkerUnchanged ==
    UNCHANGED <<settings, refusal, stopping, shutDown, readerVars, delivered, scenario>>

TakeRun ==
    /\ worker = "idle" /\ ~stopping /\ queue # <<>>
    /\ current' = Head(queue)
    /\ queue' = Tail(queue)
    /\ worker' = "setup"
    /\ UNCHANGED <<runVars, riskVars, instant, outcome, histories>>
    /\ WorkerUnchanged

WorkerExits ==
    /\ worker = "idle" /\ stopping
    /\ worker' = "exited"
    /\ UNCHANGED <<runVars, riskVars, queue, current, instant, outcome, histories>>
    /\ WorkerUnchanged

(* execute(): the transport, the bus or the strategies cannot be made.     *)
SetupFails ==
    /\ worker = "setup"
    /\ outcome' = "failed"
    /\ worker' = "close"
    /\ UNCHANGED <<runVars, riskVars, queue, current, instant, histories>>
    /\ WorkerUnchanged

(* A fault: a kill switch set before the run began is not applied.         *)
BeginRunReleased ==
    /\ worker = "setup"
    /\ runState' = [runState EXCEPT ![current] = "running"]
    /\ lent' = current
    /\ riskKill' = FALSE
    /\ begun' = Append(begun, current)
    /\ instant' = 0
    /\ worker' = "replay"
    /\ UNCHANGED <<startCommand, stopFlag, stopCommand, kill, queue, current, outcome,
                   answered, asked, accepted>>
    /\ WorkerUnchanged

(* The run is announced running, its RiskManager lent to handle().         *)
BeginRun ==
    /\ worker = "setup"
    /\ runState' = [runState EXCEPT ![current] = "running"]
    /\ lent' = current
    /\ riskKill' = kill[current]
    /\ begun' = Append(begun, current)
    /\ instant' = 0
    /\ worker' = "replay"
    /\ UNCHANGED <<startCommand, stopFlag, stopCommand, kill, queue, current, outcome,
                   answered, asked, accepted>>
    /\ WorkerUnchanged

(* One timestamp is replayed; then on_instant, which waits and looks at    *)
(* the flags.  The last timestamp completes the run whatever they say.     *)
ReplayInstant ==
    /\ worker = "replay"
    /\ instant' = instant + 1
    /\ worker' = "instant"
    /\ UNCHANGED <<runVars, riskVars, queue, current, outcome, histories>>
    /\ WorkerUnchanged

MustStop == stopFlag[current] \/ stopping

ReplayContinues ==
    /\ worker = "instant"
    /\ instant < Instants /\ ~MustStop
    /\ worker' = "replay"
    /\ UNCHANGED <<runVars, riskVars, queue, current, instant, outcome, histories>>
    /\ WorkerUnchanged

ReplayEnds ==
    /\ worker = "instant"
    /\ instant = Instants \/ MustStop
    /\ outcome' = IF instant = Instants THEN "completed" ELSE "stopped"
    /\ worker' = "take_back"
    /\ UNCHANGED <<runVars, riskVars, queue, current, instant, histories>>
    /\ WorkerUnchanged

ReplayFails ==
    /\ worker = "replay"
    /\ outcome' = "failed"
    /\ worker' = "take_back"
    /\ UNCHANGED <<runVars, riskVars, queue, current, instant, histories>>
    /\ WorkerUnchanged

(* ~Lend(), whichever way the replay ended.                                *)
TakeBack ==
    /\ worker = "take_back"
    /\ lent' = None
    /\ riskKill' = FALSE
    /\ worker' = "close"
    /\ UNCHANGED <<runVars, queue, current, instant, outcome, histories>>
    /\ WorkerUnchanged

CloseRun ==
    /\ worker = "close"
    /\ runState' = [runState EXCEPT ![current] = outcome]
    /\ answered' = answered \cup ({stopCommand[current]} \ {None})
    /\ outcome' = None
    /\ instant' = 0
    /\ worker' = "release"
    /\ UNCHANGED <<startCommand, stopFlag, stopCommand, kill, riskVars, queue, current,
                   asked, accepted, begun>>
    /\ WorkerUnchanged

ReleaseRun ==
    /\ worker = "release"
    /\ current' = None
    /\ worker' = "idle"
    /\ UNCHANGED <<runVars, riskVars, queue, instant, outcome, histories>>
    /\ WorkerUnchanged

-----------------------------------------------------------------------------
(* stop(): the flags, then, once both threads are joined, the queue.       *)

Shutdown ==
    /\ ~stopping
    /\ stopping' = TRUE
    /\ stopFlag' = IF current = None THEN stopFlag ELSE [stopFlag EXCEPT ![current] = TRUE]
    /\ UNCHANGED <<runState, startCommand, settings, refusal, stopCommand, kill, riskVars, queue, current,
                   shutDown, readerVars, workerVars, delivered, histories, scenario>>

(* A fault: runs that never started are dropped without a word.            *)
DropQueueSilently ==
    /\ stopping /\ ~shutDown
    /\ reader = "exited" /\ worker = "exited"
    /\ queue' = <<>>
    /\ shutDown' = TRUE
    /\ UNCHANGED <<runVars, riskVars, current, stopping, readerVars, workerVars, delivered,
                   histories, scenario>>

DropQueue ==
    /\ stopping /\ ~shutDown
    /\ reader = "exited" /\ worker = "exited"
    /\ runState' = [r \in Runs |->
                      IF \E i \in 1..Len(queue) : queue[i] = r THEN "stopped" ELSE runState[r]]
    /\ queue' = <<>>
    /\ shutDown' = TRUE
    /\ UNCHANGED <<startCommand, settings, refusal, stopFlag, stopCommand, kill, riskVars, current, stopping,
                   readerVars, workerVars, delivered, histories, scenario>>

-----------------------------------------------------------------------------
Reader == ReaderExits \/ (pending # None /\ Handle(pending))

Worker ==
    \/ TakeRun \/ WorkerExits \/ SetupFails \/ BeginRun
    \/ ReplayInstant \/ ReplayContinues \/ ReplayEnds \/ ReplayFails
    \/ TakeBack \/ CloseRun \/ ReleaseRun

Next ==
    \/ delivered < Len(scenario) /\ \E message \in scenario[delivered + 1] : Receive(message)
    \/ Reader \/ Worker \/ Shutdown \/ DropQueue

Spec == Init /\ [][Next]_vars

(* The threads keep running; commands and the shutdown may never come.     *)
FairSpec == Spec /\ WF_vars(Reader) /\ WF_vars(Worker) /\ WF_vars(DropQueue)

-----------------------------------------------------------------------------
(* Properties.                                                             *)

(* Runs are started in the order they were queued, however many of those   *)
(* between were stopped while they waited.                                 *)
PlaceOf(r) == CHOOSE i \in 1..Len(accepted) : accepted[i] = r

StartedInOrder ==
    \A i, j \in 1..Len(begun) : i < j => PlaceOf(begun[i]) < PlaceOf(begun[j])

(* No more than max_queued runs are queued or running.                     *)
QueueBounded ==
    Cardinality({r \in Runs : runState[r] \in {"queued", "running"}}) <= MaxQueued

(* The kill switch a run reports is the one its RiskManager obeys, also    *)
(* when it was set while the run was queued or being set up.               *)
KillSwitchObeyed == lent # None => riskKill = kill[lent]

(* When a run is over, the last stop the engine acted on for it has been   *)
(* answered, whether it came before the run began or while it replayed.    *)
(* An earlier one that it overtook may never be.                           *)
LastStopAnswered ==
    \A r \in Runs : runState[r] \in Finished => asked[r] \in answered \cup {None}

(* The config in a console's start command.                                *)
ConfigSent(id) ==
    ConfigIn(CHOOSE m \in UNION ToSet(scenario) : HasId(m) /\ IdIn(m) = Text(id))

IsLatency(path) == Last(path) \in {"signal_to_order", "order_to_fill"}

Halves(number) == 2 * number[2] + (IF number[1] = "Fraction" THEN 1 ELSE 0)

(* Latencies asked for and reported, a nanosecond apart at most.           *)
CloseTo(sent, reported) ==
    /\ {sent[1], reported[1]} \subseteq {"Whole", "Fraction"}
    /\ Halves(sent) - Halves(reported) \in -2..2

(* An accepted run is reported with the settings that were asked for, down *)
(* to the last member: none is lost, misplaced or read as another number.  *)
(* But a number that no double holds is not refused but read as zero, and  *)
(* of a latency it is what is left in nanoseconds, and arbitrary when they *)
(* are more than 64 bits.                                                  *)
AcceptedAsAsked ==
    \A r \in ToSet(accepted) :
        LET sent == ConfigSent(startCommand[r])
            reported == WriteSettings(settings[r])
        IN  \A member \in ToSet(SettingsMembers(sent)) :
                member.path \in DOMAIN sent =>
                    /\ member.path \in DOMAIN reported
                    /\ \/ sent[member.path] = reported[member.path]
                       \/ sent[member.path][1] = "Infinite"
                       \/ IsLatency(member.path) /\ sent[member.path][1] = "Huge"
                       \/ /\ IsLatency(member.path)
                          /\ CloseTo(sent[member.path], reported[member.path])

Report(r) ==
    [run |-> r, status |-> runState[r], settings |-> settings[r], engaged |-> kill[r],
     command |-> startCommand[r], error |-> runState[r] = "failed"]

AnnouncedRuns == (IF current = None THEN <<>> ELSE <<current>>) \o queue

(* Settings as they were sent, but for a nanosecond of a latency.          *)
SameSettings(read, sent) ==
    /\ DOMAIN read = DOMAIN sent
    /\ \A path \in DOMAIN sent :
          \/ read[path] = sent[path]
          \/ IsLatency(path) /\ read[path] - sent[path] \in -1..1

ReportReadBack(r) ==
    \A message \in {Encode("run", ReportJson(Report(r)))} :
        /\ Decodes(message)
        /\ LET read == ReportFrom(message.payload)
           IN  /\ SameSettings(read.settings, settings[r])
               /\ [read EXCEPT !.settings = settings[r]] = Report(r)

AnnouncementReadBack ==
    LET message == Encode("engine", AnnouncementJson(<<"a">>, AnnouncedRuns))
    IN  Decodes(message) /\ AnnouncementFrom(message.payload) = AnnouncedRuns

(* What the engine sends its own codec can read, and says the same: the    *)
(* report of a run in every state it can be in, whatever was asked of it,  *)
(* but for a nanosecond of its latencies, and the list of runs.            *)
SentIsReadBack ==
    /\ \A r \in Runs : runState[r] # "none" => ReportReadBack(r)
    /\ AnnouncementReadBack

ChangedFrom(valid, config) ==
    {path \in DOMAIN valid \cup DOMAIN config :
        ~(path \in DOMAIN valid \cap DOMAIN config /\ valid[path] = config[path])}

(* The field a refusal names is wrong itself, or in it or around it is     *)
(* what is; or another number of the same strategy or of the period, or    *)
(* the id of another strategy.                                             *)
Concerns(field, path) ==
    \/ IsPrefix(field, path) \/ IsPrefix(path, field)
    \/ Len(path) = 3 /\ Len(field) = 3 /\ Front(path) = Front(field)
    \/ Len(path) = 3 /\ Len(field) = 3 /\ path[3] = "strategy_id" /\ field[3] = "strategy_id"
    \/ field = <<"period">> /\ path \in {<<"period_start">>, <<"period_end">>}

(* A start that is refused for its settings names a field at fault, as the *)
(* console's form shows it, also when the fault is in a later strategy or  *)
(* only shows in two members together.                                     *)
RefusalNamesFault ==
    \A r \in Runs :
        refusal[r] \notin {None, <<"stopping">>, <<"bars">>, <<"queue">>} =>
            \E path \in ChangedFrom(ValidConfig, ConfigSent(startCommand[r])) :
                Concerns(refusal[r], path)

(* A run whose end has been reported never changes again; in particular a  *)
(* queued run that was stopped does not start.                             *)
EndIsFinal ==
    [][\A r \in Runs : runState[r] \in Finished => runState'[r] = runState[r]]_vars

(* Every accepted run ends, also when the service is shut down first.      *)
EveryRunEnds ==
    \A r \in Runs : runState[r] = "queued" ~> runState[r] \in Finished

(* stop() returns.                                                         *)
ShutdownEnds == stopping ~> shutDown

(* What was asked of the engine, what it keeps, and what it reports are    *)
(* the same, on the way in and on the way out, but for nanoseconds.        *)
AskedIsReported == TypeOK /\ AcceptedAsAsked /\ SentIsReadBack

(* Nobody waits for ever: every accepted run ends, and so does stop().     *)
RunsAndShutdownEnd == EveryRunEnds /\ ShutdownEnds
=============================================================================
