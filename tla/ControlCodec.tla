---------------------------- MODULE ControlCodec ----------------------------
(***************************************************************************)
(* The wire format of the command channel (control/control_codec.cpp):     *)
(* commands, run reports and announcements, and the settings inside them.  *)
(*                                                                         *)
(* A JSON object is a function from the paths of all its members, at every *)
(* depth, to values; a value is the tuple of its kind and what it says:    *)
(*   Text, Amount, Time   strings: any, an exact decimal, an RFC 3339 time *)
(*   Whole, Fraction      numbers n and n + 1/2, which for a latency count *)
(*                        nanoseconds: its double is on them or between    *)
(*   Huge                 a whole number of more than 64 bits              *)
(*   Infinite             a number with an exponent no double has          *)
(*   Texts                an array of strings, and what they are           *)
(*   Array, Object        the number of elements; nothing                  *)
(*   Bool, Null                                                            *)
(***************************************************************************)
EXTENDS RunSettings

CONSTANTS
    Shortened,       \* the durations whose milliseconds, as a double, are short of them
    OutOfRange       \* what the build makes of a double that no duration holds

ASSUME CodecAssumption == Shortened \subseteq Int \ {0} /\ OutOfRange \in Int \ Shortened

(* The halves that stand for a number beyond an integer.                   *)
HugeNumber == 100000000

Object == <<"Object", 0>>

Strings == {"Text", "Amount", "Time"}
WholeNumbers == {"Whole", "Huge"}
Numbers == {"Whole", "Fraction", "Huge", "Infinite"}

CommandActions == {"start_backtest", "stop", "set_kill_switch"}
RunStates == {"queued", "running", "completed", "failed", "stopped"}
Types == {"command", "run", "engine"}

Texts(texts) == {Text(text) : text \in texts}

-----------------------------------------------------------------------------
(* Reader.                                                                 *)

(* The values that a member read as this takes.                            *)
Reads(as, value) ==
    CASE as = "text" -> value[1] \in Strings
      [] as = "mode" -> value \in Texts({"backtest", "live"})
      [] as = "kind" -> value \in {SmaCrossover, MeanReversion}
      [] as = "action" -> value \in Texts(CommandActions)
      [] as = "status" -> value \in Texts(RunStates)
      [] as = "type" -> value \in Texts(Types)
      [] as = "boolean" -> value[1] = "Bool"
      [] as = "long only" -> value = <<"Bool", FALSE>>
      [] as = "whole" -> value[1] \in WholeNumbers
      [] as \in {"unsigned", "window"} -> value[1] \in WholeNumbers /\ value[2] >= 0
      [] as = "schema" -> value = <<"Whole", 1>>
      [] as \in {"number", "latency"} -> value[1] \in Numbers
      [] as = "amount" -> value[1] = "Amount"
      [] as = "time" -> value[1] = "Time"
      [] as = "texts" -> value[1] = "Texts"
      [] as = "array" -> value[1] = "Array"
      [] as = "object" -> value = Object

(* A fault: the digits that fit are taken.                                 *)
TakenWrapped(as, value) ==
    IF value[1] = "Huge" THEN 1
    ELSE IF as = "number" THEN 2 * value[2] + (IF value[1] = "Fraction" THEN 1 ELSE 0)
    ELSE IF as \in {"text", "mode", "kind"} THEN value ELSE value[2]

(* n + 1/2 without its fraction: towards zero.                             *)
Truncated(n) == IF n < 0 THEN n + 1 ELSE n

(* from_chars() leaves a number out of range at zero, and the readers look *)
(* only at where it stopped.  from_millis() truncates to a duration, which *)
(* a number that is too large for one leaves undefined.                    *)
Taken(as, value) ==
    CASE as \in {"text", "mode", "kind"} -> value
      [] as \in {"whole", "unsigned", "window"} -> IF value[1] = "Huge" THEN 0 ELSE value[2]
      [] as = "number" ->
            (CASE value[1] = "Whole" -> 2 * value[2]
               [] value[1] = "Fraction" -> 2 * value[2] + 1
               [] value[1] = "Huge" -> HugeNumber
               [] value[1] = "Infinite" -> 0)
      [] as = "latency" ->
            (CASE value[1] = "Whole" -> value[2]
               [] value[1] = "Fraction" -> Truncated(value[2])
               [] value[1] = "Huge" -> OutOfRange
               [] value[1] = "Infinite" -> 0)
      [] OTHER -> value[2]

(* A member that is read: where, as what, and whether it must be there.    *)
Needed(path, as) == [path |-> path, as |-> as, needed |-> TRUE]
Optional(path, as) == [path |-> path, as |-> as, needed |-> FALSE]

(* A member is looked for only in an object that is there.                 *)
Unread(m, object) ==
    IF m.path \in DOMAIN object THEN ~Reads(m.as, object[m.path])
    ELSE m.needed /\ (Len(m.path) = 1 \/ Front(m.path) \in DOMAIN object)

(* The path of the first member that cannot be read, or None.              *)
FirstUnread(members, object) ==
    LET unread == {k \in DOMAIN members : Unread(members[k], object)}
    IN  IF unread = {} THEN None ELSE members[Min(unread)].path

(* The members of an object at a path, and an object as those at a path.   *)
Inside(object, name) ==
    LET inner == {path \in DOMAIN object : Len(path) > 1 /\ path[1] = name}
    IN  [path \in {Tail(p) : p \in inner} |-> object[<<name>> \o path]]

Under(name, object) ==
    [path \in {<<name>> \o p : p \in DOMAIN object} |-> object[Tail(path)]]

-----------------------------------------------------------------------------
(* strategy_from(), settings_from().                                       *)

ReadAs ==
    [name |-> "text", mode |-> "mode", period_start |-> "time", period_end |-> "time",
     strategies |-> "array", kind |-> "kind", strategy_id |-> "text", symbols |-> "texts",
     requested_quantity |-> "whole", short_window |-> "window", long_window |-> "window",
     lookback |-> "window", entry_threshold |-> "number", rearm_threshold |-> "number",
     risk |-> "object", max_order_quantity |-> "whole", max_position_notional |-> "amount",
     max_gross_exposure |-> "amount", max_daily_loss |-> "amount", max_open_orders |-> "unsigned",
     allow_short |-> "long only", policies |-> "boolean",
     simulation |-> "object", starting_cash |-> "amount", slippage_bps |-> "number",
     fees |-> "object", per_share |-> "amount", per_trade |-> "amount", bps |-> "number",
     latency_ms |-> "object", signal_to_order |-> "latency", order_to_fill |-> "latency",
     participation_cap |-> "number"]

MustHave(path) == Needed(path, ReadAs[Last(path)])
MayHave(path) == Optional(path, ReadAs[Last(path)])

StrategyMembers(config, i) ==
    LET crossover == At(i, "kind") \in DOMAIN config /\ config[At(i, "kind")] = SmaCrossover
    IN  <<Needed(<<"strategies", Index(i)>>, "object"), MustHave(At(i, "kind")),
          MustHave(At(i, "strategy_id")), MustHave(At(i, "symbols")),
          MustHave(At(i, "requested_quantity"))>>
        \o IF crossover
           THEN <<MayHave(At(i, "short_window")), MayHave(At(i, "long_window"))>>
           ELSE <<MayHave(At(i, "lookback")), MayHave(At(i, "entry_threshold")),
                  MayHave(At(i, "rearm_threshold"))>>

CountOf(config) ==
    IF <<"strategies">> \in DOMAIN config /\ config[<<"strategies">>][1] = "Array"
    THEN config[<<"strategies">>][2] ELSE 0

LimitMembers ==
    LET Risk(member) == <<"risk", member>>
        Simulation(member) == <<"simulation", member>>
        Fees(member) == <<"simulation", "fees", member>>
        Latency(member) == <<"simulation", "latency_ms", member>>
    IN  <<MayHave(<<"risk">>), MustHave(Risk("max_order_quantity")),
          MustHave(Risk("max_position_notional")), MustHave(Risk("max_gross_exposure")),
          MustHave(Risk("max_daily_loss")), MustHave(Risk("max_open_orders")),
          MayHave(Risk("allow_short")), MayHave(Risk("policies")),
          MayHave(<<"simulation">>), MustHave(Simulation("starting_cash")),
          MustHave(Simulation("slippage_bps")), MayHave(Simulation("fees")),
          MustHave(Fees("per_share")), MustHave(Fees("per_trade")), MustHave(Fees("bps")),
          MayHave(Simulation("latency_ms")), MustHave(Latency("signal_to_order")),
          MustHave(Latency("order_to_fill")), MayHave(Simulation("participation_cap"))>>

SettingsMembers(config) ==
    <<MayHave(<<"name">>), MayHave(<<"mode">>), MayHave(<<"period_start">>),
      MayHave(<<"period_end">>), MustHave(<<"strategies">>)>>
    \o FlattenSeq([i \in 1..CountOf(config) |-> StrategyMembers(config, i)])
    \o LimitMembers

SettingsProblem(config) == FirstUnread(SettingsMembers(config), config)

(* The settings of a config without a problem.                             *)
SettingsFrom(config) ==
    LET read == {m.path : m \in
                    {n \in ToSet(SettingsMembers(config)) : n.as \notin {"object", "long only"}}}
    IN  [path \in read |->
            IF path \in DOMAIN config THEN Taken(ReadAs[Last(path)], config[path])
            ELSE Defaults[Last(path)]]

NoSettings == SettingsFrom([path \in {<<"strategies">>} |-> <<"Array", 0>>])

-----------------------------------------------------------------------------
(* settings_json(), strategy_json().                                       *)

WrittenAs ==
    [name |-> "text", mode |-> "text", period_start |-> "Time", period_end |-> "Time",
     strategies |-> "Array", kind |-> "text", strategy_id |-> "text", symbols |-> "Texts",
     requested_quantity |-> "Whole", short_window |-> "Whole", long_window |-> "Whole",
     lookback |-> "Whole", entry_threshold |-> "number", rearm_threshold |-> "number",
     max_order_quantity |-> "Whole", max_position_notional |-> "Amount",
     max_gross_exposure |-> "Amount", max_daily_loss |-> "Amount", max_open_orders |-> "Whole",
     policies |-> "Bool", starting_cash |-> "Amount", slippage_bps |-> "number",
     per_share |-> "Amount", per_trade |-> "Amount", bps |-> "number",
     signal_to_order |-> "latency", order_to_fill |-> "latency", participation_cap |-> "number"]

Number(halves) ==
    IF halves = HugeNumber THEN <<"Huge", 0>>
    ELSE <<IF halves % 2 = 0 THEN "Whole" ELSE "Fraction", halves \div 2>>

(* millis(): the nearest double, which from_millis() may truncate again.   *)
Millis(duration) ==
    IF duration \notin Shortened THEN <<"Whole", duration>>
    ELSE <<"Fraction", IF duration < 0 THEN duration ELSE duration - 1>>

Literal(name, value) ==
    CASE WrittenAs[name] = "text" -> value
      [] WrittenAs[name] = "number" -> Number(value)
      [] WrittenAs[name] = "latency" -> Millis(value)
      [] OTHER -> <<WrittenAs[name], value>>

StrategyWritten(s, i) ==
    {"kind", "strategy_id", "symbols", "requested_quantity"}
    \cup (IF s[At(i, "kind")] = SmaCrossover THEN {"short_window", "long_window"}
          ELSE {"lookback", "entry_threshold", "rearm_threshold"})

WriteSettings(s) ==
    LET top == {<<"name">>, <<"mode">>, <<"strategies">>}
               \cup {p \in {<<"period_start">>, <<"period_end">>} : s[p] # None}
        strategies == UNION {{At(i, m) : m \in StrategyWritten(s, i)} : i \in Strategies(s)}
        risk == {<<"risk", m>> : m \in
                    {"max_order_quantity", "max_position_notional", "max_gross_exposure",
                     "max_daily_loss", "max_open_orders", "policies"}}
        simulation == {<<"simulation", m>> : m \in
                          {"starting_cash", "slippage_bps", "participation_cap"}}
        fees == {<<"simulation", "fees", m>> : m \in {"per_share", "per_trade", "bps"}}
        latency == {<<"simulation", "latency_ms", m>> : m \in
                       {"signal_to_order", "order_to_fill"}}
        values == top \cup strategies \cup risk \cup simulation \cup fees \cup latency
        objects == {Front(p) : p \in strategies \cup risk \cup simulation \cup fees \cup latency}
        short == <<"risk", "allow_short">>
    IN  [path \in values \cup objects \cup {short} |->
            IF path = short THEN <<"Bool", FALSE>>
            ELSE IF path \in objects THEN Object
            ELSE Literal(Last(path), s[path])]

-----------------------------------------------------------------------------
(* The envelope and the payloads.  A message is the two.                   *)

EnvelopeMembers ==
    <<Needed(<<"schema">>, "schema"), Needed(<<"origin">>, "text"),
      Needed(<<"sequence">>, "unsigned"), Needed(<<"enqueued_at">>, "time"),
      Needed(<<"type">>, "type"), Needed(<<"payload">>, "object")>>

ActionIs(payload, action) ==
    <<"action">> \in DOMAIN payload /\ payload[<<"action">>] = Text(action)

(* The settings of a start are read apart, for their own error.            *)
CommandMembers(payload) ==
    <<Needed(<<"command_id">>, "text"), Needed(<<"run_id">>, "text"),
      Needed(<<"issued_at">>, "time"), Needed(<<"action">>, "action")>>
    \o (IF ActionIs(payload, "start_backtest") THEN <<Needed(<<"settings">>, "object")>>
        ELSE IF ActionIs(payload, "set_kill_switch")
        THEN <<Needed(<<"engaged">>, "boolean"), Optional(<<"reason">>, "text")>>
        ELSE <<>>)

InConfig(member) == [member EXCEPT !.path = <<"config">> \o @]

ReportMembers(payload) ==
    LET config == SettingsMembers(Inside(payload, "config"))
    IN  <<Needed(<<"run_id">>, "text"), Optional(<<"engine_id">>, "text"),
          Needed(<<"status">>, "status"), Needed(<<"updated_at">>, "time"),
          Needed(<<"config">>, "object")>>
        \o [k \in 1..Len(config) |-> InConfig(config[k])]
        \o <<Needed(<<"kill_switch">>, "object"), Needed(<<"kill_switch", "engaged">>, "boolean"),
             Optional(<<"kill_switch", "changed_at">>, "time"),
             Optional(<<"kill_switch", "reason">>, "text"),
             Optional(<<"progress">>, "number"), Optional(<<"clock">>, "time"),
             Optional(<<"error">>, "text"), Optional(<<"command_id">>, "text")>>

AnnouncementMembers ==
    <<Needed(<<"engine_id">>, "text"), Needed(<<"version">>, "text"),
      Needed(<<"started_at">>, "time"), Needed(<<"sent_at">>, "time"),
      Needed(<<"heartbeat_ms">>, "unsigned"), Needed(<<"market_data">>, "object"),
      Needed(<<"market_data", "symbols">>, "texts"),
      Needed(<<"market_data", "first_session">>, "text"),
      Needed(<<"market_data", "last_session">>, "text"), Needed(<<"runs">>, "texts")>>

PayloadMembers(type, payload) ==
    CASE type = Text("command") -> CommandMembers(payload)
      [] type = Text("run") -> ReportMembers(payload)
      [] type = Text("engine") -> AnnouncementMembers

(* decode_control() does not throw a DecodeError.                          *)
Decodes(message) ==
    /\ FirstUnread(EnvelopeMembers, message.envelope) = None
    /\ FirstUnread(PayloadMembers(message.envelope[<<"type">>], message.payload),
                   message.payload) = None

(* command_from(): settings that cannot be read leave the field.           *)
CommandFrom(payload) ==
    LET action == payload[<<"action">>][2]
        config == Inside(payload, "settings")
        unread == IF action = "start_backtest" THEN SettingsProblem(config) ELSE None
    IN  [id |-> payload[<<"command_id">>][2], run |-> payload[<<"run_id">>][2], action |-> action,
         settings |-> IF action = "start_backtest" /\ unread = None
                      THEN SettingsFrom(config) ELSE None,
         field |-> unread,
         engaged |-> action = "set_kill_switch" /\ payload[<<"engaged">>][2]]

(* report_from() and announcement_from(), as far as the engine's state is  *)
(* in them.                                                                *)
ReportFrom(payload) ==
    [run |-> payload[<<"run_id">>][2], status |-> payload[<<"status">>][2],
     settings |-> SettingsFrom(Inside(payload, "config")),
     engaged |-> payload[<<"kill_switch", "engaged">>][2],
     command |-> IF <<"command_id">> \in DOMAIN payload THEN payload[<<"command_id">>][2] ELSE None,
     error |-> <<"error">> \in DOMAIN payload]

AnnouncementFrom(payload) == payload[<<"runs">>][2]

-----------------------------------------------------------------------------
(* encode(), payload_json().                                               *)

(* The object of members that have none themselves, and the one of the     *)
(* members of two.                                                         *)
Flat(members) == [path \in {<<name>> : name \in DOMAIN members} |-> members[path[1]]]

Both(object, other) ==
    [path \in DOMAIN object \cup DOMAIN other |->
        IF path \in DOMAIN object THEN object[path] ELSE other[path]]

Encode(type, payload) ==
    [envelope |-> Flat([schema |-> <<"Whole", 1>>, origin |-> Text("engine"),
                        sequence |-> <<"Whole", 1>>, enqueued_at |-> <<"Time", 0>>,
                        type |-> Text(type), payload |-> Object]),
     payload |-> payload]

(* A report, with the command it answers and an error, if any.             *)
ReportJson(report) ==
    LET absent == (IF report.command = None THEN {"command_id"} ELSE {})
                  \cup (IF report.error THEN {} ELSE {"error"})
        members == [run_id |-> Text(report.run), engine_id |-> Text("engine"),
                    status |-> Text(report.status), updated_at |-> <<"Time", 0>>,
                    config |-> Object, kill_switch |-> Object,
                    command_id |-> Text(report.command), error |-> Text("the error")]
    IN  Both(Flat([name \in DOMAIN members \ absent |-> members[name]]),
             Both(Under("config", WriteSettings(report.settings)),
                  Under("kill_switch", Flat([engaged |-> <<"Bool", report.engaged>>]))))

AnnouncementJson(symbols, runs) ==
    Both(Flat([engine_id |-> Text("engine"), version |-> Text("1"),
               started_at |-> <<"Time", 0>>, sent_at |-> <<"Time", 0>>,
               heartbeat_ms |-> <<"Whole", 2000>>, market_data |-> Object,
               runs |-> <<"Texts", runs>>]),
         Under("market_data", Flat([symbols |-> <<"Texts", symbols>>,
                                    first_session |-> Text("first"),
                                    last_session |-> Text("last")])))
=============================================================================
