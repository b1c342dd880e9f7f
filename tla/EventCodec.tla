----------------------------- MODULE EventCodec -----------------------------
(***************************************************************************)
(* The wire format of events (events/event_codec.cpp): what encode() puts  *)
(* into a message and what decode() accepts.                               *)
(*                                                                         *)
(* A JSON value is its kind and what it stands for; an object is a         *)
(* function from member names to JSON values.  Values says, for each kind  *)
(* of member, which values its reader accepts: a decimal, a time or an     *)
(* enumerator is a string of a certain spelling, an id is a number of a    *)
(* certain range.  A text that json::parse() refuses is the object without *)
(* members, which is refused as well.                                      *)
(***************************************************************************)
EXTENDS Naturals, FiniteSets, Functions

CONSTANT Values      \* kind of member to the values its reader accepts

ASSUME CodecAssumption == \A kind \in {"text", "decimal", "time"} : kind \in DOMAIN Values

Schema == 1

(* The members of the payloads, by the kind each is read as.               *)
MarketEvent ==
    [required |-> [symbol |-> "text", exchange_time |-> "time", ingest_time |-> "time",
                   type |-> "market event type", sequence |-> "unsigned"],
     optional |-> [price |-> "decimal", bid |-> "decimal", ask |-> "decimal",
                   open |-> "decimal", high |-> "decimal", low |-> "decimal",
                   size |-> "integer", volume |-> "integer"]]

TradeSignal ==
    [required |-> [id |-> "unsigned", strategy_id |-> "text", symbol |-> "text",
                   side |-> "signal side", created_at |-> "time"],
     optional |-> [requested_quantity |-> "integer", target_exposure |-> "finite",
                   confidence |-> "finite", metadata |-> "texts",
                   order_type |-> "order type", limit_price |-> "decimal"]]

Order ==
    [required |-> [id |-> "unsigned", run_id |-> "unsigned", origin_signal |-> "unsigned",
                   strategy_id |-> "text", symbol |-> "text", side |-> "order side",
                   type |-> "order type", quantity |-> "integer", status |-> "order status",
                   created_at |-> "time", updated_at |-> "time",
                   filled_quantity |-> "integer"],
     optional |-> [limit_price |-> "decimal", average_fill_price |-> "decimal",
                   reject_reason |-> "text"]]

Fill ==
    [required |-> [id |-> "unsigned", order_id |-> "unsigned", run_id |-> "unsigned",
                   symbol |-> "text", filled_quantity |-> "integer",
                   fill_price |-> "decimal", fees |-> "decimal", slippage |-> "decimal",
                   filled_at |-> "time", status |-> "fill status", sequence |-> "unsigned"],
     optional |-> <<>>]

RiskDecision ==
    [required |-> [id |-> "unsigned", run_id |-> "unsigned", signal_id |-> "unsigned",
                   decided_at |-> "time", symbol |-> "text", side |-> "signal side",
                   strategy_id |-> "text", outcome |-> "risk outcome",
                   requested_quantity |-> "integer", approved_quantity |-> "integer",
                   checks |-> "checks"],
     optional |-> [reason |-> "text", order_id |-> "unsigned"]]

Payloads ==
    [market_data |-> MarketEvent, signal |-> TradeSignal, order |-> Order,
     fill |-> Fill, risk_decision |-> RiskDecision]

EventTypes == DOMAIN Payloads

(* What a message says around its payload.                                 *)
Envelope ==
    [schema |-> "integer", origin |-> "text", sequence |-> "unsigned",
     type |-> "event type", enqueued_at |-> "time", payload |-> "payload"]

(* The JSON kind a member is written as.                                   *)
Written(kind) ==
    IF kind \in {"integer", "unsigned", "finite"} THEN "Number"
    ELSE IF kind \in {"texts", "payload"} THEN "Object"
    ELSE IF kind = "checks" THEN "Array" ELSE "String"

Json(kind, value) == [json |-> Written(kind), is |-> value]

Readable(kind, value) ==
    /\ value.json = Written(kind)
    /\ kind \in DOMAIN Values => value.is \in Values[kind]

-----------------------------------------------------------------------------
(* payload_json(): every required member, and the optional ones there are. *)
KindOf(members, name) ==
    IF name \in DOMAIN members.required THEN members.required[name] ELSE members.optional[name]

(* A fault: optional members are left out.                                 *)
WriteRequired(type, payload) ==
    [name \in DOMAIN payload \cap DOMAIN Payloads[type].required |->
        Json(KindOf(Payloads[type], name), payload[name])]

WritePayload(type, payload) ==
    [name \in DOMAIN payload |-> Json(KindOf(Payloads[type], name), payload[name])]

(* encode() throws for a payload of another type, and for a number that is *)
(* not finite.                                                             *)
Encodable(event) ==
    LET members == Payloads[event.type]
    IN  /\ DOMAIN members.required \subseteq DOMAIN event.payload
        /\ DOMAIN event.payload \subseteq DOMAIN members.required \cup DOMAIN members.optional
        /\ \A name \in DOMAIN event.payload :
              KindOf(members, name) = "finite" => event.payload[name] \in Values["finite"]

Encode(origin, event) ==
    [schema |-> Json("integer", Schema), origin |-> Json("text", origin),
     sequence |-> Json("unsigned", event.sequence), type |-> Json("event type", event.type),
     enqueued_at |-> Json("time", event.time),
     payload |-> Json("payload", WritePayload(event.type, event.payload))]

-----------------------------------------------------------------------------
(* require(), opt_*(): a required member must be there, and a member that  *)
(* is there must have its kind; null is no kind.  Others are ignored.      *)
ReadsPayload(type, object) ==
    LET members == Payloads[type]
    IN  /\ DOMAIN members.required \subseteq DOMAIN object
        /\ \A name \in DOMAIN object \cap (DOMAIN members.required \cup DOMAIN members.optional) :
              Readable(KindOf(members, name), object[name])

ReadPayload(type, object) ==
    LET members == Payloads[type]
    IN  [name \in DOMAIN object \cap (DOMAIN members.required \cup DOMAIN members.optional) |->
            object[name].is]

Decodes(text) ==
    /\ DOMAIN Envelope \subseteq DOMAIN text
    /\ \A name \in DOMAIN Envelope : Readable(Envelope[name], text[name])
    /\ text.schema.is = Schema
    /\ text.type.is \in EventTypes
    /\ ReadsPayload(text.type.is, text.payload.is)

(* decode(), of a text that Decodes.                                       *)
Decode(text) ==
    [sequence |-> text.sequence.is, type |-> text.type.is, time |-> text.enqueued_at.is,
     payload |-> ReadPayload(text.type.is, text.payload.is)]

(* partition_key()                                                         *)
PartitionKey(event) == event.payload.symbol
=============================================================================
