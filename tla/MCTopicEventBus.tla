-------------------------- MODULE MCTopicEventBus --------------------------
(* Instances of TopicEventBus for TLC.                                     *)
EXTENDS TopicEventBus

MCValues ==
    [text |-> {"a", "b", "sma", "us", "them", "1.50", "t1"}, decimal |-> {"1.50"}, time |-> {"t1"},
     unsigned |-> Nat, integer |-> Nat, finite |-> {}]
       @@ ("signal side" :> {"Buy", "Sell", "Flat"}) @@ ("order type" :> {"Market", "Limit"})
       @@ ("market event type" :> {"Bar"}) @@ ("event type" :> EventTypes)

Bar(symbol) ==
    [type |-> "market_data", time |-> "t1", sequence |-> 0,
     payload |-> [symbol |-> symbol, exchange_time |-> "t1", ingest_time |-> "t1",
                  type |-> "Bar", sequence |-> 1, price |-> "1.50"]]

Signal ==
    [type |-> "signal", time |-> "t1", sequence |-> 0,
     payload |-> [id |-> 1, strategy_id |-> "sma", symbol |-> "a", side |-> "Buy",
                  created_at |-> "t1", limit_price |-> "1.50"]]

(* Cannot be encoded: its confidence is not finite.                        *)
NotFinite == [Signal EXCEPT !.payload = @ @@ [confidence |-> "nan"]]

MCEvents == {Bar("a"), NotFinite}

Of(event, text) == [topic |-> event.type, key |-> PartitionKey(event), text |-> text]
Theirs == Encode("them", Signal)

(* Another process's signal with a member of a newer producer, one with a  *)
(* null price and without a symbol, and one of another schema.             *)
MCForeign ==
    {Of(Signal, [Theirs EXCEPT !.payload.is = @ @@ [urgent |-> Json("text", "a")]]),
     Of(Signal, [Theirs EXCEPT !.payload.is =
                    [id |-> Json("unsigned", 1), limit_price |-> [json |-> "Null", is |-> "null"]]]),
     Of(Signal, [Theirs EXCEPT !.schema.is = 2])}
=============================================================================
