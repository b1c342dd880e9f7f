---------------------------- MODULE RiskManager ----------------------------
(***************************************************************************)
(* RiskManager with its starter policies (risk/*.cpp).  It reads the       *)
(* portfolio's snapshot, and asks its reservation ledger for the hold that *)
(* makes an approval final.                                                *)
(*                                                                         *)
(* check() reads the kill switch once, under mutex_, and the rest of it    *)
(* runs on the thread that also makes every change of the portfolio: a     *)
(* switch set during a check counts as set after it, so the check is one   *)
(* step.  Decision reports and counters are left out.                      *)
(***************************************************************************)
EXTENDS Portfolio

CONSTANTS
    RiskPolicies,          \* the run has the starter policies
    MaxOrderQuantity, MaxPositionNotional, MaxGrossExposure, MaxOpenOrders,
    MaxDailyLoss,          \* config::RiskLimits
    SessionLength          \* bar times in a session (a UTC day)

ASSUME RiskAssumption ==
    /\ RiskPolicies \in BOOLEAN
    /\ MaxOrderQuantity \in Nat /\ MaxPositionNotional \in Nat
    /\ MaxGrossExposure \in Nat /\ MaxOpenOrders \in Nat /\ MaxDailyLoss \in Nat
    /\ SessionLength \in Nat \ {0}

VARIABLES
    referencePrices,       \* prices_
    killSwitch,            \* kill_switch_.engaged
    sessionDay,            \* session_day_, -1 before the first event
    sessionStart           \* session_start_equity_

riskVars == <<referencePrices, killSwitch, sessionDay, sessionStart>>

RiskTypeOK ==
    /\ DOMAIN referencePrices \subseteq Symbols
    /\ \A s \in DOMAIN referencePrices : referencePrices[s] \in Nat
    /\ killSwitch \in BOOLEAN
    /\ sessionDay \in Int
    /\ sessionStart \in Int \cup {None}

RiskInit ==
    /\ referencePrices = <<>>
    /\ killSwitch = FALSE
    /\ sessionDay = -1
    /\ sessionStart = None

-----------------------------------------------------------------------------
(* on_market_event(): the new reference price, and on the first event of a *)
(* session the equity it starts with.                                      *)
Observe(market) ==
    LET day == market.time \div SessionLength
    IN  /\ referencePrices' = Put(referencePrices, market.symbol, market.price)
        /\ sessionDay' = day
        /\ sessionStart' = IF day # sessionDay THEN TotalEquity ELSE sessionStart
        /\ UNCHANGED killSwitch

SetKillSwitch(engaged) ==
    /\ killSwitch' = engaged
    /\ UNCHANGED <<referencePrices, sessionDay, sessionStart>>

-----------------------------------------------------------------------------
(* The policies.  The first may make the order smaller, and the others see *)
(* the smaller one.                                                        *)

Resized(signal) ==
    IF RiskPolicies /\ signal.quantity > MaxOrderQuantity
    THEN [signal EXCEPT !.quantity = MaxOrderQuantity]
    ELSE signal

WithinOrderQuantity(signal) == signal.quantity <= MaxOrderQuantity \/ MaxOrderQuantity > 0

WithinPositionNotional(signal) ==
    signal.side = "Buy" =>
        /\ signal.symbol \in DOMAIN referencePrices
        /\ referencePrices[signal.symbol] * (position[signal.symbol] + signal.quantity)
              <= MaxPositionNotional

WithinGrossExposure(signal) ==
    signal.side = "Buy" =>
        /\ signal.symbol \in DOMAIN referencePrices
        /\ GrossExposure + referencePrices[signal.symbol] * signal.quantity
              <= MaxGrossExposure

WithinOpenOrders == Cardinality(DOMAIN openOrders) < MaxOpenOrders

SessionLoss == IF sessionStart = None THEN 0 ELSE sessionStart - TotalEquity

WithinDailyLoss(signal) == signal.side = "Buy" => SessionLoss < MaxDailyLoss

PoliciesAllow(signal) ==
    /\ WithinOrderQuantity(signal)
    /\ LET resized == Resized(signal)
       IN  /\ WithinPositionNotional(resized)
           /\ WithinGrossExposure(resized)
           /\ WithinOpenOrders
           /\ WithinDailyLoss(resized)

(* check(): the kill switch, the policies, and last the hold.              *)
Approves(signal) ==
    /\ ~killSwitch
    /\ RiskPolicies => PoliciesAllow(signal)
    /\ HoldGranted(Resized(signal))
=============================================================================
