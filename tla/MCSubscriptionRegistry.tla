----------------------- MODULE MCSubscriptionRegistry -----------------------
(* Two threads racing the dispatcher over four subscriptions of two types. *)
EXTENDS SubscriptionRegistry, TLC

CONSTANTS t1, t2

MCCallers    == {t1, t2}
MCEventTypes == {"MarketData", "Signal"}
MCMaxId      == 4

ThreadSymmetry == Permutations(MCCallers)
=============================================================================
