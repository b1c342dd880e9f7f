---------------------------- MODULE MCStrategies ----------------------------
(* Instances of Strategies for TLC.                                        *)
EXTENDS Strategies, TLC

Common == [id |-> "id", quantity |-> 1, symbols |-> <<"listed">>]

(* Six pairs of windows and three that are refused, two look-backs and one *)
(* logistic strategy of two horizons.                                      *)
MCConfigs ==
    {Common @@ [kind |-> "crossover", short |-> s, long |-> l] : s \in 1 .. 3, l \in {2, 3, 4}}
    \cup {Common @@ [kind |-> "reversion", long |-> l, entry |-> e, rearm |-> 6]
             : l \in {2, 3}, e \in {6, 9, 13}}
    \cup {Common @@ [kind |-> "logistic", horizon |-> h, deadBand |-> 40, entry |-> 60, rearm |-> 5,
                     minTraining |-> 1] : h \in {1, 2}}
=============================================================================
