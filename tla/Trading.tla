------------------------------ MODULE Trading ------------------------------
(***************************************************************************)
(* What the order path's components share: the parameters of one run and   *)
(* the shape of what they exchange (domain/*.hpp, execution::fee_for).     *)
(*                                                                         *)
(* Money and prices are integers of one small unit.  A quantity is a       *)
(* number of shares.  Basis points are percent here, so that small numbers *)
(* show their effect.                                                      *)
(***************************************************************************)
EXTENDS Integers, FiniteSets, FiniteSetsExt, SequencesExt

CONSTANTS
    Symbols,
    None,            \* an empty std::optional
    PerShareFee,
    PerTradeFee,
    FeePercent,
    SlipPercent      \* config.slippage_bps

ASSUME FeesAssumption ==
    /\ IsFiniteSet(Symbols) /\ None \notin Int
    /\ PerShareFee \in Nat /\ PerTradeFee \in Nat
    /\ FeePercent \in Nat /\ SlipPercent \in Nat

Sides == {"Buy", "Sell"}

(* Decimal::scaled_by: llround of the product (of a non-negative amount).  *)
ScaledBy(amount, percent) == (amount * percent + 50) \div 100

Abs(n) == IF n < 0 THEN -n ELSE n

Sign(n) == IF n < 0 THEN -1 ELSE 1

(* Decimal's operator/, which rounds half away from zero.                  *)
DividedBy(amount, n) ==
    Sign(amount) * Sign(n) * ((2 * Abs(amount) + Abs(n)) \div (2 * Abs(n)))

FeesOn(shares, notional) ==
    PerTradeFee + PerShareFee * shares + ScaledBy(notional, FeePercent)

(* A signal's side as an order's: only Sell sells, a Flat one counts as Buy. *)
OrderSide(signal) == IF signal.side = "Sell" THEN "Sell" ELSE "Buy"

-----------------------------------------------------------------------------
(* The events on the bus.  decided is the time of the bar a strategy saw    *)
(* when it emitted the signal, and left what the order still had to        *)
(* execute when it got the fill; no code reads them.                       *)

MarketEvents ==
    [type : {"MarketData"}, symbol : Symbols, time : Nat, open : Nat, price : Nat]

Signals ==
    [type : {"Signal"}, id : Nat, symbol : Symbols, side : Sides \cup {"Flat"},
     order : {"Market", "Limit"}, limit : Nat \cup {None}, quantity : Nat,
     decided : Nat]

Orders ==
    [type : {"Order"}, id : Nat, signal : Nat, symbol : Symbols, side : Sides,
     limit : Nat \cup {None}, quantity : Nat, filled : Nat, created : Nat,
     status : {"Working", "PartiallyFilled", "Filled", "Rejected"}, decided : Nat]

Fills ==
    [type : {"Fill"}, id : Nat, order : Nat, symbol : Symbols, quantity : Int,
     price : Nat, fees : Nat, time : Nat, sequence : Nat, left : Nat,
     status : {"PartiallyFilled", "Filled"}, decided : Nat]

Events == MarketEvents \cup Signals \cup Orders \cup Fills
=============================================================================
