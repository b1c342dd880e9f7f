-------------------------- MODULE MarketDataService --------------------------
(***************************************************************************)
(* From a file of bars to the market events on the bus: read_bar_csv()     *)
(* (apps/bar_csv.cpp) and MarketDataService                                *)
(* (market_data/market_data_service.cpp).                                  *)
(*                                                                         *)
(* A row is a function from the columns it has a cell for to what the cell *)
(* says.  Of a cell's text its meaning is kept: a price is a number, a     *)
(* time a time, and Unreadable is a text that is none.                     *)
(***************************************************************************)
EXTENDS Integers, Sequences

CONSTANTS
    Files,           \* what read_bar_csv() may be given: columns and rows
    Unreadable,
    RejectNonPositive   \* policy_.reject_non_positive_prices

ASSUME FilesAssumption ==
    \A f \in Files :
        Len(f.rows) \in Nat /\ f.rows = [i \in 1..Len(f.rows) |-> f.rows[i]]

VARIABLES
    file,            \* the bars still to come
    counters,        \* symbol_sequence_counters_, 0 for a symbol not in it
    queue,           \* the bus: events published and not yet delivered
    offered          \* what was given to the bus, in order, and whether it took
                     \* it, which the code does not keep

feedVars == <<file, counters, queue, offered>>

PriceColumns == {"price", "open", "high", "low"}

-----------------------------------------------------------------------------
(* read_bar_csv(): one unreadable row and the whole file is refused.       *)

HeaderOk(columns) == {"symbol", "exchange_time", "price"} \subseteq columns

RowOk(row) ==
    /\ "exchange_time" \in DOMAIN row
    /\ \A c \in DOMAIN row : row[c] # Unreadable

BarOf(row) ==
    [symbol |-> IF "symbol" \in DOMAIN row THEN row["symbol"] ELSE "",
     prices |-> [c \in DOMAIN row \cap PriceColumns |-> row[c]]]

ReadBarCsv(f) ==
    IF HeaderOk(f.columns) /\ \A i \in DOMAIN f.rows : RowOk(f.rows[i])
    THEN [i \in DOMAIN f.rows |-> BarOf(f.rows[i])] ELSE <<>>

-----------------------------------------------------------------------------
SymbolsOf(f) == {BarOf(f.rows[i]).symbol : i \in DOMAIN f.rows}

MarketDataInit ==
    \E f \in Files :
        /\ file = ReadBarCsv(f)
        /\ counters = [s \in SymbolsOf(f) |-> 0]
        /\ queue = <<>> /\ offered = <<>>

(* A fault: only an event the bus takes uses up its number.                *)
CountTaken(symbol, taken) == counters[symbol] + (IF taken THEN 1 ELSE 0)

Count(symbol, taken) == counters[symbol] + 1

Valid(bar) ==
    /\ bar.symbol # ""
    /\ RejectNonPositive => \A c \in DOMAIN bar.prices : bar.prices[c] > 0

(* on_market_event(): a bar that is valid is numbered and published; what  *)
(* the bus answers is not looked at.  An event's place is not the code's:  *)
(* it says which of the publications the event is.                         *)
OnBar(taken) ==
    /\ file # <<>>
    /\ file' = Tail(file)
    /\ LET bar    == Head(file)
           number == counters[bar.symbol] + 1
       IN  IF ~Valid(bar) THEN UNCHANGED <<counters, queue, offered>>
           ELSE /\ counters' = [counters EXCEPT ![bar.symbol] = Count(bar.symbol, taken)]
                /\ offered' = Append(offered, [bar |-> bar, sequence |-> number, taken |-> taken])
                /\ IF taken
                   THEN queue' = Append(queue, [bar |-> bar, sequence |-> number,
                                                place |-> Len(offered) + 1])
                   ELSE UNCHANGED queue
=============================================================================
