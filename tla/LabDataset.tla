----------------------------- MODULE LabDataset -----------------------------
(***************************************************************************)
(* Strategy Lab's data set: the parser of a CSV file of bars and trades    *)
(* (apps/strategy_lab/lab/dataset.cpp).                                    *)
(*                                                                         *)
(* Every problem of every line is counted and the first MaxProblems are    *)
(* kept; a file with a problem gives no data set.  Rows stay in the order  *)
(* of the file, which is never sorted: a row that is too early is a        *)
(* problem, and does not become the row later ones are compared with.      *)
(*                                                                         *)
(* A line is a record: what it is, and its cells.  A symbol that is not in *)
(* Symbols is not a valid one, time 0 is text that is no time, a number    *)
(* cell is empty, text that is no exact number, or a number.               *)
(***************************************************************************)
EXTENDS Integers, FiniteSetsExt, SequencesExt, Functions

CONSTANTS
    Symbols,         \* the valid symbols
    MaxProblems      \* kMaxProblems

ASSUME DatasetAssumption == MaxProblems \in Nat \ {0}

VARIABLES
    file,            \* what is found at the path
    lineNo,          \* lines handled
    header,          \* header_: the column of each position, empty until known
    dataRows,        \* data_rows_
    order,           \* order_ by symbol: the newest row, the newest bar, rows
    previous,        \* previous_time_, 0 before the first row
    rows,            \* rows_
    problems,        \* the problems kept
    total,           \* the problems counted
    loaded           \* "Reading", "Loaded" or the error code thrown

datasetVars == <<file, lineNo, header, dataRows, order, previous, rows, problems, total, loaded>>

Columns == <<"symbol", "exchange_time", "type", "price", "open", "high", "low", "volume">>
Required == {"symbol", "exchange_time", "type", "price"}

NoCell == [is |-> "empty", value |-> 0]

Problem(line, column) == [line |-> line, column |-> column]

DatasetTypeOK ==
    /\ lineNo \in 0..Len(file.lines)
    /\ dataRows \in 0..lineNo
    /\ Range(header) \subseteq Range(Columns)
    /\ \A s \in Symbols : order[s].bar \in 0..order[s].any
    /\ Len(rows) <= dataRows
    /\ Len(problems) = Min({total, MaxProblems})
    /\ loaded \in {"Reading", "Loaded", "DatasetError", "LimitExceeded"}

DatasetInit ==
    /\ lineNo = 0 /\ dataRows = 0 /\ previous = 0 /\ total = 0
    /\ header = <<>> /\ rows = <<>> /\ problems = <<>>
    /\ order = [s \in Symbols |-> [any |-> 0, bar |-> 0, rows |-> 0]]
    /\ loaded = "Reading"

-----------------------------------------------------------------------------
(* Problems::add for each of found.                                        *)
Report(found) ==
    /\ total' = total + Len(found)
    /\ problems' = problems \o SubSeq(found, 1, Min({Len(found), MaxProblems - Len(problems)}))

(* The header: a cell that names no column or one named before, and then   *)
(* each required column that is missing.                                   *)
HeaderProblems(cells) ==
    LET wrong == {i \in 1..Len(cells) :
                    \/ cells[i] \notin Range(Columns)
                    \/ \E j \in 1..(i - 1) : cells[j] = cells[i]}
        missing == SelectSeq(Columns, LAMBDA c : c \in Required /\ c \notin Range(cells))
        named == [k \in 1..Cardinality(wrong) |-> cells[SetToSortSeq(wrong, <)[k]]] \o missing
    IN  [k \in 1..Len(named) |-> Problem(1, named[k])]

(* The columns of a row that are wrong, in the order they are reported.    *)
WrongCells(row) ==
    LET Cell(c) == IF c \in Range(header) THEN row[c] ELSE NoCell
        Given(c) == Cell(c).is # "empty"
        Legal(c) == Cell(c).is = "number" /\ Cell(c).value >= (IF c = "volume" THEN 0 ELSE 1)
        Misplaced(c) == row.type = "trade" /\ c # "price"
        Wrong(c) == IF Given(c) THEN Misplaced(c) \/ ~Legal(c) ELSE c = "price"
        Above(c, d) == /\ \A e \in {c, d} : Given(e) /\ ~Wrong(e)
                       /\ Cell(c).value > Cell(d).value
        checks == << <<"symbol", row.symbol \notin Symbols>>,
                     <<"exchange_time", row.exchange_time = 0>>,
                     <<"type", row.type \notin {"bar", "trade"}>>,
                     <<"price", Wrong("price")>>, <<"open", Wrong("open")>>,
                     <<"high", Wrong("high")>>, <<"low", Wrong("low")>>,
                     <<"volume", Wrong("volume")>>,
                     <<"low", Above("low", "price")>>, <<"high", Above("price", "high")>>,
                     <<"low", Above("low", "open")>>, <<"high", Above("open", "high")>> >>
        failed == SelectSeq(checks, LAMBDA check : check[2])
    IN  [k \in 1..Len(failed) |-> failed[k][1]]

(* A row must follow the symbol's newest bar if it is a bar, and be no     *)
(* earlier than the symbol's and the file's newest row.                    *)
TooEarly(row) ==
    \/ row.type = "bar" /\ row.exchange_time <= order[row.symbol].bar
    \/ row.exchange_time < order[row.symbol].any
    \/ row.exchange_time < previous

RowProblems(row) ==
    IF ~row.fits THEN <<Problem(lineNo + 1, "")>>
    ELSE LET wrong == WrongCells(row)
         IN  IF wrong # <<>> THEN [k \in 1..Len(wrong) |-> Problem(lineNo + 1, wrong[k])]
             ELSE IF TooEarly(row) THEN <<Problem(lineNo + 1, "exchange_time")>>
             ELSE <<>>

-----------------------------------------------------------------------------
(* load_dataset(): the path must name a readable file that is not too big. *)
RefuseFile ==
    /\ loaded = "Reading" /\ file.is # "text"
    /\ loaded' = IF file.is = "too big" THEN "LimitExceeded" ELSE "DatasetError"
    /\ UNCHANGED <<file, lineNo, header, dataRows, order, previous, rows, problems, total>>

AtLine(n) == /\ loaded = "Reading" /\ file.is = "text"
             /\ lineNo + 1 = n /\ n <= Len(file.lines)
             /\ lineNo' = n

(* Line 1: any problem ends the parse, since nothing else can be checked.  *)
ReadHeader ==
    /\ AtLine(1)
    /\ LET line == file.lines[1]
           found == IF line.is = "header" THEN HeaderProblems(line.cells) ELSE <<Problem(1, "")>>
       IN  /\ Report(found)
           /\ header' = IF found = <<>> THEN line.cells ELSE header
           /\ loaded' = IF found = <<>> THEN loaded ELSE "DatasetError"
    /\ UNCHANGED <<file, dataRows, order, previous, rows>>

(* A line too long, not UTF-8, blank or quoted is no data row.             *)
ReadUnusableLine ==
    /\ \E n \in 2..Len(file.lines) : AtLine(n) /\ file.lines[n].is = "unusable"
    /\ Report(<<Problem(lineNo + 1, "")>>)
    /\ UNCHANGED <<file, header, dataRows, order, previous, rows, loaded>>

(* Too many rows: the limit is thrown at once, whatever was found before.  *)
ReadRowOverLimit(maxRows) ==
    /\ \E n \in 2..Len(file.lines) : AtLine(n) /\ file.lines[n].is = "row"
    /\ dataRows = maxRows
    /\ dataRows' = dataRows + 1
    /\ loaded' = "LimitExceeded"
    /\ UNCHANGED <<file, header, order, previous, rows, problems, total>>

(* A fault: the row is numbered by its place in the file.                  *)
SequenceInFile(row) == Len(rows) + 1

SequenceOf(row) == order[row.symbol].rows + 1

RowOf(row) ==
    [line |-> lineNo + 1, symbol |-> row.symbol, time |-> row.exchange_time,
     type |-> row.type, sequence |-> SequenceOf(row)]

Accept(row) ==
    /\ rows' = Append(rows, RowOf(row))
    /\ previous' = row.exchange_time
    /\ order' = [order EXCEPT ![row.symbol] =
                    [any |-> row.exchange_time, rows |-> @.rows + 1,
                     bar |-> IF row.type = "bar" THEN row.exchange_time ELSE @.bar]]

Refuse(row) == UNCHANGED <<order, previous, rows>>

ReadRow(maxRows) ==
    /\ \E n \in 2..Len(file.lines) : AtLine(n) /\ file.lines[n].is = "row"
    /\ dataRows < maxRows
    /\ dataRows' = dataRows + 1
    /\ LET row == file.lines[lineNo + 1]
           found == RowProblems(row)
       IN  /\ Report(found)
           /\ IF found = <<>> THEN Accept(row) ELSE Refuse(row)
    /\ UNCHANGED <<file, header, loaded>>

(* The end of the file: an empty file and one without data rows are        *)
(* problems too.                                                           *)
EndOfFile ==
    /\ loaded = "Reading" /\ file.is = "text" /\ lineNo = Len(file.lines)
    /\ LET found == IF lineNo = 0 THEN <<Problem(0, "")>>
                    ELSE IF total = 0 /\ dataRows = 0 THEN <<Problem(1, "")>>
                    ELSE <<>>
       IN  /\ Report(found)
           /\ loaded' = IF total + Len(found) = 0 THEN "Loaded" ELSE "DatasetError"
    /\ UNCHANGED <<file, lineNo, header, dataRows, order, previous, rows>>

LoadDataset(maxRows) ==
    \/ RefuseFile \/ ReadHeader \/ ReadUnusableLine
    \/ ReadRowOverLimit(maxRows) \/ ReadRow(maxRows) \/ EndOfFile

(* A fault: the rows of a symbol count as bars, trades too.                *)
RowsOf(symbol) == Cardinality({i \in 1..Len(rows) : rows[i].symbol = symbol})

(* The summaries of finish().                                              *)
BarRows(symbol) ==
    Cardinality({i \in 1..Len(rows) : rows[i].symbol = symbol /\ rows[i].type = "bar"})

DatasetSymbols == {rows[i].symbol : i \in 1..Len(rows)}

-----------------------------------------------------------------------------
(* Properties.                                                             *)

(* A data set is its file, complete and in its order: one row for every    *)
(* line after the header, times that never go back, bars of one symbol at  *)
(* different times, and each symbol's rows numbered from 1 without a gap.  *)
RowsAreLines ==
    loaded = "Loaded" =>
        /\ Len(rows) + 1 = Len(file.lines)
        /\ \A i \in 1..Len(rows) :
              /\ rows[i].line = i + 1
              /\ rows[i].symbol = file.lines[i + 1].symbol
              /\ rows[i].sequence =
                    Cardinality({j \in 1..i : rows[j].symbol = rows[i].symbol})
        /\ \A i, j \in 1..Len(rows) : i < j =>
              /\ rows[i].time <= rows[j].time
              /\ (rows[i].type = "bar" /\ rows[j].type = "bar" /\ rows[i].symbol = rows[j].symbol)
                    => rows[i].time < rows[j].time

(* No line is skipped and none is judged by a line that was refused: each  *)
(* one read has its row or a problem, and a row refused only for its time  *)
(* is earlier than a row that was kept, or repeats a bar that was.         *)
EveryLineJudged ==
    total <= MaxProblems /\ header # <<>> =>
        \A n \in 2..lineNo :
            LET kept == \E i \in 1..Len(rows) : rows[i].line = n
                blamed == {p \in Range(problems) : p.line = n}
            IN  /\ kept \/ blamed # {} \/ loaded = "LimitExceeded"
                /\ ~(kept /\ blamed # {})
                /\ blamed = {Problem(n, "exchange_time")} /\ file.lines[n].exchange_time # 0 =>
                      \E i \in 1..Len(rows) :
                          /\ rows[i].line < n
                          /\ \/ rows[i].time > file.lines[n].exchange_time
                             \/ /\ rows[i].time = file.lines[n].exchange_time
                                /\ rows[i].symbol = file.lines[n].symbol
                                /\ rows[i].type = "bar" /\ file.lines[n].type = "bar"
=============================================================================
