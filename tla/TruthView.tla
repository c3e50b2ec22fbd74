----------------------------- MODULE TruthView -----------------------------
(***************************************************************************)
(* The truth table beside a live circuit: the rows of the compiler, or of  *)
(* a scratch session for the pins the reader has not set, the row that is  *)
(* the circuit's own, and a row driven into it (scripts/truth-view.ts, the *)
(* rows of scripts/data-view.ts, and their callers in Playground.astro).   *)
(* The circuit has an input a of one bit and an input b of two.            *)
(***************************************************************************)
EXTENDS Integers, Sequences, FiniteSets, SequencesExt

CONSTANTS
  Circuits,  \* "gate", "latch" (a zero of b sets or resets it), "ring" (does not settle with a = 1 and b = 3)
  Formats,   \* "binary", "decimal", "hex"
  Caps,      \* truth_table_cap, scaled down
  Mantissa,  \* bits a JSON number keeps: 53, scaled down
  MaxSteps   \* bound: what the reader does

VARIABLES
  circuit, format, cap,
  live,      \* the session on the page
  captured,  \* the inputs frozen for an enumeration, or <<>>
  table,     \* the rows on screen, or NoTable
  driven,    \* the last row driven: its number, whether it was refused, and the inputs before
  steps

vars == <<circuit, format, cap, live, captured, table, driven, steps>>

Widths == <<1, 2>>           \* of the inputs
OutWidths == <<1, 2, 5>>     \* of the outputs
Unknown == -1
Mask(width) == 2 ^ width - 1
Values(width) == UNION {{[v |-> v, d |-> d] : v \in {x \in 0..Mask(width) : \A i \in 0..(width - 1) : (x \div 2 ^ i) % 2 = 1 => (d \div 2 ^ i) % 2 = 1}} : d \in 0..Mask(width)}
Bit(x, i) == IF (x.d \div 2 ^ i) % 2 = 0 THEN 2 ELSE (x.v \div 2 ^ i) % 2
Nothing == [v |-> 0, d |-> 0]
NoTable == [from |-> "none", rows |-> <<>>, held |-> <<>>]
NotDriven == [row |-> 0, ok |-> FALSE, before |-> <<Nothing, Nothing>>]

Known(i, v) == [v |-> v, d |-> Mask(Widths[i])]

fullyDefined(x, width) == x.d = Mask(width)
Cell(x, width) == IF fullyDefined(x, width) THEN x.v ELSE Unknown

-----------------------------------------------------------------------------
\* The session: two inputs, the bit a latch holds, and whether it still runs.

Fresh == [in |-> <<Nothing, Nothing>>, q |-> 2, dead |-> FALSE]

Latched(b, q) ==
  IF Bit(b, 0) = 2 \/ Bit(b, 1) = 2 THEN 2
  ELSE IF Bit(b, 0) = 0 THEN 1 ELSE IF Bit(b, 1) = 0 THEN 0 ELSE q

And(x, y) == IF x = 0 \/ y = 0 THEN 0 ELSE IF x = 1 /\ y = 1 THEN 1 ELSE 2
Of(bit) == IF bit = 2 THEN Nothing ELSE [v |-> bit, d |-> 1]

\* set(): the value and its mask, settled; what does not settle ends the session.
Set(s, i, x) ==
  IF s.dead THEN [ok |-> FALSE, s |-> s]
  ELSE LET in == [s.in EXCEPT ![i] = x]
           dead == circuit = "ring" /\ Bit(in[1], 0) = 1 /\ in[2] = Known(2, 3)
       IN [ok |-> ~dead, s |-> [in |-> in, q |-> Latched(in[2], s.q), dead |-> dead]]

\* get() of the outputs: a bit, two bits of which one may be unknown, a number.
Outputs(s) ==
  LET a == Bit(s.in[1], 0)  b == s.in[2] IN
  IF circuit = "latch" THEN <<Of(s.q), b, Nothing>>
  ELSE <<Of(And(a, Bit(b, 0))), b, IF a = 2 \/ ~fullyDefined(b, 2) THEN Nothing ELSE [v |-> 9 * a + 7 * b.v, d |-> 31]>>

OutCells(s) == [o \in DOMAIN OutWidths |-> Cell(Outputs(s)[o], OutWidths[o])]

-----------------------------------------------------------------------------
\* The rows.

\* unknownInputs(): a pin with any unknown bit is unknown as a whole.
unknownInputs(in) == {i \in DOMAIN Widths : ~fullyDefined(in[i], Widths[i])}

Bits(unknown) == FoldLeft(LAMBDA n, i : IF i \in unknown THEN n + Widths[i] ELSE n, 0, <<1, 2>>)

\* The values of row n: the first unknown pin varies fastest.
Assigned(unknown, in, n) ==
  [i \in DOMAIN Widths |-> IF i \in unknown THEN (n \div 2 ^ Bits({j \in unknown : j < i})) % 2 ^ Widths[i] ELSE in[i].v]

\* One assignment: its unknown pins are set one after the other, then the outputs are read.
Enumerated(acc, unknown, row) ==
  LET one == IF 1 \in unknown THEN Set(acc.s, 1, Known(1, row[1])) ELSE [ok |-> TRUE, s |-> acc.s]
      two == IF 2 \in unknown THEN Set(one.s, 2, Known(2, row[2])) ELSE [ok |-> one.ok, s |-> one.s]
  IN [s |-> two.s, ok |-> acc.ok /\ one.ok /\ two.ok, rows |-> Append(acc.rows, [in |-> row, out |-> OutCells(two.s)])]

\* rowsForPins(): refused over the cap; a drive that fails is an exception.
rowsForPins(in) ==
  LET unknown == unknownInputs(in)
      one == IF 1 \in unknown THEN [ok |-> TRUE, s |-> Fresh] ELSE Set(Fresh, 1, Known(1, in[1].v))
      two == IF 2 \in unknown THEN one ELSE Set(one.s, 2, Known(2, in[2].v))
      all == FoldLeft(LAMBDA acc, n : Enumerated(acc, unknown, Assigned(unknown, in, n - 1)),
                      [s |-> two.s, ok |-> one.ok /\ two.ok, rows |-> <<>>], [n \in 1..(2 ^ Bits(unknown)) |-> n])
  IN IF Bits(unknown) <= cap /\ all.ok THEN [from |-> "scratch", rows |-> all.rows, held |-> in] ELSE NoTable

\* A JSON number: the nearest of those that keep Mantissa bits, the even one of two.
Rounded(v) ==
  LET size == CHOOSE n \in 0..8 : 2 ^ n > v /\ (n = 0 \/ 2 ^ (n - 1) <= v)
      unit == IF size > Mantissa THEN 2 ^ (size - Mantissa) ELSE 1
      down == v \div unit
  IN unit * (IF 2 * (v % unit) > unit \/ (2 * (v % unit) = unit /\ down % 2 = 1) THEN down + 1 ELSE down)

\* cellOf() of what the compiler wrote: a string in hexadecimal, a number otherwise.
cellOf(cell) == IF cell = Unknown \/ format = "hex" THEN cell ELSE Rounded(cell)

\* What the compiler enumerates: every row from a circuit that knows nothing.
Answer(row) == OutCells(Set(Set(Fresh, 1, Known(1, row[1])).s, 2, Known(2, row[2])).s)
Everything == <<Nothing, Nothing>>
AllRows == [n \in 1..8 |-> LET row == Assigned({1, 2}, Everything, n - 1) IN [in |-> row, out |-> Answer(row)]]

\* parseTruthTable()
parseTruthTable(rows) ==
  [from |-> "compiler", held |-> Everything,
   rows |-> [n \in DOMAIN rows |-> [in |-> [i \in DOMAIN rows[n].in |-> cellOf(rows[n].in[i])], out |-> [o \in DOMAIN rows[n].out |-> cellOf(rows[n].out[o])]]]]

\* Mutant: what is unknown of a pin is taken to be 0.
liveRowIndexZero(in) ==
  LET rows == {n \in DOMAIN table.rows : \A i \in DOMAIN in : table.rows[n].in[i] = in[i].v}
  IN IF rows = {} THEN 0 ELSE CHOOSE n \in rows : \A m \in rows : n <= m

\* liveRowIndex(): the row of these pins, 0 for none.
liveRowIndex(in) ==
  LET rows == {n \in DOMAIN table.rows : \A i \in DOMAIN in : fullyDefined(in[i], Widths[i]) /\ table.rows[n].in[i] = in[i].v}
  IN IF rows = {} THEN 0 ELSE CHOOSE n \in rows : \A m \in rows : n <= m

-----------------------------------------------------------------------------
\* The compiler's spelling, for rows it never saw: a cell as its digits.

Base == CASE format = "binary" -> 2 [] format = "hex" -> 16 [] OTHER -> 10
Size(v) == CHOOSE n \in 1..8 : Base ^ n > v /\ (n = 1 \/ Base ^ (n - 1) <= v)

cellWidthFor(width) == CASE format = "binary" -> width [] format = "hex" -> (width + 3) \div 4 [] OTHER -> Size(Mask(width))

compilerCell(cell, width) ==
  IF cell = Unknown THEN <<Unknown>>
  ELSE LET n == IF format = "decimal" \/ Size(cell) > cellWidthFor(width) THEN Size(cell) ELSE cellWidthFor(width)
       IN [i \in 1..n |-> (cell \div Base ^ (n - i)) % Base]

-----------------------------------------------------------------------------

Step == steps < MaxSteps /\ steps' = steps + 1
Page == <<circuit, format, cap>>

signalOf(x) == Bit(x, 0)

\* A pin is driven by another face, or by its row, whole or in part.
editRow(i) ==
  /\ Step /\ ~live.dead
  /\ \E x \in Values(Widths[i]) : live' = Set(live, i, x).s
  /\ driven' = NotDriven /\ UNCHANGED <<Page, captured, table>>

toggleRow ==
  /\ Step /\ ~live.dead
  /\ live' = Set(live, 1, Known(1, IF signalOf(live.in[1]) = 1 THEN 0 ELSE 1)).s
  /\ driven' = NotDriven /\ UNCHANGED <<Page, captured, table>>

\* runTruth(): the compiler's table.
Compile ==
  /\ Step /\ circuit # "ring" /\ cap >= 3
  /\ table' = parseTruthTable(AllRows)
  /\ driven' = NotDriven /\ UNCHANGED <<Page, live, captured>>

\* runScratchTruth(): the inputs are frozen before the first await.
Capture ==
  /\ Step /\ ~live.dead /\ captured' = live.in
  /\ driven' = NotDriven /\ UNCHANGED <<Page, live, table>>

Tabulate ==
  /\ captured # <<>> /\ table' = rowsForPins(captured) /\ captured' = <<>>
  /\ driven' = NotDriven /\ UNCHANGED <<Page, live, steps>>

\* driveRow(): one set() per column, in order; the first refusal ends it.
driveRow(row) ==
  LET one == Set(live, 1, Known(1, table.rows[row].in[1]))
      two == Set(one.s, 2, Known(2, table.rows[row].in[2]))
  IN /\ live' = IF one.ok THEN two.s ELSE one.s
     /\ driven' = [row |-> row, ok |-> one.ok /\ two.ok, before |-> live.in]

Click(row) ==
  /\ Step /\ row \in DOMAIN table.rows
  /\ driveRow(row)
  /\ UNCHANGED <<Page, captured, table>>

\* A new session, when one is needed: every pin unknown.
Rebuild ==
  /\ Step /\ live.dead /\ live' = Fresh
  /\ driven' = NotDriven /\ UNCHANGED <<Page, captured, table>>

Init ==
  /\ circuit \in Circuits /\ format \in Formats /\ cap \in Caps
  /\ live = Fresh /\ captured = <<>> /\ table = NoTable /\ driven = NotDriven /\ steps = 0

Next ==
  \/ \E i \in DOMAIN Widths : editRow(i)
  \/ toggleRow \/ Compile \/ Capture \/ Tabulate \/ Rebuild
  \/ \E row \in 1..8 : Click(row)

Spec == Init /\ [][Next]_vars

-----------------------------------------------------------------------------

TypeOK ==
  /\ \A i \in DOMAIN Widths : live.in[i] \in Values(Widths[i])
  /\ Len(table.rows) \in {0, 1, 2, 4, 8} /\ steps \in 0..MaxSteps
  /\ \A n \in DOMAIN table.rows : \A i \in DOMAIN Widths : table.rows[n].in[i] \in 0..Mask(Widths[i])

\* The rows of a scratch session are the assignments that agree with the pins
\* that were known when it was asked for, each once, and no others.
RowsAreTheAssignments ==
  table.from = "scratch" =>
    LET held == {i \in DOMAIN Widths : fullyDefined(table.held[i], Widths[i])}
    IN /\ {table.rows[n].in : n \in DOMAIN table.rows}
            = {<<a, b>> : a \in 0..1, b \in 0..3} \cap {row \in {<<a, b>> : a \in 0..1, b \in 0..3} : \A i \in held : row[i] = table.held[i].v}
       /\ \A m, n \in DOMAIN table.rows : m # n => table.rows[m].in # table.rows[n].in

\* A row of a circuit without memory tells what the circuit answers to its
\* inputs, whatever was enumerated before it.
RowsTellTheCircuit ==
  table.from = "scratch" /\ circuit = "gate" => \A n \in DOMAIN table.rows : table.rows[n].out = Answer(table.rows[n].in)

\* The row that is marked has the live pins' values, and for a circuit without
\* memory the live outputs are the row's.
MarkedRowAgrees ==
  LET n == liveRowIndex(live.in) IN
  n # 0 /\ ~live.dead =>
    /\ \A i \in DOMAIN Widths : Cell(live.in[i], Widths[i]) = table.rows[n].in[i]
    /\ table.from = "scratch" /\ circuit = "gate" => table.rows[n].out = OutCells(live)

\* A row that was driven is the row that is marked; a row that was refused left
\* its first inputs driven and the rest as they were.
DrivenIsMarked ==
  driven.row # 0 =>
    IF driven.ok THEN liveRowIndex(live.in) = driven.row
    ELSE \E i \in 0..2 : \A j \in 1..2 : live.in[j] = (IF j <= i THEN Known(j, table.rows[driven.row].in[j]) ELSE driven.before[j])

\* In a copy, two values of a column never have one text, and no text is wider
\* than its column.
CopiesTell ==
  \A o \in DOMAIN OutWidths : \A m, n \in DOMAIN table.rows :
    LET x == table.rows[m].out[o]  y == table.rows[n].out[o] IN
    table.from = "scratch" =>
      /\ x # y => compilerCell(x, OutWidths[o]) # compilerCell(y, OutWidths[o])
      /\ Len(compilerCell(x, OutWidths[o])) <= cellWidthFor(OutWidths[o])

\* The table is of the circuit and the marked row of the pins, however rows are driven,
\* pins toggled and tables enumerated in between.
TableTellsTheCircuit ==
  /\ TypeOK /\ RowsAreTheAssignments /\ RowsTellTheCircuit /\ MarkedRowAgrees
  /\ DrivenIsMarked /\ CopiesTell
=============================================================================
