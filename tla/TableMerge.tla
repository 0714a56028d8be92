----------------------------- MODULE TableMerge -----------------------------
(***************************************************************************)
(* A table that continues on the next page (merged_table_html in           *)
(* src/official_builders.rs): the rows of the second table are appended to *)
(* the first, without its repeated header, after the spans of both have    *)
(* been brought to one grid.                                               *)
(*                                                                         *)
(* A table is a sequence of rows of cells; a cell has its spans, a text    *)
(* (equal texts mean equal normalised content, "" no semantic content) and *)
(* the contents it carries, so that a lost or doubled one shows.  Columns  *)
(* and rows of the grid count from 0.                                      *)
(***************************************************************************)
EXTENDS Integers, Sequences, FiniteSets, SequencesExt, FiniteSetsExt, TLC

CONSTANTS TableRows,     \* rows of cells [col, row, text] tables are made of
          MaxRows,       \* rows of a table
          FlagSets       \* cell_merge: columns flagged, {} when absent

ASSUME TableAssumption ==
    /\ MaxRows \in Nat \ {0} /\ \A f \in FlagSets : f \subseteq Nat
    /\ \A r \in TableRows : \A i \in DOMAIN r : r[i].col \in Nat \ {0} /\ r[i].row \in Nat \ {0}

VARIABLES
    tpc,            \* "compare", "clip", "adjust", "cells", "append", "merged", "refused"
    upper, lower,   \* rows of the two tables, as they stand
    given,          \* the rows given: [upper, lower]
    flags,
    heads           \* rows of the lower table that repeat the header

tableVars == <<tpc, upper, lower, given, flags, heads>>

-----------------------------------------------------------------------------
(* The grid: position -> cell that covers it, a later cell covering an      *)
(* earlier one; Above marks what the previous table's spans cover.          *)
Above == -1

FirstFree(grid, r, from) ==
    CHOOSE k \in from..(from + Cardinality(DOMAIN grid)) :
        <<r, k>> \notin DOMAIN grid /\ \A j \in from..(k - 1) : <<r, j>> \in DOMAIN grid

PlaceCell(acc, r, i, cell) ==
    LET c == FirstFree(acc.grid, r, acc.column)
        covered == {<<r + dr, c + dc>> : dr \in 0..(cell.row - 1), dc \in 0..(cell.col - 1)}
    IN  [grid |-> [p \in covered |-> <<r, i>>] @@ acc.grid, column |-> c + cell.col,
         starts |-> Append(acc.starts, c)]

PlaceRow(grid, r, row) ==
    FoldLeft(LAMBDA acc, i : PlaceCell(acc, r, i, row[i]),
             [grid |-> grid, column |-> 0, starts |-> <<>>], [i \in DOMAIN row |-> i])

(* scan_rows, visual_sources: rows 0..n-1 over what is already covered.     *)
GridOf(rows, tail) ==
    FoldLeft(LAMBDA grid, n : PlaceRow(grid, n - 1, rows[n]).grid,
             [p \in tail |-> <<Above, p[2]>>], [n \in DOMAIN rows |-> n])

Width(grid) == Max({0} \cup {p[2] + 1 : p \in DOMAIN grid})
Effective(grid, r) == Max({0} \cup {p[2] + 1 : p \in {q \in DOMAIN grid : q[1] = r}})
Actual(row) == FoldLeft(LAMBDA n, cell : n + cell.col, 0, row)
TailOf(rows) == {<<p[1] - Len(rows), p[2]>> : p \in {q \in DOMAIN GridOf(rows, {}) : q[1] >= Len(rows)}}
TotalCols(rows) == Width(GridOf(rows, {}))

(* visual_mapping: the column each cell of row n starts at. *)
Mapping(rows, tail, n) == PlaceRow(GridOf(SubSeq(rows, 1, n - 1), tail), n - 1, rows[n]).starts

(* rendered_segments: runs of one cell along row n. *)
Segments(rows, n) ==
    LET grid == GridOf(SubSeq(rows, 1, n), {})
        here == {p[2] : p \in {q \in DOMAIN grid : q[1] = n - 1}}
    IN  Cardinality({c \in here : c - 1 \in here => grid[<<n - 1, c - 1>>] # grid[<<n - 1, c>>]})

-----------------------------------------------------------------------------
Texts(row) == [i \in DOMAIN row |-> row[i].text]
Spans(row) == [i \in DOMAIN row |-> <<row[i].col, row[i].row>>]
Least(a, b) == IF a <= b THEN a ELSE b

(* detect_table_headers: leading rows alike in text and spans, or else in   *)
(* text and segments; at most five.                                         *)
Run(n, Same(_)) == Max({0} \cup {k \in 1..n : \A i \in 1..k : Same(i)})

HeaderCount ==
    LET n == Least(5, Least(Len(upper), Len(lower)))
        Strict(i) == /\ Texts(upper[i]) = Texts(lower[i]) /\ Spans(upper[i]) = Spans(lower[i])
                     /\ Effective(GridOf(upper, {}), i - 1) = Effective(GridOf(lower, {}), i - 1)
        Loose(i) == Texts(upper[i]) = Texts(lower[i]) /\ Segments(upper, i) = Segments(lower, i)
        strict == Run(n, Strict)
    IN  IF strict > 0 THEN strict ELSE Run(n, Loose)

(* expand_header_rowspans: a header takes the rows its cells span. *)
ExpandHeader(rows, count) ==
    FoldLeft(LAMBDA k, i : IF i > k THEN k
                           ELSE FoldLeft(LAMBDA m, cell : Least(Len(rows), Max({m, i - 1 + cell.row})),
                                         k, rows[i]),
             count, [i \in DOMAIN rows |-> i])

NonEmpty(rows) == {i \in DOMAIN rows : rows[i] # <<>>}

(* rows_match: the last row with cells against the first data row; a header *)
(* that leaves no data row among the first six matches nothing.             *)
RowsMatch ==
    LET first == ExpandHeader(lower, HeaderCount) + 1
        last == Max(NonEmpty(upper))
    IN  /\ NonEmpty(upper) # {} /\ first <= Least(6, Len(lower))
        /\ \/ Effective(GridOf(upper, {}), last - 1) = Effective(GridOf(lower, {}), first - 1)
           \/ Actual(upper[last]) = Actual(lower[first])
           \/ Segments(upper, last) = Segments(lower, first)

(* Widths within a tenth of each other are a matter of geometry: chosen.    *)
Compare ==
    /\ tpc = "compare"
    /\ IF TotalCols(upper) = TotalCols(lower) \/ RowsMatch
       THEN tpc' = "clip" /\ heads' = ExpandHeader(lower, HeaderCount)
       ELSE tpc' = "refused" /\ UNCHANGED heads
    /\ UNCHANGED <<upper, lower, given, flags>>

-----------------------------------------------------------------------------
Blank(cell) == cell.text = ""

(* insert_cell_before_visual_column, on rows 1.. of a slice. *)
InsertCell(rows, n, column, cell) ==
    LET starts == Mapping(rows, {}, n)
        later == {i \in DOMAIN starts : starts[i] >= column}
        at == IF later = {} THEN Len(rows[n]) + 1 ELSE Min(later)
    IN  [rows EXCEPT ![n] = SubSeq(@, 1, at - 1) \o <<cell>> \o SubSeq(@, at, Len(@))]

Overlap(rows, tail, n, i) ==
    LET cell == rows[n][i]
        columns == Mapping(rows, {}, n)[i]..(Mapping(rows, {}, n)[i] + cell.col - 1)
        Hidden(k) == \A c \in columns : <<n - 2 + k, c>> \in tail
    IN  Run(cell.row, Hidden)

(* Blank spans the previous table's spans already cover. *)
Clipped(rows, tail) ==
    {<<n, i>> \in UNION {{<<n, i>> : i \in DOMAIN rows[n]} : n \in DOMAIN rows} :
        /\ rows[n][i].row > 1 /\ Blank(rows[n][i]) /\ Overlap(rows, tail, n, i) > 0
        /\ rows[n][i].row > Overlap(rows, tail, n, i) => n + Overlap(rows, tail, n, i) <= Len(rows)}

(* clip_overlapped_blank_rowspans: cut them all, then put what is left of   *)
(* them back, from the bottom right.                                        *)
Clip(rows, tail) ==
    LET gone == Clipped(rows, tail)
        moved == {x \in gone : rows[x[1]][x[2]].row > Overlap(rows, tail, x[1], x[2])}
        Target(x) == <<x[1] + Overlap(rows, tail, x[1], x[2]), Mapping(rows, {}, x[1])[x[2]],
                       [rows[x[1]][x[2]] EXCEPT !.row = @ - Overlap(rows, tail, x[1], x[2])]>>
        cut == [n \in DOMAIN rows |->
                  LET kept == SetToSortSeq({i \in DOMAIN rows[n] : <<n, i>> \notin gone}, <)
                  IN  [k \in DOMAIN kept |-> rows[n][kept[k]]]]
        order == SetToSortSeq({Target(x) : x \in moved},
                              LAMBDA a, b : a[1] > b[1] \/ (a[1] = b[1] /\ a[2] > b[2]))
    IN  FoldLeft(LAMBDA rs, t : InsertCell(rs, t[1], t[2], t[3]), cut, order)

ClipRows ==
    /\ tpc = "clip" /\ tpc' = "adjust" /\ UNCHANGED <<upper, given, flags, heads>>
    /\ lower' = SubSeq(lower, 1, heads) \o Clip(SubSeq(lower, heads + 1, Len(lower)), TailOf(upper))

\* Mutant: the last cell is stretched by the whole target width.
AdjustRowAlways(row, effective, reference, like, target) ==
    IF row = <<>> \/ effective >= target THEN row
    ELSE [row EXCEPT ![Len(row)].col = @ + target]

(* adjust_colspans: a row with as many cells as the reference row takes its *)
(* spans when it is laid out like the other table's row, and otherwise      *)
(* stretches its last cell.                                                 *)
AdjustRow(row, effective, reference, like, target) ==
    IF row = <<>> \/ Len(row) # Len(reference) \/ effective >= target \/ Actual(row) >= target THEN row
    ELSE IF Len(row) = Len(like) /\ \A i \in DOMAIN row : row[i].col = like[i].col
    THEN [i \in DOMAIN row |-> [row[i] EXCEPT !.col = IF reference[i].col > 1 THEN reference[i].col ELSE @]]
    ELSE [row EXCEPT ![Len(row)].col = @ + target - effective]

Adjust(rows, from, reference, like, target) ==
    [n \in DOMAIN rows |-> IF n <= from THEN rows[n]
                           ELSE AdjustRow(rows[n], Effective(GridOf(rows, {}), n - 1), reference, like, target)]

AdjustSpans ==
    /\ tpc = "adjust" /\ tpc' = "cells" /\ UNCHANGED <<given, flags, heads>>
    /\ LET up == TotalCols(upper)
           low == TotalCols(lower)
           data == heads < Len(lower)
       IN  /\ lower' = IF data /\ up > low THEN Adjust(lower, heads, Last(upper), lower[heads + 1], up) ELSE lower
           /\ upper' = IF data /\ low > up THEN Adjust(upper, 0, lower[heads + 1], Last(upper), low) ELSE upper

-----------------------------------------------------------------------------
(* apply_cell_merge: the pairs of cells that meet in a flagged column. *)
At(starts, row, c) == {i \in DOMAIN row : c \in starts[i]..(starts[i] + row[i].col - 1)}

Pairs ==
    LET up == Mapping(upper, {}, Len(upper))
        low == Mapping(SubSeq(lower, heads + 1, Len(lower)), TailOf(upper), 1)
    IN  UNION {IF At(up, Last(upper), c) = {} \/ At(low, lower[heads + 1], c) = {} THEN {}
               ELSE {<<Max(At(up, Last(upper), c)), Max(At(low, lower[heads + 1], c))>>} : c \in flags}

Joined(row, pairs, from) ==
    [i \in DOMAIN row |->
        LET rights == SetToSortSeq({p[2] : p \in {q \in pairs : q[1] = i}}, <)
        IN  FoldLeft(LAMBDA cell, k : [cell EXCEPT !.ids = @ \o from[k].ids,
                                                   !.text = IF @ = "" THEN from[k].text ELSE @],
                     row[i], rights)]

\* Mutant: every cell of the row is emptied once a pair was joined.
EmptiedAll(row, pairs) ==
    [i \in DOMAIN row |-> IF pairs # {} THEN [row[i] EXCEPT !.text = "", !.ids = <<>>] ELSE row[i]]

Emptied(row, pairs) ==
    [i \in DOMAIN row |-> IF \E p \in pairs : p[2] = i THEN [row[i] EXCEPT !.text = "", !.ids = <<>>] ELSE row[i]]

(* carry_blank_rowspans: a row that goes away leaves its blank spans to the *)
(* next row.                                                                *)
Carry(rows, n) ==
    LET starts == Mapping(rows, {}, n)
        spans == SetToSortSeq({i \in DOMAIN rows[n] : rows[n][i].row > 1 /\ Blank(rows[n][i])}, >)
    IN  IF n = Len(rows) THEN rows
        ELSE FoldLeft(LAMBDA rs, i : InsertCell(rs, n + 1, starts[i], [rows[n][i] EXCEPT !.row = @ - 1]),
                      rows, spans)

Without(rows, n) == SubSeq(rows, 1, n - 1) \o SubSeq(rows, n + 1, Len(rows))

MergeCells ==
    /\ tpc = "cells" /\ tpc' = "append" /\ UNCHANGED <<given, flags, heads>>
    /\ IF flags = {} \/ heads >= Len(lower) THEN UNCHANGED <<upper, lower>>
       ELSE LET n == heads + 1
                emptied == [lower EXCEPT ![n] = Emptied(@, Pairs)]
            IN  /\ upper' = [upper EXCEPT ![Len(upper)] = Joined(@, Pairs, lower[n])]
                /\ lower' = IF \A i \in DOMAIN emptied[n] : Blank(emptied[n][i])
                            THEN Without(Carry(emptied, n), n) ELSE emptied

\* Mutant: the first data row is taken for a header row.
AppendRowsFromOne ==
    /\ tpc = "append" /\ tpc' = "merged" /\ UNCHANGED <<lower, given, flags, heads>>
    /\ upper' = upper \o SubSeq(lower, heads + 2, Len(lower))

AppendRows ==
    /\ tpc = "append" /\ tpc' = "merged" /\ UNCHANGED <<lower, given, flags, heads>>
    /\ upper' = upper \o SubSeq(lower, heads + 1, Len(lower))

Labelled(rows, side) ==
    [n \in DOMAIN rows |-> [i \in DOMAIN rows[n] |->
        [col |-> rows[n][i].col, row |-> rows[n][i].row, text |-> rows[n][i].text,
         ids |-> IF rows[n][i].text = "" THEN <<>> ELSE <<<<side, n, i>>>>]]]

GivenTables == UNION {[1..n -> TableRows] : n \in 1..MaxRows}

TableInit ==
    /\ tpc = "compare" /\ flags \in FlagSets /\ heads = 0
    /\ given \in {[upper |-> Labelled(u, "upper"), lower |-> Labelled(l, "lower")] : u \in GivenTables, l \in GivenTables}
    /\ upper = given.upper /\ lower = given.lower

TableNext == Compare \/ ClipRows \/ AdjustSpans \/ MergeCells \/ AppendRows

-----------------------------------------------------------------------------
Contents(rows) == FlattenSeq([n \in DOMAIN rows |-> FlattenSeq([i \in DOMAIN rows[n] |-> rows[n][i].ids])])

(* Nothing that was in the first table, or in a data row of the second, is  *)
(* lost by the merge, in whatever order the spans are clipped, widened,     *)
(* joined and carried; nothing is doubled unless one cell joins two; the    *)
(* contents of the second table stay in reading order when no cell is       *)
(* joined; the merged table is no wider than the wider of the two when no   *)
(* span crosses a row or the page break (merged_table_html).                *)
TableSound ==
    tpc = "merged" =>
       LET was == Contents(given.upper) \o Contents(SubSeq(given.lower, heads + 1, Len(given.lower)))
           flat == \A t \in {given.upper, given.lower} : \A n \in DOMAIN t : \A i \in DOMAIN t[n] : t[n][i].row = 1
       IN  /\ ToSet(Contents(upper)) = ToSet(was)
           /\ flags = {} => Contents(upper) = was
           /\ flat => TotalCols(upper) <= Max({TotalCols(given.upper), TotalCols(given.lower)})
=============================================================================
