------------------------------ MODULE NativeCsv ------------------------------
(***************************************************************************)
(* The native CSV/TSV lane of the SDK: src/official/native/csv.rs (reading *)
(* a file), csv_infer.rs (is the first row a header), csv_render.rs (HTML  *)
(* for the middle JSON, Markdown), csv_restore.rs (the rows read back from *)
(* the HTML of a saved middle JSON, on a task with a deadline) and         *)
(* restore_route.rs (whose document a saved JSON is, told from a stream).  *)
(*                                                                         *)
(* A character is a token: "q" the quote, "r" and "n" the line ends, "lt"  *)
(* and "amp" the ones HTML escapes, "bar" the one Markdown escapes, "ctl"  *)
(* a control character no output may hold, "sp" a space, any other text.   *)
(***************************************************************************)
EXTENDS Integers, Sequences, FiniteSets, SequencesExt, FiniteSetsExt

CONSTANTS CsvTexts,     \* files
          Markups,      \* table markup of saved JSON nobody rendered here
          Jsons,        \* saved JSON: sequences of <<key, value>>, keys may repeat
          CsvRows, CsvColumns, CsvGrid, SampleRows

ASSUME CsvAssumption == {CsvRows, CsvColumns, CsvGrid, SampleRows} \subseteq Nat \ {0}

VARIABLES
    csvPc,          \* "read", "infer", "parse", "render", "saved", "restore", "end"; "route"
    source,         \* the text, or the JSON
    delimiter,
    grid,           \* the rows read
    markup,         \* the table's HTML, as tokens
    table,          \* the restore task's parser, see TableStart
    taskCanceled, outcome

csvVars == <<csvPc, source, delimiter, grid, markup, table, taskCanceled, outcome>>

Foreign == <<"foreign">>      \* the source of markup that was not rendered here

-----------------------------------------------------------------------------
(* parse: one turn of its loop, on a parser p over a text.                  *)
ParseStart(text, d, limit, sample) ==
    [text |-> text, d |-> d, limit |-> limit, sample |-> sample, at |-> 1, rows |-> <<>>, row |-> <<>>, field |-> <<>>,
     quoted |-> FALSE, closed |-> FALSE, cells |-> 0, end |-> "none"]

WidthOf(rows) == Max({0} \cup {Len(rows[i]) : i \in DOMAIN rows})
OverGrid(rows, cells) == cells > CsvGrid \/ Len(rows) * WidthOf(rows) > CsvGrid

Ch(p) == p.text[p.at]
Next1(p, c) == p.at < Len(p.text) /\ p.text[p.at + 1] = c
Took(p, n) == [p EXCEPT !.at = @ + n]

QuotedChar(p) ==
    CASE Ch(p) # "q"     -> Took([p EXCEPT !.field = Append(@, Ch(p))], 1)
      [] Next1(p, "q")   -> Took([p EXCEPT !.field = Append(@, "q")], 2)
      [] OTHER           -> Took([p EXCEPT !.quoted = FALSE, !.closed = TRUE], 1)

EndField(p) ==
    LET q == [p EXCEPT !.row = Append(@, p.field), !.field = <<>>, !.cells = @ + 1, !.closed = FALSE]
    IN  IF Len(q.row) >= CsvColumns THEN [q EXCEPT !.end = "limit"] ELSE Took(q, 1)

\* Mutant: a carriage return and its line feed end a row each.
EndRowTwice(p) ==
    LET rows == Append(p.rows, Append(p.row, p.field))
        q == [p EXCEPT !.rows = rows, !.row = <<>>, !.field = <<>>, !.cells = @ + 1, !.closed = FALSE]
    IN  CASE OverGrid(rows, q.cells) \/ Len(rows) > p.limit -> [q EXCEPT !.end = "limit"]
          [] p.sample /\ Len(rows) = p.limit -> [q EXCEPT !.end = "ok"]
          [] OTHER -> Took(q, 1)

EndRow(p) ==
    LET rows == Append(p.rows, Append(p.row, p.field))
        q == [p EXCEPT !.rows = rows, !.row = <<>>, !.field = <<>>, !.cells = @ + 1, !.closed = FALSE]
    IN  CASE OverGrid(rows, q.cells) \/ Len(rows) > p.limit -> [q EXCEPT !.end = "limit"]
          [] p.sample /\ Len(rows) = p.limit -> [q EXCEPT !.end = "ok"]
          [] OTHER -> Took(q, IF Ch(p) = "r" /\ Next1(p, "n") THEN 2 ELSE 1)

PlainChar(p) ==
    CASE Ch(p) = p.d -> EndField(p)
      [] Ch(p) \in {"r", "n"} -> EndRow(p)
      [] p.closed -> [p EXCEPT !.end = "malformed"]      \* data after closing quote
      [] Ch(p) = "q" /\ p.field = <<>> -> Took([p EXCEPT !.quoted = TRUE], 1)
      [] OTHER -> Took([p EXCEPT !.field = Append(@, Ch(p))], 1)

EndOfText(p) ==
    LET more == p.field # <<>> \/ p.row # <<>> \/ p.closed
        rows == IF more THEN Append(p.rows, Append(p.row, p.field)) ELSE p.rows
        cells == IF more THEN p.cells + 1 ELSE p.cells
    IN  [p EXCEPT !.rows = rows, !.cells = cells,
                  !.end = IF p.quoted THEN "malformed"
                          ELSE IF (more /\ OverGrid(rows, cells)) \/ Len(rows) > p.limit THEN "limit" ELSE "ok"]

RECURSIVE Parse(_)
Parse(p) ==
    CASE p.end # "none"     -> p
      [] p.at > Len(p.text) -> EndOfText(p)
      [] p.quoted           -> Parse(QuotedChar(p))
      [] OTHER              -> Parse(PlainChar(p))

(* infer_delimiter: the candidate whose first rows agree most often on a    *)
(* width, then the wider, then the earlier one.                             *)
Candidates == << ",", ";" >>

ModalWidth(rows) ==
    LET Count(w) == Cardinality({i \in DOMAIN rows : Len(rows[i]) = w})
        widths == {Len(rows[i]) : i \in DOMAIN rows}
        best == CHOOSE w \in widths : \A v \in widths : Count(w) > Count(v) \/ (Count(w) = Count(v) /\ w >= v)
    IN  IF rows = <<>> THEN <<1, 0>> ELSE <<best, Count(best)>>

InferDelimiter(text) ==
    LET sampled == [k \in DOMAIN Candidates |-> Parse(ParseStart(text, Candidates[k], SampleRows, TRUE))]
        modal == [k \in DOMAIN Candidates |-> ModalWidth(sampled[k].rows)]
        able == {k \in DOMAIN Candidates : sampled[k].end = "ok" /\ modal[k][1] >= 2}
        Beats(k, j) == \/ modal[k][2] > modal[j][2]
                       \/ modal[k][2] = modal[j][2] /\ modal[k][1] > modal[j][1]
                       \/ modal[k][2] = modal[j][2] /\ modal[k][1] = modal[j][1] /\ k <= j
    IN  IF able = {} THEN Candidates[1] ELSE Candidates[CHOOSE k \in able : \A j \in able : Beats(k, j)]

-----------------------------------------------------------------------------
(* csv_render. A CR with its LF is one line end. *)
OneLineEnd(cell) ==
    LET kept == {i \in DOMAIN cell : ~(cell[i] = "n" /\ i > 1 /\ cell[i - 1] = "r")}
    IN  [k \in 1..Cardinality(kept) |-> cell[CHOOSE i \in kept : Cardinality({j \in kept : j <= i}) = k]]

\* Mutant: the text of a cell is not escaped.
EscapeNone(c) == CASE c \in {"r", "n"} -> "<br>" [] c = "lt" -> "<td>" [] c = "ctl" -> "fffd" [] OTHER -> c

Escape(c) ==
    CASE c \in {"r", "n"} -> "<br>" [] c = "lt" -> "&lt;" [] c = "amp" -> "&amp;" [] c = "q" -> "&quot;"
      [] c = "ctl" -> "fffd" [] OTHER -> c

Cell(rows, i, k) == IF k <= Len(rows[i]) THEN rows[i][k] ELSE <<>>

RenderHtml(rows, header) ==
    LET width == WidthOf(rows)
        Tag(i) == IF header /\ i = 1 THEN <<"<th>", "</th>">> ELSE <<"<td>", "</td>">>
        Html(i, k) == <<Tag(i)[1]>> \o [j \in DOMAIN OneLineEnd(Cell(rows, i, k)) |-> Escape(OneLineEnd(Cell(rows, i, k))[j])]
                      \o <<Tag(i)[2]>>
        Row(i) == <<"<tr>">> \o FlattenSeq([k \in 1..width |-> Html(i, k)]) \o <<"</tr>">>
    IN  <<"<table>">> \o FlattenSeq([i \in DOMAIN rows |-> Row(i)]) \o <<"</table>">>

(* markdown_cell: edge spaces dropped, inner ones collapsed per line.       *)
MarkdownCell(cell) ==
    LET one == OneLineEnd(cell)
        text(c) == c \notin {"sp", "r", "n"}
        LineStart(i) == Max({0} \cup {j \in 1..i : one[j] \in {"r", "n"}})
        kept(i) == \/ one[i] # "sp"
                   \/ /\ i < Len(one) /\ text(one[i + 1])        \* a run ends before text
                      /\ \E j \in (LineStart(i) + 1)..(i - 1) : text(one[j])
        out(c) == CASE c \in {"r", "n"} -> "<br>" [] c = "lt" -> "&lt;" [] c = "amp" -> "&amp;"
                    [] c = "bar" -> "\\|" [] c = "ctl" -> "fffd" [] OTHER -> c
        at == SelectSeq([i \in DOMAIN one |-> i], kept)
    IN  [k \in DOMAIN at |-> out(one[at[k]])]

RenderMarkdown(rows) == [i \in DOMAIN rows |-> [k \in 1..WidthOf(rows) |-> MarkdownCell(Cell(rows, i, k))]]

-----------------------------------------------------------------------------
(* csv_restore: parse_table, one token a turn. *)
TableStart == [at |-> 1, rows |-> <<>>, row |-> <<>>, cell |-> "none", text |-> <<>>, tag |-> "none",
               open |-> FALSE, rowOpen |-> FALSE, closed |-> FALSE, cells |-> 0, end |-> "none"]

Decode(t) == CASE t = "&lt;" -> "lt" [] t = "&amp;" -> "amp" [] t = "&quot;" -> "q" [] OTHER -> t
InCell(p) == p.cell = "some"
BadTable(p) == [p EXCEPT !.end = "invalid"]
TooBig(p) == [p EXCEPT !.end = "limit"]

\* Mutant: any closing tag ends the cell.
CloseCellAny(p, t) == p.rowOpen

CloseCell(p, t) == p.rowOpen /\ p.tag = (IF t = "</td>" THEN "<td>" ELSE "<th>")

TableTag(p, t) ==
    CASE t = "<table>" /\ ~p.open /\ ~p.closed -> [p EXCEPT !.open = TRUE]
      [] t = "</table>" /\ p.open /\ ~p.rowOpen /\ ~InCell(p) -> [p EXCEPT !.open = FALSE, !.closed = TRUE]
      [] t = "<tr>" /\ p.open /\ ~p.rowOpen /\ ~InCell(p) -> [p EXCEPT !.rowOpen = TRUE, !.row = <<>>]
      [] t = "</tr>" /\ p.rowOpen /\ ~InCell(p) ->
            LET rows == Append(p.rows, p.row)
                q == [p EXCEPT !.rows = rows, !.row = <<>>, !.rowOpen = FALSE]
            IN  IF Len(rows) * WidthOf(rows) > CsvGrid THEN TooBig(q) ELSE q
      [] t \in {"<td>", "<th>"} /\ p.rowOpen /\ ~InCell(p) ->
            IF Len(p.row) >= CsvColumns THEN TooBig(p) ELSE [p EXCEPT !.cell = "some", !.text = <<>>, !.tag = t]
      [] t \in {"</td>", "</th>"} /\ CloseCell(p, t) ->
            [p EXCEPT !.row = Append(@, p.text), !.cells = @ + 1, !.cell = "none", !.tag = "none",
                      !.end = IF InCell(p) THEN @ ELSE "panic"]
      [] t = "<br>" /\ InCell(p) -> [p EXCEPT !.text = Append(@, "n")]
      [] OTHER -> BadTable(p)

Tags == {"<table>", "</table>", "<tr>", "</tr>", "<td>", "</td>", "<th>", "</th>", "<br>"}

TableTurn(p, t) ==
    LET q == IF t \in Tags THEN TableTag(p, t)
             ELSE IF InCell(p) /\ t # "&other;" THEN [p EXCEPT !.text = Append(@, Decode(t))]
             ELSE IF ~InCell(p) /\ t = "sp" THEN p ELSE BadTable(p)
    IN  IF q.end # "none" THEN q
        ELSE IF Len(q.rows) > CsvRows \/ q.cells > CsvGrid THEN TooBig(q)
        ELSE [q EXCEPT !.at = @ + 1]

TableEnd(p) ==
    IF ~p.closed \/ p.open \/ p.rowOpen \/ InCell(p) THEN BadTable(p) ELSE [p EXCEPT !.end = "ok"]

-----------------------------------------------------------------------------
ReadCsv ==       \* size, suffix, encoding; a sep= line names the delimiter
    /\ csvPc = "read"
    /\ \/ csvPc' = "end" /\ outcome' = "refused" /\ delimiter' = delimiter
       \/ csvPc' = "infer" /\ outcome' = outcome /\ delimiter' = delimiter
       \/ \E k \in DOMAIN Candidates : csvPc' = "parse" /\ delimiter' = Candidates[k] /\ outcome' = outcome
    /\ UNCHANGED <<source, grid, markup, table, taskCanceled>>

Infer ==
    /\ csvPc = "infer" /\ csvPc' = "parse" /\ delimiter' = InferDelimiter(source)
    /\ UNCHANGED <<source, grid, markup, table, taskCanceled, outcome>>

ParseRows ==
    /\ csvPc = "parse"
    /\ LET p == Parse(ParseStart(source, delimiter, CsvRows, FALSE))
           end == IF p.end = "ok" /\ (WidthOf(p.rows) > CsvColumns \/ Len(p.rows) * WidthOf(p.rows) > CsvGrid)
                  THEN "limit" ELSE p.end
       IN  IF end = "ok" THEN csvPc' = "render" /\ grid' = p.rows /\ outcome' = outcome
           ELSE csvPc' = "end" /\ outcome' = end /\ grid' = grid
    /\ UNCHANGED <<source, delimiter, markup, table, taskCanceled>>

(* infer_header needs a second row and a first row as wide as most; what    *)
(* its votes on the kinds of values say is left open.                       *)
MayHead(rows) == Len(rows) >= 2 /\ Len(rows[1]) = ModalWidth(Tail(rows))[1]

RenderTable ==       \* or the text outgrows its budget
    /\ csvPc = "render"
    /\ \/ /\ csvPc' = "saved" /\ outcome' = outcome
          /\ \E header \in (IF MayHead(grid) THEN BOOLEAN ELSE {FALSE}) :
                markup' = IF grid = <<>> THEN <<>> ELSE RenderHtml(grid, header)
       \/ csvPc' = "end" /\ outcome' = "limit" /\ markup' = markup
    /\ UNCHANGED <<source, delimiter, grid, table, taskCanceled>>

(* bounded_restore: a task and a deadline; what restore asks of the JSON    *)
(* around the table, one written elsewhere may not have.                    *)
StartRestore ==
    /\ csvPc = "saved" /\ csvPc' = "restore"
    /\ table' \in {TableStart} \cup (IF source = Foreign THEN {BadTable(TableStart)} ELSE {})
    /\ UNCHANGED <<source, delimiter, grid, markup, taskCanceled, outcome>>

RestoreStep ==
    /\ csvPc = "restore" /\ table.end = "none"
    /\ table' = IF taskCanceled THEN [table EXCEPT !.end = "canceled"]
                ELSE IF markup = <<>> THEN [table EXCEPT !.end = "ok"]
                ELSE IF table.at > Len(markup) THEN TableEnd(table)
                ELSE TableTurn(table, markup[table.at])
    /\ UNCHANGED <<csvPc, source, delimiter, grid, markup, taskCanceled, outcome>>

RestoreReturns ==
    /\ csvPc = "restore" /\ table.end # "none" /\ outcome = "none"
    /\ csvPc' = "end" /\ outcome' = table.end
    /\ UNCHANGED <<source, delimiter, grid, markup, table, taskCanceled>>

RestoreTimesOut ==       \* the guard, dropped, raises the flag
    /\ csvPc = "restore" /\ outcome = "none" /\ outcome' = "deadline" /\ taskCanceled' = TRUE
    /\ UNCHANGED <<csvPc, source, delimiter, grid, markup, table>>

-----------------------------------------------------------------------------
(* restore_route: a value is [text |-> string], [other |-> TRUE] or an      *)
(* object, [entries |-> sequence of <<key, value>>]; the visitors keep only *)
(* what they look for, as it comes.                                         *)
IsObject(v) == "entries" \in DOMAIN v
TextValue(v) == IF "text" \in DOMAIN v THEN v.text ELSE "none"

ProducerHint(v) ==
    IF ~IsObject(v) THEN "none"
    ELSE FoldLeft(LAMBDA name, e : IF e[1] = "name" THEN TextValue(e[2]) ELSE name, "none", v.entries)

NoHint == [suffix |-> "none", producer |-> "none"]

\* Mutant: what an earlier metadata object said is kept.
MetadataHintOver(old, v) ==
    IF ~IsObject(v) THEN old
    ELSE FoldLeft(LAMBDA h, e : CASE e[1] = "file_suffix" -> [h EXCEPT !.suffix = TextValue(e[2])]
                                  [] e[1] = "producer" -> [h EXCEPT !.producer = ProducerHint(e[2])]
                                  [] OTHER -> h, old, v.entries)

MetadataHint(old, v) ==
    IF ~IsObject(v) THEN NoHint
    ELSE FoldLeft(LAMBDA h, e : CASE e[1] = "file_suffix" -> [h EXCEPT !.suffix = TextValue(e[2])]
                                  [] e[1] = "producer" -> [h EXCEPT !.producer = ProducerHint(e[2])]
                                  [] OTHER -> h, NoHint, v.entries)

RouteHint(json) ==
    FoldLeft(LAMBDA h, e : IF e[1] = "metadata" THEN MetadataHint(h, e[2]) ELSE h, NoHint, json)

IsNativeCsv(h) == h.suffix \in {"csv", "tsv"} /\ h.producer = "mineru-rs"

RouteJson ==
    /\ csvPc = "route" /\ csvPc' = "end" /\ outcome' = IF IsNativeCsv(RouteHint(source)) THEN "native" ELSE "python"
    /\ UNCHANGED <<source, delimiter, grid, markup, table, taskCanceled>>

-----------------------------------------------------------------------------
CsvOff ==
    /\ delimiter = "," /\ grid = <<>> /\ table = TableStart /\ taskCanceled = FALSE /\ outcome = "none"

CsvIdle == csvPc = "off" /\ source = <<>> /\ markup = <<>> /\ CsvOff

CsvInit ==
    /\ CsvOff
    /\ \/ csvPc = "read" /\ source \in CsvTexts /\ markup = <<>>
       \/ csvPc = "saved" /\ source = Foreign /\ markup \in Markups
       \/ csvPc = "route" /\ source \in Jsons /\ markup = <<>>

CsvNext ==
    \/ ReadCsv \/ Infer \/ ParseRows \/ RenderTable \/ StartRestore \/ RestoreStep \/ RestoreReturns \/ RestoreTimesOut
    \/ RouteJson

-----------------------------------------------------------------------------
(* What HTML can hold of a cell. *)
Clean(cell) == [j \in DOMAIN OneLineEnd(cell) |->
                   CASE OneLineEnd(cell)[j] = "r" -> "n" [] OneLineEnd(cell)[j] = "ctl" -> "fffd" [] OTHER -> OneLineEnd(cell)[j]]
Padded(rows) == [i \in DOMAIN rows |-> [k \in 1..WidthOf(rows) |-> Clean(Cell(rows, i, k))]]

(* The rows written as CSV, every cell quoted.                              *)
QuoteCell(cell) == <<"q">> \o FlattenSeq([j \in DOMAIN cell |-> IF cell[j] = "q" THEN <<"q", "q">> ELSE <<cell[j]>>]) \o <<"q">>
QuoteRow(row, d) == FlattenSeq([k \in DOMAIN row |-> (IF k = 1 THEN <<>> ELSE <<d>>) \o QuoteCell(row[k])]) \o <<"r", "n">>
QuoteAll(rows, d) == FlattenSeq([i \in DOMAIN rows |-> QuoteRow(rows[i], d)])

RECURSIVE ReadTable(_, _)
ReadTable(p, tokens) == IF p.end # "none" THEN p
                        ELSE IF p.at > Len(tokens) THEN TableEnd(p)
                        ELSE ReadTable(TableTurn(p, tokens[p.at]), tokens)

(* What a JSON object says when read whole: the last entry of a key.        *)
Field(v, key) ==
    IF ~IsObject(v) \/ \A i \in DOMAIN v.entries : v.entries[i][1] # key THEN [other |-> TRUE]
    ELSE v.entries[Max({i \in DOMAIN v.entries : v.entries[i][1] = key})][2]

(* The rows of a file are the rows read from them when written out with                  *)
(* every cell quoted.  Every accepted file is read back from its own saved               *)
(* table: the same rows, padded, and the same Markdown; no limit met by one is missed by *)
(* the other; reading any other markup ends in rows or an error, never in                *)
(* taking a cell that is not there, and its rows survive another round; the              *)
(* route told from the stream is the route of the whole JSON.                            *)
CsvSound ==
    /\ csvPc \in {"render", "saved", "restore"} /\ source # Foreign => Len(grid) * WidthOf(grid) <= CsvGrid
    /\ source # Foreign /\ csvPc \in {"restore", "end"} /\ table.end # "none" =>
          /\ table.end \in {"ok", "canceled"}
          /\ table.end = "ok" => table.rows = Padded(grid) /\ RenderMarkdown(table.rows) = RenderMarkdown(grid)
    /\ table.end # "panic"
    /\ source = Foreign /\ table.end = "ok" /\ table.rows # <<>> =>
          ReadTable(TableStart, RenderHtml(table.rows, FALSE)).rows = Padded(table.rows)
    /\ csvPc = "render" => Parse(ParseStart(QuoteAll(grid, delimiter), delimiter, CsvRows, FALSE)).rows = grid
    /\ outcome \in {"native", "python"} =>
          (outcome = "native" <=>
              LET metadata == Field([entries |-> source], "metadata")
              IN  /\ TextValue(Field(metadata, "file_suffix")) \in {"csv", "tsv"}
                  /\ TextValue(Field(Field(metadata, "producer"), "name")) = "mineru-rs")
=============================================================================
