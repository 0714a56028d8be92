---------------------------- MODULE ResultMarkup ----------------------------
(***************************************************************************)
(* What OfficialResult::save asks of a result before it writes anything    *)
(* (src/official/result_assets.rs): every image the markdown and the       *)
(* blocks refer to is an asset of the result, unless the reference is      *)
(* remote or stands in code; every asset has a safe relative name.         *)
(*                                                                         *)
(* Markdown is a sequence of tokens: "tick", "tilde", "sp", "nl", "x" one  *)
(* character each; "missing", "owned" and "remote" an image reference;     *)
(* "<pre", "pre>", "<code", "code>" tags.  The last seven are at least     *)
(* four characters wide.                                                   *)
(***************************************************************************)
EXTENDS Integers, Sequences, FiniteSets, SequencesExt, FiniteSetsExt

CONSTANTS Markdowns, BlockTrees, AssetNames

VARIABLES savePc, markdown, tree, asset, masked, saved

markupVars == <<savePc, markdown, tree, asset, masked, saved>>

MdChars == {"tick", "tilde", "sp", "nl", "x"}
BlankOf(t) == IF t \in MdChars THEN "sp" ELSE "wide"
Blanked(s) == [i \in DOMAIN s |-> BlankOf(s[i])]

-----------------------------------------------------------------------------
(* replace_all of <tag ...>...</tag>: the first opening that is closed, up  *)
(* to its first closing, line ends included.                                *)
RECURSIVE MaskTag(_, _, _)
MaskTag(s, opening, closing) ==
    LET closes(i) == {j \in DOMAIN s : j > i /\ s[j] = closing}
        starts == {i \in DOMAIN s : s[i] = opening /\ closes(i) # {}}
    IN  IF starts = {} THEN s
        ELSE LET a == Min(starts)
                 b == Min(closes(a))
             IN  SubSeq(s, 1, a - 1) \o Blanked(SubSeq(s, a, b)) \o MaskTag(SubSeq(s, b + 1, Len(s)), opening, closing)

MaskHtml(s) == MaskTag(MaskTag(s, "<pre", "pre>"), "<code", "code>")

(* The run of one character that starts at i, as an index past its end.     *)
TickEnd(line, i) == Min({j \in i..(Len(line) + 1) : j = Len(line) + 1 \/ line[j] # "tick"})
TickStart(line, i) == line[i] = "tick" /\ (i = 1 \/ line[i - 1] # "tick")

\* Mutant: a run at least as long closes the span.
ClosersLoose(line, i) ==
    {j \in TickEnd(line, i)..Len(line) : TickStart(line, j) /\ TickEnd(line, j) - j >= TickEnd(line, i) - i}

Closers(line, i) ==
    {j \in TickEnd(line, i)..Len(line) : TickStart(line, j) /\ TickEnd(line, j) - j = TickEnd(line, i) - i}

RECURSIVE MaskInline(_, _)
MaskInline(line, from) ==
    LET ticks == {i \in from..Len(line) : TickStart(line, i)}
    IN  IF ticks = {} THEN line
        ELSE LET i == Min(ticks)
             IN  IF Closers(line, i) = {} THEN MaskInline(line, TickEnd(line, i))
                 ELSE LET e == TickEnd(line, Min(Closers(line, i)))
                      IN  MaskInline([k \in DOMAIN line |-> IF k \in i..(e - 1) THEN BlankOf(line[k]) ELSE line[k]], e)

-----------------------------------------------------------------------------
Indent(line) == FoldLeft(LAMBDA n, t : IF n.go /\ t = "sp" THEN [n EXCEPT !.at = @ + 1, !.w = @ + 1]
                                       ELSE IF n.go /\ t = "wide" THEN [n EXCEPT !.at = @ + 1, !.w = @ + 4]
                                       ELSE [n EXCEPT !.go = FALSE], [at |-> 0, w |-> 0, go |-> TRUE], line)
Trimmed(line) == SubSeq(line, Indent(line).at + 1, Len(line))
FenceRun(line) ==
    LET t == Trimmed(line)
    IN  SubSeq(t, 1, Min({k \in 0..Len(t) : k = Len(t) \/ t[k + 1] \notin {"tick", "tilde"}}))
BlankLine(s) == \A i \in DOMAIN s : s[i] \in {"sp", "wide"}

\* Mutant: a fence of any width closes the block.
ClosesFenceAny(line, fence) ==
    /\ Indent(line).w <= 3 /\ FenceRun(line) # <<>> /\ FenceRun(line)[1] = fence[1]
    /\ BlankLine(SubSeq(Trimmed(line), Len(FenceRun(line)) + 1, Len(Trimmed(line))))

ClosesFence(line, fence) ==
    /\ Indent(line).w <= 3 /\ Len(FenceRun(line)) >= fence[2] /\ FenceRun(line)[1] = fence[1]
    /\ BlankLine(SubSeq(Trimmed(line), Len(FenceRun(line)) + 1, Len(Trimmed(line))))

OpensFence(line) ==
    /\ Indent(line).w <= 3 /\ Len(FenceRun(line)) >= 3
    /\ \A i \in DOMAIN FenceRun(line) : FenceRun(line)[i] = FenceRun(line)[1]

(* mask_markdown_code, a line at a time; no fence is <<>>.                  *)
MaskLine(s, line) ==
    CASE s.fence # <<>> -> [fence |-> IF ClosesFence(line, s.fence) THEN <<>> ELSE s.fence, lines |-> Append(s.lines, Blanked(line))]
      [] s.fence = <<>> /\ OpensFence(line) ->
            [fence |-> <<FenceRun(line)[1], Len(FenceRun(line))>>, lines |-> Append(s.lines, Blanked(line))]
      [] s.fence = <<>> /\ ~OpensFence(line) /\ Indent(line).w >= 4 -> [s EXCEPT !.lines = Append(@, Blanked(line))]
      [] OTHER -> [s EXCEPT !.lines = Append(@, MaskInline(line, 1))]

LinesOf(s) ==
    LET ends == {0, Len(s) + 1} \cup {i \in DOMAIN s : s[i] = "nl"}
        Nth(k) == CHOOSE e \in ends : Cardinality({d \in ends : d < e}) = k - 1
    IN  [k \in 1..(Cardinality(ends) - 1) |-> SubSeq(s, Nth(k) + 1, Nth(k + 1) - 1)]

MaskCode(s) == FoldLeft(MaskLine, [fence |-> <<>>, lines |-> <<>>], LinesOf(MaskHtml(s))).lines

Unowned(s) == \E k \in DOMAIN MaskCode(s) : \E i \in DOMAIN MaskCode(s)[k] : MaskCode(s)[k][i] = "missing"

-----------------------------------------------------------------------------
(* validate_block_references: a block is [kind, path, text, kids], its      *)
(* content being text or kids; only the                                     *)
(* kinds below own a path or markup, and children are walked whatever the   *)
(* kind.                                                                    *)
Bodies == {"image_body", "table_body", "chart_body"}

RECURSIVE BadBlock(_)
BadBlock(b) ==
    \/ b.kind \in Bodies \cup {"equation"} /\ b.path = "missing"
    \/ b.kind \in Bodies /\ Unowned(b.text)
    \/ \E i \in DOMAIN b.kids : BadBlock(b.kids[i])

(* validate_asset_name: parts of a path.                                    *)
\* Mutant: only the whole name is looked at for a device.
UnsafePartNamed(p) == p \in {"", ".", "..", "dot-end", "control", "too-long"}

UnsafePart(p) == p \in {"", ".", "..", "device", "dot-end", "control", "too-long"}

SafeAsset(name) == Len(name) >= 2 /\ name[1] = "images" /\ \A i \in DOMAIN name : ~UnsafePart(name[i])

(* LocalBundleWriter::put, which has its own idea of a safe path.           *)
Puts(name) == name # <<>> /\ name[1] \notin {"", "."} /\ \A i \in DOMAIN name : name[i] # ".."

(* validate_owned_assets then the writer, in save.                          *)
MaskText ==
    /\ savePc = "mask" /\ savePc' = "validate" /\ masked' = MaskCode(markdown)
    /\ UNCHANGED <<markdown, tree, asset, saved>>

SaveResult ==
    /\ savePc = "validate" /\ savePc' = "end"
    /\ saved' = CASE ~SafeAsset(asset) -> "asset"
                  [] SafeAsset(asset) /\ (\E i \in DOMAIN tree : BadBlock(tree[i]) ) -> "reference"
                  [] SafeAsset(asset) /\ (\A i \in DOMAIN tree : ~BadBlock(tree[i])) /\ Unowned(markdown) -> "reference"
                  [] OTHER -> IF Puts(asset) THEN "saved" ELSE "path"
    /\ UNCHANGED <<markdown, tree, asset, masked>>

MarkupIdle == savePc = "off" /\ markdown = <<>> /\ tree = <<>> /\ asset = <<>> /\ masked = <<>> /\ saved = "none"

MarkupInit ==
    /\ savePc = "mask" /\ masked = <<>> /\ saved = "none"
    /\ \/ markdown \in Markdowns /\ tree = <<>> /\ asset = <<"images", "a">>
       \/ markdown = <<>> /\ tree \in BlockTrees /\ asset = <<"images", "a">>
       \/ markdown = <<>> /\ tree = <<>> /\ asset \in AssetNames

MarkupNext == MaskText \/ SaveResult

-----------------------------------------------------------------------------
Html == {"<pre", "pre>", "<code", "code>"}
Lines == LinesOf(markdown)
FenceLines == {k \in DOMAIN Lines : OpensFence(Lines[k])}

(* The block the first fence opens, up to a line of at least as many of the *)
(* same character and nothing else, or to the end.                          *)
FirstBlock ==
    LET k == Min(FenceLines)
        width == Len(FenceRun(Lines[k]))
        ends == {j \in (k + 1)..Len(Lines) :
                   /\ Indent(Lines[j]).w <= 3 /\ Len(Trimmed(Lines[j])) >= width
                   /\ \A i \in 1..width : Trimmed(Lines[j])[i] \in {"tick", "tilde"}
                   /\ Trimmed(Lines[j])[1] = FenceRun(Lines[k])[1]
                   /\ \A i \in DOMAIN Trimmed(Lines[j]) : Trimmed(Lines[j])[i] \in {"tick", "tilde", "sp"}
                   /\ ~(\E i \in DOMAIN Trimmed(Lines[j]) : i > 1 /\ Trimmed(Lines[j])[i] # "sp" /\ Trimmed(Lines[j])[i - 1] = "sp")}
    IN  k..Min(ends \cup {Len(Lines)})

Nodes == UNION {{tree[i]} \cup ToSet(tree[i].kids) : i \in DOMAIN tree}

(* Masking moves nothing; in text without HTML the first fenced block is    *)
(* hidden to its own end and no further, and on an ordinary line exactly    *)
(* what two runs of as many backticks enclose is hidden; a missing image is *)
(* let through only if every mention of it is hidden, and nothing is        *)
(* written of a result that is refused, nor outside the images directory.   *)
MarkupSound ==
    LET plain == \A i \in DOMAIN markdown : markdown[i] \notin Html
        ordinary(k) == k \notin (IF FenceLines = {} THEN {} ELSE Min(FenceLines)..Len(Lines)) /\ Indent(Lines[k]).w < 4
        hidden(k, i) == masked[k][i] # Lines[k][i] \/ Lines[k][i] = "sp"
    IN  /\ savePc \in {"validate", "end"} /\ plain =>
              /\ Len(masked) = Len(Lines) /\ \A k \in DOMAIN Lines : Len(masked[k]) = Len(Lines[k])
              /\ FenceLines # {} =>
                    /\ \A k \in FirstBlock : BlankLine(masked[k])
                    /\ \A k \in DOMAIN Lines : k = Max(FirstBlock) + 1 /\ Indent(Lines[k]).w < 4 /\ ~OpensFence(Lines[k])
                          /\ (\A i \in DOMAIN Lines[k] : Lines[k][i] # "tick") => masked[k] = Lines[k]
              /\ \A k \in DOMAIN Lines : ordinary(k) =>
                    \A i \in DOMAIN Lines[k] :
                       (masked[k][i] # Lines[k][i]) =>
                          \E a \in 1..i, b \in i..Len(Lines[k]) :
                             /\ \A j \in a..b : hidden(k, j)
                             /\ TickStart(Lines[k], a) /\ TickEnd(Lines[k], b) = b + 1 /\ Lines[k][b] = "tick"
                             /\ \E e \in (a + 1)..b : TickStart(Lines[k], e) /\ TickEnd(Lines[k], e) = b + 1
                                                      /\ b + 1 - e = TickEnd(Lines[k], a) - a
        /\ saved = "saved" =>
              /\ Puts(asset) /\ asset[1] = "images" /\ \A i \in DOMAIN asset : asset[i] \notin {"", ".", "..", "device"}
              /\ \A b \in Nodes : b.path = "missing" => b.kind \notin Bodies \cup {"equation"}
              /\ \A k \in DOMAIN masked : \A i \in DOMAIN masked[k] : masked[k][i] # "missing"
        /\ saved = "reference" =>
              \/ "missing" \in ToSet(markdown)
              \/ \E b \in Nodes : b.kind # "code_body" /\ (b.path = "missing" \/ "missing" \in ToSet(b.text))
=============================================================================
