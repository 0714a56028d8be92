---------------------------- MODULE DocumentBuild ----------------------------
(***************************************************************************)
(* How the blocks the model found on a page become the nodes of a document *)
(* (src/official_builders.rs): compose_page groups the blocks of one page, *)
(* merge_document_paras joins text, reference lists and tables across      *)
(* nodes and pages, and the three renderings walk the nodes.  What two     *)
(* table bodies become is TableMerge's; here a merge succeeds or not.      *)
(*                                                                         *)
(* Blocks span the page's width: a box is <<top, bottom>>, one unit being  *)
(* more than twelve points and less than a line and a half.  A block's     *)
(* content is its position, so that a lost or doubled one shows.           *)
(***************************************************************************)
EXTENDS Integers, Sequences, FiniteSets, SequencesExt, FiniteSetsExt

CONSTANTS BlockKinds,    \* kinds raw_block may give
          NBlocks, Boxes,
          NodeKinds,     \* nodes a page may hold, for the merges
          NBuildPages, NodesPerPage,
          AssetCap       \* max_asset_bytes, in boxes

ASSUME BuildAssumption ==
    /\ {NBlocks, NBuildPages, NodesPerPage, AssetCap} \subseteq Nat \ {0}
    /\ \A b \in Boxes : b[1] < b[2]

VARIABLES
    topic,      \* "page" or "paras"
    bpc,        \* the step to take
    blocks,     \* the blocks of the page
    used,       \* blocks consumed by a group
    nodes,      \* nodes made so far, a set
    shown,      \* contents each rendering of the page shows
    paras,      \* pages of nodes
    cursor,     \* the page the table merge looks at
    before,     \* the contents given, in order
    dropped     \* contents a table merge replaces

buildVars == <<topic, bpc, blocks, used, nodes, shown, paras, cursor, before, dropped>>

-----------------------------------------------------------------------------
(* Geometry. *)
IsChrome(k) == k \in {"header", "footer", "page_number", "aside_text", "page_footnote"}
IsVisualBody(k) == k \in {"image_body", "image_block_body", "table_body", "chart_body", "code_body"}
Height(b) == b[2] - b[1]
Larger(a, b) == IF a >= b THEN a ELSE b
Shared(a, b) == Larger(0, (IF a[2] <= b[2] THEN a[2] ELSE b[2]) - Larger(a[1], b[1]))
OverlapAtLeast(inner, outer, tenths) == 10 * Shared(inner, outer) >= tenths * Height(inner)
OverlapsBox(a, b) == Shared(a, b) > 0
Gap(a, b) == Larger(0, Larger(b[1] - a[2], a[1] - b[2]))
CenterDistance(a, b) == LET d == a[1] + a[2] - b[1] - b[2] IN Larger(d, -d)

NearAbove(a, b) == a[2] <= b[1] /\ (b[1] - a[2] <= 1 \/ 2 * (b[1] - a[2]) <= 3 * Height(a))

OutsideVisualGap(b, child, parent) ==
    /\ child[2] <= parent[1] \/ parent[2] <= child[1]
    /\ ~OverlapsBox(b, child) /\ ~OverlapsBox(b, parent)
    /\ LET top == IF child[2] <= parent[1] THEN child[2] ELSE parent[2]
           bottom == IF child[2] <= parent[1] THEN parent[1] ELSE child[1]
       IN  b[1] >= bottom \/ b[2] <= top

-----------------------------------------------------------------------------
(* caption_fallbacks: text beside a caption over a visual; what lies        *)
(* between a caption and its table; "continued" at the head of the page.    *)
Captioned(bs, i) == [bs EXCEPT ![i].kind = "caption"]

BesideCaption(bs, i) ==
    IF /\ i > 1 /\ i < Len(bs) /\ bs[i].kind = "text" /\ bs[i - 1].kind = "caption"
       /\ IsVisualBody(bs[i + 1].kind) /\ NearAbove(bs[i].box, bs[i + 1].box)
       /\ OverlapsBox(bs[i - 1].box, bs[i].box)
    THEN Captioned(bs, i) ELSE bs

AboveTable(bs, t) ==
    FoldLeft(LAMBDA acc, i :
               IF acc.stop \/ ~NearAbove(acc.bs[i].box, acc.bs[t].box) THEN [acc EXCEPT !.stop = TRUE]
               ELSE IF acc.bs[i].kind = "caption" THEN [acc EXCEPT !.saw = TRUE]
               ELSE IF acc.saw /\ acc.bs[i].kind \in {"text", "footnote"} THEN [acc EXCEPT !.bs = Captioned(@, i)]
               ELSE acc,
             [bs |-> bs, saw |-> FALSE, stop |-> FALSE], [k \in 1..(t - 1) |-> t - k]).bs

ContinuedHead(bs, t) ==
    LET body == {i \in DOMAIN bs : ~IsChrome(bs[i].kind)}
        first == Min(body)
    IN  IF body # {} /\ first < t /\ bs[first].kind = "text" /\ bs[first].cont /\ NearAbove(bs[first].box, bs[t].box)
        THEN Captioned(bs, first) ELSE bs

CaptionFallbacks(bs) ==
    LET positions == [i \in DOMAIN bs |-> i]
        beside == FoldLeft(BesideCaption, bs, positions)
    IN  FoldLeft(LAMBDA acc, t : IF acc[t].kind = "table_body" THEN ContinuedHead(AboveTable(acc, t), t) ELSE acc,
                 beside, positions)

(* raw_block crops an image of every visual block; the page fails when its  *)
(* assets do not fit.                                                       *)
Cropped(k) == k \in {"table_body", "image_body", "image_block_body", "chart_body", "interline_equation"}
AssetSizes == {<<blocks[i].kind, blocks[i].box>> : i \in {j \in DOMAIN blocks : Cropped(blocks[j].kind)}}
AssetBytes == FoldSet(LAMBDA a, n : n + Height(a[2]), 0, AssetSizes)

BuildGo(step) == bpc' = step

ReadBlocks ==
    /\ bpc = "blocks" /\ UNCHANGED <<topic, used, nodes, shown, paras, cursor, before, dropped>>
    /\ IF AssetBytes > AssetCap THEN BuildGo("failed") /\ UNCHANGED blocks
       ELSE BuildGo("lists") /\ blocks' = CaptionFallbacks(blocks)

Node(type, i, parts, subs, captions, footnotes) ==
    [type |-> type, index |-> i, parts |-> parts, subs |-> subs, captions |-> captions, footnotes |-> footnotes]

OfKind(kinds) == SelectSeq([i \in DOMAIN blocks |-> i], LAMBDA i : blocks[i].kind \in kinds)

\* Mutant: a text inside two list markers is an item of both.
ItemsShared(m, taken) ==
    SelectSeq(OfKind({"text", "ref_text"}), LAMBDA i : OverlapAtLeast(blocks[i].box, blocks[m].box, 8))

(* The texts a list marker covers; a marker that covers none goes away. *)
Items(m, taken) ==
    SelectSeq(OfKind({"text", "ref_text"}),
              LAMBDA i : i \notin taken /\ OverlapAtLeast(blocks[i].box, blocks[m].box, 8))

GroupLists ==
    /\ bpc = "lists" /\ BuildGo("members") /\ UNCHANGED <<topic, blocks, shown, paras, cursor, before, dropped>>
    /\ LET acc == FoldLeft(LAMBDA a, m :
                     LET items == Items(m, a.used) IN
                     [used |-> a.used \cup ToSet(items) \cup {m},
                      nodes |-> IF items = <<>> THEN a.nodes ELSE a.nodes \cup {Node("list", m, items, {}, <<>>, <<>>)}],
                   [used |-> used, nodes |-> nodes], OfKind({"list"}))
       IN  used' = acc.used /\ nodes' = acc.nodes

(* An image or a chart inside an image block is a part of it: the block     *)
(* that covers most of it, then the smallest, then the first.               *)
Holders(m) == {c \in ToSet(OfKind({"image_block_body"})) : OverlapAtLeast(blocks[m].box, blocks[c].box, 9)}
Better(m, a, b) ==
    LET x == Shared(blocks[m].box, blocks[a].box)
        y == Shared(blocks[m].box, blocks[b].box)
    IN  \/ x > y
        \/ x = y /\ Height(blocks[a].box) < Height(blocks[b].box)
        \/ x = y /\ Height(blocks[a].box) = Height(blocks[b].box) /\ a <= b
HolderOf(m) == CHOOSE c \in Holders(m) : \A d \in Holders(m) : Better(m, c, d)
Absorbed == {m \in ToSet(OfKind({"image_body", "chart_body"})) : Holders(m) # {}}

AbsorbMembers ==
    /\ bpc = "members" /\ BuildGo("visuals") /\ used' = used \cup Absorbed
    /\ UNCHANGED <<topic, blocks, nodes, shown, paras, cursor, before, dropped>>

-----------------------------------------------------------------------------
(* best_visual_parent: only across captions, footnotes and what lies        *)
(* outside the gap; the fewest blocks away, then the nearest; a caption     *)
(* between tables goes to the last, a footnote to the first.                *)
Between(a, b) == {i \in DOMAIN blocks \ used : (a < i /\ i < b) \/ (b < i /\ i < a)}

VisualNeighbor(c, p) ==
    /\ ~(blocks[c].kind = "footnote" /\ c < p)
    /\ \A i \in Between(c, p) :
         \/ blocks[i].kind \in (IF blocks[c].kind = "caption" THEN {"caption"} ELSE {"caption", "footnote"})
         \/ OutsideVisualGap(blocks[i].box, blocks[c].box, blocks[p].box)

IndexDistance(c, p) ==
    Larger(c - p, p - c) - Cardinality({i \in Between(c, p) : blocks[i].kind = blocks[c].kind})

Parents == {i \in DOMAIN blocks \ used : IsVisualBody(blocks[i].kind)}

BestParent(c) ==
    LET near == {p \in Parents : VisualNeighbor(c, p)}
        least == Min({IndexDistance(c, p) : p \in near})
        closest == {p \in near : IndexDistance(c, p) = least}
        gaps == {Gap(blocks[c].box, blocks[p].box) : p \in closest}
        Nearest(D(_)) == Min({p \in closest : \A q \in closest : D(p) <= D(q)})
    IN  CASE near = {} -> 0
          [] Cardinality(closest) = 1 -> Min(closest)
          [] Cardinality(gaps) > 1 -> Nearest(LAMBDA p : Gap(blocks[c].box, blocks[p].box))
          [] blocks[c].kind = "caption" /\ \A p \in closest : blocks[p].kind = "table_body" -> Max(closest)
          [] blocks[c].kind = "footnote" -> Min(closest)
          [] OTHER -> Nearest(LAMBDA p : CenterDistance(blocks[c].box, blocks[p].box))

Children(p, kind) == SelectSeq(OfKind({kind}), LAMBDA c : BestParent(c) = p)

\* Mutant: a caption given to a visual stays a text of the page too.
AttachedNone == {}

Attached == {c \in ToSet(OfKind({"caption", "footnote"})) : BestParent(c) # 0}

GroupVisuals ==
    /\ bpc = "visuals" /\ BuildGo("leaves") /\ UNCHANGED <<topic, blocks, shown, paras, cursor, before, dropped>>
    /\ used' = used \cup Parents \cup Attached
    /\ nodes' = nodes \cup {Node("visual", p, <<>>, {m \in Absorbed : HolderOf(m) = p},
                                 Children(p, "caption"), Children(p, "footnote")) : p \in Parents}

(* What no group took stays a node of its own; page furniture is set aside. *)
Leaves ==
    /\ bpc = "leaves" /\ BuildGo("composed") /\ UNCHANGED <<topic, blocks, shown, paras, cursor, before, dropped>>
    /\ LET rest == {i \in DOMAIN blocks \ used : ~IsChrome(blocks[i].kind)}
       IN  nodes' = nodes \cup {Node("leaf", i, <<>>, {}, <<>>, <<>>) : i \in rest} /\ used' = used \cup rest

(* The renderings of a page's nodes: middle JSON holds all, with the parts  *)
(* of an image block as sub_images; the content lists leave these out, and  *)
(* of a code block its notes; Markdown leaves out page furniture.           *)
MiddleOf(n) == {n.index} \cup ToSet(n.parts) \cup n.subs \cup ToSet(n.captions) \cup ToSet(n.footnotes)
FlatOf(n) ==
    MiddleOf(n) \ (n.subs \cup (IF blocks[n.index].kind = "code_body" THEN ToSet(n.footnotes) ELSE {}))
V2Of(n) ==
    CASE n.type = "leaf" -> {n.index}
      [] n.type = "list" -> {n.index} \cup ToSet(n.parts)
      [] blocks[n.index].kind = "code_body" -> {n.index} \cup ToSet(n.captions)
      [] OTHER -> {n.index} \cup ToSet(n.captions) \cup ToSet(n.footnotes)
MarkdownOf(n) == {n.index} \cup ToSet(n.parts) \cup ToSet(n.captions) \cup ToSet(n.footnotes)

Furniture == {i \in DOMAIN blocks : IsChrome(blocks[i].kind)}

RenderPage ==
    /\ bpc = "composed" /\ BuildGo("rendered")
    /\ UNCHANGED <<topic, blocks, used, nodes, paras, cursor, before, dropped>>
    /\ shown' = [middle |-> UNION {MiddleOf(n) : n \in nodes} \cup Furniture,
                 flat |-> UNION {FlatOf(n) : n \in nodes} \cup Furniture,
                 v2 |-> UNION {V2Of(n) : n \in nodes} \cup Furniture,
                 markdown |-> UNION {MarkdownOf(n) : n \in nodes}]

-----------------------------------------------------------------------------
(* The document.  A node here has a type, its contents "own", for a text    *)
(* whether it asks to be merged, may follow and may be followed; for a      *)
(* table its captions <<content, continuation, below the body>> and notes.  *)
EmptyNode(n) == n.own = <<>>

(* merge_para_text: the text before, visuals skipped, if it may be joined.  *)
TextBefore(page, i) ==
    LET skip == {j \in 1..(i - 1) : \A k \in j..(i - 1) : page[k].type \in {"table", "visual"}}
        j == i - 1 - Cardinality(skip)
    IN  IF j > 0 /\ page[j].type = "text" /\ page[i].joins /\ page[j].open /\ page[i].own # <<>> /\ page[j].own # <<>>
        THEN j ELSE 0

MergeText(page) ==
    FoldLeft(LAMBDA acc, i :
               IF acc[i].type # "text" \/ ~acc[i].merge \/ TextBefore(acc, i) = 0 THEN acc
               ELSE [acc EXCEPT ![TextBefore(acc, i)].own = @ \o acc[i].own, ![i].own = <<>>],
             page, [k \in DOMAIN page |-> Len(page) + 1 - k])

MergeTexts ==
    /\ bpc = "text" /\ BuildGo("refs") /\ UNCHANGED <<topic, blocks, used, nodes, shown, cursor, before, dropped>>
    /\ paras' = [p \in DOMAIN paras |-> MergeText(paras[p])]

IsRefList(n) == n.type = "refs" /\ n.own # <<>>

(* last_surviving_node: the last node of an earlier page that is not empty. *)
LastSurviving(ps, p) ==
    LET pages == {q \in 1..(p - 1) : \E i \in DOMAIN ps[q] : ~EmptyNode(ps[q][i])}
    IN  IF pages = {} THEN <<>>
        ELSE <<Max(pages), Max({i \in DOMAIN ps[Max(pages)] : ~EmptyNode(ps[Max(pages)][i])})>>

JoinRefs(ps, from, to) ==
    [ps EXCEPT ![to[1]][to[2]].own = @ \o ps[from[1]][from[2]].own, ![from[1]][from[2]].own = <<>>]

MergeRef(ps, p, i) ==
    LET prev == IF i > 1 THEN <<p, i - 1>> ELSE LastSurviving(ps, p)
    IN  IF ~IsRefList(ps[p][i]) \/ prev = <<>> THEN ps
        ELSE IF ~IsRefList(ps[prev[1]][prev[2]]) THEN ps
        ELSE JoinRefs(ps, <<p, i>>, prev)

MergeRefs ==
    /\ bpc = "refs" /\ UNCHANGED <<topic, blocks, used, nodes, shown, cursor, before, dropped>>
    /\ bpc' \in {"tables", "built"}      \* table_enable
    /\ paras' = FoldLeft(LAMBDA ps, p : FoldLeft(LAMBDA qs, i : MergeRef(qs, p, i), ps, [i \in DOMAIN ps[p] |-> i]),
                         paras, [p \in DOMAIN paras |-> p])

MergingCaptions(n) == SelectSeq(n.captions, LAMBDA c : c[2] \/ ~c[3])

(* The table at the head of a page and the one that ends the page before.   *)
MayContinue(prev, cur) ==
    /\ prev.type = "table" /\ cur.type = "table"
    /\ Len(prev.notes) <= 1
    /\ MergingCaptions(cur) = <<>> => prev.notes = <<>>
    /\ MergingCaptions(cur) # <<>> => \E i \in DOMAIN cur.captions : cur.captions[i][2]

(* The rows and the notes go up; a caption below the body becomes a text of *)
(* its page; the other captions, and the one note replaced, are gone.       *)
Continued(ps, p) ==
    LET prev == Last(ps[p - 1])
        cur == Head(ps[p])
        restored == SelectSeq(cur.captions, LAMBDA c : ~c[2] /\ c[3])
        texts == [k \in DOMAIN restored |->
                    [type |-> "text", idx |-> restored[k][1], own |-> <<restored[k][1]>>, merge |-> FALSE, joins |-> FALSE, open |-> FALSE,
                     captions |-> <<>>, notes |-> <<>>]]
    IN  [ps EXCEPT ![p - 1][Len(ps[p - 1])] = [prev EXCEPT !.own = @ \o cur.own, !.notes = cur.notes],
                   ![p] = SortSeq(<<[cur EXCEPT !.own = <<>>, !.notes = <<>>, !.captions = <<>>]>> \o Tail(ps[p]) \o texts,
                                  LAMBDA a, b : a.idx < b.idx)]

Gone(ps, p) ==
    ToSet(Last(ps[p - 1]).notes) \cup {c[1] : c \in ToSet(MergingCaptions(Head(ps[p])))}

(* The backward loop over the pages; merged_table_html may refuse.          *)
MergeTablePage ==
    /\ bpc = "tables" /\ UNCHANGED <<topic, blocks, used, nodes, shown, before>>
    /\ cursor' = cursor - 1
    /\ IF cursor = 1 THEN BuildGo("built") /\ UNCHANGED <<paras, dropped>>
       ELSE /\ UNCHANGED bpc
            /\ \/ UNCHANGED <<paras, dropped>>
               \/ /\ paras[cursor - 1] # <<>> /\ paras[cursor] # <<>>
                  /\ MayContinue(Last(paras[cursor - 1]), Head(paras[cursor]))
                  /\ paras' = Continued(paras, cursor) /\ dropped' = dropped \cup Gone(paras, cursor)

(* check_builder_deadline, before every step over the pages.                *)
BuildExpires ==
    /\ bpc \in {"blocks", "text", "refs", "tables"} /\ BuildGo("failed")
    /\ UNCHANGED <<topic, blocks, used, nodes, shown, paras, cursor, before, dropped>>

-----------------------------------------------------------------------------
(* Contents of a node, captions and notes included.                         *)
ContentsOf(n) == [k \in DOMAIN n.captions |-> n.captions[k][1]] \o n.own \o n.notes
PageContents(page) == FoldLeft(LAMBDA acc, n : acc \o ContentsOf(n), <<>>, page)
DocContents(ps) == FoldLeft(LAMBDA acc, page : acc \o PageContents(page), <<>>, ps)
RunningText(ps) ==
    FoldLeft(LAMBDA acc, n : IF n.type = "table" THEN acc ELSE acc \o n.own, <<>>,
             FoldLeft(LAMBDA acc, page : acc \o page, <<>>, ps))

(* A template placed on a page: contents are numbered in reading order.     *)
Placed(t, p, i) ==
    LET at == 100 * p + 10 * i
    IN  [type |-> t.type, idx |-> IF t.type = "table" THEN at + 5 ELSE at,
         own |-> CASE t.type = "table" -> <<at + 5>>
                   [] t.type = "refs" -> <<at, at + 1>>
                   [] OTHER -> <<at>>,
         merge |-> t.merge, joins |-> t.joins, open |-> t.open,
         captions |-> [k \in DOMAIN t.captions |-> <<at + (IF t.captions[k][3] THEN 5 ELSE 0) + k, t.captions[k][1], t.captions[k][2]>>],
         notes |-> [k \in 1..t.notes |-> at + 7 + k]]

NothingShown == [middle |-> {}, flat |-> {}, v2 |-> {}, markdown |-> {}]

Unbuilt == /\ blocks = <<>> /\ used = {} /\ nodes = {} /\ shown = NothingShown /\ paras = <<>> /\ before = <<>>
           /\ dropped = {} /\ cursor = 0

BuildIdle == topic = "page" /\ bpc = "rendered" /\ Unbuilt

PageInit ==
    /\ topic = "page" /\ bpc = "blocks" /\ used = {} /\ nodes = {} /\ shown = NothingShown /\ paras = <<>>
    /\ before = <<>> /\ dropped = {} /\ cursor = 0
    /\ \E kinds \in [1..NBlocks -> BlockKinds], boxes \in [1..NBlocks -> Boxes], cont \in BOOLEAN :
         blocks = [i \in 1..NBlocks |-> [kind |-> kinds[i], box |-> boxes[i], cont |-> cont /\ kinds[i] = "text"]]

ParasInit ==
    /\ topic = "paras" /\ bpc = "text" /\ blocks = <<>> /\ used = {} /\ nodes = {} /\ shown = NothingShown /\ dropped = {}
    /\ cursor = NBuildPages
    /\ \E given \in [1..NBuildPages -> UNION {[1..n -> NodeKinds] : n \in 0..NodesPerPage}] :
         paras = [p \in 1..NBuildPages |-> [i \in DOMAIN given[p] |-> Placed(given[p][i], p, i)]]
    /\ before = DocContents(paras)

BuildInit == PageInit \/ ParasInit

BuildNext ==
    \/ ReadBlocks \/ GroupLists \/ AbsorbMembers \/ GroupVisuals \/ Leaves \/ RenderPage
    \/ MergeTexts \/ MergeRefs \/ MergeTablePage \/ BuildExpires

-----------------------------------------------------------------------------
(* Texts that are nodes of their own, and the blocks a node stands for. *)
Unclaimed == {i \in DOMAIN blocks : blocks[i].kind \in {"text", "ref_text"} /\ \E n \in nodes : n.type = "leaf" /\ n.index = i}
Holding(n) == <<n.index>> \o n.parts \o SetToSeq(n.subs) \o n.captions \o n.footnotes

(* Every block of a composed page that is not page furniture is in exactly  *)
(* one place of one node; only a list marker without items is left out, and *)
(* page furniture never gets into a node.                                   *)
PageSound ==
    topic = "page" /\ bpc = "rendered" =>
        \A i \in DOMAIN blocks :
          LET places == FoldSet(LAMBDA n, k : k + Cardinality({j \in DOMAIN Holding(n) : Holding(n)[j] = i}), 0, nodes)
          IN  CASE IsChrome(blocks[i].kind) -> places = 0
                [] blocks[i].kind = "list" -> places = 1 \/ (places = 0 /\ \A j \in DOMAIN blocks : j \notin Unclaimed \/ ~OverlapAtLeast(blocks[j].box, blocks[i].box, 8))
                [] OTHER -> places = 1

(* When the merges end every content is in the document once, but for the   *)
(* captions and the note a continued table replaces; running text keeps its *)
(* reading order, and so do the rows of a table.                            *)
ParasSound ==
    topic = "paras" /\ bpc = "built" =>
        LET now == DocContents(paras) IN
        /\ ToSet(now) = ToSet(before) \ dropped /\ Len(now) = Cardinality(ToSet(now))
        /\ \A i, j \in DOMAIN RunningText(paras) : i < j => RunningText(paras)[i] < RunningText(paras)[j]
        /\ \A p \in DOMAIN paras : \A n \in ToSet(paras[p]) :
             n.type = "table" => \A i, j \in DOMAIN n.own : i < j => n.own[i] < n.own[j]

(* What one rendering of a page shows the others show too: middle JSON has  *)
(* everything, the two content lists agree, and Markdown differs from them  *)
(* only by page furniture and by the notes of code blocks.                  *)
RenderingsAgree ==
    topic = "page" /\ bpc = "rendered" =>
        LET noteOfCode == UNION {ToSet(n.footnotes) : n \in {m \in nodes : blocks[m.index].kind = "code_body"}}
        IN  /\ shown.v2 = shown.flat /\ shown.markdown \subseteq shown.middle
            /\ shown.markdown \ noteOfCode = shown.flat \ Furniture
            /\ \A i \in DOMAIN blocks : i \in shown.middle \/ blocks[i].kind = "list"

BuildSound == PageSound /\ RenderingsAgree /\ ParasSound
=============================================================================
