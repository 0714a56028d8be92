------------------------------- MODULE PdfWork -------------------------------
(***************************************************************************)
(* What the program does with a PDF on its own, one question a behaviour:  *)
(*   "native"  may a PDF skip the models, its text taken as it is          *)
(*             (assess and the search for images in src/native_pdf.rs);    *)
(*   "render"  a window of pages rasterised by parallel tasks within a     *)
(*             byte budget (render_window_core in src/pdf.rs);             *)
(*   "text"    Markdown laid out as a text PDF under an output budget      *)
(*             (markdown_to_pdf in src/legacy_office.rs, as the helper     *)
(*             bin/mineru-office-convert.rs calls it).                     *)
(*                                                                         *)
(* The PDF library, the rasteriser and the text extractor are external.    *)
(***************************************************************************)
EXTENDS Integers, Sequences, FiniteSets, SequencesExt, FiniteSetsExt, TLC

CONSTANTS PdfDocuments,     \* documents to assess, see Reach
          MaxResourceDepth, NativePages,
          RenderSizes,      \* windows: sequences of page sizes in bytes, 0 not computable
          RenderWorkers, InFlightCap,
          TextInputs,            \* Markdown: sequences of line lengths
          TextCaps,         \* output_bytes
          MaxLineBytes, LinesPerPage, LineCost, FixedReserve, PageReserve

ASSUME PdfAssumption ==
    /\ {RenderWorkers, InFlightCap, MaxLineBytes, LinesPerPage, LineCost, FixedReserve, PageReserve} \subseteq Nat \ {0}
    /\ MaxResourceDepth \in Nat

VARIABLES
    native,     \* [pc, doc, images, reasons, accepted]
    render,     \* [pc, sizes, pending, window, running, done, warned, verdict]
    text        \* [pc, raw, cap, row, col, line, wrote, content, pages, spent]

pdfVars == <<native, render, text>>

NoNative == [pc |-> "off"]
NoRender == [pc |-> "off"]
NoText == [pc |-> "off"]

Into(s, fields) == [f \in DOMAIN s |-> IF f \in DOMAIN fields THEN fields[f] ELSE s[f]]

-----------------------------------------------------------------------------
(* A document has objects and pages.  An object is an image, an opaque      *)
(* value or a form; a form's content has an inline image, none, or cannot   *)
(* be decoded; its resources name further objects (kids), are reached       *)
(* through a reference to a dictionary (via) or are missing.  A page has    *)
(* content and resources too, or inherits them from the up-th ancestor;     *)
(* up = -1 stands for ancestors that form a cycle.                          *)
Kids(doc, node) == IF node.via = 0 THEN node.kids ELSE doc.dicts[node.via]

(* object_has_image and resource_object_has_images: depth first, with the   *)
(* objects of the present path in seen.                                     *)
RECURSIVE ObjectHasImage(_, _, _, _), ResourceHasImages(_, _, _, _)

ResourceHasImages(doc, node, seen, depth) ==
    LET child == depth + 1
        kids == Kids(doc, node)
        looked == {i \in DOMAIN kids : \A j \in 1..(i - 1) : ObjectHasImage(doc, kids[j], seen, child) = "no"}
        last == Max(looked)
    IN  IF depth > MaxResourceDepth \/ (node.via # 0 /\ depth + 1 > MaxResourceDepth) THEN "err"
        ELSE IF kids = <<>> THEN "no"
        ELSE IF child > MaxResourceDepth THEN "err"
        ELSE ObjectHasImage(doc, kids[last], seen, child)

ObjectHasImage(doc, id, seen, depth) ==
    LET object == doc.objects[id]
    IN  IF depth + 1 > MaxResourceDepth \/ id \in seen \/ object.kind = "opaque" THEN "err"
        ELSE IF object.kind = "image" THEN "yes"
        ELSE IF object.content # "plain" THEN (IF object.content = "inline" THEN "yes" ELSE "err")
        ELSE IF object.kids = <<>> /\ object.via = 0 THEN "no"
        ELSE IF depth + 2 > MaxResourceDepth THEN "err"
        ELSE ResourceHasImages(doc, object, seen \cup {id}, depth + 2)

\* Mutant: an object met once is taken for met on this path.
PageHasImagesOnce(doc, page) ==
    LET kids == Kids(doc, page)
    IN  IF \E i, j \in DOMAIN kids : i < j /\ kids[i] = kids[j] THEN "err"
        ELSE ResourceHasImages(doc, page, {}, page.up)

(* page_resources_have_images: the nearest resources up the page tree.      *)
PageHasImages(doc, page) ==
    IF page.up = -1 \/ page.up > MaxResourceDepth THEN "err"
    ELSE ResourceHasImages(doc, page, {}, page.up)

\* Mutant: an undecidable page is a page without images.
HasPageImagesLenient(doc) ==
    IF \E i \in DOMAIN doc.pages : doc.pages[i].content = "inline" \/ PageHasImages(doc, doc.pages[i]) = "yes"
    THEN "yes" ELSE "no"

(* has_page_images_in_document: the first page that has one, or cannot be   *)
(* decided, decides.                                                        *)
HasPageImages(doc) ==
    LET Verdict(page) == CASE page.content = "inline" -> "yes"
                           [] page.content = "broken" -> "err"
                           [] OTHER -> PageHasImages(doc, page)
        telling == {i \in DOMAIN doc.pages : Verdict(doc.pages[i]) # "no"}
    IN  IF telling = {} THEN "no" ELSE Verdict(doc.pages[Min(telling)])

NativeGo(fields) == native' = Into(native, fields) /\ UNCHANGED <<render, text>>
Reason(r) == native.reasons \cup {r}
RejectNative(r) == NativeGo([pc |-> "done", reasons |-> Reason(r)])

(* assess, one step for each of its readings of the file. *)
LoadMetadata ==
    /\ native.pc = "load"
    /\ LET n == Len(native.doc.pages)
       IN  CASE n = 0           -> RejectNative("empty_pdf")
             [] n > NativePages -> RejectNative("page_limit")
             [] OTHER           -> NativeGo([pc |-> "images"]) \/ RejectNative("invalid_or_unsupported_pdf")

DetectImages ==
    /\ native.pc = "images"
    /\ LET found == HasPageImages(native.doc)
       IN  NativeGo([pc |-> "inspect", images |-> found,
                     reasons |-> CASE found = "yes" -> native.reasons \cup {"images_present", "mixed_pdf"}
                                   [] found = "err" -> Reason("image_detection_uncertain")
                                   [] OTHER         -> native.reasons])

InspectPdf ==     \* type, OCR, encoding, layout, confidence, quality of the text
    /\ native.pc = "inspect"
    /\ \/ RejectNative("invalid_or_unsupported_pdf")
       \/ \E r \in {{}, {"scanned"}, {"low_confidence", "output_limit"}} :
             NativeGo([pc |-> "pages", reasons |-> native.reasons \cup r])

AssessPages ==
    /\ native.pc = "pages"
    /\ \/ RejectNative("page_assessment_unavailable")
       \/ \E r \in {{}, {"page_coverage_uncertain"}, {"page_needs_ocr", "mixed_pdf"}} :
             LET all == native.reasons \cup r
             IN  NativeGo([pc |-> IF all = {} THEN "extract" ELSE "done", reasons |-> all])

ExtractMarkdown ==
    /\ native.pc = "extract"
    /\ \/ RejectNative("native_extraction_failed") \/ RejectNative("low_quality")
       \/ NativeGo([pc |-> "done", reasons |-> Reason("accepted"), accepted |-> TRUE])

-----------------------------------------------------------------------------
(* render_window_core, tolerant as its caller asks for. *)
Weight(ps) == MapThenSumSet(LAMBDA p : render.sizes[p], ps)
RenderGo(fields) == render' = Into(render, fields) /\ UNCHANGED <<native, text>>

MeasurePages ==      \* page_dimensions of every page first
    /\ render.pc = "measure"
    /\ LET bad == {p \in DOMAIN render.sizes : render.sizes[p] = 0}
       IN  RenderGo([pc |-> "admit", warned |-> bad,
                     pending |-> SelectSeq([p \in DOMAIN render.sizes |-> p], LAMBDA p : p \notin bad)])

\* Mutant: each page is held against the cap by itself.
AdmittedEach(ps) == Max({0} \cup {n \in DOMAIN ps : \A i \in 1..n : render.sizes[ps[i]] <= InFlightCap})

(* admitted_window: as many pages as fit together, in order. *)
Admitted(ps) == Max({0} \cup {n \in DOMAIN ps : Weight(ToSet(SubSeq(ps, 1, n))) <= InFlightCap})

FirstFew(s) == IF Len(s) <= RenderWorkers THEN Len(s) ELSE RenderWorkers

AdmitWindow ==
    /\ render.pc = "admit" /\ render.pending # <<>>
    /\ LET n == Admitted(render.pending)
           window == SubSeq(render.pending, 1, n)
       IN  IF n = 0      \* a page over the budget alone is skipped
           THEN RenderGo([pending |-> Tail(render.pending), warned |-> render.warned \cup {Head(render.pending)}])
           ELSE RenderGo([pc |-> "join", pending |-> SubSeq(render.pending, n + 1, Len(render.pending)),
                          running |-> ToSet(SubSeq(window, 1, FirstFew(window))),
                          window |-> SubSeq(window, FirstFew(window) + 1, n)])

(* join_next: a task ended, with a page or without one (an error or a       *)
(* panic of the rasteriser); the next page of the window is started.        *)
PageRendered(p) ==
    /\ render.pc = "join" /\ p \in render.running
    /\ LET rest == (render.running \ {p}) \cup (IF render.window = <<>> THEN {} ELSE {Head(render.window)})
           base == [running |-> rest, window |-> IF render.window = <<>> THEN <<>> ELSE Tail(render.window),
                    pc |-> IF rest = {} THEN "admit" ELSE "join"]
       IN  \/ RenderGo(base @@ [done |-> render.done \cup {p}])
           \/ RenderGo(base @@ [warned |-> render.warned \cup {p}])

(* The task could not be joined: the call ends, the other tasks run on.     *)
RenderJoinFails(p) ==
    /\ render.pc = "join" /\ p \in render.running
    /\ RenderGo([pc |-> "end", verdict |-> "error", running |-> render.running \ {p}, window |-> <<>>])

RenderOrphanEnds(p) ==
    render.pc = "end" /\ p \in render.running /\ RenderGo([running |-> render.running \ {p}])

\* Mutant: a window without a page is a window of placeholders.
WindowVerdictAlways == "ok"

WindowVerdict == IF render.done = {} /\ render.sizes # <<>> THEN "error" ELSE "ok"

FinishWindow ==
    /\ render.pc = "admit" /\ render.pending = <<>>
    /\ RenderGo([pc |-> "end", verdict |-> WindowVerdict])

-----------------------------------------------------------------------------
(* markdown_to_pdf.  A line of the PDF is known by where its text starts:   *)
(* <<row, from, length>>.  A character may need one byte or, escaped, two:  *)
(* the cost counts two.                                                     *)
TextGo(fields) == text' = Into(text, fields) /\ UNCHANGED <<native, render>>
Oversized == TextGo([pc |-> "oversized"])
Cost(line) == LineCost + 2 * line[3]

(* to_pdf_bytes, PdfBudget::new: a cap below the reserves is refused, and   *)
(* Markdown over the cap less the reserve is not laid out.                  *)
OpenText ==
    /\ text.pc = "open"
    /\ LET size == FoldSeq(LAMBDA n, s : s + n + 1, 0, text.raw)
       IN  IF text.cap < FixedReserve + PageReserve \/ size > text.cap - FixedReserve THEN Oversized
           ELSE IF text.raw = <<>> THEN TextGo([pc |-> "empty"])
           ELSE TextGo([pc |-> "chars", spent |-> FixedReserve])

Fits(bytes) == text.spent + bytes <= text.cap

(* append_pdf_line and, on the page's last line, add_pdf_page; next is what *)
(* the loop goes on with.                                                   *)
PageOf(lines, spent) ==
    IF Len(lines) < LinesPerPage THEN [content |-> lines, spent |-> spent]
    ELSE [content |-> <<>>, pages |-> Append(text.pages, lines), spent |-> spent + PageReserve]

WriteLine(line, next) ==
    LET spent == text.spent + Cost(line)
        placed == PageOf(Append(text.content, line), spent)
    IN  IF ~Fits(Cost(line)) \/ placed.spent > text.cap THEN Oversized
        ELSE TextGo(placed @@ next)

\* Mutant: a line is broken after the character that overfills it.
PushCharLate ==
    /\ text.pc = "chars" /\ text.col < text.raw[text.row]
    /\ IF text.col - text.line > MaxLineBytes
       THEN WriteLine(<<text.row, text.line, text.col - text.line>>, [line |-> text.col, col |-> text.col + 1, wrote |-> TRUE])
       ELSE TextGo([col |-> text.col + 1])

PushChar ==     \* a full line is written before the next character
    /\ text.pc = "chars" /\ text.col < text.raw[text.row]
    /\ IF text.col - text.line = MaxLineBytes
       THEN WriteLine(<<text.row, text.line, text.col - text.line>>, [line |-> text.col, col |-> text.col + 1, wrote |-> TRUE])
       ELSE TextGo([col |-> text.col + 1])

\* Mutant: an empty line writes nothing.
KeepsLineFilled == text.col > text.line

KeepsLine == text.col > text.line \/ ~text.wrote

EndRaw ==
    /\ text.pc = "chars" /\ text.col = text.raw[text.row]
    /\ LET next == [row |-> text.row + 1, col |-> 0, line |-> 0, wrote |-> FALSE,
                    pc |-> IF text.row = Len(text.raw) THEN "flush" ELSE "chars"]
       IN  IF KeepsLine THEN WriteLine(<<text.row, text.line, text.col - text.line>>, next)
           ELSE TextGo(next)

FlushPage ==    \* the last page, the catalogue, the size of the file written
    /\ text.pc = "flush"
    /\ IF text.content = <<>> THEN TextGo([pc |-> "done"])
       ELSE IF ~Fits(PageReserve) THEN Oversized
       ELSE TextGo([pc |-> "done", content |-> <<>>, pages |-> Append(text.pages, text.content),
                    spent |-> text.spent + PageReserve])

-----------------------------------------------------------------------------
PdfIdle == native = NoNative /\ render = NoRender /\ text = NoText

PdfInit ==
    \/ /\ render = NoRender /\ text = NoText
       /\ \E doc \in PdfDocuments :
             native = [pc |-> "load", doc |-> doc, images |-> "unknown", reasons |-> {}, accepted |-> FALSE]
    \/ /\ native = NoNative /\ text = NoText
       /\ \E s \in RenderSizes :
             render = [pc |-> "measure", sizes |-> s, pending |-> <<>>, window |-> <<>>, running |-> {},
                       done |-> {}, warned |-> {}, verdict |-> "none"]
    \/ /\ native = NoNative /\ render = NoRender
       /\ \E t \in TextInputs, c \in TextCaps :
             text = [pc |-> "open", raw |-> t, cap |-> c, row |-> 1, col |-> 0, line |-> 0, wrote |-> FALSE,
                     content |-> <<>>, pages |-> <<>>, spent |-> 0]

PdfNext ==
    \/ LoadMetadata \/ DetectImages \/ InspectPdf \/ AssessPages \/ ExtractMarkdown
    \/ MeasurePages \/ AdmitWindow \/ FinishWindow
    \/ (render # NoRender /\ \E p \in DOMAIN render.sizes : PageRendered(p) \/ RenderJoinFails(p) \/ RenderOrphanEnds(p))
    \/ OpenText \/ PushChar \/ EndRaw \/ FlushPage

-----------------------------------------------------------------------------
(* The objects a page shows: what its resources, and those of the forms     *)
(* among them, name.                                                        *)
Step1(doc, ids) == UNION {IF doc.objects[i].kind = "form" THEN ToSet(Kids(doc, doc.objects[i])) ELSE {} : i \in ids}
RECURSIVE Reach(_, _)
Reach(doc, ids) == IF Step1(doc, ids) \subseteq ids THEN ids ELSE Reach(doc, ids \cup Step1(doc, ids))

ShownBy(doc) == Reach(doc, UNION {ToSet(Kids(doc, doc.pages[i])) : i \in DOMAIN doc.pages})

ShowsImage(doc) ==
    \/ \E i \in DOMAIN doc.pages : doc.pages[i].content = "inline"
    \/ \E i \in ShownBy(doc) : doc.objects[i].kind = "image"
                               \/ (doc.objects[i].kind = "form" /\ doc.objects[i].content = "inline")

(* What nobody can decide: content that does not decode, an opaque object,  *)
(* a cycle of page ancestors or of forms, or resources nested too deep.     *)
RECURSIVE Below(_, _, _)
Below(doc, ids, n) == IF n = 0 THEN ids ELSE Below(doc, Step1(doc, ids), n - 1)

Undecidable(doc) ==
    \/ \E i \in DOMAIN doc.pages : doc.pages[i].content = "broken" \/ doc.pages[i].up = -1
    \/ \E i \in ShownBy(doc) : doc.objects[i].kind = "opaque"
                               \/ (doc.objects[i].kind = "form" /\ doc.objects[i].content = "broken")
    \/ \E i \in ShownBy(doc) : i \in Reach(doc, Step1(doc, {i}))
    \/ \E p \in DOMAIN doc.pages, n \in 0..Len(doc.objects) :
          /\ Below(doc, ToSet(Kids(doc, doc.pages[p])), n) # {}
          /\ doc.pages[p].up + 3 * n + 2 > MaxResourceDepth

(* A PDF is accepted as it is only when no page of it shows an image and    *)
(* everything a page shows could be looked at; a rejection for an image or  *)
(* for uncertainty has one; sharing an object between pages or forms is no  *)
(* reason.                                                                  *)
NativeSound ==
    native # NoNative =>
        /\ native.accepted => ~ShowsImage(native.doc) /\ ~Undecidable(native.doc)
        /\ native.accepted => native.reasons = {"accepted"}
        /\ native.images = "yes" => ShowsImage(native.doc)
        /\ native.images = "err" => Undecidable(native.doc)

(* While a window is rendered the pages being rendered, with those waiting  *)
(* in the window, fit in the byte budget and no more than the workers run;  *)
(* a window that ends well has each page rendered or warned about, not      *)
(* both, and at least one rendered.                                         *)
RenderSound ==
    render # NoRender =>
        /\ Weight(render.running \cup ToSet(render.window)) <= InFlightCap
        /\ Cardinality(render.running) <= RenderWorkers
        /\ render.done \cap render.warned = {}
        /\ render.verdict = "ok" =>
              /\ render.done \cup render.warned = DOMAIN render.sizes /\ render.running = {}
              /\ render.done # {} \/ render.sizes = <<>>

(* The lines of a text: each raw line in pieces of MaxLineBytes, an empty   *)
(* one as an empty line.                                                    *)
Pieces(t) ==
    FlattenSeq([r \in DOMAIN t |->
        IF t[r] = 0 THEN << <<r, 0, 0>> >>
        ELSE [k \in 1..((t[r] + MaxLineBytes - 1) \div MaxLineBytes) |->
                 LET from == (k - 1) * MaxLineBytes
                 IN  <<r, from, IF t[r] - from < MaxLineBytes THEN t[r] - from ELSE MaxLineBytes>>]])

(* The pages hold the text's pieces, all of them and in order, every page   *)
(* but the last full; the budget is never overdrawn, and a text is refused  *)
(* as oversized only when its pieces and pages do not fit in it.            *)
TextSound ==
    text # NoText =>
        /\ text.spent <= text.cap
        /\ \A i \in DOMAIN text.pages : Len(text.pages[i]) \in 1..LinesPerPage
                                        /\ (i < Len(text.pages) => Len(text.pages[i]) = LinesPerPage)
        /\ text.pc = "done" => FlattenSeq(text.pages) = Pieces(text.raw)
        /\ text.pc = "oversized" =>
              LET pieces == Pieces(text.raw)
              IN  FoldSeq(LAMBDA l, s : s + Cost(l), FixedReserve, pieces)
                  + PageReserve * ((Len(pieces) + LinesPerPage - 1) \div LinesPerPage) > text.cap
                  \/ text.cap < FixedReserve + PageReserve

PdfSound == NativeSound /\ RenderSound /\ TextSound
=============================================================================
