----------------------------- MODULE LegacyTask -----------------------------
(***************************************************************************)
(* What the legacy service does inside one request (src/vlm_api.rs): the   *)
(* multipart form is read field by field (parse_form), and a task selects  *)
(* pages, runs the document through the page route, packages its artifacts *)
(* as ZIP or JSON, and is cleaned up when it fails (run_task, compact_pdf, *)
(* package_files, zip_result_capped, json_result).  Slots, records and     *)
(* workers are LegacyService's.                                            *)
(*                                                                         *)
(* A field is [name, value, size], sizes in units; "md" and "images" stand *)
(* for the return_... fields, "flag" and "page" for the other switches and *)
(* numbers.  An artifact is known by its role and has the length it was    *)
(* listed with and the one it has when it is copied; nothing is taken to   *)
(* compress.  The deadline may pass between any two steps.                 *)
(***************************************************************************)
EXTENDS Integers, Sequences, FiniteSets, SequencesExt, FiniteSetsExt

CONSTANTS FormFields,                           \* what a client may send
          FieldLimit, FileLimit, TextLimit, TextTotal, \* RequestLimits
          WholeDocument,                        \* 99_999, the default end
          Tasks,                                \* [pdf, ask, tree], see doc
          Overhead, ResultCap                   \* of a package; its cap

ASSUME LegacyTaskAssumption ==
    {FieldLimit, FileLimit, TextLimit, TextTotal, WholeDocument, Overhead, ResultCap} \subseteq Nat

VARIABLES
    form,    \* [fpc, count, total, known, files, options, why]
    sent,    \* history: the fields sent so far
    doc,     \* the task: pdf [pages, start, end], what it is to return (ask: [roles, zip, images,
             \* origin]) and what the route leaves (tree: [regular, images, listed, copied, mime])
    run,     \* [tpc, late, kept, wanted, why, queue, packed, size]
    disk     \* the task's directory: file -> "none", "part" or "whole"

formVars == <<form, sent>>
taskVars == <<doc, run, disk>>

-----------------------------------------------------------------------------
(* The form. *)
KnownNames == {"backend", "page", "url", "flag", "md", "images", "client_side"}
DefaultOptions == [backend |-> "vlm", md |-> TRUE, images |-> FALSE, client_side |-> FALSE, url |-> ""]

FormInit ==
    /\ form = [fpc |-> "reading", count |-> 0, total |-> 0, known |-> {}, files |-> 0,
               options |-> DefaultOptions, why |-> ""]
    /\ sent = <<>>

(* boolean, number and the lists of accepted words; a backend is looked at  *)
(* when the form has ended, and is any text until then.                     *)
ValueFits(f) ==
    CASE f.name \in {"md", "images", "client_side", "flag"} -> f.value \in {"true", "false"}
      [] f.name = "page" -> f.value = "number"
      [] f.name \in {"backend", "url"} -> f.value # "binary"

\* Mutant: the switch only adds to what was asked for.
ClientSideAdds(o) == IF o.client_side THEN [o EXCEPT !.images = TRUE] ELSE o

(* apply_client_side; the JSON files it switches on and off are left out.   *)
ClientSide(o) == IF o.client_side THEN [o EXCEPT !.md = FALSE, !.images = TRUE] ELSE o

SetOption(o, f) ==
    CASE f.name \in {"md", "images", "client_side"} -> [o EXCEPT ![f.name] = (f.value = "true")]
      [] f.name = "backend" -> [o EXCEPT !.backend = f.value]
      [] f.name = "url" /\ f.value # "empty" -> [o EXCEPT !.url = f.value]
      [] OTHER -> o

FormEnds(f, why) == [f EXCEPT !.fpc = "refused", !.why = why]

ReadFile(o, f) ==
    CASE o.files = 1 -> FormEnds(o, "content")
      [] o.files = 0 /\ f.value # "supported" -> FormEnds(o, "content")
      [] o.files = 0 /\ f.value = "supported" /\ f.size > FileLimit -> FormEnds(o, "limit")
      [] OTHER -> [o EXCEPT !.files = 1]

\* Mutant: only fields the service knows count towards the total.
TextTotalKnown(o, f) == IF f.name \in KnownNames THEN o.total + f.size ELSE o.total

(* Every text field counts, also one nobody knows. *)
TextTotalAfter(o, f) == o.total + f.size

\* Mutant: the second field of a name replaces the first.
AlreadySentNever(o, f) == FALSE

AlreadySent(o, f) == f.name \in o.known

ReadText(o, f) ==
    IF f.size > TextLimit \/ TextTotalAfter(o, f) > TextTotal THEN FormEnds(o, "limit")
    ELSE LET read == [o EXCEPT !.total = TextTotalAfter(o, f)]
         IN  CASE f.name \notin KnownNames -> read
               [] f.name \in KnownNames /\ (AlreadySent(o, f) \/ ~ValueFits(f)) -> FormEnds(read, "content")
               [] OTHER -> [read EXCEPT !.known = @ \cup {f.name}, !.options = SetOption(@, f)]

ReadField ==
    /\ form.fpc = "reading"
    /\ \E f \in FormFields :
          LET counted == [form EXCEPT !.count = @ + 1]
          IN  /\ sent' = Append(sent, f)
              /\ form' = IF counted.count > FieldLimit THEN FormEnds(counted, "limit")
                         ELSE IF f.name = "files" THEN ReadFile(counted, f) ELSE ReadText(counted, f)
    /\ UNCHANGED taskVars

EndForm ==
    /\ form.fpc = "reading"
    /\ form' = IF form.options.backend # "vlm" \/ form.files = 0 THEN FormEnds(form, "content")
               ELSE [form EXCEPT !.fpc = "accepted", !.options = ClientSide(@)]
    /\ UNCHANGED <<sent, taskVars>>

(* The connection, the disk, or the deadline of parse_form_until. *)
FormBreaks ==
    /\ form.fpc = "reading"
    /\ form' = FormEnds(form, "gone")
    /\ UNCHANGED <<sent, taskVars>>

FormNext == ReadField \/ EndForm \/ FormBreaks

-----------------------------------------------------------------------------
(* The task. *)
Roles == <<"md", "middle", "model", "content", "content_v2">>
Files == {"selected.partial", "selected", "stem", "result.partial", "result"}

TaskStart ==
    /\ run = [tpc |-> "compact", late |-> FALSE, kept |-> {}, wanted |-> 0, why |-> "",
              queue |-> <<>>, packed |-> <<>>, size |-> 0]
    /\ disk = [f \in Files |-> "none"]

TaskInit == doc \in Tasks /\ TaskStart

TaskAt(pc) == run.tpc = pc
Fail == run' = [run EXCEPT !.tpc = "cleanup"] /\ UNCHANGED disk
FailRemoving(gone) ==
    /\ run' = [run EXCEPT !.tpc = "cleanup"]
    /\ disk' = [f \in Files |-> IF f \in gone THEN "none" ELSE disk[f]]
Goes(pc) == run' = [run EXCEPT !.tpc = pc]
Writes(f, v) == disk' = [disk EXCEPT ![f] = v]
TaskKeeps == UNCHANGED <<doc, formVars>>

\* Mutant: a page number past the end is refused as such.
SelectedEndExact(end, last) == IF end = WholeDocument THEN last ELSE end

(* selected_end *)
SelectedEnd(end, last) == IF end = WholeDocument \/ end > last THEN last ELSE end

(* compact_pdf: an office document is taken as it is (no pages).            *)
Compact ==
    /\ TaskAt("compact")
    /\ LET last == doc.pdf.pages - 1
           end == SelectedEnd(doc.pdf.end, last)
           bad == doc.pdf.start > last \/ end < doc.pdf.start
       IN  \/ Fail
           \/ ~run.late /\ doc.pdf.pages = 0 /\ Goes("route") /\ UNCHANGED disk
           \/ /\ ~run.late /\ doc.pdf.pages > 0 /\ bad
              /\ run' = [run EXCEPT !.tpc = "cleanup", !.why = "range"]
              /\ UNCHANGED disk
           \/ /\ ~run.late /\ doc.pdf.pages > 0 /\ ~bad
              /\ run' = [run EXCEPT !.tpc = "compacting", !.wanted = end - doc.pdf.start + 1,
                                    !.kept = (0..last) \cap (doc.pdf.start..end)]
              /\ Writes("selected.partial", "part")
    /\ TaskKeeps

(* The cap, the disk, the deadline and the number of pages are looked at    *)
(* before the rename, the deadline again after it.                          *)
CompactInstalls ==
    /\ TaskAt("compacting")
    /\ \/ FailRemoving({"selected.partial"})
       \/ /\ Cardinality(run.kept) # run.wanted
          /\ run' = [run EXCEPT !.tpc = "cleanup", !.why = "pages"]
          /\ Writes("selected.partial", "none")
       \/ /\ ~run.late /\ Cardinality(run.kept) = run.wanted /\ Goes("compacted")
          /\ disk' = [disk EXCEPT !["selected.partial"] = "none", !["selected"] = "whole"]
    /\ TaskKeeps

CompactReturns ==
    /\ TaskAt("compacted")
    /\ IF run.late THEN FailRemoving({"selected.partial", "selected"}) ELSE Goes("route") /\ UNCHANGED disk
    /\ TaskKeeps

(* Reading, preparing, connecting and the page route, each under what is    *)
(* left of the deadline; RouteWindows models the last.                      *)
Route ==
    /\ TaskAt("route")
    /\ \/ Goes("cleanup") /\ \E left \in {"none", "part", "whole"} : Writes("stem", left)
       \/ ~run.late /\ Goes("list") /\ Writes("stem", "whole")
    /\ TaskKeeps

\* Mutant: the second content list goes into JSON as well.
AskedAll(ask) == SelectSeq(Roles, LAMBDA r : r \in ask.roles)

(* The JSON result has one key for both content lists. *)
Asked(ask) == SelectSeq(Roles, LAMBDA r : r \in ask.roles /\ (ask.zip \/ r # "content_v2"))

(* package_files: every text asked for must be a regular file, and every    *)
(* entry of images/.  The original is added to a ZIP only.                  *)
Listed(ask, tree) ==
    Asked(ask) \o (IF ask.images THEN [i \in 1..tree.images |-> "image"] ELSE <<>>)
               \o (IF ask.zip /\ ask.origin THEN <<"origin">> ELSE <<>>)

(* Before it is written, JSON is vetted: each length, and their sum with    *)
(* images in base64.                                                        *)
Base64(n) == ((n + 2) \div 3) * 4
JsonSize(tree, r) == IF r = "image" THEN Base64(tree.listed) + Overhead ELSE tree.listed
JsonFits(tree, queue) ==
    /\ tree.listed <= ResultCap
    /\ FoldLeft(LAMBDA n, r : n + JsonSize(tree, r), 0, queue) <= ResultCap

ListArtifacts ==
    /\ TaskAt("list")
    /\ LET queue == Listed(doc.ask, doc.tree)
           opened == queue # <<>> \/ doc.ask.roles # {}
       IN  IF run.late \/ (opened /\ ~doc.tree.regular) \/ (~doc.ask.zip /\ ~JsonFits(doc.tree, queue)) THEN Fail
           ELSE run' = [run EXCEPT !.tpc = "copy", !.queue = queue] /\ Writes("result.partial", "part")
    /\ TaskKeeps

\* Mutant: what grew while it was copied is cut off.
SnapshotPrefix(tree) == tree.copied >= tree.listed

(* copy_snapshot, read_snapshot: as long as it was when it was listed, and  *)
(* nothing follows.                                                         *)
Snapshot(tree) == tree.copied = tree.listed

CopyFailed == FailRemoving({"result.partial"})

CopyArtifact ==
    /\ TaskAt("copy") /\ run.queue # <<>>
    /\ LET role == Head(run.queue)
           taken == IF doc.tree.listed < doc.tree.copied THEN doc.tree.listed ELSE doc.tree.copied
           size == run.size + Overhead + (IF role = "image" /\ ~doc.ask.zip THEN Base64(taken) ELSE taken)
       IN  IF run.late \/ size > ResultCap \/ ~Snapshot(doc.tree)
              \/ (role = "image" /\ ~doc.ask.zip /\ ~doc.tree.mime) THEN CopyFailed
           ELSE /\ run' = [run EXCEPT !.queue = Tail(@), !.packed = Append(@, [role |-> role, size |-> doc.tree.copied]),
                                      !.size = size]
                /\ UNCHANGED disk
    /\ TaskKeeps

InstallResult ==
    /\ TaskAt("copy") /\ run.queue = <<>>
    /\ \/ CopyFailed
       \/ ~run.late /\ Goes("installed") /\ disk' = [disk EXCEPT !["result.partial"] = "none", !["result"] = "whole"]
    /\ TaskKeeps

ResultReturns ==
    /\ TaskAt("installed")
    /\ IF run.late THEN FailRemoving({"result.partial", "result"}) ELSE Goes("done") /\ UNCHANGED disk
    /\ TaskKeeps

\* Mutant: only the results are removed.
CleanedResults == {"result", "result.partial"}

(* cleanup_failure; the upload and the selected pages stay with the task's  *)
(* directory.                                                               *)
Cleaned == {"result", "result.partial", "stem"}

CleanUp ==
    /\ TaskAt("cleanup")
    /\ run' = [run EXCEPT !.tpc = "failed"]
    /\ disk' = [f \in Files |-> IF f \in Cleaned THEN "none" ELSE disk[f]]
    /\ TaskKeeps

TaskLate ==
    /\ ~run.late /\ run.tpc \notin {"done", "failed"}
    /\ run' = [run EXCEPT !.late = TRUE]
    /\ UNCHANGED <<disk, doc, formVars>>

TaskNext ==
    \/ Compact \/ CompactInstalls \/ CompactReturns \/ Route \/ ListArtifacts \/ CopyArtifact
    \/ InstallResult \/ ResultReturns \/ CleanUp \/ TaskLate

-----------------------------------------------------------------------------
(* Reference: the fields as a set, in no order. *)
Named(n) == {i \in DOMAIN sent : sent[i].name = n}
Sent(n, default) == IF Named(n) = {} THEN default ELSE sent[CHOOSE i \in Named(n) : TRUE].value
TextFields == {i \in DOMAIN sent : sent[i].name # "files"}
TextSum == FoldLeft(LAMBDA n, i : n + (IF i \in TextFields THEN sent[i].size ELSE 0), 0, [i \in DOMAIN sent |-> i])

OverLimit ==
    \/ Len(sent) > FieldLimit \/ TextSum > TextTotal
    \/ \E i \in DOMAIN sent : sent[i].size > IF i \in TextFields THEN TextLimit ELSE FileLimit

Illegal ==
    \/ Cardinality(Named("files")) # 1 \/ Sent("files", "") # "supported"
    \/ Sent("backend", "vlm") # "vlm"
    \/ \E n \in KnownNames : Cardinality(Named(n)) > 1 \/ \E i \in Named(n) : ~ValueFits(sent[i])

OptionsMeant ==
    LET client == Sent("client_side", "false") = "true"
        url == Sent("url", "empty")
    IN  [backend |-> "vlm", client_side |-> client, url |-> IF url = "empty" THEN "" ELSE url,
         md |-> ~client /\ Sent("md", "true") = "true", images |-> client \/ Sent("images", "false") = "true"]

(* A form is accepted only when it keeps every limit and holds one document *)
(* and no field twice, and then its options do not depend on the order of   *)
(* its fields (the client-side switch wins wherever it stands); one is      *)
(* refused for a limit or for its content only if it breaks one             *)
(* (parse_form, apply_client_side).                                         *)
FormSound ==
    /\ form.fpc = "accepted" => ~OverLimit /\ ~Illegal /\ form.options = OptionsMeant
    /\ form.fpc = "refused" => (form.why = "limit" => OverLimit) /\ (form.why = "content" => Illegal)

-----------------------------------------------------------------------------
(* Reference: the pages meant, and the package meant. *)
PagesMeant == {p \in 0..(doc.pdf.pages - 1) : p >= doc.pdf.start /\ (doc.pdf.end = WholeDocument \/ p <= doc.pdf.end)}

PackageMeant ==
    LET texts == {r \in Range(Roles) : r \in doc.ask.roles /\ (r = "content_v2" => doc.ask.zip)}
    IN  [r \in texts \cup (IF doc.ask.zip /\ doc.ask.origin THEN {"origin"} ELSE {})
              \cup (IF doc.ask.images /\ doc.tree.images > 0 THEN {"image"} ELSE {}) |->
            IF r = "image" THEN doc.tree.images ELSE 1]

Packed(r) == {i \in DOMAIN run.packed : run.packed[i].role = r}

(* A finished task leaves one whole result with everything that was asked   *)
(* for, each as long as it was when it was listed, within the cap, and      *)
(* nothing half-written; a failed one leaves no result, whatever step it    *)
(* failed at and also when only the deadline passed.  A range is refused    *)
(* only when it holds no page, and what is parsed are the pages meant       *)
(* (run_task, compact_pdf, zip_result_capped, json_result).                 *)
TaskSound ==
    /\ run.tpc = "done" =>
          /\ disk["result"] = "whole" /\ disk["result.partial"] = "none" /\ disk["stem"] = "whole"
          /\ {run.packed[i].role : i \in DOMAIN run.packed} = DOMAIN PackageMeant
          /\ \A r \in DOMAIN PackageMeant : Cardinality(Packed(r)) = PackageMeant[r]
          /\ \A i \in DOMAIN run.packed : run.packed[i].size = doc.tree.listed
          /\ FoldLeft(LAMBDA n, a : n + a.size, 0, run.packed) <= ResultCap
    /\ run.tpc = "failed" => \A f \in Files \ {"selected"} : disk[f] = "none"
    /\ run.why # "" => run.why = "range" /\ PagesMeant = {}
    /\ run.tpc \notin {"compact", "cleanup", "failed"} =>
          run.kept = PagesMeant /\ (PagesMeant = {} => doc.pdf.pages = 0)
=============================================================================
