------------------------------ MODULE MCReaders ------------------------------
(***************************************************************************)
(* The parts that read, plan and write documents, on bounded inputs: the   *)
(* zip and XML scanners, the settings, the planning of names, tasks and    *)
(* ranges, the merge of tables, the document builders, the PDF routing and *)
(* rendering, the CSV parser, the checks on a saved result, those on a     *)
(* request, and the form and the task of the legacy service.  They share   *)
(* no state in the model, so a behaviour exercises one of them and leaves  *)
(* the others in an initial state: the state space is the sum of the       *)
(* eleven, not their product.                                              *)
(***************************************************************************)
EXTENDS PackageScan, Settings, TableMerge, DocumentBuild, PdfWork, NativeCsv,
        ResultMarkup, WireChecks, LegacyTask

VARIABLE part       \* which part this behaviour exercises

UpTo(S, n) == UNION {[1..k -> S] : k \in 0..n}

-----------------------------------------------------------------------------
MCEntryPaths == {<<"a">>, <<"a", "b">>, <<"..", "b">>}
MCPartOf(n, x, s, t) == [name |-> n, xml |-> x, size |-> s, targets |-> t]
MCPackages == {
    <<MCPartOf("rels", TRUE, 1, {"doc", "bin"}), MCPartOf("doc", TRUE, 2, {}), MCPartOf("bin", FALSE, 1, {})>>,
    <<MCPartOf("rels", TRUE, 1, {"doc", "gone"}), MCPartOf("more", TRUE, 1, {"bin"}), MCPartOf("doc", TRUE, 2, {}),
      MCPartOf("bin", FALSE, 3, {})>>,
    <<MCPartOf("doc", TRUE, 1, {}), MCPartOf("doc", TRUE, 2, {})>>,
    <<MCPartOf("bin", FALSE, 1, {}), MCPartOf("other", FALSE, 2, {}), MCPartOf("rels", TRUE, 1, {"bin"})>>}

MCDefaultOf == [a |-> 5, b |-> 8]

\* Names that collide after folding, after a suffix and after truncation.
MCStems == {<<"a">>, <<"A">>, <<"b">>, <<"a", "_2">>, <<"a", "_3">>, <<"A", "_1">>, <<"a", "b">>, <<"a", "A">>,
            <<"a", "b", "b">>, <<"a", "b", "A">>, <<"A", "_2", "b">>}

MCCell(c, r, t) == [col |-> c, row |-> r, text |-> t]
MCTableRows == {<<MCCell(1, 1, "h"), MCCell(1, 1, "h")>>, <<MCCell(2, 1, "h")>>, <<MCCell(1, 2, ""), MCCell(1, 1, "x")>>,
                <<MCCell(1, 2, "y"), MCCell(1, 1, "")>>, <<MCCell(1, 1, "y")>>,
                <<MCCell(1, 1, "x"), MCCell(1, 1, ""), MCCell(1, 1, "z")>>, <<MCCell(1, 1, ""), MCCell(2, 1, "z")>>, <<>>}

MCText(m, j, o) == [type |-> "text", merge |-> m, joins |-> j, open |-> o, captions |-> <<>>, notes |-> 0]
MCTable(c, n) == [type |-> "table", merge |-> FALSE, joins |-> FALSE, open |-> FALSE, captions |-> c, notes |-> n]
MCNodeKinds == {MCText(FALSE, FALSE, TRUE), MCText(TRUE, TRUE, TRUE), [MCText(FALSE, FALSE, FALSE) EXCEPT !.type = "refs"],
                MCTable(<<>>, 0), MCTable(<<<<TRUE, FALSE, FALSE>>, <<FALSE, TRUE, TRUE>>>>, 2)}
MCBoxes == {<<0, 2>>, <<1, 2>>, <<2, 4>>}
MCBlockKinds == {"text", "list", "caption", "footnote", "table_body", "image_body", "code_body", "image_block_body", "header"}

MCForm(c, k, via) == [kind |-> "form", content |-> c, kids |-> k, via |-> via]
MCLeaf(k) == [kind |-> k, content |-> "plain", kids |-> <<>>, via |-> 0]
MCObjects == {MCLeaf("image"), MCLeaf("opaque"), MCForm("plain", <<>>, 0), MCForm("inline", <<>>, 0), MCForm("broken", <<>>, 0),
              MCForm("plain", <<1>>, 0), MCForm("plain", <<3>>, 0), MCForm("plain", <<2, 3>>, 0), MCForm("plain", <<3, 1>>, 0),
              MCForm("plain", <<>>, 1)}
MCPage(c, k, up) == [content |-> c, kids |-> k, via |-> 0, up |-> up]
MCShown == {MCPage("plain", <<1, 2>>, 0), MCPage("plain", <<2, 1>>, 2), MCPage("plain", <<1, 1>>, 1)}
MCPlain == MCPage("plain", <<>>, 0)
MCPages == MCShown \cup {MCPlain, MCPage("plain", <<>>, -1), MCPage("broken", <<1>>, 0), MCPage("inline", <<>>, 0)}
MCPdf(o, p) == [objects |-> o, dicts |-> << <<2>> >>, pages |-> p]
MCDocuments == {MCPdf(o, <<a>>) : o \in [1..3 -> MCObjects], a \in MCShown}
               \cup {MCPdf(o, p) : o \in [1..2 -> {MCLeaf("image"), MCForm("plain", <<2>>, 0), MCForm("plain", <<>>, 0)}],
                                   p \in (MCPages \X MCPages) \cup {<<>>, <<MCPlain, MCPlain, MCPlain>>}}
MCSizes == UpTo(0..4, 4)
MCTexts == UpTo(0..4, 3)

MCCsvTexts == UpTo({"x", ",", ";", "q", "r", "n"}, 4)
    \cup {<<"q">> \o w \o <<"q", ",", "x", "n", "sp", ",">> : w \in UpTo({"x", "lt", "r", "n", "ctl", "sp", "bar"}, 2)}
MCMarkups == {<<"<table>", "<tr>">> \o w \o <<"</tr>", "</table>">> :
                w \in UpTo({"<td>", "</td>", "<th>", "</th>", "</tr>", "<tr>", "<br>", "x", "&lt;", "<table>", "</table>", "sp", "&other;"}, 3)}
MCString(x) == [text |-> x]
MCObject(es) == [entries |-> es]
MCOther == [other |-> TRUE]
MCRust == <<"name", MCString("mineru-rs")>>
MCProducers == {MCObject(<<>>), MCObject(<<MCRust>>), MCObject(<<MCRust, <<"name", MCOther>>>>),
                MCObject(<<<<"name", MCString("pdf")>>, MCRust>>), MCOther, MCString("mineru-rs")}
MCEntries == {<<"file_suffix", MCString("csv")>>, <<"file_suffix", MCString("pdf")>>, <<"file_suffix", MCObject(<<>>)>>}
             \cup {<<"producer", p>> : p \in MCProducers}
MCMetadata == {MCObject(es) : es \in UpTo(MCEntries, 3)} \cup {MCOther}
MCTwice == {MCObject(es) : es \in UpTo({<<"file_suffix", MCString("csv")>>, <<"producer", MCObject(<<MCRust>>)>>}, 2)} \cup {MCString("csv")}
MCJsons == {<<<<"metadata", a>>>> : a \in MCMetadata}
           \cup {<<<<"metadata", a>>, <<"pages", MCOther>>, <<"metadata", b>>>> : a, b \in MCTwice}
           \cup {<<>>, <<<<"pages", MCOther>>>>}

MCFenceLines == {<<"tick", "tick", "tick">>, <<"tilde", "tilde", "tilde">>, <<"tick", "tick", "tick", "tick">>, <<"tick", "tick">>,
                 <<"sp", "tick", "tick", "tick">>, <<"tick", "tick", "tick", "x">>, <<"missing">>, <<"x", "tick", "missing", "tick">>,
                 <<"sp", "sp", "sp", "sp", "missing">>}
MCMarkdowns == UpTo({"tick", "sp", "nl", "missing"}, 5)
    \cup {a \o <<"nl">> \o b \o <<"nl">> \o c : a, b, c \in MCFenceLines}
    \cup UpTo({"<pre", "pre>", "<code", "code>", "nl", "missing"}, 4)
MCBlocks == {[kind |-> k, path |-> p, text |-> t, kids |-> <<>>] :
                k \in {"image_body", "equation", "code_body"}, p \in {"none", "owned", "missing", "remote"},
                t \in {<<>>, <<"missing">>, <<"tick", "missing", "tick">>}}
MCBlockTrees == {<<a>> : a \in MCBlocks} \cup {<<[a EXCEPT !.kids = <<b>>, !.text = <<>>]>> : a, b \in MCBlocks}
MCNames == UpTo({"images", "a", "", ".", "..", "device", "control"}, 3)

MCEndpoints == [relative : BOOLEAN, n : 0..3]

MCField(n, v, s) == [name |-> n, value |-> v, size |-> s]
MCFormFields == {MCField("files", "supported", 2), MCField("files", "supported", 4), MCField("files", "other", 1),
                 MCField("client_side", "true", 1), MCField("md", "true", 1), MCField("images", "false", 1),
                 MCField("images", "maybe", 1), MCField("backend", "hybrid", 1), MCField("backend", "vlm", 2),
                 MCField("url", "empty", 0), MCField("url", "u", 3), MCField("other", "x", 1), MCField("other", "x", 2)}
MCTask(p, a, t) == [pdf |-> p, ask |-> a, tree |-> t]
MCPdfAsked == [pages |-> 3, start |-> 1, end |-> 9]
MCSelection == [roles |-> {"md"}, zip |-> TRUE, images |-> FALSE, origin |-> FALSE]
MCTree == [regular |-> TRUE, images |-> 0, listed |-> 1, copied |-> 1, mime |-> TRUE]
MCTasks == {MCTask(p, MCSelection, MCTree) : p \in [pages : 0..3, start : 0..2, end : {0, 1, 2, 9}]}
    \cup {MCTask(MCPdfAsked, a, t) :
            a \in [roles : {{}, {"md", "content", "content_v2"}}, zip : BOOLEAN, images : BOOLEAN, origin : BOOLEAN],
            t \in [regular : BOOLEAN, images : {0, 2}, listed : {1, 2}, copied : {1, 2}, mime : BOOLEAN]}

-----------------------------------------------------------------------------
(* An idle part is in one of its initial states, or switched off. *)
ScanIdle == ScanInit
SettingsIdle ==
    /\ ask = [lane |-> "text", env |-> [k \in Knobs |-> Absent], cli |-> [k \in Knobs |-> Absent], masks |-> FALSE]
    /\ resident = [route |-> MCDefaultOf["b"], explicit |-> FALSE, verdict |-> "none"] /\ SettingsInit
PlanningIdle == quiz = "range" /\ pages = 1 /\ range = [start |-> 0, end |-> -1] /\ PlanningInit
LegacyIdle == FormInit /\ doc = MCTask(MCPdfAsked, MCSelection, MCTree) /\ TaskStart
TableIdle == flags = {} /\ given = [upper |-> <<>>, lower |-> <<>>] /\ tpc = "refused" /\ heads = 0 /\ upper = <<>> /\ lower = <<>>

ReadersInit ==
    \/ part = "scan" /\ ScanInit
       /\ SettingsIdle /\ PlanningIdle /\ TableIdle /\ BuildIdle /\ PdfIdle /\ CsvIdle /\ MarkupIdle /\ WireIdle /\ LegacyIdle
    \/ part = "settings" /\ SettingsInit
       /\ ScanIdle /\ PlanningIdle /\ TableIdle /\ BuildIdle /\ PdfIdle /\ CsvIdle /\ MarkupIdle /\ WireIdle /\ LegacyIdle
    \/ part = "planning" /\ PlanningInit
       /\ ScanIdle /\ SettingsIdle /\ TableIdle /\ BuildIdle /\ PdfIdle /\ CsvIdle /\ MarkupIdle /\ WireIdle /\ LegacyIdle
    \/ part = "tables" /\ TableInit
       /\ ScanIdle /\ SettingsIdle /\ PlanningIdle /\ BuildIdle /\ PdfIdle /\ CsvIdle /\ MarkupIdle /\ WireIdle /\ LegacyIdle
    \/ part = "build" /\ BuildInit
       /\ ScanIdle /\ SettingsIdle /\ PlanningIdle /\ TableIdle /\ PdfIdle /\ CsvIdle /\ MarkupIdle /\ WireIdle /\ LegacyIdle
    \/ part = "pdf" /\ PdfInit
       /\ ScanIdle /\ SettingsIdle /\ PlanningIdle /\ TableIdle /\ BuildIdle /\ CsvIdle /\ MarkupIdle /\ WireIdle /\ LegacyIdle
    \/ part = "csv" /\ CsvInit
       /\ ScanIdle /\ SettingsIdle /\ PlanningIdle /\ TableIdle /\ BuildIdle /\ PdfIdle /\ MarkupIdle /\ WireIdle /\ LegacyIdle
    \/ part = "markup" /\ MarkupInit
       /\ ScanIdle /\ SettingsIdle /\ PlanningIdle /\ TableIdle /\ BuildIdle /\ PdfIdle /\ CsvIdle /\ WireIdle /\ LegacyIdle
    \/ part = "wire" /\ WireInit
       /\ ScanIdle /\ SettingsIdle /\ PlanningIdle /\ TableIdle /\ BuildIdle /\ PdfIdle /\ CsvIdle /\ MarkupIdle /\ LegacyIdle
    \/ part \in {"form", "task"} /\ FormInit /\ TaskInit /\ (part = "form" => LegacyIdle)
       /\ ScanIdle /\ SettingsIdle /\ PlanningIdle /\ TableIdle /\ BuildIdle /\ PdfIdle /\ CsvIdle /\ MarkupIdle /\ WireIdle

legacyVars == <<formVars, taskVars>>
readersVars == <<part, scanVars, settingsVars, planningVars, tableVars, buildVars, pdfVars, csvVars, markupVars, wireVars, legacyVars>>

ScanPart == part = "scan" /\ ScanNext /\ UNCHANGED <<part, settingsVars, planningVars, tableVars, buildVars, pdfVars, csvVars, markupVars, wireVars, legacyVars>>
SettingsPart == part = "settings" /\ SettingsNext /\ UNCHANGED <<part, scanVars, planningVars, tableVars, buildVars, pdfVars, csvVars, markupVars, wireVars, legacyVars>>
PlanningPart == part = "planning" /\ PlanningNext /\ UNCHANGED <<part, scanVars, settingsVars, tableVars, buildVars, pdfVars, csvVars, markupVars, wireVars, legacyVars>>
TablePart == part = "tables" /\ TableNext /\ UNCHANGED <<part, scanVars, settingsVars, planningVars, buildVars, pdfVars, csvVars, markupVars, wireVars, legacyVars>>
BuildPart == part = "build" /\ BuildNext /\ UNCHANGED <<part, scanVars, settingsVars, planningVars, tableVars, pdfVars, csvVars, markupVars, wireVars, legacyVars>>
PdfPart == part = "pdf" /\ PdfNext /\ UNCHANGED <<part, scanVars, settingsVars, planningVars, tableVars, buildVars, csvVars, markupVars, wireVars, legacyVars>>
CsvPart == part = "csv" /\ CsvNext /\ UNCHANGED <<part, scanVars, settingsVars, planningVars, tableVars, buildVars, pdfVars, markupVars, wireVars, legacyVars>>
MarkupPart == part = "markup" /\ MarkupNext /\ UNCHANGED <<part, scanVars, settingsVars, planningVars, tableVars, buildVars, pdfVars, csvVars, wireVars, legacyVars>>
WirePart == part = "wire" /\ WireNext /\ UNCHANGED <<part, scanVars, settingsVars, planningVars, tableVars, buildVars, pdfVars, csvVars, markupVars, legacyVars>>
FormPart == part = "form" /\ FormNext /\ UNCHANGED <<part, scanVars, settingsVars, planningVars, tableVars, buildVars, pdfVars, csvVars, markupVars, wireVars>>
TaskPart == part = "task" /\ TaskNext /\ UNCHANGED <<part, scanVars, settingsVars, planningVars, tableVars, buildVars, pdfVars, csvVars, markupVars, wireVars>>

ReadersNext == ScanPart \/ SettingsPart \/ PlanningPart \/ TablePart \/ BuildPart
               \/ PdfPart \/ CsvPart \/ MarkupPart \/ WirePart \/ FormPart \/ TaskPart

ReadersSpec == ReadersInit /\ [][ReadersNext]_readersVars

-----------------------------------------------------------------------------
(* What comes from outside is vetted, and what was asked is what is done.  An *)
(* archive is accepted exactly when its entries are disjoint and cover what   *)
(* precedes the directory, XML exactly when it is well formed, and office     *)
(* only after every part a converter will read as XML was vetted once         *)
(* (archive.rs, zip_scan.rs, ooxml.rs).  A setting is the user's, the         *)
(* environment's or the default, names never collide, each document is        *)
(* planned once, and an accepted request's ranges, bodies and form hold what  *)
(* they say (command/env.rs, mineru_api/planning.rs, official_api/wire.rs).   *)
(* A package handed out holds what was asked for, whole, and a failed task    *)
(* leaves none (vlm_api.rs).                                                  *)
InputsSound ==
    /\ ScanExact /\ XmlExact /\ PackageVetted
    /\ SettingsSound /\ PlanSound /\ WireSound /\ FormSound /\ TaskSound

(* No content is lost, doubled or out of order by the merge of tables, the    *)
(* grouping of blocks or the merges across pages (official_builders.rs); what *)
(* a text file or a saved result says survives: a CSV grid through its HTML   *)
(* and back, and an image a Markdown reader would show is owned by the result *)
(* (official/native, official/result_assets.rs).                              *)
TextsSound == TableSound /\ BuildSound /\ CsvSound /\ MarkupSound
=============================================================================
