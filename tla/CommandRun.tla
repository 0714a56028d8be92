----------------------------- MODULE CommandRun -----------------------------
(***************************************************************************)
(* A direct run of the command line (src/command/mod.rs, direct.rs): plan  *)
(* the inputs, announce the ones a limit or a missing feature will refuse, *)
(* then take the documents one after the other through the lane of the     *)
(* backend, and tell the terminal what became of each (plain.rs, rich.rs). *)
(*                                                                         *)
(* Lanes: "vlm" converts and parses with a client connected at the first   *)
(* use, "hybrid" hands PDFs and images to the official worker, "local"     *)
(* converts to text with the helper.  The files are not the run's own:     *)
(* they may grow past a limit or disappear between any two looks at them.  *)
(* RemoteRun models the lane of --api-url, Settings the values of options. *)
(***************************************************************************)
EXTENDS Integers, Sequences, FiniteSets, SequencesExt

CONSTANTS NDocs,       \* documents of the run
          Features     \* office lanes compiled in, a subset of {"office", "legacy"}

ASSUME CommandAssumption == NDocs \in Nat \ {0} /\ Features \subseteq {"office", "legacy"}

DocIds == 1..NDocs
RunLanes == {"vlm", "hybrid", "local"}
Kinds == {"pdf", "image", "office", "legacy"}

VARIABLES
    lane, kind,
    size,        \* document -> "fits", "big", "gone": its file now
    cpc,         \* the run
    cur,         \* document under work
    doomed,      \* documents refused before the loop
    fails,       \* the failures list, in order
    client,      \* "none", "up", "broken" (its configuration was consumed)
    worker,      \* official worker: "none", "perdoc", "persistent", "stopped"
    held,        \* size of the bytes read for cur, "none" between documents
    log,         \* document -> its events
    ui,          \* renderer: [active, term, lines, summary]; line 0 is the run's error
    verdict, exit

runVars == <<lane, kind, size, cpc, cur, doomed, fails, client, worker, held,
             log, ui, verdict, exit>>

-----------------------------------------------------------------------------
(* rich.rs handle_progress: an event of a scope that ended is ignored; a    *)
(* completed or failed document leaves the bars for good; any other event   *)
(* gives it a bar.  plain.rs prints the same events as lines.               *)
HandleAll(u, d, event) ==
    IF event \in {"completed", "failed"}
    THEN [u EXCEPT !.term[d] = event, !.active = @ \ {d},
                   !.lines = IF event = "failed" THEN @ \cup {d} ELSE @]
    ELSE [u EXCEPT !.active = @ \cup {d}]

Handle(u, d, event) == IF u.term[d] # "none" THEN u ELSE HandleAll(u, d, event)

Emit(d, event) ==
    /\ log' = [log EXCEPT ![d] = Append(@, event)]
    /\ ui' = Handle(ui, d, event)

Quiet == UNCHANGED <<log, ui>>

DocumentFailed(d) == Emit(d, "failed") /\ fails' = Append(fails, d)

(* run_inner returns with this result. *)
Return(v) == verdict' = v /\ cpc' = "drain"

CommandInit ==
    /\ lane \in RunLanes /\ kind \in [DocIds -> Kinds]
    /\ size \in [DocIds -> {"fits", "big"}]
    /\ cpc = "plan" /\ cur = 1
    /\ doomed = {} /\ fails = <<>>
    /\ client = "none" /\ worker = "none" /\ held = "none"
    /\ log = [d \in DocIds |-> <<>>]
    /\ ui = [active |-> {}, term |-> [d \in DocIds |-> "none"], lines |-> {}, summary |-> <<>>]
    /\ verdict = "none" /\ exit = "none"

(* Someone writes to an input, or removes it. *)
FileChanges(d) ==
    /\ exit = "none" /\ size[d] = "fits"
    /\ \E s \in {"big", "gone"} : size' = [size EXCEPT ![d] = s]
    /\ UNCHANGED <<lane, kind, cpc, cur, doomed, fails, client, worker, held, log, ui, verdict, exit>>

-----------------------------------------------------------------------------
(* run_core and the head of run_inner: the options are refused, or an input *)
(* the lane cannot take, or an output path inside the input, before any     *)
(* document event.                                                          *)
Supported(d) == CASE lane = "hybrid" -> kind[d] \in {"pdf", "image"}
                  [] lane = "local"  -> kind[d] \in {"pdf", "legacy"}
                  [] OTHER           -> TRUE

(* Controls, given by flag or environment, that the lane could not act on.  *)
(* The local lane drops VLM transport controls instead of refusing them.    *)
Controls == {"transport", "remote_only", "server_owned", "helper", "document"}
TransportRefused == IF lane = "hybrid" THEN {"transport"} ELSE {}
HelperRefused == IF lane = "local" THEN {"helper"} ELSE {}
RemoteOnlyRefused == {"remote_only"}
ServerOwnedRefused == {"server_owned"}

PlanRun ==
    /\ cpc = "plan"
    /\ \E given \in SUBSET Controls :
          LET refused == TransportRefused \cup HelperRefused \cup RemoteOnlyRefused \cup ServerOwnedRefused
          IN  \/ /\ given \cap refused = {} /\ \A d \in DocIds : Supported(d)
                 /\ cpc' = "preflight" /\ UNCHANGED verdict
              \/ Return("refused")   \* malformed values, bad options, output inside the input
    /\ UNCHANGED <<lane, kind, size, cur, doomed, fails, client, worker, held, log, ui, exit>>

(* The advisory preflight looks at the sizes only; a file it cannot stat is *)
(* left to the loop.                                                        *)
Unavailable(d) == kind[d] \in {"office", "legacy"} /\ kind[d] \notin Features

Preflight ==
    /\ cpc = "preflight" /\ cur <= NDocs
    /\ IF size[cur] # "gone" /\ (Unavailable(cur) \/ size[cur] = "big")
       THEN DocumentFailed(cur) /\ doomed' = doomed \cup {cur}
       ELSE Quiet /\ UNCHANGED <<fails, doomed>>
    /\ cur' = cur + 1
    /\ UNCHANGED <<lane, kind, size, cpc, client, worker, held, verdict, exit>>

PreflightDone ==
    /\ cpc = "preflight" /\ cur > NDocs
    /\ cur' = 1
    /\ IF doomed = DocIds THEN Return("listed")
       ELSE cpc' = (IF lane = "hybrid" THEN "validate" ELSE "loop") /\ UNCHANGED verdict
    /\ UNCHANGED <<lane, kind, size, doomed, fails, client, worker, held, log, ui, exit>>

(* run_official_hybrid_documents reads and validates every document before  *)
(* the worker exists, and reads it again in the loop.                       *)
ValidateHybrid ==
    /\ cpc = "validate" /\ cur <= NDocs
    /\ \/ (cur \in doomed \/ size[cur] = "fits") /\ Quiet /\ UNCHANGED <<fails, doomed>>
       \/ cur \notin doomed /\ DocumentFailed(cur) /\ doomed' = doomed \cup {cur}
    /\ cur' = cur + 1
    /\ UNCHANGED <<lane, kind, size, cpc, client, worker, held, verdict, exit>>

(* The worker mode follows the documents that are left, unless it is given; *)
(* the constructors may fail.                                               *)
WorkerMode == IF Cardinality(DocIds \ doomed) = 1 THEN "perdoc" ELSE "persistent"

ChooseWorker ==
    /\ cpc = "validate" /\ cur > NDocs
    /\ cur' = 1
    /\ \/ doomed = DocIds /\ Return("listed") /\ UNCHANGED worker
       \/ /\ doomed # DocIds /\ cpc' = "loop"
          /\ \E w \in {WorkerMode, "perdoc", "persistent"} : worker' = w
          /\ UNCHANGED verdict
       \/ doomed # DocIds /\ Return("fatal") /\ UNCHANGED worker
    /\ UNCHANGED <<lane, kind, size, doomed, fails, client, held, log, ui, exit>>

-----------------------------------------------------------------------------
StartDocument ==
    /\ cpc = "loop" /\ cur <= NDocs /\ cur \notin doomed
    /\ Emit(cur, "started")
    /\ cpc' = "open"
    /\ UNCHANGED <<lane, kind, size, cur, doomed, fails, client, worker, held, verdict, exit>>

SkipDoomed ==
    /\ cpc = "loop" /\ cur <= NDocs /\ cur \in doomed
    /\ cur' = cur + 1
    /\ UNCHANGED <<lane, kind, size, cpc, doomed, fails, client, worker, held, log, ui, verdict, exit>>

(* The error arm of the loop.  A client whose configuration was consumed    *)
(* without a connection ends the whole run, with no event.                  *)
DocumentErrs(c) ==
    /\ held' = "none"
    /\ IF lane = "vlm" /\ c = "broken"
       THEN Return("fatal") /\ Quiet /\ UNCHANGED <<fails, cur>>
       ELSE /\ DocumentFailed(cur) /\ cpc' = "loop" /\ cur' = cur + 1
            /\ UNCHANGED verdict

(* snapshot: the open descriptor is measured, then copied under the cap. *)
OpenInput ==
    /\ cpc = "open"
    /\ \/ /\ size[cur] = "fits" /\ cpc' = "copy"
          /\ Quiet /\ UNCHANGED <<cur, fails, held, verdict>>
       \/ DocumentErrs(client)
    /\ UNCHANGED <<lane, kind, size, doomed, client, worker, exit>>

\* Mutant: the copy trusts the size that was measured.
CopyInputUncapped ==
    /\ cpc = "copy"
    /\ held' = size[cur] /\ cpc' = "prepare"
    /\ Quiet
    /\ UNCHANGED <<lane, kind, size, doomed, client, worker, exit, cur, fails, verdict>>

(* An unlinked file is still read through its descriptor. *)
CopyInput ==
    /\ cpc = "copy"
    /\ \/ /\ size[cur] # "big" /\ held' = "fits" /\ cpc' = "prepare"
          /\ Quiet /\ UNCHANGED <<cur, fails, verdict>>
       \/ DocumentErrs(client)
    /\ UNCHANGED <<lane, kind, size, doomed, client, worker, exit>>

(* Conversion and limits of the lane.  The local lane writes its text here, *)
(* with nothing left to fail afterwards.                                    *)
PrepareDocument ==
    /\ cpc = "prepare"
    /\ \/ /\ Emit(cur, "prepared")
          /\ cpc' = CASE lane = "vlm" -> "connect" [] lane = "hybrid" -> "parse" [] OTHER -> "complete"
          /\ UNCHANGED <<cur, fails, held, verdict>>
       \/ DocumentErrs(client)
    /\ UNCHANGED <<lane, kind, size, doomed, client, worker, exit>>

\* Mutant: a failed connection leaves the client as if it had not been tried.
ConnectAnew ==
    /\ cpc = "connect"
    /\ \/ client' = "up" /\ cpc' = "parse" /\ Quiet /\ UNCHANGED <<cur, fails, held, verdict>>
       \/ client = "none" /\ client' = "broken" /\ held' = "none" /\ cpc' = "loop" /\ cur' = cur + 1
          /\ Quiet /\ UNCHANGED <<fails, verdict>>
    /\ UNCHANGED <<lane, kind, size, doomed, worker, exit>>

(* ensure_vlm_client, unless the document's deadline has passed by then. *)
Connect ==
    /\ cpc = "connect"
    /\ \/ client' = "up" /\ cpc' = "parse" /\ Quiet /\ UNCHANGED <<cur, fails, held, verdict>>
       \/ client = "none" /\ client' = "broken" /\ DocumentErrs("broken")
       \/ client' = client /\ DocumentErrs(client)
    /\ UNCHANGED <<lane, kind, size, doomed, worker, exit>>

(* The client's route or the worker, then the publication. *)
ParseDocument ==
    /\ cpc = "parse"
    /\ \/ cpc' = "complete" /\ Quiet /\ UNCHANGED <<cur, fails, held, verdict>>
       \/ DocumentErrs(client)
    /\ UNCHANGED <<lane, kind, size, doomed, client, worker, exit>>

CompleteDocument ==
    /\ cpc = "complete"
    /\ Emit(cur, "completed")
    /\ held' = "none" /\ cpc' = "loop" /\ cur' = cur + 1
    /\ UNCHANGED <<lane, kind, size, doomed, fails, client, worker, verdict, exit>>

Listed == IF fails = <<>> THEN "ok" ELSE "listed"

(* The persistent worker is shut down after the last document; its error    *)
(* replaces the list of failures.                                           *)
LoopDone ==
    /\ cpc = "loop" /\ cur > NDocs
    /\ IF worker = "persistent"
       THEN /\ worker' = "stopped"
            /\ \E v \in {Listed, "fatal"} : Return(v)
       ELSE Return(Listed) /\ UNCHANGED worker
    /\ UNCHANGED <<lane, kind, size, cur, doomed, fails, client, held, log, ui, exit>>

(* run_with_scoped_events: the office and raster workers are drained        *)
(* whatever the result.                                                     *)
Drain ==
    /\ cpc = "drain" /\ cpc' = "report"
    /\ UNCHANGED <<lane, kind, size, cur, doomed, fails, client, worker, held, log, ui, verdict, exit>>

(* The tail of run_cli: the error itself is printed only if no document     *)
(* failure was; then the summary.                                           *)
TypedFailure == \E d \in DocIds : "failed" \in ToSet(log[d])

ReportRun ==
    /\ cpc = "report" /\ exit = "none"
    /\ exit' = IF verdict = "ok" THEN "0" ELSE "1"
    /\ ui' = [ui EXCEPT
                !.active = {},
                !.lines = IF verdict # "ok" /\ ~TypedFailure THEN @ \cup {0} ELSE @,
                !.summary = <<Cardinality({d \in DocIds : ui.term[d] = "completed"}),
                              Cardinality({d \in DocIds : ui.term[d] = "failed"})>>]
    /\ UNCHANGED <<lane, kind, size, cpc, cur, doomed, fails, client, worker, held, log, verdict>>

CommandStep ==
    \/ PlanRun \/ Preflight \/ PreflightDone \/ ValidateHybrid \/ ChooseWorker
    \/ StartDocument \/ SkipDoomed \/ OpenInput \/ CopyInput \/ PrepareDocument
    \/ Connect \/ ParseDocument \/ CompleteDocument \/ LoopDone \/ Drain \/ ReportRun

CommandNext == CommandStep \/ \E d \in DocIds : FileChanges(d)

CommandSpec == CommandInit /\ [][CommandNext]_runVars

-----------------------------------------------------------------------------
(* What the run returns and shows is what happened.  A finished document    *)
(* has one terminal event, its last; a run that returns a list, or success, *)
(* has finished every document, and its list is exactly the failed ones,    *)
(* the announced ones first; only a connection or a worker that could not   *)
(* be had ends a run early; the summary counts agree with the events, no    *)
(* bar outlives the run, and a failed run always says something.            *)
Ended(d) == log[d] # <<>> /\ Last(log[d]) \in {"completed", "failed"}

CommandHonest ==
    /\ \A d \in DocIds :
          /\ \A i \in 1..(Len(log[d]) - 1) : log[d][i] \notin {"completed", "failed"}
          /\ "completed" \in ToSet(log[d]) => log[d] = <<"started", "prepared", "completed">>
    /\ verdict \in {"ok", "listed"} =>
          /\ \A d \in DocIds : Ended(d)
          /\ Len(fails) = Cardinality(ToSet(fails))
          /\ ToSet(fails) = {d \in DocIds : Last(log[d]) = "failed"}
          /\ doomed = ToSet(SubSeq(fails, 1, Cardinality(doomed)))
          /\ worker # "persistent"
    /\ verdict = "ok" => fails = <<>>
    /\ verdict = "fatal" => lane = "hybrid" \/ client = "broken"
    /\ exit # "none" =>
          /\ ui.active = {} /\ (exit = "0" <=> verdict = "ok")
          /\ ui.summary = <<Cardinality({d \in DocIds : "completed" \in ToSet(log[d])}), Len(fails)>>
          /\ exit = "1" => ui.lines # {}

(* A document that grew after it was announced or measured is still never   *)
(* held in memory past its limit.                                           *)
HeldWithinLimits == held # "big"

CommandEnds == exit # "none"
=============================================================================
