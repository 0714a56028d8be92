----------------------------- MODULE OfficialSdk -----------------------------
(***************************************************************************)
(* The official SDK: src/official/parser.rs (parse_rich, parse_batch_rich, *)
(* shutdown over one shared persistent worker), input.rs (the blocking     *)
(* reader of a document), result.rs (from_bundle, save) and render.rs      *)
(* (render, serialize, restore through a worker of their own).             *)
(*                                                                         *)
(* Callers share one OfficialParser.  A document is read on a blocking     *)
(* thread no one can stop from outside: only its flag and its deadline,    *)
(* looked at between two chunks, end it.  What the workers do inside is in *)
(* PersistentWorker and Preparation; what the CSV analyser does is in      *)
(* NativeCsv.  Sizes are small numbers; a JSON text written again may be   *)
(* longer than the file it came from, by Growth at most.                   *)
(***************************************************************************)
EXTENDS Integers, Sequences, FiniteSets, SequencesExt, FiniteSetsExt

CONSTANTS Callers,
          Programs,         \* what the callers may call: caller -> call
          RetainedCap, DocumentCap, ReadBuffer, Growth,
          MaxWorkers        \* bound on persistent workers ever started

\* The rest of the calls of OfficialParser and OfficialResult.
Operations == {"render", "serialize", "restore"}

SdkItems == [suffix : {"csv", "pdf", "bad"}, options : {"valid", "invalid", "vlm"}, bytes : Nat]

\* A program names every caller's one call; parse_rich takes one document.
ASSUME SdkAssumption ==
    /\ {RetainedCap, DocumentCap, ReadBuffer, MaxWorkers} \subseteq Nat \ {0} /\ Growth \in Nat
    /\ \A p \in Programs, c \in Callers :
          /\ p[c].kind \in {"batch", "parse", "shutdown"} \cup Operations
          /\ p[c].mode \in {"fresh", "persistent"} /\ p[c].native \in BOOLEAN
          /\ p[c].items \in Seq(SdkItems)
          /\ p[c].kind = "parse" => Len(p[c].items) = 1

VARIABLES
    sdk,            \* caller -> its call
    reader,         \* <<caller, item>> -> the blocking reader of that item
    shared,         \* the parser's persistent worker, 0: none
    started,        \* persistent workers started
    open,           \* the ones not closed
    ownerTasks          \* the ones whose owner task runs

sdkVars == <<sdk, reader, shared, started, open, ownerTasks>>
workerVars == <<shared, started, open, ownerTasks>>

Readers == DOMAIN reader
Item(c) == sdk[c].items[sdk[c].at]
Key(c) == <<c, sdk[c].at>>

NoReader == [pc |-> "none", flag |-> FALSE, late |-> FALSE, limit |-> 0, left |-> 0, got |-> 0, whole |-> TRUE, end |-> "none"]

(* A call's result for the item at hand; what a success retains is charged. *)
AnswerItem(c, verdict, retained) ==
    sdk' = [sdk EXCEPT ![c].results = Append(@, verdict), ![c].pc = "next", ![c].at = @ + 1,
                       ![c].aggregate = IF verdict = "ok" THEN @ + retained ELSE @]

\* Mutant: each item of a batch may retain the whole cap.
RemainingCapWhole(c) == RetainedCap

RemainingCap(c) == IF sdk[c].aggregate >= RetainedCap THEN 0 ELSE RetainedCap - sdk[c].aggregate

\* Mutant: the slot is looked at before it is locked, so a second worker may replace the first.
PersistentWorkerUnlocked(w) ==
    \/ /\ w = started + 1 /\ w <= MaxWorkers
       /\ shared' = w /\ started' = w /\ open' = open \cup {w} /\ ownerTasks' = ownerTasks \cup {w}
    \/ w = shared /\ shared # 0 /\ UNCHANGED workerVars
    \/ w = 0 /\ UNCHANGED workerVars

(* persistent_worker, under the parser's lock; 0: it could not start.         *)
PersistentWorker(w) ==
    \/ shared # 0 /\ w = shared /\ UNCHANGED workerVars
    \/ /\ shared = 0 /\ w = started + 1 /\ w <= MaxWorkers
       /\ shared' = w /\ started' = w /\ open' = open \cup {w} /\ ownerTasks' = ownerTasks \cup {w}
    \/ shared = 0 /\ w = 0 /\ UNCHANGED workerVars

-----------------------------------------------------------------------------
(* suffix and options.validate, then parse_native_csv's own refusals.       *)
Refusal(item) ==
    IF item.suffix = "bad" THEN "format"
    ELSE IF item.options = "invalid" THEN "options"
    ELSE IF item.suffix = "csv" /\ item.options = "vlm" THEN "unsupported" ELSE "none"

ReadLimit(c, cap) == IF Item(c).suffix = "csv" THEN (IF DocumentCap < cap THEN DocumentCap ELSE cap) ELSE DocumentCap

(* parse_one up to its read, with the worker and the cap it was given.      *)
ParseOne(c, w, cap) ==
    IF Refusal(Item(c)) # "none"
    THEN /\ sdk' = [sdk EXCEPT ![c].results = Append(@, Refusal(Item(c))), ![c].at = @ + 1, ![c].worker = w]
         /\ UNCHANGED reader
    ELSE /\ sdk' = [sdk EXCEPT ![c].pc = "read", ![c].cap = cap, ![c].worker = w]
         /\ reader' = [reader EXCEPT ![Key(c)] = [NoReader EXCEPT !.pc = "queued", !.limit = ReadLimit(c, cap), !.left = Item(c).bytes]]

NextItem(c) ==
    /\ sdk[c].pc = "next" /\ sdk[c].kind = "batch" /\ sdk[c].at <= Len(sdk[c].items)
    /\ \/ /\ Item(c).suffix = "csv" \/ sdk[c].worker # 0
          /\ UNCHANGED workerVars
          /\ IF RemainingCap(c) = 0 THEN AnswerItem(c, "limit", 0) /\ UNCHANGED reader
             ELSE ParseOne(c, sdk[c].worker, RemainingCap(c))
       \/ /\ Item(c).suffix # "csv" /\ sdk[c].worker = 0
          /\ \E w \in 0..MaxWorkers :
                /\ PersistentWorker(w)
                /\ IF RemainingCap(c) = 0 \/ w = 0
                   THEN /\ sdk' = [sdk EXCEPT ![c].results = Append(@, IF RemainingCap(c) = 0 THEN "limit" ELSE "unavailable"),
                                              ![c].at = @ + 1, ![c].worker = w]
                        /\ UNCHANGED reader
                   ELSE ParseOne(c, w, RemainingCap(c))

ParseRich(c) ==
    /\ sdk[c].pc = "next" /\ sdk[c].kind = "parse" /\ sdk[c].at <= Len(sdk[c].items)
    /\ ParseOne(c, 0, RetainedCap) /\ UNCHANGED workerVars

SdkReturns(c) ==
    /\ sdk[c].pc = "next" /\ sdk[c].kind \in {"batch", "parse"} /\ sdk[c].at > Len(sdk[c].items)
    /\ sdk' = [sdk EXCEPT ![c].pc = "done"] /\ UNCHANGED <<reader, workerVars>>

-----------------------------------------------------------------------------
(* read_limited_controlled on its thread, a check before every turn.        *)
Ends(k, verdict) == reader' = [reader EXCEPT ![k].pc = "end", ![k].end = verdict]

CheckRead(k) ==
    /\ reader[k].pc \in {"queued", "reading", "analysing"} /\ (reader[k].flag \/ reader[k].late)
    /\ reader[k].pc = "analysing" => reader[k].flag
    /\ Ends(k, IF reader[k].flag THEN "canceled" ELSE "deadline")
    /\ UNCHANGED <<sdk, workerVars>>

OpenDocument(k) ==       \* metadata refuses, or the file is read, which may still grow
    /\ reader[k].pc = "queued" /\ ~reader[k].flag /\ ~reader[k].late
    /\ \/ Ends(k, "unreadable")
       \/ reader[k].left > reader[k].limit /\ Ends(k, "limit")
       \/ /\ reader[k].left <= reader[k].limit
          /\ \E n \in {0, 1} : reader' = [reader EXCEPT ![k].pc = "reading", ![k].left = @ + n]
    /\ UNCHANGED <<sdk, workerVars>>

\* Mutant: a turn reads no more than the limit leaves.
ChunkOfExact(r) == Min({r.left, r.limit - r.got, ReadBuffer})

ChunkOf(r) == Min({r.left, r.limit - r.got + 1, ReadBuffer})

ReadChunk(k) ==
    /\ reader[k].pc = "reading" /\ ~reader[k].flag /\ ~reader[k].late
    /\ LET r == reader[k]
           n == ChunkOf(r)
           csv == sdk[k[1]].items[k[2]].suffix = "csv"
       IN  reader' = [reader EXCEPT ![k].got = @ + n, ![k].left = @ - n, ![k].whole = (n = r.left),
                         ![k].pc = IF n > 0 /\ r.got + n <= r.limit THEN "reading"
                                   ELSE IF csv /\ r.got + n \in 1..r.limit THEN "analysing" ELSE "end",
                         ![k].end = IF n > 0 /\ r.got + n <= r.limit THEN "none"
                                    ELSE IF r.got + n > r.limit THEN "limit"
                                    ELSE IF r.got + n = 0 THEN "empty"
                                    ELSE IF csv THEN "none" ELSE "ok"]
    /\ UNCHANGED <<sdk, workerVars>>

Analyse(k) ==       \* analyze_with_cancel
    /\ reader[k].pc = "analysing" /\ ~reader[k].flag
    /\ Ends(k, "ok") \/ Ends(k, "malformed")
    /\ UNCHANGED <<sdk, workerVars>>

DeadlineArrives(c) ==
    /\ sdk[c].pc = "read" /\ ~reader[Key(c)].late
    /\ reader' = [reader EXCEPT ![Key(c)].late = TRUE] /\ UNCHANGED <<sdk, workerVars>>

ReadReturns(c) ==
    /\ sdk[c].pc = "read" /\ reader[Key(c)].pc = "end" /\ UNCHANGED <<reader, workerVars>>
    /\ LET end == reader[Key(c)].end
       IN  \/ end # "ok" /\ AnswerItem(c, end, 0)
           \/ end = "ok" /\ Item(c).suffix # "csv" /\ sdk' = [sdk EXCEPT ![c].pc = "run"]
           \/ /\ end = "ok" /\ Item(c).suffix = "csv"
              /\ \E retained \in 1..(RetainedCap + 1) :
                    IF retained > sdk[c].cap THEN AnswerItem(c, "limit", 0) ELSE AnswerItem(c, "ok", retained)

\* Mutant: the deadline ends the wait and leaves the thread reading.
LeaveReaderAlone(k) == reader[k]

(* Dropping the guard: the flag, and an abort, which only a task that has   *)
(* not begun obeys.                                                         *)
LeaveReader(k) ==
    [reader[k] EXCEPT !.flag = TRUE, !.pc = IF @ = "queued" THEN "end" ELSE @,
                      !.end = IF reader[k].pc = "queued" THEN "canceled" ELSE @]

ReadTimesOut(c) ==
    /\ sdk[c].pc = "read" /\ reader[Key(c)].late
    /\ reader' = [reader EXCEPT ![Key(c)] = LeaveReader(Key(c))]
    /\ AnswerItem(c, "deadline", 0) /\ UNCHANGED workerVars

-----------------------------------------------------------------------------
(* run_owned on the shared worker, on the parser's own, or on a fresh one;  *)
(* a worker that was closed meanwhile refuses.                              *)
RunDocument(c) ==
    /\ sdk[c].pc = "run" /\ UNCHANGED reader
    /\ IF sdk[c].kind = "parse" /\ sdk[c].mode = "persistent"
       THEN \E w \in 0..MaxWorkers :
               /\ PersistentWorker(w)
               /\ IF w = 0 THEN AnswerItem(c, "unavailable", 0)
                  ELSE sdk' = [sdk EXCEPT ![c].pc = "await", ![c].worker = w]
       ELSE /\ UNCHANGED workerVars
            /\ IF sdk[c].worker # 0 /\ sdk[c].worker \notin open THEN AnswerItem(c, "worker", 0)
               ELSE sdk' = [sdk EXCEPT ![c].pc = "await"]

RunFails(c) ==
    /\ sdk[c].pc = "await" /\ sdk[c].kind \in {"batch", "parse"}
    /\ AnswerItem(c, "worker", 0) /\ UNCHANGED <<reader, workerVars>>

(* from_bundle: what collect_assets and the reads before it find exceeds    *)
(* the cap, or not.  The worker may have been closed since it answered.     *)
WithinCap(files, cap) == files <= cap

FromBundle(c) ==
    /\ sdk[c].pc = "await" /\ sdk[c].kind \in {"batch", "parse"}
    /\ \E files \in 1..(RetainedCap + 1), more \in 0..Growth :
          IF WithinCap(files, sdk[c].cap) THEN AnswerItem(c, "ok", files + more) ELSE AnswerItem(c, "limit", 0)
    /\ UNCHANGED <<reader, workerVars>>

(* The caller drops its future at an await; the worker's last reference is *)
(* the parser's.                                                           *)
SdkDropped(c) ==
    /\ sdk[c].pc \in {"read", "await", "closing"}
    /\ reader' = IF sdk[c].pc = "read" THEN [reader EXCEPT ![Key(c)] = LeaveReader(Key(c))] ELSE reader
    /\ sdk' = [sdk EXCEPT ![c].pc = "gone"] /\ UNCHANGED workerVars

-----------------------------------------------------------------------------
(* shutdown: the slot is emptied under its lock; the worker is closed when  *)
(* the lock is free again, and another call may have filled the slot; then  *)
(* its owner is awaited.                                                    *)
SdkShutdown(c) ==
    /\ sdk[c].pc = "next" /\ sdk[c].kind = "shutdown"
    /\ shared' = 0
    /\ sdk' = [sdk EXCEPT ![c].pc = IF shared = 0 THEN "done" ELSE "taken", ![c].worker = shared]
    /\ UNCHANGED <<reader, started, open, ownerTasks>>

CloseWorker(c) ==
    /\ sdk[c].pc = "taken"
    /\ open' = open \ {sdk[c].worker}
    /\ sdk' = [sdk EXCEPT ![c].pc = "closing"]
    /\ UNCHANGED <<reader, shared, started, ownerTasks>>

OwnerExits(w) ==
    /\ w \in ownerTasks \ open /\ ownerTasks' = ownerTasks \ {w} /\ UNCHANGED <<sdk, reader, shared, started, open>>

SdkClosed(c) ==
    /\ sdk[c].pc = "closing" /\ sdk[c].worker \notin ownerTasks
    /\ sdk' = [sdk EXCEPT ![c].pc = "done"] /\ UNCHANGED <<reader, workerVars>>

-----------------------------------------------------------------------------
(* render, serialize, restore: options, then a CSV result answers by        *)
(* itself; otherwise what is sent and what comes back are capped, the       *)
(* files read against one running total.                                    *)
RefuseOptions(c) == sdk[c].kind = "render" /\ AnswerItem(c, "options", 0)      \* not this format's
NativeRender(c) == sdk[c].native /\ (AnswerItem(c, "ok", 0) \/ AnswerItem(c, "unsupported", 0))

SdkOperation(c) ==
    /\ sdk[c].pc = "next" /\ sdk[c].kind \in Operations /\ sdk[c].results = <<>>
    /\ \/ RefuseOptions(c)
       \/ NativeRender(c)
       \/ ~sdk[c].native /\ AnswerItem(c, "limit", 0)
       \/ ~sdk[c].native /\ sdk' = [sdk EXCEPT ![c].pc = "await"]
    /\ UNCHANGED <<reader, workerVars>>

OperationEnds(c) ==
    /\ sdk[c].pc = "await" /\ sdk[c].kind \in Operations
    /\ \/ AnswerItem(c, "worker", 0)
       \/ \E files \in UNION {[1..n -> 1..(RetainedCap + 1)] : n \in (IF sdk[c].kind = "render" THEN 1..3 ELSE {1})} :
             sdk' = [sdk EXCEPT ![c].pc = "files", ![c].files = files]
    /\ UNCHANGED <<reader, workerVars>>

\* Mutant: every file may be as large as the cap.
ReadsArtifactAlone(size, total) == size <= RetainedCap

ReadsArtifact(size, total) == size <= RetainedCap - total

ReadArtifact(c) ==
    /\ sdk[c].pc = "files" /\ sdk[c].files # <<>>
    /\ IF ReadsArtifact(Head(sdk[c].files), sdk[c].total)
       THEN sdk' = [sdk EXCEPT ![c].files = Tail(@), ![c].total = @ + Head(sdk[c].files)]
       ELSE AnswerItem(c, "limit", 0)
    /\ UNCHANGED <<reader, workerVars>>

Rendered(c) ==
    /\ sdk[c].pc = "files" /\ sdk[c].files = <<>>
    /\ AnswerItem(c, "ok", sdk[c].total) \/ AnswerItem(c, "invalid", 0)
    /\ UNCHANGED <<reader, workerVars>>

OperationReturns(c) ==
    /\ sdk[c].pc = "next" /\ sdk[c].kind \in Operations /\ sdk[c].results # <<>>
    /\ sdk' = [sdk EXCEPT ![c].pc = "done"] /\ UNCHANGED <<reader, workerVars>>

-----------------------------------------------------------------------------
CallOf(p) == [kind |-> p.kind, mode |-> p.mode, native |-> p.native, items |-> p.items, pc |-> "next", at |-> 1, worker |-> 0,
              cap |-> 0, aggregate |-> 0, results |-> <<>>, files |-> <<>>, total |-> 0]

SdkOff == shared = 0 /\ started = 0 /\ open = {} /\ ownerTasks = {}

SdkInit ==
    /\ \E p \in Programs :
          /\ sdk = [c \in Callers |-> CallOf(p[c])]
          /\ reader = [k \in UNION {{<<c, i>> : i \in DOMAIN p[c].items} : c \in Callers} |-> NoReader]
    /\ SdkOff

SdkIdle == sdk = <<>> /\ reader = <<>> /\ SdkOff

SdkStep(c) ==
    \/ NextItem(c) \/ ParseRich(c) \/ SdkReturns(c) \/ ReadReturns(c) \/ ReadTimesOut(c) \/ RunDocument(c) \/ RunFails(c)
    \/ FromBundle(c) \/ SdkShutdown(c) \/ CloseWorker(c) \/ SdkClosed(c) \/ SdkOperation(c) \/ OperationEnds(c) \/ ReadArtifact(c)
    \/ Rendered(c) \/ OperationReturns(c)

ReaderStep(k) == CheckRead(k) \/ OpenDocument(k) \/ ReadChunk(k) \/ Analyse(k)

SdkNext ==
    \/ \E c \in DOMAIN sdk : SdkStep(c) \/ DeadlineArrives(c) \/ SdkDropped(c)
    \/ \E k \in Readers : ReaderStep(k)
    \/ \E w \in ownerTasks : OwnerExits(w)

-----------------------------------------------------------------------------
(* A batch answers every item it has finished, in order, and what it keeps  *)
(* exceeds the cap only by what JSON written again grew in the last result; *)
(* a render keeps no more than the cap; no document is taken truncated, nor *)
(* more than one byte over the limit read of it; a reader whose caller has  *)
(* gone on has been told to stop; a persistent worker that is not closed is *)
(* in the parser's slot or in the hands of one shutdown that will close it, *)
(* never both and never of neither, and a shutdown that returned left no    *)
(* owner of the worker it took (parser.rs persistent_worker, shutdown).     *)
SdkHonest ==
    /\ \A c \in DOMAIN sdk :
          /\ sdk[c].aggregate <= RetainedCap + Growth
          /\ sdk[c].kind \in {"batch", "parse"} /\ sdk[c].pc # "gone" => Len(sdk[c].results) = sdk[c].at - 1
          /\ sdk[c].total <= RetainedCap
          /\ sdk[c].kind = "shutdown" /\ sdk[c].pc = "done" => sdk[c].worker \notin ownerTasks
    /\ \A k \in Readers :
          /\ reader[k].got <= reader[k].limit + 1
          /\ reader[k].end = "ok" => reader[k].whole /\ reader[k].got <= reader[k].limit
          /\ reader[k].pc \in {"queued", "reading", "analysing"} /\ ~(sdk[k[1]].pc = "read" /\ Key(k[1]) = k) => reader[k].flag
    /\ shared # 0 => shared \in open
    /\ \A w \in open \ {shared} : Cardinality({c \in DOMAIN sdk : sdk[c].pc = "taken" /\ sdk[c].worker = w}) = 1
    /\ \A c \in DOMAIN sdk : sdk[c].pc = "taken" => sdk[c].worker \in open \ {shared}

(* Every call returns or is dropped, and every reader and closed owner ends.*)
SdkEnds ==
    /\ \A c \in DOMAIN sdk : sdk[c].pc \in {"done", "gone"}
    /\ \A k \in Readers : reader[k].pc \in {"none", "end"}
    /\ ownerTasks \subseteq open
=============================================================================
