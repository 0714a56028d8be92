# Formal models of mineru-rs

TLA+ models of mineru-rs, the TLC configurations that check them on small instances, and TLAPS
proofs of the main safety results for every instance. Paths below are relative to the repository root.

## 1. The system

mineru-rs turns documents into Markdown and JSON. It is a library with a CLI, two HTTP services in
one process, clients for remote services and a set of helper processes.

| component (under `src/src/`) | state it keeps | hard behaviour | modules |
|---|---|---|---|
| official file store (`official_api/server/store.rs`, `uploads.rs`, `files.rs`) | uploads and files, three byte and metadata pools, `accepting` | handlers that give the lock up in the middle; shared reservations; expiry under a request; stop racing admission | `OfficialStore` |
| official parse jobs (`jobs.rs`, `jobs/*.rs`, `service.rs`) | records, FIFO queue, two `Notify`s, one runner, the gate | lost wake-ups, cancel against publish, flags that `try_lock` skipped | `OfficialJobs`, `JobLifecycle` |
| tasks facade (`server/tasks.rs`) and wire types (`wire.rs`) | ingestion permits, the record of another request's job | permit from the first byte to the pool's charge; a record that changes between two polls | `TasksFacade`, `WireChecks` |
| official HTTP client (`official_api/client.rs`) | inputs, one job, a download budget | deadline and cancel against a job that is over; foreign origins | `OfficialClient` |
| persistent worker (`official_worker/persistent.rs`) | one permit, one owner task, one child with a framed pipe | late answers, hung child, dropped callers, shutdown before the owner exists | `PersistentWorker` |
| per-document worker, office conversion, input preparation (`official_worker.rs`, `office_workers.rs`, `input_prepare.rs`) | a process group per call, pipe tasks, a drain | exit, pipes, deadline and cancel in any order; a drain racing a start | `Preparation` |
| official SDK (`official/`) | one worker slot, blocking readers, an aggregate cap | shutdown racing a start; a reader nobody can stop | `OfficialSdk`, `NativeCsv`, `ResultMarkup` |
| legacy service (`vlm_api.rs`) | records, slots with eviction, worker registry | eviction under use, panicking workers, deadlines around the gate; files that change while they are packed | `LegacyService`, `LegacyTask` |
| VLM HTTP client (`vlm_http.rs`) | byte budgets, leases on the job slot, retries | budget charged once on every path; retries that must end; streams cut anywhere; redirects | `VlmHttp`, `VlmWire` |
| VLM extraction client (`vlm_client.rs`) | page, request and encode permits, two ledgers | several limits held at once; replies out of order | `VlmWindow`, `VlmBatch` |
| page route (`official_route.rs`, `official_output.rs`) | two image slots, a private stage | three phases overlapped; deadline between two renames | `RouteWindows` |
| hybrid-v4 publication (`hybrid_v4_output/*`) | directories on disk | competing calls, a crash between two renames | `OutputTransaction` |
| remote API client (`mineru_api/*`) | planned tasks, polls, a publication gate | waves, redirects, a dropped run against a blocking thread | `RemoteRun`, `ArchiveOverlay`, `Settings` |
| command line runs (`command/*`) | documents, failures, a report | files that change between two looks; a report that must match | `CommandRun`, `Settings` |
| plain and rendered output (`output.rs`, `command/official_cli_publish.rs`) | a target, a stage, a backup | competing writers without a journal | `OutputWriters` |
| model cache (`models/cache.rs`) | two files at digest paths | concurrent downloads, kills, redirects | `ModelCache` |
| zip, XML and OOXML readers (`mineru_api/zip_scan.rs`, `archive.rs`, `ooxml.rs`) | counters and stacks | inputs made to overlap, to nest or to be read twice | `PackageScan` |
| PDF assessment and rendering (`native_pdf.rs`, `pdf.rs`, `legacy_office.rs`) | budgets, parallel tasks | partial failure under a byte budget | `PdfWork` |
| document builders (`official_builders.rs`) | nodes, pending captions and tables | content lost or doubled by a merge | `DocumentBuild`, `TableMerge` |
| model post-processing, inference (`vlm_postprocess.rs`, `layout.rs`, `inference/`) | none | string and float arithmetic | not modelled |
| progress events, language bindings | | formatting and argument conversion | not modelled |

How they interact. The official service composes store, jobs and worker: a request is admitted
against the pools, the runner parses through the persistent worker and publishes through the store.
The legacy service shares the parse gate, the job slots and the id counter. On a signal the server
calls `stop_admissions`, lets the connections drain, and calls `shutdown`, which stops again, awaits the
runner, shuts the worker down and clears everything. A hybrid document goes: preparation (conversion
by a helper), page route (windows read by the VLM client), builders, output stage, publication. A remote run goes: planning,
submission, polling, archive scan, overlay.

What makes each part correct, in a line: no reservation leaks or returns twice, and every
admitted job fits what was reserved (store); every accepted job ends once, in a verdict true
to its files, and an answered cancel wins (jobs); an answer reaches the call that asked and no process
stays behind (workers); limits are exact and everything ends although servers do not answer
(clients); what reaches the user's directory is what was reported (publication); an untrusted
input is taken only if a plain definition of validity says so, and no content is lost (readers, builders).
`PROJECT.json` lists the hazards line by line with the properties that cover each.

## 2. Modules

Every module begins with a comment on what it models, at which granularity, and what its data
stands for; each definition is mapped to its lines in `PROJECT.json`. Properties come at the end of a module,
then mutated forms of its definitions, used to see that the properties notice. The longer notes:

**`OfficialStore`.** `entries` is the map; an entry is an upload or a file and says which upload's
`Arc<Reservation>` and `Arc<MetadataReservation>` it shares. `client` holds the
handlers that have given the lock up: `create` between its reservations and
`commit_upload`, `put` while it streams, `content` while the body is sent.
`job` holds what a parse job has reserved or leased. Each action is one critical
section. Reference counts are not variables: `InputHeld`, `ArtifactHeld` and `MetaHeld`
say what is reachable, and `Settle` returns to the pools what a step stops
referring to, as `Drop` does; `PoolsBalanced` compares the two. `Sweep` is
every handler that only cleans up and answers. Ids that a refused request burns are left out.

**`OfficialJobs`.** `pc` is the runner's place in `runner` and `run_job`; a step ends at each
await or lock. `permit`, `woken` and `cancelWoken` model tokio's `Notify`: the stored
permit of `notify_one`, and whether the `Notified` future created before the check has
fired. `FlagJobs` lets stop_admissions skip any subset of the records, because it uses `try_lock`. `CheckFlags` and
`Publish` are two steps under the record's mutex: a cancel needs that mutex (`RecordLocked`) and waits, the stop does not and may fall between them. Stopping
happens twice (`down`), as in `vlm_api.rs`. `LegacyAcquire`/`LegacyRelease` are the legacy tasks on the
shared gate, first in, first out. Outcomes of `parse_rich`, of rendering and the sizes are chosen
nondeterministically. Nothing closes the gate's semaphore outside tests, so that branch is left out.

**`JobLifecycle`** says what `docs/official-http.md` promises: jobs are accepted
while the service is open, run one at a time, first come first served, get one final verdict, and
end canceled exactly when they were asked to stop, or the service closed, before the
verdict. `before` is the order of acceptance among the waiting jobs, as pairs. The mapping at the end of `OfficialJobs` hides queue, runner, notifications and gate; a
job that was popped but not started still waits, ahead of the queue, and one canceled in the queue does not.

**`PersistentWorker`.** A call is its own request id. `permit` and `temp` travel with it: caller, command,
owner, bundle. `signal` is the watch channel's value; tokio's `send` leaves it alone
when nobody has subscribed, which is so before the first owner is spawned. The two halves of `spawn_owner`
are separate steps. The child is external: it answers with success, an error or garbage, repeats
an answer, hangs or dies. An `Abandon`ed call is a dropped future. Staging runs on a blocking thread (`stager`) that outlives its call: it creates the
directory without looking at the flag and drops it when it ends, so that a directory may be there after the permit has gone to the next call. `Late`,
`Release` and `Clear` keep the order in which the code drops permit and directory.

**`OutputTransaction`.** The state is the file system under one document: `target` is `{stem}/hybrid-v4`, `dirs` the
transaction directories, `stage` and `backup` their entries. A tree is whose bundle it is and
whether it is partial, whole but invalid (`bad`) or `good`. A step is one file-system call of one of several
`validate_and_publish`, and each may fail. `Crash` stops every call and sets the static counter to zero, as the next process does. `Init` allows what
a crash leaves: abandoned transactions, possibly with the only copy of the output in their backup.

**`LegacyService`.** A request is its own record, input and worker. `owners` says who holds the `JobInput`, and with it a slot and
the temporary directory: the form being read, the map, the worker, the oneshot channel, a response body or a
download. `lease` is `TaskWorkLease` in the same way. `Reserve` is the loop of `reserve`: expired records go, then the oldest
terminal ones until a slot is free. Reaping is three steps, because `fail_record` awaits between looking and writing.
`Disconnect` drops a handler at an await. `WorkerDies` is a panic after the future that `catch_unwind`
guards. `run_task` is one action with three ends; `LegacyTask` is its inside.

The other modules carry their note in the file; one line each, and what their state stands for:

| module | models | state |
|---|---|---|
| `VlmHttp` | one call: body worker, send loop with retries, response read under a cap and a shared budget, quality rewrites, lease on the job slot | `call`, the budget, the holders of the slot, the deadline |
| `VlmWire` | the event stream of `stream_predict`, cut into arbitrary chunks; local and remote pictures, redirects, addresses | `stream`, what the iterator `heard`, `fetch`, the addresses `reached` |
| `VlmWindow` | a window of pages, classic and two-phase pipeline, with page, request and encode permits | `page`, permits, two budgets, the resident ledger |
| `VlmBatch` | the public batch operations | `image`, requests in flight (`active`), replies in order of arrival (`out`), blocks `filled` |
| `RouteWindows` | windows of the page route, private stage, commit permit, install | `window`s in two image slots, stage, target, deadline |
| `TasksFacade` | `/v1/tasks`, `/v1/file_parse`, status, result, cancel, ingestion permits | one record per request, the input pool, the runner, the janitor, the stop |
| `OfficialClient` | `parse_batch`: uploads, job, polls, downloads | inputs, job, budget, deadline |
| `Preparation` | conversion helpers, image workers, per-document worker | a process group, its pipe tasks, owner, drains |
| `OfficialSdk` | `parse_rich`, `parse_batch_rich`, `shutdown`, readers, `render`, `serialize`, `restore`, `save` | callers, the worker slot, readers, owner tasks |
| `RemoteRun` | health, waves, submit, poll, download, publish in order, cancel of the run | tasks, URLs, report |
| `ArchiveOverlay` | extraction of an archive over an existing tree; preview; cancellation guard | tree, stage, backup, guard |
| `CommandRun` | direct runs: preflight, lanes, events, exit code | documents (they change between two looks), failures |
| `OutputWriters`, `ModelCache` | writers without a journal; download and verification of the pinned model | files, one place in the program per writer or fetcher |
| `PackageScan` | zip directory, archive table, XML automaton, OOXML inventory | the input so far and what was concluded |
| `Settings` | layers of settings; names, task packing, page ranges | the question and the answer |
| `TableMerge`, `DocumentBuild` | merge of continued tables; grouping of blocks, merges across pages, renderings | a table as rows of cells; nodes |
| `PdfWork` | native assessment, rendered window, text layout | budgets, tasks, a resource graph |
| `NativeCsv`, `ResultMarkup` | CSV in, HTML and Markdown out, HTML in again; images of a saved result | token sequences |
| `WireChecks`, `LegacyTask` | the official API's request checks; the legacy service's form, page selection, packaging and cleanup | a request; a form, a task and its directory |

`MCLive`, `MCVlm`, `MCHosts` and `MCReaders` put modules together that share no state in the
model. A behaviour picks one part and the others stay in an initial state, so that the state space is the sum of
the parts and not their product; fairness and properties then speak of the part picked. `MCOfficialStore`, `MCOfficialJobs`,
`MCPersistentWorker`, `MCOutputTransaction` and `MCLegacyService` check one module each.

A sequential reader or planner is modelled as a machine that is fed its input item by item (or takes all of a
bounded set of inputs in its initial states) and is compared at the end with a reference that says what a
correct answer is without saying how to find it.

## 3. Runs

| run | instance | what it shows |
|---|---|---|
| `store` | 2 handlers, 1 job of 2 outputs, 3 ids, 2 sizes, pools that two holders overfill; 260 000 states | nothing leaks, has two writers or files, changes under its digest, or survives the clearing; a paid-for publication always fits |
| `jobs` | 2 jobs of 2 files, 1 format, gate of 1, budget 2 with outputs of 1 or 2; 1.2 million | no job lost, cancel wins, honest verdicts, reservations that suffice, a conserved gate |
| `live` | 2 jobs of 1 file; 2 worker calls, 2 children; 1 task and 1 synchronous request; 490 000 | `OfficialJobs` implements `JobLifecycle`, its liveness included; jobs, worker and legacy service end what they accepted, and their shutdowns end |
| `worker` | 3 calls, 2 children, 2 unread frames; 3.1 million | an answer reaches its own call; one document is in use at a time, and other directories are only on their way out; no child outlives its directory, its session or the shutdown |
| `publish` | 3 calls, 3 serials, 2 tries per call, 1 abandoned name, 1 crash; 1.1 million | never half a bundle, the last output never lost, honest verdicts, no hidden leftover |
| `publish_atomic` | 1 call, no crash | expected violation, see below |
| `legacy` | 2 tasks and 1 synchronous request, 2 slots, gate of 1, 1 death; 1.1 million | no result vanishes under its reader, synchronous callers get the truth, slots are exact, shutdown leaves nothing |
| `legacy_reap` | 1 task and 1 synchronous request | expected violation |
| `vlm` | 2 calls, 1 retry; 2 pages, batch of 3, request of 2; 2 images; wires of up to two arbitrary lines before a good or cut ending; 260 000 | limits are exact, replies reach their block, a stream is heard as it was said, everything ends |
| `vlm_two_phase` | the same | expected violation |
| `hosts` | per part 2 actors (3 plain writers) or 2 to 3 documents, (3 callers of the SDK) see `MCHosts.cfg`; 340 000 | what is published is what was reported; processes are reaped; nothing moves after a cancel; everything ends |
| `readers` | all inputs of a few items, see `MCReaders.cfg`; 1.3 million | each reader, planner and builder agrees with its reference |

Why these bounds are enough to be interesting: two jobs are the least that queue behind each
other, two files the least that give `partial`, an aggregate that overflows and a failure after
a success. In `store` three ids are an upload, its file and an artifact, or two uploads
and a file; the caps (3, 4, 5) are reached by two holders each. In `worker` two
calls are needed for a late answer and a third for a waiter behind both; two children
for a restart. In `legacy` two slots for three requests make eviction happen, with and without a download that holds
the record. In `publish` three calls are needed for a rollback that finds a third call's output in
its way; two tries (64 in the code) and three serials (`u64::MAX`) are the least with which a call meets a taken name,
gives up, or meets the end of the counter. In `vlm` two pages compete for one request permit and for a batch that fits
three bytes but not four; a stream's wire is cut at every place, inside lines and line ends too. In `hosts` two
tasks make a wave and an order of publication, two windows fill both image slots, three writers race without a
journal, a third caller of the SDK starts a worker between the two halves of a shutdown, and three pages leave a window of one. The readers' inputs are as long as the shortest input that reaches each
branch, which the coverage of the run confirms. Symmetry is used only in safety runs, for
handlers, jobs and calls. Deadlock is checked for store and jobs; the other systems may stop, once they
are shut down or their input is read. A property named in a `.cfg` is often a conjunction of named parts, each with its own
comment in its module. Every property has a mutant in `PROJECT.json`: a change to one modelled
definition, of the kind a slip in the code would be, that TLC finds. More such mutants stand in the modules under "Mutant:";
each was tried in the same way.

**`publish_atomic`** is a disagreement between words and code: the module comment, `docs/compatibility.md`
and a test's name speak of atomic publication and replacement, but `publish_transaction_inner` replaces with two
renames. TLC's counterexample is the shortest one: a published document is inspected, moved aside,
and has no output until the second rename. What does hold, and is proved, is `NeverPartial` and
`OutputSurvives`: the name never shows half a bundle, and the old output is never lost.

**`legacy_reap`**: a worker panics outside `catch_unwind`, the next request takes its exit out of the registry, and
that request's client disconnects while `fail_record` waits for the removal of files. Nobody inspects the exit again;
the record stays `processing` and keeps its slot until the server stops. `LegacyLive` and `ServiceSound` name exactly this
exception (`orphans`).

**`vlm_two_phase`**: the two-phase pipeline is documented to degrade like the classic one. It blanks a crop that fits
the request cap when the page's batch is full; the classic pipeline waits until replies have made room (`vlm_client.rs`, the
scheduler around line 1443 and the two-phase chunk around line 1595).

## 4. Fairness

* `MCLive`, jobs: a spawned runner that can run does, and `parse_rich` returns, at the latest with its timeout; a prepared
  record is committed or dropped (`prepare_job` has no await); a shutdown once begun goes on; a legacy task gives the gate
  back, except that it never has to while a canceled job waits for it.
* `MCLive`, worker: calls and the owner run when they can; deadlines pass, but never have to after a shutdown; nothing is
  assumed of the child, or of callers with a bundle.
* `MCLive`, legacy service: handlers, workers and reapers run when they can, deadlines pass, the cleanup interval ticks, clients
  read what they are sent or go away. Blocking jobs may keep the gate for ever.
* `MCVlm`: the runtime polls ready futures and the clock moves. The server need not answer: `http_timeout` and the deadlines end every wait.
* `MCHosts`: one weak fairness condition on the program's own steps, the ends of bounded waits and the clock. Servers,
  children and job queues owe nothing. (One condition suffices because nothing else can disable the program's steps for ever.)

No request, cancel, expiry, kill, dropped future or failure is ever forced. `MCReaders` states no fairness.

## 5. What the code does that a reader may not expect

Found while modelling; the models do the same, and no document says otherwise.

* Command line runs: a fatal error's text is not shown when a document failed earlier; the hybrid lane accepts helper and encoding
  knobs without effect; `resolve_core` validates after the environment layer, before the command line.
* Page route: pages skipped while planning are missing from the manifest, and the progress count never reaches its total; a trailing window all of whose
  pages are skipped fails the document, a skipped page elsewhere does not; an early return of `begin_with_resident` leaves its private stage.
* Tasks facade: a 202 of `file_parse` may carry a finished job, or be followed by 404 once the record expires; DELETE may answer 200 while the status still says running; a stop ends queued and running tasks `canceled` though no client asked for it.
* Official jobs: a stop that falls between the look at the flags and the push of the artifacts lets that publication end; the verdict is `canceled` and the file keeps its outputs.
* Persistent worker: after a timeout or a dropped call, a second temporary directory may exist beside the next call's until the stager or the owner drops it.
* Official client: creating a job may time out after the server accepted it; that job is not canceled.
* Tables: a header's row span counts rows that the merge dropped; a flagged cell that meets two cells is copied into both.
* Document builder: of three reference lists in a row the third is not joined; merging a continued table replaces a single footnote.
* Preparation: a second concurrent `OfficeWorkers::drain` returns at once, `RasterWorkers`' waits.
* SDK: a batch keeps a persistent worker in per-document mode too; `shutdown` is not final, and while it closes one worker a call may start the next; a result whose JSON grew past the cap when written again can be returned but not saved.
* Markup: blanked `<pre>` and `<code>` tags leave enough spaces to make the rest of a line indented code, whose images are not looked at; a closing fence may mix both fence characters.
* Request checks: a range that mixes absolute and relative ends is accepted in either order.
* Writers: `write_outputs` removes the last copy of the old output when both the install and the restore failed; an asset `a.png.tmp` listed before `a.png` is
  overwritten by the latter's temporary file; `publish_rendered` reports an error when only the removal of its stage failed; a kill leaves `images/`, which blocks later renders there.
* Model cache: a killed fetcher leaves its temporary file; a good file behind a linked directory is accepted, only a download refuses the link.
* VLM: the cap on a stream's text never decides, because text never outgrows the wire; dropping the iterator does not stop the stream's thread; the quality guard
  counts the shortest period only and looks at the first 16 KiB.
* Legacy task: 99 999 as an end page differs from any other end past the last page only in documents of more than 100 000 pages; the check of the
  number of selected pages can fail only if the PDF library does not delete what it is told to.

## 6. Proofs

Eight modules of proofs, for every value of the constants:

| module | theorems | for any |
|---|---|---|
| `OfficialJobsProofs` | the invariants of the run `jobs`, `NoPublishAfterCancel`, `TerminalFrozen`, and `ServiceImplementsLifecycle`: the service refines `JobLifecycle` | jobs, files, formats, slots, gate permits, sizes |
| `OfficialStoreProofs` | `PoolsBalanced`, `PublicationAlwaysFits`, `EntriesSound`, `ContentImmutable` | handlers, jobs, ids, sizes, caps, times |
| `PersistentWorkerProofs` | `CallsSound`, `ChildrenSound` | calls, children, unread frames |
| `LegacyServiceProofs` | `ResultIntact`, `SyncHonest`, `ServiceSound` | requests, slots, gate permits, deaths |
| `OutputTransactionProofs` | `NeverPartial`, `OutputSurvives`, `OwnTransaction`, `HonestVerdict`, `NoSilentLeftover`, `ForeignUntouched` | calls, tries, serials, crashes, leftovers |
| `HostsProofs` | `SdkHonest`, `ClientHonest`, `PrepHonest` (`ChildHonest`, `DrainSound`), `CommandHonest`, `HeldWithinLimits`, `RunHonest`, `KeyStaysHome`; and `RunsHonest`, which joins the direct run, the remote run, the hybrid document (`PagesWhole`, `ImagesBounded`, `VerdictTrue`), the tasks facade and the client | callers, caps, buffers, workers; inputs and jobs; requests, kinds asked for, drains; documents; tasks, servers, URLs |
| `OutputsProofs` | `CancelFreezes`, `OverlayHonest`, `VerdictTrue`, `PagesWhole`, `ImagesBounded`, `PlacesSound` (`TargetKept`, `TreeWhole`, `RenderSound`), `CacheSound`; `IngestBounded`, `AnswersHonest` of the tasks facade | archives, trees, paths, pages, page sizes, windows, image caps, writers, assets, renderers, fetchers, redirects; requests, bodies, permits, pools |
| `VlmProofs` | `VlmBounded` and `VlmHonest` of the VLM client (`BudgetHonest`, `SlotCoversWork`, `ResidentExact`, `SentinelQuiet`, `ReportsHonest`, `BatchKeepsOrder`, `PictureSound`) | calls, budgets, pages, crops, caps, images, blocks, redirects |

What is assumed of the constants is an `ASSUME` in the component's module, and TLC evaluates it in every run: numbers are naturals
(and not zero where the code has no zero: files, formats, permits, tries, caps of the SDK), special values are not members of the sets they
stand beside, and the sets that a proof counts (`Calls`, `VlmCalls`, `Pages`, `Requests`, the store's `Clients` and `Jobs`) are finite: a process has finitely many. `SdkAssumption`
also says that a program names calls the API has.

Each proof has the same shape. No property of interest is inductive, so an `IInv` strengthens it; TLC checked each `IInv`
first, on the instance of the component's run. A lemma per action (or a step per action) shows that it is kept, with a step for each conjunct the action can
disturb, and the properties follow from it in a state. What each strengthening adds, and why it is needed:

**Jobs.** That a verdict is honest needs the loop counters to count the files already decided, and that the reservations suffice needs what is left
to cover the files still to come. Three layers, each proved from those before it: `ControlInv` (types, who has which job, the gate adds up, cancel
wins), `CountInv` (counters and grants stay in range; successes plus failures are the files passed) and `RecordInv` (files before `index` are decided, those
after it untouched; the reservations cover what is to come, `LoopBudget`). `NoPublishAfterCancel` and `TerminalFrozen` follow because only `Publish` changes
outputs, no flag is set while the runner has the record's mutex, a publication begins only where the flags were read, and no action but removal touches a terminal record.

**Refinement of the life cycle.** Under the mapping at the end of `OfficialJobs`, each action is one of `JobLifecycle` or invisible: `StepRefines` has a case for
each. The order of the queue is mapped to a set of pairs, `before`, because that a prefix was removed from a sequence with canceled jobs in it is not
something the provers find, while "who is ahead of whom" changes by a set difference. The proof needs `ControlInv` and that a shutdown that looks at jobs has
set the flag (`StopSound`). Only safety is refined; that every job is answered in the end is checked by `live`.

**Store.** Half the invariant is about the map: which handler may still write an entry (`ClientOk`, `Apart`, `Claimed`), what an entry may look like
meanwhile (`EntryOk`), and that a cleared map stays empty (`LifeOk`). The other half is `PoolsBalanced` itself: a pool is what its cap says less the charge of what is
reachable, so every step must charge and settle the same reservations. The charge is a sum over a set, which the
library can only reason about by induction over an operator. `MinimalSubset` replaces the induction: a set of counterexamples among the finite subsets has a minimal one.
From it, `Additive` sums exist and agree in any order, and `Charge` of a set with one reservation more is larger by that one.

**Worker.** `Permit` says that whoever has a request in use has the one permit (a stager left alone, a late call and an owner that has answered with an error no longer do), `Handover` who holds a request at each stage of its life,
`Frames` what the unread output of the child can be (so that a match is an answer to this request and not a late one), `Owner` how owner task, slot and
session agree (so that a shutdown leaves no child), and `Numbers` that sequence numbers do not outrun the answered calls.

**Legacy service.** `OrderSound` says that the records by `terminal_at` are exactly the terminal ones of the map, which is what lets an eviction count the slots it frees;
`RequestOk`, `AsyncOk` and `SyncOk` say who owns an input at each stage; `ReapSound` that a reaper cleans up only after a worker that ended without finishing, and that an exit
is in the registry, with a reaper, inspected, or lost with it (`orphans`); `PhaseSound` what has come to rest at each stage of the shutdown.

**Publication.** `OutputSurvives` needs that a transaction being discarded after a failure has an empty backup (`Phases`), and that no other call's
transaction is the same one (`Owned`). `ForeignUntouched` holds because whoever is past the inspection has excluded a foreign target. `NoSilentLeftover` rests on `Leftovers`: a
call that takes a name finds nothing under it, and a call without a name has reported nothing.

**Outputs.** Machines that share no state, each with its own invariant. *Overlay:* `GateInv` says that the thread renames and the guard sets its flag only while holding
the gate, so a cancelled thread has nothing left to commit or undo; `Undo` and `TreeAsListed` that the tree is the tree before, changed by what the commit state lists,
each path once, until a step of the rollback fails. The assumption that an accepted archive has no path twice and no file where a directory is needed is what the
extraction checks before it stages anything (archive.rs:186-240). *Page route:* `StageOwned` and `RouteStages` tie the route's place to the owner of the stage and to how far its
commit is, and `OutputAt` ties that to the user's path. *Plain output:* `WriterRoles` says where a tree can be, and three conjuncts say who has to answer for a missing
one. `TargetKept` first said of an acknowledged tree that it stays, or is aside, or was replaced by another writer; the proof failed, and three writers break
it: the second takes the first's tree aside and cannot put it back, because the third has restored the old output. The code does that, so the property
now says it, and the run has three writers. *Rendered output:* `Linked` says that who has linked a name owns it, `ImagesFirst` that the file goes in last. *Cache:* past the check of its
bytes a temporary file is whole (`FetchTemp`), and what a fetcher no longer has to ensure is there (`Ensured`).

**SDK.** `CallOk` judges a call: while a document is on its way, what the call has kept and what it may add fit the cap together, and an operation has
kept nothing before it answers. `ReaderOk` judges a reader: it has read at most one byte over its limit, only at its end, and a turn that reads nothing has met the end of the file. `SlotOk`
says that the slot's worker is open, `TakenOk` that every other open worker is with exactly one shutdown that has emptied the slot and not closed it yet, `Stopped` that a reader nobody waits for has its flag set.

**Preparation.** `RequestOK` follows one request on its own record: a child exists only after the spawn, only a vetted answer leads to a success, and past the
abort or the vetting the group has been killed. `DrainStory` relates the registries to the drains: once a drain has begun, some drain that has not returned waits for
every running owner, and an image job is in the registry or with the one drain that holds `drain_gate`. That gate is what makes it inductive: a second image drain
finds an empty registry, and could return before the first. For office owners nothing plays that part, so only the return of *every* drain says that no owner runs.

**Page windows.** `PagesWhole` says of a published document that it has every page once, in order; what is inductive is a partition (`Partitioned`): the pages up to the cursor that
are not skipped are those staged, those of the current window and those of the next one, in this order. `WindowPlanned` says what one plan does, whatever came before it. `plan_window` is a recursive function over the pages,
and what that computes for every input is beyond the library's induction theorems (their parameter is an operator); a least counterexample among the
plan's pages, which the minimal subset of the store's sums gives as well (`LeastNumber`), takes their place. For the images, `Budgeted` bounds each window by the half of the cap it was planned for, also
when a page larger than its half makes the windows change places; the byte sums are over finite sets, with the lemmas on sums that begin this part of the module. `Staging`
lets the preview of a page run at most one ahead of the page, which drops and timeouts between the two do not disturb.

**Client.** `UploadsInOrder` and `AnswersInOrder` tie the place of the batch to the prefix of inputs uploaded and answered, and `BudgetLeft` says what a file may still add: what
`OutputMax` leaves after the files before it and their metadata. That a timeout cancels a job needs that `asked` is set in the step in which the answer is given.

**Command run.** `InOrder` says that documents before the current one have ended, those after it have no event, and its own events are those of the steps taken; `Announced` the same
for the preflight. `FailuresListed` is the part a test hardly reaches: the list has each failed document once, and the announced ones are its prefix, because the loop passes over them. `ScreenOK` ties the terminal
to the events, so that the summary and the exit code can be read off them.

**Remote run.** `InTurn` says where the tasks of past, present and future waves are: those before the wave have ended, those after it are as planned, and an archive is opened only when no task of the
wave is in flight. With it the bound on tasks in flight is a bound on an interval. `FailuresKept` needs `InTurn` in turn: failures are pushed in task order because tasks end in task order, so that the
final sort changes nothing. `KeyStaysHome` rests on `AtHome`: every URL that the run holds has the origin of the API URL, which `Canonical` and `Follow` keep for any server.

**Facade.** `Permitted` counts: a body is held only between a permit and the charge of the pool, and bodies of `IngestConcurrency` requests fit the pool by the choice of that number. `ServedAt` follows one request to its
answer; that the answer is the job's as it was needs that no other request's step changes a record that has ended (`BystandersStay`); `CanceledBy` that a flag or a verdict
`canceled` has a cancel or the stop behind it, through the runner's own looks at the stop and the flags set one by one; and expiry cannot remove a record between its last look and its answer.

**VLM calls.** `CallOK` ties what a call has charged to the shared budget to what it has read of its answers; `Attended` says that a call that needs a blocking worker has it, and that a worker that runs
is its call's or, after the deadline, an orphan of one that is over. The slot's holders are then the workers and the task itself, and the budget is a sum over the calls of which a step changes one summand (`ChargesChange`).

**VLM windows.** `PageOK` says that a page's resident counter is the sum of the crops held, waiting or sent, plus what is reserved, and that nothing is reserved unless a crop is being cut or encoded. `Scheduled` says
where each pipeline can be: the classic one has not touched the crops from `next` on, the two-phase one has settled exactly those before it, and sends nothing until all are. Over the window, the encoded bytes and the ledger are sums over the
pages. A chunk is retained by a recursive function; that it exists, and what holds after each of its crops (`Retained`), is shown with a least counterexample. The ledger never refuses a charge because every page carries at most one batch, so that
what the others have charged leaves room for one (`LedgerRoom`).

**VLM batches.** `Requested` says that a batch holds each block of its prepared images once, `Received` that a reply stands with the place of its request, once. Sorted by place, as many replies as requests
are a permutation that never descends, and only the identity is one (`NumberedOnto`, `MonotoneIsSame`): the k-th reply is that of the k-th request. In stepping mode there is one batch, open once every image is prepared (`Sending`).

**Pictures.** `AddressesVetted` says that whenever an address is about to be asked, the addresses pinned have passed, after a redirect too; `EncodedCaps` that a base64 text over the encoded cap decodes to more than the cap, also where the
encoded cap does not fit a `usize` (`UsizeMax` is any number), so that the early refusal never refuses what fits.

Only model-checked, and why:

* liveness (`JobsLive`, `WorkerLive`, `LegacyLive`, `VlmEnds`, `HostsEnd`): fairness and `ENABLED` are out of reach of the temporal backend;
* `StreamExact`: that a stream cut anywhere is heard as it was said compares folds over the wire with the events of the whole wire, an induction over data;
* `InputsSound`, `PdfSound` and `TextsSound` compare what some ten readers computed from their whole input with a reference, for each of which the argument used for the page windows
  would have to be found again; `PdfWork`, `NativeCsv` and `ResultMarkup` use recursive operators, beside which no theorem can stand.

## 7. Not modelled

Tensors, the ONNX runtime, image arithmetic and the post-processing of model text (`vlm_postprocess.rs`: LaTeX, OTSL, boxes), which
rewrite strings and floats without state. Prompts, spans and inline formulas, HTML parsing, the drawing of previews and of progress, argument parsing, the language bindings.
Metrics, timestamps, headers, listing order and pagination; poisoned mutexes; the id counter's width. The stderr ring and frame encoding of the workers;
parent-death signals and Windows job objects; a group kill that reaches a recycled process group id; in `Preparation`, the moment for which a blocking stager whose call is over
still holds its directory (`PersistentWorker` has it). `PROJECT.json` says for each component what its model leaves out.

## 8. Plan

1. `StreamExact`, from a definition of the line reader that a least counterexample can be taken of.
2. `PdfSound`: the budgets of the native assessment, for any number of pages.
3. Table post-processing (OTSL to HTML) against a reference, and the metadata of a saved result.
