---------------------------- MODULE OutputWriters ----------------------------
(***************************************************************************)
(* The two writers that put a result at a place the user names, without a  *)
(* journal.                                                                *)
(*                                                                         *)
(* write_outputs (src/output.rs) writes a document and its assets into a   *)
(* private sibling directory, moves what is at the target aside, and moves *)
(* the stage in; a failed move is undone by moving the old output back.    *)
(* publish_rendered (src/command/official_cli_publish.rs) never replaces:  *)
(* it links the assets into an images/ directory it has created, then      *)
(* links the rendered file, and takes images/ away again when that fails.  *)
(*                                                                         *)
(* Both run in several processes at once against one place; any step may   *)
(* fail and a process may be killed.  A path is a sequence of names.  The  *)
(* target is "none", "old" or the writer whose tree it is; so is the       *)
(* rendered file.                                                          *)
(***************************************************************************)
EXTENDS Integers, Sequences, FiniteSets, SequencesExt

CONSTANTS Writers,       \* calls of write_outputs on one directory
          AssetLists,    \* the assets of a document, in order: sequences of paths
          TempOf(_),     \* the temporary atomic_write uses for a path
          Renderers,     \* calls of publish_rendered
          RenderJobs,    \* what they publish: renderer -> [file, sidecars]
          RenderStarts   \* what the directory may hold before: name -> content

VARIABLES
    output, had, \* the user's directory, and before
    aside,       \* writer -> what its backup holds
    stageOf,     \* writer -> its stage: "none", "made", "full"
    assets,      \* writer -> the assets of its document
    wrote,       \* writer -> path in its stage -> whose bytes are there
    wpc, said,   \* writer -> where it is, and what it answered
    lost         \* history: a writer could neither install nor restore

writerVars == <<output, had, aside, stageOf, assets, wrote, wpc, said, lost>>

-----------------------------------------------------------------------------
(* write_staged and atomic_write: each file goes to its temporary and is     *)
(* renamed over its path.  A file stands after n writes unless a later one   *)
(* had its path or used it as a temporary.  A file in the way of a directory *)
(* fails a write, and so does a directory in the way of a file.              *)
Documents == <<<<"document.json">>, <<"document.md">>, <<"middle.json">>, <<"content_list.json">>>>

(* The name of a temporary ends in .tmp, that of a document does not.       *)
ASSUME WriterAssumption ==
    /\ Writers \cap {"none", "old"} = {}
    /\ AssetLists \subseteq Seq(Seq(STRING))
    /\ \A p \in ToSet(Documents) \cup UNION {ToSet(list) : list \in AssetLists} : TempOf(p) \notin ToSet(Documents)

AllFiles(list) ==
    [i \in DOMAIN Documents |-> [path |-> Documents[i], of |-> "document"]]
        \o [i \in DOMAIN list |-> [path |-> list[i], of |-> "asset"]]

Standing(all, n) ==
    {i \in 1..n : \A k \in (i + 1)..n : all[i].path \notin {all[k].path, TempOf(all[k].path)}}

InTheWay(p, q) == IsStrictPrefix(p, q) \/ IsStrictPrefix(q, p)

WritesFail(all) ==
    \E n \in DOMAIN all : \E i \in Standing(all, n - 1) :
        InTheWay(all[i].path, all[n].path) \/ InTheWay(all[i].path, TempOf(all[n].path))

StagedTree(all) ==
    LET standing == Standing(all, Len(all))
    IN  [p \in {all[i].path : i \in standing} |-> (CHOOSE f \in {all[i] : i \in standing} : f.path = p).of]

Unwritable == {list \in AssetLists : WritesFail(AllFiles(list))}
TreeOf == [list \in AssetLists |-> StagedTree(AllFiles(list))]

(* validate_assets: unique relative paths, none of them a document's name. *)
ValidAssets(list) == IsInjective(Documents \o list)

WriterInit ==
    /\ output \in {"none", "old"} /\ had = output /\ lost = FALSE
    /\ aside = [w \in Writers |-> "none"] /\ stageOf = [w \in Writers |-> "none"]
    /\ assets \in [Writers -> AssetLists] /\ wrote = [w \in Writers |-> <<>>]
    /\ wpc = [w \in Writers |-> "check"] /\ said = [w \in Writers |-> "none"]

At(w, p) == wpc' = [wpc EXCEPT ![w] = p]
Says(w, how) == At(w, "done") /\ said' = [said EXCEPT ![w] = how]
Staged(w, how) == stageOf' = [stageOf EXCEPT ![w] = how]

(* An error before the target is touched removes the stage. *)
GiveUp(w) == Says(w, "error") /\ Staged(w, "none") /\ UNCHANGED <<output, aside, assets, wrote, lost>>

CheckAssets(w) ==
    /\ wpc[w] = "check"
    /\ IF ValidAssets(assets[w])
       THEN \/ At(w, "write") /\ Staged(w, "made") /\ UNCHANGED <<output, aside, assets, wrote, said, lost>>
            \/ GiveUp(w)
       ELSE GiveUp(w)

WriteStaged(w) ==
    /\ wpc[w] = "write"
    /\ \/ /\ assets[w] \notin Unwritable
          /\ wrote' = [wrote EXCEPT ![w] = TreeOf[assets[w]]]
          /\ At(w, "look") /\ Staged(w, "full") /\ UNCHANGED <<output, aside, assets, said, lost>>
       \/ GiveUp(w)

LookAtTarget(w) ==
    /\ wpc[w] = "look"
    /\ At(w, IF output = "none" THEN "place" ELSE "backup")
    /\ UNCHANGED <<output, aside, stageOf, assets, wrote, said, lost>>

(* A directory is not renamed over one with files in it. *)
PlaceStage(w) ==
    /\ wpc[w] = "place"
    /\ \/ /\ output = "none" /\ output' = w
          /\ Staged(w, "none") /\ Says(w, "ok") /\ UNCHANGED <<aside, assets, wrote, lost>>
       \/ GiveUp(w)

BackUpTarget(w) ==
    /\ wpc[w] = "backup"
    /\ \/ /\ output # "none" /\ output' = "none"
          /\ aside' = [aside EXCEPT ![w] = output]
          /\ At(w, "install") /\ UNCHANGED <<stageOf, assets, wrote, said, lost>>
       \/ GiveUp(w)

InstallStage(w) ==
    /\ wpc[w] = "install"
    /\ \/ /\ output = "none" /\ output' = w
          /\ Staged(w, "none") /\ At(w, "cleanup") /\ UNCHANGED <<aside, assets, wrote, said, lost>>
       \/ At(w, "restore") /\ UNCHANGED <<output, aside, stageOf, assets, wrote, said, lost>>

\* Mutant: a failed install leaves the old output aside.
RestoreNothing(w) == wpc[w] = "restore" /\ GiveUp(w)

(* A backup that cannot be moved back is removed. *)
MoveBackupBack(w) ==
    /\ wpc[w] = "restore" /\ Says(w, "error") /\ Staged(w, "none")
    /\ aside' = [aside EXCEPT ![w] = "none"]
    /\ \/ output = "none" /\ output' = aside[w] /\ UNCHANGED lost
       \/ lost' = (lost \/ output = "none") /\ UNCHANGED output
    /\ UNCHANGED <<assets, wrote>>

(* The install is the commit; a backup that cannot be removed stays. *)
RemoveBackup(w) ==
    /\ wpc[w] = "cleanup" /\ Says(w, "ok")
    /\ \/ aside' = [aside EXCEPT ![w] = "none"]
       \/ UNCHANGED aside
    /\ UNCHANGED <<output, stageOf, assets, wrote, lost>>

KillWriter(w) ==
    /\ wpc[w] # "done" /\ Says(w, "killed")
    /\ UNCHANGED <<output, aside, stageOf, assets, wrote, lost>>

WriterStep(w) ==
    CheckAssets(w) \/ WriteStaged(w) \/ LookAtTarget(w) \/ PlaceStage(w) \/ BackUpTarget(w)
    \/ InstallStage(w) \/ MoveBackupBack(w) \/ RemoveBackup(w)

WriterNext == (\E w \in Writers : WriterStep(w) \/ KillWriter(w)) /\ UNCHANGED had

WriterSpec == WriterInit /\ [][WriterNext]_writerVars

-----------------------------------------------------------------------------
(* Where a tree can be: at the target, or in a writer's backup. *)
Somewhere(x) == output = x \/ \E w \in Writers : aside[w] = x

(* One place is never left without an output by writers that all returned:   *)
(* what was there goes only when another tree replaced it, or when a writer  *)
(* could neither install nor restore.  A tree whose writer answered Ok goes  *)
(* only with another writer that answered: one that replaced it, or one that *)
(* moved it aside and could not move it back, because by then a third had    *)
(* restored what was there before.  A writer that answers an error never     *)
(* installed its tree, and leaves nothing aside.                             *)
TargetKept ==
    /\ had = "old" => Somewhere("old") \/ lost \/ \E w \in Writers : said[w] = "ok" \/ Somewhere(w)
    /\ output = "none" /\ (had = "old" \/ \E w \in Writers : said[w] = "ok") =>
          lost \/ \E w \in Writers : aside[w] # "none"
    /\ \A w \in Writers :
          /\ said[w] = "ok" => Somewhere(w) \/ \E x \in Writers \ {w} : said[x] \in {"ok", "error"}
          /\ said[w] = "error" => ~Somewhere(w) /\ stageOf[w] = "none" /\ aside[w] = "none"

(* A stage has the four documents and every asset under its own name with    *)
(* its own bytes, and nothing else, but for an asset named like the          *)
(* temporary of a later one, which is gone.                                  *)
TreeWhole ==
    \A w \in Writers : wrote[w] # <<>> =>
        /\ DOMAIN wrote[w] \subseteq ToSet(Documents \o assets[w])
        /\ \A i \in DOMAIN Documents : Documents[i] \in DOMAIN wrote[w] /\ wrote[w][Documents[i]] = "document"
        /\ \A i \in DOMAIN assets[w] :
              \/ assets[w][i] \in DOMAIN wrote[w] /\ wrote[w][assets[w][i]] = "asset"
              \/ \E j \in DOMAIN assets[w] : j > i /\ TempOf(assets[w][j]) = assets[w][i]

WritersEnd == \A w \in Writers : wpc[w] = "done"

-----------------------------------------------------------------------------
(* publish_rendered *)
VARIABLES
    place, found,   \* name -> content of the directory, and before
    order,            \* renderer -> [file, sidecars]
    linked,         \* renderer -> sidecars linked into images/
    renderStage,    \* renderer -> its private stage exists
    ownsImages,     \* PreparedRender::owns_images
    renderAt, told,      \* renderer -> where it is, and what it answered
    stuck           \* history: renderers whose removals failed

renderVars == <<place, found, order, linked, renderStage, ownsImages, renderAt, told, stuck>>
NotProgress == <<found, order>>

(* prepare_render's checks of the names. *)
ValidSidecars(paths) ==
    /\ \A p \in paths : Len(p) >= 2 /\ p[1] = "images" /\ ".." \notin ToSet(p)
    /\ \A p, q \in paths : ~IsStrictPrefix(p, q)

(* The names the renderers use, and what the directory holds under them.   *)
RenderNames == {"images"} \cup {job[r].file : job \in RenderJobs, r \in Renderers}

ASSUME RenderAssumption ==
    /\ Renderers \cap {"none", "old"} = {}
    /\ RenderJobs \subseteq [Renderers -> [file : STRING, sidecars : Seq(Seq(STRING))]]
    /\ RenderStarts \subseteq [RenderNames -> {"none", "old"}]

RenderInit ==
    /\ place \in RenderStarts /\ found = place
    /\ order \in RenderJobs
    /\ linked = [r \in Renderers |-> 0]
    /\ renderStage = [r \in Renderers |-> FALSE] /\ ownsImages = [r \in Renderers |-> FALSE]
    /\ renderAt = [r \in Renderers |-> "prepare"] /\ told = [r \in Renderers |-> "none"]
    /\ stuck = {}

To(r, p) == renderAt' = [renderAt EXCEPT ![r] = p]
Tells(r, how) == To(r, "done") /\ told' = [told EXCEPT ![r] = how]

(* What is in the way is refused before anything is made; the links below    *)
(* are what decides.                                                         *)
PrepareRender(r) ==
    /\ renderAt[r] = "prepare"
    /\ \/ /\ ValidSidecars(ToSet(order[r].sidecars)) /\ order[r].file # "images"
          /\ place[order[r].file] = "none"
          /\ order[r].sidecars # <<>> => place["images"] = "none"
          /\ renderStage' = [renderStage EXCEPT ![r] = TRUE]
          /\ To(r, IF order[r].sidecars = <<>> THEN "main" ELSE "images") /\ UNCHANGED told
       \/ Tells(r, "error") /\ UNCHANGED renderStage
    /\ UNCHANGED <<NotProgress, place, linked, ownsImages, stuck>>

Fails(r) == To(r, "drop") /\ UNCHANGED <<place, linked, ownsImages>>

MakeImages(r) ==
    /\ renderAt[r] = "images"
    /\ \/ /\ place["images"] = "none"
          /\ place' = [place EXCEPT !["images"] = r] /\ ownsImages' = [ownsImages EXCEPT ![r] = TRUE]
          /\ To(r, "assets") /\ UNCHANGED linked
       \/ Fails(r)
    /\ UNCHANGED <<NotProgress, renderStage, told, stuck>>

LinkAsset(r) ==
    /\ renderAt[r] = "assets"
    /\ \/ /\ linked[r] < Len(order[r].sidecars)
          /\ linked' = [linked EXCEPT ![r] = @ + 1] /\ UNCHANGED <<place, ownsImages, renderAt>>
       \/ linked[r] = Len(order[r].sidecars) /\ To(r, "main") /\ UNCHANGED <<place, linked, ownsImages>>
       \/ Fails(r)
    /\ UNCHANGED <<NotProgress, renderStage, told, stuck>>

(* The hard link is the commit: it fails when the name is taken. *)
LinkMain(r) ==
    /\ renderAt[r] = "main"
    /\ \/ /\ place[order[r].file] = "none" /\ place' = [place EXCEPT ![order[r].file] = r]
          /\ ownsImages' = [ownsImages EXCEPT ![r] = FALSE]
          /\ To(r, "unstage") /\ UNCHANGED linked
       \/ Fails(r)
    /\ UNCHANGED <<NotProgress, renderStage, told, stuck>>

(* The answer is that of the stage's removal; Drop tries it again. *)
RemoveStage(r) ==
    /\ renderAt[r] = "unstage"
    /\ \/ /\ renderStage' = [renderStage EXCEPT ![r] = FALSE]
          /\ Tells(r, "ok") /\ UNCHANGED <<place, linked, ownsImages, stuck>>
       \/ /\ stuck' = stuck \cup {r} /\ Fails(r) /\ UNCHANGED <<told, renderStage>>
    /\ UNCHANGED NotProgress

(* impl Drop for PreparedRender. *)
DropRender(r) ==
    /\ renderAt[r] = "drop" /\ Tells(r, "error")
    /\ \/ /\ place' = IF ownsImages[r] THEN [place EXCEPT !["images"] = "none"] ELSE place
          /\ renderStage' = [renderStage EXCEPT ![r] = FALSE] /\ UNCHANGED stuck
       \/ stuck' = stuck \cup {r} /\ UNCHANGED <<place, renderStage>>
    /\ UNCHANGED <<NotProgress, linked, ownsImages>>

KillRender(r) ==
    /\ renderAt[r] # "done" /\ Tells(r, "killed")
    /\ UNCHANGED <<NotProgress, place, linked, renderStage, ownsImages, stuck>>

RenderStep(r) ==
    PrepareRender(r) \/ MakeImages(r) \/ LinkAsset(r) \/ LinkMain(r) \/ RemoveStage(r) \/ DropRender(r)

RenderedNext == \E r \in Renderers : RenderStep(r) \/ KillRender(r)

RenderSpec == RenderInit /\ [][RenderedNext]_renderVars

-----------------------------------------------------------------------------
Published(r) == place[order[r].file] = r

(* A rendered file is only there together with all of its images, and stays; *)
(* nothing that was there is replaced; who loses the race takes back what it *)
(* made and nothing of the winner's; an error after the file was published   *)
(* says only that the stage could not be removed.                            *)
RenderSound ==
    /\ \A n \in DOMAIN found : found[n] # "none" => place[n] = found[n]
    /\ \A r \in Renderers :
          /\ Published(r) /\ order[r].sidecars # <<>> =>
                place["images"] = r /\ linked[r] = Len(order[r].sidecars)
          /\ told[r] = "ok" => Published(r) /\ ~renderStage[r]
          /\ told[r] = "error" /\ r \notin stuck =>
                ~renderStage[r] /\ \A n \in DOMAIN place : place[n] # r

(* What a user finds at a place that one of the two writers was given.      *)
PlacesSound == TargetKept /\ TreeWhole /\ RenderSound
RendersEnd == \A r \in Renderers : renderAt[r] = "done"
=============================================================================
