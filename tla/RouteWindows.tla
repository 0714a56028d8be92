---------------------------- MODULE RouteWindows ----------------------------
(***************************************************************************)
(* The page route of one document (src/official_route.rs) and its output   *)
(* stage (src/official_output.rs).  Pages go through windows: a window is  *)
(* planned under an image byte cap, rendered, read by the VLM and staged,  *)
(* and the next window is rendered while the VLM reads this one (phase A)  *)
(* and read while this one is staged (phase B).  Then the stage is         *)
(* assembled and installed in place of the previous output.                *)
(*                                                                         *)
(* The deadline may pass at any moment and the caller may drop the route;  *)
(* a blocking job that owns the stage goes on regardless and drops the     *)
(* stage when it ends.  Every rename may fail.                             *)
(***************************************************************************)
EXTENDS Integers, Sequences, FiniteSets, SequencesExt

CONSTANTS NPages, WindowSize,
          Estimates,     \* page -> bytes of its image; Unreadable when unknown
          Caps           \* values of max_in_flight_image_bytes

ASSUME RouteAssumption ==
    /\ NPages \in Nat \ {0} /\ WindowSize \in Nat \ {0}
    /\ Estimates \subseteq Nat \ {0} /\ Caps \subseteq Nat \ {0}

RoutePages == 1..NPages
Unreadable == 0
NoWindow == [pages |-> <<>>, bytes |-> 0, mode |-> "slot", consumed |-> 0, rendered |-> {}]

VARIABLES
    cap, weight,      \* the image cap; page -> estimate
    expired,          \* the deadline has passed
    routePc, outcome,     \* the route; "none", "ok", "error", "timeout", "dropped"
    cursor, slot,     \* pages consumed by windows; half of the cap in use
    cwin, csnap,      \* current window; the VLM has answered for it
    nwin, nsnap,      \* prefetched window, likewise
    pend,             \* planned window that needs the whole cap
    owner, writer,    \* who owns the stage; blocking write under way
    previewed, routeStaged,\* pages written to the stage: sequences of <<page, kind>>
    assembled,
    commit,           \* commit worker: "none", "queued", "parked", "permitted", "installing", "placed", "failed", "refused"
    prior,            \* the public output before the run
    target, routeBackup,   \* the public output; what the private directory keeps aside
    tidy              \* stage cleanup: "none", "queued", "done"

windowVars == <<routePc, outcome, cursor, slot, cwin, csnap, nwin, nsnap, pend>>
stageVars == <<owner, writer, previewed, routeStaged, assembled, commit, target, routeBackup, tidy>>
routeVars == <<cap, weight, prior, expired, windowVars, stageVars>>

RouteInit ==
    /\ cap \in Caps /\ weight \in [RoutePages -> Estimates \cup {Unreadable}]
    /\ expired = FALSE /\ routePc = "begin" /\ outcome = "none"
    /\ cursor = 0 /\ slot = 0
    /\ cwin = NoWindow /\ csnap = FALSE /\ nwin = NoWindow /\ nsnap = FALSE /\ pend = NoWindow
    /\ owner = "nobody" /\ writer = "idle" /\ previewed = <<>> /\ routeStaged = <<>>
    /\ assembled = FALSE /\ commit = "none"
    /\ prior \in {"none", "old"} /\ target = prior /\ routeBackup = "none" /\ tidy = "none"

-----------------------------------------------------------------------------
(* split_image_slot_caps; with an empty half the route plans under the      *)
(* whole cap and never prefetches.                                          *)
SlotCap(s) == IF s = 0 THEN cap \div 2 ELSE cap - cap \div 2
Overlap == SlotCap(0) # 0 /\ SlotCap(1) # 0

Skipped(p) == weight[p] = Unreadable \/ weight[p] > cap

(* plan_window: one page of the loop, and the loop. *)
PlanPage(acc, p, room) ==
    LET w == acc.win
        Retain(m) == [pages |-> Append(w.pages, p), bytes |-> w.bytes + weight[p], mode |-> m,
                      consumed |-> w.consumed + 1, rendered |-> {}]
    IN  IF acc.full \/ Len(w.pages) >= WindowSize THEN [full |-> TRUE, win |-> w]
        ELSE IF Skipped(p) THEN [full |-> FALSE, win |-> [w EXCEPT !.consumed = @ + 1]]
        ELSE IF w.pages = <<>> /\ weight[p] > room THEN [full |-> TRUE, win |-> Retain("fallback")]
        ELSE IF w.bytes + weight[p] > room THEN [full |-> TRUE, win |-> w]
        ELSE [full |-> FALSE, win |-> Retain("slot")]

PlanWindow(from, room) ==
    LET plan[n \in 0..(NPages - from)] ==
            IF n = 0 THEN [full |-> FALSE, win |-> NoWindow] ELSE PlanPage(plan[n - 1], from + n, room)
    IN  plan[NPages - from].win

-----------------------------------------------------------------------------
(* The stage is dropped: its cleanup is sent to the admitted worker.  A     *)
(* blocking write that owns it drops it later.                              *)
DropStage ==
    IF owner = "route"
    THEN owner' = "nobody" /\ tidy' = "queued" /\ UNCHANGED <<writer, previewed, routeStaged, assembled, commit, target, routeBackup>>
    ELSE UNCHANGED stageVars

EndRoute(o) == outcome' = o /\ routePc' = "done" /\ UNCHANGED <<cursor, slot, cwin, csnap, nwin, nsnap, pend>>

RouteErrors == {"error"} \cup (IF expired THEN {"timeout"} ELSE {})

(* dispose_stage: a timeout returns at once, any other error waits for the  *)
(* cleanup.  A future that is dropped leaves it to Drop.                    *)
DisposeWith(o) ==
    /\ EndRoute(o)
    /\ IF owner = "route"
       THEN /\ owner' = "nobody" /\ tidy' = (IF o = "timeout" THEN "queued" ELSE "done")
            /\ UNCHANGED <<writer, previewed, routeStaged, assembled, commit, target, routeBackup>>
       ELSE UNCHANGED stageVars

Dispose == \E o \in RouteErrors : DisposeWith(o)
Abandon == \E o \in RouteErrors : EndRoute(o) /\ DropStage

Go(pc) == routePc' = pc /\ UNCHANGED outcome

DeadlinePasses ==
    /\ ~expired /\ expired' = TRUE
    /\ UNCHANGED <<cap, weight, prior, windowVars, stageVars>>

(* The private stage, with its cleanup worker already admitted. *)
OpenStage == owner' = "route"

(* Read, parse and select; then open the stage. *)
Begin ==
    /\ routePc = "begin"
    /\ \/ /\ ~expired /\ OpenStage /\ Go("top")
          /\ UNCHANGED <<cursor, slot, cwin, csnap, nwin, nsnap, pend, writer, previewed, routeStaged,
                         assembled, commit, target, routeBackup, tidy>>
       \/ Dispose
    /\ UNCHANGED <<cap, weight, prior, expired>>

Advance(w) == cursor' = cursor + w.consumed

(* The head of the loop: the prefetched window, the pending one, or a plan. *)
TakeWindow ==
    /\ routePc = "top" /\ UNCHANGED <<cap, weight, prior, expired>>
    /\ \/ /\ cursor = NPages /\ nwin = NoWindow /\ pend = NoWindow
          /\ Go("final") /\ UNCHANGED <<cursor, slot, cwin, csnap, nwin, nsnap, pend, stageVars>>
       \/ /\ ~expired /\ nwin # NoWindow
          /\ cwin' = nwin /\ csnap' = TRUE /\ nwin' = NoWindow /\ nsnap' = FALSE
          /\ Go("next") /\ UNCHANGED <<cursor, slot, pend, stageVars>>
       \/ /\ ~expired /\ pend # NoWindow
          /\ cwin' = pend /\ csnap' = FALSE /\ pend' = NoWindow
          /\ Go("render") /\ UNCHANGED <<cursor, slot, nwin, nsnap, stageVars>>
       \/ /\ ~expired /\ cursor < NPages /\ nwin = NoWindow /\ pend = NoWindow
          /\ LET w == PlanWindow(cursor, IF Overlap THEN SlotCap(slot) ELSE cap) IN
             IF w.pages = <<>> THEN DisposeWith("error")
             ELSE /\ Advance(w) /\ cwin' = w /\ csnap' = FALSE
                  /\ Go("render") /\ UNCHANGED <<slot, nwin, nsnap, pend, stageVars>>
       \/ expired /\ (cursor < NPages \/ nwin # NoWindow \/ pend # NoWindow) /\ Dispose

(* render_route_window tolerates failed pages, not a failed window. *)
RenderCurrent ==
    /\ routePc = "render" /\ UNCHANGED <<cap, weight, prior, expired>>
    /\ \/ \E r \in SUBSET ToSet(cwin.pages) \ {{}} :
            /\ ~expired /\ cwin' = [cwin EXCEPT !.rendered = r] /\ Go("next")
            /\ UNCHANGED <<cursor, slot, csnap, nwin, nsnap, pend, stageVars>>
       \/ Dispose

PrefetchRoom == SlotCap(1 - slot)

PlanNext ==
    /\ routePc = "next" /\ UNCHANGED <<cap, weight, prior, expired>>
    /\ IF Overlap /\ cwin.mode = "slot" /\ cursor < NPages
       THEN LET w == PlanWindow(cursor, PrefetchRoom) IN
            IF w.pages = <<>> THEN DisposeWith("error")
            ELSE IF w.mode = "slot"
            THEN IF cwin.bytes + w.bytes > cap THEN DisposeWith("error")
                 ELSE /\ Advance(w) /\ nwin' = w /\ Go("phaseA")
                      /\ UNCHANGED <<slot, cwin, csnap, nsnap, pend, stageVars>>
            ELSE /\ Advance(w) /\ slot' = 0 /\ pend' = w /\ Go("phaseA")
                 /\ UNCHANGED <<cwin, csnap, nwin, nsnap, stageVars>>
       ELSE Go("phaseA") /\ UNCHANGED <<cursor, slot, cwin, csnap, nwin, nsnap, pend, stageVars>>

(* Phase A: the VLM reads the current window while the next one renders;    *)
(* the first failure drops the other.                                       *)
VlmCurrent ==
    /\ routePc = "phaseA" /\ ~csnap /\ UNCHANGED <<cap, weight, prior, expired>>
    /\ \/ ~expired /\ csnap' = TRUE /\ UNCHANGED <<routePc, outcome, cursor, slot, cwin, nwin, nsnap, pend, stageVars>>
       \/ Dispose

RenderNext ==
    /\ routePc = "phaseA" /\ nwin # NoWindow /\ nwin.rendered = {} /\ UNCHANGED <<cap, weight, prior, expired>>
    /\ \/ \E r \in SUBSET ToSet(nwin.pages) \ {{}} :
            /\ ~expired /\ nwin' = [nwin EXCEPT !.rendered = r]
            /\ UNCHANGED <<routePc, outcome, cursor, slot, cwin, csnap, nsnap, pend, stageVars>>
       \/ Dispose

PhaseADone ==
    /\ routePc = "phaseA" /\ csnap /\ (nwin # NoWindow => nwin.rendered # {})
    /\ Go("phaseB")
    /\ slot' = IF nwin # NoWindow THEN 1 - slot ELSE slot
    /\ UNCHANGED <<cap, weight, prior, expired, cursor, cwin, csnap, nwin, nsnap, pend, stageVars>>

(* Phase B: the current window is staged page by page while the VLM reads   *)
(* the next.  A write is a blocking job that owns the stage; a page that    *)
(* did not render is staged blank.                                          *)
VlmNext ==
    /\ routePc = "phaseB" /\ nwin # NoWindow /\ ~nsnap /\ UNCHANGED <<cap, weight, prior, expired>>
    /\ \/ ~expired /\ nsnap' = TRUE /\ UNCHANGED <<routePc, outcome, cursor, slot, cwin, csnap, nwin, pend, stageVars>>
       \/ Abandon

StagedPage(p) == <<p, IF p \in cwin.rendered THEN "real" ELSE "blank">>

\* The pages of the window that are not in the stage yet, by place, and the first.
Unstaged == {i \in DOMAIN cwin.pages : \A k \in DOMAIN routeStaged : routeStaged[k][1] # cwin.pages[i]}
NextPage == cwin.pages[Min(Unstaged)]

StartWrite ==
    /\ routePc = "phaseB" /\ Unstaged # {} /\ owner = "route" /\ ~expired
    /\ owner' = "writer"
    /\ writer' = IF \E i \in DOMAIN previewed : previewed[i][1] = NextPage THEN "page" ELSE "preview"
    /\ UNCHANGED <<cap, weight, prior, expired, windowVars, previewed, routeStaged, assembled, commit, target, routeBackup, tidy>>

(* The job ends: the stage goes back to the route, or is dropped with it.   *)
HandBack == IF outcome = "none" THEN owner' = "route" /\ UNCHANGED tidy
            ELSE owner' = "nobody" /\ tidy' = "queued"

EndPreview ==
    /\ owner = "writer" /\ writer = "preview" /\ writer' = "idle" /\ HandBack
    /\ previewed' = Append(previewed, StagedPage(NextPage))
    /\ UNCHANGED <<cap, weight, prior, expired, windowVars, routeStaged, assembled, commit, target, routeBackup>>

EndPage ==
    /\ owner = "writer" /\ writer = "page" /\ writer' = "idle" /\ HandBack
    /\ routeStaged' = Append(routeStaged, StagedPage(NextPage))
    /\ UNCHANGED <<cap, weight, prior, expired, windowVars, previewed, assembled, commit, target, routeBackup>>

StagingFails ==
    /\ routePc = "phaseB" /\ Dispose /\ UNCHANGED <<cap, weight, prior, expired>>

PhaseBDone ==
    /\ routePc = "phaseB" /\ owner = "route" /\ Unstaged = {} /\ (nwin # NoWindow => nsnap)
    /\ cwin' = NoWindow /\ csnap' = FALSE /\ Go("top")
    /\ UNCHANGED <<cap, weight, prior, expired, cursor, slot, nwin, nsnap, pend, stageVars>>

-----------------------------------------------------------------------------
(* Finalize, preview and assemble in one blocking job. *)
Finalize ==
    /\ routePc = "final" /\ UNCHANGED <<cap, weight, prior, expired>>
    /\ \/ /\ ~expired /\ owner = "route" /\ ~assembled
          /\ owner' = "writer" /\ writer' = "final"
          /\ UNCHANGED <<windowVars, previewed, routeStaged, assembled, commit, target, routeBackup, tidy>>
       \/ Dispose
       \/ /\ owner = "route" /\ assembled /\ ~expired
          /\ owner' = "commit" /\ commit' = "queued" /\ Go("commit")
          /\ UNCHANGED <<cursor, slot, cwin, csnap, nwin, nsnap, pend, writer, previewed, routeStaged,
                         assembled, target, routeBackup, tidy>>

(* finalize_document rewrites every prepared page, assemble concatenates    *)
(* them; a stage whose previews and pages differ is incomplete.             *)
Complete == routeStaged # <<>> /\ routeStaged = previewed

EndFinal ==
    /\ owner = "writer" /\ writer = "final" /\ writer' = "idle" /\ HandBack
    /\ assembled' = Complete
    /\ UNCHANGED <<cap, weight, prior, expired, windowVars, previewed, routeStaged, commit, target, routeBackup>>

(* The commit worker: it starts, parks on the permit, and looks at the      *)
(* deadline once more before it installs.  The route sends the permit only  *)
(* before the deadline, and then waits for the worker however long it       *)
(* takes.                                                                   *)
CommitDrops == owner' = "nobody" /\ tidy' = "queued" /\ commit' = "refused"

CommitStarts ==
    /\ commit = "queued"
    /\ \/ commit' = "parked" /\ UNCHANGED <<owner, tidy>>
       \/ outcome # "none" /\ CommitDrops          \* aborted while queued
    /\ UNCHANGED <<cap, weight, prior, expired, windowVars, writer, previewed, routeStaged, assembled, target, routeBackup>>

SendPermit ==
    /\ routePc = "commit" /\ UNCHANGED <<cap, weight, prior, expired>>
    /\ \/ /\ commit = "parked" /\ ~expired /\ commit' = "permitted" /\ Go("await")
          /\ UNCHANGED <<cursor, slot, cwin, csnap, nwin, nsnap, pend, owner, writer, previewed, routeStaged,
                         assembled, target, routeBackup, tidy>>
       \/ expired /\ EndRoute("timeout") /\ UNCHANGED stageVars

AdmitCommit ==
    /\ \/ commit = "permitted" /\ ~expired /\ commit' = "installing" /\ UNCHANGED <<owner, tidy>>
       \/ commit = "permitted" /\ expired /\ CommitDrops
       \/ commit = "parked" /\ routePc = "done" /\ CommitDrops     \* the permit's sender is gone
    /\ UNCHANGED <<cap, weight, prior, expired, windowVars, writer, previewed, routeStaged, assembled, target, routeBackup>>

(* install_stage_in: the old output moves into the private directory, the   *)
(* stage takes its name; a failure moves the old output back, if it can.    *)
MoveOld ==
    /\ commit = "installing" /\ target = "old" /\ routeBackup = "none"
    /\ \/ target' = "none" /\ routeBackup' = "old" /\ UNCHANGED commit
       \/ commit' = "failed" /\ UNCHANGED <<target, routeBackup>>
    /\ UNCHANGED <<cap, weight, prior, expired, windowVars, owner, writer, previewed, routeStaged, assembled, tidy>>

InstallFails ==
    \/ routeBackup = "old" /\ target' = "old" /\ routeBackup' = "none"
    \/ UNCHANGED <<target, routeBackup>>          \* nothing moved, or moving back failed

PlaceNew ==
    /\ commit = "installing" /\ (target = "old" => routeBackup = "old")
    /\ \/ target' = "new" /\ commit' = "placed" /\ UNCHANGED routeBackup
       \/ commit' = "failed" /\ InstallFails
    /\ UNCHANGED <<cap, weight, prior, expired, windowVars, owner, writer, previewed, routeStaged, assembled, tidy>>

(* commit waits for the cleanup before the route hears of it. *)
CommitTidies ==
    /\ commit \in {"placed", "failed"} /\ owner = "commit"
    /\ owner' = "nobody" /\ tidy' = "queued"
    /\ UNCHANGED <<cap, weight, prior, expired, windowVars, writer, previewed, routeStaged, assembled, commit, target, routeBackup>>

RouteHears ==
    /\ routePc = "await" /\ commit \in {"placed", "failed", "refused"} /\ owner = "nobody"
    /\ commit # "refused" => tidy = "done"
    /\ EndRoute(CASE commit = "placed" -> "ok" [] commit = "failed" -> "error" [] OTHER -> "timeout")
    /\ UNCHANGED <<cap, weight, prior, expired, stageVars>>

(* CleanupJob::run: the backup only after an installation, the stage, then  *)
(* the private directory, which is removed only if nothing else is in it.   *)
CleanUp ==
    /\ tidy = "queued" /\ tidy' = "done"
    /\ routeBackup' = IF commit = "placed" THEN "none" ELSE routeBackup
    /\ UNCHANGED <<cap, weight, prior, expired, windowVars, owner, writer, previewed, routeStaged, assembled, commit, target>>

(* The caller drops the future. *)
RouteDropped ==
    /\ outcome = "none" /\ EndRoute("dropped") /\ DropStage
    /\ UNCHANGED <<cap, weight, prior, expired>>

RouteStep ==
    \/ Begin \/ TakeWindow \/ RenderCurrent \/ PlanNext \/ VlmCurrent \/ RenderNext \/ PhaseADone
    \/ VlmNext \/ StartWrite \/ EndPreview \/ EndPage \/ EndFinal \/ StagingFails \/ PhaseBDone \/ Finalize
    \/ CommitStarts \/ SendPermit \/ AdmitCommit \/ MoveOld \/ PlaceNew \/ CommitTidies
    \/ RouteHears \/ CleanUp

RouteNext == RouteStep \/ DeadlinePasses \/ RouteDropped

RouteSpec == RouteInit /\ [][RouteNext]_routeVars

-----------------------------------------------------------------------------
Kept == {p \in RoutePages : ~Skipped(p)}
Increasing(s) == \A i, j \in DOMAIN s : i < j => s[i] < s[j]
PagesOf(s) == [i \in DOMAIN s |-> s[i][1]]

(* A published document holds every page the windows could take, once and   *)
(* in order, whatever windows they fell in and whatever the overlap.        *)
PagesWhole ==
    /\ target = "new" => ToSet(PagesOf(routeStaged)) = Kept /\ Increasing(PagesOf(routeStaged)) /\ routeStaged = previewed
    /\ Len(previewed) - Len(routeStaged) \in {0, 1}

(* The route reports success exactly when it published, a timeout never     *)
(* follows a publication, and the previous output is in place or kept aside *)
(* until the new one has taken its name.                                    *)
VerdictTrue ==
    /\ outcome = "ok" => target = "new" /\ routeBackup = "none" /\ tidy = "done"
    /\ outcome \in {"error", "timeout"} => target # "new"
    /\ outcome = "dropped" /\ commit \in {"none", "queued", "parked"} => target # "new"
    /\ prior = "old" => target = "new" \/ "old" \in {target, routeBackup}

ImageBytes(w) == SumFunction([i \in DOMAIN w.pages |-> weight[w.pages[i]]])

(* The images of the current and the prefetched window never exceed the     *)
(* cap, and a window stays within its half of it through every swap, so the *)
(* check before a prefetch never ends a document.                           *)
ImagesBounded ==
    /\ ImageBytes(cwin) + ImageBytes(nwin) <= cap
    /\ routePc = "next" /\ Overlap /\ cwin.mode = "slot" => ImageBytes(cwin) <= SlotCap(slot)

RouteEnds == outcome # "none" /\ owner = "nobody" /\ (routePc # "begin" => tidy # "queued")
=============================================================================
