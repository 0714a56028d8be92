------------------------------- MODULE MCHosts -------------------------------
(***************************************************************************)
(* The programs that drive documents, on small instances: the overlay of a *)
(* downloaded archive, a run against a remote server, a command line run,  *)
(* the windows of a hybrid document, the tasks facade of the server, the   *)
(* official HTTP client, the preparation of inputs with its children, the  *)
(* parser of the SDK, the writers of plain and rendered output, and the    *)
(* model cache.  They share no state in the model, so a behaviour          *)
(* exercises one of them and leaves the others in an initial state: the    *)
(* state space is the sum of the eleven, not their product.                *)
(***************************************************************************)
EXTENDS ArchiveOverlay, RemoteRun, CommandRun, RouteWindows, TasksFacade, OfficialClient,
        Preparation, OfficialSdk, OutputWriters, ModelCache, TLC

CONSTANTS q1, q2, call1, call2, call3, w1, w2, w3

VARIABLE part       \* which program this behaviour exercises

-----------------------------------------------------------------------------
MCPaths == {<<"a">>, <<"d">>, <<"d", "b">>, <<"d", "c">>, <<"d", "l">>}
MCFile(p) == [path |-> p, dir |-> FALSE]
MCArchives == {<<MCFile(<<"a">>), MCFile(<<"d", "b">>)>>,
               <<[path |-> <<"d">>, dir |-> TRUE], MCFile(<<"d", "b">>), MCFile(<<"d", "c">>)>>}
MCEmpty == [p \in MCPaths |-> "none"]
MCTrees == {[MCEmpty EXCEPT ![<<"a">>] = a, ![<<"d">>] = d, ![<<"d", "b">>] = b] :
               a \in {"none", "old"}, d \in {"none", "dir", "old"}, b \in {"none", "old"}}
MCTreesPossible == {t \in MCTrees : t[<<"d">>] # "dir" => t[<<"d", "b">>] = "none"}
MCLayout == <<"d", "l">>

MCUrl(s, h, p) == [scheme |-> s, host |-> h, port |-> p]
MCOrigins == {MCUrl("https", "h", ""), MCUrl("https", "h", "8443"), MCUrl("http", "h", "80")}
MCUrls == {MCUrl("https", "h", ""), MCUrl("http", "h", ""), MCUrl("http", "h", "8443"), MCUrl("http", "x", "")}

MCPart(n) == [what |-> "files", size |-> n]
MCAsk == [kind |-> "file_parse", type |-> "multipart", query |-> "plain", parts |-> <<MCPart(1), MCPart(2)>>,
          declared |-> -1, digest |-> "none", range |-> TRUE, wait |-> 1, zip |-> FALSE, formats |-> {"markdown"}]
MCOctet == [MCAsk EXCEPT !.kind = "create", !.type = "octet", !.query = "filename", !.parts = <<MCPart(2)>>,
            !.declared = 2, !.digest = "right"]
MCMakes == {MCAsk, MCOctet, [MCOctet EXCEPT !.declared = 3], [MCAsk EXCEPT !.zip = TRUE], [MCAsk EXCEPT !.wait = 0],
            [MCAsk EXCEPT !.parts = <<MCPart(1), MCPart(0)>>], [MCAsk EXCEPT !.parts = <<>>], [MCAsk EXCEPT !.type = "other"],
            [MCAsk EXCEPT !.parts = <<MCPart(1), [what |-> "stray", size |-> 1]>>],
            [MCAsk EXCEPT !.kind = "create", !.type = "json", !.parts = <<MCPart(3)>>],
            [MCAsk EXCEPT !.kind = "create", !.type = "json", !.query = "options"]}
MCReads == {[MCAsk EXCEPT !.kind = k] : k \in {"status", "cancel", "result"}}
           \cup {[MCAsk EXCEPT !.kind = "result", !.zip = TRUE]}
MCAsks == MCMakes \cup MCReads
\* One request makes a job, the other reads, cancels or fetches it, or makes its own.
MCPairs == ({MCAsk} \X (MCReads \cup {MCOctet})) \cup ((MCMakes \ {MCAsk}) \X {[MCAsk EXCEPT !.kind = "status"]})

MCPreps == {"c1", "c2"}
MCPrepKinds == {[c1 |-> a, c2 |-> "none"] : a \in {"pdf", "office", "legacy", "official"}}
               \cup {[c1 |-> "image", c2 |-> "image"]}

MCItem(s, o, b) == [suffix |-> s, options |-> o, bytes |-> b]
MCCall(k, m, n, its) == [kind |-> k, mode |-> m, native |-> n, items |-> its]
MCBatch(its) == MCCall("batch", "fresh", FALSE, its)
MCSingle(m, n) == MCCall("parse", m, FALSE, <<MCItem("pdf", "valid", n)>>)
MCStop == MCCall("shutdown", "fresh", FALSE, <<>>)
MCOn(k, n) == MCCall(k, "fresh", n, <<>>)
MCFirst == {MCBatch(<<MCItem("bad", "valid", 1), MCItem("csv", "vlm", 1), MCItem("pdf", "invalid", 1), MCItem("pdf", "valid", 1)>>),
            MCSingle("persistent", 2), MCSingle("fresh", 0), MCStop,
            MCOn("render", FALSE), MCOn("serialize", TRUE), MCOn("restore", FALSE)}
MCNothing == MCBatch(<<>>)
\* With a third caller a worker can be started between the two halves of a shutdown.
MCPrograms == {call1 :> MCBatch(<<MCItem("csv", "valid", 1), MCItem("pdf", "valid", 1)>>) @@ call2 :> MCNothing @@ call3 :> MCNothing}
              \cup {call1 :> a @@ call2 :> MCStop @@ call3 :> MCNothing : a \in MCFirst}
              \cup {call1 :> MCSingle("persistent", 1) @@ call2 :> MCStop @@ call3 :> MCBatch(<<MCItem("pdf", "valid", 3)>>)}

\* with_extension("<extension>.tmp"): "a" stands for any name with an extension.
MCTempOf(p) == Front(p) \o <<IF Last(p) = "a" THEN "a.tmp" ELSE "x.tmp">>
MCAssetLists == {<<>>, <<<<"a">>, <<"d", "a">>>>, <<<<"a.tmp">>, <<"a">>>>, <<<<"a">>, <<"a.tmp">>>>,
                 <<<<"a">>, <<"a", "b">>>>, <<<<"a">>, <<"document.md">>>>}

MCRender(f, s) == [file |-> f, sidecars |-> s]
MCImage(n) == <<"images", n>>
MCRenderFirst == MCRender("x", <<MCImage("a"), <<"images", "d", "b">>>>)
MCRenderJobs == {[r1 |-> MCRenderFirst, r2 |-> j] :
                    j \in {MCRender("x", <<MCImage("a")>>), MCRender("y", <<MCImage("a")>>), MCRender("x", <<>>),
                           MCRender("images", <<>>), MCRender("x", <<MCImage(".."), MCImage("a")>>),
                           MCRender("x", <<MCImage("a"), <<"images", "a", "b">>>>)}}
MCNowhere == [x |-> "none", y |-> "none", images |-> "none"]
MCRenderStarts == {[MCNowhere EXCEPT !.x = a, !.images = b] : a, b \in {"none", "old"}}

MCFetchActs == {[f1 |-> "download", f2 |-> a] : a \in {"download", "offline", "verify"}}
MCCached(c, d, g) == [files |-> [config |-> c, graph |-> g],
                      dirs |-> [config |-> d, graph |-> IF g = "none" THEN "none" ELSE "plain"]]
MCCacheStarts == {MCCached(c, "plain", "none") : c \in {"none", "wrong"}}
                 \cup {MCCached(c, d, "good") : c \in {"none", "short", "wrong", "good", "link", "dir"}, d \in {"plain", "link"}}

-----------------------------------------------------------------------------
(* An idle program is in one of its initial states and stays there. *)
OverlayIdle == /\ entries = <<MCFile(<<"a">>), MCFile(<<"d", "b">>)>> /\ tree = MCEmpty /\ OverlayInit
RemoteIdle == origin = MCUrl("https", "h", "") /\ RemoteInit
CommandIdle == /\ lane = "hybrid" /\ kind = [d \in DocIds |-> "pdf"] /\ size = [d \in DocIds |-> "fits"] /\ CommandInit
RouteIdle == cap = 3 /\ weight = [p \in RoutePages |-> 1] /\ prior = "none" /\ RouteInit
FacadeIdle == ask = [r \in Requests |-> MCAsk] /\ of = [r \in Requests |-> r] /\ FacadeInit
FacadeStart == \E p \in MCPairs :
                  ask = (q1 :> p[1] @@ q2 :> p[2]) /\ of = (q1 :> q1 @@ q2 :> (IF p[2] \in MCReads THEN q1 ELSE q2)) /\ FacadeInit
ClientIdle == inputs = <<>> /\ ClientInit
WriterIdle == output = "none" /\ assets = [w \in Writers |-> <<>>] /\ WriterInit
RenderIdle == place = MCNowhere /\ order = [r1 |-> MCRenderFirst, r2 |-> MCRender("x", <<>>)] /\ RenderInit
CacheIdle == /\ cached = [config |-> "none", graph |-> "none"] /\ hashDir = [config |-> "plain", graph |-> "none"]
             /\ act = [f1 |-> "download", f2 |-> "download"] /\ CacheInit
\* Three writers race for one place; what each stages is its own, so one of them has assets.
WriterStart == WriterInit /\ assets[w2] = <<>> /\ assets[w3] = <<>>
SiteIdle == WriterIdle /\ RenderIdle /\ CacheIdle

HostsIdle == OverlayIdle /\ RemoteIdle /\ CommandIdle /\ RouteIdle /\ FacadeIdle /\ ClientIdle /\ PrepIdle /\ SdkIdle

HostsInit ==
    \/ part = "overlay" /\ OverlayInit
       /\ RemoteIdle /\ CommandIdle /\ RouteIdle /\ FacadeIdle /\ ClientIdle /\ PrepIdle /\ SdkIdle /\ SiteIdle
    \/ part = "remote" /\ RemoteInit
       /\ OverlayIdle /\ CommandIdle /\ RouteIdle /\ FacadeIdle /\ ClientIdle /\ PrepIdle /\ SdkIdle /\ SiteIdle
    \/ part = "command" /\ CommandInit
       /\ OverlayIdle /\ RemoteIdle /\ RouteIdle /\ FacadeIdle /\ ClientIdle /\ PrepIdle /\ SdkIdle /\ SiteIdle
    \/ part = "route" /\ RouteInit
       /\ OverlayIdle /\ RemoteIdle /\ CommandIdle /\ FacadeIdle /\ ClientIdle /\ PrepIdle /\ SdkIdle /\ SiteIdle
    \/ part = "facade" /\ FacadeStart
       /\ OverlayIdle /\ RemoteIdle /\ CommandIdle /\ RouteIdle /\ ClientIdle /\ PrepIdle /\ SdkIdle /\ SiteIdle
    \/ part = "client" /\ ClientInit
       /\ OverlayIdle /\ RemoteIdle /\ CommandIdle /\ RouteIdle /\ FacadeIdle /\ PrepIdle /\ SdkIdle /\ SiteIdle
    \/ part = "prep" /\ PrepInit
       /\ OverlayIdle /\ RemoteIdle /\ CommandIdle /\ RouteIdle /\ FacadeIdle /\ ClientIdle /\ SdkIdle /\ SiteIdle
    \/ part = "sdk" /\ SdkInit
       /\ OverlayIdle /\ RemoteIdle /\ CommandIdle /\ RouteIdle /\ FacadeIdle /\ ClientIdle /\ PrepIdle /\ SiteIdle
    \/ part = "writers" /\ WriterStart /\ HostsIdle /\ RenderIdle /\ CacheIdle
    \/ part = "renders" /\ RenderInit /\ HostsIdle /\ WriterIdle /\ CacheIdle
    \/ part = "cache" /\ CacheInit /\ HostsIdle /\ WriterIdle /\ RenderIdle

siteVars == <<writerVars, renderVars, cacheVars>>
hostsVars == <<part, overlayVars, remoteVars, runVars, routeVars, facadeVars, clientVars, prepVars, sdkVars, siteVars>>
NotOverlay == <<part, remoteVars, runVars, routeVars, facadeVars, clientVars, prepVars, sdkVars, siteVars>>
NotRemote == <<part, overlayVars, runVars, routeVars, facadeVars, clientVars, prepVars, sdkVars, siteVars>>
NotCommand == <<part, overlayVars, remoteVars, routeVars, facadeVars, clientVars, prepVars, sdkVars, siteVars>>
NotRoute == <<part, overlayVars, remoteVars, runVars, facadeVars, clientVars, prepVars, sdkVars, siteVars>>
NotFacade == <<part, overlayVars, remoteVars, runVars, routeVars, clientVars, prepVars, sdkVars, siteVars>>
NotClient == <<part, overlayVars, remoteVars, runVars, routeVars, facadeVars, prepVars, sdkVars, siteVars>>
NotPrep == <<part, overlayVars, remoteVars, runVars, routeVars, facadeVars, clientVars, sdkVars, siteVars>>
NotSdk == <<part, overlayVars, remoteVars, runVars, routeVars, facadeVars, clientVars, prepVars, siteVars>>
NotSites == <<part, overlayVars, remoteVars, runVars, routeVars, facadeVars, clientVars, prepVars, sdkVars>>

OverlayPart == part = "overlay" /\ OverlayNext /\ UNCHANGED NotOverlay
RemotePart == part = "remote" /\ RemoteNext /\ UNCHANGED NotRemote
CommandPart == part = "command" /\ CommandNext /\ UNCHANGED NotCommand
RoutePart == part = "route" /\ RouteNext /\ UNCHANGED NotRoute
FacadePart == part = "facade" /\ FacadeNext /\ UNCHANGED NotFacade
ClientPart == part = "client" /\ ClientNext /\ UNCHANGED NotClient
PrepPart == part = "prep" /\ PrepNext /\ UNCHANGED NotPrep
SdkPart == part = "sdk" /\ SdkNext /\ UNCHANGED NotSdk
WriterPart == part = "writers" /\ WriterNext /\ UNCHANGED <<NotSites, renderVars, cacheVars>>
RenderPart == part = "renders" /\ RenderedNext /\ UNCHANGED <<NotSites, writerVars, cacheVars>>
CachePart == part = "cache" /\ CacheNext /\ UNCHANGED <<NotSites, writerVars, renderVars>>

HostsNext == OverlayPart \/ RemotePart \/ CommandPart \/ RoutePart
             \/ FacadePart \/ ClientPart \/ PrepPart \/ SdkPart
             \/ WriterPart \/ RenderPart \/ CachePart

(* Fairness: as long as a step of the program itself, the end of a bounded  *)
(* wait or the clock can move it, one of them does.  Servers, children and  *)
(* job queues owe nothing: they may never answer, end or move.              *)
HostsStep ==
    \/ part = "overlay" /\ (OverlayThread \/ GuardLocks \/ SetFlag \/ Disarm) /\ UNCHANGED NotOverlay
    \/ part = "remote" /\ (RemoteStep) /\ UNCHANGED NotRemote
    \/ part = "command" /\ (CommandStep) /\ UNCHANGED NotCommand
    \/ part = "route" /\ (RouteStep) /\ UNCHANGED NotRoute
    \/ part = "facade" /\ (\E r \in Requests : RequestStep(r)) /\ UNCHANGED NotFacade
    \/ part = "client" /\ (ClientStep \/ DeadlineEnds) /\ UNCHANGED NotClient
    \/ part = "prep" /\ ((\E r \in Preps : PrepStep(r) \/ ClockMoves(r)) \/ (\E d \in Drainers : DrainStep(d))) /\ UNCHANGED NotPrep
    \/ part = "sdk" /\ ((\E c \in DOMAIN sdk : SdkStep(c) \/ DeadlineArrives(c)) \/ (\E k \in Readers : ReaderStep(k)) \/ (\E w \in ownerTasks : OwnerExits(w))) /\ UNCHANGED NotSdk
    \/ part = "writers" /\ (\E w \in Writers : WriterStep(w)) /\ UNCHANGED <<NotSites, had, renderVars, cacheVars>>
    \/ part = "renders" /\ (\E r \in Renderers : RenderStep(r)) /\ UNCHANGED <<NotSites, writerVars, cacheVars>>
    \/ part = "cache" /\ (\E c \in Fetchers : FetchStep(c)) /\ UNCHANGED <<NotSites, writerVars, renderVars>>

HostsSpec == HostsInit /\ [][HostsNext]_hostsVars /\ WF_hostsVars(HostsStep)

-----------------------------------------------------------------------------
(* A run's list of failures, events, exit code and summary agree with what   *)
(* was published, no document is held past its limit, and the API key stays  *)
(* at its origin (mineru_api/runner.rs, http.rs; command/direct.rs, mod.rs). *)
(* A hybrid document is published with all its pages, once, within its image *)
(* budget, and no timeout is told of an output that is then installed        *)
(* (official_route.rs).  At the two ends of the official API, request bodies *)
(* stay within the input pool from the first byte to the job's lease, an     *)
(* answer is the job's as it was, and the client gives one answer per input, *)
(* within its memory, and leaves no job it knows of behind (tasks.rs;        *)
(* official_api/client.rs).                                                  *)
RunsHonest ==
    /\ RunHonest /\ KeyStaysHome /\ CommandHonest /\ HeldWithinLimits
    /\ PagesWhole /\ ImagesBounded /\ VerdictTrue
    /\ IngestBounded /\ AnswersHonest /\ ClientHonest

(* Whatever the program exercised, it ends: no request, document, child,     *)
(* drain or shutdown waits for ever, although servers, children and job      *)
(* queues may never answer.                                                  *)
HostsEnd ==
    <>[](CASE part = "overlay" -> OverlayEnds
           [] part = "remote" -> RemoteEnds
           [] part = "command" -> CommandEnds
           [] part = "route" -> RouteEnds
           [] part = "facade" -> RequestsAnswered
           [] part = "client" -> ClientEnds
           [] part = "prep" -> PrepEnds
           [] part = "sdk" -> SdkEnds
           [] part = "writers" -> WritersEnd
           [] part = "renders" -> RendersEnd
           [] part = "cache" -> CacheEnds)
=============================================================================
