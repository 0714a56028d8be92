----------------------------- MODULE ModelCache -----------------------------
(***************************************************************************)
(* The cache of the pinned layout model (src/models/cache.rs) as           *)
(* `mineru models download` and `verify` use it: two artifacts, each at a  *)
(* path made of its digest, which several processes may check, download    *)
(* and put in place at the same time.                                      *)
(*                                                                         *)
(* A file is "none", "short" (not the pinned size), "wrong" (the pinned    *)
(* size, another digest), "good", "link" or "dir".  A download is counted  *)
(* in units of which the pinned size has ModelSize; it keeps the pinned    *)
(* digest as long as every unit is right.  The server is external: it      *)
(* redirects, answers and sends what it likes, or nothing.                 *)
(***************************************************************************)
EXTENDS Integers, Sequences

CONSTANTS Fetchers,       \* processes, or tasks of one
          FetchActs,      \* what they may be asked for, fetcher -> act
          CacheStarts,    \* what the cache may hold: [files, dirs], each by artifact
          MaxRedirects,   \* MAX_REDIRECTS
          ModelSize       \* the pinned size

Artifacts == {"config", "graph"}
FileKinds == {"none", "short", "wrong", "good", "link", "dir"}

ASSUME CacheAssumption ==
    /\ ModelSize \in Nat /\ MaxRedirects \in Nat
    /\ FetchActs \subseteq [Fetchers -> {"download", "offline", "verify"}]
    /\ CacheStarts \subseteq [files : [Artifacts -> FileKinds], dirs : [Artifacts -> {"none", "plain", "link"}]]
    /\ \A s \in CacheStarts : \A a \in Artifacts : s.files[a] # "none" => s.dirs[a] # "none"

VARIABLES
    cached,     \* artifact -> the file at its path
    hashDir,    \* artifact -> its directory: "none", "plain", "link"
    act,        \* fetcher -> "download", "offline" or "verify"
    todo,       \* fetcher -> artifacts still to be ensured
    fpc, round, \* fetcher -> where it is, and which of the three checks
    temp,       \* fetcher -> its temporary file
    hops,       \* fetcher -> redirects followed for this artifact
    answer,     \* fetcher -> "none", "ready", "refused", "dropped", "crashed"
    whole       \* history: artifacts whose file has been good

cacheVars == <<cached, hashDir, act, todo, fpc, round, temp, hops, answer, whole>>

NoTemp == [there |-> FALSE, size |-> 0, right |-> TRUE]
Downloaded(n, right) == [there |-> TRUE, size |-> n, right |-> right]

CacheInit ==
    /\ \E s \in CacheStarts : cached = s.files /\ hashDir = s.dirs
    /\ act \in FetchActs
    \* ensure_layout asks for the config first, verify_layout for the graph.
    /\ todo = [c \in Fetchers |-> IF act[c] = "verify" THEN <<"graph", "config">> ELSE <<"config", "graph">>]
    /\ fpc = [c \in Fetchers |-> "stat"] /\ round = [c \in Fetchers |-> "first"]
    /\ temp = [c \in Fetchers |-> NoTemp] /\ hops = [c \in Fetchers |-> 0]
    /\ answer = [c \in Fetchers |-> "none"]
    /\ whole = {a \in Artifacts : cached[a] = "good"}

-----------------------------------------------------------------------------
FirstOf(c) == Head(todo[c])
Goes(c, p) == fpc' = [fpc EXCEPT ![c] = p]
Files == <<cached, hashDir, whole>>

(* Every early return drops the NamedTempFile, which deletes it. *)
Returns(c, how) ==
    /\ Goes(c, "done") /\ answer' = [answer EXCEPT ![c] = how]
    /\ temp' = [temp EXCEPT ![c] = NoTemp]
    /\ UNCHANGED <<act, todo, round, hops>>

ToNext(c) ==
    IF Len(todo[c]) = 1
    THEN Returns(c, "ready")
    ELSE /\ todo' = [todo EXCEPT ![c] = Tail(@)]
         /\ Goes(c, "stat") /\ round' = [round EXCEPT ![c] = "first"]
         /\ temp' = [temp EXCEPT ![c] = NoTemp]
         /\ UNCHANGED <<act, hops, answer>>

(* What ensure_artifact and verify_artifact do with verified_file's answer:  *)
(* before a download, after it, and after the rename.                        *)
Verified(c, yes) ==
    \/ yes /\ ToNext(c)
    \/ ~yes /\ round[c] = "first" /\ act[c] = "download" /\ Goes(c, "directory")
       /\ UNCHANGED <<act, todo, round, temp, hops, answer>>
    \/ ~yes /\ round[c] = "again" /\ Goes(c, "persist")
       /\ UNCHANGED <<act, todo, round, temp, hops, answer>>
    \/ ~yes /\ (round[c] = "last" \/ act[c] # "download") /\ Returns(c, "refused")

(* verified_file: symlink_metadata first, the content later and through a  *)
(* handle of its own; another fetcher may rename over the path in between. *)
StatFile(c) ==
    /\ fpc[c] = "stat" /\ UNCHANGED Files
    /\ CASE cached[FirstOf(c)] = "link" -> Returns(c, "refused")
         [] cached[FirstOf(c)] \in {"wrong", "good"} ->
                Goes(c, "hash") /\ UNCHANGED <<act, todo, round, temp, hops, answer>>
         [] OTHER -> Verified(c, FALSE)

HashFile(c) ==
    /\ fpc[c] = "hash" /\ UNCHANGED Files
    /\ Verified(c, cached[FirstOf(c)] = "good")

(* create_dir_all accepts a link to a directory, the check after it does *)
(* not; the temporary file is made next to the destination.              *)
OpenTemp(c) ==
    /\ fpc[c] = "directory" /\ UNCHANGED <<cached, whole>>
    /\ hashDir' = [hashDir EXCEPT ![FirstOf(c)] = IF @ = "none" THEN "plain" ELSE @]
    /\ IF hashDir[FirstOf(c)] = "link"
       THEN Returns(c, "refused")
       ELSE \/ Returns(c, "refused")
            \/ /\ Goes(c, "request")
               /\ temp' = [temp EXCEPT ![c] = Downloaded(0, TRUE)]
               /\ hops' = [hops EXCEPT ![c] = 0]
               /\ UNCHANGED <<act, todo, round, answer>>

-----------------------------------------------------------------------------
(* One request of download.  Anything but an approved redirect or a 200 of   *)
(* the pinned length is refused.                                             *)
ModelRedirects(c) ==
    /\ fpc[c] = "request" /\ UNCHANGED Files
    /\ IF hops[c] = MaxRedirects
       THEN Returns(c, "refused")
       ELSE hops' = [hops EXCEPT ![c] = @ + 1] /\ UNCHANGED <<act, todo, fpc, round, temp, answer>>

Answered(c) ==
    /\ fpc[c] = "request" /\ UNCHANGED Files
    /\ \/ Goes(c, "body") /\ UNCHANGED <<act, todo, round, temp, hops, answer>>
       \/ Returns(c, "refused")

(* The cap is checked before the chunk is written. *)
ChunkArrives(c) ==
    /\ fpc[c] = "body" /\ UNCHANGED Files
    /\ \E n \in 1..2, right \in BOOLEAN :
          IF temp[c].size + n > ModelSize
          THEN Returns(c, "refused")
          ELSE /\ temp' = [temp EXCEPT ![c] = Downloaded(@.size + n, @.right /\ right)]
               /\ UNCHANGED <<act, todo, fpc, round, hops, answer>>

\* Mutant: a body that ends early is taken for the artifact.
BodyEndsUnverified(c) ==
    /\ fpc[c] = "body" /\ UNCHANGED Files
    /\ Goes(c, "stat") /\ round' = [round EXCEPT ![c] = "again"]
    /\ UNCHANGED <<act, todo, temp, hops, answer>>

BodyEnds(c) ==
    /\ fpc[c] = "body" /\ UNCHANGED Files
    /\ IF temp[c].size = ModelSize /\ temp[c].right
       THEN /\ Goes(c, "stat") /\ round' = [round EXCEPT ![c] = "again"]
            /\ UNCHANGED <<act, todo, temp, hops, answer>>
       ELSE Returns(c, "refused")

(* The transport fails, or the thirty minutes are over. *)
DownloadFails(c) ==
    fpc[c] \in {"request", "body"} /\ Returns(c, "refused") /\ UNCHANGED Files

TempContent(c) ==
    CASE temp[c].size # ModelSize -> "short" [] temp[c].right -> "good" [] OTHER -> "wrong"

(* NamedTempFile::persist: one rename, over whatever file is there. *)
PersistTemp(c) ==
    /\ fpc[c] = "persist" /\ UNCHANGED hashDir
    /\ IF cached[FirstOf(c)] = "dir"
       THEN Returns(c, "refused") /\ UNCHANGED <<cached, whole>>
       ELSE /\ cached' = [cached EXCEPT ![FirstOf(c)] = TempContent(c)]
            /\ whole' = whole \cup {a \in Artifacts : cached'[a] = "good"}
            /\ temp' = [temp EXCEPT ![c] = NoTemp]
            /\ Goes(c, "stat") /\ round' = [round EXCEPT ![c] = "last"]
            /\ UNCHANGED <<act, todo, hops, answer>>

-----------------------------------------------------------------------------
(* A caller may drop the future at an await; a process may be killed, and    *)
(* then nothing deletes its temporary file.                                  *)
DropFetch(c) == fpc[c] # "done" /\ Returns(c, "dropped") /\ UNCHANGED Files

KillFetch(c) ==
    /\ fpc[c] # "done" /\ Goes(c, "done")
    /\ answer' = [answer EXCEPT ![c] = "crashed"]
    /\ UNCHANGED <<Files, act, todo, round, temp, hops>>

(* What the process does, and the end of a bounded wait.  Redirects and      *)
(* chunks are the server's.                                                  *)
FetchStep(c) == StatFile(c) \/ HashFile(c) \/ OpenTemp(c) \/ DownloadFails(c) \/ PersistTemp(c)

CacheNext ==
    \E c \in Fetchers :
        \/ FetchStep(c) \/ DropFetch(c) \/ KillFetch(c)
        \/ ModelRedirects(c) \/ Answered(c) \/ ChunkArrives(c) \/ BodyEnds(c)

CacheSpec == CacheInit /\ [][CacheNext]_cacheVars

-----------------------------------------------------------------------------
(* "ready" and "verified" are only said when both files are the pinned ones. *)
ReadyMeansWhole == \A c \in Fetchers : answer[c] = "ready" => \A a \in Artifacts : cached[a] = "good"

(* A good file stays good, whoever downloads next to it and whatever arrives *)
(* ("Replacing a concurrent winner is safe", cache.rs).                      *)
WholeStaysWhole == \A a \in whole : cached[a] = "good"

(* A temporary file outlives its fetcher only when the process was killed,   *)
(* and never holds more than the pinned size.                                *)
TempsAccounted ==
    \A c \in Fetchers :
        /\ temp[c].there => fpc[c] # "done" \/ answer[c] = "crashed"
        /\ temp[c].size <= ModelSize
        /\ act[c] # "download" => ~temp[c].there

CacheSound == ReadyMeansWhole /\ WholeStaysWhole /\ TempsAccounted
CacheEnds == \A c \in Fetchers : fpc[c] = "done"
=============================================================================
