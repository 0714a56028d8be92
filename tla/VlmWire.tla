------------------------------ MODULE VlmWire ------------------------------
(***************************************************************************)
(* What the VLM client reads from outside a completion: the server-sent    *)
(* events of stream_predict (sse, sse_line, sse_event in src/vlm_http.rs)  *)
(* and the pictures of a request, local or remote (image and remote in     *)
(* vlm_http.rs, src/vlm_image.rs).                                         *)
(*                                                                         *)
(* The wire is a sequence of tokens: "data:", "sp", "cr" and "nl" frame,   *)
(* every other token is a stretch of payload.  "A" is an event with text,  *)
(* "stop", "length" and "other" events with a finish reason, "Astop" one   *)
(* with both, "role" one with neither; "half1" and "half2" make one event  *)
(* with text; the rest is no event the client takes.  Server, name service *)
(* and files are external.                                                 *)
(***************************************************************************)
EXTENDS Integers, Sequences, FiniteSets, SequencesExt, FiniteSetsExt

CONSTANTS StreamWires,   \* what a server may send
          StreamCap,     \* max_response_bytes, in tokens
          StreamRetries, \* max_retries
          Addresses, Private,   \* what names resolve to; not global addresses
          RemoteUrls,    \* [scheme, cred] of a picture or a redirect
          MaxHops,       \* max_redirects
          ImageCaps,     \* max_image_bytes
          Pictures,      \* local pictures, see LocalSize
          UsizeMax

ASSUME VlmWireAssumption ==
    /\ {StreamCap, StreamRetries, MaxHops} \cup ImageCaps \subseteq Nat
    /\ Private \subseteq Addresses /\ UsizeMax \in Nat /\ \A c \in ImageCaps : c <= UsizeMax
    /\ \A p \in Pictures :
          /\ p.kind \in {"path", "bytes", "base64"} /\ {p.n, p.pad} \subseteq Nat
          /\ p.kind # "path" => p.n <= UsizeMax
          /\ p.kind = "base64" => p.n % 4 = 0 /\ p.pad <= 2

VARIABLES
    stream,    \* [wire, truncated, spc, at, attempt, pending, event, terminal, texts, verdict]
    heard,     \* texts the iterator was given
    listening, \* the iterator has not been dropped
    fetch,     \* [picture, url, cap, open, fpc, hops, pinned, kept, size, verdict]
    reached  \* history: addresses the picture was asked of

wireVars == <<stream, heard, listening, fetch, reached>>
streamVars == <<stream, heard, listening>>
fetchVars == <<fetch, reached>>

-----------------------------------------------------------------------------
(* Lines end with "nl", and lose one "cr" before it; what follows the last  *)
(* "nl" is no line yet.                                                     *)
LineEnds(s) == SelectSeq([i \in DOMAIN s |-> i], LAMBDA i : s[i] = "nl")
DropReturn(l) == IF l # <<>> /\ Last(l) = "cr" THEN Front(l) ELSE l
LinesIn(s) ==
    LET dones == LineEnds(s)
    IN  [k \in DOMAIN dones |-> DropReturn(SubSeq(s, IF k = 1 THEN 1 ELSE dones[k - 1] + 1, dones[k] - 1))]
RestOf(s) ==
    LET dones == LineEnds(s)
    IN  IF dones = <<>> THEN s ELSE SubSeq(s, Last(dones) + 1, Len(s))

IsText(e) == e \in {<<"A">>, <<"Astop">>, <<"half1", "half2">>, <<"half1", "nl", "half2">>}
Finishes(e, truncated) == e \in {<<"stop">>, <<"Astop">>} \/ (truncated /\ e = <<"length">>)
IsEvent(e, truncated) == IsText(e) \/ Finishes(e, truncated) \/ e = <<"role">>

\* Mutant: data after the finish reason is taken.
TakeEventAlways(s) ==
    IF s.event = <<>> THEN s
    ELSE IF s.event = <<"DONE">> THEN [s EXCEPT !.event = <<>>, !.verdict = "ok"]
    ELSE IF ~IsEvent(s.event, s.truncated) THEN [s EXCEPT !.verdict = "protocol"]
    ELSE [s EXCEPT !.event = <<>>, !.texts = IF IsText(s.event) THEN Append(@, s.event) ELSE @]

(* sse_event *)
TakeEvent(s) ==
    IF s.event = <<>> THEN s
    ELSE IF s.event = <<"DONE">>
         THEN IF s.terminal THEN [s EXCEPT !.event = <<>>, !.verdict = "ok"]
                            ELSE [s EXCEPT !.verdict = "protocol"]
    ELSE IF s.terminal \/ ~IsEvent(s.event, s.truncated) THEN [s EXCEPT !.verdict = "protocol"]
    ELSE [s EXCEPT !.event = <<>>,
                   !.terminal = Finishes(s.event, s.truncated),
                   !.texts = IF IsText(s.event) THEN Append(@, s.event) ELSE @]

DataOf(line) == IF Len(line) > 1 /\ line[2] = "sp" THEN SubSeq(line, 3, Len(line)) ELSE Tail(line)

(* sse_line; nothing more is read after the verdict. *)
TakeLine(s, line) ==
    CASE s.verdict # "run" -> s
      [] s.verdict = "run" /\ line = <<>> -> TakeEvent(s)
      [] s.verdict = "run" /\ line # <<>> ->
            IF line[1] # "data:" THEN s
            ELSE [s EXCEPT !.event = (IF @ = <<>> THEN @ ELSE Append(@, "nl")) \o DataOf(line)]

(* What the iterator is given of the texts a step has assembled.  Nobody    *)
(* looks at whether it is still there.                                      *)
Hear(s) ==
    /\ stream' = s
    /\ heard' = IF listening THEN heard \o SubSeq(s.texts, Len(stream.texts) + 1, Len(s.texts)) ELSE heard
    /\ UNCHANGED <<listening, fetchVars>>

StreamInit ==
    /\ stream \in [wire : StreamWires, truncated : BOOLEAN, spc : {"send"}, at : {0}, attempt : {0},
                   pending : {<<>>}, event : {<<>>}, terminal : {FALSE}, texts : {<<>>}, verdict : {"run"}]
    /\ heard = <<>> /\ listening = TRUE

Streaming(pc) == stream.verdict = "run" /\ stream.spc = pc

(* A retryable status or a connection that failed; other answers are final. *)
SendStream ==
    /\ Streaming("send")
    /\ \/ Hear([stream EXCEPT !.spc = "read"])
       \/ stream.attempt < StreamRetries /\ Hear([stream EXCEPT !.attempt = @ + 1])
       \/ Hear([stream EXCEPT !.verdict = "refused"])

(* A Content-Length over the cap is refused before the body is read. *)
DeclaredTooLong ==
    /\ Streaming("read") /\ stream.at = 0 /\ Len(stream.wire) > StreamCap
    /\ Hear([stream EXCEPT !.verdict = "limit"])

\* Mutant: what was pending is forgotten when a chunk arrives.
ChunkAlone(s, chunk) ==
    [FoldLeft(TakeLine, s, LinesIn(chunk)) EXCEPT !.pending = RestOf(chunk)]

(* A chunk's complete lines, those it completes included. *)
ReadWireChunk(s, chunk) ==
    LET bytes == s.pending \o chunk
    IN  [FoldLeft(TakeLine, s, LinesIn(bytes)) EXCEPT !.pending = RestOf(bytes)]

StreamChunk ==
    /\ Streaming("read")
    /\ \E n \in 1..(Len(stream.wire) - stream.at) :
          LET read == [stream EXCEPT !.at = @ + n]
          IN  IF read.at > StreamCap THEN Hear([read EXCEPT !.verdict = "limit"])
              ELSE Hear(ReadWireChunk(read, SubSeq(stream.wire, stream.at + 1, read.at)))

(* The last line needs no "nl", the last event no blank line, the stream a  *)
(* [DONE].                                                                  *)
StreamEof(s) ==
    LET rest == IF s.pending = <<>> THEN s ELSE TakeLine([s EXCEPT !.pending = <<>>], s.pending)
        end == IF rest.verdict = "run" THEN TakeEvent(rest) ELSE rest
    IN  IF end.verdict = "run" THEN [end EXCEPT !.verdict = "protocol"] ELSE end

EndOfStream ==
    /\ Streaming("read") /\ stream.at = Len(stream.wire)
    /\ Hear(StreamEof(stream))

\* Mutant: a stream that breaks is asked for again.
BrokenStreamRetried(s) ==
    IF s.attempt < StreamRetries THEN [s EXCEPT !.attempt = @ + 1, !.spc = "send", !.at = 0, !.pending = <<>>,
                                                !.event = <<>>, !.terminal = FALSE]
    ELSE [s EXCEPT !.verdict = "transport"]

(* The connection breaks, or http_timeout passes: never asked for again. *)
BrokenStream(s) == [s EXCEPT !.verdict = "transport"]

StreamBreaks == Streaming("read") /\ Hear(BrokenStream(stream))

DropIterator ==
    /\ listening /\ listening' = FALSE
    /\ UNCHANGED <<stream, heard, fetchVars>>

StreamStep == SendStream \/ StreamChunk \/ EndOfStream \/ StreamBreaks
StreamNext == StreamStep \/ DeclaredTooLong \/ DropIterator

-----------------------------------------------------------------------------
(* Pictures. *)
Least(a, b) == IF a < b THEN a ELSE b

\* Mutant: the encoded length may be four thirds of the cap, rounded down.
EncodedCapFloor(cap) == (cap * 4) \div 3

(* The cap on an encoded length, usize::MAX when it does not fit one. *)
EncodedImageCap(cap) ==
    IF cap + 2 > UsizeMax \/ ((cap + 2) \div 3) * 4 > UsizeMax THEN UsizeMax ELSE ((cap + 2) \div 3) * 4

(* A local picture is [kind, n, pad]: a "path" whose file had n bytes when  *)
(* it was looked at and pad when it was read, "bytes", or "base64" (also a  *)
(* data URL) of n characters, pad of which are padding.                     *)
LocalSize(p) ==
    CASE p.kind = "path" -> p.pad
      [] p.kind = "bytes" -> p.n
      [] p.kind = "base64" -> (p.n \div 4) * 3 - p.pad

(* What a picture over the cap is refused by, before it is decoded or read  *)
(* whole.                                                                   *)
RefusedEarly(p, cap) ==
    CASE p.kind = "path" -> p.n > cap
      [] p.kind = "bytes" -> FALSE
      [] p.kind = "base64" -> p.n > EncodedImageCap(cap)

FetchInit ==
    /\ fetch \in [picture : Pictures \cup {[kind |-> "remote", n |-> 0, pad |-> 0]}, url : RemoteUrls, cap : ImageCaps,
                  open : BOOLEAN, fpc : {"start"}, hops : {0}, pinned : {{}}, kept : {0}, size : {0}, verdict : {"run"}]
    /\ reached = {}

Fetching(pc) == fetch.verdict = "run" /\ fetch.fpc = pc
FetchBecomes(f) == fetch' = f /\ UNCHANGED <<reached, streamVars>>
FetchRefused(f) == FetchBecomes([f EXCEPT !.verdict = "refused"])

(* inspect: format, declared type and pixels; one outcome each way. *)
Inspect(f) == FetchBecomes([f EXCEPT !.verdict = "admitted"]) \/ FetchRefused(f)

(* admit_local_blocking *)
AdmitLocal ==
    /\ Fetching("start") /\ fetch.picture.kind # "remote"
    /\ LET size == LocalSize(fetch.picture)
           f == [fetch EXCEPT !.size = size,
                              !.kept = IF fetch.picture.kind = "path" THEN Least(size, fetch.cap + 1) ELSE size]
       IN  IF RefusedEarly(fetch.picture, fetch.cap)
           THEN FetchBecomes([fetch EXCEPT !.size = IF fetch.picture.kind = "path" THEN fetch.picture.n ELSE size,
                                           !.verdict = "limit"])
           ELSE IF f.kept > f.cap THEN FetchBecomes([f EXCEPT !.verdict = "limit"])
           ELSE Inspect(f)

\* Mutant: only the first address a name has is looked at.
AnyGlobal(addrs, open) == addrs # {} /\ (open \/ \E a \in addrs : a \notin Private)

(* Every address must be global, unless private ones are allowed. *)
AddressesPass(addrs, open) == addrs # {} /\ (open \/ \A a \in addrs : a \notin Private)

(* remote_addrs: the addresses found are the only ones asked. *)
LookUpHost ==
    /\ fetch.verdict = "run" /\ fetch.picture.kind = "remote" /\ fetch.fpc \in {"start", "vet"}
    /\ \E addrs \in SUBSET Addresses :
          IF fetch.url.scheme = "http" /\ ~fetch.url.cred /\ AddressesPass(addrs, fetch.open)
          THEN FetchBecomes([fetch EXCEPT !.fpc = "ask", !.pinned = addrs])
          ELSE FetchRefused(fetch)

AskPicture ==
    /\ Fetching("ask")
    /\ \E a \in fetch.pinned : reached' = reached \cup {a}
    /\ fetch' = [fetch EXCEPT !.fpc = "answer"]
    /\ UNCHANGED streamVars

\* Mutant: a redirect is followed without looking its host up.
RedirectUnvetted(f, next) == [f EXCEPT !.url = next, !.hops = @ + 1, !.fpc = "ask", !.pinned = Addresses]

(* A followed redirect starts over with its own host. *)
PictureRedirected(f, next) == [f EXCEPT !.url = next, !.hops = @ + 1, !.fpc = "vet", !.pinned = {}]

PictureAnswered ==
    /\ Fetching("answer")
    /\ \/ fetch.hops < MaxHops /\ \E next \in RemoteUrls : FetchBecomes(PictureRedirected(fetch, next))
       \/ FetchBecomes([fetch EXCEPT !.fpc = "body"])
       \/ FetchRefused(fetch)

(* read_limited, chunk by chunk; a declared length over the cap is refused  *)
(* at once.                                                                 *)
PictureChunk ==
    /\ Fetching("body") /\ fetch.size <= fetch.cap
    /\ LET f == [fetch EXCEPT !.size = @ + 1]
       IN  IF f.size > f.cap THEN FetchBecomes([f EXCEPT !.verdict = "limit"])
                             ELSE FetchBecomes([f EXCEPT !.kept = f.size])

PictureWhole == Fetching("body") /\ Inspect(fetch)

(* Also a time limit: of the lookup, of the connection, of the transfer. *)
PictureFails == Fetching("body") /\ FetchRefused(fetch)

FetchPictureStep == AdmitLocal \/ LookUpHost \/ AskPicture \/ PictureAnswered \/ PictureWhole \/ PictureFails
FetchNext == FetchPictureStep \/ PictureChunk

FetchSpec == FetchInit /\ [][FetchNext]_fetchVars

-----------------------------------------------------------------------------
(* The events a whole wire holds, told without reading it in pieces: the    *)
(* data lines between two blank lines make an event.                        *)
WireLines(w) == LinesIn(w) \o (IF RestOf(w) = <<>> THEN <<>> ELSE <<RestOf(w)>>)

EventAt(lines, first, last) ==
    LET data == SelectSeq(SubSeq(lines, first, last), LAMBDA l : l[1] = "data:")
        full == SelectSeq([i \in DOMAIN data |-> [lead |-> \A j \in 1..i : DataOf(data[j]) = <<>>, text |-> DataOf(data[i])]],
                          LAMBDA d : ~d.lead)
    IN  FlattenSeq([i \in DOMAIN full |-> IF i = 1 THEN full[i].text ELSE <<"nl">> \o full[i].text])

EventsOf(w) ==
    LET lines == WireLines(w)
        blanks == {0, Len(lines) + 1} \cup {i \in DOMAIN lines : lines[i] = <<>>}
        starts == SelectSeq([i \in 1..(Len(lines) + 1) |-> i - 1], LAMBDA i : i \in blanks)
        events == [k \in DOMAIN starts |->
                     EventAt(lines, starts[k] + 1, Min({b \in blanks : b > starts[k]}) - 1)]
    IN  SelectSeq(events, LAMBDA e : e # <<>>)

(* Choices, one finish reason, [DONE]; what follows is never looked at.    *)
DoneAt(events, truncated) ==
    {n \in 2..Len(events) :
        /\ events[n] = <<"DONE">> /\ Finishes(events[n - 1], truncated)
        /\ \A i \in 1..(n - 2) : IsEvent(events[i], truncated) /\ ~Finishes(events[i], truncated)}

TextsOf(events) == SelectSeq(events, IsText)

(* However the wire is cut into chunks, retried or dropped: what was heard  *)
(* is the beginning of what the server said, nothing twice; a stream ends   *)
(* well exactly when it is choices, a finish reason, [DONE], and then all   *)
(* of it was heard; a protocol error is the server's and a limit was passed *)
(* (vlm_http.rs sse, sse_line, sse_event).                                  *)
StreamExact ==
    LET events == EventsOf(stream.wire)
        dones == DoneAt(events, stream.truncated)
    IN  /\ IsPrefix(heard, TextsOf(events))
        /\ Len(stream.texts) <= stream.at
        /\ stream.verdict = "ok" => dones # {} /\ stream.texts = TextsOf(SubSeq(events, 1, Min(dones)))
        /\ stream.verdict = "ok" /\ listening => heard = stream.texts
        /\ stream.verdict = "protocol" => dones = {}
        /\ stream.verdict = "limit" => Len(stream.wire) > StreamCap

(* A picture's bytes are asked only of addresses that passed, whatever its  *)
(* redirects and its name service say; what is admitted is within the cap,  *)
(* what the cap refused was over it, and no more than one byte over it was  *)
(* ever read, or two decoded (vlm_http.rs remote_addrs; vlm_image.rs).      *)
PictureSound ==
    /\ ~fetch.open => reached \cap Private = {}
    /\ fetch.hops <= MaxHops
    /\ fetch.verdict = "admitted" => fetch.size <= fetch.cap
    /\ fetch.verdict = "limit" => fetch.size > fetch.cap
    /\ fetch.picture.kind \in {"path", "remote"} => fetch.kept <= fetch.cap + 1
    /\ fetch.picture.kind = "base64" => fetch.kept <= fetch.cap + 2
=============================================================================
