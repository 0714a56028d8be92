----------------------------- MODULE VlmProofs ------------------------------
(***************************************************************************)
(* The VLM client, for every instance: pictures and their addresses, calls *)
(* with their shared budget and their workers, windows of pages under      *)
(* their caps and their ledger, and image batches, each with its inductive *)
(* invariant; then the client as a whole, which interleaves them.          *)
(***************************************************************************)
EXTENDS MCVlm, OutputsProofs

(* The pictures of a request, for any pictures, caps, redirects and name    *)
(* services, and any width of a usize.                                      *)

RemotePicture == [kind |-> "remote", n |-> 0, pad |-> 0]

PictureShape ==
    /\ fetch \in [picture : Pictures \cup {RemotePicture}, url : RemoteUrls, cap : ImageCaps, open : BOOLEAN,
                  fpc : {"start", "vet", "ask", "answer", "body"}, hops : Nat, pinned : SUBSET Addresses,
                  kept : Int, size : Int, verdict : {"run", "admitted", "refused", "limit"}]
    /\ fetch.hops <= MaxHops
    /\ fetch.verdict = "run" => fetch.size <= fetch.cap /\ fetch.kept <= fetch.cap

\* The addresses about to be asked have passed.
AddressesVetted == fetch.fpc = "ask" => AddressesPass(fetch.pinned, fetch.open)

PictureInv == PictureShape /\ AddressesVetted /\ PictureSound

\* The caps are numbers.
LEMMA CapsAre == /\ MaxHops \in Nat /\ UsizeMax \in Nat /\ ImageCaps \subseteq Nat /\ \A c \in ImageCaps : c <= UsizeMax
                 /\ Private \subseteq Addresses
BY VlmWireAssumption

\* The encoding of three bytes is four characters.
LEMMA Quarters ==
  ASSUME NEW n \in Nat, n % 4 = 0, NEW most \in Nat
  PROVE  /\ n = 4 * (n \div 4) /\ n \div 4 \in Nat
         /\ (most + 2) \div 3 \in Nat /\ 3 * ((most + 2) \div 3) <= most + 2 /\ 3 * ((most + 2) \div 3) >= most
OBVIOUS

\* An encoded picture is refused for its length exactly when what it decodes to
\* is over the cap, give or take its padding.
LEMMA EncodedCaps ==
  ASSUME NEW p, p.kind = "base64", p.n \in Nat, p.pad \in Nat, p.n % 4 = 0, p.pad <= 2, p.n <= UsizeMax,
         NEW most \in Nat, most <= UsizeMax
  PROVE  /\ LocalSize(p) \in Int
         /\ RefusedEarly(p, most) => LocalSize(p) > most
         /\ ~RefusedEarly(p, most) => LocalSize(p) <= most + 2
<1> DEFINE q == p.n \div 4
           t == (most + 2) \div 3
           n == p.n
           pad == p.pad
<1>1. /\ n = 4 * q /\ q \in Nat /\ t \in Nat /\ 3 * t <= most + 2 /\ 3 * t >= most
      /\ n \in Nat /\ pad \in Nat /\ pad <= 2 /\ n <= UsizeMax /\ UsizeMax \in Nat
  <2>1. p.n = 4 * (p.n \div 4) /\ p.n \div 4 \in Nat
    BY Quarters
  <2>2. (most + 2) \div 3 \in Nat /\ 3 * ((most + 2) \div 3) <= most + 2 /\ 3 * ((most + 2) \div 3) >= most
    BY Quarters
  <2> QED BY <2>1, <2>2, CapsAre
<1>2. LocalSize(p) = q * 3 - pad
  BY DEF LocalSize
<1>3. RefusedEarly(p, most) <=> n > EncodedImageCap(most)
  BY DEF RefusedEarly
<1>4. EncodedImageCap(most) = IF most + 2 > UsizeMax \/ t * 4 > UsizeMax THEN UsizeMax ELSE t * 4
  BY DEF EncodedImageCap
<1> DEFINE e == EncodedImageCap(most)
           z == LocalSize(p)
<1>5. z = q * 3 - pad /\ e = IF most + 2 > UsizeMax \/ t * 4 > UsizeMax THEN UsizeMax ELSE t * 4
  BY <1>2, <1>4
<1> HIDE DEF q, t, n, pad, e, z
<1>6. z \in Int
  BY <1>1, <1>5
<1>7. n > e => z > most
  BY <1>1, <1>5
<1>8. ~ (n > e) => z <= most + 2
  BY <1>1, <1>5
<1> QED BY <1>3, <1>6, <1>7, <1>8 DEF e, z, n

\* A picture becomes another record with the same question.
LEMMA PictureBecomes ==
  ASSUME PictureInv, NEW f, FetchBecomes(f), PictureShape', AddressesVetted',
         f.picture = fetch.picture, f.open = fetch.open, f.cap = fetch.cap,
         f.verdict = "admitted" => f.size <= f.cap,
         f.verdict = "limit" => f.size > f.cap,
         f.picture.kind \in {"path", "remote"} => f.kept <= f.cap + 1,
         f.picture.kind = "base64" => f.kept <= f.cap + 2
  PROVE  PictureInv'
BY DEF PictureInv, PictureSound, FetchBecomes, PictureShape

\* The bytes of a local picture, and those kept of them.
LEMMA LocalCaps ==
  ASSUME NEW p \in Pictures, NEW most \in ImageCaps
  PROVE  /\ LocalSize(p) \in Int /\ p.n \in Nat /\ p.kind # "remote" /\ most \in Nat
         /\ p.kind = "path" => (RefusedEarly(p, most) <=> p.n > most) /\ LocalSize(p) = p.pad /\ p.pad \in Nat
         /\ p.kind = "base64" => /\ RefusedEarly(p, most) => LocalSize(p) > most
                                 /\ ~RefusedEarly(p, most) => LocalSize(p) <= most + 2
         /\ p.kind = "bytes" => ~RefusedEarly(p, most)
         /\ p.kind \in {"path", "bytes", "base64"}
<1>1. /\ p.kind \in {"path", "bytes", "base64"} /\ p.n \in Nat /\ p.pad \in Nat
      /\ p.kind # "path" => p.n <= UsizeMax
      /\ p.kind = "base64" => p.n % 4 = 0 /\ p.pad <= 2
  BY VlmWireAssumption
<1>2. most \in Nat /\ most <= UsizeMax
  BY CapsAre
<1>3. CASE p.kind = "path"
  BY <1>1, <1>2, <1>3 DEF LocalSize, RefusedEarly
<1>4. CASE p.kind = "bytes"
  BY <1>1, <1>2, <1>4 DEF LocalSize, RefusedEarly
<1>5. CASE p.kind = "base64"
  BY <1>1, <1>2, <1>5, EncodedCaps
<1> QED BY <1>1, <1>3, <1>4, <1>5

\* A local picture is admitted only within the cap.
LEMMA AdmitLocalKeeps == ASSUME PictureInv, AdmitLocal PROVE PictureInv'
<1> DEFINE p == fetch.picture
           most == fetch.cap
           bytes == LocalSize(p)
           kept == IF p.kind = "path" THEN Least(bytes, most + 1) ELSE bytes
           f == [fetch EXCEPT !.size = bytes, !.kept = kept]
           early == [fetch EXCEPT !.size = IF p.kind = "path" THEN p.n ELSE bytes, !.verdict = "limit"]
<1>1. PictureShape /\ fetch.fpc = "start" /\ fetch.verdict = "run" /\ p.kind # "remote" /\ most \in ImageCaps /\ fetch.kept <= most
      /\ fetch.kept \in Int
  BY DEF AdmitLocal, Fetching, PictureInv, PictureShape
<1>2. p \in Pictures
  BY <1>1 DEF PictureShape, RemotePicture
<1>3. /\ bytes \in Int /\ p.n \in Nat /\ most \in Nat
      /\ p.kind = "path" => (RefusedEarly(p, most) <=> p.n > most)
      /\ p.kind = "base64" => /\ RefusedEarly(p, most) => bytes > most
                              /\ ~RefusedEarly(p, most) => bytes <= most + 2
      /\ p.kind = "bytes" => ~RefusedEarly(p, most)
      /\ p.kind \in {"path", "bytes", "base64"}
  BY <1>1, <1>2, LocalCaps
<1>4. /\ kept \in Int /\ (kept > most <=> bytes > most)
      /\ p.kind = "path" => kept <= most + 1
      /\ p.kind # "path" => kept = bytes
  BY <1>3 DEF Least
<1>5. \/ RefusedEarly(p, most) /\ FetchBecomes(early)
      \/ ~RefusedEarly(p, most) /\ f.kept > f.cap /\ FetchBecomes([f EXCEPT !.verdict = "limit"])
      \/ ~RefusedEarly(p, most) /\ ~ (f.kept > f.cap) /\ FetchBecomes([f EXCEPT !.verdict = "admitted"])
      \/ ~RefusedEarly(p, most) /\ FetchBecomes([f EXCEPT !.verdict = "refused"])
  BY DEF AdmitLocal, Inspect, FetchRefused
<1> HIDE DEF bytes, kept
<1>6. CASE RefusedEarly(p, most) /\ FetchBecomes(early)
  <2>0. early.size = IF p.kind = "path" THEN p.n ELSE bytes
    BY <1>1 DEF PictureShape
  <2>1. early.size > most /\ early.size \in Int
    <3> HIDE DEF early, p, most
    <3> QED BY <1>3, <1>6, <2>0
  <2>2. PictureShape' /\ AddressesVetted'
    BY <1>1, <1>6, <2>1 DEF PictureShape, AddressesVetted, FetchBecomes
  <2>3. /\ early.picture = p /\ early.open = fetch.open /\ early.cap = most /\ early.verdict = "limit" /\ early.kept = fetch.kept
    BY <1>1 DEF PictureShape
  <2> HIDE DEF early, p, most
  <2>4. early.kept <= early.cap + 1 /\ early.kept <= early.cap + 2
    BY <1>1, <1>3, <2>3
  <2> QED BY <1>6, <2>1, <2>2, <2>3, <2>4, PictureBecomes DEF p, most
<1>7. ASSUME NEW v \in {"limit", "admitted", "refused"}, FetchBecomes([f EXCEPT !.verdict = v]), ~RefusedEarly(p, most),
             v = "limit" => bytes > most, v = "admitted" => ~ (bytes > most)
      PROVE  PictureInv'
  <2> DEFINE g == [f EXCEPT !.verdict = v]
  <2>1. PictureShape' /\ AddressesVetted'
    BY <1>1, <1>3, <1>4, <1>7 DEF PictureShape, AddressesVetted, FetchBecomes
  <2>2. g.picture = p /\ g.open = fetch.open /\ g.cap = most /\ g.verdict = v /\ g.kept = kept /\ g.size = bytes
    BY <1>1 DEF PictureShape
  <2>3. FetchBecomes(g)
    BY <1>7
  <2> HIDE DEF g, p, most
  <2>4. /\ g.verdict = "admitted" => g.size <= g.cap
        /\ g.verdict = "limit" => g.size > g.cap
    BY <1>3, <1>7, <2>2
  <2>5. /\ g.picture.kind \in {"path", "remote"} => g.kept <= g.cap + 1
        /\ g.picture.kind = "base64" => g.kept <= g.cap + 2
    BY <1>1, <1>3, <1>4, <1>7, <2>2
  <2> QED BY <2>1, <2>2, <2>3, <2>4, <2>5, PictureBecomes DEF p, most
<1>8. f.kept = kept /\ f.cap = most
  BY <1>1 DEF PictureShape
<1> HIDE DEF f, p, most, early
<1> QED BY <1>4, <1>5, <1>6, <1>7, <1>8

\* A host that was looked up has its addresses vetted.
LEMMA LookUpHostKeeps == ASSUME PictureInv, LookUpHost PROVE PictureInv'
<1>1. PictureShape /\ fetch.verdict = "run" /\ fetch.kept <= fetch.cap /\ fetch.cap \in Nat /\ fetch.kept \in Int
  BY CapsAre DEF LookUpHost, PictureInv, PictureShape
<1>2. ASSUME NEW addrs \in SUBSET Addresses, AddressesPass(addrs, fetch.open), FetchBecomes([fetch EXCEPT !.fpc = "ask", !.pinned = addrs])
      PROVE PictureInv'
  <2> DEFINE f == [fetch EXCEPT !.fpc = "ask", !.pinned = addrs]
  <2>1. /\ f.picture = fetch.picture /\ f.open = fetch.open /\ f.cap = fetch.cap /\ f.verdict = "run" /\ f.kept = fetch.kept
        /\ f.pinned = addrs
    BY <1>1 DEF PictureShape
  <2>2. PictureShape'
    BY <1>1, <1>2 DEF PictureShape, FetchBecomes
  <2>3. AddressesVetted'
    <3>1. fetch'.pinned = addrs /\ fetch'.open = fetch.open
      BY <1>2, <2>1 DEF FetchBecomes
    <3> QED BY <1>2, <3>1 DEF AddressesVetted, AddressesPass
  <2>4. FetchBecomes(f)
    BY <1>2
  <2> HIDE DEF f
  <2>5. f.kept <= f.cap + 1 /\ f.kept <= f.cap + 2
    BY <1>1, <2>1
  <2> QED BY <2>1, <2>2, <2>3, <2>4, <2>5, PictureBecomes
<1>3. ASSUME FetchRefused(fetch), fetch.fpc # "ask" PROVE PictureInv'
  <2> DEFINE f == [fetch EXCEPT !.verdict = "refused"]
  <2>1. f.picture = fetch.picture /\ f.open = fetch.open /\ f.cap = fetch.cap /\ f.verdict = "refused" /\ f.kept = fetch.kept
    BY <1>1 DEF PictureShape
  <2>2. PictureShape' /\ AddressesVetted'
    BY <1>1, <1>3 DEF PictureShape, AddressesVetted, FetchBecomes, FetchRefused
  <2>4. FetchBecomes(f)
    BY <1>3 DEF FetchRefused
  <2> HIDE DEF f
  <2>5. f.kept <= f.cap + 1 /\ f.kept <= f.cap + 2
    BY <1>1, <2>1
  <2> QED BY <2>1, <2>2, <2>4, <2>5, PictureBecomes
<1> QED BY <1>2, <1>3 DEF LookUpHost

\* Only vetted addresses are asked.
LEMMA AskPictureKeeps == ASSUME PictureInv, AskPicture PROVE PictureInv'
<1>1. fetch.fpc = "ask" /\ fetch' = [fetch EXCEPT !.fpc = "answer"] /\ fetch.verdict = "run"
  BY DEF AskPicture, Fetching
<1>2. PICK a \in fetch.pinned : reached' = reached \cup {a}
  BY DEF AskPicture
<1>3. PictureShape' /\ AddressesVetted'
  BY <1>1 DEF PictureInv, PictureShape, AddressesVetted
<1>4. ~fetch.open => a \notin Private
  BY <1>1, <1>2 DEF PictureInv, AddressesVetted, AddressesPass
<1>5. /\ fetch'.open = fetch.open /\ fetch'.hops = fetch.hops /\ fetch'.verdict = fetch.verdict /\ fetch'.size = fetch.size
      /\ fetch'.cap = fetch.cap /\ fetch'.picture = fetch.picture /\ fetch'.kept = fetch.kept
  BY <1>1 DEF PictureInv, PictureShape
<1>6. PictureSound'
  BY <1>2, <1>4, <1>5 DEF PictureInv, PictureSound
<1> QED BY <1>3, <1>6 DEF PictureInv

\* Steps that change neither what was read nor what is asked.
LEMMA PictureGoesOn ==
  ASSUME PictureInv, fetch.verdict = "run", NEW f, FetchBecomes(f),
         NEW pc \in {"vet", "body"}, NEW u \in RemoteUrls, NEW h \in Nat, h <= MaxHops, NEW pins \in SUBSET Addresses,
         f = [fetch EXCEPT !.fpc = pc, !.url = u, !.hops = h, !.pinned = pins]
  PROVE  PictureInv'
<1>1. PictureShape' /\ AddressesVetted'
  BY DEF PictureInv, PictureShape, AddressesVetted, FetchBecomes
<1>2. f.picture = fetch.picture /\ f.open = fetch.open /\ f.cap = fetch.cap /\ f.verdict = "run" /\ f.kept = fetch.kept
  BY DEF PictureInv, PictureShape
<1>3. fetch.kept <= fetch.cap /\ fetch.kept \in Int /\ fetch.cap \in Nat
  BY CapsAre DEF PictureInv, PictureShape
<1>4. f.kept <= f.cap + 1 /\ f.kept <= f.cap + 2
  BY <1>2, <1>3
<1> QED BY <1>1, <1>2, <1>4, PictureBecomes

\* An answer that ends the fetch.
LEMMA PictureEnds ==
  ASSUME PictureInv, fetch.verdict = "run", fetch.fpc # "ask", NEW v \in {"admitted", "refused"}, FetchBecomes([fetch EXCEPT !.verdict = v])
  PROVE  PictureInv'
<1> DEFINE f == [fetch EXCEPT !.verdict = v]
<1>1. PictureShape' /\ AddressesVetted'
  BY DEF PictureInv, PictureShape, AddressesVetted, FetchBecomes
<1>2. f.picture = fetch.picture /\ f.open = fetch.open /\ f.cap = fetch.cap /\ f.verdict = v /\ f.kept = fetch.kept /\ f.size = fetch.size
  BY DEF PictureInv, PictureShape
<1>3. fetch.kept <= fetch.cap /\ fetch.size <= fetch.cap /\ fetch.kept \in Int /\ fetch.cap \in Nat
  BY CapsAre DEF PictureInv, PictureShape
<1> HIDE DEF f
<1>4. f.kept <= f.cap + 1 /\ f.kept <= f.cap + 2 /\ f.size <= f.cap
  BY <1>2, <1>3
<1> QED BY <1>1, <1>2, <1>4, PictureBecomes DEF f

\* An answer is taken, or a redirect starts over with its own host.
LEMMA PictureAnsweredKeeps == ASSUME PictureInv, PictureAnswered PROVE PictureInv'
<1>1. fetch.verdict = "run" /\ fetch.fpc = "answer"
  BY DEF PictureAnswered, Fetching
<1>2. ASSUME NEW next \in RemoteUrls, fetch.hops < MaxHops, FetchBecomes(PictureRedirected(fetch, next)) PROVE PictureInv'
  <2>1. fetch.hops + 1 \in Nat /\ fetch.hops + 1 <= MaxHops
    BY <1>2, CapsAre DEF PictureInv, PictureShape
  <2>2. PictureRedirected(fetch, next) = [fetch EXCEPT !.fpc = "vet", !.url = next, !.hops = fetch.hops + 1, !.pinned = {}]
    BY DEF PictureRedirected, PictureInv, PictureShape
  <2> DEFINE f == PictureRedirected(fetch, next)
             h == fetch.hops + 1
  <2>3. f = [fetch EXCEPT !.fpc = "vet", !.url = next, !.hops = h, !.pinned = {}] /\ FetchBecomes(f)
        /\ h \in Nat /\ h <= MaxHops /\ {} \in SUBSET Addresses
    BY <1>2, <2>1, <2>2
  <2> HIDE DEF f, h
  <2> QED BY <1>1, <2>3, PictureGoesOn
<1>3. ASSUME FetchBecomes([fetch EXCEPT !.fpc = "body"]) PROVE PictureInv'
  <2>1. /\ [fetch EXCEPT !.fpc = "body"] = [fetch EXCEPT !.fpc = "body", !.url = fetch.url, !.hops = fetch.hops, !.pinned = fetch.pinned]
        /\ fetch.url \in RemoteUrls /\ fetch.hops \in Nat /\ fetch.hops <= MaxHops /\ fetch.pinned \in SUBSET Addresses
    BY DEF PictureInv, PictureShape
  <2> QED BY <1>1, <1>3, <2>1, PictureGoesOn
<1>4. ASSUME FetchRefused(fetch) PROVE PictureInv'
  BY <1>1, <1>4, PictureEnds DEF FetchRefused
<1> QED BY <1>2, <1>3, <1>4 DEF PictureAnswered

\* A chunk is kept up to one byte over the cap.
LEMMA PictureChunkKeeps == ASSUME PictureInv, PictureChunk PROVE PictureInv'
<1> DEFINE f == [fetch EXCEPT !.size = @ + 1]
           over == [f EXCEPT !.verdict = "limit"]
           fits == [f EXCEPT !.kept = f.size]
<1>1. /\ fetch.verdict = "run" /\ fetch.fpc = "body" /\ fetch.size <= fetch.cap /\ fetch.kept <= fetch.cap
      /\ fetch.size \in Int /\ fetch.kept \in Int /\ fetch.cap \in Nat
  BY CapsAre DEF PictureChunk, Fetching, PictureInv, PictureShape
<1>2. f.size = fetch.size + 1 /\ f.cap = fetch.cap
  BY DEF PictureInv, PictureShape
<1>3. CASE f.size > f.cap /\ FetchBecomes(over)
  <2>0. over = [fetch EXCEPT !.size = fetch.size + 1, !.verdict = "limit"] /\ fetch.size + 1 \in Int
    BY <1>1 DEF PictureInv, PictureShape
  <2>1. PictureShape' /\ AddressesVetted'
    BY <1>1, <1>3, <2>0 DEF PictureInv, PictureShape, AddressesVetted, FetchBecomes
  <2>2. over.picture = fetch.picture /\ over.open = fetch.open /\ over.cap = fetch.cap /\ over.verdict = "limit" /\ over.kept = fetch.kept /\ over.size = fetch.size + 1
    BY DEF PictureInv, PictureShape
  <2> HIDE DEF over
  <2>3. over.kept <= over.cap + 1 /\ over.kept <= over.cap + 2 /\ over.size > over.cap
    BY <1>1, <1>2, <1>3, <2>2
  <2> QED BY <1>3, <2>1, <2>2, <2>3, PictureBecomes
<1>4. CASE ~ (f.size > f.cap) /\ FetchBecomes(fits)
  <2>1. fits = [fetch EXCEPT !.size = fetch.size + 1, !.kept = fetch.size + 1]
    BY <1>2 DEF PictureInv, PictureShape
  <2>2. fetch.size + 1 \in Int /\ fetch.size + 1 <= fetch.cap
    BY <1>1, <1>2, <1>4
  <2>3. PictureShape' /\ AddressesVetted'
    BY <1>1, <1>4, <2>1, <2>2 DEF PictureInv, PictureShape, AddressesVetted, FetchBecomes
  <2>4. fits.picture = fetch.picture /\ fits.open = fetch.open /\ fits.cap = fetch.cap /\ fits.verdict = "run" /\ fits.kept = fetch.size + 1
    BY <1>1, <2>1 DEF PictureInv, PictureShape
  <2> HIDE DEF fits
  <2>5. fits.kept <= fits.cap + 1 /\ fits.kept <= fits.cap + 2
    BY <1>1, <2>2, <2>4
  <2> QED BY <1>4, <2>3, <2>4, <2>5, PictureBecomes
<1> QED BY <1>3, <1>4 DEF PictureChunk

\* Every step of a picture keeps its invariant.
LEMMA FetchSteps == ASSUME PictureInv, [FetchNext]_fetchVars PROVE PictureInv'
<1>1. CASE PictureWhole
  BY <1>1, PictureEnds DEF PictureWhole, Inspect, FetchRefused, Fetching
<1>2. CASE PictureFails
  BY <1>2, PictureEnds DEF PictureFails, FetchRefused, Fetching
<1>3. CASE UNCHANGED fetchVars
  BY <1>3 DEF fetchVars, PictureInv, PictureShape, AddressesVetted, AddressesPass, PictureSound
<1> QED
  BY <1>1, <1>2, <1>3, AdmitLocalKeeps, LookUpHostKeeps, AskPictureKeeps, PictureAnsweredKeeps, PictureChunkKeeps
  DEF FetchNext, FetchPictureStep

\* A picture.
THEOREM PicturesAreSound == FetchSpec => []PictureSound
<1>1. FetchInit => PictureInv
  <2> SUFFICES ASSUME FetchInit PROVE PictureInv
    OBVIOUS
  <2>1. /\ fetch.fpc = "start" /\ fetch.verdict = "run" /\ fetch.hops = 0 /\ fetch.kept = 0 /\ fetch.size = 0
        /\ fetch.cap \in Nat /\ reached = {} /\ MaxHops \in Nat
    BY CapsAre DEF FetchInit
  <2>2. PictureShape
    BY <2>1, CapsAre DEF FetchInit, PictureShape, RemotePicture
  <2> QED BY <2>1, <2>2 DEF PictureInv, AddressesVetted, PictureSound
<1>2. PictureInv => PictureSound
  BY DEF PictureInv
<1> QED BY <1>1, <1>2, FetchSteps, PTL DEF FetchSpec

-----------------------------------------------------------------------------
(* The calls, for any number of them, any budget and any answers: what each *)
(* charged is what it read, and its worker is its own.                      *)

Pcs == {"idle", "round", "send", "recv", "done"} \cup WorkerStages
CallRecords == [pc : Pcs, api : Apis, base : Bases, stage : {"layout", "semantic"},
                retries : 0..MaxRetries, warm : 0..MaxWarm, read : 0..Cap, total : Nat, charged : Nat,
                result : {"none", "ok"} \cup Errors]

\* What a call has charged is what it has reported and what it is reading.
Reading == {"recv", "decode", "text"}
CallOK(r) ==
    /\ r \in CallRecords
    /\ r.pc # "done" => r.result = "none"
    /\ r.pc = "rewrite" => r.warm < MaxWarm
    /\ r.api = "official" =>
          /\ r.total <= r.charged
          /\ r.pc \in Reading => r.charged = r.total + r.read
          /\ r.pc \notin Reading \cup {"done"} => r.charged = r.total
          /\ r.result = "ok" => r.charged = r.total

\* A call's worker runs while the call waits for it, or was left behind.
Attended(r, running) == (r.pc \in WorkerStages => running) /\ (running => r.pc \in WorkerStages \cup {"done"})

HttpInv ==
    /\ call \in [VlmCalls -> CallRecords] /\ \A c \in VlmCalls : CallOK(call[c]) /\ Attended(call[c], c \in threads)
    /\ used = SumFunction([c \in VlmCalls |-> call[c].charged]) /\ used \in 0..BudgetCap
    /\ overdue \in BOOLEAN /\ taskOwns \in BOOLEAN /\ threads \subseteq VlmCalls
    /\ holders = Cardinality(threads) + IF taskOwns THEN 1 ELSE 0

\* The limits are numbers.
LEMMA HttpLimits == IsFiniteSet(VlmCalls) /\ Cap \in Nat /\ BudgetCap \in Nat /\ MaxRetries \in Nat /\ MaxWarm \in Nat /\ ChunkSizes \subseteq Nat
BY HttpAssumption

\* The threads are finitely many, and one more is one more.
LEMMA ThreadsCounted ==
  ASSUME HttpInv
  PROVE  /\ IsFiniteSet(threads) /\ Cardinality(threads) \in Nat /\ (Cardinality(threads) = 0 => threads = {})
         /\ \A c \in VlmCalls \ threads : Cardinality(threads \cup {c}) = Cardinality(threads) + 1
         /\ \A c \in threads : Cardinality(threads \ {c}) = Cardinality(threads) - 1
<1>1. IsFiniteSet(threads)
  BY HttpLimits, FS_Subset DEF HttpInv
<1>2. Cardinality(threads) \in Nat /\ (Cardinality(threads) = 0 => threads = {})
  BY <1>1, FS_CardinalityType, FS_EmptySet
<1>3. \A c \in VlmCalls \ threads : Cardinality(threads \cup {c}) = Cardinality(threads) + 1
  BY <1>1, FS_AddElement
<1>4. \A c \in threads : Cardinality(threads \ {c}) = Cardinality(threads) - 1
  BY <1>1, FS_RemoveElement
<1> QED BY <1>1, <1>2, <1>3, <1>4

\* The charges of all calls when one changes.
LEMMA ChargesChange ==
  ASSUME call \in [VlmCalls -> CallRecords], used = SumFunction([c \in VlmCalls |-> call[c].charged]),
         NEW c \in VlmCalls, NEW r \in CallRecords, call' = [call EXCEPT ![c] = r], used' = used + r.charged - call[c].charged
  PROVE  used' = SumFunction([d \in VlmCalls |-> call'[d].charged])
<1> DEFINE w == [d \in VlmCalls |-> call[d].charged]
           v == [d \in VlmCalls |-> call'[d].charged]
<1>1. w \in [VlmCalls -> Nat] /\ r.charged \in Nat /\ w[c] = call[c].charged
  BY DEF CallRecords
<1>2. v = [w EXCEPT ![c] = r.charged]
  OBVIOUS
<1>3. DOMAIN w = VlmCalls /\ DOMAIN v = VlmCalls
  OBVIOUS
<1> HIDE DEF w, v
<1>4. /\ SumFunctionOnSet(v, VlmCalls) + w[c] = SumFunctionOnSet(w, VlmCalls) + r.charged
      /\ SumFunctionOnSet(v, VlmCalls) \in Nat /\ SumFunctionOnSet(w, VlmCalls) \in Nat
  BY <1>1, <1>2, HttpLimits, SumPut
<1>5. used = SumFunctionOnSet(w, VlmCalls)
  BY <1>3 DEF w, SumFunction
<1>6. SumFunction(v) = SumFunctionOnSet(v, VlmCalls)
  BY <1>3 DEF SumFunction
<1>7. used' = used + r.charged - w[c] /\ w[c] \in Nat
  BY <1>1
<1>8. used' = SumFunctionOnSet(v, VlmCalls)
  BY <1>1, <1>4, <1>5, <1>7
<1> QED BY <1>6, <1>8 DEF v

\* A call becomes another record: its worker stays as it is, is spawned, or is joined.
LEMMA CallBecomes ==
  ASSUME HttpInv, NEW c \in VlmCalls, NEW r, CallOK(r), call' = [call EXCEPT ![c] = r],
         used' = used + r.charged - call[c].charged, used' \in 0..BudgetCap,
         \/ UNCHANGED <<threads, holders>> /\ Attended(r, c \in threads)
         \/ c \notin threads /\ threads' = threads \cup {c} /\ holders' = holders + 1 /\ Attended(r, TRUE)
         \/ c \in threads /\ threads' = threads \ {c} /\ holders' = holders - 1 /\ Attended(r, FALSE),
         UNCHANGED <<overdue, taskOwns>>
  PROVE  HttpInv'
<1>1. r \in CallRecords /\ call \in [VlmCalls -> CallRecords]
  BY DEF CallOK, HttpInv
<1>2. call' \in [VlmCalls -> CallRecords] /\ call'[c] = r /\ \A d \in VlmCalls : d # c => call'[d] = call[d]
  BY <1>1
<1>3. used' = SumFunction([d \in VlmCalls |-> call'[d].charged])
  BY <1>1, ChargesChange DEF HttpInv
<1>4. /\ threads' \subseteq VlmCalls /\ \A d \in VlmCalls : d # c => (d \in threads' <=> d \in threads)
      /\ Attended(r, c \in threads')
      /\ holders' = Cardinality(threads') + IF taskOwns' THEN 1 ELSE 0
  <2>1. CASE UNCHANGED <<threads, holders>> /\ Attended(r, c \in threads)
    BY <2>1 DEF HttpInv
  <2>2. CASE c \notin threads /\ threads' = threads \cup {c} /\ holders' = holders + 1 /\ Attended(r, TRUE)
    <3>1. Cardinality(threads') = Cardinality(threads) + 1 /\ Cardinality(threads) \in Nat
      BY <2>2, ThreadsCounted
    <3>2. holders' = Cardinality(threads') + IF taskOwns' THEN 1 ELSE 0
      BY <2>2, <3>1 DEF HttpInv
    <3>3. Attended(r, c \in threads')
      BY <2>2 DEF Attended
    <3> QED BY <2>2, <3>2, <3>3 DEF HttpInv
  <2>3. CASE c \in threads /\ threads' = threads \ {c} /\ holders' = holders - 1 /\ Attended(r, FALSE)
    <3>1. Cardinality(threads') = Cardinality(threads) - 1 /\ Cardinality(threads) \in Nat
      BY <2>3, ThreadsCounted
    <3>2. holders' = Cardinality(threads') + IF taskOwns' THEN 1 ELSE 0
      BY <2>3, <3>1 DEF HttpInv
    <3>3. Attended(r, c \in threads')
      BY <2>3 DEF Attended
    <3> QED BY <2>3, <3>2, <3>3 DEF HttpInv
  <2> QED BY <2>1, <2>2, <2>3
<1>5. ASSUME NEW d \in VlmCalls PROVE CallOK(call'[d]) /\ Attended(call'[d], d \in threads')
  <2>1. CASE d = c
    BY <1>2, <1>4, <2>1
  <2>2. CASE d # c
    <3>1. call'[d] = call[d] /\ CallOK(call[d]) /\ Attended(call[d], d \in threads) /\ (d \in threads' <=> d \in threads)
      BY <1>2, <1>4, <2>2 DEF HttpInv
    <3> QED BY <3>1 DEF Attended
  <2> QED BY <2>1, <2>2
<1>6. overdue' \in BOOLEAN /\ taskOwns' \in BOOLEAN
  BY DEF HttpInv
<1> QED BY <1>2, <1>3, <1>4, <1>5, <1>6 DEF HttpInv

\* A call is well and its record is known.
LEMMA CallIs ==
  ASSUME HttpInv, NEW c \in VlmCalls
  PROVE  /\ CallOK(call[c]) /\ call[c] \in CallRecords /\ Attended(call[c], c \in threads)
         /\ DOMAIN call = VlmCalls /\ used \in 0..BudgetCap /\ BudgetCap \in Nat /\ call[c].charged \in Nat
         /\ used = used + call[c].charged - call[c].charged
<1>1. CallOK(call[c]) /\ call[c] \in CallRecords /\ Attended(call[c], c \in threads) /\ DOMAIN call = VlmCalls /\ used \in 0..BudgetCap
  BY DEF HttpInv, CallOK
<1>2. BudgetCap \in Nat /\ call[c].charged \in Nat
  BY <1>1, HttpLimits DEF CallRecords
<1>3. used = used + call[c].charged - call[c].charged
  BY <1>1, <1>2
<1> QED BY <1>1, <1>2, <1>3

\* The call ends badly.
EndedWith(r, e) == [r EXCEPT !.pc = "done", !.result = e]

\* A call that fails is over, and its charge stays.
LEMMA FailureOK ==
  ASSUME NEW r, CallOK(r), r.pc # "done", NEW e \in Errors
  PROVE  /\ CallOK(EndedWith(r, e)) /\ EndedWith(r, e).charged = r.charged
         /\ \A b \in BOOLEAN : Attended(EndedWith(r, e), b)
<1>1. EndedWith(r, e) \in CallRecords /\ EndedWith(r, e).charged = r.charged /\ EndedWith(r, e).pc = "done" /\ EndedWith(r, e).result = e
      /\ EndedWith(r, e).api = r.api /\ EndedWith(r, e).total = r.total
  BY DEF CallOK, EndedWith, CallRecords, Pcs
<1>2. "done" \notin WorkerStages /\ "done" \notin Reading /\ e # "ok" /\ (r.total <= r.charged \/ r.api # "official")
  BY DEF WorkerStages, Reading, Errors, CallOK
<1>3. CallOK(EndedWith(r, e))
  BY <1>1, <1>2 DEF CallOK, Errors, Reading
<1>4. \A b \in BOOLEAN : Attended(EndedWith(r, e), b)
  BY <1>1 DEF Attended, WorkerStages
<1> QED BY <1>1, <1>3, <1>4

\* The end of a call charges nothing.
LEMMA CallEndKeeps ==
  ASSUME HttpInv, NEW c \in VlmCalls, call[c].pc # "done", NEW e \in Errors, Finish(c, e), UNCHANGED <<used, overdue, taskOwns>>,
         UNCHANGED <<threads, holders>> \/ WorkerJoins(c)
  PROVE  HttpInv'
<1> DEFINE r == EndedWith(call[c], e)
<1>1. CallOK(r) /\ r.charged = call[c].charged /\ Attended(r, c \in threads) /\ Attended(r, FALSE)
  <2>1. CallOK(call[c]) /\ (c \in threads) \in BOOLEAN /\ FALSE \in BOOLEAN
    BY CallIs
  <2>2. CallOK(r) /\ r.charged = call[c].charged /\ \A b \in BOOLEAN : Attended(r, b)
    BY <2>1, FailureOK
  <2> HIDE DEF r
  <2>3. Attended(r, FALSE)
    BY <2>1, <2>2
  <2>4. CASE c \in threads
    <3>1. Attended(r, TRUE)
      BY <2>2
    <3> QED BY <2>2, <2>3, <2>4, <3>1 DEF Attended
  <2>5. CASE c \notin threads
    BY <2>2, <2>3, <2>5 DEF Attended
  <2> QED BY <2>4, <2>5
<1>2. call' = [call EXCEPT ![c] = r]
  BY CallIs DEF Finish, EndedWith
<1> HIDE DEF r
<1>3. used' = used + r.charged - call[c].charged /\ used' \in 0..BudgetCap
  BY <1>1, CallIs
<1> QED BY <1>1, <1>2, <1>3, CallBecomes DEF WorkerJoins

\* The call moves on without reading or charging.
LEMMA MoveKeeps ==
  ASSUME HttpInv, NEW c \in VlmCalls, NEW r, CallOK(r), call' = [call EXCEPT ![c] = r], r.charged = call[c].charged,
         UNCHANGED <<used, overdue, taskOwns>>,
         \/ UNCHANGED <<threads, holders>> /\ Attended(r, c \in threads)
         \/ c \notin threads /\ threads' = threads \cup {c} /\ holders' = holders + 1 /\ Attended(r, TRUE)
         \/ c \in threads /\ threads' = threads \ {c} /\ holders' = holders - 1 /\ Attended(r, FALSE)
  PROVE  HttpInv'
<1>1. used' = used + r.charged - call[c].charged /\ used' \in 0..BudgetCap
  BY CallIs
<1> QED BY <1>1, CallBecomes

\* The places of a call at which it has neither read nor reported anything new.
QuietPlaces == {"idle", "round", "send", "build", "encode", "base", "rewrite"}

\* A call moves on between places at which it reads nothing.
LEMMA AtPlace ==
  ASSUME NEW r, CallOK(r), r.pc \in QuietPlaces, NEW pc \in QuietPlaces \ {"rewrite"}
  PROVE  /\ CallOK([r EXCEPT !.pc = pc]) /\ [r EXCEPT !.pc = pc].charged = r.charged /\ [r EXCEPT !.pc = pc].pc = pc
<1> DEFINE s == [r EXCEPT !.pc = pc]
<1>1. /\ s \in CallRecords /\ s.charged = r.charged /\ s.pc = pc /\ s.result = r.result /\ s.api = r.api
      /\ s.total = r.total /\ r.pc # "done" /\ pc # "done" /\ r.pc \notin Reading /\ pc \notin Reading
  BY DEF CallOK, CallRecords, Pcs, QuietPlaces, WorkerStages, Reading
<1> HIDE DEF s
<1>2. CallOK(s)
  BY <1>1 DEF CallOK, QuietPlaces
<1> QED BY <1>1, <1>2 DEF s

\* A worker's place and a place without one.
LEMMA Places ==
  /\ \A r : r.pc \in WorkerStages => Attended(r, TRUE)
  /\ \A r : r.pc \notin WorkerStages => Attended(r, FALSE)
BY DEF Attended

\* A call begins with its first worker.
LEMMA BeginKeeps == ASSUME HttpInv, NEW c \in VlmCalls, BeginCall(c), UNCHANGED taskOwns PROVE HttpInv'
<1>1. call[c].pc = "idle" /\ UNCHANGED <<used, overdue>>
  BY DEF BeginCall
<1>2. CASE Finish(c, "Timeout") /\ UNCHANGED <<threads, holders>>
  BY <1>1, <1>2, CallEndKeeps DEF Errors
<1>3. CASE call' = [call EXCEPT ![c].pc = "send"] /\ UNCHANGED <<threads, holders>>
  <2> DEFINE r == [call[c] EXCEPT !.pc = "send"]
  <2>1. CallOK(r) /\ r.charged = call[c].charged /\ r.pc = "send"
    <3>1. CallOK(call[c])
      BY CallIs
    <3> QED BY <1>1, <3>1, AtPlace DEF QuietPlaces
  <2>2. call' = [call EXCEPT ![c] = r]
    BY <1>3, CallIs
  <2>3. c \notin threads
    BY <1>1, CallIs DEF Attended, WorkerStages
  <2>4. Attended(r, c \in threads)
    BY <2>1, <2>3 DEF Attended, WorkerStages
  <2> HIDE DEF r
  <2> QED BY <1>1, <1>3, <2>1, <2>2, <2>4, MoveKeeps
<1>4. CASE Spawn(c, "build")
  <2> DEFINE r == [call[c] EXCEPT !.pc = "build"]
  <2>1. CallOK(r) /\ r.charged = call[c].charged /\ r.pc = "build"
    <3>1. CallOK(call[c])
      BY CallIs
    <3> QED BY <1>1, <3>1, AtPlace DEF QuietPlaces
  <2>2. call' = [call EXCEPT ![c] = r]
    BY <1>4, CallIs DEF Spawn
  <2>3. c \notin threads
    BY <1>1, CallIs DEF Attended, WorkerStages
  <2>4. Attended(r, TRUE)
    BY <2>1 DEF Attended, WorkerStages
  <2> HIDE DEF r
  <2> QED BY <1>1, <1>4, <2>1, <2>2, <2>3, <2>4, MoveKeeps DEF Spawn
<1> QED BY <1>2, <1>3, <1>4 DEF BeginCall

\* The next worker takes over, or the call goes on without one.
LEMMA WorkerGivesWay ==
  ASSUME HttpInv, NEW c \in VlmCalls, call[c].pc \in {"build", "encode", "base"}, UNCHANGED <<used, overdue, taskOwns>>,
         \/ JoinAndSpawn(c, "encode") \/ JoinAndSpawn(c, "base")
         \/ WorkerJoins(c) /\ call' = [call EXCEPT ![c].pc = "round"]
  PROVE  HttpInv'
<1>1. CallOK(call[c]) /\ call[c].pc \in QuietPlaces
  BY CallIs DEF QuietPlaces
<1>2. ASSUME NEW pc \in {"encode", "base"}, JoinAndSpawn(c, pc) PROVE HttpInv'
  <2> DEFINE r == [call[c] EXCEPT !.pc = pc]
  <2>1. CallOK(r) /\ r.charged = call[c].charged /\ r.pc = pc
    BY <1>1, AtPlace DEF QuietPlaces
  <2>2. call' = [call EXCEPT ![c] = r] /\ c \in threads
    BY <1>2, CallIs DEF JoinAndSpawn
  <2>3. Attended(r, c \in threads)
    BY <2>1, <2>2 DEF Attended, WorkerStages
  <2> HIDE DEF r
  <2> QED BY <1>2, <2>1, <2>2, <2>3, MoveKeeps DEF JoinAndSpawn
<1>3. CASE WorkerJoins(c) /\ call' = [call EXCEPT ![c].pc = "round"]
  <2> DEFINE r == [call[c] EXCEPT !.pc = "round"]
  <2>1. CallOK(r) /\ r.charged = call[c].charged /\ r.pc = "round"
    BY <1>1, AtPlace DEF QuietPlaces
  <2>2. call' = [call EXCEPT ![c] = r]
    BY <1>3, CallIs
  <2>3. Attended(r, FALSE)
    BY <2>1 DEF Attended, WorkerStages
  <2> HIDE DEF r
  <2> QED BY <1>3, <2>1, <2>2, <2>3, MoveKeeps DEF WorkerJoins
<1> QED BY <1>2, <1>3

\* The body is built.
LEMMA BuildKeeps == ASSUME HttpInv, NEW c \in VlmCalls, Build(c), UNCHANGED taskOwns PROVE HttpInv'
<1>1. call[c].pc \in {"build", "encode", "base"} /\ UNCHANGED <<used, overdue>>
  BY DEF Build
<1>2. ASSUME NEW e \in {"LimitExceeded", "InvalidImageInput"}, WorkerJoins(c), Finish(c, e) PROVE HttpInv'
  BY <1>1, <1>2, CallEndKeeps DEF Errors
<1> QED BY <1>1, <1>2, WorkerGivesWay DEF Build

\* A round of the quality loop begins.
LEMMA RoundKeeps == ASSUME HttpInv, NEW c \in VlmCalls, Round(c), UNCHANGED taskOwns PROVE HttpInv'
<1>1. call[c].pc = "round" /\ UNCHANGED <<used, overdue, threads, holders>>
  BY DEF Round
<1>2. CASE Finish(c, "Timeout")
  BY <1>1, <1>2, CallEndKeeps DEF Errors
<1>3. CASE call' = [call EXCEPT ![c].pc = "send", ![c].retries = 0]
  <2> DEFINE r == [call[c] EXCEPT !.pc = "send", !.retries = 0]
  <2>0. CallOK(call[c]) /\ call[c] \in CallRecords /\ 0 \in 0..MaxRetries
    BY CallIs, HttpLimits
  <2>1. /\ r \in CallRecords /\ r.pc = "send" /\ r.result = call[c].result /\ r.api = call[c].api
        /\ r.total = call[c].total /\ r.charged = call[c].charged
    BY <1>1, <2>0 DEF CallRecords, Pcs
  <2>2. call' = [call EXCEPT ![c] = r]
    BY <1>3, CallIs
  <2> HIDE DEF r
  <2>3. CallOK(r)
    BY <1>1, <2>0, <2>1 DEF CallOK, Reading
  <2>4. Attended(r, c \in threads)
    BY <1>1, <2>1, CallIs DEF Attended, WorkerStages
  <2> QED BY <1>1, <2>1, <2>2, <2>3, <2>4, MoveKeeps
<1> QED BY <1>2, <1>3 DEF Round

\* A retry reads from the beginning.
LEMMA ResendKeeps == ASSUME HttpInv, NEW c \in VlmCalls, Resend(c), UNCHANGED taskOwns PROVE HttpInv'
<1> DEFINE r == [call[c] EXCEPT !.retries = call[c].retries + 1]
<1>1. call[c].pc = "send" /\ call[c].retries < MaxRetries /\ UNCHANGED <<used, overdue, threads, holders>>
  BY DEF Resend
<1>2. CallOK(call[c]) /\ call[c] \in CallRecords /\ call[c].retries + 1 \in 0..MaxRetries
  <2>1. CallOK(call[c]) /\ call[c] \in CallRecords /\ call[c].retries \in 0..MaxRetries /\ MaxRetries \in Nat
    BY CallIs, HttpLimits DEF CallRecords
  <2> QED BY <1>1, <2>1
<1>3. /\ r \in CallRecords /\ r.pc = "send" /\ r.result = call[c].result /\ r.api = call[c].api
      /\ r.total = call[c].total /\ r.charged = call[c].charged
  BY <1>1, <1>2 DEF CallRecords, Pcs
<1>4. call' = [call EXCEPT ![c] = r]
  BY CallIs DEF Resend
<1> HIDE DEF r
<1>5. CallOK(r)
  BY <1>1, <1>2, <1>3 DEF CallOK, Reading
<1>6. Attended(r, c \in threads)
  BY <1>1, <1>3, CallIs DEF Attended, WorkerStages
<1> QED BY <1>1, <1>3, <1>4, <1>5, <1>6, MoveKeeps

\* An answer starts to be read.
LEMMA AnsweredKeeps == ASSUME HttpInv, NEW c \in VlmCalls, ServerAnswers(c), UNCHANGED taskOwns PROVE HttpInv'
<1> DEFINE r == [call[c] EXCEPT !.pc = "recv", !.read = 0]
<1>1. call[c].pc = "send" /\ UNCHANGED <<used, overdue, threads, holders>>
  BY DEF ServerAnswers
<1>2. CallOK(call[c]) /\ call[c] \in CallRecords /\ 0 \in 0..Cap
  BY CallIs, HttpLimits
<1>3. /\ r \in CallRecords /\ r.pc = "recv" /\ r.result = call[c].result /\ r.api = call[c].api
      /\ r.total = call[c].total /\ r.charged = call[c].charged /\ r.read = 0 /\ r.total \in Nat /\ r.charged \in Nat
  BY <1>1, <1>2 DEF CallRecords, Pcs
<1>4. call' = [call EXCEPT ![c] = r]
  BY CallIs DEF ServerAnswers
<1> HIDE DEF r
<1>5. CallOK(r)
  BY <1>1, <1>2, <1>3 DEF CallOK, Reading
<1>6. Attended(r, c \in threads)
  BY <1>1, <1>3, CallIs DEF Attended, WorkerStages
<1> QED BY <1>1, <1>3, <1>4, <1>5, <1>6, MoveKeeps

\* A chunk is charged once, by the call that reads it.
LEMMA ChunkKeeps == ASSUME HttpInv, NEW c \in VlmCalls, NEW n \in ChunkSizes, Chunk(c, n), UNCHANGED taskOwns PROVE HttpInv'
<1>1. call[c].pc = "recv" /\ UNCHANGED <<overdue, threads, holders>> /\ n \in Nat
  BY HttpLimits DEF Chunk
<1>2. CallOK(call[c]) /\ call[c] \in CallRecords /\ DOMAIN call = VlmCalls /\ call[c].read \in 0..Cap /\ Cap \in Nat
      /\ call[c].charged \in Nat /\ call[c].total \in Nat /\ used \in 0..BudgetCap /\ BudgetCap \in Nat
  BY CallIs, HttpLimits DEF CallRecords
<1>3. CASE Finish(c, "LimitExceeded") /\ UNCHANGED used
  BY <1>1, <1>3, CallEndKeeps DEF Errors
<1> DEFINE got == call[c].read + n
           paid == call[c].charged + n
<1>4. CASE ~ (call[c].read + n > Cap) /\ ~Official(c) /\ call' = [call EXCEPT ![c].read = @ + n] /\ UNCHANGED used
  <2> DEFINE r == [call[c] EXCEPT !.read = got]
  <2>1. got \in 0..Cap
    BY <1>1, <1>2, <1>4
  <2>2. /\ r \in CallRecords /\ r.pc = "recv" /\ r.result = call[c].result /\ r.api = call[c].api /\ r.charged = call[c].charged
    BY <1>1, <1>2, <2>1 DEF CallRecords, Pcs
  <2>3. call' = [call EXCEPT ![c] = r]
    BY <1>2, <1>4
  <2> HIDE DEF r, got
  <2>4. CallOK(r)
    BY <1>1, <1>2, <1>4, <2>2 DEF CallOK, Official
  <2>5. Attended(r, c \in threads)
    BY <1>1, <2>2, CallIs DEF Attended, WorkerStages
  <2> QED BY <1>1, <1>4, <2>2, <2>3, <2>4, <2>5, MoveKeeps
<1>5. CASE ~ (call[c].read + n > Cap) /\ Official(c) /\ used + n <= BudgetCap /\ used' = used + n
           /\ call' = [call EXCEPT ![c].read = @ + n, ![c].charged = @ + n]
  <2> DEFINE r == [call[c] EXCEPT !.read = got, !.charged = paid]
  <2>1. got \in 0..Cap /\ paid \in Nat
    BY <1>1, <1>2, <1>5
  <2>2. /\ r \in CallRecords /\ r.pc = "recv" /\ r.result = call[c].result /\ r.api = call[c].api /\ r.charged = paid
        /\ r.read = got /\ r.total = call[c].total
    BY <1>1, <1>2, <2>1 DEF CallRecords, Pcs
  <2>3. call' = [call EXCEPT ![c] = r]
    BY <1>2, <1>5
  <2>4. call[c].charged = call[c].total + call[c].read /\ call[c].result = "none"
    BY <1>1, <1>2, <1>5 DEF CallOK, Official, Reading
  <2> HIDE DEF r
  <2>5. r.charged = r.total + r.read /\ r.total <= r.charged
    BY <1>1, <1>2, <2>2, <2>4
  <2>6. CallOK(r)
    BY <2>2, <2>4, <2>5 DEF CallOK, Reading
  <2>7. Attended(r, c \in threads)
    BY <1>1, <2>2, CallIs DEF Attended, WorkerStages
  <2>8. used' = used + r.charged - call[c].charged /\ used' \in 0..BudgetCap
    BY <1>1, <1>2, <1>5, <2>2
  <2> QED BY <1>1, <2>3, <2>6, <2>7, <2>8, CallBecomes
<1> QED BY <1>3, <1>4, <1>5 DEF Chunk, Charge

\* The whole answer goes to a decoder.
LEMMA EndOfBodyKeeps == ASSUME HttpInv, NEW c \in VlmCalls, EndOfBody(c), UNCHANGED taskOwns PROVE HttpInv'
<1> DEFINE r == [call[c] EXCEPT !.pc = "decode"]
<1>1. call[c].pc = "recv" /\ UNCHANGED <<used, overdue>> /\ threads' = threads \cup {c} /\ holders' = holders + 1
  BY DEF EndOfBody, Spawn
<1>2. CallOK(call[c]) /\ call[c] \in CallRecords /\ DOMAIN call = VlmCalls
  BY CallIs
<1>3. /\ r \in CallRecords /\ r.pc = "decode" /\ r.result = call[c].result /\ r.api = call[c].api
      /\ r.total = call[c].total /\ r.charged = call[c].charged /\ r.read = call[c].read
  BY <1>1, <1>2 DEF CallRecords, Pcs, WorkerStages
<1>4. call' = [call EXCEPT ![c] = r]
  BY <1>2 DEF EndOfBody, Spawn
<1> HIDE DEF r
<1>5. CallOK(r)
  BY <1>1, <1>2, <1>3 DEF CallOK, Reading
<1>6. Attended(r, TRUE) /\ c \notin threads
  BY <1>1, <1>3, CallIs DEF Attended, WorkerStages
<1> QED BY <1>1, <1>3, <1>4, <1>5, <1>6, MoveKeeps

\* A text is taken: what was read is reported.
LEMMA AcceptKeeps ==
  ASSUME HttpInv, NEW c \in VlmCalls, call[c].pc \in {"decode", "text"}, WorkerJoins(c), Accept(c), UNCHANGED <<used, overdue, taskOwns>>
  PROVE  HttpInv'
<1> DEFINE sum == call[c].total + call[c].read
           r == [call[c] EXCEPT !.pc = "done", !.result = "ok", !.total = sum]
<1>1. CallOK(call[c]) /\ call[c] \in CallRecords /\ DOMAIN call = VlmCalls
  BY CallIs
<1>2. sum \in Nat
  BY <1>1, HttpLimits DEF CallRecords
<1>3. /\ r \in CallRecords /\ r.pc = "done" /\ r.result = "ok" /\ r.api = call[c].api
      /\ r.total = sum /\ r.charged = call[c].charged
  BY <1>1, <1>2 DEF CallRecords, Pcs
<1>4. call' = [call EXCEPT ![c] = r]
  BY <1>1 DEF Accept
<1>5. call[c].api = "official" => call[c].charged = sum
  BY <1>1 DEF CallOK, Reading
<1> HIDE DEF r, sum
<1>6. CallOK(r)
  BY <1>2, <1>3, <1>5 DEF CallOK, Reading
<1>7. Attended(r, FALSE)
  BY <1>3 DEF Attended, WorkerStages
<1> QED BY <1>3, <1>4, <1>6, <1>7, MoveKeeps DEF WorkerJoins

\* The decoder gives its answer, and its slot, back.
LEMMA DecodedKeeps == ASSUME HttpInv, NEW c \in VlmCalls, Decoded(c), UNCHANGED taskOwns PROVE HttpInv'
<1>1. call[c].pc = "decode" /\ UNCHANGED <<used, overdue>>
  BY DEF Decoded
<1>2. CASE WorkerJoins(c) /\ Finish(c, "Protocol")
  BY <1>1, <1>2, CallEndKeeps DEF Errors
<1>3. CASE WorkerJoins(c) /\ Accept(c)
  BY <1>1, <1>3, AcceptKeeps
<1>4. CASE JoinAndSpawn(c, "text")
  <2> DEFINE r == [call[c] EXCEPT !.pc = "text"]
  <2>1. CallOK(call[c]) /\ call[c] \in CallRecords /\ DOMAIN call = VlmCalls
    BY CallIs
  <2>2. /\ r \in CallRecords /\ r.pc = "text" /\ r.result = call[c].result /\ r.api = call[c].api
        /\ r.total = call[c].total /\ r.charged = call[c].charged /\ r.read = call[c].read
    BY <1>1, <2>1 DEF CallRecords, Pcs, WorkerStages
  <2>3. call' = [call EXCEPT ![c] = r] /\ c \in threads /\ UNCHANGED <<threads, holders>>
    BY <1>4, <2>1 DEF JoinAndSpawn
  <2> HIDE DEF r
  <2>4. CallOK(r)
    BY <1>1, <2>1, <2>2 DEF CallOK, Reading
  <2>5. Attended(r, c \in threads)
    BY <2>2, <2>3 DEF Attended, WorkerStages
  <2> QED BY <1>1, <2>2, <2>3, <2>4, <2>5, MoveKeeps
<1> QED BY <1>2, <1>3, <1>4 DEF Decoded

\* A text is accepted, or asked for again.
LEMMA TextReadKeeps == ASSUME HttpInv, NEW c \in VlmCalls, TextRead(c), UNCHANGED taskOwns PROVE HttpInv'
<1>1. call[c].pc = "text" /\ UNCHANGED <<used, overdue>>
  BY DEF TextRead
<1>2. CASE WorkerJoins(c) /\ Finish(c, "Timeout")
  BY <1>1, <1>2, CallEndKeeps DEF Errors
<1>3. CASE WorkerJoins(c) /\ Accept(c)
  BY <1>1, <1>3, AcceptKeeps
<1> DEFINE sum == call[c].total + call[c].read
<1>4. CASE /\ c \in threads /\ call' = [call EXCEPT ![c].pc = "rewrite", ![c].total = @ + call[c].read]
           /\ UNCHANGED <<threads, holders>> /\ NextRetryTemperature(call[c].base, call[c].warm) # {}
  <2> DEFINE r == [call[c] EXCEPT !.pc = "rewrite", !.total = sum]
  <2>1. CallOK(call[c]) /\ call[c] \in CallRecords /\ DOMAIN call = VlmCalls
    BY CallIs
  <2>2. sum \in Nat
    BY <2>1, HttpLimits DEF CallRecords
  <2>3. /\ r \in CallRecords /\ r.pc = "rewrite" /\ r.result = call[c].result /\ r.api = call[c].api
        /\ r.total = sum /\ r.charged = call[c].charged /\ r.warm = call[c].warm
    BY <1>1, <2>1, <2>2 DEF CallRecords, Pcs, WorkerStages
  <2>4. call' = [call EXCEPT ![c] = r]
    BY <1>4, <2>1
  <2>5. (call[c].api = "official" => call[c].charged = sum) /\ call[c].result = "none"
    BY <1>1, <2>1 DEF CallOK, Reading
  <2>6. call[c].warm < MaxWarm
    BY <1>4 DEF NextRetryTemperature
  <2> HIDE DEF r, sum
  <2>7. CallOK(r)
    BY <2>2, <2>3, <2>5, <2>6 DEF CallOK, Reading
  <2>8. Attended(r, c \in threads)
    BY <1>4, <2>3 DEF Attended, WorkerStages
  <2> QED BY <1>1, <1>4, <2>3, <2>4, <2>7, <2>8, MoveKeeps
<1> QED BY <1>2, <1>3, <1>4 DEF TextRead

\* The body of the next round is ready.
LEMMA RewrittenKeeps == ASSUME HttpInv, NEW c \in VlmCalls, Rewritten(c), UNCHANGED taskOwns PROVE HttpInv'
<1> DEFINE r == [call[c] EXCEPT !.pc = "round", !.warm = call[c].warm + 1]
<1>1. call[c].pc = "rewrite" /\ UNCHANGED <<used, overdue>> /\ WorkerJoins(c)
  BY DEF Rewritten
<1>2. CallOK(call[c]) /\ call[c] \in CallRecords /\ DOMAIN call = VlmCalls /\ call[c].warm + 1 \in 0..MaxWarm
  <2>1. CallOK(call[c]) /\ call[c] \in CallRecords /\ DOMAIN call = VlmCalls
    BY CallIs
  <2>2. call[c].warm \in 0..MaxWarm /\ MaxWarm \in Nat /\ call[c].warm < MaxWarm
    BY <1>1, <2>1, HttpLimits DEF CallRecords, CallOK
  <2> QED BY <2>1, <2>2
<1>3. /\ r \in CallRecords /\ r.pc = "round" /\ r.result = call[c].result /\ r.api = call[c].api
      /\ r.total = call[c].total /\ r.charged = call[c].charged
  BY <1>1, <1>2 DEF CallRecords, Pcs
<1>4. call' = [call EXCEPT ![c] = r]
  BY <1>2 DEF Rewritten
<1> HIDE DEF r
<1>5. CallOK(r)
  BY <1>1, <1>2, <1>3 DEF CallOK, Reading
<1>6. Attended(r, FALSE)
  BY <1>3 DEF Attended, WorkerStages
<1> QED BY <1>1, <1>3, <1>4, <1>5, <1>6, MoveKeeps DEF WorkerJoins

\* A worker whose call is over ends.
LEMMA OrphanKeeps == ASSUME HttpInv, NEW c \in VlmCalls, OrphanEnds(c), UNCHANGED taskOwns PROVE HttpInv'
<1>1. call[c].pc = "done" /\ UNCHANGED <<call, used, overdue>> /\ c \in threads /\ threads' = threads \ {c} /\ holders' = holders - 1
  BY DEF OrphanEnds, WorkerJoins
<1>2. CallOK(call[c]) /\ DOMAIN call = VlmCalls
  BY CallIs
<1>3. call' = [call EXCEPT ![c] = call[c]]
  BY <1>1 DEF HttpInv
<1>4. Attended(call[c], FALSE)
  BY <1>1 DEF Attended, WorkerStages
<1> QED BY <1>1, <1>2, <1>3, <1>4, MoveKeeps

\* Every step of a call keeps the invariant.
LEMMA HttpStepKeeps == ASSUME HttpInv, NEW c \in VlmCalls, HttpStep(c), UNCHANGED taskOwns PROVE HttpInv'
<1>1. CASE CallRefused(c)
  <2>1. call[c].pc = "send" /\ UNCHANGED <<used, overdue, threads, holders>> /\ \E e \in Errors : Finish(c, e)
    BY <1>1 DEF CallRefused, Errors
  <2> QED BY <2>1, CallEndKeeps
<1>2. CASE Broken(c)
  <2>1. call[c].pc = "recv" /\ UNCHANGED <<used, overdue, threads, holders>> /\ \E e \in Errors : Finish(c, e)
    BY <1>2 DEF Broken, Errors
  <2> QED BY <2>1, CallEndKeeps
<1>3. CASE WorkerFails(c)
  <2>1. call[c].pc # "done" /\ UNCHANGED <<used, overdue>> /\ WorkerJoins(c) /\ \E e \in Errors : Finish(c, e)
    BY <1>3 DEF WorkerFails, Errors, WorkerStages
  <2> QED BY <2>1, CallEndKeeps
<1>4. CASE TimedOut(c)
  BY <1>4, CallEndKeeps DEF TimedOut, Errors
<1> QED
  BY <1>1, <1>2, <1>3, <1>4, BeginKeeps, BuildKeeps, RoundKeeps, ResendKeeps, AnsweredKeeps, ChunkKeeps, EndOfBodyKeeps,
     DecodedKeeps, TextReadKeeps, RewrittenKeeps, OrphanKeeps DEF HttpStep

\* So does every step of the client, its deadline included.
LEMMA HttpSteps == ASSUME HttpInv, [HttpNext]_httpVars PROVE HttpInv'
<1>1. CASE CallDeadlinePasses /\ UNCHANGED taskOwns
  BY <1>1 DEF CallDeadlinePasses, HttpInv, CallOK, Attended
<1>2. CASE TaskEnds
  <2>1. taskOwns /\ taskOwns' = FALSE /\ holders' = holders - 1 /\ UNCHANGED <<call, used, overdue, threads>>
    BY <1>2 DEF TaskEnds
  <2>2. holders' = Cardinality(threads') + 0
    BY <2>1, ThreadsCounted DEF HttpInv
  <2> QED BY <2>1, <2>2 DEF HttpInv, CallOK, Attended
<1>3. ASSUME NEW c \in VlmCalls, HttpStep(c), UNCHANGED taskOwns PROVE HttpInv'
  BY <1>3, HttpStepKeeps
<1>4. CASE UNCHANGED httpVars
  BY <1>4 DEF httpVars, HttpInv, CallOK, Attended
<1> QED BY <1>1, <1>2, <1>3, <1>4 DEF HttpNext

\* Nothing is charged before the first call.
LEMMA HttpStarts == ASSUME HttpInit PROVE HttpInv
<1>1. /\ call \in [VlmCalls -> CallRecords] /\ used = 0 /\ overdue = FALSE /\ threads = {} /\ taskOwns = TRUE /\ holders = 1
      /\ \A c \in VlmCalls : call[c].pc = "idle" /\ call[c].charged = 0 /\ call[c].total = 0 /\ call[c].result = "none"
  BY HttpLimits DEF HttpInit, CallRecords, Pcs
<1>2. \A c \in VlmCalls : CallOK(call[c]) /\ Attended(call[c], c \in threads)
  BY <1>1 DEF CallOK, Attended, Reading, WorkerStages
<1>3. SumFunction([c \in VlmCalls |-> call[c].charged]) = 0
  <2> DEFINE w == [c \in VlmCalls |-> call[c].charged]
  <2>1. DOMAIN w = VlmCalls /\ \A c \in VlmCalls : w[c] = 0
    BY <1>1
  <2> HIDE DEF w
  <2>2. SumFunctionOnSet(w, VlmCalls) = 0
    BY <2>1, HttpLimits, SumZero
  <2>3. SumFunction(w) = 0
    BY <2>1, <2>2 DEF SumFunction
  <2> QED BY <2>3 DEF w
<1>4. Cardinality(threads) = 0 /\ used \in 0..BudgetCap
  BY <1>1, HttpLimits, FS_EmptySet
<1>5. holders = Cardinality(threads) + IF taskOwns THEN 1 ELSE 0
  BY <1>1, <1>4
<1>6. threads \subseteq VlmCalls /\ overdue \in BOOLEAN /\ taskOwns \in BOOLEAN
  BY <1>1
<1>7. used = SumFunction([c \in VlmCalls |-> call[c].charged])
  BY <1>1, <1>3
<1> QED BY <1>1, <1>2, <1>4, <1>5, <1>6, <1>7 DEF HttpInv

\* The calls.
THEOREM HttpIsBounded == HttpSpec => [](HttpTypeOK /\ BudgetHonest /\ SlotCoversWork)
<1>1. HttpInv => HttpTypeOK /\ BudgetHonest /\ SlotCoversWork
  <2> SUFFICES ASSUME HttpInv PROVE HttpTypeOK /\ BudgetHonest /\ SlotCoversWork
    OBVIOUS
  <2>1. holders \in Nat /\ (holders = 0 => threads = {})
    BY ThreadsCounted DEF HttpInv
  <2>2. HttpTypeOK
    BY <2>1 DEF HttpInv, HttpTypeOK, CallRecords, Pcs
  <2>3. BudgetHonest
    BY DEF HttpInv, BudgetHonest, CallOK, Official
  <2> QED BY <2>1, <2>2, <2>3 DEF SlotCoversWork
<1> QED BY <1>1, HttpStarts, HttpSteps, PTL DEF HttpSpec

-----------------------------------------------------------------------------
(* A window of pages, for any pages, crops and caps, in both pipelines.     *)

OnTheWay == {"held", "wait", "http"}
Carried == OnTheWay \cup {"full", "empty"}
Handled == Carried \cup {"capped"}
PagePlaces == {"permit", "layout", "layout_wait", "layout_http", "semantic", "done"}
WindowVerdicts == {"run", "ok", "Timeout", "Transport", "Protocol", "Http", "LimitExceeded"}

PageRecords == [pc : PagePlaces, layout : Nat, sizes : Seq(Nat), next : Nat, reserved : {0, MaxRequest},
                resident : Nat, raw : Nat, encoded : Nat]

\* The candidates in some states, and what they weigh together.
Among(s, T) == {i \in DOMAIN s : s[i] \in T}
Weight(z, s, T) == SumFunctionOnSet(z, Among(s, T))

\* A page's counter is its reservation and what it holds.
PageOK(r, s) ==
    /\ r \in PageRecords /\ r.next >= 1 /\ s \in Seq(States) /\ DOMAIN s \subseteq DOMAIN r.sizes
    /\ r.pc \notin {"semantic", "done"} => s = <<>> /\ r.next = 1
    /\ r.resident = r.reserved + Weight(r.sizes, s, OnTheWay) /\ r.resident <= MaxBatch
    /\ r.reserved = 0 \/ Among(s, {"cpu", "encode"}) # {}

\* What each scheduler has done with the candidates.
Scheduled(m, r, s) ==
    /\ m = "classic" => \A i \in DOMAIN s : i >= r.next => s[i] = "todo"
    /\ m # "classic" =>
          /\ r.reserved = 0 /\ Weight(r.sizes, s, Carried) <= MaxBatch
          /\ \A i \in DOMAIN s : i < r.next <=> s[i] \in Handled
          /\ r.next \in DOMAIN s => \A i \in DOMAIN s : s[i] \notin {"wait", "http", "full", "empty"}

WindowInv ==
    /\ model \in Models /\ page \in [Pages -> PageRecords] /\ cand \in [Pages -> Seq(States)]
    /\ \A p \in Pages : PageOK(page[p], cand[p]) /\ Scheduled(model, page[p], cand[p])
    /\ encoded = SumFunction([p \in Pages |-> page[p].encoded]) /\ encoded \in 0..EncodedCap
    /\ raw >= SumFunction([p \in Pages |-> page[p].raw]) /\ raw \in 0..RawCap
    /\ model = "classic" => ledger = 0
    /\ model # "classic" => ledger = SumFunction([p \in Pages |-> Weight(page[p].sizes, cand[p], Carried)])
    /\ tripped = FALSE /\ windowExpired \in BOOLEAN /\ windowVerdict \in WindowVerdicts

\* The limits are numbers.
LEMMA WindowLimits ==
  /\ IsFiniteSet(Pages) /\ MaxRequest \in Nat /\ MaxBatch \in Nat /\ MaxRequest <= MaxBatch /\ CpuSlots \in Nat /\ CpuSlots >= 1
  /\ EncodedCap \in Nat /\ RawCap \in Nat /\ LayoutSizes \subseteq Nat /\ RawSizes \subseteq Nat /\ Layouts \subseteq Seq(Nat)
BY WindowAssumption

\* One amount of a sum changes.
LEMMA SumChanges ==
  ASSUME NEW S, IsFiniteSet(S), NEW w \in [S -> Nat], NEW v \in [S -> Nat], NEW p \in S, \A q \in S : q # p => v[q] = w[q]
  PROVE  SumFunction(v) + w[p] = SumFunction(w) + v[p] /\ SumFunction(v) \in Nat /\ SumFunction(w) \in Nat
<1>1. DOMAIN w = S /\ DOMAIN v = S /\ v[p] \in Nat
  OBVIOUS
<1>2. v = [w EXCEPT ![p] = v[p]]
  OBVIOUS
<1> DEFINE n == v[p]
<1>3. n \in Nat /\ v = [w EXCEPT ![p] = n]
  BY <1>1, <1>2
<1> HIDE DEF n
<1>4. SumFunctionOnSet(v, S) + w[p] = SumFunctionOnSet(w, S) + n /\ SumFunctionOnSet(v, S) \in Nat /\ SumFunctionOnSet(w, S) \in Nat
  <2>1. /\ SumFunctionOnSet([w EXCEPT ![p] = n], S) + w[p] = SumFunctionOnSet(w, S) + n
        /\ SumFunctionOnSet([w EXCEPT ![p] = n], S) \in Nat /\ SumFunctionOnSet(w, S) \in Nat
    BY <1>3, SumPut
  <2> QED BY <1>3, <2>1
<1> QED BY <1>1, <1>4 DEF SumFunction, n

\* The candidates in a state are finitely many, each with a size.
LEMMA WeightType ==
  ASSUME NEW z \in Seq(Nat), NEW s \in Seq(States), DOMAIN s \subseteq DOMAIN z, NEW T
  PROVE  Amounts(z, Among(s, T)) /\ Weight(z, s, T) \in Nat
<1>1. IsFiniteSet(DOMAIN s)
  BY FS_Interval
<1>2. Among(s, T) \subseteq DOMAIN s
  BY DEF Among
<1>3. IsFiniteSet(Among(s, T))
  BY <1>1, <1>2, FS_Subset
<1>4. \A i \in Among(s, T) : z[i] \in Nat
  BY <1>2
<1>5. Amounts(z, Among(s, T))
  BY <1>3, <1>4 DEF Amounts
<1> QED BY <1>5, SumType DEF Weight

\* One candidate moves.
Sized(z, s) == z \in Seq(Nat) /\ s \in Seq(States) /\ DOMAIN s \subseteq DOMAIN z
Replaced(s, t, i) == i \in DOMAIN s /\ t \in Seq(States) /\ DOMAIN t = DOMAIN s /\ \A j \in DOMAIN s : j # i => t[j] = s[j]

\* The weight of some crops is a number.
LEMMA WeightIs ==
  ASSUME NEW z, NEW s, NEW T, Sized(z, s)
  PROVE  Amounts(z, Among(s, T)) /\ Weight(z, s, T) \in Nat
BY WeightType DEF Sized

\* A crop that counts before and after, or neither, changes no weight.
LEMMA WeightStays ==
  ASSUME NEW z, NEW s, NEW t, NEW i, NEW T, Sized(z, s), Replaced(s, t, i), s[i] \in T <=> t[i] \in T
  PROVE  Weight(z, t, T) = Weight(z, s, T)
<1>1. Among(t, T) = Among(s, T)
  BY DEF Among, Replaced
<1> QED BY <1>1 DEF Weight

\* A crop that counts no more takes its bytes with it.
LEMMA WeightDrops ==
  ASSUME NEW z, NEW s, NEW t, NEW i, NEW T, Sized(z, s), Replaced(s, t, i), s[i] \in T, t[i] \notin T
  PROVE  Weight(z, s, T) = z[i] + Weight(z, t, T)
<1>1. Among(t, T) = Among(s, T) \ {i} /\ i \in Among(s, T)
  BY DEF Among, Replaced
<1>2. Amounts(z, Among(s, T))
  BY WeightIs
<1>3. SumFunctionOnSet(z, Among(s, T)) = z[i] + SumFunctionOnSet(z, Among(s, T) \ {i})
  BY <1>1, <1>2, SumRemove
<1> QED BY <1>1, <1>3 DEF Weight

\* A crop that counts now brings its bytes.
LEMMA WeightGains ==
  ASSUME NEW z, NEW s, NEW t, NEW i, NEW T, Sized(z, s), Replaced(s, t, i), s[i] \notin T, t[i] \in T
  PROVE  Weight(z, t, T) = z[i] + Weight(z, s, T)
<1>1. Sized(z, t) /\ Replaced(t, s, i)
  BY DEF Sized, Replaced
<1> QED BY <1>1, WeightDrops

\* A crop comes to rest, and adds what it is kept with.
Settles(z, s, t, i, T, more) ==
    Sized(z, s) /\ Replaced(s, t, i) /\ s[i] \notin T /\ more = IF t[i] \in T THEN z[i] ELSE 0

\* A candidate that weighed nothing now counts, or still does not.
LEMMA WeightSettles ==
  ASSUME NEW z, NEW s, NEW t, NEW i, NEW T, NEW more, Settles(z, s, t, i, T, more)
  PROVE  Weight(z, t, T) = Weight(z, s, T) + more /\ Weight(z, s, T) \in Nat
<1> Sized(z, s) /\ Replaced(s, t, i) /\ s[i] \notin T /\ more = IF t[i] \in T THEN z[i] ELSE 0
  BY DEF Settles
<1>1. Weight(z, s, T) \in Nat /\ z[i] \in Nat
  <2>1. Weight(z, s, T) \in Nat
    BY WeightIs
  <2> QED BY <2>1 DEF Sized, Replaced
<1>2. CASE t[i] \in T
  <2>1. Weight(z, t, T) = z[i] + Weight(z, s, T)
    BY <1>2, WeightGains
  <2> QED BY <1>1, <1>2, <2>1
<1>3. CASE t[i] \notin T
  <2>1. Weight(z, t, T) = Weight(z, s, T)
    BY <1>3, WeightStays
  <2> QED BY <1>1, <1>3, <2>1
<1> QED BY <1>2, <1>3

\* Nothing weighs nothing.
LEMMA WeightNothing == ASSUME NEW z, NEW s, NEW T, Among(s, T) = {} PROVE Weight(z, s, T) = 0
BY SumEmpty DEF Weight

\* A page becomes another record with other candidates.
LEMMA PageBecomes ==
  ASSUME WindowInv, NEW p \in Pages, NEW r, NEW s, PageOK(r, s), Scheduled(model, r, s),
         page' = [page EXCEPT ![p] = r], cand' = [cand EXCEPT ![p] = s],
         encoded' + page[p].encoded = encoded + r.encoded, encoded' \in 0..EncodedCap,
         raw + r.raw <= raw' + page[p].raw, raw' \in 0..RawCap,
         ledger' \in Nat, model = "classic" => ledger' = ledger,
         model # "classic" => ledger' + Weight(page[p].sizes, cand[p], Carried) = ledger + Weight(r.sizes, s, Carried),
         UNCHANGED <<model, tripped, windowExpired>>, windowVerdict' \in WindowVerdicts
  PROVE  WindowInv'
<1>1. /\ page \in [Pages -> PageRecords] /\ cand \in [Pages -> Seq(States)] /\ r \in PageRecords /\ s \in Seq(States) /\ IsFiniteSet(Pages)
      /\ \A q \in Pages : PageOK(page[q], cand[q]) /\ Scheduled(model, page[q], cand[q])
  BY WindowLimits DEF WindowInv, PageOK
<1>2. /\ page' \in [Pages -> PageRecords] /\ cand' \in [Pages -> Seq(States)] /\ page'[p] = r /\ cand'[p] = s
      /\ \A q \in Pages : q # p => page'[q] = page[q] /\ cand'[q] = cand[q]
  BY <1>1
<1>3. \A q \in Pages : PageOK(page'[q], cand'[q]) /\ Scheduled(model', page'[q], cand'[q])
  <2> TAKE q \in Pages
  <2>1. CASE q = p
    BY <1>2, <2>1
  <2>2. CASE q # p
    BY <1>1, <1>2, <2>2
  <2> QED BY <2>1, <2>2
<1>4. encoded' = SumFunction([q \in Pages |-> page'[q].encoded])
  <2> DEFINE w == [q \in Pages |-> page[q].encoded]
             v == [q \in Pages |-> page'[q].encoded]
  <2>1. w \in [Pages -> Nat] /\ v \in [Pages -> Nat] /\ v[p] = r.encoded /\ (\A q \in Pages : q # p => v[q] = w[q]) /\ r.encoded \in Nat /\ w[p] = page[p].encoded /\ page[p].encoded \in Nat
    BY <1>1, <1>2 DEF PageRecords
  <2>2. encoded = SumFunction(w)
    BY DEF WindowInv
  <2> HIDE DEF w, v
  <2>3. SumFunction(v) + w[p] = SumFunction(w) + v[p] /\ SumFunction(v) \in Nat /\ SumFunction(w) \in Nat
    <3>1. IsFiniteSet(Pages)
      BY WindowLimits
    <3> QED BY ONLY <2>1, <3>1, p \in Pages, SumChanges
  <2>4. encoded' \in Nat
    BY WindowLimits
  <2>5. encoded' = SumFunction(v)
    BY <2>1, <2>2, <2>3, <2>4
  <2> QED BY <2>5 DEF v
<1>5. raw' >= SumFunction([q \in Pages |-> page'[q].raw])
  <2> DEFINE w == [q \in Pages |-> page[q].raw]
             v == [q \in Pages |-> page'[q].raw]
  <2>1. w \in [Pages -> Nat] /\ v \in [Pages -> Nat] /\ v[p] = r.raw /\ (\A q \in Pages : q # p => v[q] = w[q]) /\ r.raw \in Nat /\ w[p] = page[p].raw /\ page[p].raw \in Nat
    BY <1>1, <1>2 DEF PageRecords
  <2>2. raw >= SumFunction(w)
    BY DEF WindowInv
  <2> HIDE DEF w, v
  <2>3. SumFunction(v) + w[p] = SumFunction(w) + v[p] /\ SumFunction(v) \in Nat /\ SumFunction(w) \in Nat
    <3>1. IsFiniteSet(Pages)
      BY WindowLimits
    <3> QED BY ONLY <2>1, <3>1, p \in Pages, SumChanges
  <2>4. raw' \in Nat /\ raw \in Nat
    BY WindowLimits DEF WindowInv
  <2>5. raw' >= SumFunction(v)
    BY <2>1, <2>2, <2>3, <2>4
  <2> QED BY <2>5 DEF v
<1>6. ASSUME model # "classic" PROVE ledger' = SumFunction([q \in Pages |-> Weight(page'[q].sizes, cand'[q], Carried)])
  <2> DEFINE w == [q \in Pages |-> Weight(page[q].sizes, cand[q], Carried)]
             v == [q \in Pages |-> Weight(page'[q].sizes, cand'[q], Carried)]
             n == Weight(r.sizes, s, Carried)
  <2>1. \A q \in Pages : Weight(page[q].sizes, cand[q], Carried) \in Nat
    <3> TAKE q \in Pages
    <3>1. page[q].sizes \in Seq(Nat) /\ cand[q] \in Seq(States) /\ DOMAIN cand[q] \subseteq DOMAIN page[q].sizes
      BY <1>1 DEF PageOK, PageRecords
    <3> QED BY <3>1, WeightType
  <2>2. n \in Nat
    <3>1. r.sizes \in Seq(Nat) /\ DOMAIN s \subseteq DOMAIN r.sizes
      BY DEF PageOK, PageRecords
    <3> QED BY <1>1, <3>1, WeightType
  <2>3. w \in [Pages -> Nat] /\ w[p] = Weight(page[p].sizes, cand[p], Carried)
    BY <2>1
  <2>4. v \in [Pages -> Nat] /\ v[p] = n /\ \A q \in Pages : q # p => v[q] = w[q]
    BY <1>2, <2>1, <2>2
  <2>5. ledger = SumFunction(w)
    BY <1>6 DEF WindowInv
  <2>6. ledger' + w[p] = ledger + n
    BY <1>6, <2>3
  <2> HIDE DEF w, v, n
  <2>7. SumFunction(v) + w[p] = SumFunction(w) + v[p] /\ SumFunction(v) \in Nat /\ SumFunction(w) \in Nat
    <3>1. IsFiniteSet(Pages)
      BY WindowLimits
    <3> QED BY ONLY <2>2, <2>3, <2>4, <3>1, p \in Pages, SumChanges
  <2>8. w[p] \in Nat
    BY <2>3
  <2>9. ledger' = SumFunction(v)
    BY <2>2, <2>4, <2>5, <2>6, <2>7, <2>8
  <2> QED BY <2>9 DEF v
<1>7. /\ model' \in Models /\ tripped' = FALSE /\ windowExpired' \in BOOLEAN
      /\ model' = "classic" => ledger' = 0
      /\ model' # "classic" => model # "classic"
  BY DEF WindowInv
<1> QED BY <1>2, <1>3, <1>4, <1>5, <1>6, <1>7 DEF WindowInv

\* What is known of one page.
LEMMA PageIs ==
  ASSUME WindowInv, NEW p \in Pages
  PROVE  /\ PageOK(page[p], cand[p]) /\ Scheduled(model, page[p], cand[p]) /\ page[p] \in PageRecords /\ cand[p] \in Seq(States)
         /\ DOMAIN page = Pages /\ DOMAIN cand = Pages /\ page[p].sizes \in Seq(Nat) /\ DOMAIN cand[p] \subseteq DOMAIN page[p].sizes
         /\ \A T : Weight(page[p].sizes, cand[p], T) \in Nat
         /\ encoded \in 0..EncodedCap /\ raw \in 0..RawCap /\ ledger \in Nat /\ windowVerdict \in WindowVerdicts
         /\ page[p].encoded \in Nat /\ page[p].raw \in Nat /\ page[p].resident \in Nat /\ page[p].next \in Nat
<1>1. /\ PageOK(page[p], cand[p]) /\ Scheduled(model, page[p], cand[p]) /\ page[p] \in PageRecords /\ cand[p] \in Seq(States)
      /\ DOMAIN page = Pages /\ DOMAIN cand = Pages /\ encoded \in 0..EncodedCap /\ raw \in 0..RawCap /\ windowVerdict \in WindowVerdicts
  BY DEF WindowInv
<1>2. page[p].sizes \in Seq(Nat) /\ DOMAIN cand[p] \subseteq DOMAIN page[p].sizes
  BY <1>1 DEF PageOK, PageRecords
<1>3. \A T : Weight(page[p].sizes, cand[p], T) \in Nat
  BY <1>1, <1>2, WeightType
<1>4. ledger \in Nat
  <2>1. CASE model = "classic"
    BY <2>1 DEF WindowInv
  <2>2. CASE model # "classic"
    <3> DEFINE w == [q \in Pages |-> Weight(page[q].sizes, cand[q], Carried)]
    <3>1. w \in [Pages -> Nat]
      <4> SUFFICES ASSUME NEW q \in Pages PROVE Weight(page[q].sizes, cand[q], Carried) \in Nat
        OBVIOUS
      <4>1. page[q].sizes \in Seq(Nat) /\ cand[q] \in Seq(States) /\ DOMAIN cand[q] \subseteq DOMAIN page[q].sizes
        BY DEF WindowInv, PageOK, PageRecords
      <4> QED BY <4>1, WeightType
    <3>2. ledger = SumFunction(w)
      BY <2>2 DEF WindowInv
    <3> HIDE DEF w
    <3>3. DOMAIN w = Pages /\ Amounts(w, Pages)
      BY <3>1, WindowLimits DEF Amounts
    <3>4. SumFunctionOnSet(w, Pages) \in Nat
      BY <3>3, SumType
    <3> QED BY <3>2, <3>3, <3>4 DEF SumFunction
  <2> QED BY <2>1, <2>2
<1>5. page[p].encoded \in Nat /\ page[p].raw \in Nat /\ page[p].resident \in Nat /\ page[p].next \in Nat
  BY <1>1 DEF PageRecords
<1> QED BY <1>1, <1>2, <1>3, <1>4, <1>5

\* The window fails, or only its deadline or verdict changes.
LEMMA WindowRests ==
  ASSUME WindowInv, UNCHANGED <<model, page, cand, encoded, raw, ledger, tripped>>, windowExpired' \in BOOLEAN, windowVerdict' \in WindowVerdicts
  PROVE  WindowInv'
BY DEF WindowInv

\* A page moves on and its candidates stay as they are.
LEMMA PageMoves ==
  ASSUME WindowInv, NEW p \in Pages, NEW x \in PagePlaces, x \in {"semantic", "done"} \/ page[p].pc \notin {"semantic", "done"},
         page' = [page EXCEPT ![p].pc = x], UNCHANGED <<model, cand, encoded, raw, ledger, tripped, windowExpired>>,
         windowVerdict' \in WindowVerdicts
  PROVE  WindowInv'
<1> DEFINE r == [page[p] EXCEPT !.pc = x]
           s == cand[p]
<1>1. /\ r \in PageRecords /\ r.pc = x /\ r.next = page[p].next /\ r.sizes = page[p].sizes /\ r.reserved = page[p].reserved
      /\ r.resident = page[p].resident /\ r.encoded = page[p].encoded /\ r.raw = page[p].raw
  BY PageIs DEF PageRecords
<1>2. page' = [page EXCEPT ![p] = r] /\ cand' = [cand EXCEPT ![p] = s]
  BY DEF WindowInv
<1> HIDE DEF r, s
<1>3. PageOK(page[p], s) /\ Scheduled(model, page[p], s)
  BY PageIs DEF s
<1>4. PageOK(r, s) /\ Scheduled(model, r, s)
  BY <1>1, <1>3 DEF PageOK, Scheduled
<1>5. /\ encoded' + page[p].encoded = encoded + r.encoded /\ encoded' \in 0..EncodedCap
      /\ raw + r.raw <= raw' + page[p].raw /\ raw' \in 0..RawCap /\ ledger' \in Nat
  BY <1>1, PageIs, WindowLimits
<1>6. ledger' + Weight(page[p].sizes, cand[p], Carried) = ledger + Weight(r.sizes, s, Carried)
  BY <1>1 DEF s
<1> QED BY <1>2, <1>4, <1>5, <1>6, PageBecomes

\* One candidate moves on, keeping its bytes.
LEMMA CandidateMoves ==
  ASSUME WindowInv, NEW p \in Pages, NEW i \in DOMAIN cand[p], NEW x \in States, cand' = [cand EXCEPT ![p][i] = x],
         <<cand[p][i], x>> \in {<<"cpu", "encode">>, <<"held", "wait">>, <<"wait", "http">>},
         x = "wait" => page[p].next \notin DOMAIN cand[p],
         UNCHANGED <<model, page, encoded, raw, ledger, tripped, windowExpired, windowVerdict>>
  PROVE  WindowInv'
<1> DEFINE s == cand[p]
           t == [s EXCEPT ![i] = x]
           r == page[p]
<1>1. page' = [page EXCEPT ![p] = r] /\ cand' = [cand EXCEPT ![p] = t]
  BY DEF WindowInv
<1>2. r.sizes \in Seq(Nat) /\ s \in Seq(States) /\ DOMAIN s \subseteq DOMAIN r.sizes /\ i \in DOMAIN s
  BY PageIs
<1>3. PageOK(r, s) /\ Scheduled(model, r, s)
  BY PageIs
<1>4. <<s[i], x>> \in {<<"cpu", "encode">>, <<"held", "wait">>, <<"wait", "http">>} /\ (x = "wait" => r.next \notin DOMAIN s)
  OBVIOUS
<1>5. t = [s EXCEPT ![i] = x]
  OBVIOUS
<1>6. Weight(page[p].sizes, cand[p], Carried) = Weight(r.sizes, s, Carried) /\ r.encoded = page[p].encoded /\ r.raw = page[p].raw
  OBVIOUS
<1> HIDE DEF r, s, t
<1>7. /\ t \in Seq(States) /\ DOMAIN t = DOMAIN s /\ t[i] = x /\ (\A j \in DOMAIN s : j # i => t[j] = s[j])
      /\ \A T : (s[i] \in T <=> x \in T) => Weight(r.sizes, t, T) = Weight(r.sizes, s, T)
  <2>1. t \in Seq(States) /\ DOMAIN t = DOMAIN s /\ t[i] = x /\ (\A j \in DOMAIN s : j # i => t[j] = s[j])
    BY <1>2, <1>5
  <2>2. ASSUME NEW T, s[i] \in T <=> x \in T PROVE Weight(r.sizes, t, T) = Weight(r.sizes, s, T)
    <3>1. Sized(r.sizes, s) /\ Replaced(s, t, i) /\ (s[i] \in T <=> t[i] \in T)
      BY <1>2, <2>1, <2>2 DEF Sized, Replaced
    <3> QED BY <3>1, WeightStays
  <2> QED BY <2>1, <2>2
<1>8. Weight(r.sizes, t, OnTheWay) = Weight(r.sizes, s, OnTheWay) /\ Weight(r.sizes, t, Carried) = Weight(r.sizes, s, Carried)
  <2>1. (s[i] \in OnTheWay <=> x \in OnTheWay) /\ (s[i] \in Carried <=> x \in Carried)
    BY <1>4 DEF OnTheWay, Carried
  <2> QED BY <1>7, <2>1
<1>9. PageOK(r, t)
  <2>1. r.reserved = 0 \/ Among(t, {"cpu", "encode"}) # {}
    <3>1. CASE r.reserved # 0
      <4>1. PICK j \in DOMAIN s : s[j] \in {"cpu", "encode"}
        BY <1>3, <3>1 DEF PageOK, Among
      <4>2. t[j] \in {"cpu", "encode"}
        BY <1>4, <1>7, <4>1
      <4> QED BY <1>7, <4>2 DEF Among
    <3> QED BY <3>1
  <2>2. r.pc \in {"semantic", "done"}
    <3>1. s # <<>>
      BY <1>2
    <3> QED BY <1>3, <3>1 DEF PageOK
  <2> QED BY <1>2, <1>3, <1>7, <1>8, <2>1, <2>2 DEF PageOK
<1>10. Scheduled(model, r, t)
  <2>1. ASSUME model = "classic", NEW j \in DOMAIN t, j >= r.next PROVE t[j] = "todo"
    <3>1. s[j] = "todo" /\ s[i] # "todo"
      BY <1>3, <1>4, <1>7, <2>1 DEF Scheduled
    <3> QED BY <1>7, <2>1, <3>1
  <2>2. ASSUME model # "classic", NEW j \in DOMAIN t PROVE j < r.next <=> t[j] \in Handled
    <3>1. j < r.next <=> s[j] \in Handled
      BY <1>3, <1>7, <2>2 DEF Scheduled
    <3>2. s[i] \in Handled <=> x \in Handled
      BY <1>4 DEF Handled, Carried, OnTheWay
    <3> QED BY <1>7, <2>2, <3>1, <3>2
  <2>3. ASSUME model # "classic", r.next \in DOMAIN t, NEW j \in DOMAIN t PROVE t[j] \notin {"wait", "http", "full", "empty"}
    <3>1. s[j] \notin {"wait", "http", "full", "empty"} /\ s[i] \notin {"wait", "http", "full", "empty"}
      BY <1>2, <1>3, <1>7, <2>3 DEF Scheduled
    <3>2. x = "encode"
      BY <1>4, <1>7, <2>3, <3>1
    <3> QED BY <1>7, <2>3, <3>1, <3>2
  <2> QED BY <1>3, <1>8, <2>1, <2>2, <2>3 DEF Scheduled
<1>11. /\ encoded' + page[p].encoded = encoded + r.encoded /\ encoded' \in 0..EncodedCap
       /\ raw + r.raw <= raw' + page[p].raw /\ raw' \in 0..RawCap /\ ledger' \in Nat /\ windowVerdict' \in WindowVerdicts
  BY <1>6, PageIs, WindowLimits
<1>12. ledger' + Weight(page[p].sizes, cand[p], Carried) = ledger + Weight(r.sizes, t, Carried)
  BY <1>6, <1>8
<1> QED BY <1>1, <1>9, <1>10, <1>11, <1>12, PageBecomes

\* What a candidate's move is to its page.
LEMMA CandidateReplaced ==
  ASSUME WindowInv, NEW p \in Pages, NEW i \in DOMAIN cand[p], NEW x \in States
  PROVE  /\ Sized(page[p].sizes, cand[p]) /\ Replaced(cand[p], [cand[p] EXCEPT ![i] = x], i)
         /\ [cand[p] EXCEPT ![i] = x][i] = x /\ page[p].sizes[i] \in Nat
<1>1. page[p].sizes \in Seq(Nat) /\ cand[p] \in Seq(States) /\ DOMAIN cand[p] \subseteq DOMAIN page[p].sizes
  BY PageIs
<1> QED BY <1>1 DEF Sized, Replaced

\* The layout picture is charged if it fits a request.
LEMMA LayoutEncodedKeeps == ASSUME WindowInv, NEW p \in Pages, LayoutEncoded(p) PROVE WindowInv'
<1>1. CASE FailWindow("LimitExceeded")
  BY <1>1, WindowRests DEF FailWindow, WindowVerdicts, WindowInv
<1>2. CASE ~ (encoded + page[p].layout > EncodedCap)
  <2> DEFINE x == IF page[p].layout > MaxRequest THEN "semantic" ELSE "layout_wait"
             sum == page[p].encoded + page[p].layout
             r == [page[p] EXCEPT !.encoded = sum, !.pc = x]
             s == cand[p]
  <2>1. /\ page[p].pc = "layout" /\ encoded' = encoded + page[p].layout /\ page' = [page EXCEPT ![p] = r]
        /\ UNCHANGED <<model, cand, raw, ledger, tripped, windowExpired, windowVerdict>>
    BY <1>2, PageIs DEF LayoutEncoded
  <2>2. x \in PagePlaces /\ page[p].layout \in Nat /\ sum \in Nat
    BY PageIs DEF PagePlaces, PageRecords
  <2>3. /\ r \in PageRecords /\ r.next = page[p].next /\ r.sizes = page[p].sizes /\ r.reserved = page[p].reserved
        /\ r.resident = page[p].resident /\ r.encoded = sum /\ r.raw = page[p].raw
    BY <2>2, PageIs DEF PageRecords
  <2>4. cand' = [cand EXCEPT ![p] = s]
    BY <2>1 DEF WindowInv
  <2>5. /\ encoded' + page[p].encoded = encoded + r.encoded /\ encoded' \in 0..EncodedCap
        /\ raw + r.raw <= raw' + page[p].raw /\ raw' \in 0..RawCap /\ ledger' \in Nat /\ windowVerdict' \in WindowVerdicts
    <3>1. /\ encoded \in 0..EncodedCap /\ EncodedCap \in Nat /\ raw \in 0..RawCap /\ RawCap \in Nat /\ ledger \in Nat
          /\ windowVerdict \in WindowVerdicts /\ page[p].encoded \in Nat /\ page[p].raw \in Nat
      BY PageIs, WindowLimits
    <3>2. encoded' + page[p].encoded = encoded + sum /\ encoded' \in 0..EncodedCap
      BY <1>2, <2>1, <2>2, <3>1
    <3>3. raw' = raw /\ raw + page[p].raw <= raw + page[p].raw
      BY <2>1, <3>1
    <3> QED BY <2>1, <2>3, <3>1, <3>2, <3>3
  <2>6. ledger' + Weight(page[p].sizes, cand[p], Carried) = ledger + Weight(r.sizes, s, Carried)
    BY <2>1, <2>3
  <2>7. PageOK(page[p], s) /\ Scheduled(model, page[p], s)
    BY PageIs
  <2> HIDE DEF r, s, x
  <2>8. PageOK(r, s) /\ Scheduled(model, r, s)
    BY <2>1, <2>3, <2>7 DEF PageOK, Scheduled
  <2> QED BY <2>1, <2>4, <2>5, <2>6, <2>8, PageBecomes
<1> QED BY <1>1, <1>2 DEF LayoutEncoded

\* The reply to the layout gives the page its crops.
LEMMA LayoutReplyKeeps == ASSUME WindowInv, NEW p \in Pages, NEW n \in RawSizes, LayoutReply(p, n) PROVE WindowInv'
<1>1. CASE FailWindow("LimitExceeded")
  BY <1>1, WindowRests DEF FailWindow, WindowVerdicts, WindowInv
<1>2. CASE ~ (raw + n > RawCap)
  <2> DEFINE r == [page[p] EXCEPT !.pc = "semantic", !.raw = n]
  <2>1. /\ page[p].pc = "layout_http" /\ raw' = raw + n /\ page' = [page EXCEPT ![p] = r]
        /\ UNCHANGED <<model, encoded, ledger, tripped, windowExpired, windowVerdict>>
    BY <1>2, PageIs DEF LayoutReply
  <2>2. PICK parsed \in BOOLEAN : cand' = [cand EXCEPT ![p] = IF parsed THEN [i \in DOMAIN page[p].sizes |-> "todo"] ELSE <<>>]
    BY <1>2 DEF LayoutReply
  <2> DEFINE s == IF parsed THEN [i \in DOMAIN page[p].sizes |-> "todo"] ELSE <<>>
  <2>3. n \in Nat /\ "semantic" \in PagePlaces
    BY WindowLimits DEF PagePlaces
  <2>4. /\ r \in PageRecords /\ r.next = page[p].next /\ r.sizes = page[p].sizes /\ r.reserved = page[p].reserved
        /\ r.resident = page[p].resident /\ r.encoded = page[p].encoded /\ r.raw = n /\ r.pc = "semantic"
    BY <2>3, PageIs DEF PageRecords
  <2>5. s \in Seq(States) /\ DOMAIN s \subseteq DOMAIN page[p].sizes /\ \A i \in DOMAIN s : s[i] = "todo"
    <3>1. page[p].sizes \in Seq(Nat)
      BY PageIs
    <3>2. CASE parsed
      <4>1. s = [i \in 1..Len(page[p].sizes) |-> "todo"] /\ Len(page[p].sizes) \in Nat
        BY <3>1, <3>2
      <4>2. "todo" \in States
        BY DEF States
      <4> QED BY <3>1, <4>1, <4>2
    <3>3. CASE ~parsed
      BY <3>3
    <3> QED BY <3>2, <3>3
  <2>6. PageOK(page[p], cand[p]) /\ page[p].next = 1 /\ cand[p] = <<>> /\ page[p].reserved = 0
    <3>1. PageOK(page[p], cand[p])
      BY PageIs
    <3>2. page[p].next = 1 /\ cand[p] = <<>>
      BY <2>1, <3>1 DEF PageOK
    <3>3. Among(cand[p], {"cpu", "encode"}) = {}
      BY <3>2 DEF Among
    <3> QED BY <3>1, <3>2, <3>3 DEF PageOK
  <2>7. Weight(page[p].sizes, cand[p], OnTheWay) = 0 /\ Weight(page[p].sizes, cand[p], Carried) = 0
    <3>1. Among(cand[p], OnTheWay) = {} /\ Among(cand[p], Carried) = {}
      BY <2>6 DEF Among
    <3> QED BY <3>1, WeightNothing
  <2>8. Weight(r.sizes, s, OnTheWay) = 0 /\ Weight(r.sizes, s, Carried) = 0
    <3>1. Among(s, OnTheWay) = {} /\ Among(s, Carried) = {}
      BY <2>5 DEF Among, OnTheWay, Carried
    <3> QED BY <3>1, WeightNothing
  <2>9. cand' = [cand EXCEPT ![p] = s]
    BY <2>2
  <2>10. /\ encoded' + page[p].encoded = encoded + r.encoded /\ encoded' \in 0..EncodedCap
         /\ raw + r.raw <= raw' + page[p].raw /\ raw' \in 0..RawCap /\ ledger' \in Nat /\ windowVerdict' \in WindowVerdicts
    BY <1>2, <2>1, <2>3, <2>4, PageIs, WindowLimits
  <2> HIDE DEF r, s
  <2>11. PageOK(r, s)
    BY <2>4, <2>5, <2>6, <2>7, <2>8 DEF PageOK
  <2>12. Scheduled(model, r, s)
    <3>1. \A i \in DOMAIN s : ~ (i < 1) /\ "todo" \notin Handled
      BY <2>5 DEF Handled, Carried, OnTheWay
    <3>2. 0 <= MaxBatch
      BY WindowLimits
    <3> QED BY <2>4, <2>5, <2>6, <2>8, <3>1, <3>2 DEF Scheduled
  <2> QED BY <2>1, <2>7, <2>8, <2>9, <2>10, <2>11, <2>12, PageBecomes
<1> QED BY <1>1, <1>2 DEF LayoutReply

\* The classic pipeline reserves room for one crop.
LEMMA StartEncoderKeeps == ASSUME WindowInv, NEW p \in Pages, StartEncoder(p) PROVE WindowInv'
<1> DEFINE i == page[p].next
           s == cand[p]
           t == [s EXCEPT ![i] = "cpu"]
           grown == page[p].resident + MaxRequest
           r == [page[p] EXCEPT !.next = i + 1, !.reserved = MaxRequest, !.resident = grown]
<1>1. /\ model = "classic" /\ page[p].pc = "semantic" /\ Among(s, {"cpu", "encode"}) = {} /\ i <= Len(s)
      /\ page[p].resident <= MaxBatch - MaxRequest
      /\ UNCHANGED <<model, encoded, raw, ledger, tripped, windowExpired, windowVerdict>>
  BY DEF StartEncoder, CanEncode, In, Among
<1>2. PageOK(page[p], s) /\ Scheduled(model, page[p], s) /\ s \in Seq(States)
  BY PageIs
<1>3. i \in Nat /\ i >= 1 /\ i \in DOMAIN s /\ i + 1 \in Nat
  BY <1>1, <1>2, PageIs DEF PageOK
<1>4. page[p].resident \in Nat /\ grown \in Nat /\ grown <= MaxBatch
  BY <1>1, PageIs, WindowLimits
<1>5. page' = [page EXCEPT ![p] = r] /\ cand' = [cand EXCEPT ![p] = t]
  BY PageIs DEF StartEncoder
<1>6. /\ r \in PageRecords /\ r.next = i + 1 /\ r.reserved = MaxRequest /\ r.resident = grown /\ r.sizes = page[p].sizes
      /\ r.encoded = page[p].encoded /\ r.raw = page[p].raw /\ r.pc = "semantic"
  BY <1>1, <1>3, <1>4, PageIs DEF PageRecords
<1>7. "cpu" \in States /\ s[i] = "todo" /\ "todo" \notin OnTheWay \cup Carried /\ "cpu" \notin OnTheWay \cup Carried
  <2>1. s[i] = "todo"
    BY <1>1, <1>2, <1>3 DEF Scheduled
  <2> QED BY <2>1 DEF States, OnTheWay, Carried
<1>8. /\ t \in Seq(States) /\ DOMAIN t = DOMAIN s /\ t[i] = "cpu" /\ (\A j \in DOMAIN s : j # i => t[j] = s[j])
      /\ \A T : (s[i] \in T <=> "cpu" \in T) => Weight(page[p].sizes, t, T) = Weight(page[p].sizes, s, T)
  <2>1. Sized(page[p].sizes, s) /\ Replaced(s, t, i) /\ t[i] = "cpu"
    BY <1>3, <1>7, CandidateReplaced
  <2> HIDE DEF t, s, i
  <2>2. \A T : (s[i] \in T <=> "cpu" \in T) => Weight(page[p].sizes, t, T) = Weight(page[p].sizes, s, T)
    BY <2>1, WeightStays
  <2> QED BY <2>1, <2>2 DEF Replaced
<1>9. Weight(r.sizes, t, OnTheWay) = Weight(page[p].sizes, s, OnTheWay) /\ Weight(r.sizes, t, Carried) = Weight(page[p].sizes, s, Carried)
  BY <1>6, <1>7, <1>8
<1>10. /\ encoded' + page[p].encoded = encoded + r.encoded /\ encoded' \in 0..EncodedCap
       /\ raw + r.raw <= raw' + page[p].raw /\ raw' \in 0..RawCap /\ ledger' \in Nat /\ windowVerdict' \in WindowVerdicts
  BY <1>1, <1>6, PageIs, WindowLimits
<1>11. page[p].reserved = 0 /\ page[p].resident = Weight(page[p].sizes, s, OnTheWay) /\ DOMAIN s \subseteq DOMAIN page[p].sizes
  <2>1. page[p].reserved = 0 /\ page[p].resident = page[p].reserved + Weight(page[p].sizes, s, OnTheWay) /\ DOMAIN s \subseteq DOMAIN page[p].sizes
    BY <1>1, <1>2 DEF PageOK
  <2>2. Weight(page[p].sizes, s, OnTheWay) \in Nat
    BY PageIs
  <2> QED BY <2>1, <2>2
<1>12. grown = MaxRequest + Weight(page[p].sizes, s, OnTheWay)
  BY <1>4, <1>11, WindowLimits
<1> HIDE DEF r, s, t, i, grown
<1>13. PageOK(r, t)
  <2>1. Among(t, {"cpu", "encode"}) # {}
    BY <1>3, <1>8 DEF Among
  <2>2. r.next >= 1
    BY <1>3, <1>6
  <2> QED BY <1>4, <1>6, <1>8, <1>9, <1>11, <1>12, <2>1, <2>2 DEF PageOK
<1>14. Scheduled(model, r, t)
  <2>1. ASSUME NEW j \in DOMAIN t, j >= i + 1 PROVE t[j] = "todo"
    <3>1. j \in Nat
      BY <1>8
    <3>2. j # i /\ j >= page[p].next
      BY <1>3, <2>1, <3>1 DEF i
    <3> QED BY <1>1, <1>2, <1>8, <3>2 DEF Scheduled
  <2> QED BY <1>1, <1>6, <2>1 DEF Scheduled
<1> QED BY <1>1, <1>5, <1>10, <1>13, <1>14, PageBecomes

\* The two-phase pipeline starts a chunk.
LEMMA StartChunkKeeps == ASSUME WindowInv, NEW p \in Pages, StartChunk(p) PROVE WindowInv'
<1> DEFINE s == cand[p]
           t == [i \in DOMAIN s |-> IF i \in EncodeChunk(p) THEN "cpu" ELSE s[i]]
           r == page[p]
<1>1. /\ model # "classic" /\ r.pc = "semantic" /\ \A i \in EncodeChunk(p) : s[i] = "todo"
      /\ UNCHANGED <<model, page, encoded, raw, ledger, tripped, windowExpired, windowVerdict>>
  BY DEF StartChunk
<1>2. PageOK(r, s) /\ Scheduled(model, r, s) /\ s \in Seq(States)
  BY PageIs
<1>3. page' = [page EXCEPT ![p] = r] /\ cand' = [cand EXCEPT ![p] = t]
  BY <1>1 DEF StartChunk, WindowInv
<1>4. t \in Seq(States) /\ DOMAIN t = DOMAIN s
  <2>1. t = [i \in 1..Len(s) |-> IF i \in EncodeChunk(p) THEN "cpu" ELSE s[i]] /\ Len(s) \in Nat /\ DOMAIN s = 1..Len(s)
    BY <1>2
  <2>2. \A i \in 1..Len(s) : (IF i \in EncodeChunk(p) THEN "cpu" ELSE s[i]) \in States
    BY <1>2 DEF States
  <2> QED BY <2>1, <2>2
<1>5. ASSUME NEW i \in DOMAIN s PROVE t[i] = s[i] \/ (t[i] = "cpu" /\ s[i] = "todo")
  <2>1. t[i] = IF i \in EncodeChunk(p) THEN "cpu" ELSE s[i]
    OBVIOUS
  <2>2. i \in EncodeChunk(p) => s[i] = "todo"
    BY <1>1
  <2> QED BY <2>1, <2>2
<1>6. /\ encoded' + page[p].encoded = encoded + r.encoded /\ encoded' \in 0..EncodedCap
      /\ raw + r.raw <= raw' + page[p].raw /\ raw' \in 0..RawCap /\ ledger' \in Nat /\ windowVerdict' \in WindowVerdicts
  BY <1>1, PageIs, WindowLimits
<1>7. Weight(page[p].sizes, cand[p], Carried) = Weight(r.sizes, s, Carried)
  OBVIOUS
<1> HIDE DEF r, s, t
<1>8. Among(t, OnTheWay) = Among(s, OnTheWay) /\ Among(t, Carried) = Among(s, Carried)
  BY <1>4, <1>5 DEF Among, OnTheWay, Carried
<1>9. Weight(r.sizes, t, OnTheWay) = Weight(r.sizes, s, OnTheWay) /\ Weight(r.sizes, t, Carried) = Weight(r.sizes, s, Carried)
  BY <1>8 DEF Weight
<1>10. r.reserved = 0
  BY <1>1, <1>2 DEF Scheduled
<1>11. PageOK(r, t)
  BY <1>1, <1>2, <1>4, <1>9, <1>10 DEF PageOK
<1>12. Scheduled(model, r, t)
  <2>1. \A j \in DOMAIN t : j < r.next <=> t[j] \in Handled
    BY <1>1, <1>2, <1>4, <1>5 DEF Scheduled, Handled, Carried, OnTheWay
  <2>2. r.next \in DOMAIN t => \A j \in DOMAIN t : t[j] \notin {"wait", "http", "full", "empty"}
    BY <1>1, <1>2, <1>4, <1>5 DEF Scheduled
  <2>3. Weight(r.sizes, t, Carried) <= MaxBatch
    BY <1>1, <1>2, <1>9 DEF Scheduled
  <2> QED BY <1>1, <1>10, <2>1, <2>2, <2>3 DEF Scheduled
<1>13. ledger' + Weight(page[p].sizes, cand[p], Carried) = ledger + Weight(r.sizes, t, Carried)
  BY <1>1, <1>7, <1>9
<1> QED BY <1>1, <1>3, <1>6, <1>11, <1>12, <1>13, PageBecomes

\* A reply frees the room of its crop.
LEMMA CandidateReplyKeeps ==
  ASSUME WindowInv, NEW p \in Pages, NEW i \in DOMAIN cand[p], NEW n \in RawSizes, NEW x \in {"full", "empty"}, CandidateReply(p, i, n, x)
  PROVE  WindowInv'
<1>1. CASE FailWindow("LimitExceeded")
  BY <1>1, WindowRests DEF FailWindow, WindowVerdicts, WindowInv
<1>2. CASE ~ (raw + n > RawCap)
  <2> DEFINE s == cand[p]
             z == page[p].sizes
             t == [s EXCEPT ![i] = x]
             rawTold == page[p].raw + (IF x = "full" THEN n ELSE 0)
             left == page[p].resident - z[i]
             r == [page[p] EXCEPT !.resident = left, !.raw = rawTold]
  <2>1. /\ s[i] = "http" /\ raw' = raw + n /\ page' = [page EXCEPT ![p] = r] /\ cand' = [cand EXCEPT ![p] = t]
        /\ UNCHANGED <<model, encoded, ledger, tripped, windowExpired, windowVerdict>>
    BY <1>2, PageIs DEF CandidateReply, Size
  <2>2. PageOK(page[p], s) /\ Scheduled(model, page[p], s) /\ s \in Seq(States) /\ z = page[p].sizes /\ i \in DOMAIN s
    BY PageIs
  <2>3. x \in States /\ x \notin OnTheWay /\ x \in Carried /\ "http" \in OnTheWay /\ "http" \in Carried
    BY DEF States, OnTheWay, Carried
  <2>4. /\ t \in Seq(States) /\ DOMAIN t = DOMAIN s /\ t[i] = x /\ (\A j \in DOMAIN s : j # i => t[j] = s[j]) /\ z[i] \in Nat
        /\ Weight(z, s, OnTheWay) = Weight(z, t, OnTheWay) + z[i] /\ Weight(z, t, Carried) = Weight(z, s, Carried)
        /\ Weight(z, s, OnTheWay) \in Nat /\ Weight(z, t, OnTheWay) \in Nat
    <3>1. Sized(z, s) /\ Replaced(s, t, i) /\ t[i] = x /\ z[i] \in Nat
      BY <2>3, CandidateReplaced
    <3> HIDE DEF t, s, z
    <3>2. s[i] \in OnTheWay /\ t[i] \notin OnTheWay /\ s[i] \in Carried /\ t[i] \in Carried
      BY <2>1, <2>3, <3>1
    <3>3. Weight(z, s, OnTheWay) = z[i] + Weight(z, t, OnTheWay)
      <4>1. Sized(z, s) /\ Replaced(s, t, i)
        BY <3>1
      <4>2. s[i] \in OnTheWay /\ t[i] \notin OnTheWay => Weight(z, s, OnTheWay) = z[i] + Weight(z, t, OnTheWay)
        BY ONLY <4>1, WeightDrops
      <4> QED BY ONLY <3>2, <4>2
    <3>4. Weight(z, t, Carried) = Weight(z, s, Carried)
      BY ONLY <3>1, <3>2, WeightStays
    <3>5. Sized(z, t)
      BY <3>1 DEF Sized, Replaced
    <3>6. Weight(z, s, OnTheWay) \in Nat /\ Weight(z, t, OnTheWay) \in Nat
      BY ONLY <3>1, <3>5, WeightIs
    <3>7. Weight(z, s, OnTheWay) = Weight(z, t, OnTheWay) + z[i]
      BY <3>1, <3>3, <3>6
    <3> QED BY <3>1, <3>4, <3>6, <3>7 DEF Replaced
  <2>5. n \in Nat /\ rawTold \in Nat /\ rawTold <= page[p].raw + n /\ page[p].raw \in Nat
    BY PageIs, WindowLimits
  <2>6. /\ page[p].resident = page[p].reserved + Weight(z, s, OnTheWay) /\ page[p].resident <= MaxBatch /\ page[p].reserved \in Nat
        /\ page[p].resident \in Nat
    <3>1. page[p] \in PageRecords /\ MaxRequest \in Nat
      BY PageIs, WindowLimits
    <3> QED BY <2>2, <3>1 DEF PageOK, PageRecords
  <2>7. left = page[p].reserved + Weight(z, t, OnTheWay) /\ left \in Nat /\ left <= MaxBatch
    <3> DEFINE a == Weight(z, s, OnTheWay)
               b == Weight(z, t, OnTheWay)
               c == page[p].reserved
               d == page[p].resident
               e == z[i]
    <3>1. d = c + a /\ a = b + e /\ d <= MaxBatch /\ a \in Nat /\ b \in Nat /\ c \in Nat /\ d \in Nat /\ e \in Nat /\ MaxBatch \in Nat
      BY <2>4, <2>6, WindowLimits
    <3>2. left = d - e
      OBVIOUS
    <3> HIDE DEF a, b, c, d, e, left
    <3>3. left = c + b /\ left \in Nat /\ left <= MaxBatch
      BY <3>1, <3>2
    <3> QED BY <3>3 DEF b, c
  <2>8. /\ r \in PageRecords /\ r.resident = left /\ r.raw = rawTold /\ r.next = page[p].next /\ r.pc = page[p].pc
        /\ r.reserved = page[p].reserved /\ r.sizes = z /\ r.encoded = page[p].encoded
    BY <2>5, <2>7, PageIs DEF PageRecords
  <2>9. encoded' + page[p].encoded = encoded + r.encoded /\ encoded' \in 0..EncodedCap /\ ledger' \in Nat /\ windowVerdict' \in WindowVerdicts
    BY <2>1, <2>8, PageIs
  <2>10. raw + r.raw <= raw' + page[p].raw /\ raw' \in 0..RawCap
    <3>1. raw \in 0..RawCap /\ RawCap \in Nat
      BY PageIs, WindowLimits
    <3> HIDE DEF rawTold
    <3>2. raw + rawTold <= (raw + n) + page[p].raw /\ raw + n \in 0..RawCap
      BY <1>2, <2>5, <3>1
    <3> QED BY <2>1, <2>8, <3>2
  <2>11. ledger' + Weight(page[p].sizes, cand[p], Carried) = ledger + Weight(r.sizes, t, Carried)
    BY <2>1, <2>4, <2>8
  <2> HIDE DEF r, s, t, z, rawTold, left
  <2>12. PageOK(r, t)
    <3>1. r.reserved = 0 \/ Among(t, {"cpu", "encode"}) # {}
      <4>1. CASE r.reserved # 0
        <5>1. PICK j \in DOMAIN s : s[j] \in {"cpu", "encode"}
          BY <2>2, <2>8, <4>1 DEF PageOK, Among
        <5>2. t[j] \in {"cpu", "encode"}
          BY <2>1, <2>4, <5>1
        <5> QED BY <2>4, <5>2 DEF Among
      <4> QED BY <4>1
    <3>2. r.pc \in {"semantic", "done"} /\ r.next >= 1 /\ DOMAIN t \subseteq DOMAIN r.sizes
      <4>1. s # <<>>
        BY <2>2
      <4> QED BY <2>2, <2>4, <2>8, <4>1 DEF PageOK
    <3> QED BY <2>4, <2>7, <2>8, <3>1, <3>2 DEF PageOK
  <2>13. Scheduled(model, r, t)
    <3>1. ASSUME model = "classic", NEW j \in DOMAIN t, j >= r.next PROVE t[j] = "todo"
      <4>1. s[j] = "todo"
        BY <2>2, <2>4, <2>8, <3>1 DEF Scheduled
      <4> QED BY <2>1, <2>4, <3>1, <4>1
    <3>2. ASSUME model # "classic", NEW j \in DOMAIN t PROVE j < r.next <=> t[j] \in Handled
      <4>1. j < r.next <=> s[j] \in Handled
        BY <2>2, <2>4, <2>8, <3>2 DEF Scheduled
      <4>2. s[i] \in Handled /\ t[i] \in Handled
        BY <2>1, <2>3, <2>4 DEF Handled
      <4> QED BY <2>4, <3>2, <4>1, <4>2
    <3>3. ASSUME model # "classic" PROVE r.next \notin DOMAIN t
      BY <2>1, <2>2, <2>4, <2>8, <3>3 DEF Scheduled
    <3>4. model # "classic" => r.reserved = 0 /\ Weight(r.sizes, t, Carried) <= MaxBatch
      BY <2>2, <2>4, <2>8 DEF Scheduled, z
    <3> QED BY <3>1, <3>2, <3>3, <3>4 DEF Scheduled
  <2> QED BY <2>1, <2>9, <2>10, <2>11, <2>12, <2>13, PageBecomes
<1> QED BY <1>1, <1>2 DEF CandidateReply

\* The numbers of a page.
LEMMA PageNumbers ==
  ASSUME WindowInv, NEW p \in Pages
  PROVE  /\ page[p].reserved \in Nat /\ page[p].resident \in Nat /\ page[p].encoded \in Nat /\ page[p].raw \in Nat /\ page[p].next \in Nat
         /\ encoded \in Nat /\ encoded <= EncodedCap /\ raw \in Nat /\ raw <= RawCap /\ ledger \in Nat
         /\ EncodedCap \in Nat /\ RawCap \in Nat /\ MaxBatch \in Nat /\ MaxRequest \in Nat /\ page[p].resident <= MaxBatch
<1>1. page[p] \in PageRecords /\ page[p].resident <= MaxBatch /\ MaxRequest \in Nat
  BY PageIs, WindowLimits DEF PageOK
<1>2. page[p].reserved \in Nat
  BY <1>1 DEF PageRecords
<1>3. encoded \in 0..EncodedCap /\ raw \in 0..RawCap /\ EncodedCap \in Nat /\ RawCap \in Nat
  BY PageIs, WindowLimits
<1>4. encoded \in Nat /\ encoded <= EncodedCap /\ raw \in Nat /\ raw <= RawCap
  BY <1>3
<1> QED BY <1>1, <1>2, <1>3, <1>4, PageIs, WindowLimits

\* The classic encoder's candidate is settled one way or the other.
LEMMA EncodedSettles ==
  ASSUME WindowInv, NEW p \in Pages, NEW i \in DOMAIN cand[p], NEW x \in {"capped", "wait"}, NEW more \in Nat, NEW kept,
         model = "classic", cand[p][i] = "encode", kept = page[p].resident - page[p].reserved,
         more = IF x = "wait" THEN page[p].sizes[i] ELSE 0, kept + more <= MaxBatch, encoded + more <= EncodedCap,
         cand' = [cand EXCEPT ![p][i] = x],
         page' = [page EXCEPT ![p].resident = kept + more, ![p].reserved = 0, ![p].encoded = @ + more],
         encoded' = encoded + more, UNCHANGED <<model, raw, ledger, tripped, windowExpired, windowVerdict>>
  PROVE  WindowInv'
<1> DEFINE s == cand[p]
           z == page[p].sizes
           t == [s EXCEPT ![i] = x]
           grown == kept + more
           sum == page[p].encoded + more
           r == [page[p] EXCEPT !.resident = grown, !.reserved = 0, !.encoded = sum]
<1>1. page' = [page EXCEPT ![p] = r] /\ cand' = [cand EXCEPT ![p] = t]
  BY PageIs
<1>2. PageOK(page[p], s) /\ Scheduled(model, page[p], s) /\ s \in Seq(States) /\ i \in DOMAIN s
  BY PageIs
<1>3. x \in States /\ "encode" \notin OnTheWay /\ "capped" \notin OnTheWay /\ "wait" \in OnTheWay
  BY DEF States, OnTheWay
<1>4. kept = Weight(z, s, OnTheWay) /\ Weight(z, s, OnTheWay) \in Nat
  <2>1. page[p].resident = page[p].reserved + Weight(z, s, OnTheWay)
    BY <1>2 DEF PageOK
  <2>2. page[p].reserved \in Nat /\ page[p].resident \in Nat /\ Weight(z, s, OnTheWay) \in Nat
    <3>1. page[p].reserved \in Nat /\ page[p].resident \in Nat
      BY PageNumbers
    <3> QED BY <3>1, PageIs
  <2> QED BY <2>1, <2>2
<1>5. Sized(z, s) /\ Replaced(s, t, i) /\ t[i] = x /\ z[i] \in Nat
  BY <1>3, CandidateReplaced
<1>6. grown \in Nat /\ sum \in Nat /\ encoded + more \in 0..EncodedCap /\ (encoded + more) + page[p].encoded = encoded + sum
  <2>1. page[p].encoded \in Nat /\ encoded \in Nat /\ EncodedCap \in Nat /\ kept \in Nat
    BY <1>4, PageNumbers
  <2> QED BY <2>1
<1>7. /\ r \in PageRecords /\ r.resident = grown /\ r.reserved = 0 /\ r.encoded = sum /\ r.raw = page[p].raw /\ r.next = page[p].next
      /\ r.pc = page[p].pc /\ r.sizes = z
  BY <1>6, PageIs DEF PageRecords
<1>8. grown <= MaxBatch /\ page[p].raw \in Nat /\ raw \in 0..RawCap /\ RawCap \in Nat /\ ledger \in Nat /\ windowVerdict \in WindowVerdicts
  BY PageIs, WindowLimits
<1>9. grown = Weight(z, t, OnTheWay)
  <2> HIDE DEF s, t, z
  <2>1. CASE x = "capped"
    <3>1. s[i] \notin OnTheWay /\ t[i] \notin OnTheWay /\ more = 0 /\ grown = kept
      BY <1>3, <1>4, <1>5, <2>1 DEF s
    <3>2. Weight(z, t, OnTheWay) = Weight(z, s, OnTheWay)
      BY <1>5, <3>1, WeightStays
    <3> QED BY <1>4, <3>1, <3>2
  <2>2. CASE x = "wait"
    <3>1. s[i] \notin OnTheWay /\ t[i] \in OnTheWay /\ more = z[i]
      BY <1>3, <1>5, <2>2 DEF s, z
    <3>2. Sized(z, s) /\ Replaced(s, t, i)
      BY <1>5
    <3>3. s[i] \notin OnTheWay /\ t[i] \in OnTheWay => Weight(z, t, OnTheWay) = z[i] + Weight(z, s, OnTheWay)
      BY ONLY <3>2, WeightGains
    <3>4. Weight(z, t, OnTheWay) = z[i] + Weight(z, s, OnTheWay)
      BY ONLY <3>1, <3>3
    <3> QED BY <1>4, <1>5, <3>1, <3>4
  <2> QED BY <2>1, <2>2
<1> HIDE DEF s, t, z, r, grown, sum
<1>10. PageOK(r, t)
  <2>1. r.pc \in {"semantic", "done"} /\ r.next >= 1 /\ DOMAIN t \subseteq DOMAIN r.sizes /\ t \in Seq(States)
    <3>1. s # <<>>
      BY <1>2
    <3> QED BY <1>2, <1>5, <1>7, <3>1 DEF PageOK, Replaced, Sized
  <2>2. r.resident = r.reserved + Weight(r.sizes, t, OnTheWay)
    BY <1>6, <1>7, <1>9
  <2> QED BY <1>7, <1>8, <2>1, <2>2 DEF PageOK
<1>11. Scheduled(model, r, t)
  <2>1. ASSUME NEW j \in DOMAIN t, j >= r.next PROVE t[j] = "todo"
    <3>1. j \in DOMAIN s /\ s[j] = "todo"
      BY <1>2, <1>5, <1>7, <2>1 DEF Scheduled, Replaced
    <3>2. j # i
      BY <3>1 DEF s
    <3> QED BY <1>5, <3>1, <3>2 DEF Replaced
  <2> QED BY <2>1 DEF Scheduled
<1>12. /\ encoded' + page[p].encoded = encoded + r.encoded /\ encoded' \in 0..EncodedCap
       /\ raw + r.raw <= raw' + page[p].raw /\ raw' \in 0..RawCap /\ ledger' \in Nat /\ windowVerdict' \in WindowVerdicts
  BY <1>6, <1>7, <1>8
<1> QED BY <1>1, <1>10, <1>11, <1>12, PageBecomes

\* What was reserved for a crop becomes what it is.
LEMMA EncodedClassicKeeps == ASSUME WindowInv, NEW p \in Pages, NEW i \in DOMAIN cand[p], EncodedClassic(p, i) PROVE WindowInv'
<1> DEFINE kept == page[p].resident - page[p].reserved
           bytes == page[p].sizes[i]
<1>1. model = "classic" /\ cand[p][i] = "encode" /\ UNCHANGED <<model, raw, ledger, tripped, windowExpired>>
  BY DEF EncodedClassic
<1>2. bytes \in Nat /\ encoded \in 0..EncodedCap /\ EncodedCap \in Nat /\ kept \in Nat /\ kept <= MaxBatch /\ page[p].encoded \in Nat /\ MaxBatch \in Nat
  <2>1. PageOK(page[p], cand[p]) /\ page[p].sizes \in Seq(Nat) /\ DOMAIN cand[p] \subseteq DOMAIN page[p].sizes
    BY PageIs
  <2>2. page[p].reserved \in Nat /\ page[p].resident \in Nat /\ Weight(page[p].sizes, cand[p], OnTheWay) \in Nat
    <3>1. page[p].reserved \in Nat /\ page[p].resident \in Nat
      BY PageNumbers
    <3> QED BY <3>1, PageIs
  <2>3. page[p].resident = page[p].reserved + Weight(page[p].sizes, cand[p], OnTheWay) /\ page[p].resident <= MaxBatch
    BY <2>1 DEF PageOK
  <2>4. bytes \in Nat
    BY <2>1
  <2>5. kept \in Nat /\ kept <= MaxBatch
    <3> DEFINE a == page[p].resident
               c == page[p].reserved
               d == Weight(page[p].sizes, cand[p], OnTheWay)
    <3>1. a \in Nat /\ c \in Nat /\ d \in Nat /\ a = c + d /\ a <= MaxBatch /\ MaxBatch \in Nat /\ kept = a - c
      BY <2>2, <2>3, WindowLimits
    <3> HIDE DEF a, c, d, kept
    <3> QED BY <3>1
  <2> HIDE DEF kept, bytes
  <2>6. encoded \in 0..EncodedCap /\ EncodedCap \in Nat /\ page[p].encoded \in Nat /\ MaxBatch \in Nat
    BY PageIs, WindowLimits
  <2> QED BY <2>4, <2>5, <2>6
<1>3. CASE Capped(bytes, kept) /\ cand' = [cand EXCEPT ![p][i] = "capped"]
           /\ page' = [page EXCEPT ![p].resident = kept, ![p].reserved = 0] /\ UNCHANGED <<encoded, windowVerdict>>
  <2>1. 0 = IF "capped" = "wait" THEN bytes ELSE 0
    OBVIOUS
  <2>2. kept + 0 <= MaxBatch /\ encoded + 0 <= EncodedCap /\ encoded' = encoded + 0 /\ kept + 0 = kept /\ page[p].encoded + 0 = page[p].encoded
    BY <1>2, <1>3
  <2>3. page' = [page EXCEPT ![p].resident = kept + 0, ![p].reserved = 0, ![p].encoded = @ + 0]
    <3>1. page \in [Pages -> PageRecords]
      BY DEF WindowInv
    <3> HIDE DEF kept
    <3>2. [page[p] EXCEPT !.resident = kept, !.reserved = 0] = [page[p] EXCEPT !.resident = kept, !.reserved = 0, !.encoded = page[p].encoded]
      BY <3>1 DEF PageRecords
    <3> QED BY <1>3, <2>2, <3>1, <3>2 DEF kept
  <2> QED BY <1>1, <1>3, <2>1, <2>2, <2>3, EncodedSettles
<1>4. CASE windowVerdict' = "LimitExceeded" /\ UNCHANGED <<page, cand, encoded>>
  BY <1>1, <1>4, WindowRests DEF WindowVerdicts, WindowInv
<1>5. CASE /\ ~Capped(bytes, kept) /\ ~ (encoded + bytes > EncodedCap) /\ cand' = [cand EXCEPT ![p][i] = "wait"]
           /\ encoded' = encoded + bytes /\ page' = [page EXCEPT ![p].resident = kept + bytes, ![p].reserved = 0, ![p].encoded = @ + bytes]
           /\ UNCHANGED windowVerdict
  <2>1. bytes = IF "wait" = "wait" THEN bytes ELSE 0
    OBVIOUS
  <2>2. kept + bytes <= MaxBatch /\ encoded + bytes <= EncodedCap
    BY <1>2, <1>5 DEF Capped
  <2> QED BY <1>1, <1>2, <1>5, <2>1, <2>2, EncodedSettles
<1> QED BY <1>3, <1>4, <1>5 DEF EncodedClassic, Size

-----------------------------------------------------------------------------
(* A chunk of the two-phase scheduler: the loop over its candidates, one   *)
(* after the other, is a plan after every number of them.                  *)
RetainStart(p, states) ==
    [cand |-> states, resident |-> page[p].resident, encoded |-> encoded,
     mine |-> page[p].encoded, ledger |-> ledger, tripped |-> FALSE, verdict |-> "run"]
RetainSteps(f, p, states, N) ==
    f = [n \in 0..N |-> IF n = 0 THEN RetainStart(p, states) ELSE RetainOne(p, page[p].next + n - 1, f[n - 1])]

\* What a chunk retains is defined after each of its crops.
LEMMA RetainExists ==
  ASSUME NEW p, NEW states, NEW N \in Nat
  PROVE  \E f : RetainSteps(f, p, states, N)
<1> DEFINE B == {m \in 0..N : ~\E f : RetainSteps(f, p, states, m)}
           Val(g, n) == IF n = 0 THEN RetainStart(p, states) ELSE RetainOne(p, page[p].next + n - 1, g[n - 1])
<1> SUFFICES ASSUME B # {} PROVE FALSE
  OBVIOUS
<1>1. PICK m \in B : \A y \in B : m <= y
  <2>1. B \in SUBSET (0..N)
    OBVIOUS
  <2> HIDE DEF B
  <2> QED BY <2>1, LeastNumber
<1>2. m \in Nat
  OBVIOUS
<1>3. CASE m = 0
  <2> DEFINE f == [n \in 0..0 |-> RetainStart(p, states)]
  <2>1. \A n \in 0..0 : n = 0
    OBVIOUS
  <2>2. f = [n \in 0..0 |-> Val(f, n)]
    BY <2>1
  <2>3. RetainSteps(f, p, states, m)
    BY <1>3, <2>2 DEF RetainSteps
  <2> QED BY <2>3
<1>4. CASE m # 0
  <2>1. m - 1 \in 0..N /\ m - 1 < m
    BY <1>2, <1>4
  <2>2. m - 1 \notin B
    BY <1>1, <1>2, <2>1
  <2>3. PICK f : RetainSteps(f, p, states, m - 1)
    BY <2>1, <2>2
  <2> DEFINE last == RetainOne(p, page[p].next + m - 1, f[m - 1])
             g == [n \in 0..m |-> IF n = m THEN last ELSE f[n]]
  <2>4. f = [n \in 0..(m - 1) |-> Val(f, n)]
    BY <2>3 DEF RetainSteps
  <2>5. \A n \in 0..(m - 1) : f[n] = Val(f, n)
    BY <2>4
  <2>6. ASSUME NEW n \in 0..m PROVE g[n] = Val(g, n)
    <3>1. CASE n = m
      <4>1. g[m - 1] = f[m - 1] /\ n # 0
        BY <1>2, <1>4, <3>1
      <4>2. g[n] = last
        BY <3>1
      <4> QED BY <3>1, <4>1, <4>2
    <3>2. CASE n # m /\ n # 0
      <4>1. n \in 0..(m - 1) /\ n - 1 \in 0..m /\ n - 1 # m
        BY <1>2, <3>2
      <4>2. g[n] = f[n] /\ g[n - 1] = f[n - 1]
        BY <3>2, <4>1
      <4>3. f[n] = Val(f, n)
        BY <2>5, <4>1
      <4> HIDE DEF g
      <4> QED BY <3>2, <4>2, <4>3
    <3>3. CASE n # m /\ n = 0
      <4>1. n \in 0..(m - 1) /\ g[n] = f[n]
        BY <1>2, <3>3
      <4>2. f[n] = Val(f, n)
        BY <2>5, <4>1
      <4> HIDE DEF g
      <4> QED BY <3>3, <4>1, <4>2
    <3> QED BY <3>1, <3>2, <3>3
  <2>7. g = [n \in 0..m |-> g[n]]
    OBVIOUS
  <2> HIDE DEF g
  <2>8. g = [n \in 0..m |-> Val(g, n)]
    BY <2>6, <2>7
  <2>9. RetainSteps(g, p, states, m)
    BY <2>8 DEF RetainSteps
  <2> QED BY <2>9
<1> QED BY <1>3, <1>4

\* What is true after n candidates of the chunk.
Chunked == [cand : Seq(States), resident : Nat, encoded : Nat, mine : Nat, ledger : Nat, tripped : {FALSE}, verdict : {"run", "LimitExceeded"}]
Retained(acc, z, states, start, n, rest, paid, sum) ==
    /\ acc \in Chunked
    /\ acc.verdict = "run" =>
          /\ DOMAIN acc.cand = DOMAIN states
          /\ \A j \in DOMAIN states : IF start <= j /\ j < start + n THEN acc.cand[j] \in {"held", "capped"} ELSE acc.cand[j] = states[j]
          /\ acc.resident = Weight(z, acc.cand, OnTheWay) /\ acc.resident <= MaxBatch /\ acc.ledger = rest + acc.resident
          /\ acc.encoded + paid = sum + acc.mine /\ acc.encoded <= EncodedCap

Roomy(rest) == rest + MaxBatch <= MaxBatch * Cardinality(Pages)

\* One more crop of a chunk is retained.
LEMMA RetainOneKeeps ==
  ASSUME NEW p, NEW acc, NEW states \in Seq(States), NEW start \in Nat, NEW n \in Nat, NEW rest \in Nat, NEW paid \in Nat, NEW sum \in Nat,
         page[p].sizes \in Seq(Nat), DOMAIN states \subseteq DOMAIN page[p].sizes,
         Retained(acc, page[p].sizes, states, start, n, rest, paid, sum),
         start + n \in DOMAIN states, states[start + n] = "encoded",
         Roomy(rest)
  PROVE  Retained(RetainOne(p, start + n, acc), page[p].sizes, states, start, n + 1, rest, paid, sum)
<1> DEFINE z == page[p].sizes
           i == start + n
           b == z[i]
           later == RetainOne(p, i, acc)
<1>9. z \in Seq(Nat) /\ DOMAIN states \subseteq DOMAIN z /\ i \in DOMAIN states /\ states[i] = "encoded"
  OBVIOUS
<1>1. i \in Nat /\ b \in Nat /\ MaxBatch \in Nat /\ EncodedCap \in Nat /\ MaxRequest \in Nat
  <2>1. z \in Seq(Nat) /\ DOMAIN states \subseteq DOMAIN z /\ i \in DOMAIN states /\ states[i] = "encoded"
    OBVIOUS
  <2>2. i \in Nat
    OBVIOUS
  <2>3. b \in Nat
    <3>1. i \in DOMAIN z
      BY <2>1
    <3> HIDE DEF z, i
    <3> QED BY ONLY <2>1, <3>1 DEF b
  <2> QED BY <2>1, <2>2, <2>3, WindowLimits
<1>2. acc \in Chunked /\ Size(p, i) = b
  BY DEF Retained, Size
<1>0. /\ Retained(acc, z, states, start, n, rest, paid, sum) /\ Roomy(rest)
      /\ later = RetainOne(p, i, acc) /\ i = start + n /\ b = z[i]
  OBVIOUS
<1> SUFFICES Retained(later, z, states, start, n + 1, rest, paid, sum)
  OBVIOUS
<1> HIDE DEF later, i, b, z
<1>3. CASE acc.verdict # "run"
  <2>1. later = acc
    BY <1>0, <1>3 DEF RetainOne
  <2> QED BY <1>0, <1>2, <1>3, <2>1 DEF Retained
<1>4. CASE acc.verdict = "run" /\ ~Capped(b, acc.resident) /\ acc.encoded + b > EncodedCap
  <2>1. later = [acc EXCEPT !.verdict = "LimitExceeded"]
    BY <1>0, <1>2, <1>4 DEF RetainOne
  <2>2. later \in Chunked /\ later.verdict = "LimitExceeded"
    BY <1>2, <2>1 DEF Chunked
  <2>3. later.verdict # "run"
    BY <2>2
  <2> QED BY ONLY <2>2, <2>3 DEF Retained
<1>5. ASSUME acc.verdict = "run", NEW x \in {"capped", "held"}, NEW more \in Nat, more = IF x = "held" THEN b ELSE 0,
             later = [acc EXCEPT !.cand[i] = x, !.resident = @ + more, !.encoded = @ + more, !.mine = @ + more, !.ledger = @ + more],
             acc.resident + more <= MaxBatch, acc.encoded + more <= EncodedCap
      PROVE  Retained(later, z, states, start, n + 1, rest, paid, sum)
  <2> DEFINE s == acc.cand
             t == [s EXCEPT ![i] = x]
  <2>1. /\ s \in Seq(States) /\ acc.resident \in Nat /\ acc.encoded \in Nat /\ acc.mine \in Nat /\ acc.ledger \in Nat
        /\ acc.tripped = FALSE /\ x \in States
    BY <1>2 DEF Chunked, States
  <2>2. /\ DOMAIN s = DOMAIN states /\ s[i] = "encoded"
        /\ acc.resident = Weight(z, s, OnTheWay) /\ acc.ledger = rest + acc.resident /\ acc.encoded + paid = sum + acc.mine
        /\ \A j \in DOMAIN states : IF start <= j /\ j < start + n THEN s[j] \in {"held", "capped"} ELSE s[j] = states[j]
    <3>1. ~ (i < start + n)
      BY <1>0, <1>1
    <3> QED BY <1>0, <1>9, <1>5, <3>1 DEF Retained
  <2>3. t \in Seq(States) /\ DOMAIN t = DOMAIN s /\ t[i] = x /\ \A j \in DOMAIN s : j # i => t[j] = s[j]
    <3>1. s \in Seq(States) /\ i \in DOMAIN s /\ x \in States
      BY <1>9, <2>1, <2>2
    <3> HIDE DEF s
    <3> QED BY <3>1
  <2>4. later = [cand |-> t, resident |-> acc.resident + more, encoded |-> acc.encoded + more, mine |-> acc.mine + more,
               ledger |-> acc.ledger + more, tripped |-> FALSE, verdict |-> "run"]
    BY <1>2, <1>5 DEF Chunked
  <2> HIDE DEF s, t
  <2>5. /\ later \in Chunked /\ later.cand = t /\ later.resident = acc.resident + more /\ later.encoded = acc.encoded + more
        /\ later.mine = acc.mine + more /\ later.ledger = acc.ledger + more
    <3>1. acc.resident + more \in Nat /\ acc.encoded + more \in Nat /\ acc.mine + more \in Nat /\ acc.ledger + more \in Nat
      <4>1. \A k \in Nat : k + more \in Nat
        OBVIOUS
      <4> QED BY <2>1, <4>1
    <3> QED BY <2>3, <2>4, <3>1 DEF Chunked
  <2>6. Weight(z, t, OnTheWay) = Weight(z, s, OnTheWay) + more /\ Weight(z, s, OnTheWay) \in Nat
    <3>1. Sized(z, s) /\ Replaced(s, t, i)
      BY <1>9, <2>1, <2>2, <2>3 DEF Sized, Replaced
    <3>2. s[i] \notin OnTheWay /\ (t[i] \in OnTheWay <=> x = "held")
      BY <2>2, <2>3 DEF OnTheWay
    <3>3. more = IF t[i] \in OnTheWay THEN z[i] ELSE 0
      BY <1>0, <1>5, <3>2
    <3>4. s[i] \notin OnTheWay
      BY <3>2
    <3>5. Settles(z, s, t, i, OnTheWay, more)
      BY ONLY <3>1, <3>3, <3>4 DEF Settles
    <3> QED BY ONLY <3>5, WeightSettles
  <2>7. later.resident = Weight(z, later.cand, OnTheWay) /\ later.resident <= MaxBatch /\ later.ledger = rest + later.resident
        /\ later.encoded + paid = sum + later.mine /\ later.encoded <= EncodedCap
    <3> DEFINE w == Weight(z, s, OnTheWay)
               k == acc.resident
               e == acc.encoded
               m == acc.mine
               l == acc.ledger
    <3>1. /\ w \in Nat /\ k \in Nat /\ e \in Nat /\ m \in Nat /\ l \in Nat /\ k = w /\ l = rest + k /\ e + paid = sum + m
          /\ k + more <= MaxBatch /\ e + more <= EncodedCap
      BY <1>5, <2>1, <2>2, <2>6
    <3>2. /\ Weight(z, later.cand, OnTheWay) = w + more /\ later.resident = k + more /\ later.encoded = e + more
          /\ later.mine = m + more /\ later.ledger = l + more
      BY <2>5, <2>6
    <3> HIDE DEF w, k, e, m, l
    <3>3. k + more = w + more
      BY <3>1
    <3>4. l + more = rest + (k + more)
      BY ONLY <3>1, more \in Nat, rest \in Nat
    <3>5. (e + more) + paid = sum + (m + more)
      BY ONLY <3>1, more \in Nat, paid \in Nat, sum \in Nat
    <3> QED BY <3>1, <3>2, <3>3, <3>4, <3>5
  <2>8. ASSUME NEW j \in DOMAIN states
        PROVE  IF start <= j /\ j < start + (n + 1) THEN later.cand[j] \in {"held", "capped"} ELSE later.cand[j] = states[j]
    <3>1. j \in Nat
      OBVIOUS
    <3>2. CASE j = i
      BY <1>0, <2>3, <2>5, <3>2
    <3>3. CASE j # i
      <4>1. (start <= j /\ j < start + (n + 1)) <=> (start <= j /\ j < start + n)
        BY <1>0, <3>1, <3>3
      <4>2. later.cand[j] = s[j]
        BY <2>2, <2>3, <2>5, <3>3
      <4> QED BY <2>2, <4>1, <4>2
    <3> QED BY <3>2, <3>3
  <2> QED BY <2>2, <2>3, <2>5, <2>7, <2>8 DEF Retained
<1>6. CASE acc.verdict = "run" /\ Capped(b, acc.resident)
  <2>1. later = [acc EXCEPT !.cand[i] = "capped"]
    BY <1>0, <1>2, <1>6 DEF RetainOne
  <2>2. acc.resident \in Nat /\ acc.encoded \in Nat /\ acc.mine \in Nat /\ acc.ledger \in Nat /\ acc.resident <= MaxBatch /\ acc.encoded <= EncodedCap
    BY <1>0, <1>2, <1>6 DEF Chunked, Retained
  <2> DEFINE more == 0
  <2>3. acc.resident + more = acc.resident /\ acc.encoded + more = acc.encoded /\ acc.mine + more = acc.mine /\ acc.ledger + more = acc.ledger
    <3>1. \A k \in Nat : k + 0 = k
      OBVIOUS
    <3> QED BY <2>2, <3>1
  <2>4. later = [acc EXCEPT !.cand[i] = "capped", !.resident = @ + more, !.encoded = @ + more, !.mine = @ + more, !.ledger = @ + more]
    <3> HIDE DEF more
    <3> QED BY <1>2, <2>1, <2>3 DEF Chunked
  <2>5. more \in Nat /\ more = IF "capped" = "held" THEN b ELSE 0
    OBVIOUS
  <2>6. acc.resident + more <= MaxBatch /\ acc.encoded + more <= EncodedCap
    BY <2>2, <2>3
  <2> HIDE DEF more
  <2>7. acc.verdict = "run" /\ "capped" \in {"capped", "held"}
    BY <1>6
  <2> QED BY ONLY <1>5, <2>4, <2>5, <2>6, <2>7
<1>7. CASE acc.verdict = "run" /\ ~Capped(b, acc.resident) /\ ~ (acc.encoded + b > EncodedCap)
  <2>1. acc.resident \in Nat /\ acc.encoded \in Nat /\ acc.ledger = rest + acc.resident
    BY <1>0, <1>2, <1>7 DEF Chunked, Retained
  <2>2. acc.resident + b <= MaxBatch /\ acc.encoded + b <= EncodedCap
    <3>1. acc.resident + b <= MaxBatch
      <4>1. b \in Nat
        BY <1>1
      <4>2. MaxBatch \in Nat
        BY <1>1
      <4>3. acc.resident \in Nat
        BY <2>1
      <4>4. ~ (acc.resident + b > MaxBatch)
        BY <1>7 DEF Capped
      <4> QED BY ONLY <4>1, <4>2, <4>3, <4>4
    <3>2. acc.encoded + b <= EncodedCap
      <4>1. b \in Nat
        BY <1>1
      <4>2. EncodedCap \in Nat
        BY <1>1
      <4>3. acc.encoded \in Nat
        BY <2>1
      <4>4. ~ (acc.encoded + b > EncodedCap)
        BY <1>7
      <4> QED BY ONLY <4>1, <4>2, <4>3, <4>4
    <3> QED BY <3>1, <3>2
  <2>3. ~ (acc.ledger + b > MaxBatch * Cardinality(Pages))
    <3> DEFINE most == MaxBatch * Cardinality(Pages)
    <3>1. most \in Nat
      <4>1. Cardinality(Pages) \in Nat
        BY WindowLimits, FS_CardinalityType
      <4>2. MaxBatch \in Nat
        BY <1>1
      <4> QED BY ONLY <4>1, <4>2, Product
    <3>2. rest + MaxBatch <= most
      BY <1>0 DEF Roomy
    <3> HIDE DEF most
    <3>3. ~ ((rest + acc.resident) + b > most)
      <4>1. b \in Nat /\ MaxBatch \in Nat
        BY <1>1
      <4>2. acc.resident \in Nat /\ acc.resident + b <= MaxBatch
        BY <2>1, <2>2
      <4>3. rest \in Nat
        OBVIOUS
      <4> QED BY ONLY <3>1, <3>2, <4>1, <4>2, <4>3
    <3> QED BY <2>1, <3>3 DEF most
  <2>4. later = [acc EXCEPT !.cand[i] = "held", !.resident = @ + b, !.encoded = @ + b, !.mine = @ + b, !.ledger = @ + b]
    BY <1>0, <1>2, <1>7, <2>3 DEF RetainOne
  <2>5. b = IF "held" = "held" THEN b ELSE 0
    OBVIOUS
  <2>6. acc.verdict = "run" /\ "held" \in {"capped", "held"} /\ b \in Nat
    BY <1>1, <1>7
  <2> QED BY ONLY <1>5, <2>2, <2>4, <2>5, <2>6
<1> QED BY <1>3, <1>4, <1>6, <1>7

\* The whole chunk, candidate by candidate.
LEMMA RetainPlanned ==
  ASSUME NEW p, NEW states \in Seq(States), NEW N \in Nat, NEW rest \in Nat, NEW paid \in Nat, NEW sum \in Nat, NEW f,
         page[p].next \in Nat, page[p].sizes \in Seq(Nat), DOMAIN states \subseteq DOMAIN page[p].sizes,
         RetainSteps(f, p, states, N), Roomy(rest),
         \A k \in 0..(N - 1) : page[p].next + k \in DOMAIN states /\ states[page[p].next + k] = "encoded",
         Retained(RetainStart(p, states), page[p].sizes, states, page[p].next, 0, rest, paid, sum)
  PROVE  Retained(f[N], page[p].sizes, states, page[p].next, N, rest, paid, sum)
<1> DEFINE start == page[p].next
           z == page[p].sizes
           Good(n) == Retained(f[n], z, states, start, n, rest, paid, sum)
           B == {n \in 0..N : ~Good(n)}
<1>1. \A n \in 0..N : f[n] = IF n = 0 THEN RetainStart(p, states) ELSE RetainOne(p, page[p].next + n - 1, f[n - 1])
  BY DEF RetainSteps
<1>2. ASSUME B # {} PROVE FALSE
  <2>1. PICK m \in B : \A y \in B : m <= y
    <3>1. B \in SUBSET (0..N)
      OBVIOUS
    <3> HIDE DEF B
    <3> QED BY <1>2, <3>1, LeastNumber
  <2>2. m \in 0..N /\ m \in Nat /\ ~Good(m)
    BY <2>1
  <2>3. m # 0
    <3>1. CASE m = 0
      <4>1. f[0] = RetainStart(p, states)
        BY <1>1, <2>2, <3>1
      <4>2. Good(0)
        BY <4>1
      <4> HIDE DEF Good
      <4> QED BY <2>2, <3>1, <4>2
    <3> QED BY <3>1
  <2>4. m - 1 \in 0..N /\ m - 1 \in Nat /\ ~ (m <= m - 1) /\ m - 1 \in 0..(N - 1) /\ (m - 1) + 1 = m /\ start + m - 1 = start + (m - 1)
    BY <2>2, <2>3
  <2>5. Good(m - 1)
    <3> HIDE DEF Good
    <3> QED BY <2>1, <2>4
  <2> DEFINE n == m - 1
  <2>6. n \in Nat /\ start + n \in DOMAIN states /\ states[start + n] = "encoded" /\ Good(n)
    BY <2>4, <2>5
  <2>7. f[m] = RetainOne(p, start + n, f[n])
    BY <1>1, <2>2, <2>3, <2>4
  <2> HIDE DEF n
  <2>8. Retained(RetainOne(p, start + n, f[n]), z, states, start, n + 1, rest, paid, sum)
    BY <2>6, RetainOneKeeps
  <2>9. Good(m)
    BY <2>4, <2>7, <2>8 DEF n
  <2> QED BY <2>2, <2>9
<1>3. Good(N)
  BY <1>2
<1> QED BY <1>3

\* What a chunk's loop leaves.
LEMMA ChunkRetained ==
  ASSUME NEW p, NEW states \in Seq(States), NEW many \in Nat, NEW rest \in Nat, NEW paid \in Nat, NEW sum \in Nat,
         many = ChunkEnd(p) + 1 - page[p].next,
         page[p].next \in Nat, page[p].sizes \in Seq(Nat), DOMAIN states \subseteq DOMAIN page[p].sizes, Roomy(rest),
         \A k \in 0..(many - 1) : page[p].next + k \in DOMAIN states /\ states[page[p].next + k] = "encoded",
         Retained(RetainStart(p, states), page[p].sizes, states, page[p].next, 0, rest, paid, sum)
  PROVE  Retained(RetainChunk(p, states), page[p].sizes, states, page[p].next, many, rest, paid, sum)
<1> DEFINE after == CHOOSE f : f = [n \in 0..many |-> IF n = 0 THEN RetainStart(p, states) ELSE RetainOne(p, page[p].next + n - 1, f[n - 1])]
<1>1. RetainChunk(p, states) = after[many]
  BY DEF RetainChunk, RetainStart
<1>2. RetainSteps(after, p, states, many)
  <2>1. \E f : f = [n \in 0..many |-> IF n = 0 THEN RetainStart(p, states) ELSE RetainOne(p, page[p].next + n - 1, f[n - 1])]
    <3>1. \E f : RetainSteps(f, p, states, many)
      BY RetainExists
    <3> QED BY <3>1 DEF RetainSteps
  <2>2. after = [n \in 0..many |-> IF n = 0 THEN RetainStart(p, states) ELSE RetainOne(p, page[p].next + n - 1, after[n - 1])]
    BY <2>1
  <2> QED BY <2>2 DEF RetainSteps
<1> HIDE DEF after
<1>3. Retained(after[many], page[p].sizes, states, page[p].next, many, rest, paid, sum)
  BY <1>2, RetainPlanned
<1> QED BY <1>1, <1>3

\* Where the next chunk ends.
LEMMA ChunkEnds ==
  ASSUME WindowInv, NEW p \in Pages, page[p].next \in DOMAIN cand[p]
  PROVE  ChunkEnd(p) \in DOMAIN cand[p] /\ page[p].next <= ChunkEnd(p) /\ ChunkEnd(p) \in Nat /\ page[p].next \in Nat /\ page[p].next >= 1
<1> DEFINE a == page[p].next + CpuSlots - 1
           l == Len(cand[p])
           start == page[p].next
<1>1. /\ start \in Nat /\ start >= 1 /\ l \in Nat /\ start <= l /\ DOMAIN cand[p] = 1..l /\ CpuSlots \in Nat /\ CpuSlots >= 1
  BY PageIs, WindowLimits
<1>2. a \in Nat /\ start <= a
  <2>1. a = start + CpuSlots - 1
    OBVIOUS
  <2> HIDE DEF a, start
  <2> QED BY <1>1, <2>1
<1>3. ChunkEnd(p) = Min({a, l})
  BY DEF ChunkEnd
<1> HIDE DEF a, l, start
<1>4. {a, l} \in SUBSET (1..(a + l)) /\ {a, l} # {} /\ a + l \in Nat
  BY <1>1, <1>2
<1>5. Min({a, l}) \in {a, l} /\ Min({a, l}) <= l
  BY <1>4, LeastIsIn
<1> DEFINE c == ChunkEnd(p)
<1>6. (c = a \/ c = l) /\ c <= l
  BY <1>3, <1>5
<1> HIDE DEF c
<1>7. c \in 1..l /\ start <= c /\ c \in Nat
  BY <1>1, <1>2, <1>6
<1> QED BY <1>1, <1>7 DEF c, start

\* The sentinel ledger has room for a whole batch beside what other pages hold.
LEMMA LedgerRoom ==
  ASSUME WindowInv, NEW p \in Pages, model # "classic"
  PROVE  \E rest \in Nat : ledger = rest + Weight(page[p].sizes, cand[p], Carried) /\ Roomy(rest)
<1> DEFINE w == [q \in Pages |-> Weight(page[q].sizes, cand[q], Carried)]
           H == Pages \ {p}
           rest == SumFunctionOnSet(w, H)
<1>1. ASSUME NEW q \in Pages PROVE Weight(page[q].sizes, cand[q], Carried) \in Nat /\ Weight(page[q].sizes, cand[q], Carried) <= MaxBatch
  <2>1. Scheduled(model, page[q], cand[q])
    BY PageIs
  <2> QED BY <2>1, PageIs DEF Scheduled
<1>2. w \in [Pages -> Nat] /\ w[p] = Weight(page[p].sizes, cand[p], Carried) /\ \A q \in Pages : w[q] <= MaxBatch
  BY <1>1
<1>3. ledger = SumFunction(w)
  BY DEF WindowInv
<1> HIDE DEF w
<1>4. Amounts(w, Pages) /\ SumFunction(w) = SumFunctionOnSet(w, Pages)
  BY <1>2, WindowLimits DEF Amounts, SumFunction
<1>5. SumFunctionOnSet(w, Pages) = w[p] + rest /\ Amounts(w, H) /\ rest \in Nat /\ w[p] \in Nat
  BY <1>4, SumRemove
<1>6. rest <= MaxBatch * Cardinality(H) /\ Cardinality(H) \in Nat
  <2>1. H \in SUBSET H /\ (\A q \in H : w[q] <= MaxBatch) /\ (\A q \in H \ H : w[q] = 0) /\ MaxBatch \in Nat
    BY <1>2, WindowLimits
  <2> HIDE DEF H
  <2> QED BY <1>5, <2>1, SumBounded
<1>7. Cardinality(Pages) = Cardinality(H) + 1
  <2>1. IsFiniteSet(Pages) /\ p \in Pages
    BY WindowLimits
  <2>2. Cardinality(Pages \ {p}) = Cardinality(Pages) - 1 /\ Cardinality(Pages) \in Nat
    BY <2>1, FS_RemoveElement, FS_CardinalityType
  <2> QED BY <2>2
<1>8. MaxBatch * (Cardinality(H) + 1) = MaxBatch * Cardinality(H) + MaxBatch /\ MaxBatch * Cardinality(H) \in Nat
  BY <1>6, WindowLimits, Product
<1> HIDE DEF rest, H
<1>9. rest + MaxBatch <= MaxBatch * Cardinality(Pages)
  <2>1. MaxBatch \in Nat
    BY WindowLimits
  <2> QED BY <1>5, <1>6, <1>7, <1>8, <2>1
<1>10. ledger = rest + w[p]
  BY <1>3, <1>4, <1>5
<1> QED BY <1>2, <1>5, <1>9, <1>10 DEF Roomy

\* What is known when an encoder of a chunk ends.
LEMMA ChunkBefore ==
  ASSUME WindowInv, NEW p \in Pages, NEW i \in DOMAIN cand[p], NEW states, model # "classic", cand[p][i] = "encode",
         states = [cand[p] EXCEPT ![i] = "encoded"]
  PROVE  /\ states \in Seq(States) /\ DOMAIN states = DOMAIN cand[p] /\ page[p].next \in DOMAIN cand[p] /\ page[p].reserved = 0
         /\ page[p].pc \in {"semantic", "done"}
         /\ \A j \in DOMAIN states : /\ states[j] \notin {"wait", "http", "full", "empty"} /\ (j < page[p].next <=> states[j] \in Handled)
         /\ Weight(page[p].sizes, states, OnTheWay) = page[p].resident
         /\ Weight(page[p].sizes, states, Carried) = page[p].resident
         /\ Weight(page[p].sizes, cand[p], Carried) = page[p].resident
<1> DEFINE s == cand[p]
           z == page[p].sizes
           r == page[p]
<1>1. Sized(z, s) /\ Replaced(s, states, i) /\ states[i] = "encoded" /\ i \in DOMAIN s /\ s[i] = "encode"
  <2>1. "encoded" \in States
    BY DEF States
  <2> QED BY <2>1, CandidateReplaced
<1>2. PageOK(r, s) /\ Scheduled(model, r, s) /\ r.next \in Nat /\ r.next >= 1 /\ s \in Seq(States) /\ r.sizes = z
  BY PageIs DEF PageOK
<1>3. Weight(z, s, OnTheWay) \in Nat
  BY PageIs
<1> HIDE DEF s, z, r
<1>4. r.next \in DOMAIN s
  <2>1. ~ (i < r.next)
    <3>1. s[i] \notin Handled
      BY <1>1 DEF Handled, Carried, OnTheWay
    <3> QED BY <1>1, <1>2, <3>1 DEF Scheduled
  <2> QED BY <1>1, <1>2, <2>1
<1>5. r.reserved = 0 /\ \A j \in DOMAIN s : s[j] \notin {"wait", "http", "full", "empty"} /\ (j < r.next <=> s[j] \in Handled)
  BY <1>2, <1>4 DEF Scheduled
<1>6. r.pc \in {"semantic", "done"} /\ r.resident = Weight(z, s, OnTheWay)
  <2>1. s # <<>>
    BY <1>1
  <2> QED BY <1>2, <1>3, <1>5, <2>1 DEF PageOK
<1>7. \A j \in DOMAIN states : states[j] \notin {"wait", "http", "full", "empty"} /\ (j < r.next <=> states[j] \in Handled)
  <2> TAKE j \in DOMAIN states
  <2>1. CASE j = i
    <3>1. "encoded" \notin Handled /\ "encode" \notin Handled
      BY DEF Handled, Carried, OnTheWay
    <3> QED BY <1>1, <1>5, <2>1, <3>1
  <2>2. CASE j # i
    BY <1>1, <1>5, <2>2 DEF Replaced
  <2> QED BY <2>1, <2>2
<1>8. Weight(z, states, OnTheWay) = Weight(z, s, OnTheWay)
  <2>1. s[i] \in OnTheWay <=> states[i] \in OnTheWay
    BY <1>1 DEF OnTheWay
  <2> QED BY <1>1, <2>1, WeightStays
<1>9. Weight(z, s, Carried) = Weight(z, s, OnTheWay)
  <2>1. Among(s, Carried) = Among(s, OnTheWay)
    BY <1>5 DEF Among, Carried, OnTheWay
  <2> QED BY <2>1 DEF Weight
<1>10. Weight(z, states, Carried) = Weight(z, states, OnTheWay)
  <2>1. Among(states, Carried) = Among(states, OnTheWay)
    BY <1>7 DEF Among, Carried, OnTheWay
  <2> QED BY <2>1 DEF Weight
<1>11. states \in Seq(States) /\ DOMAIN states = DOMAIN s
  BY <1>1 DEF Replaced
<1> QED BY <1>4, <1>5, <1>6, <1>7, <1>8, <1>9, <1>10, <1>11 DEF s, z, r

\* An encoder ends and the chunk is not done.
LEMMA EncodedWaits ==
  ASSUME WindowInv, NEW p \in Pages, NEW i \in DOMAIN cand[p], model # "classic", cand[p][i] = "encode", NEW states,
         states = [cand[p] EXCEPT ![i] = "encoded"], cand' = [cand EXCEPT ![p] = states],
         UNCHANGED <<model, page, encoded, raw, ledger, tripped, windowExpired, windowVerdict>>
  PROVE  WindowInv'
<1> DEFINE r == page[p]
<1>1. page' = [page EXCEPT ![p] = r] /\ r = page[p]
  BY DEF WindowInv
<1>2. PageOK(page[p], cand[p]) /\ Scheduled(model, page[p], cand[p])
  BY PageIs
<1>3. /\ encoded' + page[p].encoded = encoded + r.encoded /\ encoded' \in 0..EncodedCap
      /\ raw + r.raw <= raw' + page[p].raw /\ raw' \in 0..RawCap /\ ledger' \in Nat /\ windowVerdict' \in WindowVerdicts
  BY PageIs, WindowLimits
<1>4. /\ states \in Seq(States) /\ DOMAIN states = DOMAIN cand[p] /\ r.reserved = 0 /\ r.pc \in {"semantic", "done"}
      /\ \A j \in DOMAIN states : states[j] \notin {"wait", "http", "full", "empty"} /\ (j < r.next <=> states[j] \in Handled)
      /\ Weight(r.sizes, states, OnTheWay) = r.resident /\ Weight(r.sizes, states, Carried) = r.resident
      /\ Weight(page[p].sizes, cand[p], Carried) = r.resident /\ r.resident \in Nat /\ r.resident <= MaxBatch
  BY ChunkBefore, PageNumbers
<1> HIDE DEF r
<1>5. PageOK(r, states)
  <2>1. r.resident = r.reserved + Weight(r.sizes, states, OnTheWay)
    BY <1>4
  <2> QED BY <1>1, <1>2, <1>4, <2>1 DEF PageOK
<1>6. Scheduled(model, r, states)
  BY <1>4 DEF Scheduled
<1>7. ledger' + Weight(page[p].sizes, cand[p], Carried) = ledger + Weight(r.sizes, states, Carried)
  BY <1>4
<1> QED BY <1>1, <1>3, <1>5, <1>6, <1>7, PageBecomes

\* The last encoder of a chunk ends, and its candidates are retained or degraded.
LEMMA ChunkSettles ==
  ASSUME WindowInv, NEW p \in Pages, NEW i \in DOMAIN cand[p], model # "classic", cand[p][i] = "encode", NEW states,
         states = [cand[p] EXCEPT ![i] = "encoded"], \A j \in EncodeChunk(p) : states[j] = "encoded"
  PROVE  \E many \in Nat, rest \in Nat :
            /\ many = ChunkEnd(p) + 1 - page[p].next /\ page[p].next + many = ChunkEnd(p) + 1 /\ ChunkEnd(p) \in Nat
            /\ ledger = rest + page[p].resident
            /\ Retained(RetainChunk(p, states), page[p].sizes, states, page[p].next, many, rest, page[p].encoded, encoded)
<1> DEFINE start == page[p].next
           c == ChunkEnd(p)
           many == c + 1 - start
           z == page[p].sizes
<1>1. /\ states \in Seq(States) /\ DOMAIN states = DOMAIN cand[p] /\ start \in DOMAIN cand[p]
      /\ Weight(z, states, OnTheWay) = page[p].resident /\ Weight(z, cand[p], Carried) = page[p].resident
  BY ChunkBefore
<1>2. c \in DOMAIN cand[p] /\ start <= c /\ c \in Nat /\ start \in Nat /\ start >= 1
  BY <1>1, ChunkEnds
<1>3. many \in Nat /\ start + many = c + 1 /\ \A k \in 0..(many - 1) : start + k \in start..c
  <2> DEFINE m == many
  <2>1. m = c + 1 - start
    OBVIOUS
  <2> HIDE DEF m, c, start
  <2>2. m \in Nat /\ start + m = c + 1 /\ \A k \in 0..(m - 1) : start + k \in start..c
    BY <1>2, <2>1
  <2> QED BY <2>2 DEF m, start, c
<1>4. \A k \in 0..(many - 1) : start + k \in DOMAIN states /\ states[start + k] = "encoded"
  <2> TAKE k \in 0..(many - 1)
  <2>1. start + k \in start..c
    BY <1>3
  <2>2. cand[p] \in Seq(States) /\ start..c = EncodeChunk(p)
    BY PageIs DEF EncodeChunk
  <2> DEFINE j == start + k
             l == Len(cand[p])
  <2>3. DOMAIN cand[p] = 1..l /\ l \in Nat /\ j \in start..c
    BY <2>1, <2>2
  <2>4. states[j] = "encoded"
    BY <2>2, <2>3
  <2> HIDE DEF j, l, start, c
  <2>5. j \in 1..l
    BY <1>2, <2>3
  <2> QED BY <1>1, <2>3, <2>4, <2>5 DEF j, start
<1>5. PICK rest \in Nat : ledger = rest + Weight(z, cand[p], Carried) /\ Roomy(rest)
  BY LedgerRoom
<1>6. z \in Seq(Nat) /\ DOMAIN states \subseteq DOMAIN z
  BY <1>1, PageIs
<1>7. Retained(RetainStart(p, states), z, states, start, 0, rest, page[p].encoded, encoded)
  <2> DEFINE acc == RetainStart(p, states)
  <2>1. /\ page[p].resident \in Nat /\ page[p].resident <= MaxBatch /\ encoded \in Nat /\ encoded <= EncodedCap /\ page[p].encoded \in Nat /\ ledger \in Nat
    BY PageNumbers
  <2>2. acc \in Chunked
    BY <1>1, <2>1 DEF RetainStart, Chunked
  <2>3. /\ acc.cand = states /\ acc.resident = page[p].resident /\ acc.encoded = encoded /\ acc.mine = page[p].encoded /\ acc.ledger = ledger
    BY DEF RetainStart
  <2> HIDE DEF acc, start, z
  <2>4. \A j \in DOMAIN states : ~ (start <= j /\ j < start + 0)
    <3>1. \A j \in Nat : ~ (start <= j /\ j < start + 0)
      BY <1>2
    <3> QED BY <1>1, <3>1
  <2>5. ledger = rest + page[p].resident
    BY <1>1, <1>5
  <2>6. Retained(acc, z, states, start, 0, rest, page[p].encoded, encoded)
    BY <1>1, <2>1, <2>2, <2>3, <2>4, <2>5 DEF Retained
  <2> QED BY <2>6 DEF acc
<1>8. Retained(RetainChunk(p, states), z, states, start, many, rest, page[p].encoded, encoded)
  <2>1. page[p].encoded \in Nat /\ encoded \in Nat
    BY PageNumbers
  <2> DEFINE m == many
  <2>2. m \in Nat /\ m = ChunkEnd(p) + 1 - page[p].next
    BY <1>3
  <2>3. \A k \in 0..(m - 1) : page[p].next + k \in DOMAIN states /\ states[page[p].next + k] = "encoded"
    BY <1>4
  <2>4. page[p].next \in Nat
    BY <1>2
  <2> HIDE DEF m
  <2>5. Retained(RetainChunk(p, states), page[p].sizes, states, page[p].next, m, rest, page[p].encoded, encoded)
    BY <1>1, <1>5, <1>6, <1>7, <2>1, <2>2, <2>3, <2>4, ChunkRetained
  <2> QED BY <2>5 DEF m
<1> QED BY <1>1, <1>2, <1>3, <1>5, <1>8

\* The last crop of a chunk settles the chunk.
LEMMA EncodedTwoPhaseKeeps == ASSUME WindowInv, NEW p \in Pages, NEW i \in DOMAIN cand[p], EncodedTwoPhase(p, i) PROVE WindowInv'
<1> DEFINE states == [cand[p] EXCEPT ![i] = "encoded"]
           last == \A j \in EncodeChunk(p) : states[j] = "encoded"
           later == RetainChunk(p, states)
           z == page[p].sizes
<1>1. model # "classic" /\ cand[p][i] = "encode" /\ UNCHANGED <<model, raw, windowExpired>>
  BY DEF EncodedTwoPhase
<1>2. /\ states \in Seq(States) /\ DOMAIN states = DOMAIN cand[p] /\ page[p].next \in DOMAIN cand[p] /\ page[p].reserved = 0
      /\ page[p].pc \in {"semantic", "done"} /\ page[p].next \in Nat /\ page[p].next >= 1
      /\ \A j \in DOMAIN states : /\ states[j] \notin {"wait", "http", "full", "empty"} /\ (j < page[p].next <=> states[j] \in Handled)
      /\ Weight(z, cand[p], Carried) = page[p].resident /\ page[p].resident \in Nat
  <2>1. page[p].next >= 1
    BY PageIs DEF PageOK
  <2> QED BY <1>1, <2>1, ChunkBefore, PageNumbers
<1>3. CASE ~last /\ cand' = [cand EXCEPT ![p] = states] /\ UNCHANGED <<page, encoded, ledger, tripped, windowVerdict>>
  BY <1>1, <1>3, EncodedWaits
<1>4. ASSUME last
      PROVE  \E many \in Nat, rest \in Nat :
                /\ many = ChunkEnd(p) + 1 - page[p].next /\ page[p].next + many = ChunkEnd(p) + 1 /\ ChunkEnd(p) \in Nat
                /\ ledger = rest + page[p].resident
                /\ Retained(later, z, states, page[p].next, many, rest, page[p].encoded, encoded)
  BY <1>1, <1>4, ChunkSettles
<1> HIDE DEF later, states
<1>5. CASE last /\ later.verdict # "run" /\ windowVerdict' = later.verdict /\ tripped' = later.tripped /\ UNCHANGED <<page, cand, encoded, ledger>>
  <2>1. later \in Chunked
    BY <1>4, <1>5 DEF Retained
  <2>2. tripped' = FALSE /\ windowVerdict' = "LimitExceeded"
    BY <1>5, <2>1 DEF Chunked
  <2>3. tripped = FALSE /\ windowExpired' \in BOOLEAN /\ windowVerdict' \in WindowVerdicts
    BY <1>1, <2>2 DEF WindowInv, WindowVerdicts
  <2> QED BY <1>1, <1>5, <2>2, <2>3, WindowRests
<1>6. CASE /\ last /\ later.verdict = "run" /\ cand' = [cand EXCEPT ![p] = later.cand] /\ encoded' = later.encoded /\ ledger' = later.ledger
           /\ page' = [page EXCEPT ![p].resident = later.resident, ![p].encoded = later.mine, ![p].next = ChunkEnd(p) + 1]
           /\ UNCHANGED <<tripped, windowVerdict>>
  <2>1. PICK many \in Nat, rest \in Nat :
           /\ many = ChunkEnd(p) + 1 - page[p].next /\ page[p].next + many = ChunkEnd(p) + 1 /\ ChunkEnd(p) \in Nat
           /\ ledger = rest + page[p].resident
           /\ Retained(later, z, states, page[p].next, many, rest, page[p].encoded, encoded)
    BY <1>4, <1>6
  <2> DEFINE t == later.cand
             start == page[p].next
             following == ChunkEnd(p) + 1
             r == [page[p] EXCEPT !.resident = later.resident, !.encoded = later.mine, !.next = following]
  <2>2. t \in Seq(States) /\ later.resident \in Nat /\ later.encoded \in Nat /\ later.mine \in Nat /\ later.ledger \in Nat
    BY <2>1 DEF Retained, Chunked
  <2>3. /\ DOMAIN t = DOMAIN states
        /\ \A j \in DOMAIN states : IF start <= j /\ j < start + many THEN t[j] \in {"held", "capped"} ELSE t[j] = states[j]
        /\ later.resident = Weight(z, t, OnTheWay) /\ later.resident <= MaxBatch /\ later.ledger = rest + later.resident
        /\ later.encoded + page[p].encoded = encoded + later.mine /\ later.encoded <= EncodedCap
    BY <1>6, <2>1 DEF Retained
  <2>4. page' = [page EXCEPT ![p] = r] /\ cand' = [cand EXCEPT ![p] = t]
    BY <1>6, PageIs
  <2>5. following \in Nat /\ following = start + many /\ following >= 1
    BY <2>1
  <2>6. /\ r \in PageRecords /\ r.next = following /\ r.reserved = 0 /\ r.resident = later.resident /\ r.sizes = z
        /\ r.encoded = later.mine /\ r.raw = page[p].raw /\ r.pc = page[p].pc
    BY <1>2, <2>2, <2>5, PageIs DEF PageRecords
  <2>7. PageOK(page[p], cand[p])
    BY PageIs
  <2>8. encoded' + page[p].encoded = encoded + r.encoded /\ encoded' \in 0..EncodedCap /\ windowVerdict' \in WindowVerdicts /\ ledger' \in Nat
    <3>1. EncodedCap \in Nat /\ windowVerdict \in WindowVerdicts
      BY PageIs, WindowLimits
    <3> HIDE DEF r, t
    <3> QED BY <1>6, <2>2, <2>3, <2>6, <3>1
  <2>9. raw + r.raw <= raw' + page[p].raw /\ raw' \in 0..RawCap
    BY <1>1, <2>6, PageNumbers
  <2> HIDE DEF r, t, start, following, z, last
  <2>10. ASSUME NEW j \in DOMAIN t
         PROVE  /\ t[j] \notin {"wait", "http", "full", "empty"}
                /\ (j < following <=> t[j] \in Handled)
    <3>0. j \in DOMAIN states /\ j \in Nat /\ start \in Nat
      BY <1>2, <2>2, <2>3 DEF start
    <3>1. CASE start <= j /\ j < start + many
      <4>1. t[j] \in {"held", "capped"}
        BY <2>3, <3>0, <3>1
      <4>2. j < following
        BY <2>5, <3>1
      <4> QED BY <4>1, <4>2 DEF Handled, Carried, OnTheWay
    <3>2. CASE ~ (start <= j /\ j < start + many)
      <4>1. t[j] = states[j]
        BY <2>3, <3>0, <3>2
      <4>2. j < start <=> j < following
        BY <2>5, <3>0, <3>2
      <4>3. states[j] \notin {"wait", "http", "full", "empty"} /\ (j < start <=> states[j] \in Handled)
        BY <1>2, <3>0 DEF start
      <4> QED BY <4>1, <4>2, <4>3
    <3> QED BY <3>1, <3>2
  <2>11. Weight(z, t, Carried) = later.resident
    <3>1. Among(t, Carried) = Among(t, OnTheWay)
      BY <2>10 DEF Among, Carried, OnTheWay
    <3> QED BY <2>3, <3>1 DEF Weight
  <2>12. PageOK(r, t)
    <3>1. r.resident = r.reserved + Weight(r.sizes, t, OnTheWay)
      BY <2>2, <2>3, <2>6
    <3>2. DOMAIN t \subseteq DOMAIN r.sizes /\ r.pc \in {"semantic", "done"} /\ r.next >= 1 /\ r.resident <= MaxBatch
      BY <1>2, <2>3, <2>5, <2>6, <2>7 DEF PageOK, z
    <3> QED BY <2>2, <2>6, <3>1, <3>2 DEF PageOK
  <2>13. Scheduled(model, r, t)
    BY <1>1, <2>3, <2>6, <2>10, <2>11 DEF Scheduled
  <2>14. ledger' + Weight(page[p].sizes, cand[p], Carried) = ledger + Weight(r.sizes, t, Carried)
    <3>1. ledger' = rest + later.resident /\ ledger = rest + page[p].resident
      BY <1>6, <2>1, <2>3
    <3>2. Weight(page[p].sizes, cand[p], Carried) = page[p].resident /\ Weight(r.sizes, t, Carried) = later.resident
      BY <1>2, <2>6, <2>11 DEF z
    <3>3. page[p].resident \in Nat /\ rest \in Nat /\ later.resident \in Nat
      BY <1>2, <2>2, <2>5
    <3> DEFINE a == Weight(page[p].sizes, cand[p], Carried)
               c == Weight(r.sizes, t, Carried)
    <3>4. a = page[p].resident /\ c = later.resident
      BY <3>2
    <3> HIDE DEF a, c
    <3>5. ledger' + a = ledger + c
      BY <3>1, <3>3, <3>4
    <3> QED BY <3>5 DEF a, c
  <2> QED BY <1>1, <1>6, <2>4, <2>8, <2>9, <2>12, <2>13, <2>14, PageBecomes
<1> QED BY <1>3, <1>5, <1>6 DEF EncodedTwoPhase, states, later, last

\* Every step of a page keeps the window.
LEMMA PageStepKeeps == ASSUME WindowInv, NEW p \in Pages, PageStep(p) PROVE WindowInv'
<1>1. CASE TakePagePermit(p)
  BY <1>1, PageMoves, PageIs DEF TakePagePermit, PagePlaces
<1>2. CASE LayoutEncoded(p)
  BY <1>2, LayoutEncodedKeeps
<1>3. CASE SendLayout(p)
  BY <1>3, PageMoves, PageIs DEF SendLayout, PagePlaces
<1>4. CASE \E n \in RawSizes : LayoutReply(p, n)
  BY <1>4, LayoutReplyKeeps
<1>5. CASE StartEncoder(p)
  BY <1>5, StartEncoderKeeps
<1>6. CASE StartChunk(p)
  BY <1>6, StartChunkKeeps
<1>7. ASSUME NEW i \in DOMAIN cand[p], TakeCpu(p, i) PROVE WindowInv'
  <2>1. "encode" \in States
    BY DEF States
  <2> QED BY <1>7, <2>1, CandidateMoves DEF TakeCpu
<1>8. ASSUME NEW i \in DOMAIN cand[p], EncodedClassic(p, i) PROVE WindowInv'
  BY <1>8, EncodedClassicKeeps
<1>9. ASSUME NEW i \in DOMAIN cand[p], EncodedTwoPhase(p, i) PROVE WindowInv'
  BY <1>9, EncodedTwoPhaseKeeps
<1>10. ASSUME NEW i \in DOMAIN cand[p], TakeBatchPermit(p, i) PROVE WindowInv'
  <2>1. "wait" \in States
    BY DEF States
  <2>2. page[p].next \notin DOMAIN cand[p]
    <3>1. page[p].next > Len(cand[p])
      BY <1>10 DEF TakeBatchPermit
    <3>2. cand[p] \in Seq(States) /\ page[p].next \in Nat
      BY PageIs
    <3> QED BY <3>1, <3>2
  <2> QED BY <1>10, <2>1, <2>2, CandidateMoves DEF TakeBatchPermit
<1>11. ASSUME NEW i \in DOMAIN cand[p], SendCandidate(p, i) PROVE WindowInv'
  <2>1. "http" \in States
    BY DEF States
  <2> QED BY <1>11, <2>1, CandidateMoves DEF SendCandidate
<1>12. ASSUME NEW i \in DOMAIN cand[p], NEW n \in RawSizes, NEW x \in {"full", "empty"}, CandidateReply(p, i, n, x) PROVE WindowInv'
  BY <1>12, CandidateReplyKeeps
<1>13. CASE CompletePage(p)
  <2>1. windowVerdict' \in WindowVerdicts
    BY <1>13 DEF CompletePage, WindowVerdicts
  <2> QED BY <1>13, <2>1, PageMoves DEF CompletePage, PagePlaces
<1>14. CASE TimeOut(p)
  BY <1>14, WindowRests DEF TimeOut, FailWindow, WindowVerdicts, WindowInv
<1> QED BY <1>1, <1>2, <1>3, <1>4, <1>5, <1>6, <1>7, <1>8, <1>9, <1>10, <1>11, <1>12, <1>13, <1>14 DEF PageStep

\* Every step of the window keeps its invariant.
LEMMA WindowSteps == WindowInv /\ [WindowNext]_pagesVars => WindowInv'
<1> SUFFICES ASSUME WindowInv, [WindowNext]_pagesVars PROVE WindowInv'
  OBVIOUS
<1>1. CASE Expire
  BY <1>1, WindowRests DEF Expire, WindowInv
<1>2. ASSUME NEW p \in Pages, PageStep(p) PROVE WindowInv'
  BY <1>2, PageStepKeeps
<1>3. ASSUME NEW p \in Pages, Broke(p) PROVE WindowInv'
  BY <1>3, WindowRests DEF Broke, FailWindow, WindowVerdicts, WindowInv
<1>4. CASE UNCHANGED pagesVars
  BY <1>4, WindowRests DEF pagesVars, WindowInv
<1> QED BY <1>1, <1>2, <1>3, <1>4 DEF WindowNext

\* Nothing is charged before the first page.
LEMMA WindowStarts == WindowInit => WindowInv
<1> SUFFICES ASSUME WindowInit PROVE WindowInv
  OBVIOUS
<1>1. ASSUME NEW p \in Pages
      PROVE  /\ page[p] \in PageRecords /\ cand[p] = <<>> /\ page[p].next = 1 /\ page[p].reserved = 0 /\ page[p].resident = 0
             /\ page[p].encoded = 0 /\ page[p].raw = 0
  <2>1. page[p] \in [pc : {"permit"}, layout : LayoutSizes, sizes : Layouts, next : {1}, reserved : {0}, resident : {0}, raw : {0}, encoded : {0}]
    BY DEF WindowInit
  <2>2. LayoutSizes \subseteq Nat /\ Layouts \subseteq Seq(Nat) /\ "permit" \in PagePlaces
    BY WindowLimits DEF PagePlaces
  <2> DEFINE r == page[p]
  <2>4. r \in [pc : {"permit"}, layout : LayoutSizes, sizes : Layouts, next : {1}, reserved : {0}, resident : {0}, raw : {0}, encoded : {0}]
    BY <2>1
  <2> HIDE DEF r
  <2>5. /\ r = [pc |-> r.pc, layout |-> r.layout, sizes |-> r.sizes, next |-> r.next, reserved |-> r.reserved,
                resident |-> r.resident, raw |-> r.raw, encoded |-> r.encoded]
        /\ r.pc = "permit" /\ r.layout \in LayoutSizes /\ r.sizes \in Layouts /\ r.next = 1 /\ r.reserved = 0 /\ r.resident = 0
        /\ r.raw = 0 /\ r.encoded = 0
    BY <2>4
  <2>6. r.layout \in Nat /\ r.sizes \in Seq(Nat) /\ r.next \in Nat /\ r.reserved \in {0, MaxRequest}
    BY <2>2, <2>5
  <2>3. r \in PageRecords
    BY <2>2, <2>5, <2>6 DEF PageRecords
  <2> QED BY <2>3, <2>5 DEF WindowInit, r
<1>2. ASSUME NEW p \in Pages PROVE PageOK(page[p], cand[p]) /\ Scheduled(model, page[p], cand[p])
  <2>1. \A T : Among(cand[p], T) = {}
    BY <1>1 DEF Among
  <2>2. Weight(page[p].sizes, cand[p], OnTheWay) = 0 /\ Weight(page[p].sizes, cand[p], Carried) = 0
    BY <2>1, WeightNothing
  <2>3. 0 <= MaxBatch /\ DOMAIN cand[p] = {} /\ cand[p] \in Seq(States)
    <3>1. \A T : <<>> \in Seq(T) /\ DOMAIN <<>> = {}
      OBVIOUS
    <3>2. 0 <= MaxBatch
      BY WindowLimits
    <3> QED BY <1>1, <3>1, <3>2
  <2> QED BY <1>1, <2>2, <2>3 DEF PageOK, Scheduled
<1>3. /\ model \in Models /\ page \in [Pages -> PageRecords] /\ cand \in [Pages -> Seq(States)]
      /\ encoded \in 0..EncodedCap /\ raw \in 0..RawCap
      /\ tripped = FALSE /\ windowExpired \in BOOLEAN /\ windowVerdict \in WindowVerdicts
  <2>1. page \in [Pages -> PageRecords]
    BY <1>1 DEF WindowInit
  <2>2. cand \in [Pages -> Seq(States)]
    BY DEF WindowInit
  <2>3. 0 \in 0..EncodedCap /\ 0 \in 0..RawCap
    <3>1. EncodedCap \in Nat /\ RawCap \in Nat
      BY WindowLimits
    <3> QED BY <3>1
  <2>4. model \in Models /\ encoded = 0 /\ raw = 0 /\ tripped = FALSE /\ windowExpired = FALSE /\ windowVerdict = "run"
    BY DEF WindowInit
  <2> QED BY <2>1, <2>2, <2>3, <2>4 DEF WindowVerdicts
<1>4. /\ encoded = SumFunction([p \in Pages |-> page[p].encoded]) /\ raw >= SumFunction([p \in Pages |-> page[p].raw])
      /\ ledger = SumFunction([p \in Pages |-> Weight(page[p].sizes, cand[p], Carried)])
  <2>1. ASSUME NEW w, DOMAIN w = Pages, \A p \in Pages : w[p] = 0 PROVE SumFunction(w) = 0
    BY <2>1, WindowLimits, SumZero DEF SumFunction
  <2>2. SumFunction([p \in Pages |-> page[p].encoded]) = 0 /\ SumFunction([p \in Pages |-> page[p].raw]) = 0
    BY <1>1, <2>1
  <2>3. \A p \in Pages : Weight(page[p].sizes, cand[p], Carried) = 0
    <3> TAKE p \in Pages
    <3>1. Among(cand[p], Carried) = {}
      BY <1>1 DEF Among
    <3> QED BY <3>1, WeightNothing
  <2>4. SumFunction([p \in Pages |-> Weight(page[p].sizes, cand[p], Carried)]) = 0
    BY <2>1, <2>3
  <2> QED BY <2>2, <2>4 DEF WindowInit
<1>5. ledger = 0
  BY DEF WindowInit
<1> QED BY <1>2, <1>3, <1>4, <1>5 DEF WindowInv

(* A window of pages counts its bytes exactly.                             *)
THEOREM WindowInvariant == WindowSpec => []WindowInv
<1>1. WindowInit => WindowInv
  BY WindowStarts
<1>2. WindowInv /\ [WindowNext]_pagesVars => WindowInv'
  BY WindowSteps
<1> QED BY <1>1, <1>2, PTL DEF WindowSpec

\* The invariant says what the window promises.
LEMMA WindowSays == WindowInv => WindowTypeOK /\ ResidentExact /\ SentinelQuiet /\ ReportsHonest
<1> SUFFICES ASSUME WindowInv PROVE WindowTypeOK /\ ResidentExact /\ SentinelQuiet /\ ReportsHonest
  OBVIOUS
<1>1. WindowTypeOK
  <2>1. model \in Models /\ DOMAIN page = Pages /\ DOMAIN cand = Pages
    BY DEF WindowInv
  <2>2. ASSUME NEW p \in Pages
        PROVE  /\ page[p].pc \in PagePlaces /\ cand[p] \in Seq(States) /\ page[p].resident \in Nat /\ page[p].reserved \in {0, MaxRequest}
    BY PageIs DEF PageRecords
  <2>3. encoded \in 0..EncodedCap /\ raw \in 0..RawCap /\ windowVerdict \in WindowVerdicts
    BY DEF WindowInv
  <2>4. ledger \in Nat
    <3>1. CASE Pages = {}
      <4>1. CASE model = "classic"
        BY <4>1 DEF WindowInv
      <4>2. CASE model # "classic"
        <5> DEFINE w == [p \in Pages |-> Weight(page[p].sizes, cand[p], Carried)]
        <5>1. ledger = SumFunction(w) /\ DOMAIN w = {}
          BY <3>1, <4>2 DEF WindowInv
        <5> HIDE DEF w
        <5>2. ledger = 0
          BY <5>1, SumEmpty DEF SumFunction
        <5> QED BY <5>2
      <4> QED BY <4>1, <4>2
    <3>2. CASE Pages # {}
      BY <3>2, PageIs
    <3> QED BY <3>1, <3>2
  <2> QED BY <2>1, <2>2, <2>3, <2>4 DEF WindowTypeOK, PagePlaces, WindowVerdicts
<1>2. ResidentExact
  <2> SUFFICES ASSUME NEW p \in Pages
               PROVE  /\ page[p].resident = page[p].reserved + CandidateBytes(p, {"held", "wait", "http"})
                      /\ page[p].resident <= MaxBatch
                      /\ page[p].reserved = 0 \/ In(p, {"cpu", "encode"}) # {}
    BY DEF ResidentExact
  <2>1. PageOK(page[p], cand[p])
    BY PageIs
  <2>2. CandidateBytes(p, {"held", "wait", "http"}) = Weight(page[p].sizes, cand[p], OnTheWay) /\ In(p, {"cpu", "encode"}) = Among(cand[p], {"cpu", "encode"})
    BY DEF CandidateBytes, Weight, OnTheWay, In, Among
  <2> QED BY <2>1, <2>2 DEF PageOK
<1>3. SentinelQuiet /\ ReportsHonest
  BY DEF SentinelQuiet, ReportsHonest, WindowInv
<1> QED BY <1>1, <1>2, <1>3

(* The byte counters of a window of pages (vlm_client.rs) are exact: a page *)
(* holds what its candidates weigh, within the batch cap; the sentinel      *)
(* ledger over the window never refuses a charge; and what the pages report *)
(* is what the document was charged.                                        *)
THEOREM WindowIsExact == WindowSpec => [](WindowTypeOK /\ ResidentExact /\ SentinelQuiet /\ ReportsHonest)
BY WindowInvariant, WindowSays, PTL

-----------------------------------------------------------------------------
(* Image batches, for any number of images and blocks.                      *)

\* A list of replies, each with the place of its request, no two with the same place.
Numbered(pairs) ==
    /\ DOMAIN pairs = 1..Len(pairs) /\ Len(pairs) \in Nat
    /\ \A j \in DOMAIN pairs : pairs[j][1] \in DOMAIN pairs
    /\ \A j, k \in DOMAIN pairs : pairs[j][1] = pairs[k][1] => j = k

\* Every place has its reply.
LEMMA NumberedOnto ==
  ASSUME NEW pairs, Numbered(pairs)
  PROVE  \A k \in DOMAIN pairs : \E j \in DOMAIN pairs : pairs[j][1] = k
<1> DEFINE D == DOMAIN pairs
           f == [j \in D |-> pairs[j][1]]
<1>1. IsFiniteSet(D)
  BY FS_Interval DEF Numbered
<1>2. f \in [D -> D] /\ \A j, k \in D : f[j] = f[k] => j = k
  BY DEF Numbered
<1> HIDE DEF f, D
<1>3. f \in Injection(D, D)
  BY <1>2 DEF Injection, IsInjective
<1>4. f \in Surjection(D, D)
  BY <1>1, <1>3, FS_Injection
<1>5. \A k \in D : \E j \in D : f[j] = k
  BY <1>4 DEF Surjection
<1> QED BY <1>5 DEF f, D

\* An order of places in which none comes before an earlier one is the order itself.
LEMMA MonotoneIsSame ==
  ASSUME NEW n \in Nat, NEW g \in [1..n -> 1..n], \A i, j \in 1..n : i < j => g[i] <= g[j],
         \A i, j \in 1..n : g[i] = g[j] => i = j, \A k \in 1..n : \E i \in 1..n : g[i] = k
  PROVE  \A i \in 1..n : g[i] = i
<1> DEFINE B == {i \in 1..n : g[i] # i}
<1>1. ASSUME B # {} PROVE FALSE
  <2>1. PICK m \in B : \A y \in B : m <= y
    <3>1. B \in SUBSET (0..n)
      OBVIOUS
    <3> HIDE DEF B
    <3> QED BY <1>1, <3>1, LeastNumber
  <2>2. m \in 1..n /\ m \in Nat /\ g[m] # m /\ g[m] \in 1..n
    BY <2>1
  <2>3. \A i \in 1..n : i < m => g[i] = i
    BY <2>1, <2>2
  <2>4. PICK k \in 1..n : g[k] = m
    BY <2>2
  <2>5. k # m /\ ~ (k < m)
    BY <2>2, <2>3, <2>4
  <2>6. m < k
    BY <2>2, <2>4, <2>5
  <2>7. g[m] <= m
    BY <2>2, <2>4, <2>6
  <2>8. g[m] < m
    BY <2>2, <2>7
  <2>9. g[g[m]] = g[m]
    BY <2>2, <2>3, <2>8
  <2> QED BY <2>2, <2>9
<1> QED BY <1>1

\* Sorted, every reply is at the place of its request.
LEMMA SortedReplies ==
  ASSUME NEW pairs, Numbered(pairs)
  PROVE  /\ DOMAIN RepliesInOrder(pairs) = DOMAIN pairs
         /\ \A i \in DOMAIN pairs : \E j \in DOMAIN pairs : RepliesInOrder(pairs)[i] = pairs[j] /\ pairs[j][1] = i
<1> DEFINE D == DOMAIN pairs
           n == Len(pairs)
           key(j) == pairs[j][1]
           OK(p) == \A i, j \in D : i < j => key(p[i]) <= key(p[j])
           sorting == CHOOSE p \in Bijection(D, D) : OK(p)
           back == [k \in D |-> CHOOSE j \in D : key(j) = k]
<1>1. D = 1..n /\ n \in Nat /\ (\A j \in D : key(j) \in D) /\ (\A j, k \in D : key(j) = key(k) => j = k)
  BY DEF Numbered
<1>2. \A k \in D : \E j \in D : key(j) = k
  BY NumberedOnto
<1>3. RepliesInOrder(pairs) = [i \in D |-> pairs[sorting[i]]]
  BY DEF RepliesInOrder
<1> HIDE DEF D, n, key, sorting
<1>4. \A k \in D : back[k] \in D /\ key(back[k]) = k
  BY <1>2
<1>5. back \in [D -> D]
  BY <1>4
<1> HIDE DEF back
<1>6. back \in Bijection(D, D)
  <2>1. \A j, k \in D : back[j] = back[k] => j = k
    BY <1>4
  <2>2. \A j \in D : \E k \in D : back[k] = j
    <3> TAKE j \in D
    <3>1. key(j) \in D /\ back[key(j)] \in D /\ key(back[key(j)]) = key(j)
      BY <1>1, <1>4
    <3> QED BY <1>1, <3>1
  <2> QED BY <1>5, <2>1, <2>2 DEF Bijection, Injection, Surjection, IsInjective
<1>7. OK(back)
  <2>1. ASSUME NEW i \in D, NEW j \in D, i < j PROVE key(back[i]) <= key(back[j])
    <3>1. key(back[i]) = i /\ key(back[j]) = j /\ i \in Nat /\ j \in Nat
      BY <1>1, <1>4
    <3> QED BY <2>1, <3>1
  <2> QED BY <2>1
<1>8. sorting \in Bijection(D, D) /\ OK(sorting)
  <2> HIDE DEF OK
  <2> QED BY <1>6, <1>7 DEF sorting
<1>9. /\ sorting \in [D -> D] /\ (\A i, j \in D : sorting[i] = sorting[j] => i = j)
      /\ \A k \in D : \E i \in D : sorting[i] = k
  BY <1>8 DEF Bijection, Injection, Surjection, IsInjective
<1> DEFINE g == [i \in D |-> key(sorting[i])]
<1>10. \A i \in D : g[i] = i
  <2>1. g \in [1..n -> 1..n] /\ \A i, j \in 1..n : i < j => g[i] <= g[j]
    BY <1>1, <1>8, <1>9
  <2>2. \A i, j \in 1..n : g[i] = g[j] => i = j
    BY <1>1, <1>9
  <2>3. \A k \in 1..n : \E i \in 1..n : g[i] = k
    <3> TAKE k \in 1..n
    <3>1. PICK j \in D : key(j) = k
      BY <1>1, <1>2
    <3>2. PICK i \in D : sorting[i] = j
      BY <1>9
    <3> QED BY <1>1, <3>1, <3>2
  <2> HIDE DEF g
  <2>4. \A i \in 1..n : g[i] = i
    BY <1>1, <2>1, <2>2, <2>3, MonotoneIsSame
  <2> QED BY <1>1, <2>4
<1>11. \A i \in D : sorting[i] \in D /\ key(sorting[i]) = i
  BY <1>9, <1>10
<1>12. ASSUME NEW i \in D PROVE \E j \in D : RepliesInOrder(pairs)[i] = pairs[j] /\ pairs[j][1] = i
  BY <1>3, <1>11 DEF key
<1> QED BY <1>3, <1>12 DEF D

ImagePlaces == {"new", "admitted", "layout", "laid", "prepared", "done"}
ImageRecords == [pc : ImagePlaces, kind : ImageKinds, n : Nat]
BlockRequests == Images \X Nat

BatchShape ==
    /\ mode \in BatchModes /\ image \in [Images -> ImageRecords] /\ reqs \in [Images -> Seq(BlockRequests)]
    /\ out \in [Images -> Seq(Nat \X BlockRequests)] /\ active \subseteq BlockRequests
    /\ filled \in [Images -> Seq(BlockRequests)] /\ batchOutcome \in {"run", "ok", "failed"}

\* A batch holds each block of its prepared images once, and nothing else.
Requested ==
    \A b \in Images :
       /\ \A j, k \in DOMAIN reqs[b] : reqs[b][j] = reqs[b][k] => j = k
       /\ \A r \in BlockRequests : (\E j \in DOMAIN reqs[b] : reqs[b][j] = r) <=>
             (BatchOf(r[1]) = b /\ image[r[1]].pc \in {"prepared", "done"} /\ r[2] \in 1..image[r[1]].n)

\* A reply stands with the place of its request, which is answered once and no more on its way.
Received ==
    \A b \in Images :
       /\ \A j \in DOMAIN out[b] : /\ out[b][j][1] \in DOMAIN reqs[b] /\ out[b][j][2] = reqs[b][out[b][j][1]]
                                   /\ out[b][j][2] \notin active
       /\ \A j, k \in DOMAIN out[b] : out[b][j][1] = out[b][k][1] => j = k

\* A block is on its way only between the preparation of its batch and its end.
Sending ==
    \A r \in active : r[2] > 0 =>
       /\ Opened(BatchOf(r[1])) /\ \E j \in DOMAIN reqs[BatchOf(r[1])] : reqs[BatchOf(r[1])][j] = r

Filling ==
    /\ \A i \in Images : \A k \in DOMAIN filled[i] : filled[i][k] = <<i, k>>
    /\ \A i \in Images : image[i].pc = "done" => Len(filled[i]) = image[i].n
    /\ batchOutcome = "ok" => \A i \in Images : image[i].pc = "done"

BatchInv == BatchShape /\ Requested /\ Received /\ Sending /\ Filling

\* An image is a number, and belongs to a batch.
LEMMA BatchIs == \A i \in Images : i \in Nat /\ i >= 1 /\ BatchOf(i) \in Images
<1>1. NImages \in Nat /\ NImages >= 1
  BY BatchAssumption
<1> QED BY <1>1 DEF Images, BatchOf

\* Only the outcome changes.
LEMMA BatchRests ==
  ASSUME BatchInv, UNCHANGED <<mode, image, reqs, out, active, filled>>, batchOutcome' \in {"run", "failed"} \/ batchOutcome' = batchOutcome
  PROVE  BatchInv'
<1>1. BatchShape'
  BY DEF BatchInv, BatchShape
<1>2. Requested'
  BY DEF BatchInv, Requested, BatchOf
<1>3. Received'
  BY DEF BatchInv, Received
<1>4. Sending'
  BY DEF BatchInv, Sending, Opened, BatchOf
<1>5. Filling'
  BY DEF BatchInv, Filling
<1> QED BY <1>1, <1>2, <1>3, <1>4, <1>5 DEF BatchInv

\* An image that is not prepared moves on; no block of its batch is on its way.
LEMMA ImageMoves ==
  ASSUME BatchInv, NEW i \in Images, NEW x \in {"admitted", "layout", "laid"}, image[i].pc \notin {"prepared", "done"},
         batchOutcome = "run", image' = [image EXCEPT ![i].pc = x],
         active' \subseteq active \cup {<<i, 0>>},
         UNCHANGED <<mode, reqs, out, filled, batchOutcome>>
  PROVE  BatchInv'
<1>1. /\ image \in [Images -> ImageRecords] /\ image' \in [Images -> ImageRecords] /\ image'[i].pc = x
      /\ \A k \in Images : image'[k].n = image[k].n /\ (k # i => image'[k] = image[k])
  <2>1. image \in [Images -> ImageRecords] /\ x \in ImagePlaces
    BY DEF BatchInv, BatchShape, ImagePlaces
  <2> QED BY <2>1 DEF ImageRecords
<1>2. \A k \in Images : (image'[k].pc \in {"prepared", "done"} <=> image[k].pc \in {"prepared", "done"})
                        /\ (image'[k].pc = "done" <=> image[k].pc = "done")
  BY <1>1
<1>3. BatchShape'
  <2>1. <<i, 0>> \in BlockRequests
    BY DEF BlockRequests
  <2> QED BY <1>1, <2>1 DEF BatchInv, BatchShape
<1>4. Requested'
  <2>1. \A r \in BlockRequests : r[1] \in Images
    BY DEF BlockRequests
  <2> QED BY <1>1, <1>2, <2>1 DEF BatchInv, Requested, BatchOf
<1>5. Received'
  <2>1. ASSUME NEW b \in Images, NEW j \in DOMAIN reqs[b] PROVE reqs[b][j] # <<i, 0>>
    <3>1. reqs[b][j] \in BlockRequests
      BY DEF BatchInv, BatchShape
    <3>2. reqs[b][j][2] \in 1..image[reqs[b][j][1]].n
      BY <3>1 DEF BatchInv, Requested
    <3>3. 0 \notin 1..image[reqs[b][j][1]].n
      OBVIOUS
    <3> QED BY <3>2, <3>3
  <2> QED BY <2>1 DEF BatchInv, Received
<1>6. Sending'
  <2> SUFFICES ASSUME NEW r \in active', r[2] > 0
               PROVE  Opened(BatchOf(r[1]))' /\ \E j \in DOMAIN reqs[BatchOf(r[1])] : reqs[BatchOf(r[1])][j] = r
    BY DEF Sending, BatchOf
  <2>1. r \in active
    <3>1. r # <<i, 0>>
      <4>1. CASE r = <<i, 0>>
        <5>1. r[2] = 0
          BY <4>1
        <5> QED BY <5>1
      <4> QED BY <4>1
    <3> QED BY <3>1
  <2>2. Opened(BatchOf(r[1])) /\ \E j \in DOMAIN reqs[BatchOf(r[1])] : reqs[BatchOf(r[1])][j] = r
    BY <2>1 DEF BatchInv, Sending
  <2>3. Opened(BatchOf(r[1]))'
    BY <1>1, <2>2 DEF Opened, BatchOf
  <2> QED BY <2>2, <2>3
<1>7. Filling'
  BY <1>1, <1>2 DEF BatchInv, Filling
<1> QED BY <1>3, <1>4, <1>5, <1>6, <1>7 DEF BatchInv

\* What a concatenation holds.
LEMMA Concatenated ==
  ASSUME NEW S, NEW s \in Seq(S), NEW m \in Seq(S), NEW t, t = s \o m
  PROVE  /\ t \in Seq(S) /\ DOMAIN s = 1..Len(s) /\ DOMAIN t = 1..(Len(s) + Len(m))
         /\ (\A j \in 1..Len(s) : t[j] = s[j]) /\ (\A k \in 1..Len(m) : t[Len(s) + k] = m[k])
<1>1. t \in Seq(S) /\ DOMAIN s = 1..Len(s) /\ DOMAIN t = 1..(Len(s) + Len(m))
  OBVIOUS
<1>2. \A j \in 1..Len(s) : t[j] = s[j]
  OBVIOUS
<1>3. \A k \in 1..Len(m) : t[Len(s) + k] = m[k]
  OBVIOUS
<1> QED BY <1>1, <1>2, <1>3

\* The blocks of an image join its batch, each once.
LEMMA BlocksPrepareKeeps == ASSUME BatchInv, NEW i \in Images, PrepareBlocks(i) PROVE BatchInv'
<1>1. CASE BatchFails
  BY <1>1, BatchRests DEF BatchFails
<1>2. CASE ~BatchFails
  <2> DEFINE c == BatchOf(i)
             s == reqs[c]
             n == image[i].n
             more == [b \in 1..n |-> <<i, b>>]
             t == s \o more
  <2>1. /\ image[i].pc = "laid" /\ reqs' = [reqs EXCEPT ![c] = t] /\ image' = [image EXCEPT ![i].pc = "prepared"]
        /\ UNCHANGED <<mode, out, active, filled, batchOutcome>> /\ batchOutcome = "run"
    BY <1>2 DEF PrepareBlocks
  <2>2. /\ c \in Images /\ s \in Seq(BlockRequests) /\ n \in Nat /\ more \in Seq(BlockRequests) /\ Len(more) = n /\ DOMAIN more = 1..n
        /\ Len(s) \in Nat
    <3>1. image \in [Images -> ImageRecords] /\ reqs \in [Images -> Seq(BlockRequests)] /\ c \in Images
      BY BatchIs DEF BatchInv, BatchShape
    <3>2. n \in Nat
      BY <3>1 DEF ImageRecords
    <3> HIDE DEF n
    <3>3. \A b \in 1..n : <<i, b>> \in BlockRequests
      BY DEF BlockRequests
    <3>4. more \in Seq(BlockRequests) /\ Len(more) = n /\ DOMAIN more = 1..n
      BY <3>2, <3>3
    <3> QED BY <3>1, <3>2, <3>4
  <2>3. \A b \in 1..n : more[b] = <<i, b>>
    OBVIOUS
  <2>4. t = s \o more
    OBVIOUS
  <2> HIDE DEF t, more, s, n
  <2>5. /\ t \in Seq(BlockRequests) /\ DOMAIN s = 1..Len(s) /\ DOMAIN t = 1..(Len(s) + n)
        /\ (\A j \in 1..Len(s) : t[j] = s[j]) /\ (\A k \in 1..n : t[Len(s) + k] = <<i, k>>)
    <3>1. /\ t \in Seq(BlockRequests) /\ DOMAIN s = 1..Len(s) /\ DOMAIN t = 1..(Len(s) + Len(more))
          /\ (\A j \in 1..Len(s) : t[j] = s[j]) /\ (\A k \in 1..Len(more) : t[Len(s) + k] = more[k])
      <4>1. s \in Seq(BlockRequests) /\ more \in Seq(BlockRequests)
        BY <2>2
      <4> QED BY ONLY <2>4, <4>1, Concatenated
    <3> QED BY <2>2, <2>3, <3>1
  <2>6. /\ image \in [Images -> ImageRecords] /\ image' \in [Images -> ImageRecords] /\ image'[i].pc = "prepared"
        /\ \A k \in Images : image'[k].n = image[k].n /\ (k # i => image'[k] = image[k])
    <3>1. image \in [Images -> ImageRecords] /\ "prepared" \in ImagePlaces
      BY DEF BatchInv, BatchShape, ImagePlaces
    <3> QED BY <2>1, <3>1 DEF ImageRecords
  <2>7. reqs'[c] = t /\ (\A b \in Images : b # c => reqs'[b] = reqs[b]) /\ DOMAIN reqs' = Images /\ reqs' \in [Images -> Seq(BlockRequests)]
    BY <2>1, <2>2, <2>5 DEF BatchInv, BatchShape
  <2>8. BatchShape'
    BY <2>1, <2>6, <2>7 DEF BatchInv, BatchShape
  <2>9. /\ \A j, k \in DOMAIN s : s[j] = s[k] => j = k
        /\ \A r \in BlockRequests : (\E j \in DOMAIN s : s[j] = r) <=>
              (BatchOf(r[1]) = c /\ image[r[1]].pc \in {"prepared", "done"} /\ r[2] \in 1..image[r[1]].n)
    BY <2>2 DEF BatchInv, Requested, s
  <2>10. \A k \in Nat, j \in DOMAIN s : s[j] # <<i, k>>
    <3> SUFFICES ASSUME NEW k \in Nat, NEW j \in DOMAIN s, s[j] = <<i, k>> PROVE FALSE
      OBVIOUS
    <3>1. <<i, k>> \in BlockRequests /\ <<i, k>>[1] = i
      BY DEF BlockRequests
    <3>2. image[i].pc \in {"prepared", "done"}
      <4> DEFINE r == <<i, k>>
      <4>1. r \in BlockRequests /\ r[1] = i /\ \E l \in DOMAIN s : s[l] = r
        BY <3>1
      <4> HIDE DEF r
      <4>2. image[r[1]].pc \in {"prepared", "done"}
        BY <2>9, <4>1
      <4> QED BY <4>1, <4>2
    <3> QED BY <2>1, <3>2
  <2>11. Requested'
    <3> SUFFICES ASSUME NEW b \in Images
                 PROVE  /\ \A j, k \in DOMAIN reqs'[b] : reqs'[b][j] = reqs'[b][k] => j = k
                        /\ \A r \in BlockRequests : (\E j \in DOMAIN reqs'[b] : reqs'[b][j] = r) <=>
                              (BatchOf(r[1]) = b /\ image'[r[1]].pc \in {"prepared", "done"} /\ r[2] \in 1..image'[r[1]].n)
      BY <2>1 DEF Requested, BatchOf
    <3>1. CASE b # c
      <4>1. /\ \A j, k \in DOMAIN reqs[b] : reqs[b][j] = reqs[b][k] => j = k
            /\ \A r \in BlockRequests : (\E j \in DOMAIN reqs[b] : reqs[b][j] = r) <=>
                  (BatchOf(r[1]) = b /\ image[r[1]].pc \in {"prepared", "done"} /\ r[2] \in 1..image[r[1]].n)
        BY DEF BatchInv, Requested
      <4>2. \A r \in BlockRequests : r[1] \in Images /\ (BatchOf(r[1]) = b => r[1] # i)
        BY <3>1 DEF BlockRequests
      <4>3. reqs'[b] = reqs[b]
        BY <2>7, <3>1
      <4>4. ASSUME NEW r \in BlockRequests
            PROVE  (BatchOf(r[1]) = b /\ image'[r[1]].pc \in {"prepared", "done"} /\ r[2] \in 1..image'[r[1]].n) <=>
                   (BatchOf(r[1]) = b /\ image[r[1]].pc \in {"prepared", "done"} /\ r[2] \in 1..image[r[1]].n)
        BY <2>6, <4>2
      <4> HIDE DEF c
      <4> QED BY <4>1, <4>3, <4>4
    <3>2. CASE b = c
      <4>1. ASSUME NEW j \in DOMAIN t, NEW k \in DOMAIN t, t[j] = t[k] PROVE j = k
        <5>1. CASE j <= Len(s) /\ k <= Len(s)
          BY <2>2, <2>5, <2>9, <4>1, <5>1
        <5>2. CASE j <= Len(s) /\ ~ (k <= Len(s))
          <6>1. j \in DOMAIN s /\ t[j] = s[j]
            BY <2>2, <2>5, <5>2
          <6> DEFINE l == k - Len(s)
          <6>2. l \in 1..n /\ l \in Nat /\ k = Len(s) + l
            BY <2>2, <2>5, <5>2
          <6> HIDE DEF l
          <6>3. t[k] = <<i, l>>
            BY <2>5, <6>2
          <6> QED BY <2>10, <4>1, <6>1, <6>2, <6>3
        <5>3. CASE ~ (j <= Len(s)) /\ k <= Len(s)
          <6>1. k \in DOMAIN s /\ t[k] = s[k]
            BY <2>2, <2>5, <5>3
          <6> DEFINE l == j - Len(s)
          <6>2. l \in 1..n /\ l \in Nat /\ j = Len(s) + l
            BY <2>2, <2>5, <5>3
          <6> HIDE DEF l
          <6>3. t[j] = <<i, l>>
            BY <2>5, <6>2
          <6> QED BY <2>10, <4>1, <6>1, <6>2, <6>3
        <5>4. CASE ~ (j <= Len(s)) /\ ~ (k <= Len(s))
          <6> DEFINE l == j - Len(s)
                     m == k - Len(s)
          <6>1. l \in 1..n /\ m \in 1..n /\ j = Len(s) + l /\ k = Len(s) + m
            BY <2>2, <2>5, <5>4
          <6> HIDE DEF l, m
          <6>2. t[j] = <<i, l>> /\ t[k] = <<i, m>>
            BY <2>5, <6>1
          <6>3. t[j][2] = l /\ t[k][2] = m
            BY <6>2
          <6>4. l = m
            BY <4>1, <6>3
          <6> QED BY <6>1, <6>4
        <5> QED BY <5>1, <5>2, <5>3, <5>4
      <4>2. ASSUME NEW r \in BlockRequests
            PROVE  (\E j \in DOMAIN t : t[j] = r) <=> ((\E j \in DOMAIN s : s[j] = r) \/ (r[1] = i /\ r[2] \in 1..n))
        <5>1. ASSUME NEW j \in DOMAIN t, t[j] = r PROVE (\E l \in DOMAIN s : s[l] = r) \/ (r[1] = i /\ r[2] \in 1..n)
          <6>1. CASE j <= Len(s)
            BY <2>2, <2>5, <5>1, <6>1
          <6>2. CASE ~ (j <= Len(s))
            <7> DEFINE l == j - Len(s)
            <7>1. l \in 1..n /\ j = Len(s) + l
              BY <2>2, <2>5, <6>2
            <7> HIDE DEF l
            <7>2. r = <<i, l>>
              BY <2>5, <5>1, <7>1
            <7>3. r[1] = i /\ r[2] = l
              BY <7>2
            <7> QED BY <7>1, <7>3
          <6> QED BY <6>1, <6>2
        <5>2. ASSUME NEW j \in DOMAIN s, s[j] = r PROVE \E l \in DOMAIN t : t[l] = r
          <6>1. j \in DOMAIN t /\ t[j] = r
            BY <2>2, <2>5, <5>2
          <6> QED BY <6>1
        <5>3. ASSUME r[1] = i, r[2] \in 1..n PROVE \E l \in DOMAIN t : t[l] = r
          <6> DEFINE k == r[2]
          <6>1. k \in 1..n /\ r = <<i, k>>
            BY <5>3 DEF BlockRequests
          <6> HIDE DEF k
          <6>2. Len(s) + k \in DOMAIN t /\ t[Len(s) + k] = r
            BY <2>2, <2>5, <6>1
          <6> QED BY <6>2
        <5> QED BY <5>1, <5>2, <5>3
      <4>3. ASSUME NEW r \in BlockRequests
            PROVE  ((\E j \in DOMAIN s : s[j] = r) \/ (r[1] = i /\ r[2] \in 1..n)) <=>
                   (BatchOf(r[1]) = c /\ image'[r[1]].pc \in {"prepared", "done"} /\ r[2] \in 1..image'[r[1]].n)
        <5>1. r[1] \in Images
          BY DEF BlockRequests
        <5>2. CASE r[1] = i
          <6>1. ~\E j \in DOMAIN s : s[j] = r
            BY <2>1, <2>9, <5>2
          <6>2. image'[r[1]].pc = "prepared" /\ image'[r[1]].n = n /\ BatchOf(r[1]) = c
            BY <2>6, <5>2 DEF n
          <6> QED BY <5>2, <6>1, <6>2
        <5>3. CASE r[1] # i
          <6>1. image'[r[1]] = image[r[1]]
            BY <2>6, <5>1, <5>3
          <6> QED BY <2>9, <5>3, <6>1
        <5> QED BY <5>2, <5>3
      <4>4. \A r \in BlockRequests : (\E j \in DOMAIN t : t[j] = r) <=>
                (BatchOf(r[1]) = c /\ image'[r[1]].pc \in {"prepared", "done"} /\ r[2] \in 1..image'[r[1]].n)
        <5> TAKE r \in BlockRequests
        <5>1. (\E j \in DOMAIN t : t[j] = r) <=> ((\E j \in DOMAIN s : s[j] = r) \/ (r[1] = i /\ r[2] \in 1..n))
          BY <4>2
        <5>2. ((\E j \in DOMAIN s : s[j] = r) \/ (r[1] = i /\ r[2] \in 1..n)) <=>
                   (BatchOf(r[1]) = c /\ image'[r[1]].pc \in {"prepared", "done"} /\ r[2] \in 1..image'[r[1]].n)
          BY <4>3
        <5> QED BY <5>1, <5>2
      <4> HIDE DEF c
      <4> QED BY <2>7, <3>2, <4>1, <4>4
    <3> QED BY <3>1, <3>2
  <2>12. Received'
    <3>1. ASSUME NEW b \in Images, NEW j \in DOMAIN reqs[b] PROVE j \in DOMAIN reqs'[b] /\ reqs'[b][j] = reqs[b][j]
      <4>1. CASE b = c
        <5>1. j \in DOMAIN s
          BY <4>1 DEF s
        <5>2. j \in DOMAIN t /\ t[j] = s[j]
          BY <2>2, <2>5, <5>1
        <5> QED BY <2>7, <4>1, <5>2 DEF s
      <4>2. CASE b # c
        BY <2>7, <4>2
      <4> QED BY <4>1, <4>2
    <3> QED BY <2>1, <3>1 DEF BatchInv, Received
  <2>13. Sending'
    <3> SUFFICES ASSUME NEW r \in active, r[2] > 0
                 PROVE  Opened(BatchOf(r[1]))' /\ \E j \in DOMAIN reqs'[BatchOf(r[1])] : reqs'[BatchOf(r[1])][j] = r
      BY <2>1 DEF Sending, BatchOf
    <3>1. Opened(BatchOf(r[1])) /\ \E j \in DOMAIN reqs[BatchOf(r[1])] : reqs[BatchOf(r[1])][j] = r
      BY DEF BatchInv, Sending
    <3>2. BatchOf(r[1]) # c
      BY <2>1, <3>1 DEF Opened
    <3>3. BatchOf(r[1]) \in Images
      <4>1. r[1] \in Images
        BY DEF BatchInv, BatchShape, BlockRequests
      <4> QED BY <4>1, BatchIs
    <3>4. Opened(BatchOf(r[1]))'
      BY <2>1, <2>6, <3>1 DEF Opened, BatchOf
    <3> QED BY <2>7, <3>1, <3>2, <3>3, <3>4
  <2>14. Filling'
    BY <2>1, <2>6 DEF BatchInv, Filling
  <2> QED BY <2>8, <2>11, <2>12, <2>13, <2>14 DEF BatchInv
<1> QED BY <1>1, <1>2

\* A request is of one batch and one place.
LEMMA RequestIs ==
  ASSUME BatchInv, NEW b \in Images, NEW k \in DOMAIN reqs[b]
  PROVE  /\ reqs[b][k] \in BlockRequests /\ BatchOf(reqs[b][k][1]) = b /\ reqs[b][k][2] > 0
         /\ \A c \in Images : \A m \in DOMAIN reqs[c] : reqs[c][m] = reqs[b][k] => c = b /\ m = k
<1>1. \A c \in Images : \A m \in DOMAIN reqs[c] : reqs[c][m] \in BlockRequests
  BY DEF BatchInv, BatchShape
<1>2. ASSUME NEW c \in Images, NEW m \in DOMAIN reqs[c] PROVE BatchOf(reqs[c][m][1]) = c /\ reqs[c][m][2] \in 1..image[reqs[c][m][1]].n
  <2>1. reqs[c][m] \in BlockRequests
    BY <1>1
  <2> DEFINE r == reqs[c][m]
  <2>2. r \in BlockRequests /\ \E j \in DOMAIN reqs[c] : reqs[c][j] = r
    BY <2>1
  <2> HIDE DEF r
  <2>3. BatchOf(r[1]) = c /\ r[2] \in 1..image[r[1]].n
    BY <2>2 DEF BatchInv, Requested
  <2> QED BY <2>3 DEF r
<1>3. reqs[b][k][2] > 0
  <2> DEFINE l == reqs[b][k][2]
             n == image[reqs[b][k][1]].n
  <2>1. l \in 1..n
    BY <1>2
  <2> HIDE DEF l, n
  <2>2. l > 0
    BY <2>1
  <2> QED BY <2>2 DEF l
<1>4. ASSUME NEW c \in Images, NEW m \in DOMAIN reqs[c], reqs[c][m] = reqs[b][k] PROVE c = b /\ m = k
  <2>1. c = b
    BY <1>2, <1>4
  <2>2. \A j, l \in DOMAIN reqs[b] : reqs[b][j] = reqs[b][l] => j = l
    BY DEF BatchInv, Requested
  <2> QED BY <1>4, <2>1, <2>2
<1> QED BY <1>1, <1>2, <1>3, <1>4

\* A block is sent that has no reply and is not on its way.
LEMMA SendBlockKeeps == ASSUME BatchInv, NEW b \in Images, SendBlock(b) PROVE BatchInv'
<1>1. PICK k \in Pending(b) : active' = active \cup {reqs[b][k]}
  BY DEF SendBlock
<1>2. Opened(b) /\ UNCHANGED <<mode, image, reqs, out, filled, batchOutcome>>
  BY DEF SendBlock
<1> DEFINE r == reqs[b][k]
<1>3. k \in DOMAIN reqs[b] /\ \A e \in ToSet(out[b]) : e[1] # k
  BY DEF Pending
<1>4. /\ r \in BlockRequests /\ BatchOf(r[1]) = b /\ r[2] > 0
      /\ \A c \in Images : \A m \in DOMAIN reqs[c] : reqs[c][m] = r => c = b /\ m = k
  BY <1>3, RequestIs
<1>5. r = reqs[b][k] /\ active' = active \cup {r}
  BY <1>1
<1> HIDE DEF r
<1>6. BatchShape'
  BY <1>2, <1>4, <1>5 DEF BatchInv, BatchShape
<1>7. Requested'
  BY <1>2 DEF BatchInv, Requested, BatchOf
<1>8. Received'
  <2>1. ASSUME NEW c \in Images, NEW j \in DOMAIN out[c] PROVE out[c][j][2] # r
    <3> SUFFICES ASSUME out[c][j][2] = r PROVE FALSE
      OBVIOUS
    <3> DEFINE m == out[c][j][1]
    <3>1. m \in DOMAIN reqs[c] /\ out[c][j][2] = reqs[c][m]
      BY DEF BatchInv, Received
    <3>2. c = b /\ m = k
      <4> HIDE DEF m
      <4> QED BY <1>4, <3>1
    <3>3. out[b][j] \in ToSet(out[b])
      BY <3>2 DEF ToSet
    <3> QED BY <1>3, <3>2, <3>3
  <2> QED BY <1>2, <1>5, <2>1 DEF BatchInv, Received
<1>9. Sending'
  <2> SUFFICES ASSUME NEW q \in active', q[2] > 0
               PROVE  Opened(BatchOf(q[1])) /\ \E j \in DOMAIN reqs[BatchOf(q[1])] : reqs[BatchOf(q[1])][j] = q
    BY <1>2 DEF Sending, Opened, BatchOf
  <2>1. CASE q \in active
    BY <2>1 DEF BatchInv, Sending
  <2>2. CASE q = r
    BY <1>2, <1>3, <1>4, <1>5, <2>2
  <2> QED BY <1>5, <2>1, <2>2
<1>10. Filling'
  BY <1>2 DEF BatchInv, Filling
<1> QED BY <1>6, <1>7, <1>8, <1>9, <1>10 DEF BatchInv

\* A reply is put down with the place of its request.
LEMMA BlockReceivedKeeps == ASSUME BatchInv, NEW b \in Images, BlockReceived(b) PROVE BatchInv'
<1>1. PICK k \in DOMAIN reqs[b] : /\ reqs[b][k] \in active /\ active' = active \ {reqs[b][k]}
                                  /\ out' = [out EXCEPT ![b] = Append(@, <<k, reqs[b][k]>>)]
  BY DEF BlockReceived
<1>2. UNCHANGED <<mode, image, reqs, filled, batchOutcome>>
  BY DEF BlockReceived
<1> DEFINE r == reqs[b][k]
           s == out[b]
           t == Append(s, <<k, r>>)
<1>3. r \in BlockRequests /\ s \in Seq(Nat \X BlockRequests) /\ k \in Nat /\ out \in [Images -> Seq(Nat \X BlockRequests)]
  <2>1. reqs[b] \in Seq(BlockRequests) /\ out \in [Images -> Seq(Nat \X BlockRequests)]
    BY DEF BatchInv, BatchShape
  <2> QED BY <2>1
<1>4. out' = [out EXCEPT ![b] = t] /\ r \in active /\ active' = active \ {r} /\ r = reqs[b][k]
  BY <1>1
<1>5. t = Append(s, <<k, r>>)
  OBVIOUS
<1>6. /\ \A j \in DOMAIN s : s[j][1] \in DOMAIN reqs[b] /\ s[j][2] = reqs[b][s[j][1]] /\ s[j][2] \notin active
      /\ \A j, l \in DOMAIN s : s[j][1] = s[l][1] => j = l
  BY DEF BatchInv, Received
<1> HIDE DEF r, s, t
<1>7. t \in Seq(Nat \X BlockRequests) /\ DOMAIN s = 1..Len(s) /\ Len(s) \in Nat /\ DOMAIN t = 1..(Len(s) + 1) /\ t[Len(s) + 1] = <<k, r>>
      /\ \A j \in 1..Len(s) : t[j] = s[j]
  <2>1. <<k, r>> \in Nat \X BlockRequests
    BY <1>3
  <2> QED BY <1>3, <1>5, <2>1
<1>8. out'[b] = t /\ (\A c \in Images : c # b => out'[c] = out[c]) /\ out' \in [Images -> Seq(Nat \X BlockRequests)]
  BY <1>3, <1>4, <1>7
<1>9. BatchShape'
  BY <1>2, <1>4, <1>8 DEF BatchInv, BatchShape
<1>10. Requested'
  BY <1>2 DEF BatchInv, Requested, BatchOf
<1>11. \A j \in DOMAIN s : s[j][1] # k
  BY <1>4, <1>6
<1>12. ASSUME NEW j \in DOMAIN t
       PROVE  /\ t[j][1] \in DOMAIN reqs[b] /\ t[j][2] = reqs[b][t[j][1]] /\ t[j][2] \notin active'
              /\ \A l \in DOMAIN t : t[j][1] = t[l][1] => j = l
  <2>1. CASE j = Len(s) + 1
    <3>1. t[j][1] = k /\ t[j][2] = r
      BY <1>7, <2>1
    <3>2. ASSUME NEW l \in DOMAIN t, t[j][1] = t[l][1] PROVE j = l
      <4>1. CASE l \in DOMAIN s
        BY <1>7, <1>11, <3>1, <3>2, <4>1
      <4>2. CASE l \notin DOMAIN s
        BY <1>7, <2>1, <4>2
      <4> QED BY <4>1, <4>2
    <3> QED BY <1>4, <3>1, <3>2
  <2>2. CASE j # Len(s) + 1
    <3>1. j \in DOMAIN s /\ t[j] = s[j]
      BY <1>7, <2>2
    <3>2. ASSUME NEW l \in DOMAIN t, t[j][1] = t[l][1] PROVE j = l
      <4>1. CASE l \in DOMAIN s
        BY <1>6, <1>7, <3>1, <3>2, <4>1
      <4>2. CASE l \notin DOMAIN s
        <5>1. l = Len(s) + 1
          BY <1>7, <4>2
        <5>2. t[l][1] = k
          BY <1>7, <5>1
        <5> QED BY <1>11, <3>1, <3>2, <5>2
      <4> QED BY <4>1, <4>2
    <3> QED BY <1>4, <1>6, <3>1, <3>2
  <2> QED BY <2>1, <2>2
<1>13. Received'
  <2> SUFFICES ASSUME NEW c \in Images
               PROVE  /\ \A j \in DOMAIN out'[c] : /\ out'[c][j][1] \in DOMAIN reqs[c] /\ out'[c][j][2] = reqs[c][out'[c][j][1]]
                                                   /\ out'[c][j][2] \notin active'
                      /\ \A j, l \in DOMAIN out'[c] : out'[c][j][1] = out'[c][l][1] => j = l
    BY <1>2 DEF Received
  <2>1. CASE c = b
    BY <1>8, <1>12, <2>1
  <2>2. CASE c # b
    <3>1. out'[c] = out[c] /\ active' \subseteq active
      BY <1>4, <1>8, <2>2
    <3> QED BY <3>1 DEF BatchInv, Received
  <2> QED BY <2>1, <2>2
<1>14. Sending'
  BY <1>2, <1>4 DEF BatchInv, Sending, Opened, BatchOf
<1>15. Filling'
  BY <1>2 DEF BatchInv, Filling
<1> QED BY <1>9, <1>10, <1>13, <1>14, <1>15 DEF BatchInv

\* All replies of a batch are there: none of its blocks is on its way, and sorted they stand at their requests' places.
LEMMA BatchAnswered ==
  ASSUME BatchInv, NEW b \in Images, Len(out[b]) = Len(reqs[b])
  PROVE  /\ \A k \in DOMAIN reqs[b] : reqs[b][k] \notin active
         /\ \A k \in DOMAIN reqs[b] : RepliesInOrder(out[b])[k][2] = reqs[b][k]
<1> DEFINE s == out[b]
           q == reqs[b]
<1>1. s \in Seq(Nat \X BlockRequests) /\ q \in Seq(BlockRequests) /\ Len(s) = Len(q)
  BY DEF BatchInv, BatchShape
<1>2. /\ \A j \in DOMAIN s : s[j][1] \in DOMAIN q /\ s[j][2] = q[s[j][1]] /\ s[j][2] \notin active
      /\ \A j, k \in DOMAIN s : s[j][1] = s[k][1] => j = k
  BY DEF BatchInv, Received
<1> HIDE DEF s, q
<1>3. DOMAIN s = 1..Len(s) /\ Len(s) \in Nat /\ DOMAIN q = DOMAIN s
  BY <1>1
<1>4. Numbered(s)
  BY <1>2, <1>3 DEF Numbered
<1>5. \A k \in DOMAIN q : q[k] \notin active
  <2> TAKE k \in DOMAIN q
  <2>1. PICK j \in DOMAIN s : s[j][1] = k
    BY <1>3, <1>4, NumberedOnto
  <2> QED BY <1>2, <2>1
<1>6. \A k \in DOMAIN q : RepliesInOrder(s)[k][2] = q[k]
  <2> TAKE k \in DOMAIN q
  <2>1. PICK j \in DOMAIN s : RepliesInOrder(s)[k] = s[j] /\ s[j][1] = k
    BY <1>3, <1>4, SortedReplies
  <2> QED BY <1>2, <2>1
<1> QED BY <1>5, <1>6 DEF s, q

\* The replies, sorted, fill the blocks they were asked for.
LEMMA FillBlocksKeeps == ASSUME BatchInv, NEW b \in Images, FillBlocks(b) PROVE BatchInv'
<1> DEFINE members == {i \in Images : BatchOf(i) = b}
           replies == RepliesInOrder(out[b])
           PlaceOf(i, k) == CHOOSE pos \in DOMAIN reqs[b] : reqs[b][pos] = <<i, k>>
           Given(i) == [k \in 1..image[i].n |-> replies[PlaceOf(i, k)][2]]
<1>1. /\ filled' = [i \in Images |-> IF i \in members THEN Given(i) ELSE filled[i]]
      /\ image' = [i \in Images |-> IF i \in members THEN [image[i] EXCEPT !.pc = "done"] ELSE image[i]]
      /\ batchOutcome' = IF \A j \in Images \ members : image[j].pc = "done" THEN "ok" ELSE "run"
      /\ Opened(b) /\ Len(out[b]) = Len(reqs[b]) /\ UNCHANGED <<mode, reqs, out, active>>
  BY DEF FillBlocks
<1>2. image \in [Images -> ImageRecords] /\ reqs[b] \in Seq(BlockRequests) /\ filled \in [Images -> Seq(BlockRequests)] /\ "done" \in ImagePlaces
  BY DEF BatchInv, BatchShape, ImagePlaces
<1>3. /\ \A k \in DOMAIN reqs[b] : reqs[b][k] \notin active
      /\ \A k \in DOMAIN reqs[b] : replies[k][2] = reqs[b][k]
  BY <1>1, BatchAnswered
<1>4. \A i \in members : i \in Images /\ image[i].pc = "prepared"
  BY <1>1 DEF Opened
<1>5. ASSUME NEW i \in members, NEW k \in 1..image[i].n PROVE replies[PlaceOf(i, k)][2] = <<i, k>>
  <2> DEFINE r == <<i, k>>
  <2>1. r \in BlockRequests /\ BatchOf(r[1]) = b /\ image[r[1]].pc \in {"prepared", "done"} /\ r[2] \in 1..image[r[1]].n
    BY <1>4 DEF BlockRequests
  <2> HIDE DEF r
  <2>2. \E j \in DOMAIN reqs[b] : reqs[b][j] = r
    BY <2>1 DEF BatchInv, Requested
  <2>3. PlaceOf(i, k) \in DOMAIN reqs[b] /\ reqs[b][PlaceOf(i, k)] = r
    BY <2>2 DEF r
  <2> HIDE DEF PlaceOf, replies
  <2> QED BY <1>3, <2>3 DEF r
<1> HIDE DEF replies, PlaceOf
<1>6. ASSUME NEW i \in members PROVE /\ Given(i) \in Seq(BlockRequests) /\ Len(Given(i)) = image[i].n /\ \A k \in DOMAIN Given(i) : Given(i)[k] = <<i, k>>
  <2>1. image[i].n \in Nat /\ i \in Images
    BY <1>2, <1>4 DEF ImageRecords
  <2> DEFINE n == image[i].n
             g == Given(i)
  <2>2. \A k \in 1..n : replies[PlaceOf(i, k)][2] = <<i, k>>
    BY <1>5
  <2>3. g = [k \in 1..n |-> <<i, k>>]
    BY <2>2
  <2>4. n \in Nat
    BY <2>1
  <2> HIDE DEF n, g
  <2>5. \A k \in 1..n : <<i, k>> \in BlockRequests
    BY <2>1, <2>4 DEF BlockRequests
  <2>6. g \in Seq(BlockRequests) /\ Len(g) = n /\ \A k \in DOMAIN g : g[k] = <<i, k>>
    BY <2>3, <2>4, <2>5
  <2> QED BY <2>6 DEF n, g
<1> HIDE DEF members, Given
<1>7. /\ \A i \in members : i \in Images /\ BatchOf(i) = b
      /\ \A i \in Images : BatchOf(i) = b => i \in members
  BY DEF members
<1>8. ASSUME NEW i \in Images
      PROVE  /\ image'[i] \in ImageRecords /\ image'[i].n = image[i].n
             /\ i \in members => image'[i].pc = "done" /\ filled'[i] = Given(i)
             /\ i \notin members => image'[i] = image[i] /\ filled'[i] = filled[i]
  <2>1. image[i] \in ImageRecords
    BY <1>2
  <2>2. CASE i \in members
    <3>1. image'[i] = [image[i] EXCEPT !.pc = "done"] /\ filled'[i] = Given(i)
      BY <1>1, <2>2
    <3> QED BY <1>2, <2>1, <2>2, <3>1 DEF ImageRecords
  <2>3. CASE i \notin members
    BY <1>1, <2>1, <2>3
  <2> QED BY <2>2, <2>3
<1>9. \A i \in Images : image'[i].pc \in {"prepared", "done"} <=> image[i].pc \in {"prepared", "done"}
  BY <1>4, <1>8
<1>10. BatchShape'
  <2>1. image' \in [Images -> ImageRecords]
    BY <1>1, <1>8
  <2>2. filled' \in [Images -> Seq(BlockRequests)]
    BY <1>1, <1>2, <1>6, <1>8
  <2>3. batchOutcome' \in {"run", "ok", "failed"}
    BY <1>1
  <2> QED BY <1>1, <2>1, <2>2, <2>3 DEF BatchInv, BatchShape
<1>11. Requested'
  <2>1. \A r \in BlockRequests : r[1] \in Images
    BY DEF BlockRequests
  <2> QED BY <1>1, <1>8, <1>9, <2>1 DEF BatchInv, Requested, BatchOf
<1>12. Received'
  BY <1>1 DEF BatchInv, Received
<1>13. Sending'
  <2> SUFFICES ASSUME NEW r \in active, r[2] > 0
               PROVE  Opened(BatchOf(r[1]))' /\ \E j \in DOMAIN reqs[BatchOf(r[1])] : reqs[BatchOf(r[1])][j] = r
    BY <1>1 DEF Sending, BatchOf
  <2>1. Opened(BatchOf(r[1])) /\ \E j \in DOMAIN reqs[BatchOf(r[1])] : reqs[BatchOf(r[1])][j] = r
    BY DEF BatchInv, Sending
  <2>2. BatchOf(r[1]) # b
    BY <1>3, <2>1
  <2>3. Opened(BatchOf(r[1]))'
    BY <1>1, <1>7, <1>8, <2>1, <2>2 DEF Opened, BatchOf
  <2> QED BY <2>1, <2>3
<1>14. Filling'
  <2>1. ASSUME NEW i \in Images PROVE (\A k \in DOMAIN filled'[i] : filled'[i][k] = <<i, k>>) /\ (image'[i].pc = "done" => Len(filled'[i]) = image'[i].n)
    <3>1. CASE i \in members
      BY <1>6, <1>8, <3>1
    <3>2. CASE i \notin members
      BY <1>8, <3>2 DEF BatchInv, Filling
    <3> QED BY <3>1, <3>2
  <2>2. batchOutcome' = "ok" => \A i \in Images : image'[i].pc = "done"
    BY <1>1, <1>8
  <2> QED BY <2>1, <2>2 DEF Filling
<1> QED BY <1>10, <1>11, <1>12, <1>13, <1>14 DEF BatchInv

\* Every step keeps the invariant.
LEMMA BatchSteps == ASSUME BatchInv, [BatchNext]_batchVars PROVE BatchInv'
<1>1. CASE UNCHANGED batchVars
  BY <1>1, BatchRests DEF batchVars
<1>2. CASE RequestFails
  BY <1>2, BatchRests DEF RequestFails, BatchFails
<1>3. ASSUME NEW i \in Images, AdmitImage(i) PROVE BatchInv'
  <2>1. CASE BatchFails
    BY <2>1, BatchRests DEF BatchFails
  <2>2. CASE ~BatchFails
    <3>1. /\ image[i].pc = "new" /\ image' = [image EXCEPT ![i].pc = "admitted"] /\ batchOutcome = "run"
          /\ active' \subseteq active \cup {<<i, 0>>} /\ UNCHANGED <<mode, reqs, out, filled, batchOutcome>>
      BY <1>3, <2>2 DEF AdmitImage
    <3> QED BY <3>1, ImageMoves
  <2> QED BY <2>1, <2>2
<1>4. ASSUME NEW i \in Images, SendLayoutRequest(i) PROVE BatchInv'
  <2>1. /\ image[i].pc = "admitted" /\ image' = [image EXCEPT ![i].pc = "layout"] /\ batchOutcome = "run"
        /\ active' \subseteq active \cup {<<i, 0>>} /\ UNCHANGED <<mode, reqs, out, filled, batchOutcome>>
    BY <1>4 DEF SendLayoutRequest
  <2> QED BY <2>1, ImageMoves
<1>5. ASSUME NEW i \in Images, LayoutReceived(i) PROVE BatchInv'
  <2>1. /\ image[i].pc = "layout" /\ image' = [image EXCEPT ![i].pc = "laid"] /\ batchOutcome = "run"
        /\ active' \subseteq active \cup {<<i, 0>>} /\ UNCHANGED <<mode, reqs, out, filled, batchOutcome>>
    BY <1>5 DEF LayoutReceived
  <2> QED BY <2>1, ImageMoves
<1>6. ASSUME NEW i \in Images, PrepareBlocks(i) \/ SendBlock(i) \/ BlockReceived(i) \/ FillBlocks(i) PROVE BatchInv'
  BY <1>6, BlocksPrepareKeeps, SendBlockKeeps, BlockReceivedKeeps, FillBlocksKeeps
<1> QED BY <1>1, <1>2, <1>3, <1>4, <1>5, <1>6 DEF BatchNext, BatchStep

\* It holds before the first step: no batch holds a request.
LEMMA BatchStarts == ASSUME BatchInit PROVE BatchInv
<1>1. /\ mode \in BatchModes /\ image \in [Images -> ImageRecords] /\ reqs = [b \in Images |-> <<>>]
      /\ out = [b \in Images |-> <<>>] /\ active = {} /\ filled = [i \in Images |-> <<>>] /\ batchOutcome = "run"
  <2>1. "new" \in ImagePlaces /\ BlockCounts \subseteq Nat
    BY BatchAssumption DEF ImagePlaces
  <2> QED BY <2>1 DEF BatchInit, ImageRecords
<1>2. \A i \in Images : image[i].pc = "new"
  BY DEF BatchInit
<1>3. BatchShape
  BY <1>1 DEF BatchShape
<1>4. Requested
  <2>1. \A r \in BlockRequests : r[1] \in Images
    BY DEF BlockRequests
  <2> QED BY <1>1, <1>2, <2>1 DEF Requested
<1>5. Received
  BY <1>1 DEF Received
<1>6. Sending
  BY <1>1 DEF Sending
<1>7. Filling
  BY <1>1, <1>2 DEF Filling
<1> QED BY <1>3, <1>4, <1>5, <1>6, <1>7 DEF BatchInv

\* The inductive invariant of the batch operations.
THEOREM BatchInvariant == BatchSpec => []BatchInv
<1>1. BatchInit => BatchInv
  BY BatchStarts
<1>2. BatchInv /\ [BatchNext]_batchVars => BatchInv'
  BY BatchSteps
<1> QED BY <1>1, <1>2, PTL DEF BatchSpec

\* Every block holds the reply to its own request, in whatever order the replies came.
THEOREM BatchesKeepOrder == BatchSpec => []BatchKeepsOrder
<1>1. ASSUME BatchInv PROVE BatchKeepsOrder
  <2>1. \A i \in Images : \A k \in DOMAIN filled[i] : filled[i][k] = <<i, k>>
    BY <1>1 DEF BatchInv, Filling
  <2>2. batchOutcome = "ok" => \A i \in Images : Len(filled[i]) = image[i].n
    BY <1>1 DEF BatchInv, Filling
  <2>3. ASSUME mode = "stepping", NEW r \in active, r[2] > 0 PROVE AllAt({"prepared"})
    <3>1. Opened(BatchOf(r[1]))
      BY <1>1, <2>3 DEF BatchInv, Sending
    <3> QED BY <2>3, <3>1 DEF Opened, BatchOf, AllAt
  <2> QED BY <2>1, <2>2, <2>3 DEF BatchKeepsOrder
<1>2. BatchInv => BatchKeepsOrder
  BY <1>1
<1> QED BY <1>2, BatchInvariant, PTL

-----------------------------------------------------------------------------
(* The client as a whole: a step of one component leaves the others alone,  *)
(* so that a behaviour of the client is one of each.                        *)
LEMMA ClientParts == VlmSpec => HttpSpec /\ WindowSpec /\ BatchSpec /\ FetchSpec
<1>1. VlmInit => HttpInit /\ WindowInit /\ BatchInit /\ FetchInit
  BY DEF VlmInit, IdleHttp, IdleWindow, IdleBatch, IdleWire, IdleFetch
<1>2. [VlmClientNext]_vlmVars => [HttpNext]_httpVars /\ [WindowNext]_pagesVars /\ [BatchNext]_batchVars /\ [FetchNext]_fetchVars
  <2>1. CASE UNCHANGED vlmVars
    BY <2>1 DEF vlmVars, wireVars, fetchVars
  <2>2. CASE HttpPart
    BY <2>2 DEF HttpPart, wireVars, fetchVars
  <2>3. CASE WindowPart
    BY <2>3 DEF WindowPart, wireVars, fetchVars
  <2>4. CASE BatchPart
    BY <2>4 DEF BatchPart, wireVars, fetchVars
  <2>5. CASE StreamPart
    BY <2>5 DEF StreamPart, fetchVars, StreamNext, StreamStep, SendStream, DeclaredTooLong, StreamChunk, EndOfStream, StreamBreaks, DropIterator, Hear
  <2>6. CASE PicturePart
    BY <2>6 DEF PicturePart
  <2> QED BY <2>1, <2>2, <2>3, <2>4, <2>5, <2>6 DEF VlmClientNext
<1>3. VlmSpec => VlmInit /\ [][VlmClientNext]_vlmVars
  BY PTL DEF VlmSpec
<1> QED BY <1>1, <1>2, <1>3, PTL DEF HttpSpec, WindowSpec, BatchSpec, FetchSpec

\* Every limit of the client is exact: the budget of the calls, the slots of blocking workers,
\* the ledger and the batch caps of a window, and the caps of a picture.
THEOREM LimitsAreExact == VlmSpec => []VlmBounded
<1>1. (HttpTypeOK /\ BudgetHonest /\ SlotCoversWork) /\ (WindowTypeOK /\ ResidentExact /\ SentinelQuiet /\ ReportsHonest)
      /\ PictureSound => VlmBounded
  BY DEF VlmBounded
<1> QED BY <1>1, ClientParts, HttpIsBounded, WindowIsExact, PicturesAreSound, PTL

\* What a document is told of its pages and blocks is what was charged and asked for it.
THEOREM ClientIsTold == VlmSpec => []VlmHonest
<1>1. (WindowTypeOK /\ ResidentExact /\ SentinelQuiet /\ ReportsHonest) /\ BatchKeepsOrder => VlmHonest
  BY DEF VlmHonest
<1> QED BY <1>1, ClientParts, WindowIsExact, BatchesKeepOrder, PTL
=============================================================================
