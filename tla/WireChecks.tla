----------------------------- MODULE WireChecks -----------------------------
(***************************************************************************)
(* What the official API refuses before it touches its store or its jobs:  *)
(* the validators of src/official_api/wire.rs.                             *)
(*                                                                         *)
(* A page range is a sequence of parts, a part one or two endpoints (or    *)
(* more, which is refused), an endpoint [relative, n], n = 0 standing for  *)
(* digits that are none, start with a zero or exceed u32.  Inline data is  *)
(* known by its length, its trailing "=" and whether another character is  *)
(* out of place.                                                           *)
(***************************************************************************)
EXTENDS Integers, Sequences, FiniteSets, SequencesExt

CONSTANTS Endpoints, Formats,
          InlineMax, UploadMax,     \* INLINE_MAX_BYTES, UPLOAD_MAX_BYTES
          MaxFiles,                 \* 100 in the code
          PageMax                   \* bound on the documents a range is tried on

ASSUME WireAssumption ==
    /\ {InlineMax, UploadMax, MaxFiles, PageMax} \subseteq Nat \ {0} /\ \A e \in Endpoints : e.n \in Nat

VARIABLES wirePc, request, answered

wireVars == <<wirePc, request, answered>>

-----------------------------------------------------------------------------
Inverted(a, b) ==
    \/ a.relative /\ b.relative /\ a.n < b.n
    \/ ~a.relative /\ ~b.relative /\ a.n > b.n

ValidPart(part) ==
    /\ Len(part) \in {1, 2} /\ \A i \in DOMAIN part : part[i].n # 0
    /\ Len(part) = 2 => ~Inverted(part[1], part[2])

ValidRange(range) == \A i \in DOMAIN range : ValidPart(range[i])

(* validate_inline_base64, the data of a file in a job.                     *)
EncodedMax == ((InlineMax + 2) \div 3) * 4

\* Mutant: the encoded length is all that is looked at.
ValidInlineEncoded(d) == IF d.len > EncodedMax THEN "too_large" ELSE IF d.len % 4 # 0 \/ d.padding > 2 \/ d.foreign THEN "bad" ELSE "ok"

ValidInline(d) ==
    IF d.len > EncodedMax THEN "too_large"
    ELSE IF d.len % 4 # 0 \/ d.padding > 2 \/ d.foreign \/ (d.len \div 4) * 3 - d.padding > InlineMax THEN "bad"
    ELSE "ok"

ValidFile(f) ==
    CASE ~ValidRange(f.range) -> "bad"
      [] ~f.named -> "bad"
      [] f.kind = "inline" -> ValidInline(f.data)
      [] OTHER -> "ok"

FirstRefusal(verdicts) ==
    IF \A i \in DOMAIN verdicts : verdicts[i] = "ok" THEN "ok"
    ELSE verdicts[CHOOSE i \in DOMAIN verdicts : verdicts[i] # "ok" /\ \A j \in 1..(i - 1) : verdicts[j] = "ok"]

ValidJob(r) ==
    IF r.files = <<>> \/ Len(r.files) > MaxFiles \/ r.formats = <<>> \/ Cardinality(ToSet(r.formats)) # Len(r.formats) THEN "bad"
    ELSE FirstRefusal([i \in DOMAIN r.files |-> ValidFile(r.files[i])])

ValidUpload(r) ==
    IF ~r.named \/ ~r.typed \/ r.bytes = 0 THEN "bad"
    ELSE IF r.bytes > UploadMax THEN "too_large"
    ELSE IF ~r.purposed \/ ~r.hashed \/ ~r.expiring THEN "bad" ELSE "ok"

AnswerRequest ==
    /\ wirePc = "ask" /\ wirePc' = "answered" /\ UNCHANGED request
    /\ answered' = IF request.kind = "job" THEN ValidJob(request) ELSE ValidUpload(request)

WireIdle == wirePc = "off" /\ request = <<>> /\ answered = "none"

Parts == UNION {[1..n -> Endpoints] : n \in 1..3}
PageRanges == {<<>>} \cup {<<p>> : p \in Parts} \cup {<<p, <<CHOOSE e \in Endpoints : e.n # 0>> >> : p \in Parts}
InlineData == {d \in [len : 0..(EncodedMax + 4), padding : 0..4, foreign : BOOLEAN] : d.padding <= d.len}
PlainFile == [kind |-> "id", named |-> TRUE, range |-> <<>>, data |-> [len |-> 0, padding |-> 0, foreign |-> FALSE]]
WireFiles == {[PlainFile EXCEPT !.range = r] : r \in PageRanges}
             \cup {[PlainFile EXCEPT !.kind = "inline", !.data = d, !.named = b] : d \in InlineData, b \in BOOLEAN}

WireInit ==
    /\ wirePc = "ask" /\ answered = "none"
    /\ \/ \E n \in 0..(MaxFiles + 1), f \in WireFiles, formats \in UNION {[1..k -> Formats] : k \in 0..2} :
             request = [kind |-> "job", formats |-> formats,
                        files |-> [i \in 1..n |-> IF i = n THEN f ELSE PlainFile]]
       \/ \E bytes \in {0, 1, UploadMax, UploadMax + 1}, named, typed, purposed, hashed, expiring \in BOOLEAN :
             request = [kind |-> "upload", bytes |-> bytes, named |-> named, typed |-> typed, purposed |-> purposed,
                        hashed |-> hashed, expiring |-> expiring]

WireNext == AnswerRequest

-----------------------------------------------------------------------------
(* The pages a part selects of a document of p pages, counted from 1.       *)
PageAt(e, p) == IF e.relative THEN p + 1 - e.n ELSE e.n
PartPages(part, p) == PageAt(part[1], p)..PageAt(part[Len(part)], p)

(* In an accepted job every part of a range whose endpoints are counted     *)
(* from the same side selects a page of a document that has both, every     *)
(* inline file decodes to whole bytes, no more than the limit and no fewer  *)
(* than none, and the limit itself is reachable; nothing is refused as too  *)
(* large that could have been decoded within the limit.                     *)
WireSound ==
    /\ answered = "ok" /\ request.kind = "job" =>
          /\ Len(request.files) \in 1..MaxFiles /\ Cardinality(ToSet(request.formats)) = Len(request.formats)
          /\ \A i \in DOMAIN request.files :
                /\ \A j \in DOMAIN request.files[i].range :
                      LET part == request.files[i].range[j]
                          same == part[1].relative = part[Len(part)].relative
                      IN  same => \A p \in 1..PageMax :
                             part[1].n <= p /\ part[Len(part)].n <= p => PartPages(part, p) # {} /\ PartPages(part, p) \subseteq 1..p
                /\ LET d == request.files[i].data
                   IN  (d.len \div 4) * 3 - d.padding \in 0..InlineMax /\ d.len % 4 = 0
    /\ answered = "too_large" /\ request.kind = "job" =>
          \E i \in DOMAIN request.files : LET d == request.files[i].data IN (d.len * 3) \div 4 - 2 > InlineMax - 3
    /\ answered # "none" /\ request.kind = "job" /\ Len(request.files) = 1 /\ request.formats = <<CHOOSE f \in Formats : TRUE>> =>
          LET f == request.files[1]
          IN  f.named /\ f.range = <<>> /\ f.data.len % 4 = 0 /\ f.data.padding <= 2 /\ ~f.data.foreign
              /\ (f.data.len \div 4) * 3 - f.data.padding \in 0..InlineMax => answered = "ok"
    /\ answered = "ok" /\ request.kind = "upload" => request.bytes \in 1..UploadMax
=============================================================================
