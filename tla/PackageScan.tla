---------------------------- MODULE PackageScan ----------------------------
(****************************************************************************)
(* The readers that vet an untrusted ZIP package before anything is         *)
(* extracted or converted: the directory scan (src/mineru_api/zip_scan.rs), *)
(* the entry table of a result archive (extract_impl in archive.rs) and the *)
(* OOXML classifier (ooxml.rs) with its XML event automaton.                *)
(*                                                                          *)
(* Inputs are built one item at a time: "zip" grows a table of entries,     *)
(* "xml" feeds the automaton one reader event after the other, "ooxml"      *)
(* runs the inventory of a package entry by entry.  Bytes are counted, not  *)
(* carried: an entry is its place and length, a path the sequence of its    *)
(* components, an XML event its kind.                                       *)
(****************************************************************************)
EXTENDS Integers, Sequences, FiniteSets, FiniteSetsExt, SequencesExt

CONSTANTS CentralStart,   \* where the central directory begins
          MaxEntries,     \* scan.max_entries
          EntryPaths,     \* component sequences an entry may be called
          XmlDepth, XmlEvents,   \* limits.xml_depth, limits.xml_events
          Packages,       \* packages offered to the OOXML classifier
          XmlEntryCap, XmlTotalCap

ASSUME ScanAssumption ==
    /\ CentralStart \in Nat /\ MaxEntries \in Nat
    /\ XmlDepth \in Nat \ {0} /\ XmlEvents \in Nat \ {0}
    /\ XmlEntryCap \in Nat /\ XmlTotalCap \in Nat

VARIABLES
    zip,      \* entries read so far: [at, len, path, dir]
    seen,     \* XML events so far
    xml,      \* validate_xml: [depth, root, decl, found, verdict]
    parser,   \* the same events read by parse_relationships or parse_overrides
    pack,     \* the package under inspection: sequence of entries
    inv       \* the inventory: [next, total, vetted, forced, pc]

scanVars == <<zip, seen, xml, parser, pack, inv>>

-----------------------------------------------------------------------------
\* Mutant: the ranges are compared in the order of the directory.
RangesUnsorted == [i \in DOMAIN zip |-> <<zip[i].at, zip[i].at + zip[i].len>>]

(* scan: the ranges of the entries, sorted, must start at 0, end before the *)
(* central directory and not overlap their neighbour.                       *)
Ranges == SortSeq([i \in DOMAIN zip |-> <<zip[i].at, zip[i].at + zip[i].len>>],
                  LAMBDA x, y : x[1] < y[1] \/ (x[1] = y[1] /\ x[2] < y[2]))

ScanAccepts(ranges) ==
    /\ Len(zip) <= MaxEntries
    /\ \A i \in DOMAIN zip : zip[i].at + zip[i].len <= CentralStart
    /\ IF zip = <<>> THEN CentralStart = 0 ELSE Min({zip[i].at : i \in DOMAIN zip}) = 0
    /\ \A i \in 1..(Len(ranges) - 1) : ranges[i][2] <= ranges[i + 1][1]

(* archive_path and validate_name: the components of a safe name. *)
Unsafe == {"", ".", "..", "CON", "a:", "a."}
ArchivePath(name) ==
    LET parts == IF Len(name) >= 2 /\ Last(name) = "" THEN Front(name) ELSE name
    IN  IF parts # <<>> /\ ToSet(parts) \cap Unsafe = {} THEN {parts} ELSE {}

(* extract_impl: duplicate paths and a file in the place of a directory.    *)
(* The sorted neighbour test follows the test of every prefix.              *)
Proper(p, q) == Len(p) < Len(q) /\ SubSeq(q, 1, Len(p)) = p
Kind(p) == LET i == CHOOSE i \in DOMAIN zip : zip[i].path = p IN zip[i].dir
Keys == {zip[i].path : i \in DOMAIN zip}

TableAccepts ==
    /\ Cardinality(Keys) = Len(zip)
    /\ \A k \in Keys : ArchivePath(k) = {k}
    /\ \A k \in Keys : \A n \in 1..(Len(k) - 1) : SubSeq(k, 1, n) \in Keys => Kind(SubSeq(k, 1, n))

AddEntry(at, len, path, dir) ==
    /\ xml.verdict = "idle" /\ inv.pc = "idle"
    /\ Len(zip) < MaxEntries + 1
    /\ zip' = Append(zip, [at |-> at, len |-> len, path |-> path, dir |-> dir])
    /\ UNCHANGED <<seen, xml, parser, pack, inv>>

-----------------------------------------------------------------------------
(* validate_xml: one pass over the reader's events.  "space" is white text, *)
(* "ref" a general reference the version allows, "badref" any other;        *)
(* "child" and "emptychild" are the elements the two parsers look for       *)
(* (Relationship, Override).  The reader itself refuses an end tag that     *)
(* does not match, hence "end" only inside an element.                      *)
Events == {"decl", "doctype", "start", "child", "empty", "emptychild", "end",
           "text", "space", "cdata", "ref", "badref", "eof"}

Reject(x) == [x EXCEPT !.verdict = "bad"]

\* Mutant: a second root element is let through.
RootTwice(x) == [x EXCEPT !.root = TRUE]

Root(x) == IF x.depth = 0 /\ x.root THEN Reject(x) ELSE [x EXCEPT !.root = TRUE]

Step(x, e) ==
    CASE e = "decl" -> IF seen # <<>> \/ x.decl \/ x.root THEN Reject(x) ELSE [x EXCEPT !.decl = TRUE]
      [] e \in {"doctype", "badref"} -> Reject(x)
      [] e \in {"ref", "cdata", "text"} -> IF x.depth = 0 THEN Reject(x) ELSE x
      [] e \in {"start", "child"} -> [Root(x) EXCEPT !.depth = x.depth + 1]
      [] e \in {"empty", "emptychild"} -> Root(x)
      [] e = "end" -> [x EXCEPT !.depth = @ - 1]
      [] e = "eof" -> IF x.root /\ x.depth = 0 THEN [x EXCEPT !.verdict = "ok"] ELSE Reject(x)
      [] OTHER -> x

Validate(x, e) == LET y == Step(x, e) IN IF y.depth > XmlDepth THEN Reject(y) ELSE y

\* Mutant: an element counts wherever it stands.
CollectAnywhere(x, e) ==
    LET y == Step(x, e) IN IF e \in {"child", "emptychild"} THEN [y EXCEPT !.found = @ + 1] ELSE y

(* parse_relationships, parse_overrides: no depth limit of their own; a     *)
(* child of the root element is collected.                                  *)
Collect(x, e) ==
    LET y == Step(x, e)
    IN  IF x.depth = 1 /\ e \in {"child", "emptychild"} THEN [y EXCEPT !.found = @ + 1] ELSE y

Fed(x, y) == IF x.verdict = "bad" THEN x ELSE IF Len(seen) + 1 > XmlEvents THEN Reject(x) ELSE y

ReadEvent(e) ==
    /\ zip = <<>> /\ inv.pc = "idle"
    /\ xml.verdict \in {"idle", "run"}
    /\ e = "end" => xml.depth > 0
    /\ seen' = Append(seen, e)
    /\ xml' = Fed(xml, Validate([xml EXCEPT !.verdict = "run"], e))
    /\ parser' = Fed(parser, Collect([parser EXCEPT !.verdict = "run"], e))
    /\ UNCHANGED <<zip, pack, inv>>

-----------------------------------------------------------------------------
(* detect_reader.  A package entry is [name, xml, size, targets]: whether   *)
(* its name or its first bytes make it XML, and the parts its               *)
(* relationships force the converter to read as XML.                        *)
StartPackage(p) ==
    /\ zip = <<>> /\ seen = <<>> /\ inv.pc = "idle"
    /\ pack' = p
    /\ inv' = [inv EXCEPT !.pc = "entries"]
    /\ UNCHANGED <<zip, seen, xml, parser>>

(* read_entry, then validate_xml; a part is charged once. *)
Vet(i) ==
    IF pack[i].size > XmlEntryCap \/ inv.total + pack[i].size > XmlTotalCap
    THEN [inv EXCEPT !.pc = "limit"]
    ELSE [inv EXCEPT !.total = @ + pack[i].size, !.vetted = @ \cup {pack[i].name}]

NextEntry ==
    /\ inv.pc = "entries"
    /\ IF inv.next > Len(pack)
       THEN inv' = [inv EXCEPT !.pc = "forced",
                               !.forced = UNION {pack[i].targets : i \in {j \in DOMAIN pack : pack[j].name \in inv.vetted}}]
       ELSE IF \E j \in 1..(inv.next - 1) : pack[j].name = pack[inv.next].name
       THEN inv' = [inv EXCEPT !.pc = "bad"]
       ELSE inv' = [(IF pack[inv.next].xml THEN Vet(inv.next) ELSE inv) EXCEPT !.next = @ + 1]
    /\ UNCHANGED <<zip, seen, xml, parser, pack>>

\* Mutant: a relationship target is only vetted when its name says XML.
NamedOnly(t) == \E i \in DOMAIN pack : pack[i].name = t /\ pack[i].xml

(* The loop over forced_xml: a target already vetted or absent is skipped.  *)
Unvetted(t) == t \notin inv.vetted /\ \E i \in DOMAIN pack : pack[i].name = t

ForceTarget ==
    /\ inv.pc = "forced"
    /\ \E t \in inv.forced :
          LET found == {i \in DOMAIN pack : pack[i].name = t}
          IN  inv' = [(IF Unvetted(t) /\ found # {} THEN Vet(Min(found)) ELSE inv) EXCEPT !.forced = @ \ {t}]
    /\ UNCHANGED <<zip, seen, xml, parser, pack>>

(* The kind is what the content type of the main part says, if the root     *)
(* relationships and the content types are there and lead to one.           *)
Classify ==
    /\ inv.pc = "forced" /\ inv.forced = {}
    /\ \E kind \in {"kind", "none"} : inv' = [inv EXCEPT !.pc = kind]
    /\ UNCHANGED <<zip, seen, xml, parser, pack>>

ScanInit ==
    /\ zip = <<>> /\ seen = <<>> /\ pack = <<>>
    /\ xml = [depth |-> 0, root |-> FALSE, decl |-> FALSE, found |-> 0, verdict |-> "idle"]
    /\ parser = xml
    /\ inv = [next |-> 1, total |-> 0, vetted |-> {}, forced |-> {}, pc |-> "idle"]

ScanNext ==
    \/ \E at \in 0..CentralStart, len \in 1..2, path \in EntryPaths, dir \in BOOLEAN :
          AddEntry(at, len, path, dir)
    \/ \E e \in Events : ReadEvent(e)
    \/ \E p \in Packages : StartPackage(p)
    \/ NextEntry \/ ForceTarget \/ Classify

-----------------------------------------------------------------------------
(* The sorted preflight refuses exactly the tables in which two entries     *)
(* share a byte, reach into the directory or leave a gap before the first;  *)
(* and an accepted table extracts without one entry standing in the way of  *)
(* another or outside the root.                                             *)
Disjoint(i, j) == zip[i].at + zip[i].len <= zip[j].at \/ zip[j].at + zip[j].len <= zip[i].at

ScanExact ==
    /\ ScanAccepts(Ranges) <=>
          /\ Len(zip) <= MaxEntries
          /\ \A i, j \in DOMAIN zip : i # j => Disjoint(i, j)
          /\ \A i \in DOMAIN zip : zip[i].at + zip[i].len <= CentralStart
          /\ IF zip = <<>> THEN CentralStart = 0 ELSE \E i \in DOMAIN zip : zip[i].at = 0
    /\ TableAccepts =>
          \A i, j \in DOMAIN zip : i # j =>
             /\ zip[i].path # zip[j].path
             /\ ~zip[i].dir => ~Proper(zip[i].path, zip[j].path)
             /\ ".." \notin ToSet(zip[i].path)

(* The automaton accepts exactly the documents with one root element,       *)
(* balanced within the depth limit, a declaration only at the very start    *)
(* and nothing but white space outside the root.                            *)
DepthAfter(n) == Cardinality({i \in 1..n : seen[i] \in {"start", "child"}})
                 - Cardinality({i \in 1..n : seen[i] = "end"})
Opens(i) == seen[i] \in {"start", "child", "empty", "emptychild"} /\ DepthAfter(i - 1) = 0
RootChildren == {i \in DOMAIN seen : seen[i] \in {"child", "emptychild"} /\ DepthAfter(i - 1) = 1}

WellFormed ==
    /\ Len(seen) <= XmlEvents /\ Last(seen) = "eof"
    /\ DepthAfter(Len(seen)) = 0
    /\ Cardinality({i \in DOMAIN seen : Opens(i)}) = 1
    /\ \A i \in DOMAIN seen :
          /\ DepthAfter(i) <= XmlDepth
          /\ seen[i] = "decl" => i = 1
          /\ seen[i] \notin {"doctype", "badref"}
          /\ seen[i] \in {"text", "cdata", "ref"} => DepthAfter(i) > 0

(* The second reading, by the parsers, never refuses what the validation *)
(* let through, and collects exactly the children of the root.           *)
XmlExact ==
    /\ (xml.verdict = "ok") <=> (seen # <<>> /\ WellFormed)
    /\ xml.verdict = "ok" => parser.verdict = "ok" /\ parser.found = Cardinality(RootChildren)

(* Nothing is classified as an office document before every part the        *)
(* converter will read as XML, by its name, its bytes or a relationship of  *)
(* another part, has been vetted and charged to the aggregate limit once.   *)
PackageVetted ==
    inv.pc = "kind" =>
       LET Part(t) == {i \in DOMAIN pack : pack[i].name = t}
           vetted  == {i \in DOMAIN pack : pack[i].name \in inv.vetted}
       IN  /\ \A i \in DOMAIN pack : pack[i].xml => i \in vetted
           /\ \A i \in DOMAIN pack : pack[i].xml => \A t \in pack[i].targets : Part(t) \subseteq vetted
           /\ inv.total = MapThenSumSet(LAMBDA i : pack[i].size, vetted)
           /\ inv.total <= XmlTotalCap
=============================================================================
