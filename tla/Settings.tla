------------------------------ MODULE Settings ------------------------------
(***************************************************************************)
(* What is settled before a run starts: its limits, and below the layout   *)
(* of its documents.                                                       *)
(*                                                                         *)
(* How a run or a server gets its limits: the strict number lexer of       *)
(* src/command/env.rs and src/document_limits.rs, the three ways the       *)
(* layers default, environment and command line are combined (resolve_core *)
(* applies and validates layer by layer, resolve_service merges first and  *)
(* validates once, DocumentLimitPolicy::resolve lets a command line value  *)
(* shadow the environment text), the masks of mineru-api, the budgets      *)
(* derived from the document limits and the office helper's round trip     *)
(* through its child environment.                                          *)
(*                                                                         *)
(* Two knobs, "a" and "b", stand for the knobs of a lane; a knob's source  *)
(* is a number, Absent, or Bad text.  In the core and service lanes "a" is *)
(* a concurrency, bounded by Permits; in the document lane "a" is the      *)
(* input limit and "b" the output limit.  MaxU64, Mib and Gib stand for    *)
(* 2^64 - 1, 2^20 and 2^30 at a scale where sums overflow.                 *)
(***************************************************************************)
EXTENDS Integers, Sequences, FiniteSets, SequencesExt, FiniteSetsExt

CONSTANTS MaxU64, MaxUsize, Mib, Gib, Permits, MaxText, DefaultOf, Numbers

ASSUME SettingsAssumption ==
    /\ MaxU64 \in Nat /\ MaxUsize \in 1..MaxU64 /\ Permits \in 1..MaxU64
    /\ Mib \in Nat \ {0} /\ Gib \in Nat \ {0} /\ MaxText \in Nat
    /\ Numbers \subseteq 0..MaxU64 /\ DefaultOf["b"] \in Numbers
    /\ DefaultOf \in [{"a", "b"} -> 4..Permits]

Knobs == {"a", "b"}
Absent == -2
Bad == -1
Sources == Numbers \cup {Absent, Bad}
Lanes == {"core", "service", "document"}

Digit == [c \in {"0", "3", "7"} |-> CASE c = "0" -> 0 [] c = "3" -> 3 [] c = "7" -> 7]
Chars == DOMAIN Digit \cup {"_", "+"}

VARIABLES
    letters, lexer,   \* characters read; [n, digit, verdict]
    ask,              \* [lane, env, cli, masks]
    policy,           \* [verdict, value]: what resolution answered
    child,            \* knob -> the value the office helper works with, once spawned
    resident          \* [route, explicit, verdict] of one resident route budget

settingsVars == <<letters, lexer, ask, policy, child, resident>>

SettingsInit ==
    /\ letters = <<>>
    /\ lexer = [n |-> 0, digit |-> FALSE, verdict |-> "run"]
    /\ ask \in [lane : Lanes, env : [Knobs -> Sources], cli : [Knobs -> Sources], masks : BOOLEAN]
               \cup [lane : {"text"}, env : [Knobs -> {Absent}], cli : [Knobs -> {Absent}],
                     masks : {FALSE}]
    /\ policy = [verdict |-> "none", value |-> DefaultOf]
    /\ child = DefaultOf
    /\ resident \in [route : Numbers \ {0}, explicit : BOOLEAN, verdict : {"none"}]
    /\ ask.lane # "document" => resident.route = DefaultOf["b"] /\ ~resident.explicit

-----------------------------------------------------------------------------
(* strict_decimal and parse_bytes, one byte at a time.                      *)

\* Mutant: a separator may follow a separator.
LexLoose(l, c) ==
    CASE c \in DOMAIN Digit /\ l.n * 10 + Digit[c] <= MaxU64
           -> [l EXCEPT !.n = l.n * 10 + Digit[c], !.digit = TRUE]
      [] c = "_" -> l
      [] OTHER -> [l EXCEPT !.verdict = "bad"]

Lex(l, c) ==
    CASE c \in DOMAIN Digit /\ l.n * 10 + Digit[c] <= MaxU64
           -> [l EXCEPT !.n = l.n * 10 + Digit[c], !.digit = TRUE]
      [] c = "_" /\ l.digit -> [l EXCEPT !.digit = FALSE]
      [] OTHER -> [l EXCEPT !.verdict = "bad"]

ReadLetter(c) ==
    /\ ask.lane = "text" /\ lexer.verdict = "run" /\ Len(letters) < MaxText
    /\ letters' = Append(letters, c)
    /\ lexer' = Lex(lexer, c)
    /\ UNCHANGED <<ask, policy, child, resident>>

EndLetters ==
    /\ ask.lane = "text" /\ lexer.verdict = "run"
    /\ lexer' = [lexer EXCEPT !.verdict = IF lexer.digit THEN "ok" ELSE "bad"]
    /\ UNCHANGED <<letters, ask, policy, child, resident>>

-----------------------------------------------------------------------------
(* positive_usize, positive_u64, positive_seconds: zero and text that does  *)
(* not lex are refused, absence is not.  Every parser of a source refuses   *)
(* the whole source for one such value.                                     *)
Positive(v) == v # Bad /\ v # 0
ParseCore(values) == \A k \in Knobs : Positive(values[k])
ParseService(values) == \A k \in Knobs : Positive(values[k])

(* The command line, and the environment names it hides: mineru hides none, *)
(* mineru-api every name it sets, except those of the document limits.      *)
CliOverrides == [values |-> ask.cli, hidden |-> {}]
ServerOverrides == [values |-> ask.cli,
                    hidden |-> {k \in Knobs : ask.lane # "document" /\ ask.cli[k] # Absent}]
Given == IF ask.masks THEN ServerOverrides ELSE CliOverrides

(* The frozen environment as the lookup shows it. *)
Visible == [k \in Knobs |-> IF k \in Given.hidden THEN Absent ELSE ask.env[k]]

Pick(base, v) == IF v = Absent THEN base ELSE v
ApplyCore(base, values) == [k \in Knobs |-> Pick(base[k], values[k])]
Merge(base, values) == [k \in Knobs |-> Pick(base[k], values[k])]

Resolved(verdict, value) ==
    /\ policy.verdict = "none"
    /\ policy' = [verdict |-> IF verdict THEN "ok" ELSE "error",
                  value |-> IF verdict THEN value ELSE policy.value]
    /\ UNCHANGED <<letters, lexer, ask, child, resident>>

\* Mutant: the environment is applied after the command line.
ResolveCoreEnvLast ==
    /\ ask.lane = "core"
    /\ LET values == ApplyCore(ApplyCore(DefaultOf, Given.values), Visible) IN
       Resolved(ParseCore(Visible) /\ ParseCore(Given.values) /\ values["a"] <= Permits, values)

(* resolve_core: each layer is applied and validated before the next, so an *)
(* environment concurrency over the semaphore's capacity fails the run even *)
(* when the command line replaces it.                                       *)
ResolveCore ==
    /\ ask.lane = "core"
    /\ LET layered == ApplyCore(DefaultOf, Visible)
           values == ApplyCore(layered, Given.values)
       IN  Resolved(/\ ParseCore(Visible) /\ ParseCore(Given.values)
                    /\ layered["a"] <= Permits /\ values["a"] <= Permits, values)

(* resolve_service: merge, then validate once. *)
ResolveService ==
    /\ ask.lane = "service"
    /\ LET values == Merge(DefaultOf, Merge(Visible, Given.values)) IN
       Resolved(ParseService(Visible) /\ ParseService(Given.values) /\ values["a"] <= Permits, values)

(* DocumentLimitPolicy::new: the derived limits, every sum checked. *)
ServerZip(input, output) == input + output + output \div 4 + Mib
Derivable(input, output) ==
    /\ input >= 1 /\ output >= 4
    /\ input + Mib <= MaxU64
    /\ ServerZip(input, output) + Gib - 1 <= MaxU64
    /\ 2 * (((ServerZip(input, output) + Gib - 1) \div Gib) * Gib) <= MaxU64

\* Mutant: the archive limit is rounded down.
DownloadLimitFloor(input, output) == (ServerZip(input, output) \div Gib) * Gib

DownloadLimit(input, output) == ((ServerZip(input, output) + Gib - 1) \div Gib) * Gib

ResolveDocument ==
    /\ ask.lane = "document"
    /\ LET given == [k \in Knobs |-> Pick(Visible[k], Given.values[k])]
           values == [k \in Knobs |-> Pick(DefaultOf[k], given[k])]
       IN  Resolved((\A k \in Knobs : Positive(given[k])) /\ Derivable(values["a"], values["b"]), values)

-----------------------------------------------------------------------------
(* child_env writes every resolved value as decimal text; from_child_env    *)
(* reads it once in the helper, taking its default for what is missing or   *)
(* not positive.                                                            *)
ChildEnv(values) == values
FromChildEnv(env) == [k \in Knobs |-> IF env[k] # Absent /\ Positive(env[k]) THEN env[k] ELSE DefaultOf[k]]

Spawned ==
    /\ policy.verdict = "ok" /\ ask.lane = "service"
    /\ child' = FromChildEnv(ChildEnv(policy.value))
    /\ UNCHANGED <<letters, lexer, ask, policy, resident>>

(* apply_document_limits and cap_resident for the raw output budget, output *)
(* / 4: a budget above usize never caps, an explicit value is refused       *)
(* rather than reduced.                                                     *)
CapResident ==
    /\ policy.verdict = "ok" /\ ask.lane = "document" /\ resident.verdict = "none"
    /\ LET budget == policy.value["b"] \div 4 IN
       resident' =
          CASE budget > MaxUsize \/ resident.route <= budget -> [resident EXCEPT !.verdict = "ok"]
            [] resident.explicit -> [resident EXCEPT !.verdict = "error"]
            [] OTHER -> [resident EXCEPT !.verdict = "ok", !.route = budget]
    /\ UNCHANGED <<letters, lexer, ask, policy, child>>

SettingsNext ==
    \/ \E c \in Chars : ReadLetter(c)
    \/ EndLetters
    \/ ResolveCore \/ ResolveService \/ ResolveDocument
    \/ Spawned \/ CapResident

-----------------------------------------------------------------------------
(* The reference grammar: digits, single separators between digits, a value *)
(* that fits.                                                               *)
DigitsOf(s) == SelectSeq(s, LAMBDA c : c \in DOMAIN Digit)
ValueOf(s) == FoldLeft(LAMBDA n, c : n * 10 + Digit[c], 0, DigitsOf(s))
WellFormedText(s) ==
    /\ s # <<>> /\ \A i \in 1..Len(s) : s[i] \in DOMAIN Digit \cup {"_"}
    /\ s[1] # "_" /\ s[Len(s)] # "_"
    /\ \A i \in 1..Len(s) - 1 : s[i] = "_" => s[i + 1] # "_"
    /\ ValueOf(s) <= MaxU64

(* The lexer accepts exactly the well-formed numbers that fit in a u64 and  *)
(* returns their value; resolution gives each knob its most specific source *)
(* and fails only when a source it may read is unusable; whatever the       *)
(* server may put into a result archive fits the client's download limit,   *)
(* and no derived limit wraps; a resident budget never exceeds its share    *)
(* and an explicit one is never changed silently.                           *)
SettingsSound ==
    /\ lexer.verdict = "ok" => WellFormedText(letters) /\ lexer.n = ValueOf(letters)
    /\ lexer.verdict = "bad" => ~WellFormedText(letters)
    /\ policy.verdict = "ok" =>
          \A k \in Knobs :
             policy.value[k] = CASE ask.cli[k] # Absent -> ask.cli[k]
                                 [] ask.env[k] # Absent -> ask.env[k]
                                 [] OTHER -> DefaultOf[k]
    /\ policy.verdict = "ok" /\ ask.lane # "document" => policy.value["a"] <= Permits
    /\ policy.verdict = "error" =>
          \/ \E k \in Knobs : {ask.cli[k], ask.env[k]} \cap {Bad, 0} # {}
          \/ \E k \in Knobs : ask.cli[k] > Permits \/ ask.env[k] > Permits
          \/ ask.lane = "document"
    /\ policy.verdict = "error" /\ ask.masks =>
          ask.lane = "document"
          \/ \E k \in Knobs : (IF ask.cli[k] = Absent THEN ask.env[k] ELSE ask.cli[k])
                                 \in {Bad, 0} \cup (Permits + 1)..MaxU64
    /\ policy.verdict = "ok" /\ ask.lane = "document" =>
          LET input == policy.value["a"]
              output == policy.value["b"]
          IN  /\ input + output + output \div 4 <= DownloadLimit(input, output)
              /\ 2 * DownloadLimit(input, output) <= MaxU64
              /\ input < input + Mib /\ input + Mib <= MaxU64
    /\ resident.verdict = "ok" =>
          \/ resident.route <= policy.value["b"] \div 4
          \/ policy.value["b"] \div 4 > MaxUsize
    /\ child # DefaultOf => child = policy.value
-----------------------------------------------------------------------------
(***************************************************************************)
(* How a run lays out its documents: an output name per document           *)
(* (unique_stems in src/mineru_api/planning.rs), the packing of documents  *)
(* into remote tasks (plan_tasks), and the three readings of a page range  *)
(* (selected_pages for the plan, validate_official_page_selection for the  *)
(* limits, official_page_range for the worker, in direct.rs).              *)
(*                                                                         *)
(* A name is a sequence of at most MaxStem tokens, one token standing for  *)
(* a stretch of text; "A" and "a" differ only in case; "_1", "_2"... are   *)
(* the suffixes candidate appends.                                         *)
(***************************************************************************)
CONSTANTS StemInputs,   \* names documents may come with
          NStems, MaxStem,
          NPlan,        \* documents to pack
          Window,       \* processing_window_size
          PageCap       \* max_pages, and the largest document

ASSUME PlanningAssumption ==
    /\ {NStems, MaxStem, NPlan, Window, PageCap} \subseteq Nat \ {0}
    /\ \A s \in StemInputs : s # <<>>

VARIABLES
    quiz,               \* what this behaviour plans
    stems, named,       \* the names given; the names assigned so far
    loads, bins,        \* document -> effective pages; tasks: sequences of documents
    todo,               \* documents to pack, largest first
    pages, range        \* a PDF's page count; [start, end], end = -1 open

planningVars == <<quiz, stems, named, loads, bins, todo, pages, range>>

-----------------------------------------------------------------------------
Truncate(s) == SubSeq(s, 1, IF Len(s) <= MaxStem THEN Len(s) ELSE MaxStem)
FoldKey(s) == [i \in DOMAIN s |-> IF s[i] = "A" THEN "a" ELSE s[i]]
Suffix == <<"_1", "_2", "_3", "_4", "_5", "_6", "_7", "_8", "_9">>

Candidate(s, n) ==
    IF Len(s) + 1 <= MaxStem THEN Append(s, Suffix[n])
    ELSE Append(SubSeq(s, 1, MaxStem - 1), Suffix[n])

RawKeys == {FoldKey(Truncate(stems[i])) : i \in DOMAIN stems}
Assigned == {FoldKey(named[i]) : i \in DOMAIN named}

\* Mutant: a generated name only avoids the names already handed out.
TakenByNow == Assigned

Taken == RawKeys \cup Assigned

(* One turn of unique_stems' loop. *)
AssignStem ==
    /\ Len(named) < Len(stems)
    /\ LET base == Truncate(stems[Len(named) + 1])
           count == Cardinality({i \in DOMAIN named : FoldKey(Truncate(stems[i])) = FoldKey(base)})
       IN  IF count = 0 /\ FoldKey(base) \notin Assigned
           THEN named' = Append(named, base)
           ELSE LET free == {n \in (count + 1)..Len(Suffix) : FoldKey(Candidate(base, n)) \notin Taken}
                IN  named' = Append(named, Candidate(base, Min(free)))
    /\ UNCHANGED <<quiz, stems, loads, bins, todo, pages, range>>

-----------------------------------------------------------------------------
BinPages(b) == FoldSeq(LAMBDA d, n : n + loads[d], 0, b)
FitsBin(i, d) == BinPages(bins[i]) + loads[d] <= Window

\* Mutant: the least loaded task takes the document, whether it fits or not.
RoomyAny(d) == DOMAIN bins

Roomy(d) == {i \in DOMAIN bins : FitsBin(i, d)}

(* One turn of plan_tasks: the least loaded task with room, the first of    *)
(* them on a tie, or a new task.                                            *)
PackDocument ==
    /\ todo # <<>>
    /\ LET d == Head(todo)
           room == IF loads[d] > Window THEN {} ELSE Roomy(d)
           best == CHOOSE i \in room :
                      \A j \in room : \/ BinPages(bins[i]) < BinPages(bins[j])
                                      \/ BinPages(bins[i]) = BinPages(bins[j]) /\ i <= j
       IN  bins' = IF room = {} THEN Append(bins, <<d>>)
                   ELSE [bins EXCEPT ![best] = Append(@, d)]
    /\ todo' = Tail(todo)
    /\ UNCHANGED <<quiz, stems, named, loads, pages, range>>

(* Largest first, input order on a tie; the other backends do not pack. *)
PackOrder(l) == SortSeq([i \in 1..NPlan |-> i],
                        LAMBDA d, e : l[d] > l[e] \/ (l[d] = l[e] /\ d < e))

-----------------------------------------------------------------------------
(* The plan's page count, the limit's verdict and the worker's expression,  *)
(* pages counted from 0 in a range and from 1 in the expression.            *)
SelectedPages ==
    LET last == pages - 1
        end == IF range.end = -1 \/ range.end > last THEN last ELSE range.end
    IN  IF pages = 0 \/ range.start > end THEN 0 ELSE end - range.start + 1

SelectionValid ==
    /\ pages > 0 /\ range.start < pages
    /\ range.end # -1 => range.start <= range.end /\ range.end < pages
    /\ (IF range.end = -1 THEN pages - range.start ELSE range.end - range.start + 1) <= PageCap

(* None, "s-r1", "s" or "s-e": an empty expression is the whole document. *)
PageExpression ==
    IF range.start = 0 /\ range.end = -1 THEN <<>>
    ELSE IF range.end = -1 THEN <<range.start + 1, "r1">>
    ELSE IF range.start = range.end THEN <<range.start + 1>>
    ELSE <<range.start + 1, range.end + 1>>

PagesOf(expression) ==   \* what the worker parses, external
    CASE expression = <<>>     -> 1..pages
      [] Len(expression) = 1   -> {expression[1]}
      [] range.end = -1        -> expression[1]..pages
      [] OTHER                 -> expression[1]..expression[2]

(* One of the three questions per behaviour. *)
PlanningInit ==
    /\ quiz \in {"names", "tasks", "range"}
    /\ named = <<>> /\ bins = <<>>
    /\ IF quiz = "names" THEN stems \in [1..NStems -> StemInputs] ELSE stems = <<>>
    /\ IF quiz = "tasks" THEN loads \in [1..NPlan -> 1..PageCap] ELSE loads = <<>>
    /\ todo = IF quiz = "tasks" THEN PackOrder(loads) ELSE <<>>
    /\ IF quiz = "range"
       THEN /\ pages \in 0..(PageCap + 2)
            /\ range \in [start : 0..(PageCap + 2), end : -1..(PageCap + 2)]
       ELSE pages = 1 /\ range = [start |-> 0, end |-> -1]

PlanningNext == AssignStem \/ PackDocument

-----------------------------------------------------------------------------
(* No two documents get names that fold to the same file, no name exceeds   *)
(* its limit, and the first document with a name keeps it; every document   *)
(* is in exactly one task, a task exceeds the window only when a single     *)
(* document does, and no two tasks that came of packing could have been     *)
(* one; a page range the limit accepts means the same pages in the plan, in *)
(* the limit and to the worker.                                             *)
PlanSound ==
    /\ \A i, j \in DOMAIN named : FoldKey(named[i]) = FoldKey(named[j]) => i = j
    /\ \A i \in DOMAIN named :
          /\ Len(named[i]) <= MaxStem
          /\ (\A j \in 1..(i - 1) : FoldKey(Truncate(stems[j])) # FoldKey(Truncate(stems[i])))
                => named[i] = Truncate(stems[i])
    /\ todo = <<>> /\ bins # <<>> =>
          /\ \A d \in 1..NPlan : Cardinality({i \in DOMAIN bins : d \in ToSet(bins[i])}) = 1
          /\ FoldSeq(LAMBDA b, n : n + Len(b), 0, bins) = NPlan
          /\ \A i \in DOMAIN bins : BinPages(bins[i]) <= Window \/ Len(bins[i]) = 1
          /\ \A i, j \in DOMAIN bins : i # j => BinPages(bins[i]) + BinPages(bins[j]) > Window
    /\ SelectionValid =>
          /\ PagesOf(PageExpression) \subseteq 1..pages
          /\ Cardinality(PagesOf(PageExpression)) = SelectedPages
          /\ SelectedPages \in 1..PageCap
=============================================================================
