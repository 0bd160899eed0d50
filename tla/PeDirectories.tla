----------------------------- MODULE PeDirectories -----------------------------
(***************************************************************************)
(* The contents of the directories of a PE image (resx/src/formats/pe):    *)
(* validation::check and metadata_anomalies, which walk them under one     *)
(* budget and refuse what is malformed, and the readers that take exports, *)
(* imports, TLS callbacks and unwind records from them without a look at   *)
(* what was refused.                                                       *)
(*                                                                         *)
(* An image is a function from the directories that parse_pe has kept to   *)
(* their contents.  Contents are trees of records: what a pointer, a name  *)
(* or a code says is classified by what the two sides can tell apart.  A   *)
(* name is "text", "empty" or "cut" (no terminator in reach, or not UTF-8) *)
(* and costs one unit of a string budget.                                  *)
(***************************************************************************)
EXTENDS Integers, Sequences, FiniteSets, SequencesExt, FiniteSetsExt

CONSTANTS
  Images,        \* the images that may be read
  CheckEntries,  \* Budget::new
  CheckStrings,
  UnwindBudget,  \* of metadata_anomalies and of read_runtime_functions
  ReadEntries,   \* MAX_PE_ENTRIES, for all imports together
  ReadStrings,   \* string_budget of read_exports and of read_imports
  MaxDepth,      \* of a resource tree, 32
  MaxNodes,      \* 4096
  MaxChain,      \* of unwind information, 32
  MaxCallbacks   \* 64

VARIABLES
  image,
  found,  \* the directories about which something was found; NotChecked before
  read    \* what each reader that ran returned

vars == <<image, found, read>>

NotChecked == {"not checked"}

-----------------------------------------------------------------------------
(* The budget: ok is FALSE in a directory that is refused.                  *)

Refuse(b) == [b EXCEPT !.ok = FALSE]
Need(b, condition) == IF condition THEN b ELSE Refuse(b)
Entry(b) == IF b.ok /\ b.entries > 0 THEN [b EXCEPT !.entries = @ - 1] ELSE Refuse(b)
Text(b) == IF b.ok /\ b.strings > 0 THEN [b EXCEPT !.strings = @ - 1] ELSE Refuse(b)
Name(b, name) == IF name = "cut" THEN Refuse(b) ELSE Text(b)
NonEmpty(b, name) == Need(Name(b, name), name # "empty")

-----------------------------------------------------------------------------
(* Checks of directories.                                                   *)

\* exports: a function is "none", "code", "outside", or points into the
\* directory at a forwarder, at text without a dot, or at no string.
ExportTable(d, b) ==
  LET function(c, f) ==
        IF f \in {"none", "code"} THEN Entry(c)
        ELSE IF f \in {"forwarder", "dotless"} THEN Need(Text(Entry(c)), f = "forwarder")
        ELSE Refuse(Entry(c))
      name(c, n) == NonEmpty(Need(Entry(c), n.function <= Len(d.functions)), n.name)
      header == IF d.module = "none" THEN Need(b, d.header) ELSE Name(Need(b, d.header), d.module)
  IN  FoldLeft(name, FoldLeft(function, header, d.functions), d.names)

\* thunks: "ordinal", "reserved" (an ordinal with other bits), or the kind of
\* the name; the zero that ends them needs a slot too.
Thunks(d, b) ==
  LET thunk(c, i) ==
        LET slot == Need(Entry(c), i <= d.slots) IN
        IF d.thunks[i] = "ordinal" THEN slot
        ELSE IF d.thunks[i] = "reserved" THEN Refuse(slot)
        ELSE NonEmpty(slot, d.thunks[i])
      all == FoldLeft(thunk, Need(b, d.backed), [i \in DOMAIN d.thunks |-> i])
  IN  Need(Need(Entry(all), Len(d.thunks) < d.slots), d.terminated)

\* imports, and the delayed ones, whose attributes may be unknown
Imports(d, b) ==
  LET descriptor(c, x) ==
        Thunks(x, Need(NonEmpty(Need(Entry(c), x.attributes), x.name),
                       x.iat /\ (x.lookup \/ ~ x.bound)))
  IN  Need(Entry(FoldLeft(descriptor, b, d.descriptors)), d.terminated)

\* Mutant: a directory may be met again.
NewNodeAgain(nodes, node, visited) ==
  node.depth <= MaxDepth /\ Cardinality(visited) < MaxNodes /\ node.at \in DOMAIN nodes

NewNode(nodes, node, visited) ==
  /\ node.depth <= MaxDepth /\ node.at \notin visited /\ Cardinality(visited) < MaxNodes
  /\ node.at \in DOMAIN nodes  \* its records are in the directory

\* resources: a stack of directories; an entry leads to one, to data, or to
\* data that are not in the file.
RECURSIVE Resources(_, _, _, _)
Resources(nodes, pending, visited, b) ==
  LET node == Last(pending)
      start == Need(Entry(b), NewNode(nodes, node, visited))
      entry(c, e) ==
        Need(IF e.name = "none" THEN Entry(c) ELSE Name(Entry(c), e.name), e.to # "nowhere")
      lower == SelectSeq(nodes[node.at], LAMBDA e : e.to # "data")
      pushed == Front(pending)
                \o [i \in DOMAIN lower |-> [at |-> lower[i].to, depth |-> node.depth + 1]]
  IN  IF pending = << >> \/ ~ b.ok THEN b
      ELSE IF ~ start.ok THEN start
      ELSE Resources(nodes, pushed, visited \cup {node.at},
                     Need(FoldLeft(entry, start, nodes[node.at]), Len(pushed) <= MaxNodes))

\* relocations: an entry is "pad", "fits", "pair" (HIGHADJ, with its second
\* word), or not of the machine or not mapped.
Relocations(blocks, b) ==
  LET entry(c, e) == Need(Entry(c), e \in {"pad", "fits", "pair"})
      block(c, x) == FoldLeft(entry, Need(Entry(c), x.sized), x.entries)
  IN  FoldLeft(block, b, blocks)

\* certificates: the size of the one at an offset; each begins at a multiple
\* of eight.
RECURSIVE Certificates(_, _, _)
Certificates(d, offset, b) ==
  LET size == d.at[offset]
      end == offset + size
      next == 8 * ((end + 7) \div 8)
      one == Need(Entry(b), /\ offset + 8 <= d.size /\ size >= 8 /\ end <= d.size
                            /\ (next <= d.size \/ end = d.size))
  IN  IF offset >= d.size THEN b
      ELSE IF ~ one.ok THEN one ELSE Certificates(d, next, one)

\* debug
Debug(entries, b) ==
  LET entry(c, e) ==
        LET placed == Need(Entry(c), e.size = 0 \/ (e.inFile /\ e.agrees)) IN
        IF e.codeView /\ e.size # 0 THEN Name(placed, e.name) ELSE placed
  IN  FoldLeft(entry, b, entries)

\* load_config: tables of ascending addresses
LoadConfig(tables, b) ==
  LET table(c, t) ==
        LET target(x, i) == Need(Entry(x), i = 1 \/ t[i - 1] <= t[i])
        IN  FoldLeft(target, Need(c, Len(t) <= ReadEntries), [i \in DOMAIN t |-> i])
  IN  FoldLeft(table, b, tables)

\* bound_imports: a name and the names of its forwarders
BoundImports(d, b) ==
  LET name(c, n) == Name(Entry(c), n)
      entry(c, x) == FoldLeft(name, Name(Entry(c), x.name), x.forwarders)
  IN  Need(Entry(FoldLeft(entry, b, d.entries)), d.terminated)

\* clr: the streams of the metadata, behind their headers
Clr(d, b) ==
  LET stream(c, s) == Need(NonEmpty(Entry(c), "text"), s.from + s.size <= d.size)
      filled == {s \in Range(d.streams) : s.size # 0}
      apart == /\ \A s \in filled : s.from >= d.headers
               /\ \A s, t \in filled :
                    s # t => s.from + s.size <= t.from \/ t.from + t.size <= s.from
               /\ \A i, j \in DOMAIN d.streams : d.streams[i].name = d.streams[j].name => i = j
  IN  Need(FoldLeft(stream, Need(Name(b, "text"), d.signed), d.streams), apart)

Checked == <<"exports", "imports", "resources", "certificates", "relocations", "debug",
             "tls", "load config", "bound imports", "iat", "delayed imports", "clr", "reserved">>

Check(dir, d, b) ==
  CASE dir = "exports" -> ExportTable(d, b)
    [] dir \in {"imports", "delayed imports"} -> Imports(d, b)
    [] dir = "resources" -> Resources(d, <<[at |-> "root", depth |-> 0]>>, {}, b)
    [] dir = "certificates" -> Certificates(d, 0, b)
    [] dir = "relocations" -> Relocations(d, b)
    [] dir = "debug" -> Debug(d, b)
    [] dir = "tls" -> Need(b, d.fields)
    [] dir = "load config" -> LoadConfig(d, b)
    [] dir = "bound imports" -> BoundImports(d, b)
    [] dir = "iat" -> Need(b, d % 2 = 0)
    [] dir = "clr" -> Clr(d, b)
    [] OTHER -> Refuse(b)

\* validation::check: the directories in order, each with what is left.
Refused(im) ==
  LET one(state, dir) ==
        LET b == Check(dir, im[dir], [state.b EXCEPT !.ok = TRUE]) IN
        [b |-> b, refused |-> IF b.ok THEN state.refused ELSE state.refused \cup {dir}]
      start == [b |-> [ok |-> TRUE, entries |-> CheckEntries, strings |-> CheckStrings],
                refused |-> {}]
  IN  FoldLeft(one, start, SelectSeq(Checked, LAMBDA dir : dir \in DOMAIN im)).refused

-----------------------------------------------------------------------------
(* TLS callbacks and unwind records: metadata_anomalies.                    *)

\* Mutant: a table may end anywhere.
TlsFoundUnended(d) ==
  d.table = "unmapped"
  \/ (d.table = "backed"
      /\ \E i \in 1 .. Min({MaxCallbacks, Len(d.callbacks)}) : d.callbacks[i] # "code")

\* A callback is "code" or not; the table may be absent or unmapped.
TlsFound(d) ==
  LET seen == SubSeq(d.callbacks, 1, Min({MaxCallbacks, Len(d.callbacks)})) IN
  IF d.table = "none" THEN FALSE
  ELSE \/ d.table = "unmapped" \/ (\E c \in Range(seen) : c # "code")
       \/ ~ (d.terminated /\ Len(d.callbacks) < MaxCallbacks)

\* validate_unwind_storage: the chain from a record to the record it shares its
\* unwind information with.  infos[u] is that information: its state, the
\* number of its codes and the next in the chain.
Unwound(infos, record, budget) ==
  LET Stop(w, result) == [w EXCEPT !.result = result]
      Chain(w, i) ==
        LET paid == [w EXCEPT !.budget = @ - 1]
            info == infos[w.at]
            spent == [paid EXCEPT !.budget = @ - info.codes, !.seen = @ \cup {w.at},
                                  !.odd = @ \/ info.state = "odd"]
        IN  IF w.result # "going" THEN w
            ELSE IF w.budget = 0 THEN Stop(w, "invalid")
            ELSE IF w.at \in w.seen \/ w.at \notin DOMAIN infos \/ w.range # "mapped"
                 THEN Stop(paid, "invalid")
            ELSE IF info.state = "absent" THEN Stop(paid, "unavailable")
            ELSE IF info.state = "bad version" THEN Stop(paid, "invalid")
            ELSE IF info.codes > paid.budget THEN Stop([paid EXCEPT !.budget = 0], "invalid")
            ELSE IF info.state = "bad codes" THEN Stop(spent, "invalid")
            ELSE IF info.next = "none" THEN Stop(spent, IF spent.odd THEN "inconsistent" ELSE "valid")
            ELSE [spent EXCEPT !.at = info.next, !.range = info.range]
      start == [at |-> record.unwind, range |-> IF record.range = "at zero" THEN "mapped" ELSE record.range,
                seen |-> {}, odd |-> FALSE, budget |-> budget, result |-> "going"]
      end == FoldLeft(Chain, start, [i \in 1 .. MaxChain |-> i])
  IN  IF end.result = "going" THEN Stop(end, "invalid") ELSE end

\* The results of the records, in order, and whether the budget is used up.
UnwindResults(d) ==
  LET one(state, record) ==
        LET w == Unwound(d.infos, record, state.budget) IN
        [budget |-> w.budget, results |-> Append(state.results, w.result)]
  IN  FoldLeft(one, [budget |-> UnwindBudget, results |-> << >>], d.records)
UnwindFound(d) ==
  LET all == UnwindResults(d) IN
  \/ all.budget = 0 \/ Len(d.records) > ReadEntries \/ d.partial
  \/ \E r \in Range(all.results) : r \in {"invalid", "inconsistent"}

-----------------------------------------------------------------------------
(* Readers.                                                                 *)

\* read_exports: the named functions, then the others.
ReadExports(d) ==
  LET cost(f) == IF f \in {"forwarder", "dotless"} THEN 1 ELSE 0
      skipped(n) == n.function > Len(d.functions) \/ n.name # "text"
      named(state, n) ==
        LET c == 1 + cost(d.functions[n.function]) IN
        IF state.stopped \/ skipped(n) THEN state
        ELSE IF state.left < c THEN [state EXCEPT !.stopped = TRUE, !.left = Max({0, @ - 1})]
        ELSE [state EXCEPT !.left = @ - c, !.out = @ \cup {n}]
      other(state, i) ==
        LET c == 1 + cost(d.functions[i]) IN
        IF state.stopped \/ d.functions[i] = "none" \/ (\E n \in state.out : n.function = i)
        THEN state
        ELSE IF state.left < c THEN [state EXCEPT !.stopped = TRUE]
        ELSE [state EXCEPT !.left = @ - c, !.out = @ \cup {[function |-> i, name |-> "none"]}]
      names == FoldLeft(named, [left |-> ReadStrings, out |-> {}, stopped |-> FALSE], d.names)
  IN  IF ~ d.header THEN {}
      ELSE FoldLeft(other, [names EXCEPT !.stopped = FALSE], [i \in DOMAIN d.functions |-> i]).out

\* The number of thunks of a library that read_imports takes.
ReadThunks(d, remaining, strings) ==
  LET Good(i) == i <= d.slots /\ d.thunks[i] \in {"ordinal", "reserved", "text"}
      limit == Min({remaining, strings, Len(d.thunks)})
  IN  Cardinality({n \in 1 .. limit : \A i \in 1 .. n : Good(i)})

\* read_imports: how many entries of each library, in order.
ReadImports(d) ==
  LET library(state, x) ==
        LET strings == state.strings - 1
            n == ReadThunks(x, state.remaining, strings)
            cut == n < Len(x.thunks) /\ n < state.remaining  \* the next was counted too
        IN  IF state.remaining = 0 \/ state.strings = 0 \/ ~ x.iat \/ x.name # "text" THEN state
            ELSE IF ~ x.backed THEN [state EXCEPT !.strings = strings]
            ELSE [remaining |-> state.remaining - n - (IF cut THEN 1 ELSE 0),
                  strings |-> strings - n,
                  out |-> Append(state.out, n)]
  IN  FoldLeft(library, [remaining |-> ReadEntries, strings |-> ReadStrings, out |-> << >>],
               d.descriptors).out

\* read_tls_info
ReadTls(d) ==
  IF d.table # "backed" THEN 0
  ELSE Cardinality({i \in 1 .. Min({MaxCallbacks, Len(d.callbacks)}) : d.callbacks[i] = "code"})

\* read_runtime_functions: the places of the records that it returns
ReadUnwind(d) ==
  LET one(state, i) ==
        LET w == Unwound(d.infos, d.records[i], state.budget) IN
        IF state.stopped THEN state
        ELSE IF d.records[i].range \in {"at zero", "reversed"}
             THEN [state EXCEPT !.stopped = state.budget = 0]
        ELSE [budget |-> w.budget, stopped |-> w.budget = 0,
              out |-> IF w.result = "valid" THEN state.out \cup {i} ELSE state.out]
      some == [i \in 1 .. Min({Len(d.records), ReadEntries}) |-> i]
  IN  FoldLeft(one, [budget |-> UnwindBudget, stopped |-> FALSE, out |-> {}], some).out

-----------------------------------------------------------------------------
(* Actions.                                                                 *)

Init == image \in Images /\ found = NotChecked /\ read = << >>

\* The last part of parse_pe.
Validate ==
  /\ found = NotChecked
  /\ found' = Refused(image)
       \cup (IF "tls" \in DOMAIN image THEN (IF TlsFound(image["tls"]) THEN {"tls"} ELSE {}) ELSE {})
       \cup (IF "exceptions" \in DOMAIN image
             THEN (IF UnwindFound(image["exceptions"]) THEN {"exceptions"} ELSE {}) ELSE {})
  /\ UNCHANGED <<image, read>>

\* A command reads what it wants of the image, whatever was found.
Reader(dir) == found # NotChecked /\ dir \in DOMAIN image /\ read = << >>
Read ==
  \/ Reader("exports") /\ read' = <<"exports", ReadExports(image["exports"])>>
  \/ Reader("imports") /\ read' = <<"imports", ReadImports(image["imports"])>>
  \/ Reader("tls") /\ read' = <<"tls", ReadTls(image["tls"])>>
  \/ Reader("exceptions") /\ read' = <<"exceptions", ReadUnwind(image["exceptions"])>>

Next == Validate \/ (Read /\ UNCHANGED <<image, found>>)
Spec == Init /\ [][Next]_vars

-----------------------------------------------------------------------------
(* Properties.                                                              *)

Sum(f) == FoldFunction(LAMBDA a, b : a + b, 0, f)

\* The readers have budgets of their own, smaller than that of the check.
ImportsFit(d) ==
  LET n == Sum([i \in DOMAIN d.descriptors |-> Len(d.descriptors[i].thunks)]) IN
  n < ReadEntries /\ n + Len(d.descriptors) < ReadStrings
ExportsFit(d) == 2 * (Len(d.names) + Len(d.functions)) <= ReadStrings

\* A directory in which nothing was found is read in full: the readers skip
\* what they cannot read without a word, and the check speaks for them.
AcceptedIsRead ==
  read # << >> /\ read[1] \notin found =>
    LET d == image[read[1]] IN
    CASE read[1] = "exports" ->
           ExportsFit(d) =>
             read[2] = Range(d.names)
                       \cup {[function |-> i, name |-> "none"] :
                               i \in {i \in DOMAIN d.functions :
                                        d.functions[i] # "none"
                                        /\ \A n \in Range(d.names) : n.function # i}}
      [] read[1] = "imports" ->
           ImportsFit(d) =>
             read[2] = [i \in DOMAIN d.descriptors |-> Len(d.descriptors[i].thunks)]
      [] read[1] = "tls" -> d.table = "none" \/ read[2] = Len(d.callbacks)
      [] read[1] = "exceptions" ->
           read[2] = {i \in DOMAIN d.records :
                        d.records[i].range # "at zero"
                        /\ UnwindResults(d).results[i] # "unavailable"}

\* What the check accepts as resources is a tree, which every walk of it ends
\* in: each directory is named by one entry, and none is below itself.
Below(d, at) == {e.to : e \in Range(d[at])} \ {"data"}
RECURSIVE UpTo(_, _)
UpTo(d, n) == IF n = 0 THEN {"root"}
              ELSE UNION {Below(d, at) : at \in UpTo(d, n - 1)} \cup UpTo(d, n - 1)
AcceptedIsTree ==
  found # NotChecked /\ "resources" \in DOMAIN image \ found =>
    LET d == image["resources"]
        nodes == UpTo(d, Cardinality(DOMAIN d))
        namings(n) == {<<at, i>> \in nodes \X (1 .. 3) : i <= Len(d[at]) /\ d[at][i].to = n}
    IN  /\ nodes \subseteq UpTo(d, MaxDepth) /\ namings("root") = {}
        /\ \A n \in nodes \ {"root"} : Cardinality(namings(n)) = 1

=============================================================================
