---------------------------- MODULE SymbolLocation -----------------------------
(***************************************************************************)
(* The search for every image that has a function (commands/locate.rs):    *)
(* the images of the priority folders that the priority lists name, and    *)
(* all images of the folders given, in tiers of equal rank                 *)
(* (core/priority.rs); exports first, the symbols of the images without a  *)
(* match next, and the images given by path last.                          *)
(*                                                                         *)
(* Paths are numbers in the order of their text.  Workers share a tier;    *)
(* what they find is sorted, so a tier is one step.                        *)
(***************************************************************************)
EXTENDS Integers, Sequences, SequencesExt

CONSTANTS
  Listing,  \* folder that can be listed -> paths in it
  Binaries, \* path -> the file there
  Lists,    \* the priority lists: file names, then sets of names that a pattern matches
  Lookups   \* what is looked for, and how

VARIABLES
  lookup,
  round,   \* "exports", "symbols", "given", "annotate" or "done"
  todo,    \* paths left to this round
  matched, \* paths with a match
  matches  \* what is reported, in order

vars == <<lookup, round, todo, matched, matches>>

-----------------------------------------------------------------------------
(* Rank.                                                                    *)

NonPriority == Len(Lists.names) + Len(Lists.patterns) + 100

FileRank(name) ==
  LET Least(S) == CHOOSE i \in S : \A j \in S : i <= j
      exact == {i \in 1 .. Len(Lists.names) : Lists.names[i] = name}
      family == {i \in 1 .. Len(Lists.patterns) : name \in Lists.patterns[i]}
  IN IF exact # {} THEN Least(exact) - 1
     ELSE IF family # {} THEN Len(Lists.names) + Least(family) - 1
     ELSE NonPriority

IsPriority(p) == FileRank(Binaries[p].name) < NonPriority

Rank(p) ==
  LET ExtRank == [dll |-> 0, sys |-> 1, exe |-> 2]
      DirRank == [system32 |-> 0, syswow64 |-> 1, drivers |-> 2, other |-> 3]
  IN <<DirRank[Binaries[p].place], ExtRank[Binaries[p].ext], FileRank(Binaries[p].name)>>

Precedes(r, s) ==
  \/ r[1] < s[1]
  \/ r[1] = s[1] /\ r[2] < s[2]
  \/ r[1] = s[1] /\ r[2] = s[2] /\ r[3] < s[3]

LowestTier(paths) == {p \in paths : \A q \in paths : ~ Precedes(Rank(q), Rank(p))}

\* The images under the roots, each once.
Candidates ==
  UNION {{p \in Listing[r.folder] :
            /\ Binaries[p].ext \in {"dll", "sys", "exe"}
            /\ (r.priorityOnly => IsPriority(p))} :
         r \in {s \in ToSet(lookup.roots) : s.folder \in DOMAIN Listing}}

-----------------------------------------------------------------------------
(* Matches.                                                                 *)

Match(p, source, at, stub) ==
  [path |-> p, source |-> source, at |-> at, kernel |-> Binaries[p].kernel, stub |-> stub, target |-> 0]

ExportHits(p) ==
  LET exports == SelectSeq(Binaries[p].exports, LAMBDA e : e.name = lookup.func)
  IN IF Binaries[p].readable
     THEN [i \in DOMAIN exports |-> Match(p, "export", exports[i].rva, exports[i].syscall)]
     ELSE << >>

\* A symbol is not reported as a system call, whatever its code.
SymbolHits(p) ==
  IF Binaries[p].readable /\ lookup.func \in DOMAIN Binaries[p].symbols
  THEN <<Match(p, "symbol", Binaries[p].symbols[lookup.func], FALSE)>> ELSE << >>

InPathOrder(paths) == SetToSortSeq(paths, <)
TierHits(tier, Hits(_)) == FlattenSeq([i \in DOMAIN InPathOrder(tier) |-> Hits(InPathOrder(tier)[i])])

Paths(hits) == {hits[i].path : i \in DOMAIN hits}

-----------------------------------------------------------------------------

Init ==
  /\ lookup \in Lookups /\ round = "exports" /\ todo = Candidates
  /\ matched = {} /\ matches = << >>

Search(name, Hits(_)) ==
  /\ round = name
  /\ todo # {}
  /\ LET tier == LowestTier(todo)
         hits == TierHits(tier, Hits)
     IN /\ matches' = matches \o hits
        /\ matched' = matched \cup Paths(hits)
        /\ todo' = todo \ tier
  /\ UNCHANGED <<lookup, round>>

\* stream_export_hits, a tier of it.
SearchExports == Search("exports", ExportHits)

\* Every image again.
UnmatchedAll == Candidates

\* The images that have no match yet.
Unmatched == Candidates \ matched

StartSymbols ==
  /\ round = "exports"
  /\ todo = {}
  /\ round' = "symbols"
  /\ todo' = IF lookup.deep /\ lookup.pdb THEN Unmatched ELSE {}
  /\ UNCHANGED <<lookup, matched, matches>>

\* stream_symbol_hits, a tier of it.
SearchSymbols == Search("symbols", SymbolHits)

\* An image given by path is searched unless it has a match under that very path;
\* the key of a path with its links resolved may differ from that of the path.
SearchGiven ==
  /\ round = "symbols"
  /\ todo = {}
  /\ LET Given(p) ==
           ExportHits(p) \o (IF lookup.deep /\ lookup.pdb THEN SymbolHits(p) ELSE << >>)
         asked == SelectSeq(lookup.given, LAMBDA p : p \in DOMAIN Binaries)
         fresh == [i \in DOMAIN asked |->
                     IF asked[i] \in matched \/ (\E j \in 1 .. i - 1 : asked[j] = asked[i])
                     THEN << >> ELSE Given(asked[i])]
     IN /\ matches' = matches \o FlattenSeq(fresh)
        /\ matched' = matched \cup ToSet(asked)
  /\ round' = "annotate"
  /\ UNCHANGED <<lookup, todo>>

\* The kernel function behind a system call stub is the first match in the kernel.
Annotate ==
  /\ round = "annotate"
  /\ LET kernel == SelectSeq(matches, LAMBDA m : m.kernel)
     IN matches' = [i \in DOMAIN matches |->
                      IF matches[i].stub /\ kernel # << >>
                      THEN [matches[i] EXCEPT !.target = kernel[1].path] ELSE matches[i]]
  /\ round' = "done"
  /\ UNCHANGED <<lookup, todo, matched>>

Next == SearchExports \/ StartSymbols \/ SearchSymbols \/ SearchGiven \/ Annotate

Spec == Init /\ [][Next]_vars

-----------------------------------------------------------------------------

\* Every definition of the function in a searched image is reported and no other,
\* none twice: each export, and the symbol of an image that exports no such
\* function or was given by path.
EveryPlaceOnce ==
  round = "done" =>
    LET places == [i \in DOMAIN matches |-> <<matches[i].path, matches[i].source, matches[i].at>>]
        searched == {p \in Candidates \cup (ToSet(lookup.given) \cap DOMAIN Binaries) : Binaries[p].readable}
        exports == UNION {{<<p, "export", e.rva>> : e \in {x \in ToSet(Binaries[p].exports) : x.name = lookup.func}} :
                          p \in searched}
        symbols == {<<p, "symbol", Binaries[p].symbols[lookup.func]>> :
                      p \in {q \in searched : lookup.func \in DOMAIN Binaries[q].symbols}}
    IN /\ IsInjective(places)
       /\ exports \subseteq ToSet(places)
       /\ \A m \in ToSet(places) \ exports :
            m \in symbols /\ (m[1] \in ToSet(lookup.given) \/ \A e \in exports : e[1] # m[1])
       /\ lookup.deep /\ lookup.pdb =>
            \A s \in symbols : s \in ToSet(places) \/ \E e \in exports : e[1] = s[1]
       /\ ~ (lookup.deep /\ lookup.pdb) => ToSet(places) \cap symbols = {}

\* Within one round a better image is never behind a worse one.
BestFirst ==
  round = "done" =>
    \A i, j \in DOMAIN matches :
      (i < j /\ {matches[i].path, matches[j].path} \subseteq Candidates
         /\ matches[i].source = matches[j].source /\ matches[j].path \notin ToSet(lookup.given))
      => ~ Precedes(Rank(matches[j].path), Rank(matches[i].path))

\* A stub is tied to a kernel image if one was found, and to nothing else.
StubsAreTied ==
  round = "done" =>
    \A i \in DOMAIN matches :
      IF matches[i].stub /\ (\E j \in DOMAIN matches : matches[j].kernel)
      THEN matches[i].target \in Paths(matches) /\ Binaries[matches[i].target].kernel
      ELSE matches[i].target = 0

LocatesAll == EveryPlaceOnce /\ BestFirst /\ StubsAreTied

=============================================================================
