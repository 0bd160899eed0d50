------------------------------ MODULE CorpusScan ------------------------------
(***************************************************************************)
(* The scan of a tree of files (commands/scan.rs): the tree is walked      *)
(* level by level, through links, until enough files are found; each file  *)
(* that can be parsed gets a score and a list of candidates; the report is *)
(* ordered by score.                                                       *)
(*                                                                         *)
(* A path is the sequence of names from the root.                          *)
(***************************************************************************)
EXTENDS Integers, Sequences, SequencesExt, FiniteSetsExt

CONSTANTS
  Nodes,      \* folder -> its entries in the order they are read: name and node
  TreeFiles,      \* node -> file
  Scans,      \* the limits of a scan
  LongestPath \* of the file system, in names

VARIABLES
  limits,
  queue,    \* paths to look at, with their nodes
  paths,    \* the files to scan
  reports,  \* what is known of each
  scanPhase \* "walk", "images" or "done"

vars == <<limits, queue, paths, reports, scanPhase>>

FirstOf(s, n) == [i \in 1 .. Min({n, Len(s)}) |-> s[i]]

-----------------------------------------------------------------------------
(* Candidates: the entry point and the exports whose names score.           *)

Candidate(name, rank, source, score) == [name |-> name, rank |-> rank, source |-> source, score |-> score]

ExportCandidate(e, score) == Candidate(e.name, e.rank, "export", score)

\* With one candidate at most, the first exports fill the list.
Offered(file) ==
  LET entry == IF file.entry THEN <<Candidate("entry_point", 0, "entry_point", IF file.driver THEN 25 ELSE 10)>>
               ELSE << >>
      scored == SelectSeq(file.exports, LAMBDA e : e.score > 0)
      named == entry \o [i \in DOMAIN scored |-> ExportCandidate(scored[i], scored[i].score)]
      room == IF limits.candidates > Len(named) THEN limits.candidates - Len(named) ELSE 0
      filler == FirstOf(file.exports, room)
  IN IF Len(named) <= 1 THEN named \o [i \in DOMAIN filler |-> ExportCandidate(filler[i], 1)] ELSE named

\* An image that imports device I/O has an entry point worth more.
Raised(candidate, file) ==
  IF file.deviceIo /\ candidate.source = "entry_point"
  THEN [candidate EXCEPT !.score = @ + 10] ELSE candidate

Better(a, b) == a.score > b.score \/ (a.score = b.score /\ a.rank <= b.rank)

Ranked(file) ==
  LET raised == [i \in DOMAIN Offered(file) |-> Raised(Offered(file)[i], file)]
  IN SortSeq(raised, Better)

\* The list is cut before it is ordered.
CutFirst(file) ==
  SortSeq(FirstOf([i \in DOMAIN Offered(file) |-> Raised(Offered(file)[i], file)], limits.candidates), Better)

SelectCandidates(file) == FirstOf(Ranked(file), limits.candidates)

\* A driver, its risky imports, its best candidate, odd sections and a corrupt header.
RiskScore(file, candidates) ==
  (IF file.driver THEN 25 ELSE 0)
  + 3 * (IF file.risky > 20 THEN 20 ELSE file.risky)
  + (IF candidates = << >> THEN 0 ELSE Max({candidates[i].score : i \in DOMAIN candidates}))
  + 5 * file.oddSections + (IF file.corrupt THEN 10 ELSE 0)

-----------------------------------------------------------------------------

Init ==
  /\ limits \in Scans
  /\ queue = <<[path |-> << >>, node |-> limits.root]>>
  /\ paths = << >> /\ reports = << >> /\ scanPhase = "walk"

Enough == Len(paths) >= limits.files

\* A path that the file system does not take, or whose node is gone, is passed over.
Reachable(entry) == Len(entry.path) <= LongestPath /\ entry.node \in DOMAIN Nodes \cup DOMAIN TreeFiles

Wanted(node) == TreeFiles[node].ext \in limits.extensions /\ TreeFiles[node].size <= limits.size

Walk ==
  /\ scanPhase = "walk"
  /\ queue # << >>
  /\ ~ Enough
  /\ LET next == Head(queue)
         folder == Reachable(next) /\ next.node \in DOMAIN Nodes
         children == [i \in DOMAIN Nodes[next.node] |->
                        [path |-> Append(next.path, Nodes[next.node][i].name), node |-> Nodes[next.node][i].node]]
     IN /\ queue' = Tail(queue) \o (IF folder THEN children ELSE << >>)
        /\ paths' = IF ~ folder /\ Reachable(next) /\ Wanted(next.node) THEN Append(paths, next) ELSE paths
  /\ UNCHANGED <<limits, reports, scanPhase>>

StartImages ==
  /\ scanPhase = "walk"
  /\ queue = << >> \/ Enough
  /\ scanPhase' = "images"
  /\ UNCHANGED <<limits, queue, paths, reports>>

\* scan_one for every file, on any worker; files that cannot be parsed are left out.
\* The report is in order of score, then of path.
Report ==
  /\ scanPhase = "images"
  /\ LET parsed == SelectSeq(paths, LAMBDA p : TreeFiles[p.node].parses)
         All == [i \in DOMAIN parsed |->
                   LET candidates == SelectCandidates(TreeFiles[parsed[i].node])
                   IN [path |-> parsed[i].path, node |-> parsed[i].node, candidates |-> candidates,
                       risk |-> RiskScore(TreeFiles[parsed[i].node], candidates)]]
     IN reports' = SortSeq(All, LAMBDA a, b : a.risk > b.risk)
  /\ scanPhase' = "done"
  /\ UNCHANGED <<limits, queue, paths>>

\* The JSON document around the results.
Envelope == [files_seen |-> Len(paths), files_reported |-> Len(reports), results |-> reports]

Next == Walk \/ StartImages \/ Report

Spec == Init /\ [][Next]_vars

-----------------------------------------------------------------------------

\* The nodes that the links of the tree lead to from the root.
Below(nodes) == nodes \cup UNION {{Nodes[f][i].node : i \in DOMAIN Nodes[f]} : f \in nodes \cap DOMAIN Nodes}
Within[n \in 0 .. LongestPath] == IF n = 0 THEN {limits.root} ELSE Below(Within[n - 1])

WantedFiles == {n \in Within[LongestPath] \cap DOMAIN TreeFiles : Wanted(n) /\ TreeFiles[n].parses}

\* A scan reports files of the tree that it is to look at and that can be parsed, no
\* more than max_files of them and no path twice, the worst first; all of them,
\* also past links that lead back up, when the limit does not stop the walk
\* (collect_image_paths).  A candidate that max_candidates cuts off scores no more
\* than one that is kept (select_candidates).  That the limits cut is not said: see
\* CutsAreTold.
ScanIsComplete ==
  scanPhase = "done" =>
    LET nodes == {reports[i].node : i \in DOMAIN reports}
    IN /\ nodes \subseteq WantedFiles
       /\ Len(paths) <= limits.files
       /\ Len(paths) < limits.files => nodes = WantedFiles
       /\ \A i, j \in DOMAIN reports : i # j => reports[i].path # reports[j].path
       /\ \A i, j \in DOMAIN reports : i < j => reports[i].risk >= reports[j].risk
       /\ \A i \in DOMAIN reports :
            LET file == TreeFiles[reports[i].node]
                kept == {c.name : c \in ToSet(reports[i].candidates)}
                least == Min({c.score : c \in ToSet(reports[i].candidates)} \cup {1000})
            IN \A e \in ToSet(file.exports) : e.score > least => e.name \in kept

\* The limits left something out: a file that was wanted, or a candidate of a file.
FilesLeftOut == ~ WantedFiles \subseteq {reports[i].node : i \in DOMAIN reports}
CandidatesLeftOut ==
  \E i \in DOMAIN reports : Len(reports[i].candidates) < Len(Offered(TreeFiles[reports[i].node]))

\* docs/json-schemas.md:25, "Reports that hit a bound expose the applicable limit and
\* truncation state": the report of a scan that max_files or max_candidates cut
\* short says so beside what it found (collect_image_paths, select_candidates).
CutsAreTold ==
  scanPhase = "done" /\ (FilesLeftOut \/ CandidatesLeftOut) =>
    /\ {"limit", "max_files", "max_candidates"} \cap DOMAIN Envelope # {}
    /\ "truncated" \in DOMAIN Envelope

=============================================================================
