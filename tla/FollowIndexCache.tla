-------------------------- MODULE FollowIndexCache --------------------------
(***************************************************************************)
(* The on-disk cache of reverse call indexes that `resx callers` keeps     *)
(* under follow-index/ (resx/src/analysis/follow/scan.rs): one JSON file   *)
(* per image path, read and rewritten by every run that scans that image,  *)
(* with no lock between runs.                                              *)
(*                                                                         *)
(* One image path is modelled.  Its content is a version number: every     *)
(* replacement of the image is a new version, and the file's length and    *)
(* modification time (SourceMeta) identify the version.  An index is       *)
(* abstracted to the version it was built from and to the --hostile flag   *)
(* it was built with.  A run takes the cache through the steps of          *)
(* load_or_build_index, and other runs, a replacement of the image, a      *)
(* failed write or a crash may come between any two of them.               *)
(***************************************************************************)
EXTENDS Naturals

CONSTANTS
  Runs,        \* `resx callers` processes that scan the image
  Reload,      \* runs started with --reload
  Hostile,     \* runs started with --hostile
  MaxVersion,  \* bound on the replacements of the image
  Absent,      \* no cache file
  Torn         \* a cache file that is not one whole JSON document

ASSUME RunsAssumption == Reload \subseteq Runs /\ Hostile \subseteq Runs
ASSUME MaxVersionAssumption == MaxVersion \in Nat

VARIABLES
  image,    \* current version of the image file
  parses,   \* versions so far that parse as a PE image
  cache,    \* the cache file
  progress,       \* the step of load_or_build_index each run is at
  meta,     \* the metadata each run read: the version it identifies
  index     \* the index each run has built or loaded

indexVars == <<image, parses, cache, progress, meta, index>>

-----------------------------------------------------------------------------
(* Index records.  schema is index_version: FALSE for a file written by a   *)
(* build of RESX with another REVERSE_CALL_INDEX_VERSION.                   *)

Versions == 0 .. MaxVersion

Index == [schema : BOOLEAN, stamp : Versions, content : Versions,
          hostile : BOOLEAN]

ASSUME MarkersAssumption == Absent \notin Index /\ Torn \notin Index

NoIndex == [schema |-> FALSE, stamp |-> 0, content |-> 0, hostile |-> FALSE]

IsDocument(file) == file \notin {Absent, Torn}

\* Mutant: the metadata is read after the image.
BuiltIndexMetaLate(r) == [schema |-> TRUE, stamp |-> image, content |-> meta[r],
                          hostile |-> r \in Hostile]

\* build_reverse_index: metadata read first, content read later.
BuiltIndex(r) == [schema |-> TRUE, stamp |-> meta[r], content |-> image,
                  hostile |-> r \in Hostile]

\* Mutant: the length and modification time are not compared.
UsableAnyStamp(file, r) == IsDocument(file) /\ file.schema

\* The test of load_index_from_cache.
Usable(file, r) == /\ IsDocument(file)
                       /\ file.schema
                       /\ file.stamp = meta[r]

-----------------------------------------------------------------------------

IndexSteps == {"start", "lookup", "read", "create", "write", "done", "none",
          "crashed"}

\* The cache may hold what an older build or an interrupted run left there.
IndexInit ==
  /\ image = 0
  /\ parses \in {{}, {0}}
  /\ cache \in {Absent, Torn, NoIndex}
  /\ progress = [r \in Runs |-> "start"]
  /\ meta = [r \in Runs |-> 0]
  /\ index = [r \in Runs |-> NoIndex]

MoveOn(r, step) == progress' = [progress EXCEPT ![r] = step]

\* read_source_meta; --reload skips the cache.
ReadMeta(r) ==
  /\ progress[r] = "start"
  /\ meta' = [meta EXCEPT ![r] = image]
  /\ MoveOn(r, IF r \in Reload THEN "read" ELSE "lookup")
  /\ UNCHANGED <<image, parses, cache, index>>

\* load_index_from_cache accepts the file.
CacheHit(r) ==
  /\ progress[r] = "lookup"
  /\ Usable(cache, r)
  /\ index' = [index EXCEPT ![r] = cache]
  /\ MoveOn(r, "done")
  /\ UNCHANGED <<image, parses, cache, meta>>

\* Mutant: only a missing file is a miss; a torn one is an error.
CacheMissAbsentOnly(r) ==
  /\ progress[r] = "lookup"
  /\ cache = Absent
  /\ MoveOn(r, "read")
  /\ UNCHANGED <<image, parses, cache, meta, index>>

\* The file is missing, is not a document, or describes another file.
CacheMiss(r) ==
  /\ progress[r] = "lookup"
  /\ ~Usable(cache, r)
  /\ MoveOn(r, "read")
  /\ UNCHANGED <<image, parses, cache, meta, index>>

\* load_scan_data and build_reverse_index.
ReadImage(r) ==
  /\ progress[r] = "read"
  /\ image \in parses
  /\ index' = [index EXCEPT ![r] = BuiltIndex(r)]
  /\ MoveOn(r, IF r \in Reload THEN "done" ELSE "create")
  /\ UNCHANGED <<image, parses, cache, meta>>

\* load_scan_data fails: the image contributes no callers to this run.
RejectImage(r) ==
  /\ progress[r] = "read"
  /\ image \notin parses
  /\ MoveOn(r, "none")
  /\ UNCHANGED <<image, parses, cache, meta, index>>

\* std::fs::write opens the file and truncates it.
TruncateCache(r) ==
  /\ progress[r] = "create"
  /\ cache' = Torn
  /\ MoveOn(r, "write")
  /\ UNCHANGED <<image, parses, meta, index>>

\* create_dir_all or the open fails: the result is dropped (`let _ =`).
CreateFails(r) ==
  /\ progress[r] = "create"
  /\ MoveOn(r, "done")
  /\ UNCHANGED <<image, parses, cache, meta, index>>

\* std::fs::write writes the whole document from offset 0 of its own handle.
\* Over a longer document another run wrote since, the tail of that one
\* stays and the file is no longer one document; a full disk leaves a
\* prefix.
WriteCache(r) ==
  /\ progress[r] = "write"
  /\ cache' \in {index[r], Torn}
  /\ MoveOn(r, "done")
  /\ UNCHANGED <<image, parses, meta, index>>

\* The process dies; if it was writing the cache file, a prefix
\* of its document may stay.
Crash(r) ==
  /\ progress[r] \in {"lookup", "read", "create", "write"}
  /\ MoveOn(r, "crashed")
  /\ cache' \in IF progress[r] = "write" THEN {cache, Torn} ELSE {cache}
  /\ UNCHANGED <<image, parses, meta, index>>

\* Someone replaces the image, by one that parses or one that does not.
ReplaceImage ==
  /\ image < MaxVersion
  /\ image' = image + 1
  /\ parses' \in {parses, parses \cup {image + 1}}
  /\ UNCHANGED <<cache, progress, meta, index>>

LoadOrBuild(r) ==
  \/ ReadMeta(r) \/ CacheHit(r) \/ CacheMiss(r)
  \/ ReadImage(r) \/ RejectImage(r)
  \/ TruncateCache(r) \/ CreateFails(r) \/ WriteCache(r)

IndexNext == ReplaceImage \/ \E r \in Runs : LoadOrBuild(r) \/ Crash(r)

IndexSpec == IndexInit /\ [][IndexNext]_indexVars

\* A run that has started is scheduled until it returns or dies.
FairIndexSpec == IndexSpec /\ \A r \in Runs : WF_indexVars(LoadOrBuild(r))

-----------------------------------------------------------------------------
(* Properties.                                                              *)

IndexTypeOK ==
  /\ image \in Versions
  /\ parses \subseteq Versions
  /\ cache \in Index \cup {Absent, Torn}
  /\ progress \in [Runs -> IndexSteps]
  /\ meta \in [Runs -> Versions]
  /\ index \in [Runs -> Index]

\* A run answers from an index of this build whose content the image held at
\* some moment between the run's metadata read and its answer, although the
\* metadata, the cache and the image are read at different moments and other
\* runs rewrite the cache meanwhile (load_or_build_index).
ServedWasCurrent ==
  \A r \in Runs :
    progress[r] = "done" => /\ index[r].schema
                      /\ meta[r] <= index[r].content
                      /\ index[r].content <= image

\* A cache entry may be newer than its stamp says, when the image was
\* replaced between the two reads of the run that wrote it, but never older:
\* an entry that no longer describes the image also stops matching its
\* metadata, so a torn or outdated entry costs a rebuild and nothing else.
CacheNeverBackdated ==
  IsDocument(cache) /\ cache.schema =>
    cache.stamp <= cache.content /\ cache.content <= image

\* What a run has told its caller so far; a run that found the image
\* unreadable and one that was killed both leave their question unanswered.
Asking(r) ==
  IF progress[r] = "start" THEN "not yet"
  ELSE IF progress[r] = "done" THEN "answered"
  ELSE IF progress[r] \in {"none", "crashed"} THEN "refused"
  ELSE "asked"

OnDemand == INSTANCE IndexOnDemand WITH
  asking <- [r \in Runs |-> Asking(r)],
  since <- meta,
  answer <- [r \in Runs |-> IF progress[r] = "done" THEN index[r].content ELSE 0]

\* Runs that share one cache file behave as if each had built its index from
\* the image alone, whatever an older build, an interrupted run or a
\* concurrent writer left in the file: a step of load_or_build_index is a
\* step of the ideal index or is not seen, and every run that begins ends.
ImplementsOnDemand == OnDemand!FairSpec

\* What the --hostile option promises (cli/args.rs, "Aggressive tracing"): a
\* run asked for it answers from an index built with it.
HostileHonoured ==
  \A r \in Runs \cap Hostile : progress[r] = "done" => index[r].hostile

=============================================================================
