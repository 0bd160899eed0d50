---------------------------- MODULE OutputFiles ----------------------------
(***************************************************************************)
(* The files and the registry value that RESX processes write: the --out   *)
(* report and the debug report (resx/src/main.rs), patched images, payload *)
(* directories, corpus databases, C output, the priority template and the  *)
(* preferences.  Nothing is locked and only some files are opened so that  *)
(* an existing one is refused, so the interesting cases are two processes  *)
(* that name the same files, failed and short writes, and a process that   *)
(* is killed.                                                              *)
(*                                                                         *)
(* A process runs one job.  A job is an --out file and a script of file    *)
(* operations, which stand for the calls the command makes in that order;  *)
(* a file is whole, or a part of what its writer meant, or absent.         *)
(***************************************************************************)
EXTENDS Naturals, Sequences, FiniteSets

CONSTANTS
  Procs,     \* processes
  Jobs,      \* the jobs considered
  Disks,     \* what the paths may hold before: sets of paths that exist
  Settings,  \* preferences
  None

VARIABLES
  job,    \* the job of each process
  disk,   \* files and directories
  prefs,  \* the settings held by the registry value
  at,     \* the next operation of each process; zero before --out is open
  half,   \* the process has opened the file of its operation and not closed it
  size,   \* the size of the registry value when the process asked
  loaded, \* the settings the process has loaded
  ended,  \* how the process ended
  met     \* processes that stored settings while another did (history)

fileVars == <<job, disk, prefs, at, half, size, loaded, ended, met>>

-----------------------------------------------------------------------------
(* Jobs.                                                                    *)

\* A job is a record: kind is the command, out, to and zip are the files it is
\* given, overwrite is --overwrite and setting the preference it changes.

Paths == {"image", "report", "copy", "zip", "dir", "layer1", "layer2", "manifest"}

Op(op, path) == <<op, path>>
InPlace(j) == j.to = "image"

\* patch::run: a copy that exists is refused unless --overwrite is given.
PatchScript(j) ==
  <<Op("parse", "image")>>
  \o (IF InPlace(j) \/ j.overwrite THEN << >> ELSE <<Op("vacant", j.to)>>)
  \o <<Op("write", j.to)>>

\* Mutant: the manifest is written before the layers.
PayloadScriptManifestFirst ==
  <<Op("vacant", "dir"), Op("read", "image"), Op("mkdir", "dir"), Op("create", "manifest"),
    Op("create", "layer1"), Op("create", "layer2")>>

\* payload::run: everything is decoded in memory before the directory is made,
\* and the manifest is written last.
PayloadScript ==
  <<Op("vacant", "dir"), Op("read", "image"), Op("mkdir", "dir"), Op("create", "layer1"),
    Op("create", "layer2"), Op("create", "manifest")>>

ConfigScript == <<Op("size", None), Op("value", None), Op("set", None)>>

\* What the command itself does.
Work(j) ==
  CASE j.kind = "patch" -> PatchScript(j)
    [] j.kind = "payload" -> PayloadScript
    [] j.kind = "config" -> ConfigScript
    [] j.kind = "index" -> <<Op("write", j.to)>>
    [] j.kind = "priority" -> <<Op("fill", j.to)>>
    [] j.kind = "dump" /\ j.to # None -> <<Op("parse", "image"), Op("write", j.to)>>
    [] OTHER -> <<Op("parse", "image")>>

\* A debug report is made after the command and before --out is flushed.
Script(j) == Work(j) \o (IF j.zip = None THEN << >> ELSE <<Op("create", j.zip)>>)

\* Mutant: the commands that render evidence open --out like all others.
KeepsOutNone(j) == j.kind = "none"

\* main: which commands refuse an --out file that exists.
KeepsOut(j) == j.kind \in {"payload", "evidence"}

\* Files that a command cannot do without are given, and a value is a setting.
ASSUME JobsAssumption ==
  /\ None \notin Paths /\ IsFiniteSet(Settings)
  /\ \A j \in Jobs :
       /\ {j.out, j.to, j.zip} \subseteq Paths \cup {None}
       /\ j.kind \in {"patch", "index", "priority"} => j.to \in Paths
       /\ j.kind = "config" => j.setting \in Settings

-----------------------------------------------------------------------------
(* Files.                                                                   *)

Before == "before"
ASSUME ProcsAssumption == Before \notin Procs

File(state, by) == [state |-> state, by |-> by]
Absent == File("absent", Before)
Whole(p) == File("whole", p)
Part(p) == File("part", p)

\* Only an image, patched or not, parses.
Parses(f) ==
  f.state = "whole" /\ (f.by # Before => job[f.by].kind = "patch")

Now(p) == Script(job[p])[at[p]]
Running(p) == ended[p] = "no"
Doing(p, ops) ==
  Running(p) /\ at[p] \in 1 .. Len(Script(job[p])) /\ Now(p)[1] \in ops

FilesInit ==
  /\ job \in [Procs -> Jobs]
  /\ \E there \in Disks :
       disk = [x \in Paths |-> IF x \in there THEN Whole(Before) ELSE Absent]
  /\ prefs \in SUBSET Settings
  /\ at = [p \in Procs |-> 0]
  /\ half = [p \in Procs |-> FALSE]
  /\ size = [p \in Procs |-> 0]
  /\ loaded = [p \in Procs |-> {}]
  /\ ended = [p \in Procs |-> "no"]
  /\ met = {}

Advance(p) == at' = [at EXCEPT ![p] = @ + 1]
Exit(p, how) == ended' = [ended EXCEPT ![p] = how]
Fail(p) == Exit(p, "failed") /\ UNCHANGED <<disk, at, half>>
registry == <<prefs, size, loaded, met>>

\* main opens --out before anything is known of the image.
OpenOutput(p) ==
  /\ Running(p) /\ at[p] = 0
  /\ LET out == job[p].out
     IN  IF out = None THEN Advance(p) /\ UNCHANGED <<disk, half, ended>>
         ELSE IF KeepsOut(job[p]) /\ disk[out] # Absent THEN Fail(p)
         ELSE /\ disk' = [disk EXCEPT ![out] = Part(p)]
              /\ Advance(p) /\ UNCHANGED <<half, ended>>
  /\ UNCHANGED <<job, registry>>

\* A test on a file: its content parses, it exists, or nothing has its name.
Look(p) ==
  /\ Doing(p, {"parse", "read", "vacant"})
  /\ LET f == disk[Now(p)[2]]
         good == \/ Now(p)[1] = "parse" /\ Parses(f)
                 \/ Now(p)[1] = "read" /\ f.state # "absent"
                 \/ Now(p)[1] = "vacant" /\ f.state = "absent"
     IN  IF good THEN Advance(p) /\ UNCHANGED <<disk, half, ended>> ELSE Fail(p)
  /\ UNCHANGED <<job, registry>>

\* create_dir is one step, and so is the test for an existing directory in it.
MakeDirectory(p) ==
  /\ Doing(p, {"mkdir"})
  /\ IF disk[Now(p)[2]] # Absent THEN Fail(p)
     ELSE /\ disk' = [disk EXCEPT ![Now(p)[2]] = Whole(p)]
          /\ Advance(p) /\ UNCHANGED <<half, ended>>
  /\ UNCHANGED <<job, registry>>

\* Mutant: create_new is create.
BeginWriteAnyway(p) ==
  /\ Doing(p, {"write", "create", "fill"}) /\ ~ half[p]
  /\ disk' = [disk EXCEPT ![Now(p)[2]] = Part(p)]
  /\ half' = [half EXCEPT ![p] = TRUE]
  /\ UNCHANGED <<job, at, ended, registry>>

\* fs::write and create_new: the file is there, empty, before it is filled.
BeginWrite(p) ==
  /\ Doing(p, {"write", "create", "fill"}) /\ ~ half[p]
  /\ IF Now(p)[1] = "create" /\ disk[Now(p)[2]] # Absent THEN Fail(p)
     ELSE IF Now(p)[1] = "fill" /\ disk[Now(p)[2]] # Absent
     THEN Advance(p) /\ UNCHANGED <<disk, half, ended>>
     ELSE /\ disk' = [disk EXCEPT ![Now(p)[2]] = Part(p)]
          /\ half' = [half EXCEPT ![p] = TRUE]
          /\ UNCHANGED <<at, ended>>
  /\ UNCHANGED <<job, registry>>

\* The rest of the write.  Over a file that another process has opened since,
\* the two contents may end up mixed.
EndWrite(p) ==
  /\ Running(p) /\ half[p]
  /\ LET x == Now(p)[2]
     IN  \E f \in {Whole(p)} \cup (IF disk[x] = Part(p) THEN {} ELSE {Part(p)}) :
           disk' = [disk EXCEPT ![x] = f]
  /\ half' = [half EXCEPT ![p] = FALSE]
  /\ Advance(p)
  /\ UNCHANGED <<job, ended, registry>>

\* Mutant: a failed write is reported and the process goes on.
WriteFailsQuietly(p) ==
  /\ Running(p) /\ half[p]
  /\ half' = [half EXCEPT ![p] = FALSE]
  /\ Advance(p)
  /\ UNCHANGED <<job, disk, ended, registry>>

\* An open or a write fails, which ends the process; what is there stays.
WriteFails(p) ==
  /\ Doing(p, {"write", "create", "fill", "mkdir"})
  /\ Fail(p)
  /\ UNCHANGED <<job, registry>>

\* The end of main.  A failed flush of --out is ignored.
Flush(p) ==
  /\ Running(p) /\ at[p] = Len(Script(job[p])) + 1
  /\ LET out == job[p].out
     IN  IF out = None THEN UNCHANGED disk
         ELSE \E f \in {Whole(p), Part(p)} : disk' = [disk EXCEPT ![out] = f]
  /\ Exit(p, "well")
  /\ UNCHANGED <<job, at, half, registry>>

Kill(p) ==
  /\ Running(p)
  /\ Exit(p, "killed")
  /\ UNCHANGED <<job, disk, at, half, registry>>

-----------------------------------------------------------------------------
(* The preferences.                                                         *)

\* read_string asks for the size first ...
QuerySize(p) ==
  /\ Doing(p, {"size"})
  /\ size' = [size EXCEPT ![p] = Cardinality(prefs)]
  /\ LET others == {q \in Procs : Doing(q, {"value", "set"})}
     IN  met' = met \cup others \cup (IF others = {} THEN {} ELSE {p})
  /\ Advance(p)
  /\ UNCHANGED <<job, disk, half, ended, prefs, loaded>>

\* Mutant: what cannot be read is an empty value, although there is one.
QueryValueEmpty(p) ==
  /\ Doing(p, {"value"})
  /\ loaded' = [loaded EXCEPT ![p] = {}]
  /\ Advance(p)
  /\ UNCHANGED <<job, disk, half, ended, prefs, size, met>>

\* ... and then for that many bytes; a value that has grown in between cannot
\* be read, and Preferences::load falls back to the defaults.
QueryValue(p) ==
  /\ Doing(p, {"value"})
  /\ loaded' = [loaded EXCEPT ![p] = IF Cardinality(prefs) > size[p] THEN {} ELSE prefs]
  /\ Advance(p)
  /\ UNCHANGED <<job, disk, half, ended, prefs, size, met>>

\* save writes all preferences, the one that was changed among them.
SetValue(p) ==
  /\ Doing(p, {"set"})
  /\ prefs' = loaded[p] \cup {job[p].setting}
  /\ Advance(p)
  /\ UNCHANGED <<job, disk, half, ended, size, loaded, met>>

\* An invalid macro name, two equal ones, or a registry error.
SetFails(p) ==
  /\ Doing(p, {"set"})
  /\ Fail(p)
  /\ UNCHANGED <<job, registry>>

-----------------------------------------------------------------------------

Step(p) ==
  \/ OpenOutput(p) \/ Look(p) \/ MakeDirectory(p)
  \/ BeginWrite(p) \/ EndWrite(p) \/ WriteFails(p) \/ Flush(p)
  \/ QuerySize(p) \/ QueryValue(p) \/ SetValue(p) \/ SetFails(p)

FilesNext == \E p \in Procs : Step(p) \/ Kill(p)

FilesSpec == FilesInit /\ [][FilesNext]_fileVars

-----------------------------------------------------------------------------
(* Properties.                                                              *)

\* A payload directory with a manifest holds the layers it lists, whole, all
\* made by the process that made the directory, although two processes may
\* have been asked for the same directory and either may die at any moment;
\* unless another file that a command was given to write is one of them.
Payload == {"dir", "layer1", "layer2", "manifest"}
PayloadComplete ==
  /\ \A p \in Procs : {job[p].out, job[p].to, job[p].zip} \cap Payload = {}
  /\ disk["manifest"] # Absent /\ disk["manifest"].by # Before
  => \A x \in {"layer1", "layer2"} : disk[x] = Whole(disk["dir"].by)

\* Whether a job may change a file that was there before it started.
MayReplace(j, x) ==
  \/ j.out = x /\ ~ KeepsOut(j)
  \/ j.to = x /\ (j.kind \in {"index", "dump"} \/ (j.kind = "patch" /\ (InPlace(j) \/ j.overwrite)))

\* What an evidence report, a payload, a debug report or a patch without
\* --overwrite finds under the name it was given stays as it is: those files
\* are only ever replaced by a job that says so, --out of an ordinary command
\* that names its own input among them.
ReplacedByRight ==
  \A x \in Paths :
    disk[x] = Whole(Before) /\ disk'[x] # disk[x] =>
      \E p \in Procs : Running(p) /\ MayReplace(job[p], x)

\* A process that exits well has left its files whole, unless another wrote
\* them after it.  (Its --out file may be cut, for main ignores the flush.)
Written(j, ops) ==
  {op[2] : op \in {o \in {Script(j)[i] : i \in DOMAIN Script(j)} : o[1] \in ops}} \ {j.out}
SuccessIsTrue ==
  \A p \in Procs : ended[p] = "well" =>
    \A x \in Written(job[p], {"write", "create"}) :
      \/ disk[x] = Whole(p)
      \/ \E q \in Procs \ {p} :
           x \in Written(job[q], {"write", "create", "fill"}) \cup {job[q].out}

\* A setting that was stored is kept by every other process that stores one,
\* as long as no two of them overlap.
SavedKeeps == \A p \in Procs : SetValue(p) /\ p \notin met => prefs \subseteq prefs'

\* What a process that exits well says it wrote is there, and so is what a
\* manifest lists.
ClaimsAreTrue == SuccessIsTrue /\ PayloadComplete

\* Files that were there are replaced only by jobs that say so, and a setting that
\* was stored survives every later save that overlaps no other.
OldDataKept == [][ReplacedByRight /\ SavedKeeps]_fileVars

=============================================================================
