------------------------------ MODULE MCProcess ------------------------------
(***************************************************************************)
(* What happens around a command, for TLC, one part per behaviour.         *)
(* Options: every option of every command, alone and beside the options    *)
(* that override or combine with others.  Files: two processes with any    *)
(* two of a dozen jobs, some of which name the same files or the image.    *)
(* Dump: requests of every kind for the two images of ImageSamples, which  *)
(* import from each other.  Callers: questions over the folders and images *)
(* of ImageSamples, whose images are indexed in every order; Locate, Find *)
(* and Scan: the other searches, in the folders and images there.          *)
(***************************************************************************)
EXTENDS Ffi, OutputFiles, ReverseIndex, DumpCommand, ImageSamples

VARIABLES
  part,  \* the part that runs
  asked, step, left, seen, lost, cut, result   \* of the other searches over images

LocateCommand == INSTANCE SymbolLocation WITH
  Listing <- TheListing, Binaries <- TheBinaries, Lists <- TheLists, Lookups <- SomeLookups,
  lookup <- asked, round <- step, todo <- left, matched <- seen, matches <- result
Find == INSTANCE InstructionFinder WITH
  Sections <- TheSections, Queries <- SomeQueries, Bits <- 2, MatchBudget <- 4,
  query <- asked, section <- left, decoded <- seen, failed <- lost, truncated <- cut,
  found <- result
Scan == INSTANCE CorpusScan WITH
  Nodes <- TheNodes, TreeFiles <- TheTreeFiles, Scans <- SomeScans, LongestPath <- 3,
  limits <- asked, queue <- left, paths <- seen, reports <- result, scanPhase <- step

-----------------------------------------------------------------------------

\* The jobs of OutputFiles.
Job(kind, early, to, zip, overwrite) ==
  [kind |-> kind, out |-> early, to |-> to, zip |-> zip, overwrite |-> overwrite,
   setting |-> None]
SetJob(s) == [Job("config", None, None, None, FALSE) EXCEPT !.setting = s]

AllJobs ==
  {Job("dump", "image", "copy", None, FALSE), Job("dump", "report", None, None, FALSE),
   Job("evidence", "image", None, None, FALSE), Job("evidence", "report", None, "zip", FALSE),
   Job("payload", "report", None, None, FALSE), Job("payload", None, None, None, FALSE),
   Job("patch", None, "image", "zip", FALSE), Job("patch", None, "copy", None, FALSE),
   Job("patch", None, "copy", None, TRUE),
   Job("index", None, "copy", None, FALSE), Job("priority", None, "copy", None, FALSE)}
  \cup {SetJob(s) : s \in {"style", "headers"}}

SomeDisks == {{"image"}, {"image", "copy", "report", "zip"}, {"image", "dir"}}

Symmetry == Permutations(Procs)

-----------------------------------------------------------------------------

searchVars == <<asked, step, left, seen, lost, cut, result>>
callVars == <<request, outJson, status>>

ARequest == CHOOSE r \in Requests : r.fault = "null out"
CallIdle == request = ARequest /\ outJson = "unset" /\ status = Pending
LineIdle ==
  /\ line = << >> /\ argv = << >> /\ parse = NoParse /\ options = << >>
  /\ outcome = NoOutcome /\ stage = "normalize"
FilesIdle ==
  /\ job = [p \in Procs |-> CHOOSE j \in Jobs : TRUE]
  /\ disk = [x \in Paths |-> Absent] /\ prefs = {} /\ at = [p \in Procs |-> 0] /\ half = << >> /\ size = << >>
  /\ loaded = << >> /\ ended = [p \in Procs |-> "no"] /\ met = {}

SearchIdle ==
  /\ asked = {} /\ step = "" /\ left = << >> /\ seen = << >> /\ lost = << >>
  /\ cut = << >> /\ result = ""
NoMore == lost = << >> /\ cut = << >>
DumpIdle ==
  /\ wanted = {} /\ phase = "enter" /\ chain = << >> /\ target = NoTarget /\ out = << >>
  /\ shown = {} /\ verdict = "running"
CallersIdle ==
  /\ question = {} /\ progress = "locate" /\ found = "" /\ goal = NoGoal
  /\ scan = {} /\ indexed = << >> /\ graph = {}
CommandsIdle == CallIdle /\ LineIdle /\ FilesIdle

ProcessInit ==
  \/ part = "options" /\ Init /\ CallIdle /\ FilesIdle /\ SearchIdle /\ DumpIdle /\ CallersIdle
  \/ part = "abi" /\ FfiInit /\ FilesIdle /\ SearchIdle /\ DumpIdle /\ CallersIdle
  \/ part = "files" /\ FilesInit /\ CallIdle /\ LineIdle /\ SearchIdle /\ DumpIdle /\ CallersIdle
  \/ part = "dump" /\ DumpInit /\ CommandsIdle /\ SearchIdle /\ CallersIdle
  \/ part = "callers" /\ CallersInit /\ CommandsIdle /\ SearchIdle /\ DumpIdle
  \/ part = "locate" /\ LocateCommand!Init /\ NoMore /\ CommandsIdle /\ DumpIdle /\ CallersIdle
  \/ part = "find" /\ Find!Init /\ step = "" /\ CommandsIdle /\ DumpIdle /\ CallersIdle
  \/ part = "scan" /\ Scan!Init /\ NoMore /\ CommandsIdle /\ DumpIdle /\ CallersIdle

ProcessNext ==
  \/ part = "options" /\ Next /\ UNCHANGED <<part, callVars, fileVars, searchVars, dumpVars, callersVars>>
  \/ part = "abi" /\ FfiNext /\ UNCHANGED <<part, fileVars, searchVars, dumpVars, callersVars>>
  \/ part = "files" /\ FilesNext /\ UNCHANGED <<part, ffiVars, searchVars, dumpVars, callersVars>>
  \/ part = "dump" /\ DumpNext /\ UNCHANGED <<part, ffiVars, fileVars, searchVars, callersVars>>
  \/ part = "callers" /\ CallersNext /\ UNCHANGED <<part, ffiVars, fileVars, searchVars, dumpVars>>
  \/ /\ \/ part = "locate" /\ LocateCommand!Next /\ UNCHANGED <<lost, cut>>
        \/ part = "find" /\ Find!Next /\ UNCHANGED step
        \/ part = "scan" /\ Scan!Next /\ UNCHANGED <<lost, cut>>
     /\ UNCHANGED <<part, ffiVars, fileVars, dumpVars, callersVars>>

allVars == <<part, ffiVars, fileVars, searchVars, dumpVars, callersVars>>
ProcessSpec == ProcessInit /\ [][ProcessNext]_allVars

\* The scan of a corpus alone.
ScanSpec == ProcessInit /\ part = "scan" /\ [][ProcessNext]_allVars

\* An option that a command accepts changes what the command is configured to do,
\* unless another on the line overrides it, and a slash option after a leading
\* command means what the dash option means.
LineIsHonoured == OptionsHonoured /\ SlashMeansDash

ASSUME ImagesAssumption == SoundImages /\ SoundLibrary

\* What a search over images reports is there, once and in order.  A search for an
\* address leaves out no image it can open, a search for bytes says when its budget
\* cut it, and a scan leaves out only what its limits cut; it does not say so.
SearchesAreHonest ==
  /\ part = "locate" => LocateCommand!LocatesAll
  /\ part = "find" => Find!CutsAreReported
  /\ part = "scan" => Scan!ScanIsComplete

\* docs/json-schemas.md:25: a scan that a limit cut short says so in its report
\* (commands/scan.rs, ScanEnvelope).
ScanTellsCuts == part = "scan" => Scan!CutsAreTold

=============================================================================
