# RESX in TLA+

RESX is a static analyser of Windows PE images: a Rust command-line tool and C ABI library (`src/resx/`) and a VS
Code extension (`src/resx-vscode/`) that runs the tool and shows its JSON in a custom editor. This directory holds
TLA+ models of its stateful parts and of its larger algorithms, the TLC configurations that check them on small
instances, and TLAPS proofs of the main safety properties for every value of the constants.

Paths below are relative to `src/resx/src` (Rust) and `src/resx-vscode` (TypeScript). `PROJECT.json` maps every
definition to the lines it models, lists the hazards found in the code with the properties aimed at them, and holds
one seeded bug per checked property.

## Inventory

One command is one process: `main` turns arguments into a configuration (`cli/args`, `cli/lower`), `cli/router`
dispatches to a command, the command reads images through `formats/pe`, asks the analyses in `analysis/`, and prints
through `presentation/`. The C ABI (`ffi.rs`) calls the same commands inside a host process and may do so from
several threads; the extension starts one process per question. State that outlives one function call is rare; the
rest of what is hard are traversals and fixpoints under budgets, readers of files nobody vouches for, and chains of
names and options that lead to one answer.

| Component | State | Operations | Hard behaviour | What makes it correct | Module |
|---|---|---|---|---|---|
| Reverse call index cache (`analysis/follow/scan.rs`) | a JSON file per image path, shared by all processes | `load_or_build_index` | no lock, no rename, crash in a write, image replaced between two reads | an answer describes a version of the image seen during the run; a bad file costs a rebuild only | `FollowIndexCache`, `IndexOnDemand` |
| Reverse call tree (`analysis/follow/trace.rs`) | flat tree, frontier, visited set, total | `build_call_tree` | cycles, shared callers, three bounds | bounded, breadth first, each function expanded once, whole when nothing is cut | `CallTree` |
| Reverse call index and graph (`analysis/follow`) | call sites, imports, table calls, wrappers | build, merge, query | a call reached by import, forwarder, jump stub, table or wrapper | the callers told are the callers there are, with the exceptions stated | `ReverseIndex` |
| Symbol location (`commands/locate.rs`) | folders, tiers, result buckets | locate | stages that stop early, aliases, unreadable folders | a location told is one, and a stage is skipped only where the code says so | `SymbolLocation` |
| Instruction and byte search (`commands/find.rs`) | a match budget over sections | find | overlapping matches, the budget at its limit | matches are real and none is skipped before the budget | `InstructionFinder` |
| Corpus scan (`commands/scan.rs`) | files found, candidates | walk, choose, report | links, limits on files and candidates | nothing is left out but by a limit, and the report says so (it does not: `scan_cuts`) | `CorpusScan` |
| Dump command (`commands/dump`) | one image and function, a chain of images | resolve, follow, report | thunks, forwards, ordinals, addresses of four kinds | the function reported is the one asked for, in the mode asked for | `DumpCommand` |
| External analyzer capture (`core/process.rs`) | child, two pipes, byte and time budgets | `capture` | floods, silence, descendants that keep pipes, exit between drains, failing system calls | returns, within budget, with everything, and leaves no process | `BoundedCapture` |
| Dump view (`media-src/main.ts`) | history, awaited request, page cache, prefetches | navigate, back, forward, depth, hostile, refresh, answers | answers in any order, requests that outlive the toggles | the awaited page is the one asked for; the cache is keyed by what was computed | `DumpView` |
| Viewer panel and run trace (`src/editor.ts`, `src/runner.ts`) | panels by path, pending navigations, run history | open, resolve, ready, close, trace | two completions in either order, a panel closed at any time | navigations arrive once; the log is mirrored exactly | `EditorPanel` |
| Symbol reload (`src/editor.ts`) | reload token, symbol and type panels | analyse, reload | commands that end in any order | an older reload writes nothing; panels settle on one reload | `SymbolReload` |
| SDK headers (`analysis/headers`) | an index in memory and on disk, by fingerprint | scan, parse, build, load, resolve | headers replaced while they are read, torn files, macros that refer to each other | what is served is whole and not older than the question; a declaration is understood or left out | `HeaderParse`, `HeaderIndex`, `HeaderCache` |
| Recursive control flow recovery (`analysis/reconstruction/recursive_cfg.rs`) | queue, seen set, blocks | `recover_recursive_cfg` | overlapping code, loops, cut blocks, a budget | ends, within budget, with exactly the reachable code | `RecursiveCfg` |
| Forward call tree (`commands/dump/callmap`) | visited set, tree, filter | `build_node`, filter | recursion under depth, count and filter; system calls that go on in a kernel image | with a filter, the paths to matches and nothing else | `CallMap` |
| Driver analysis (`analysis/driver`) | path states over driver code | IOCTL codes, dispatch table, arguments of calls | path budgets, joins, calls that invalidate what is known | what is told about a path the processor takes is the processor's value | `Processor`, `DriverIoctl`, `DriverDispatch`, `CallArguments` |
| Function signatures (`reconstruction/signature.rs`) | register and slot provenance, merged over paths | infer | joins of widths and origins | an argument told is read before it is written | `Signature` |
| PDB symbols and types (`formats/pdb/windows`) | three caches, downloads, the process's DbgHelp session | `load_pdb_symbol`, `load_pdb_symbols`, `load_pdb_types` | threads contend for one session; a dozen early returns | the session is owned or closed; failures poison no cache | `PdbSession` |
| Comparison (`analysis/comparison`) | profiles, candidate pairs, matches | match, classify, rank | ties, noise, budgets on candidates | each function is matched once, and not to a worse one while a better is free | `Comparison` |
| PE parsing and validation (`formats/pe`) | a byte buffer | headers, mappings, directories, checks, readers | offsets that overflow, loop or leave the file | an address maps to one place; what the checks accept the readers read | `PeImage`, `PeDirectories` |
| Dynamic API resolution (`analysis/resolution`) | facts, summaries, globals, rounds | `analyze` | a fixpoint that revisits only dirty functions and may be cut short | labels are true; nothing is missed or forgotten; what is known of a value is the processor's | `ApiResolution`, `ResolutionMachine` |
| Command line, router, help (`cli`, `main.rs`) | a flat record, a configuration | rewrite, parse, lower, route | options shared by 42 commands, defaults that cannot be cleared | an option given is an option honoured or refused | `CommandLine` |
| C ABI (`ffi.rs`) | status, owned buffers | exported calls | options as JSON, argument vectors with or without a program name | a call means the command line it stands for | `Ffi` |
| Files and settings (`main.rs`, `commands/payload.rs`, `commands/patch.rs`, `core/preferences.rs` ...) | output files, manifests, one registry value | every writer of a file | two processes, kills between two writes, existence asked before writing | a success has its whole output; what was there stays unless the user said otherwise | `OutputFiles` |
| Behaviour and contracts, reconstruction to C, disassembly and string algorithms, patching, image information, shared helpers, diagnostics and terminal output, extension runner and tables | none between calls | functions of one image | | not modelled, see below | |

## Modules

Each model has a module. The MC modules put together the models that share a run: the models in them share no
variable in the code either, so a behaviour of an MC module moves one part and leaves the others as they began (in
`MCProcess`, `MCImageData` and `MCAnalysis` the parts that are pure functions are operators evaluated over sample
inputs). Definitions marked `Mutant:` in comments are seeded bugs of the definition that follows them and are no
part of the specifications.

**FollowIndexCache.** `Runs` are `resx callers` processes on one image path. The program counter of a run is its
place in `load_or_build_index`: `ReadMeta` (length and modification time), `CacheHit` or `CacheMiss` (the cache file
parsed and compared), `ReadImage` or `RejectImage`, `TruncateCache` or `CreateFails`, `WriteCache`. `Crash` and
`ReplaceImage` come between any two of them. Content is a version number; a replacement gets a fresh stamp, so an
image that returns to an old (length, time) pair is outside the model, as it is outside the code's reach.
`IndexOnDemand` is the abstract cache: a run asks, and some moment later has an index of content the image held since,
or a failure. `FollowIndexCache` implements it.

**CallTree.** One step per statement of the loop nest of `build_call_tree`: `BeginLevel`, `QueryCallers` (with
`--max-callers`), `AddCaller` (new, or a truncated duplicate), `CutAtTotal`, `EndTarget`, `EndLevel`, `Finish`. The
merged call graph is an input; how it comes about is **ReverseIndex**, which follows the look-up of image and function,
the index of calls, imports, KMDF table calls and wrappers, the merge and the query, and is compared with a definition
of "calls" over eight sample images (`ImageSamples`).

**SymbolLocation, InstructionFinder, CorpusScan, DumpCommand** are the commands that search images, over the same
samples: their order of stages, their limits, and, for `InstructionFinder`, what they say was left out.

**BoundedCapture.** RESX is one thread: `Peek` and `Read` of each pipe, `TryWait` with the second drain,
`CheckDeadline`, `Wait`, `Kill`, `Reap`, and `SystemError` at every system call. The child writes, blocks on a full
pipe, starts a descendant and exits at will. `TerminateProcess` and the wait after it are taken to succeed.

**DumpView.** `Navigate`, `navBack`, `navFwd`, `setCurrentDepth`, `ToggleHostile`, `Refresh` are the user's; each
ends in the same request or cache lookup as in the code. `Answer` handles a `dumpResult` of any request in flight,
with or without data.

**EditorPanel.** One path. VS Code is external: it resolves the editor before or after `openWith` returns, delivers
messages in order to a loaded script, and drops them on close. `AnswerReady` is the part of the ready handler after
its await. Two panels for one path, which VS Code does not open for this editor, are left out.

**SymbolReload.** What the Symbols and Types panels show. `RequestReload` and `Refresh` are the user's: they empty the
panels at once and post a message, which the host takes in order (`BeginReload`, `BeginAnalysis`). Each analysis and each
reload has two commands that end in any order; a reload tests its token after each await, an analysis has none. It shares
the viewer with `EditorPanel` and no state.

**HeaderCache.** Threads of processes ask for the header index: the fingerprint is taken, the index in memory and the
file on disk are tried, the headers are read one by one, the file is written in place, and an installer replaces headers
between any two steps. **HeaderParse** is the scanner of declarations and of constant expressions with its limits,
**HeaderIndex** the index made of them and the rendering of a call's arguments.

**RecursiveCfg.** `SkipSeen`, `DropOverBudget`, `NoteUndecodable` and `DecodeBlock` are the branches of the queue loop;
`BlockAt` is `disassemble_at`, the longest run of instructions that begin within both limits, of instructions and of
bytes. The byte limit may end inside the last one (`Torn`): it decodes as an invalid instruction, and the block goes on
in its middle (`BlockEnd`), with the edges of no branch. With the default options (500 instructions, 8,192 bytes) no
instruction is torn, since 500 of them have at most 7,500 bytes; `--max-bytes` and the end of the function may tear one.
`Reachable` is the smallest set that has the entry, and the places in the middle of torn instructions where the property
says so, and that control does not leave. Code whose end the exception directory gives is decoded in one pass by the
caller and is not modelled.

**CallMap.** The recursion of `build_level` and `build_node` with its stack as state: `SkipExcluded`, `Expand`,
`EnterKernel`, `Leaf` are the ways through `build_node` up to its recursive call, `Return` the rest after it. A tree is
the sequence of its nodes in the order they are printed, each with its depth. The set of visited RVAs is shared by the
images, as in the code; the properties are about programs whose images have RVAs of their own and whose kernel functions
make no system calls (`ImagesApart`), and `MatchesReached` about a `--depth` above the number of functions, which cuts
no path. What a smaller one loses is `call_map_depth`.

**DriverIoctl, DriverDispatch, CallArguments, Signature** are the other traversals of code. Each is a function of a
program; `Processor` is the external reference: what a processor that runs the program does. A driver's path is followed
with registers and stack slots that hold what the code's own state holds, and `MCSearches` compares every fact with the
runs of the reference. A callee may write its home area and any local it was ever given the address of. Two properties
name the paths on which the code's own rules do not make its values true. `PathsAreSound` follows an IRP handler up to
the first read of a local that a call may have changed without the search of `ioctl.rs` seeing it; `ArgumentsAreReal`
leaves out the paths that come to an instruction with known values backwards or through a table, where `calls.rs` does
not join, and those on which the address of a local went to a function without a known signature (`locals_lent` is about
these).

**PdbSession.** A call goes through the lookup cache, the symbol cache or the type cache, `PreferLlvm` (the
llvm-pdbutil route of types), `ResolvePdb` (local, cached or downloaded), `OpenSession`, `LoadModule`, `Query` and
`Store`; `DbgHelpFails` is every early return in between. A call of one loader by another is the stage it is in. A
DbgHelp call is one step. File operations inside a download and the explicit `--pdb` path are left out.

**Comparison, PeImage, PeDirectories** are functions of images of a few functions or bytes, compared with reference
definitions over all small inputs; for `PeImage` and `Comparison` the properties are also proved, for every file and
every two images. `Comparison` has a step for each command: `Diff`, `CfgDiff` (to the pair whose blocks are compared) and
`Hunt` (a corpus of the two images). What the code does in sorted order is said by the order: `Taken` are those of a set
that no earlier one rules out, `Greedy` takes candidate pairs so by `Best`, `Truncated` and the list of `Hunt` keep those
with few enough before them, `FirstOf` is the least one. How alike two codes are is a function `mean` of the pair of
codes, chosen with the images; the signals it stands for do not depend on the order of the two.

**ApiResolution.** A function is a sequence of slots, each one pointer: where it comes from (a resolver call, a call
of another function, a load of a global) and where it goes (globals, return, indirect call). `Run` is the
interpretation of a function under the current summaries and globals, `Profile` what the fixpoint keeps of a
function it does not interpret. `FirstPass`, `UpdateTables`, `Revisit`, `Settle`, `CutShort` and `Report` are the
statements of `analyze` and `report`.

**ResolutionMachine.** The interpreter that `Run` abstracts, as `call_arguments` drives it for x64: one pass in address
order over a function, with what each register, slot and byte of the frame is (`LoadFrom`, `StoreTo`, `AluValue`,
`Stepped`, `Called`), the walks from the TEB to a module base and from there to an export table, and the names that
code builds. `Pass` is an instruction of `run`; then `RunStep` takes the processor through the function. `ValuesAreHeld`
compares: whatever is known before an instruction is so on every path that comes to it going forwards, and what is
shown of the arguments of a call is what the call is made with. A cell of the frame stands for four bytes, and six bits
for 32. Callees may write all of the frame once they have an address in it, and what is below the stack arguments in any
case.

**CommandLine, Ffi, OutputFiles** are the process around a command: the grammar and lowering of 42 commands, the C ABI
on top of it, and the files two processes write, each file operation a step, with a kill between any two.

## Runs

| Run | Instance | Shows | States |
|---|---|---|---|
| `boundary` | capture: budget 3, pipes of 1, up to 2 units each; two functions, two depths, four clicks; two commands, three traces for room for two, one close; three reloads, the analysis on opening and a refresh; two processes with two threads on one header, one on two headers, two edits; three runs over one call index, one with `--reload`, one replacement of the image, arbitrary initial cache | `BudgetKept`, `NothingLost`, `NoOrphan`, `CaptureReturns`, `NoPipeDeadlock`; `AwaitedPageMatches`, `LoadingEnds`; `LogMirrored`, `NavigatedOnce`, `NavigationArrives`; `OlderReloadsSilent`, `PanelsFill`; `IndexIsCurrent`; `ServedWasCurrent`, `CacheNeverBackdated`, implements `IndexOnDemand`, liveness included | 176,909 |
| `searches` | every call graph of three functions with a repeated caller, 12 option sets; every code of four addresses, blocks of two instructions and three bytes, three starts; forward calls of three functions that make one or two calls each; sample driver programs; the sample functions of the interpreter and 1,728 more, of every three of twelve instructions before a call | `ExpandedOnce`, `BreadthFirst`, `TreeIsComplete`; `BlocksExact`, `Terminates`; `MatchesExact`; `PathsAreSound`, `ArgumentsAreReal` | 200,830 |
| `image_data` | two threads, two calls each, an exported and a private symbol; images of up to three functions; files of eight units, two sections | `SessionOwned`, `CachesComplete`; `ComparisonIsFair`; `LayoutIsSound`, `AcceptedIsRead` | 465,928 |
| `api_resolution` | 27,000 images of three functions, two slots, two globals, two rounds; 1,856 headers | `TargetsReachable`, `NothingMissed`, `NothingForgotten`; `HeadersAreUnderstood` | 215,162 |
| `process` | command lines of 42 commands' options; bags of options; two processes with any of 13 jobs; eight images | `LineIsHonoured`, `BagReaches`; `ClaimsAreTrue`, `OldDataKept`; `DumpIsFaithful`, `CallersExact`, `SearchesAreHonest` | 260,274 |
| `follow_hostile` | an ordinary and a `--hostile` run | violates `HostileHonoured` | |
| `dump_stale` | the dump view alone | violates `ShownIsCurrent` | |
| `call_map_depth` | a tree with a diamond at the last level | violates `MatchesKept` | |
| `api_call_sites` | as `api_resolution`, six rounds | violates `CallsThroughGlobals` | |
| `locals_lent` | the sample functions of the argument search | violates `LocalsStayUnreachable` | |
| `scan_cuts` | the scans of `process` | violates `ScanTellsCuts` | |
| `ffi_argv` | argument vectors that begin with a command | violates `ArgvUnderstood` | |

Type invariants are not in the runs: they are theorems (`TypeCorrect` and the typed part of every inductive
invariant).

**Bounds.** Each bound is past the point where the case it limits first happens. One replacement lets the image change
between the reads of one run, and makes every index that was begun before it stale; three runs let one write between
another's truncation and write while a third reads. That more replacements and runs change nothing is what the theorems
on `FollowIndexCache` say. Two edits of a header let a second index be made while the first is stored. Three reloads and
a refresh let a silenced reload, the one that silenced it, and an analysis answer in every order. Blocks of three bytes
and instructions of up to two tear some. A hunt that lists one candidate has to choose between images that tie. Three
functions make self-recursion, mutual recursion, diamonds and chains longer than `--depth`. A pipe of one unit fills at
the first write and two units per pipe exceed the budget of three. Four clicks are enough to leave a page, toggle, and
come back while two requests are in flight. Three trace entries overflow a history of two. Two images of two functions
are few enough pairs for the search without an index (`MaxPairs = 4`, 250,000 in the code), and two of three are not,
and both have clones that tie. Four addresses hold overlapping instructions, loops, and blocks longer than the limit of
two. Files of eight units and nine addresses hold headers, two sections that touch, overlap or leave the file, and every
directory cut at every place. Two rounds cut short images that need more, and six, the code's own limit, settle all of
them. `Horizon = 9` closes the reference flow of every image considered, which the instance asserts (`HorizonSuffices`).
Path budgets of the driver searches (`StepLimit`, `WorkLimit`, `VisitLimit`, `StatesPerPc`, `PendingLimit`) are the
code's own or small enough that sample programs meet them. The interpreter shows twelve arguments, as the code does; its
limits on names, texts and the frame are small enough that sample functions meet them, and letters are the numbers from
33 to 60 in an image that ends at 300. `SYMMETRY` exchanges the two processes of `process`, which no definition orders.

Deadlock checking is off in all configurations: every modelled operation ends, and users and threads may stop.

**Fairness.** A run or loop that has begun goes on (`WF` on its steps): nothing in the code waits on another actor,
except `capture`, where progress depends on the clock (`CaptureReturns` assumes that time passes) or on a child that
keeps writing and exits (`NoPipeDeadlock`). A terminated process ends. Every command of the extension ends because
`runJson` gives it two minutes. VS Code opens what it is asked to open and delivers messages while the panel lives;
`NavigationArrives` promises nothing for a panel that the user closes. The models with safety properties only
(`ApiResolution`, `CallTree`, `PdbSession`, `HeaderCache`, `OutputFiles`) state no fairness.

## Findings

* `follow_hostile`: `--hostile` changes what a reverse index holds but is not part of its cache identity
  (`analysis/follow/scan.rs:884`).
* `dump_stale`: serving a page from the cache clears the awaited request, so an older answer may replace the page
  (`media-src/main.ts:1600`).
* `call_map_depth`: a callee first met on the last level is marked visited and loses its callees where it is met again
  nearer the root, and a filter then drops the matches below (`commands/dump/callmap.rs:410`).
* `api_call_sites`: a load answered from the table of globals is not recorded as a dependence, so a later change of
  the entry leaves calls through it unlabelled or labelled with the old resolution (`resolution/machine.rs:905`).
* `locals_lent`: the search for calls in a driver keeps the value of a local whose address was passed to a function
  without a known signature, and shows it as an argument of a later call (`analysis/driver/calls.rs:981`).
* `scan_cuts`: the report of a scan has no place for the limits that cut it (`commands/scan.rs:221`).
* `ffi_argv`: `is_known_command` lacks 16 commands, so an argument vector that begins with one of them is misread
  (`ffi.rs:933`).

Hazards that the models exhibit and no document rules out, such as a slow first analysis that overwrites a reload, are
in `PROJECT.json` with the action that has the behaviour.

## Proofs

Of the 40 properties that the passing runs check, 26 are stated by a theorem listed in `PROJECT.json`; what is left is
at the end of this section.

All proofs hold for every value of the constants under the named assumptions of each module, which TLC evaluates on
its instances. They say that keys, depths and limits are natural numbers,
that sets of functions, slots or jobs are of their types, and that markers such as `None` are no values. Where a theorem
asks more of the inputs (`ImagesApart`, `SoundImages`, `SoundLibrary`), this is said below.

* **FollowIndexCacheProofs** (`TypeCorrect`, `ServedIndexIsCurrent`, `CacheIsNeverBackdated`,
  `CacheImplementsOnDemand`), by `RunsCoherent`: a run's stamp is at most the version, its index is built from a version
  between its stamp and now, and so is every complete cache entry; a stamp that matches the one read at the start then
  bounds the content from below. The refinement of `IndexOnDemand` maps each step to one of its steps or a stutter:
  reading the metadata is the question, a hit, a rejected image or an index built is the answer. The proof is of its
  safety; TLC checks its liveness too.
* **SearchProofs**, `CallTree` (`TypeCorrect`, `TotalIsBounded`, `TreeIsBreadthFirst`, `FunctionsExpandOnce`,
  `CutsAreMarked`, `TreeIsWhole`). The first invariant adds to the types that the visited set is exactly the functions
  in the tree (`VisitedExact`), that frontier nodes are childless first sightings (`FrontierFresh`), that parents come
  before children and are not in the frontier (`ParentsFresh`), that the tree is layered with the next frontier in its
  last layer (`Layers`), and that the total counts the nodes (`Counted`). The second, `Whole`, says what has been done
  so far: the waiting nodes are in order and after all expanded ones (`Queued`); every first sighting waits, is being
  expanded or has been dealt with (`Covered`); the node being expanded lists the callers before the next one
  (`Partial`); a tree that has no mark was cut nowhere (`Uncut`); every node is within its depth of the root, and the
  first node is the root (`Near`, `Rooted`). `TreeIsWhole` then follows a path from the root: a function reached by it
  without a node of its own would be the end of a shortest such path, and its predecessor's first node lists it. That a
  cut is marked at the node it falls in is `Covered`. `Funcs` may be infinite and graphs arbitrary.
* **SearchProofs**, `RecursiveCfg` (`RecoverInvariant`, `RecoverTypeCorrect`, `BlocksAreExact`), for any code and all
  limits. `RecoverInv`: every start queued or decoded is in every set of instructions that control does not leave and
  that has the entry and the middles of the torn instructions (`StartsReached`), the starts seen are blocks or notes
  unless the budget is used up (`Accounted`), the edges are those of the blocks (`EdgesKnown`), and each leads out, to a
  start seen or to one that waits (`EdgesFollowed`). In a block control goes from one instruction to the next, and from
  the last along the edges (`StepInBlock`, `EdgesOfBlock`), so the blocks are inside every such set, and at the end are
  such a set themselves. The argument does not use that a block is as long as it can be: wherever blocks are cut,
  nothing is lost but what follows a torn instruction or a system call at a block's end; where every block that holds
  one tears it or ends with it, `DeadEnds` has it, and the theorem says that what is reached without passing those is
  there.
* **SearchProofs**, `CallMap` (`MapInvariant`, `MapTypeCorrect`, `MatchesAreExact`), for every code, cycles and
  recursion included, and all options. The levels on the stack are nested: each was opened by the call the one below
  passed last, one level deeper (`Nested`), and but for one that a system call opened no more are open than functions
  have been entered (`Ledger`); so a depth above the number of functions is never met. In a filtered walk (`Filtered`)
  each node made is not excluded and matches, has a child or is marked as expanded above, and what the mark says is
  shown before it: the callee's expansion kept a call, and the node that led to it is in the tree, or will be, before
  the repeat (`AboveShown`, `ExpandedShown`). The places of nodes shift while levels close, so the lemmas on `Grown`
  follow a place from a level into the one below. `Progress` says that each call passed by an open or a closed level is
  served: in the tree if it matches, and what it leads to is entered. At the end the closed levels are a set closed
  under calls, so it has every function that can be reached, which needs no induction over paths.
* **ImageDataProofs**, `PdbSession` (`TypeCorrect`, `SessionIsOwned`, `CachesAreComplete`). Besides the two properties, a
  call's request fits its step, a loaded module has the exports of its image, and a partial answer is complete for its
  stage.
* **ImageDataProofs**, `PeImage` (`LayoutStaysSound`), for every file whose numbers are natural numbers. `parse_pe` asks
  for a directory's bytes once, and the proof shows that this is enough: `RvaBytes` stops where the next section that
  holds anything begins, so every byte of a slice is mapped, unbroken, by the region of its first one (`BytesAt`,
  `SliceIsBacked`). Without a warning sections do not overlap, in addresses or in bytes (`QuietSections`), so an address
  has one owner and a byte one address (`OneOwner`, `OffsetOfByte`, `AddressOfByte`).
* **ImageDataProofs**, `Comparison` (`ComparedFairly`), for any two images, any similarity of codes, options and limits.
  It assumes that images are finite sets of functions whose RVAs differ and whose numbers are natural numbers, that
  thresholds and means are percentages, and that hunt lists at least one candidate, which is what the code makes of a
  limit of none. Of the indexed image it says that its entry has every score and count at its most, that what ranks
  above it ties with it in all of them and has an earlier path, and that it is left out only where such entries fill the
  list (`IndexedImageFound`): with one candidate to list, another image may well stand there (`SelfIsListed` counts,
  with `OwnAreAsMany` and `NoMoreThanFunctions`). `CompareInv` says that the report is what its command makes of the two
  profiles; the work is about that. `TakenIsSettled`: since every rival comes earlier, there is a set that holds a pair
  exactly when none of its rivals is in it, and it is the matching, so a pair is matched unless a better one that shares
  a function is (`GreedyRule`, `MatchedOnce`). An image against itself (`OwnPairsWin`): each function's own pair scores
  100, which nothing exceeds, and a better pair of two clones holds one with a smaller RVA, so the function of least RVA
  that lost its own pair would have lost it to a function that has its own; then every average is one of full scores
  over all bytes (`SummaryScores`, `OwnSummary`). Two images in either order (`GreedySwaps`): a swap reverses ties, but
  never between pairs that share a function (`BestSwaps`), and of the pairs that one order matches and the other does
  not none can be best. Pairs that the block counts admit from one side only are the exception that the property names.
* **ApiResolutionProofs** (`TypeCorrect`, `NothingIsMissed`, `TargetsAreReachable`, `FoundStaysFound`).
  `NothingIsMissed`: a function is either interpreted or its profile lists all its callees and globals (`Profiled`),
  unknown loads stay recorded while the global is unknown (`LoadsKept`), and outside the middle of a round every pointer
  the tables give has been found (`Phases`). `TargetsAreReachable`: facts, summaries, tables and targets stay inside
  *every* set closed under the image's flow, which needs no induction over the flow. `FoundStaysFound` is the action
  property that no round takes back a summary or an entry, on which the code relies, for it never looks for entries to
  remove: every pointer that a summary or entry holds would be found again by a visit of the same function now
  (`PointersLast`), so a revisit may add but not remove, and a summary or an entry is there as long as one pointer is
  (`SummariesLast`, `EntriesLast`). Which pointer it holds may change, which is what `api_call_sites` is about. First
  returns and first writers are least numbers, which the library's well-foundedness of the naturals provides.
* **HeaderCacheProofs** (`HeaderCacheInvariant`, `TypeCorrect`, `ServedIndexIsCurrent`). Versions of a header only grow;
  an index in memory, on disk, half written or being built says of each header a version not older than the one its
  fingerprint took, or nothing; a thread's fingerprint is not older than its question. `TypeCorrect` and the invariant
  are proved without any assumption about headers, processes or threads.
* **BoundaryProofs** (`IndexStaysCurrent`, `ReloadsInOrder`, `PageStaysMatched`, `TraceStaysMirrored`,
  `NavigationStaysOnce`): the safety properties of the run `boundary` about the index and the viewer, each from an
  invariant of its part, for any functions, depths, commands, caps and counts. `DumpInv`: an awaited request is the last
  one that the current entry asked for (`AwaitedAsksForCurrent`), and cached pages are what their key says. `TraceInv`:
  what a webview was sent is the history cut to its cap, as a chain of copies that each differ by one run. `NavInv`: a
  command is in at most one of pending, channel and done (`SentOnce`, `PendingOnce`).
* **BoundaryProofs**, `BoundedCapture` (`CaptureTypeCorrect`, `BudgetIsKept`, `NothingIsLost`, `NoOrphanIsLeft`), for
  any limits. `PipeLedger` balances what was written, what a pipe holds and what was read; `BudgetLedger` bounds a
  pending read by what is left of the budget; `FinalDrains` says how much of the child's last output the drains after
  its exit have taken; and an error is returned only when the child is gone.
* **ProcessProofs**, `OutputFiles` (`TypeCorrect`, `ClaimsStayTrue`, `OldDataStays`), for any number of processes and any
  jobs: what a process has claimed (its exit, its manifest) is covered by the files it has closed, unless another process
  was given the same file (`SuccessInv`, `PayloadInv`); a file that was there before is as it was unless a job says so
  (`OldInv`); and a setting saved by a save that overlapped no other is the stored one (`SavedInv`).
* **ProcessProofs**, `ReverseIndex` (`CallersAreExact`), for any folders, images and questions. The invariant of the
  steps is small: the goal is a function of the image found, that image is scanned, each indexed image has its own index
  whatever was indexed before it, and the graph is that of all (`SearchInv`). The work is what the graph says. Each call
  of an index is an instruction's (`CallsOfImage`), a wrapper's callers are those of the jump it starts with, at most
  two jumps deep, and names, addresses and import keys that are spelled differently in tables and symbols meet in one
  key. The theorem assumes `SoundImages`, which TLC finds true of the run's images: calls and jumps lead somewhere else
  than RVA 0 or, a jump, to itself, functions do not overlap, exports are named and mapped, a call through the KMDF
  table is in a function of an image that imports from its loader, import names have lower-case extensions, and no two
  images have one name. Without the last it is false: `GlobalCallGraph::build` expands a wrapper under the base name of
  its image.

* **ProcessProofs**, `DumpCommand` (`DumpsAreFaithful`), for any images and requests. A trail is what control does from
  the function asked for, one jump after the other. Until the report is made the dump is at a place of the trail, at
  most two places on for each image it left, and what it reports is the trail's end, unless the trail has none
  (`OnTrail`). `ThunkLeads` is the heart: what `follow_jmp_thunk` says of a place is where the trail goes from there,
  with the jumps that come back to themselves told from those that end. What is written is text alone until the report
  (`TextWritten`). The theorem assumes `SoundLibrary`: code apart from import slots and not at RVA 0, imports by name,
  and limits of at least three jumps (the code has eight) and one image.

Left to TLC:

* liveness, which is out of the provers' reach (`CaptureReturns`, `NoPipeDeadlock`, `LoadingEnds`, `NavigationArrives`,
  `PanelsFill`, `Terminates`, and the liveness in `IndexOnDemand`);
* the properties that compare an algorithm with a recursive reference over data (`PathsAreSound`,
  `ArgumentsAreReal`, `HeadersAreUnderstood`, `LineIsHonoured`, `BagReaches`, `SearchesAreHonest`,
  `AcceptedIsRead`): their modules declare
  RECURSIVE operators, or what they say needs induction over programs, token sequences or files;
* `HorizonSuffices`: that the flow of an image closes within the horizon is a fact about each image.
  `TargetsAreReachable` is therefore about the sets closed under the flow, and `TargetsReachable` about `Reach` where
  that is one.

## Not modelled

* Behaviour and contracts: rules that map facts of one image to findings, with no state between them.
* Reconstruction to C and IR: rendering, and analyses of one function; its recursive control flow recovery, thunks and
  signatures are modelled.
* Disassembly and string algorithms: functions of a byte buffer around the external iced-x86.
* Binary patching: one edit in memory; its reads and writes of files are in `OutputFiles`.
* Image information commands, shared helpers, diagnostics and terminal output, the extension's runner, tables and
  view state: printing and glue. The views take the runner's result or failure as an input.
* In modelled parts: hashing and normalisation of instructions, the block diff, clusters, heatmap and matrix of
  comparison; network request decoding and sub-dword registers of `driver/calls.rs`, and the KMDF tables; tokens of a
  header, families of constants, and the text of declarations; the fixpoint of module handles and of walkers' summaries,
  the decoding of names by brute force, the keys and events noted for findings, and x86 in API resolution; the values
  (not the presence) of options.

## Observations

What reading and modelling showed besides the findings. No document contradicts most of these; the models have the
behaviour where they cover the code.

* Callers: an image spelled `X.Dll` has no import callers (`FuncRef` trims `.dll` and `.DLL`, import keys are
  lower-cased first). Importers by ordinal, through forwarders, API sets or an alias export are missed, as are chains
  of three jumps. Register sites found by `--hostile` are indexed under their own address. A call in the last five bytes
  of a section's raw data is not seen. Two scanned images with one file name are merged.
* Locate takes no notice of `--include`, `--exclude`, `--scope-file`, `--filter-dll`, `--workers` and `--no-system`,
  which `docs/cli.md:43` lists. In deep mode images with an export hit are not searched for symbols. One unreadable
  entry drops its folder.
* Find: a sequence may match across bytes that do not decode; `truncated` is also set when the budget is met exactly at
  the end.
* Command line: `--att` can never select AT&T syntax, as `args.rs:433` has it, because `--intel` is on by default and
  nothing clears it (`core/config.rs:536`, `args.rs:430`); `LineIsHonoured` counts it among the options without effect.
* Scan: folders that cannot be read are passed over without a word; an image without an entry point and with one scored
  export lists it twice; cycles of links are followed until paths get too long, so copies may use up `--max-files`.
* Dump: a follow into another image keeps `--at` and `--ordinal` (`execute.rs:531`), which name another function there; a
  chain of three jumps is not followed; with `--json`, a name that is not found and the export and import tables are
  reported as text on the stream that `docs/json-schemas.md:31` says holds one document.
* Viewer: `runner.ts` records a run as ok and then as failed when its output does not parse; its message for timeouts
  can never appear; a module that fails shortens the stored locate index.
* Driver: besides `locals_lent`, addresses passed to earlier callees are not remembered; a pushed address is not
  recorded; `ioctl.rs:551` says that calls "may mutate IRPs and any escaped locals", and what it then drops are locals
  whose address is in an argument register of this call, not those passed on the stack or earlier; values at loop heads
  are those of the first pass; a dispatch search cut by its depth or pending limit is not reported as truncated;
  `ioctl.rs` keeps locals in a callee's home area where `dispatch.rs` does not. A function that begins with `sub rsp`
  and is called before `sub rsp, rax` is taken for the stack probe.
* Signatures: a push over a tracked slot does not invalidate it; `cmova` drops its source's origin; partial register
  writes drop provenance; a call makes the stack pointer unknown.
* The interpreter of `resolution/machine.rs` keeps all 64 bits of a constant through moves between widths and loads of a
  part of a slot, so only the lower half of a number that is shown is right in general, and `shr` of a narrowed register
  may be wrong; after `cmp al, imm` and `jne` it takes the whole register for the immediate, and it uses the comparison
  before a `jne` that is itself a branch target. Targets of jump tables are not among the places where it forgets, so a
  case that falls through keeps constants, although `machine.rs:527` says that values do not survive a join.
  Identities of registers survive joins. At a jump out of the function the stack arguments are read one slot too low.
  After an early return the stack pointer stays where it was, so frame offsets behind it are shifted by a constant.
  `rep stos` and `rep movs` are not seen as stores. A frame pointer that a join forgets can overwrite slots unseen, and
  pass the frame to a callee without the frame being forgotten; slots in the home area are kept across calls.
* Headers: `STDAPI F(...)` is dropped though `parse.rs:548` says it becomes HRESULT: the macro is taken for a decoration
  before it is looked for (`HeadersAreUnderstood` is about the other prototypes); prototypes that name
  `struct X *` are dropped; `typedef T NAME[MAX_PATH]` defines `MAX_PATH`; constants depend on hash order when macros
  nest deeper than 32; records passed by value shift the arguments after them on x86. A header that cannot be read is
  left out of an index that is then cached under the full fingerprint.
* PE: readers cut images with more than 65,536 imports or 4 MiB of names in silence; a runtime function that begins at
  address zero is accepted and not read. An image whose functions are all noise scores 80 against itself.
* Comparison: the block counts that admit a pair are those around the left function's (3 and 17 blocks are a pair only
  from the side of the 17), so `diff a b` and `diff b a` may differ in functions that nothing else admits.
* C ABI: in an object of options the key `args` is dropped and `no_color` refused.

## Plan

1. Lemmas about the readers of `PeDirectories`, which count records by recursion over data.
2. Breadth: API collection of the reconstruction, the families of constants of the headers, the NDIS requests of
   drivers.
