------------------------------ MODULE MCBoundary ------------------------------
(***************************************************************************)
(* What RESX shares with the programs around it, for TLC: the analyzer     *)
(* whose output it captures, the three models of the binary viewer, the    *)
(* header index that processes keep on disk while an installer works, and  *)
(* the call indexes that runs keep while images are replaced.  They share  *)
(* no variable, so a behaviour moves one of them and leaves the others as  *)
(* they began.  A pipe holds one unit, and two full outputs exceed the     *)
(* budget.  Two functions, the first of which calls the second; two        *)
(* navigation commands, one closing of the panel and a run trace longer    *)
(* than its cap; three symbol reloads and one refresh; two processes that  *)
(* read one header, and one that reads two; two ordinary runs and one      *)
(* --reload run over one replacement of an image.                          *)
(***************************************************************************)
EXTENDS BoundedCapture, FollowIndexCache, Sequences, TLC

CONSTANTS
  fn1, fn2,                                 \* the functions looked at
  Targets, Calls, Depths, MaxClicks, None,  \* see DumpView
  Commands, MaxTraces, MaxCloses, Cap,      \* see EditorPanel
  MaxReloads, MaxAnalyses,                  \* see SymbolReload
  p1, p2, t1, t2, MaxStamp, Missing         \* see HeaderCache

VARIABLES
  part,  \* the model that moves
  history, pos, apiDepth, hostile, pages, inFlight, active, shown, controls, lastId, clicks,
  cmd, wanted, panel, script, ready, pending, channel, runTrace, devLogs, visited,
  superseded, closedOn, traces, closes,
  requests, symReloadToken, reloads, analyses, running, symbols, types,
  disk, files, loaded, lock, load, answers, since

\* The depth selector begins at one, and a call target is a function.
ASSUME DumpAssumption ==
  /\ 1 \in Depths /\ Depths \subseteq Nat
  /\ Calls \in [Targets -> SUBSET Targets]
  /\ MaxClicks \in Nat

ASSUME PanelAssumption ==
  /\ None \notin Commands
  /\ Cap \in Nat /\ MaxTraces \in Nat /\ MaxCloses \in Nat

\* The first analysis begins with the panel.
ASSUME SymbolAssumption == MaxReloads \in Nat /\ MaxAnalyses \in Nat \ {0}

OneCall == (fn1 :> {fn2}) @@ (fn2 :> {})

Dump == INSTANCE DumpView WITH cache <- pages
Panel == INSTANCE EditorPanel WITH pc <- cmd
Symbols == INSTANCE SymbolReload
Crowd == INSTANCE HeaderCache WITH Processes <- {p1, p2}, Threads <- {t1, t2}, Headers <- {1},
                                  MaxVersion <- MaxStamp
Pair == INSTANCE HeaderCache WITH Processes <- {p1}, Threads <- {t1, t2}, Headers <- {1, 2},
                                 MaxVersion <- MaxStamp

dumpVars == <<history, pos, apiDepth, hostile, pages, inFlight, active, shown,
              controls, lastId, clicks>>
panelVars == <<cmd, wanted, panel, script, ready, pending, channel, runTrace, devLogs,
               visited, superseded, closedOn, traces, closes>>
symbolVars == <<requests, symReloadToken, reloads, analyses, running, symbols, types>>

headerVars == <<disk, files, loaded, lock, load, answers, since>>

PartInit ==
  /\ part \in {"capture", "dump", "panel", "symbols", "crowd", "pair", "index"}
  /\ Init /\ IndexInit /\ Dump!Init /\ Panel!Init /\ Symbols!Init
  /\ IF part = "crowd" THEN Crowd!Init ELSE Pair!Init
  /\ part # "index" => cache = Absent /\ parses = {}

PartNext ==
  /\ part' = part
  /\ \/ part = "capture" /\ Next
     \/ part # "capture" /\ UNCHANGED vars
  /\ \/ part = "dump" /\ Dump!Next
     \/ part # "dump" /\ UNCHANGED dumpVars
  /\ \/ part = "panel" /\ Panel!Next
     \/ part # "panel" /\ UNCHANGED panelVars
  /\ \/ part = "symbols" /\ Symbols!Next
     \/ part # "symbols" /\ UNCHANGED symbolVars
  /\ \/ part = "crowd" /\ Crowd!Next
     \/ part = "pair" /\ Pair!Next
     \/ part \notin {"crowd", "pair"} /\ UNCHANGED headerVars
  /\ \/ part = "index" /\ IndexNext
     \/ part # "index" /\ UNCHANGED indexVars

allVars == <<part, vars, dumpVars, panelVars, symbolVars, headerVars, indexVars>>

\* Commands answer within their time limit, VS Code does what it is asked,
\* terminated processes end and the runs of RESX go on: the fairness each model
\* states, for the one that moves.
Fairness ==
  /\ WF_vars(part = "capture" /\ CaptureStep)
  /\ WF_vars(part = "capture" /\ ChildDies)
  /\ WF_dumpVars(part = "dump" /\ Dump!HostAnswers)
  /\ WF_panelVars(part = "panel" /\ Panel!PanelStep)
  /\ \A c \in Commands : WF_panelVars(part = "panel" /\ Panel!CommandStep(c))
  /\ WF_symbolVars(part = "symbols" /\ Symbols!HostTakes)
  /\ WF_symbolVars(part = "symbols" /\ Symbols!CommandEnds)
  /\ \A r \in Runs : WF_indexVars(part = "index" /\ LoadOrBuild(r))

BoundarySpec ==
  PartInit /\ [][PartNext]_allVars /\ Fairness

\* The dump view alone.
DumpSpec == PartInit /\ part = "dump" /\ [][PartNext]_allVars

-----------------------------------------------------------------------------
(* The properties of the models; those of the capture and of the call       *)
(* indexes are their own.                                                   *)

\* The page that is awaited is the page of the current entry, at its depth and
\* with the hostile checkbox as it stands, whatever order answers come in.
AwaitedPageMatches == Dump!AwaitedPageMatches

\* A page that is shown is the page of the current entry.
ShownIsCurrent == Dump!ShownIsCurrent

\* Once the viewer has caught up, its Dev tab shows the recorded runs.
LogMirrored == Panel!LogMirrored

\* A navigation is carried out once, however often the panel is reopened.
NavigatedOnce == Panel!NavigatedOnce

\* A view that disassembles ends with a page or an error.
LoadingEnds == Dump!LoadingEnds

\* A navigation reaches the viewer unless the user closes it or a later one
\* takes its place.
NavigationArrives == Panel!NavigationArrives

\* An older reload never writes over a later one.
OlderReloadsSilent == Symbols!OlderReloadsSilent

\* A panel that a reload or a refresh has emptied is filled again, whichever
\* request is answered first and whichever the token silences.
PanelsFill == part = "symbols" /\ Symbols!Cleared ~> ~ Symbols!Cleared

\* An index that is served is whole and not older than its load (configured, load).
IndexIsCurrent ==
  /\ part = "crowd" => Crowd!ServedIsCurrent
  /\ part = "pair" => Pair!ServedIsCurrent

=============================================================================
