----------------------------- MODULE EditorPanel -----------------------------
(***************************************************************************)
(* The life of one RESX viewer panel in VS Code                            *)
(* (ResxEditorProvider, resx-vscode/src/editor.ts) and what must survive   *)
(* it: navigation commands that open the viewer at a target, and the log   *)
(* of analyzer runs (resx-vscode/src/runner.ts) that the viewer mirrors.   *)
(*                                                                         *)
(* One document path is modelled.  VS Code is external: it opens the       *)
(* editor some time after openWith is called, before or after openWith     *)
(* returns, delivers messages to a webview in order once its script runs,  *)
(* and drops them when the panel is closed.  The user may close the panel  *)
(* at any time.                                                            *)
(***************************************************************************)
EXTENDS Naturals, Sequences

CONSTANTS
  Commands,   \* navigation commands (Dump, Locate) for this path
  MaxTraces,  \* bound on the entries of the run trace
  MaxCloses,  \* bound on how often the panel is closed
  Cap,        \* MAX_RUN_TRACE_HISTORY, and the webview's limit
  None        \* no pending navigation

VARIABLES
  pc,          \* where each command is
  wanted,      \* VS Code has been asked for an editor that is not open yet
  panel,       \* the panel is open and registered in panelByPath
  script,      \* the webview's script runs
  ready,       \* the handling of its 'ready' message
  pending,     \* pendingNavigation
  channel,     \* messages on their way to the webview
  runTrace,    \* runTraceHistory
  devLogs,     \* the webview's copy
  visited,     \* navigations the webviews have carried out, in order
  superseded,  \* navigations replaced in pendingNavigation (history)
  closedOn,    \* commands whose panel was closed after they began (history)
  traces,      \* entries emitted so far
  closes       \* panels closed so far

vars == <<pc, wanted, panel, script, ready, pending, channel, runTrace,
          devLogs, visited, superseded, closedOn, traces, closes>>

-----------------------------------------------------------------------------

NavMessage(c) == [type |-> "external_navigate", command |-> c]
HistoryMessage(log) == [type |-> "dev_log_history", entries |-> log]
AppendMessage(entry) == [type |-> "dev_log_append", entry |-> entry]

LastOf(log, n) == SubSeq(log, IF Len(log) > n THEN Len(log) - n + 1 ELSE 1,
                         Len(log))

Init ==
  /\ pc = [c \in Commands |-> "idle"]
  /\ wanted = FALSE /\ panel = FALSE /\ script = FALSE /\ ready = "unsent"
  /\ pending = None /\ channel = <<>>
  /\ runTrace = <<>> /\ devLogs = <<>> /\ visited = <<>>
  /\ superseded = {} /\ closedOn = {} /\ traces = 0 /\ closes = 0

-----------------------------------------------------------------------------
(* A navigation command: openWith, then navigateTo.                         *)

OpenWith(c) ==
  /\ pc[c] = "idle"
  /\ pc' = [pc EXCEPT ![c] = "opening"]
  /\ wanted' = (wanted \/ ~panel)
  /\ UNCHANGED <<panel, script, ready, pending, channel, runTrace, devLogs,
                 visited, superseded, closedOn, traces, closes>>

OpenReturns(c) ==
  /\ pc[c] = "opening"
  /\ pc' = [pc EXCEPT ![c] = "opened"]
  /\ UNCHANGED <<wanted, panel, script, ready, pending, channel, runTrace,
                 devLogs, visited, superseded, closedOn, traces, closes>>

\* Mutant: a panel whose script has not reported is sent nothing.
NavigateToLoaded(c) ==
  /\ pc[c] = "opened"
  /\ pc' = [pc EXCEPT ![c] = "done"]
  /\ IF panel
     THEN /\ channel' = IF script THEN Append(channel, NavMessage(c)) ELSE channel
          /\ UNCHANGED <<pending, superseded>>
     ELSE /\ superseded' = superseded \cup ({pending} \ {None})
          /\ pending' = c
          /\ UNCHANGED channel
  /\ UNCHANGED <<wanted, panel, script, ready, runTrace, devLogs, visited,
                 closedOn, traces, closes>>

\* navigateTo: to the panel if there is one, else kept for it.
NavigateTo(c) ==
  /\ pc[c] = "opened"
  /\ pc' = [pc EXCEPT ![c] = "done"]
  /\ IF panel
     THEN /\ channel' = Append(channel, NavMessage(c))
          /\ UNCHANGED <<pending, superseded>>
     ELSE /\ superseded' = superseded \cup ({pending} \ {None})
          /\ pending' = c
          /\ UNCHANGED channel
  /\ UNCHANGED <<wanted, panel, script, ready, runTrace, devLogs, visited,
                 closedOn, traces, closes>>

-----------------------------------------------------------------------------
(* The panel.                                                               *)

\* resolveCustomEditor: register the panel, subscribe to the run trace.
ResolveEditor ==
  /\ wanted /\ ~panel
  /\ wanted' = FALSE /\ panel' = TRUE
  /\ script' = FALSE /\ ready' = "unsent"
  /\ channel' = <<>> /\ devLogs' = <<>>
  /\ UNCHANGED <<pc, pending, runTrace, visited, superseded, closedOn, traces,
                 closes>>

\* The script starts, and its first act is to post 'ready'.
LoadScript ==
  /\ panel /\ ~script
  /\ script' = TRUE /\ ready' = "posted"
  /\ UNCHANGED <<pc, wanted, panel, pending, channel, runTrace, devLogs,
                 visited, superseded, closedOn, traces, closes>>

\* 'ready' arrives; its handler waits for publishPresence.
ReceiveReady ==
  /\ panel /\ ready = "posted"
  /\ ready' = "awaiting"
  /\ UNCHANGED <<pc, wanted, panel, script, pending, channel, runTrace,
                 devLogs, visited, superseded, closedOn, traces, closes>>

\* Mutant: the pending navigation is sent but not taken out of the map.
AnswerReadyKeep ==
  /\ panel /\ ready = "awaiting"
  /\ ready' = "handled"
  /\ channel' = channel \o <<HistoryMessage(runTrace)>> \o
       (IF pending = None THEN <<>> ELSE <<NavMessage(pending)>>)
  /\ UNCHANGED <<pc, wanted, panel, script, pending, runTrace, devLogs,
                 visited, superseded, closedOn, traces, closes>>

\* Mutant: the trace so far overtakes the entries already sent.
AnswerReadyOvertakes ==
  /\ panel /\ ready = "awaiting"
  /\ ready' = "handled"
  /\ channel' = <<HistoryMessage(runTrace)>> \o channel \o
       (IF pending = None THEN <<>> ELSE <<NavMessage(pending)>>)
  /\ pending' = None
  /\ UNCHANGED <<pc, wanted, panel, script, runTrace, devLogs, visited,
                 superseded, closedOn, traces, closes>>

\* The rest of the handler: the trace so far, then the pending navigation.
AnswerReady ==
  /\ panel /\ ready = "awaiting"
  /\ ready' = "handled"
  /\ channel' = channel \o <<HistoryMessage(runTrace)>> \o
       (IF pending = None THEN <<>> ELSE <<NavMessage(pending)>>)
  /\ pending' = None
  /\ UNCHANGED <<pc, wanted, panel, script, runTrace, devLogs, visited,
                 superseded, closedOn, traces, closes>>

\* The webview handles the next message.
Receive ==
  /\ script /\ channel # <<>>
  /\ channel' = Tail(channel)
  /\ LET m == Head(channel)
     IN \/ /\ m.type = "external_navigate"
           /\ visited' = Append(visited, m.command) /\ UNCHANGED devLogs
        \/ /\ m.type = "dev_log_history"
           /\ devLogs' = m.entries /\ UNCHANGED visited
        \/ /\ m.type = "dev_log_append"
           /\ devLogs' = LastOf(Append(devLogs, m.entry), Cap) /\ UNCHANGED visited
  /\ UNCHANGED <<pc, wanted, panel, script, ready, pending, runTrace,
                 superseded, closedOn, traces, closes>>

\* onDidDispose: what was on its way to the webview, or in its handler, ends.
Close ==
  /\ panel /\ closes < MaxCloses
  /\ closes' = closes + 1
  /\ panel' = FALSE /\ script' = FALSE /\ ready' = "unsent"
  /\ channel' = <<>> /\ devLogs' = <<>>
  /\ closedOn' = closedOn \cup {c \in Commands : pc[c] # "idle"}
  /\ UNCHANGED <<pc, wanted, pending, runTrace, visited, superseded, traces>>

-----------------------------------------------------------------------------

\* emitRunTrace: into the capped history, and to every panel.
EmitRunTrace ==
  /\ traces < MaxTraces
  /\ traces' = traces + 1
  /\ runTrace' = LastOf(Append(runTrace, traces), Cap)
  /\ channel' = IF panel THEN Append(channel, AppendMessage(traces)) ELSE channel
  /\ UNCHANGED <<pc, wanted, panel, script, ready, pending, devLogs, visited,
                 superseded, closedOn, closes>>

CommandStep(c) == OpenWith(c) \/ OpenReturns(c) \/ NavigateTo(c)
PanelStep == ResolveEditor \/ LoadScript \/ ReceiveReady \/ AnswerReady \/ Receive

Next == \/ \E c \in Commands : CommandStep(c)
        \/ PanelStep \/ Close \/ EmitRunTrace

Spec == Init /\ [][Next]_vars

\* VS Code opens what it is asked for, runs scripts and delivers messages.
FairSpec ==
  Spec /\ WF_vars(PanelStep) /\ \A c \in Commands : WF_vars(CommandStep(c))

-----------------------------------------------------------------------------
(* Properties.                                                              *)

TypeOK ==
  /\ pc \in [Commands -> {"idle", "opening", "opened", "done"}]
  /\ wanted \in BOOLEAN /\ panel \in BOOLEAN /\ script \in BOOLEAN
  /\ ready \in {"unsent", "posted", "awaiting", "handled"}
  /\ pending \in Commands \cup {None}
  /\ superseded \subseteq Commands /\ closedOn \subseteq Commands
  /\ visited \in Seq(Commands)
  /\ Len(runTrace) <= Cap /\ Len(devLogs) <= Cap
  /\ ~panel => ~script /\ channel = <<>>

\* Once the panel has asked for the history and caught up with its messages,
\* its Dev tab shows exactly the recorded runs: entries made between the two
\* are neither missing nor doubled.
LogMirrored ==
  script /\ ready = "handled" /\ channel = <<>> => devLogs = runTrace

\* A navigation is carried out once, however often the panel is reopened.
NavigatedOnce ==
  \A i, j \in 1 .. Len(visited) : visited[i] = visited[j] => i = j

\* A navigation reaches the viewer, unless the user closes the panel on it or
\* a later command takes its place before the viewer is ready.
Arrives(c) ==
  pc[c] = "done" ~> \/ \E i \in 1 .. Len(visited) : visited[i] = c
                    \/ c \in superseded \/ c \in closedOn

NavigationArrives == \A c \in Commands : Arrives(c)

=============================================================================
