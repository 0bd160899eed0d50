------------------------------ MODULE DumpView ------------------------------
(***************************************************************************)
(* The Dump tab of the binary viewer (resx-vscode/media-src/main.ts): the  *)
(* user moves through a history of functions, the webview asks the         *)
(* extension host for the dump of each and keeps the answers in dumpCache. *)
(* The host runs one `resx dump` per request (resx-vscode/src/editor.ts),  *)
(* all at once, so answers come in any order.                              *)
(*                                                                         *)
(* A target is a function; which image it is in and how it is named are    *)
(* left out, and so are the panels a page is rendered into.  A page is     *)
(* what an answer says of itself: the target, the depth and the hostile    *)
(* flag it was computed with, and the request it answers.                  *)
(***************************************************************************)
EXTENDS Integers, Sequences

CONSTANTS
  Targets,    \* the functions there are to look at
  Calls,      \* [Targets -> SUBSET Targets]: the call targets on each page
  Depths,     \* the depths offered by the selector
  MaxClicks,  \* bound on what the user does
  None        \* no cached answer

VARIABLES
  history,   \* navHistory
  pos,       \* navPos, counted from one; zero when nothing was visited
  apiDepth,  \* the selected depth
  hostile,   \* the hostile checkbox
  cache,     \* dumpCache
  inFlight,  \* requests the host has not answered yet
  active,    \* activeDumpRequestId; zero for null
  shown,     \* what the Dump tab shows
  controls,  \* the depth selector and the hostile checkbox are on the page
  lastId,    \* the request id given out last
  clicks     \* what the user has done so far

vars == <<history, pos, apiDepth, hostile, cache, inFlight, active, shown,
          controls, lastId, clicks>>

-----------------------------------------------------------------------------

Entry == [target : Targets, depth : Depths]

Key == [target : Targets, depth : Depths, hostile : BOOLEAN]

dumpCacheKey(entry, flag) ==
  [target |-> entry.target, depth |-> entry.depth, hostile |-> flag]

\* A request: the key its answer is stored under, and what is asked for.
Request(id, key, depth, flag, prefetch) ==
  [id |-> id, key |-> key, target |-> key.target, depth |-> depth,
   hostile |-> flag, prefetch |-> prefetch]

Page(r) ==
  [kind |-> "page", target |-> r.target, depth |-> r.depth,
   hostile |-> r.hostile, request |-> r.id]

\* A view without a page.
Blank(kind) ==
  [kind |-> kind, target |-> None, depth |-> 0, hostile |-> FALSE,
   request |-> 0]

\* prefetchCallTargets: one request for each call target of the page, cached
\* or not.  Its entry has no depth of its own, so the key says 1, while the
\* request asks for the selected depth.
Prefetches(page, depth, flag, id) ==
  {Request(id, dumpCacheKey([target |-> t, depth |-> 1], flag), depth, flag,
           TRUE) : t \in Calls[page.target]}

Init ==
  /\ history = <<>> /\ pos = 0
  /\ apiDepth = 1 /\ hostile = FALSE
  /\ cache = [k \in Key |-> None]
  /\ inFlight = {} /\ active = 0
  /\ shown = Blank("empty") /\ controls = FALSE
  /\ lastId = 0 /\ clicks = 0

-----------------------------------------------------------------------------
(* Rendering and requesting.                                                *)

\* renderDump of an answer with data: the depth of the current entry becomes
\* the selected one, and the call targets of the page are prefetched.
Render(page, entry, flag, others) ==
  /\ shown' = page
  /\ controls' = TRUE
  /\ apiDepth' = entry.depth
  /\ inFlight' = others \cup Prefetches(page, entry.depth, flag, lastId + 1)
  /\ lastId' = lastId + 1

\* Mutant: the request id remembered is not the one that is sent.
RequestDumpOtherId(entry, flag, depth, store) ==
  LET key == dumpCacheKey(entry, flag)
  IN IF store[key] # None
     THEN active' = 0 /\ Render(store[key], entry, flag, inFlight)
     ELSE /\ shown' = Blank("loading") /\ controls' = FALSE
          /\ apiDepth' = depth
          /\ lastId' = lastId + 1 /\ active' = lastId + 2
          /\ inFlight' = inFlight \cup
               {Request(lastId + 1, key, entry.depth, flag, FALSE)}

\* _requestDump of what the user asks for, from the cache if it can be.
RequestDump(entry, flag, depth, store) ==
  LET key == dumpCacheKey(entry, flag)
  IN IF store[key] # None
     THEN active' = 0 /\ Render(store[key], entry, flag, inFlight)
     ELSE /\ shown' = Blank("loading") /\ controls' = FALSE
          /\ apiDepth' = depth
          /\ lastId' = lastId + 1 /\ active' = lastId + 1
          /\ inFlight' = inFlight \cup
               {Request(lastId + 1, key, entry.depth, flag, FALSE)}

-----------------------------------------------------------------------------
(* The user.                                                                *)

Click == clicks < MaxClicks /\ clicks' = clicks + 1

\* navigate, navigateRva and the like: _navPush drops what lay ahead.
Navigate(t) ==
  /\ Click
  /\ LET entry == [target |-> t, depth |-> apiDepth]
     IN /\ history' = Append(SubSeq(history, 1, pos), entry)
        /\ pos' = pos + 1
        /\ RequestDump(entry, hostile, apiDepth, cache)
  /\ UNCHANGED <<hostile, cache>>

navBack ==
  /\ Click
  /\ pos > 1
  /\ pos' = pos - 1
  /\ RequestDump(history[pos - 1], hostile, apiDepth, cache)
  /\ UNCHANGED <<history, hostile, cache>>

navFwd ==
  /\ Click
  /\ pos < Len(history)
  /\ pos' = pos + 1
  /\ RequestDump(history[pos + 1], hostile, apiDepth, cache)
  /\ UNCHANGED <<history, hostile, cache>>

\* The depth selector: the current entry takes the new depth.
setCurrentDepth(d) ==
  /\ Click
  /\ controls /\ d # apiDepth
  /\ history' = [history EXCEPT ![pos].depth = d]
  /\ RequestDump(history'[pos], hostile, d, cache)
  /\ UNCHANGED <<pos, hostile, cache>>

\* The hostile checkbox: the cache is dropped.
ToggleHostile ==
  /\ Click
  /\ controls
  /\ hostile' = ~hostile
  /\ cache' = [k \in Key |-> None]
  /\ RequestDump(history[pos], ~hostile, apiDepth, cache')
  /\ UNCHANGED <<history, pos>>

\* refreshAnalysisPanels: the Dump tab keeps its page and its requests.
Refresh ==
  /\ Click
  /\ cache' = [k \in Key |-> None]
  /\ UNCHANGED <<history, pos, apiDepth, hostile, inFlight, active, shown,
                 controls, lastId>>

-----------------------------------------------------------------------------
(* The extension host answers.                                              *)

Store(r) == cache' = [cache EXCEPT ![r.key] = Page(r)]

\* Mutant: every answer that is not a prefetch is rendered.
UnawaitedPrefetchOnly(r) == r.prefetch

\* An answer that is stored at most: a prefetch, or not the awaited one.
Unawaited(r) == r.prefetch \/ (active # 0 /\ r.id # active)

StoreOnly(r) ==
  /\ r \in inFlight
  /\ Unawaited(r)
  /\ Store(r)
  /\ inFlight' = inFlight \ {r}
  /\ UNCHANGED <<history, pos, apiDepth, hostile, active, shown, controls,
                 lastId, clicks>>

StoreAndRender(r) ==
  /\ r \in inFlight
  /\ ~Unawaited(r)
  /\ Store(r)
  /\ Render(Page(r), history[pos], hostile, inFlight \ {r})
  /\ UNCHANGED <<history, pos, hostile, active, clicks>>

\* The command fails, times out or prints no JSON: nothing is stored.
Fail(r) ==
  /\ r \in inFlight
  /\ inFlight' = inFlight \ {r}
  /\ shown' = IF Unawaited(r) THEN shown ELSE Blank("error")
  /\ UNCHANGED <<history, pos, apiDepth, hostile, cache, active, controls,
                 lastId, clicks>>

Answer(r) == StoreOnly(r) \/ StoreAndRender(r) \/ Fail(r)

HostAnswers == \E r \in inFlight : Answer(r)

Next ==
  \/ \E t \in Targets : Navigate(t)
  \/ navBack \/ navFwd
  \/ \E d \in Depths : setCurrentDepth(d)
  \/ ToggleHostile \/ Refresh
  \/ HostAnswers

Spec == Init /\ [][Next]_vars

\* Every command ends: runJson gives it two minutes.
FairSpec == Spec /\ WF_vars(HostAnswers)

-----------------------------------------------------------------------------
(* Properties.                                                              *)

PageType ==
  [kind : {"page"}, target : Targets, depth : Depths, hostile : BOOLEAN,
   request : 1 .. lastId]

TypeOK ==
  /\ history \in Seq(Entry) /\ pos \in 0 .. Len(history)
  /\ (pos = 0) = (history = <<>>)
  /\ apiDepth \in Depths /\ hostile \in BOOLEAN
  /\ cache \in [Key -> PageType \cup {None}]
  /\ inFlight \subseteq [id : 1 .. lastId, key : Key, target : Targets,
                         depth : Depths, hostile : BOOLEAN,
                         prefetch : BOOLEAN]
  /\ active \in 0 .. lastId
  /\ shown \in PageType \cup {Blank(k) : k \in {"empty", "loading", "error"}}
  /\ controls \in BOOLEAN
  /\ lastId \in Nat /\ clicks \in 0 .. MaxClicks

\* While an answer is awaited, or has come, the page is the one asked for:
\* the function of the current entry at the selected depth, with the
\* checkbox as it stands, whatever order the answers came in.
AwaitedPageMatches ==
  active # 0 /\ shown.kind = "page" =>
    /\ shown.target = history[pos].target
    /\ shown.depth = apiDepth /\ apiDepth = history[pos].depth
    /\ shown.hostile = hostile

\* The view never stays at "Disassembling" once its request is answered, with
\* data or not, even when other requests are answered first.
LoadingEnds == shown.kind = "loading" ~> shown.kind # "loading"

\* What the user guide says of the Dump view (docs/vscode-extension.md,
\* "clicking an export, symbol, RVA link, call target, or xref opens a Dump
\* view"): the page shown is that of the current history entry.
ShownIsCurrent ==
  shown.kind = "page" => shown.target = history[pos].target

=============================================================================
