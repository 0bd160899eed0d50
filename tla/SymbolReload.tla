---------------------------- MODULE SymbolReload ----------------------------
(***************************************************************************)
(* What the Symbols and Types panels of the viewer show while analyses and *)
(* symbol reloads overlap (resolveCustomEditor, resx-vscode/src/editor.ts  *)
(* and the message switch of resx-vscode/media-src/main.ts).  Every        *)
(* request starts commands that end in any order; a reload looks at        *)
(* symReloadToken after each of its two commands and gives up when a later *)
(* reload has begun, an analysis sends whatever it gets.                   *)
(*                                                                         *)
(* What the user asks for empties panels at once and is posted to the      *)
(* extension host, which takes the messages in order while earlier answers *)
(* still arrive.  The view receives in order too, so a message to it is    *)
(* sent and received in one step: holding the host back until the receipt  *)
(* changes nothing that the view shows.                                    *)
(*                                                                         *)
(* A panel's content is the request it came from: a reload or an analysis  *)
(* and its number.  Failed commands are answers like others.               *)
(***************************************************************************)
EXTENDS Naturals, Sequences

CONSTANTS
  MaxReloads,  \* bound on the symbol reloads
  MaxAnalyses  \* bound on the analyses: the one on opening, then refreshes

VARIABLES
  requests,        \* what the view has posted and the host has not taken
  symReloadToken,  \* the number of the latest reload
  reloads,         \* the command each reload waits for, or "ended"
  analyses,        \* the number of analyses begun
  running,         \* panels each analysis still owes a result
  symbols,         \* what the Symbols panel shows
  types            \* what the Types panel shows

vars == <<requests, symReloadToken, reloads, analyses, running, symbols, types>>

-----------------------------------------------------------------------------

Reloads == 1 .. MaxReloads
Analyses == 1 .. MaxAnalyses

\* The requests of a kind that the user has made, taken or not.
Asked(kind, taken) == taken + Len(SelectSeq(requests, LAMBDA m : m = kind))

Loading == [by |-> "nobody", nr |-> 0]
ByReload(k) == [by |-> "reload", nr |-> k]
ByAnalysis(k) == [by |-> "analysis", nr |-> k]

\* Opening the editor starts the first analysis.
Init ==
  /\ requests = <<>>
  /\ symReloadToken = 0
  /\ reloads = [k \in Reloads |-> "idle"]
  /\ analyses = 1
  /\ running = [k \in Analyses |-> IF k = 1 THEN {"syms", "types"} ELSE {}]
  /\ symbols = Loading /\ types = Loading

-----------------------------------------------------------------------------
(* The view.                                                                *)

\* The reload button, or a navigation that comes with loadSymbols: the Symbols
\* panel is emptied and the host asked for the symbols.
RequestReload ==
  /\ Asked("reload", symReloadToken) < MaxReloads
  /\ requests' = Append(requests, "reload")
  /\ symbols' = Loading
  /\ UNCHANGED <<symReloadToken, reloads, analyses, running, types>>

\* The Refresh command: every panel is emptied and the analyses asked for again.
Refresh ==
  /\ Asked("refresh", analyses) < MaxAnalyses
  /\ requests' = Append(requests, "refresh")
  /\ symbols' = Loading /\ types' = Loading
  /\ UNCHANGED <<symReloadToken, reloads, analyses, running>>

-----------------------------------------------------------------------------
(* The extension host.                                                      *)

Taken(kind) ==
  /\ requests # <<>> /\ Head(requests) = kind
  /\ requests' = Tail(requests)

\* 'refresh': runInitialAnalysis starts its commands again.
BeginAnalysis ==
  /\ Taken("refresh")
  /\ analyses' = analyses + 1
  /\ running' = [running EXCEPT ![analyses + 1] = {"syms", "types"}]
  /\ UNCHANGED <<symReloadToken, reloads, symbols, types>>

\* One of the analysis's commands ends; there is no token to look at.
AnalysisSymbols(k) ==
  /\ "syms" \in running[k]
  /\ running' = [running EXCEPT ![k] = @ \ {"syms"}]
  /\ symbols' = ByAnalysis(k)
  /\ UNCHANGED <<requests, symReloadToken, reloads, analyses, types>>

AnalysisTypes(k) ==
  /\ "types" \in running[k]
  /\ running' = [running EXCEPT ![k] = @ \ {"types"}]
  /\ types' = ByAnalysis(k)
  /\ UNCHANGED <<requests, symReloadToken, reloads, analyses, symbols>>

\* Mutant: a reload that is asked for while another one runs is dropped.
BeginReloadIdle ==
  /\ Taken("reload")
  /\ IF \E k \in Reloads : reloads[k] \in {"syms", "types"}
     THEN UNCHANGED <<symReloadToken, reloads>>
     ELSE /\ symReloadToken' = symReloadToken + 1
          /\ reloads' = [reloads EXCEPT ![symReloadToken + 1] = "syms"]
  /\ UNCHANGED <<analyses, running, symbols, types>>

\* 'reload_syms': the reload takes the next token and starts `syms --reload`.
BeginReload ==
  /\ Taken("reload")
  /\ symReloadToken' = symReloadToken + 1
  /\ reloads' = [reloads EXCEPT ![symReloadToken + 1] = "syms"]
  /\ UNCHANGED <<analyses, running, symbols, types>>

\* Mutant: the symbols are sent before the token is looked at.
ReloadSymbolsUnchecked(k) ==
  /\ reloads[k] = "syms"
  /\ symbols' = ByReload(k)
  /\ reloads' = [reloads EXCEPT ![k] = IF k = symReloadToken THEN "types"
                                                             ELSE "ended"]
  /\ UNCHANGED <<requests, symReloadToken, analyses, running, types>>

\* The symbols are here: shown, and the types asked for, unless a later
\* reload has begun.
ReloadSymbols(k) ==
  /\ reloads[k] = "syms"
  /\ IF k = symReloadToken
     THEN symbols' = ByReload(k) /\ reloads' = [reloads EXCEPT ![k] = "types"]
     ELSE UNCHANGED symbols /\ reloads' = [reloads EXCEPT ![k] = "ended"]
  /\ UNCHANGED <<requests, symReloadToken, analyses, running, types>>

ReloadTypes(k) ==
  /\ reloads[k] = "types"
  /\ types' = IF k = symReloadToken THEN ByReload(k) ELSE types
  /\ reloads' = [reloads EXCEPT ![k] = "ended"]
  /\ UNCHANGED <<requests, symReloadToken, analyses, running, symbols>>

CommandEnds ==
  \/ \E k \in Analyses : AnalysisSymbols(k) \/ AnalysisTypes(k)
  \/ \E k \in Reloads : ReloadSymbols(k) \/ ReloadTypes(k)

HostTakes == BeginAnalysis \/ BeginReload

Next == RequestReload \/ Refresh \/ HostTakes \/ CommandEnds

Spec == Init /\ [][Next]_vars

\* Messages reach the host, and every command ends: runJson gives it two minutes.
FairSpec == Spec /\ WF_vars(HostTakes) /\ WF_vars(CommandEnds)

-----------------------------------------------------------------------------
(* Properties.                                                              *)

Contents == {Loading} \cup {ByReload(k) : k \in Reloads}
              \cup {ByAnalysis(k) : k \in Analyses}

TypeOK ==
  /\ requests \in Seq({"reload", "refresh"})
  /\ Asked("reload", symReloadToken) <= MaxReloads
  /\ Asked("refresh", analyses) <= MaxAnalyses
  /\ symReloadToken \in 0 .. MaxReloads
  /\ reloads \in [Reloads -> {"idle", "syms", "types", "ended"}]
  /\ analyses \in Analyses
  /\ running \in [Analyses -> SUBSET {"syms", "types"}]
  /\ symbols \in Contents /\ types \in Contents
  /\ \A k \in Reloads : (reloads[k] = "idle") = (k > symReloadToken)

\* A panel a reload writes to gets the answer of the latest reload: an older
\* one, made with other symbol paths, is never put over or after it.
LatestReloadWrites ==
  /\ symbols' # symbols /\ symbols'.by = "reload" => symbols'.nr = symReloadToken
  /\ types' # types /\ types'.by = "reload" => types'.nr = symReloadToken

OlderReloadsSilent == [][LatestReloadWrites]_vars

\* A panel that a request has emptied is filled again, whichever request is
\* answered first and whichever of them the token silences.
Cleared == symbols = Loading \/ types = Loading
PanelsFill == Cleared ~> ~ Cleared

=============================================================================
