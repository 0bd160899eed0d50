----------------------------- MODULE PdbSession -----------------------------
(***************************************************************************)
(* Symbols and types of images from their PDBs                             *)
(* (resx/src/formats/pdb/windows): load_pdb_symbol, load_pdb_symbols and   *)
(* load_pdb_types, called by several threads of one process.  The threads  *)
(* are the workers of `locate-sym` or the callers of the C ABI.  They      *)
(* share three caches, each behind a mutex of its own that is held for one *)
(* access, the directory of downloaded PDBs, and the one DbgHelp session   *)
(* that a process can have for its own handle.                             *)
(*                                                                         *)
(* Names stand for symbols.  Without its PDB an image has the symbols it   *)
(* exports.  A call into DbgHelp is one step; calls that overlap, which    *)
(* DbgHelp does not support, are not modelled.  The caches' keys also hold *)
(* the search paths, which are the same here in all calls.                 *)
(***************************************************************************)
EXTENDS Naturals

CONSTANTS
  Callers,    \* threads of the process
  Images,
  Names,
  Exports,    \* [Images -> SUBSET Names]: what each image exports
  Symbols,    \* [Images -> SUBSET Names]: what each PDB holds
  Requests,   \* the calls that may be made
  MaxCalls,   \* bound on the calls of a thread
  NotCached,  \* a cache holds nothing for a key
  Nobody      \* no thread, or no call

Ops == {"lookup", "symbols", "types"}

ASSUME ImagesAssumption ==
  /\ Exports \in [Images -> SUBSET Names] /\ Symbols \in [Images -> SUBSET Names]
  /\ \A i \in Images : Exports[i] \subseteq Symbols[i]
ASSUME RequestsAssumption ==
  Requests \subseteq [op : Ops, image : Images, name : Names, reload : BOOLEAN]
ASSUME MaxCallsAssumption == MaxCalls \in Nat
ASSUME NoValueAssumption ==
  /\ (\A names \in SUBSET Names : names # NotCached)
  /\ (\A x \in Callers : x # Nobody) /\ (\A r \in Requests : r # Nobody)

VARIABLES
  lookupCache,  \* per image and name
  symbolCache,  \* per image
  typeCache,    \* per image
  pdbs,         \* images whose exact PDB is in the download directory
  session,      \* the thread that initialised DbgHelp
  loaded,       \* the symbols DbgHelp has for the module of the session
  pc,           \* the step of each thread
  req,          \* the call of each thread
  stage,        \* the function the call is in: types calls symbols
  out,          \* what the call returns: a set of names
  calls         \* calls each thread has made

caches == <<lookupCache, symbolCache, typeCache>>
vars == <<lookupCache, symbolCache, typeCache, pdbs, session, loaded, pc, req,
          stage, out, calls>>

Init ==
  /\ lookupCache = [i \in Images |-> [n \in Names |-> NotCached]]
  /\ symbolCache = [i \in Images |-> NotCached]
  /\ typeCache = [i \in Images |-> NotCached]
  /\ pdbs = {} /\ session = Nobody /\ loaded = {}
  /\ pc = [c \in Callers |-> "idle"]
  /\ req = [c \in Callers |-> Nobody]
  /\ stage = [c \in Callers |-> "lookup"]
  /\ out = [c \in Callers |-> {}]
  /\ calls = [c \in Callers |-> 0]

-----------------------------------------------------------------------------
(* Steps.                                                                   *)

Image(c) == req[c].image
Name(c) == req[c].name

Goto(c, step) == pc' = [pc EXCEPT ![c] = step]

Return(c, names) ==
  /\ Goto(c, "idle")
  /\ out' = [out EXCEPT ![c] = names]

\* Where a call starts: --reload skips the caches.
FirstStep(r) ==
  CASE r.op = "types" -> IF r.reload THEN "prefer" ELSE "check_types"
    [] r.op = "symbols" -> IF r.reload THEN "resolve" ELSE "check_symbols"
    [] r.op = "lookup" -> IF r.reload THEN "resolve" ELSE "check_lookup"

Start(c, r) ==
  /\ pc[c] = "idle" /\ calls[c] < MaxCalls
  /\ calls' = [calls EXCEPT ![c] = @ + 1]
  /\ req' = [req EXCEPT ![c] = r]
  /\ stage' = [stage EXCEPT ![c] = r.op]
  /\ Goto(c, FirstStep(r))
  /\ out' = [out EXCEPT ![c] = {}]
  /\ UNCHANGED <<caches, pdbs, session, loaded>>

CheckLookup(c) ==
  /\ pc[c] = "check_lookup"
  /\ IF lookupCache[Image(c)][Name(c)] # NotCached
     THEN Return(c, lookupCache[Image(c)][Name(c)])
     ELSE Goto(c, "check_symbols") /\ UNCHANGED out
  /\ UNCHANGED <<caches, pdbs, session, loaded, req, stage, calls>>

\* load_pdb_types goes on with its own session after load_pdb_symbols.
Continue(c, names) ==
  IF req[c].op = "types" /\ stage[c] = "symbols"
  THEN /\ stage' = [stage EXCEPT ![c] = "types"]
       /\ Goto(c, "resolve")
       /\ UNCHANGED out
  ELSE Return(c, names) /\ UNCHANGED stage

\* The list of an image answers a lookup too, which is then cached.
CheckSymbols(c) ==
  /\ pc[c] = "check_symbols"
  /\ LET list == symbolCache[Image(c)]
     IN IF list = NotCached
        THEN Goto(c, "resolve") /\ UNCHANGED <<out, stage>>
        ELSE IF stage[c] = "lookup"
             THEN /\ out' = [out EXCEPT ![c] = list \cap {Name(c)}]
                  /\ Goto(c, "store")
                  /\ UNCHANGED stage
             ELSE Continue(c, list)
  /\ UNCHANGED <<caches, pdbs, session, loaded, req, calls>>

CheckTypes(c) ==
  /\ pc[c] = "check_types"
  /\ IF typeCache[Image(c)] # NotCached
     THEN Return(c, typeCache[Image(c)])
     ELSE Goto(c, "prefer") /\ UNCHANGED out
  /\ UNCHANGED <<caches, pdbs, session, loaded, req, stage, calls>>

\* A PDB is downloaded, or cannot be.
Fetch(c) == pdbs' \in {pdbs, pdbs \cup {Image(c)}}

\* llvm-pdbutil on the PDB; what DbgHelp offers if it gives no types.
PreferLlvm(c) ==
  /\ pc[c] = "prefer"
  /\ Fetch(c)
  /\ \/ /\ Image(c) \in pdbs'
        /\ out' = [out EXCEPT ![c] = Symbols[Image(c)] \ Exports[Image(c)]]
        /\ Goto(c, "store") /\ UNCHANGED stage
     \/ /\ stage' = [stage EXCEPT ![c] = "symbols"]
        /\ Goto(c, IF req[c].reload THEN "resolve" ELSE "check_symbols")
        /\ UNCHANGED out
  /\ UNCHANGED <<caches, session, loaded, req, calls>>

\* resolve_pdb_path
ResolvePdb(c) ==
  /\ pc[c] = "resolve"
  /\ Fetch(c)
  /\ Goto(c, "open")
  /\ UNCHANGED <<caches, session, loaded, req, stage, out, calls>>

\* Mutant: a lookup that cannot open the session is cached as a miss.
OpenSessionCached(c) ==
  /\ pc[c] = "open"
  /\ IF session = Nobody
     THEN session' = c /\ Goto(c, "load") /\ UNCHANGED out
     ELSE /\ UNCHANGED session
          /\ Goto(c, "store") /\ out' = [out EXCEPT ![c] = {}]
  /\ UNCHANGED <<caches, pdbs, loaded, req, stage, calls>>

\* SymInitialize, which fails while another thread has the session: the call
\* returns with nothing, past the caches.
OpenSession(c) ==
  /\ pc[c] = "open"
  /\ IF session = Nobody
     THEN session' = c /\ Goto(c, "load") /\ UNCHANGED out
     ELSE UNCHANGED session /\ Return(c, {})
  /\ UNCHANGED <<caches, pdbs, loaded, req, stage, calls>>

\* SymLoadModuleEx: the PDB's symbols if the search path, with its symbol
\* server, leads to one, and the exports if not.
LoadModule(c) ==
  /\ pc[c] = "load"
  /\ Fetch(c)
  /\ loaded' = IF Image(c) \in pdbs' THEN Symbols[Image(c)] ELSE Exports[Image(c)]
  /\ Goto(c, "query")
  /\ UNCHANGED <<caches, session, req, stage, out, calls>>

\* SymFromName, SymEnumSymbols, or the types of the symbols.
Answer(c) ==
  CASE stage[c] = "lookup" -> loaded \cap {Name(c)}
    [] stage[c] = "symbols" -> loaded
    [] stage[c] = "types" -> loaded \ Exports[Image(c)]

\* The query; the session is closed when its block ends.  A name that is not
\* found returns at once, past the cache.
Query(c) ==
  /\ pc[c] = "query"
  /\ session' = Nobody
  /\ loaded' = {}
  /\ IF stage[c] = "lookup" /\ Answer(c) = {}
     THEN Return(c, {})
     ELSE /\ out' = [out EXCEPT ![c] = Answer(c)]
          /\ Goto(c, "store")
  /\ UNCHANGED <<caches, pdbs, req, stage, calls>>

\* Mutant: an early return leaves the session open.
DbgHelpFailsLeaking(c) ==
  /\ pc[c] \in {"open", "load", "query"}
  /\ Return(c, {})
  /\ UNCHANGED <<caches, pdbs, session, loaded, req, stage, calls>>

\* DbgHelp is missing or fails: the call returns, and Cleanup closes the
\* session if this call had opened it.
DbgHelpFails(c) ==
  /\ pc[c] \in {"open", "load", "query"}
  /\ Return(c, {})
  /\ IF pc[c] = "open" THEN UNCHANGED <<session, loaded>>
                       ELSE session' = Nobody /\ loaded' = {}
  /\ UNCHANGED <<caches, pdbs, req, stage, calls>>

Store(c) ==
  /\ pc[c] = "store"
  /\ lookupCache' = IF stage[c] = "lookup"
                    THEN [lookupCache EXCEPT ![Image(c)][Name(c)] = out[c]]
                    ELSE lookupCache
  /\ symbolCache' = IF stage[c] = "symbols"
                    THEN [symbolCache EXCEPT ![Image(c)] = out[c]] ELSE symbolCache
  /\ typeCache' = IF stage[c] = "types"
                  THEN [typeCache EXCEPT ![Image(c)] = out[c]] ELSE typeCache
  /\ Continue(c, out[c])
  /\ UNCHANGED <<pdbs, session, loaded, req, calls>>

Step(c) ==
  \/ \E r \in Requests : Start(c, r)
  \/ CheckLookup(c) \/ CheckSymbols(c) \/ CheckTypes(c)
  \/ PreferLlvm(c) \/ ResolvePdb(c)
  \/ OpenSession(c) \/ LoadModule(c) \/ Query(c) \/ DbgHelpFails(c)
  \/ Store(c)

Next == \E c \in Callers : Step(c)

Spec == Init /\ [][Next]_vars

-----------------------------------------------------------------------------
(* Properties.                                                              *)

Steps == {"idle", "check_lookup", "check_symbols", "check_types", "prefer",
          "resolve", "open", "load", "query", "store"}

CachesTyped ==
  /\ lookupCache \in [Images -> [Names -> {NotCached} \cup SUBSET Names]]
  /\ \A i \in Images : \A n \in Names :
       lookupCache[i][n] \in {NotCached, {}, {n}}
  /\ symbolCache \in [Images -> {NotCached} \cup SUBSET Names]
  /\ typeCache \in [Images -> {NotCached} \cup SUBSET Names]

TypeOK ==
  /\ CachesTyped
  /\ pdbs \subseteq Images /\ session \in {Nobody} \cup Callers
  /\ loaded \subseteq Names
  /\ pc \in [Callers -> Steps] /\ req \in [Callers -> {Nobody} \cup Requests]
  /\ stage \in [Callers -> Ops] /\ out \in [Callers -> SUBSET Names]
  /\ calls \in [Callers -> 0 .. MaxCalls]

\* A thread asks DbgHelp about modules exactly while the session is its own:
\* no two threads are between SymInitialize and SymCleanup, and no path out
\* of a call leaves the session open, which would fail every later call.
SessionOwned ==
  \A c \in Callers : pc[c] \in {"load", "query"} <=> session = c

\* Whatever calls fail or get in each other's way, a cached list has all
\* exports of its image, and a cached lookup of an export is not a miss.
CachesComplete ==
  \A i \in Images :
    /\ symbolCache[i] # NotCached => Exports[i] \subseteq symbolCache[i]
    /\ \A n \in Exports[i] : lookupCache[i][n] \in {NotCached, {n}}

=============================================================================
