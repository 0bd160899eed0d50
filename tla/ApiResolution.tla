--------------------------- MODULE ApiResolution ---------------------------
(***************************************************************************)
(* Dynamic API resolution: the fixpoint of analyze                         *)
(* (analysis/resolution/mod.rs) over the interpretation of one function    *)
(* (analysis/resolution/machine.rs).                                       *)
(*                                                                         *)
(* A function is a few slots in address order.  A slot is one pointer: the *)
(* call or load it comes from and all that becomes of it, stores into      *)
(* globals, a return, a call through it.  A slot is also the site of the   *)
(* resolution made there and names it (ResId).  Loader-list and export     *)
(* walks, module handles, the decoding of names and the labels of the      *)
(* report are left out: they ride on the same summaries and tables.        *)
(***************************************************************************)
EXTENDS Naturals

CONSTANTS
  Functions,  \* the discovered functions, by address
  Slots,      \* the slots of a function, in address order
  Globals,    \* the writable globals
  MaxRounds,  \* MAX_ROUNDS, the re-interpretation rounds after the first pass
  Programs,   \* the images to analyse
  Horizon,    \* the steps of the reference flow
  None,       \* no pointer, summary or table entry
  Param       \* the summary of a function that resolves for its callers

Sites == Functions \X Slots

\* op is what the pointer comes from: "get" is GetProcAddress, "call" the
\* function fn, "load" the global va.  name is the API name passed on: a text
\* or the function's own parameter.  "jump" is an indirect call or tail jump.
Instructions ==
  [op : {"nop", "get", "call", "load"}, name : {"text", "param"}, fn : Functions,
   va : Globals, stores : SUBSET Globals, ends : SUBSET {"return", "jump"}]

ASSUME ProgramAssumption ==
  /\ Functions \subseteq Nat /\ Slots \subseteq Nat
  /\ MaxRounds \in Nat /\ Horizon \in Nat
  /\ Programs \subseteq [Sites -> Instructions]
  /\ None \notin Sites /\ Param \notin Sites /\ None # Param

VARIABLES
  program,    \* the image
  facts,      \* Facts of every function
  summaries,  \* ctx.summaries
  table,      \* ctx.global_api
  dirty,      \* the functions the current round revisits
  round,      \* the rounds begun
  phase,      \* "start", "tables", "revisit", "settled" or "cut", "reported"
  targets     \* the report: site of a call through a pointer -> resolution

vars == <<program, facts, summaries, table, dirty, round, phase, targets>>

-----------------------------------------------------------------------------
(* Interpreting one function.                                              *)

ResIds == Sites \cup {None}

\* ran: interpreted, not only profiled.  api: the pointer of each slot.  res:
\* the resolution recorded there.  loads: the globals read while unknown.
FactsType ==
  [ran : BOOLEAN, api : [Slots -> ResIds], res : [Slots -> {"none", "named", "param"}],
   loads : SUBSET Globals]

Op(f, k) == program[<<f, k>>].op
Fn(f, k) == program[<<f, k>>].fn
Va(f, k) == program[<<f, k>>].va

\* A function that calls a loader API is interpreted at once.
Candidate(f) == \E k \in Slots : Op(f, k) = "get"

\* profile: the loads are all the globals the function touches.
Profile(f) ==
  [ran |-> FALSE, api |-> [k \in Slots |-> None], res |-> [k \in Slots |-> "none"],
   loads |-> {g \in Globals : \E k \in Slots : \/ Op(f, k) = "load" /\ Va(f, k) = g
                                               \/ g \in program[<<f, k>>].stores}]

\* A call of a function that resolves for its callers resolves here; of any
\* other summarized function, it returns that function's pointer.
CallsResolver(f, k) == Op(f, k) = "call" /\ summaries[Fn(f, k)] = Param

Resolves(f, k) == Op(f, k) = "get" \/ CallsResolver(f, k)

Pointer(f, k) ==
  IF Resolves(f, k) THEN <<f, k>>
  ELSE IF Op(f, k) = "call" THEN summaries[Fn(f, k)]
  ELSE IF Op(f, k) = "load" THEN table[Va(f, k)]
  ELSE None

\* The load of a known global is answered before it is recorded.
UnknownLoads(f) ==
  {g \in Globals : table[g] = None /\ \E k \in Slots : Op(f, k) = "load" /\ Va(f, k) = g}

\* Machine::run under the current summaries and table.
Run(f) ==
  [ran |-> TRUE,
   api |-> [k \in Slots |-> Pointer(f, k)],
   res |-> [k \in Slots |-> IF ~Resolves(f, k) THEN "none"
                            ELSE IF program[<<f, k>>].name = "param" THEN "param" ELSE "named"],
   loads |-> UnknownLoads(f)]

\* Mutant: a profile has no callees.
CalleesOfInterpreted(f) ==
  {c \in Functions : facts[f].ran /\ \E k \in Slots : Op(f, k) = "call" /\ Fn(f, k) = c}

\* A profile leaves out calls of the function itself.
Callees(f) ==
  {c \in Functions : (facts[f].ran \/ c # f) /\ \E k \in Slots : Op(f, k) = "call" /\ Fn(f, k) = c}

-----------------------------------------------------------------------------
(* What a round makes of the facts.                                        *)

\* Mutant: any pointer of the function counts as returned.
ReturnedAnything(f) == {k \in Slots : facts[f].api[k] # None}

Returned(f) == {k \in Slots : "return" \in program[<<f, k>>].ends /\ facts[f].api[k] # None}

FirstReturned(f) == {k \in Returned(f) : \A j \in Returned(f) : k <= j}

OnBehalf(f, id) == id[1] = f /\ facts[f].res[id[2]] = "param"

\* Mutant: a function that returns several pointers is not summarized.
SummarizeUnique(f) ==
  LET ids == {facts[f].api[k] : k \in Returned(f)}
  IN  IF \E id \in ids : ids = {id}
      THEN LET id == CHOOSE id \in ids : TRUE IN IF OnBehalf(f, id) THEN Param ELSE id
      ELSE None

\* The first pointer a function returns decides its summary.
Summarize(f) ==
  IF FirstReturned(f) = {} THEN None
  ELSE LET id == facts[f].api[CHOOSE k \in FirstReturned(f) : TRUE]
       IN  IF OnBehalf(f, id) THEN Param ELSE id

Before(s, t) == s[1] < t[1] \/ (s[1] = t[1] /\ s[2] <= t[2])

Writers(g) == {s \in Sites : g \in program[s].stores /\ facts[s[1]].api[s[2]] # None}

FirstWriters(g) == {s \in Writers(g) : \A t \in Writers(g) : Before(s, t)}

\* The first writer in address order decides what a global holds.
Entry(g) ==
  IF FirstWriters(g) = {} THEN None
  ELSE LET s == CHOOSE s \in FirstWriters(g) : TRUE IN facts[s[1]].api[s[2]]

ChangedFunctions == {f \in Functions : Summarize(f) # summaries[f]}

\* An entry that is gone is not a change.
ChangedGlobals == {g \in Globals : Entry(g) # None /\ Entry(g) # table[g]}

Changed == ChangedFunctions # {} \/ ChangedGlobals # {}

-----------------------------------------------------------------------------
(* The analysis.                                                           *)

Init ==
  /\ program \in Programs
  /\ facts = [f \in Functions |-> Profile(f)]
  /\ summaries = [f \in Functions |-> None]
  /\ table = [g \in Globals |-> None]
  /\ dirty = {} /\ round = 0
  /\ phase = "start"
  /\ targets = [s \in Sites |-> None]

FirstPass ==
  /\ phase = "start"
  /\ facts' = [f \in Functions |-> IF Candidate(f) THEN Run(f) ELSE Profile(f)]
  /\ phase' = "tables"
  /\ UNCHANGED <<program, summaries, table, dirty, round, targets>>

\* The head of a round: new summaries and globals, and whom they concern.
UpdateTables ==
  /\ phase = "tables" /\ round < MaxRounds /\ Changed
  /\ summaries' = [f \in Functions |-> Summarize(f)]
  /\ table' = [g \in Globals |-> Entry(g)]
  /\ dirty' = {f \in Functions : \/ Callees(f) \cap ChangedFunctions # {}
                                 \/ facts[f].loads \cap ChangedGlobals # {}}
  /\ round' = round + 1
  /\ phase' = "revisit"
  /\ UNCHANGED <<program, facts, targets>>

Revisit ==
  /\ phase = "revisit"
  /\ facts' = [f \in Functions |-> IF f \in dirty THEN Run(f) ELSE facts[f]]
  /\ dirty' = {}
  /\ phase' = "tables"
  /\ UNCHANGED <<program, summaries, table, round, targets>>

Settle ==
  /\ phase = "tables" /\ round < MaxRounds /\ ~Changed
  /\ phase' = "settled"
  /\ UNCHANGED <<program, facts, summaries, table, dirty, round, targets>>

\* The last round has run; what it changed is not looked at.
CutShort ==
  /\ phase = "tables" /\ round = MaxRounds
  /\ phase' = "cut"
  /\ UNCHANGED <<program, facts, summaries, table, dirty, round, targets>>

\* The resolution a slot's call goes through: a global unknown when the
\* function was interpreted is looked up in the table now.
Through(f, k) ==
  IF Op(f, k) = "load" /\ facts[f].api[k] = None THEN table[Va(f, k)] ELSE facts[f].api[k]

\* Resolutions on a caller's behalf are reported at the callers.
IsReported(id) == id # None /\ facts[id[1]].res[id[2]] = "named"

Target(f, k) ==
  IF facts[f].ran /\ "jump" \in program[<<f, k>>].ends /\ IsReported(Through(f, k))
  THEN Through(f, k) ELSE None

Report ==
  /\ phase \in {"settled", "cut"}
  /\ targets' = [s \in Sites |-> Target(s[1], s[2])]
  /\ phase' = "reported"
  /\ UNCHANGED <<program, facts, summaries, table, dirty, round>>

Next == FirstPass \/ UpdateTables \/ Revisit \/ Settle \/ CutShort \/ Report

Spec == Init /\ [][Next]_vars

-----------------------------------------------------------------------------

\* The types of all variables.
TypeOK ==
  /\ program \in [Sites -> Instructions]
  /\ facts \in [Functions -> FactsType]
  /\ summaries \in [Functions -> ResIds \cup {Param}]
  /\ table \in [Globals -> ResIds]
  /\ dirty \in SUBSET Functions /\ round \in 0 .. MaxRounds
  /\ phase \in {"start", "tables", "revisit", "settled", "cut", "reported"}
  /\ targets \in [Sites -> ResIds]

\* The pointer of t goes on to s: through a global, or by a return.
Feeds(image, t, s) ==
  \/ image[s].op = "load" /\ image[s].va \in image[t].stores
  \/ image[s].op = "call" /\ image[s].fn = t[1] /\ "return" \in image[t].ends

\* The <<site, resolution>> pairs that can be when the image runs, given the pairs
\* P: a call of a function that returns what it resolves for its callers is a
\* resolution itself.
Flow(image, P) ==
  {<<s, s>> : s \in {s \in Sites : image[s].op = "get"}}
  \cup {<<x[1], x[2][2]>> : x \in {x \in Sites \X P : Feeds(image, x[2][1], x[1])}}
  \cup {<<s, s>> : s \in {s \in Sites : image[s].op = "call" /\ \E p \in P :
       /\ Feeds(image, p[1], s)
       /\ p[2][1] = p[1][1] /\ image[p[2]].name = "param"}}

Closed(image, P) == Flow(image, P) \subseteq P

\* Horizon steps of the flow: in a small image, all there is.
Reach(image) ==
  LET R[n \in Nat] == IF n = 0 THEN {} ELSE Flow(image, R[n - 1]) IN R[Horizon]

\* The API reported for an indirect call is one that the pointer can hold there:
\* stale summaries and globals, wherever they come from, mislabel no call.
TargetsReachable ==
  \A s \in Sites : targets[s] # None =>
    LET P == Reach(program) IN Closed(program, P) => <<s, targets[s]>> \in P

\* Nothing is missed by revisiting the dirty functions only: one that would find a
\* pointer under the last summaries and table has been interpreted and has one.
NothingMissed ==
  phase \in {"settled", "cut", "reported"} =>
    \A s \in Sites : Pointer(s[1], s[2]) # None =>
      facts[s[1]].ran /\ facts[s[1]].api[s[2]] # None

\* No round loses a summary or a global that an earlier one had found, so that
\* entries that are gone need not be looked for.
NothingForgotten ==
  [][/\ \A f \in Functions : summaries[f] # None => summaries'[f] # None
     /\ \A g \in Globals : table[g] # None => table'[g] # None]_vars

\* "every resolver call with [...] the call sites through the result": a call
\* through a global that holds a reported resolution is one of its call sites.
CallsThroughGlobals ==
  phase = "reported" /\ round < MaxRounds =>
    \A s \in Sites :
      /\ program[s].op = "load" /\ "jump" \in program[s].ends
      /\ IsReported(table[program[s].va])
      => targets[s] # None

=============================================================================
