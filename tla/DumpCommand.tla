----------------------------- MODULE DumpCommand ------------------------------
(***************************************************************************)
(* The dump command (commands/dump/execute.rs): from an image and a target *)
(* to one report.  The target is resolved in the image by address, ordinal *)
(* or name; a table, data or an import slot has a report of its own; a     *)
(* function that starts with a jump is followed (reconstruction/thunk.rs), *)
(* within the image or into another one, where the command starts again.   *)
(*                                                                         *)
(* An image is its exports in table order, its PDB symbols, what its RVAs  *)
(* hold and how addresses map to them.  Text is one event of the output,   *)
(* whatever it says, and a JSON document another.                          *)
(***************************************************************************)
EXTENDS Integers, Sequences

CONSTANTS
  Library,   \* image name, as the user and import tables write it -> image
  DumpRequests,  \* the requests considered
  KmdfNames, \* names in the table of KMDF functions
  MaxChain,  \* images a follow goes through: 16 in the code
  MaxHops    \* jumps followed in one image: 8 in the code

VARIABLES
  wanted,   \* the options
  phase,    \* what is done next
  chain,    \* the images and functions dumped so far, the current one last
  target,   \* the RVA being dumped and its name
  out,      \* what was written, without repetitions of text
  shown,    \* image, RVA and name of the report
  verdict   \* "running", "ok" or "error"

dumpVars == <<wanted, phase, chain, target, out, shown, verdict>>

NoAddress == [source |-> "none", value |-> 0]
NoTarget == [rva |-> 0, name |-> [k |-> "none"]]
Current == chain[Len(chain)]
Image == Library[Current.dll]
Name(n) == [k |-> "name", n |-> n]

-----------------------------------------------------------------------------
(* Thunks.                                                                  *)

\* There is a jump at r that continues a chain of jumps, hops.
IsThunk(image, r, hops) ==
  Len(hops) < MaxHops /\ (\A n \in DOMAIN hops : hops[n] # r) /\ r \in image.code \cap DOMAIN image.jumps

\* The jump at r, after hops, is within the image and to another.
GoesOn(image, r, hops) ==
  LET jump == image.jumps[r]
  IN jump.k = "jmp" /\ jump.to \in image.backed /\ IsThunk(image, jump.to, Append(hops, r))

\* Where one jump leads.
Link(image, r) ==
  LET jump == image.jumps[r]
  IN IF jump.k = "jmp" THEN [k |-> "direct", to |-> jump.to]
     ELSE IF jump.to \in DOMAIN image.slots THEN [k |-> "import", to |-> image.slots[jump.to]]
     ELSE [k |-> "unresolved"]

\* What control at r in the image comes to, if r holds a jump.  Of a chain only the
\* second link is looked at, whether it is the last or the chain goes on.
Thunk(image, r) ==
  IF ~ IsThunk(image, r, << >>) THEN [k |-> "none"]
  ELSE IF ~ GoesOn(image, r, << >>) THEN Link(image, r)
  ELSE LET to == image.jumps[r].to
       IN [k |-> "chain", final |-> IF GoesOn(image, to, <<r>>) THEN [k |-> "chain"] ELSE Link(image, to)]

-----------------------------------------------------------------------------
(* Addresses: a value and how the user says it is meant, if he does.        *)

Meant(image, source, value) ==
  CASE source = "va" -> {image.va[v] : v \in {value} \cap DOMAIN image.va}
    [] source = "rva" -> {value} \cap image.mapped
    [] source = "file" -> {image.file[v] : v \in {value} \cap DOMAIN image.file}

\* The first meaning that maps: virtual address, RVA, file offset.
AddressMeans(image, spec) ==
  LET first(s) == Meant(image, s, spec.value)
  IN IF spec.source # "auto" THEN first(spec.source)
     ELSE IF first("va") # {} THEN first("va")
     ELSE IF first("rva") # {} THEN first("rva")
     ELSE first("file")

\* An address stands for the function around it.
FunctionAround(image, rva) == IF rva \in DOMAIN image.begin THEN image.begin[rva] ELSE rva
NameAt(image, rva) ==
  LET at == {n \in DOMAIN image.exports : image.exports[n].rva = rva}
      known == {n \in DOMAIN image.symbols : image.symbols[n].rva = rva}
  IN IF at # {} THEN Name(image.exports[CHOOSE n \in at : \A m \in at : n <= m].name)
     ELSE IF known # {} THEN Name(image.symbols[CHOOSE n \in known : \A m \in known : n <= m].name)
     ELSE [k |-> "fn", n |-> rva]

-----------------------------------------------------------------------------
(* Resolution: in this order, and the first that has an answer, or an      *)
(* error, decides.  An answer is an RVA and a name, or an error.           *)

Answer(rva, name) == [k |-> "found", rva |-> rva, name |-> name]
Failure == [k |-> "error"]

ByAddress(image, spec, hint) ==
  LET means == AddressMeans(image, spec)
  IN IF means = {} THEN Failure
     ELSE LET rva == FunctionAround(image, CHOOSE r \in means : TRUE)
          IN Answer(rva, IF hint.k \in {"none", "address"} THEN NameAt(image, rva) ELSE hint)

ByOrdinal(image) ==
  LET found == {n \in DOMAIN image.exports : image.exports[n].ordinal = wanted.ordinal}
  IN IF found = {} THEN Failure
     ELSE LET e == image.exports[CHOOSE n \in found : \A m \in found : n <= m]
          IN Answer(e.rva, Name(e.name))

ByEntry(image, rva, name) ==
  IF rva = 0 \/ rva \notin image.backed THEN Failure ELSE Answer(rva, name)

FirstNamed(list, n) ==
  LET found == {m \in DOMAIN list : list[m].name = n}
  IN IF found = {} THEN 0 ELSE CHOOSE m \in found : \A o \in found : m <= o

ByExport(image, n) ==
  LET e == image.exports[FirstNamed(image.exports, n)]
  IN IF e.forward /\ ~ wanted.noForward THEN Failure ELSE Answer(e.rva, Name(n))

SlotsNamed(image, n) == {s \in DOMAIN image.slots : image.slots[s].func = Name(n)}

\* A name: the export table, the PDB, the import slots, the KMDF table.
ByName(image, n) ==
  IF FirstNamed(image.exports, n) # 0 THEN ByExport(image, n)
  ELSE IF wanted.pdb /\ FirstNamed(image.symbols, n) # 0
    THEN Answer(image.symbols[FirstNamed(image.symbols, n)].rva, Name(n))
  ELSE IF SlotsNamed(image, n) # {}
    THEN Answer(CHOOSE s \in SlotsNamed(image, n) : \A t \in SlotsNamed(image, n) : s <= t, Name(n))
  ELSE IF wanted.xrefs /\ n \in KmdfNames THEN Answer(0, Name(n))
  ELSE [k |-> "unknown"]

ResolveFunction(image, func) ==
  IF wanted.at # NoAddress THEN ByAddress(image, wanted.at, func)
  ELSE IF wanted.ordinal > 0 THEN ByOrdinal(image)
  ELSE CASE func.k = "entry" -> ByEntry(image, image.entry, func)
         [] func.k = "rentry" ->
              ByEntry(image, IF image.main # 0 THEN image.main ELSE image.entry, func)
         [] func.k = "name" -> ByName(image, func.n)
         [] func.k \in {"address", "sub"} -> ByAddress(image, func.at, func)

-----------------------------------------------------------------------------

DumpInit ==
  /\ wanted \in DumpRequests
  /\ phase = "enter" /\ chain = << >> /\ target = NoTarget /\ out = << >>
  /\ shown = [dll |-> "none", rva |-> 0, name |-> NoTarget.name] /\ verdict = "running"

Says(kind, when) ==
  IF when /\ ~ (kind = "text" /\ out # << >> /\ out[Len(out)] = "text") THEN Append(out, kind) ELSE out
Document == IF wanted.json THEN "json" ELSE "text"

Abort == phase' = "end" /\ verdict' = "error"
Goto(s) == phase' = s /\ UNCHANGED verdict

\* A dump of one image begins unless it was begun before, in any letter case, or
\* too many were.
EntersAgain(dll, func) ==
  \/ Len(chain) >= MaxChain
  \/ \E n \in DOMAIN chain : chain[n].folded = Library[dll].folded /\ chain[n].func = func
Enter(dll, func) ==
  IF dll \notin DOMAIN Library \/ EntersAgain(dll, func) THEN Abort /\ UNCHANGED chain
  ELSE /\ chain' = Append(chain, [dll |-> dll, func |-> func, folded |-> Library[dll].folded])
       /\ Goto("describe")

\* The command line names the function apart or behind the image.
Start ==
  /\ phase = "enter"
  /\ LET func == IF wanted.func.k = "none" THEN wanted.behind ELSE wanted.func
     IN IF func.k = "missing" THEN Abort /\ UNCHANGED chain ELSE Enter(wanted.dll, func)
  /\ UNCHANGED <<wanted, target, out, shown>>

\* Mutant: the section table is printed in every mode.
TablesAlways == wanted.eat \/ wanted.sections

\* What is written before the target is looked for.
Tables == wanted.eat \/ (wanted.sections /\ ~ wanted.json)

\* With no target the tables are the report.
OnlyMetadata == Current.func.k = "none" /\ wanted.at = NoAddress /\ wanted.ordinal = 0
Describe ==
  /\ phase = "describe"
  /\ LET table == Says("text", Tables)
     IN IF OnlyMetadata
        THEN /\ out' = IF wanted.json THEN Append(table, "json") ELSE table
             /\ phase' = "end" /\ verdict' = "ok"
        ELSE out' = table /\ Goto("resolve")
  /\ UNCHANGED <<wanted, chain, target, shown>>

\* Only a name that is nowhere is reported in the output, in JSON mode too.
ResolveTarget ==
  /\ phase = "resolve"
  /\ LET answer == ResolveFunction(Image, Current.func)
     IN /\ out' = Says("text", answer.k = "unknown" \/ (answer.k = "found" /\ ~ wanted.json))
        /\ IF answer.k = "found"
           THEN target' = [rva |-> answer.rva, name |-> answer.name] /\ Goto("show")
           ELSE Abort /\ UNCHANGED target
  /\ UNCHANGED <<wanted, chain, shown>>

Show(rva, name) == shown' = [dll |-> Current.dll, rva |-> rva, name |-> name]
Report ==
  /\ out' = Says(Document, TRUE) /\ Show(target.rva, target.name)
  /\ phase' = "end" /\ verdict' = "ok"

\* References to a KMDF function, an import slot and data have reports of their own.
IsKmdf == wanted.xrefs /\ target.rva = 0 /\ target.name.k = "name" /\ target.name.n \in KmdfNames
IsSlot == target.rva \in DOMAIN Image.slots
ShowOther ==
  /\ phase = "show"
  /\ \/ IsKmdf /\ Report
     \/ ~ IsKmdf /\ IsSlot /\ Report
     \/ /\ ~ IsKmdf /\ ~ IsSlot /\ target.rva \notin Image.code
        /\ IF target.rva \in Image.backed THEN Report ELSE Abort /\ UNCHANGED <<out, shown>>
  /\ UNCHANGED <<wanted, chain, target>>

Moved(rva) ==
  /\ IF rva \in Image.backed THEN target' = [target EXCEPT !.rva = rva] /\ Goto("report")
     ELSE Abort /\ UNCHANGED target
  /\ UNCHANGED chain

\* The other image is dumped with the options of this one.
Into(to) ==
  /\ Enter(to.dll, to.func)
  /\ target' = NoTarget

\* Mutant: only single jumps are followed.
FollowResultSingle(thunk) ==
  CASE thunk.k = "import" -> Into(thunk.to)
    [] thunk.k = "direct" -> Moved(thunk.to)
    [] thunk.k \in {"none", "unresolved", "chain"} -> Goto("report") /\ UNCHANGED <<chain, target>>

\* A chain is followed when its second link is the last.
FollowResult(thunk) ==
  LET last == IF thunk.k = "chain" THEN thunk.final ELSE thunk
  IN CASE last.k = "import" -> Into(last.to)
       [] last.k = "direct" -> Moved(last.to)
       [] last.k \in {"none", "unresolved", "chain"} -> Goto("report") /\ UNCHANGED <<chain, target>>

FollowThunk ==
  /\ phase = "show" /\ ~ IsKmdf /\ ~ IsSlot /\ target.rva \in Image.code
  /\ IF target.rva \notin Image.backed THEN Abort /\ UNCHANGED <<chain, target, out>>
     ELSE LET thunk == Thunk(Image, target.rva)
          IN /\ out' = Says("text", wanted.follow /\ thunk.k # "none" /\ ~ wanted.json)
             /\ IF wanted.follow THEN FollowResult(thunk)
                ELSE Goto("report") /\ UNCHANGED <<chain, target>>
  /\ UNCHANGED <<wanted, shown>>

\* The function is decoded and described; a mapped image that cannot be compared, or
\* a file that cannot be written, ends the command before it is printed.
ReportFunction ==
  /\ phase = "report"
  /\ IF wanted.fails THEN Abort /\ UNCHANGED <<out, shown>> ELSE Report
  /\ UNCHANGED <<wanted, chain, target>>

DumpNext == Start \/ Describe \/ ResolveTarget \/ ShowOther \/ FollowThunk \/ ReportFunction
DumpSpec == DumpInit /\ [][DumpNext]_dumpVars

-----------------------------------------------------------------------------
(* Where control really goes.                                               *)

Spot(dll, rva) == [dll |-> dll, rva |-> rva]
Exported(to) == FirstNamed(Library[to.dll].exports, to.func.n)

\* One jump, as the processor and the loader take it.
Jumps(p) == p.rva \in Library[p.dll].code /\ p.rva \in DOMAIN Library[p.dll].jumps
Bound(p) ==
  LET jump == Library[p.dll].jumps[p.rva]
  IN jump.k # "jmp" =>
       /\ jump.to \in DOMAIN Library[p.dll].slots
       /\ Library[p.dll].slots[jump.to].dll \in DOMAIN Library
       /\ Exported(Library[p.dll].slots[jump.to]) # 0
Destination(p) ==
  LET image == Library[p.dll]
      jump == image.jumps[p.rva]
      to == image.slots[jump.to]
  IN IF jump.k = "jmp" THEN Spot(p.dll, jump.to)
     ELSE Spot(to.dll, Library[to.dll].exports[Exported(to)].rva)
\* Control stays where there is no jump that can be taken.
Hop(p) == IF Jumps(p) /\ Bound(p) THEN Destination(p) ELSE p
Trail(first) ==
  LET t[n \in 0 .. MaxChain * MaxHops] == IF n = 0 THEN first ELSE Hop(t[n - 1]) IN t

\* Images whose code is apart from their import slots and not at RVA 0, imports that
\* are read as names, and limits that let three jumps be told from two.
SoundLibrary ==
  /\ MaxChain \in Nat \ {0} /\ MaxHops \in Nat /\ MaxHops >= 3
  /\ \A d \in DOMAIN Library :
       LET image == Library[d]
       IN /\ 0 \notin image.code /\ image.code \cap DOMAIN image.slots = {}
          /\ \A s \in DOMAIN image.slots : image.slots[s].func.k = "name"

Answered(n) == ResolveFunction(Library[chain[n].dll], chain[n].func)
First == Spot(chain[1].dll, Answered(1).rva)
Nested(n) ==
  LET thunk == Thunk(Library[chain[n].dll], Answered(n).rva)
  IN thunk.k = "chain" /\ thunk.final.k = "chain"
Landed == Trail(First)[MaxChain * MaxHops]

\* A dump of a named function that follows thunks, and ends at code, ends where
\* the first thunk leads, in this image or another, if control comes to an end
\* there at all and no chain of jumps has three links.  An address or an ordinal is
\* carried over into the other image, where it means another function.
FollowsToDestination ==
  /\ verdict = "ok" /\ wanted.follow /\ ~ OnlyMetadata
  /\ wanted.at = NoAddress /\ wanted.ordinal = 0
  /\ shown.rva \in Library[shown.dll].code
  /\ (\A n \in DOMAIN chain : ~ Nested(n)) /\ ~ Jumps(Landed)
  => Spot(shown.dll, shown.rva) = Landed

\* A dump that ends well writes one report: with --json one document and nothing
\* besides it, unless a table was asked for, which is always written as text.  A
\* dump that fails writes no document.
OneDocument ==
  /\ verdict = "ok" /\ wanted.json /\ ~ wanted.eat => out = <<"json">>
  /\ verdict = "ok" /\ ~ wanted.json => out = <<"text">> \/ OnlyMetadata
  /\ verdict = "error" => \A n \in DOMAIN out : out[n] # "json"

\* A dump of a function ends where its thunks lead, and with --json its document is
\* alone.
DumpIsFaithful == FollowsToDestination /\ OneDocument

=============================================================================
