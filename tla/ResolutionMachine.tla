---------------------------- MODULE ResolutionMachine ----------------------------
(***************************************************************************)
(* What is shown of the arguments of a call beside the prototype of an API *)
(* (resx/src/analysis/resolution/machine.rs, driven by call_arguments): an *)
(* interpreter passes over a function once, in address order, with what a  *)
(* register or a stack slot is rather than what it holds: a constant, an   *)
(* address in the frame, a parameter, an import, a module or an API that   *)
(* was looked up, the PEB, and the structures of an image that are reached *)
(* from a module base.  Where a branch may arrive it starts with nothing.  *)
(* After the pass the processor (external) runs the function.              *)
(*                                                                         *)
(* This is the interpreter as arguments are captured with it, for x64: no  *)
(* summaries and no globals of other functions, whose fixpoint is          *)
(* ApiResolution.  A byte of a frame or text is a cell of four bytes here. *)
(* What is only noted for findings is left out, and so is decoding by      *)
(* brute force, which finds nothing without the exports of a system.       *)
(***************************************************************************)
EXTENDS Processor, SequencesExt, FiniteSetsExt, TLC

CONSTANTS
  Bodies,       \* records of code, data, apis (of slots), thunks, writable, dispatch and check
  World,        \* the objects of a process, for the run: heap, modules, parts
  CapturedArgs, \* CAPTURED_ARGS: 12
  StackLimit,   \* STACK_LIMIT
  TextRoom,     \* of a buffer whose end is not known: 256
  ShownRoom,    \* of a text in the frame that is shown: 512
  LongestName,  \* MAX_NAME: 128
  ShortestText, \* of the texts that are shown: 3
  Letters,      \* the cells that a text is made of
  ImageEnd      \* the image goes from CodeEnd to here

VARIABLES
  body,
  place,    \* the next instruction
  machine,  \* what is known before it
  ended,    \* after_terminator
  shown,    \* call_args
  known,    \* what was known before each instruction (kept for the properties only)
  cpu       \* the run

vars == <<body, place, machine, ended, shown, known, cpu>>

-----------------------------------------------------------------------------
(* Values: Num for constants, Val("local", d) for addresses in the frame.    *)

GPRs == Registers \cup {"rbp"}
ByRegister == <<"rcx", "rdx", "r8", "r9">>

Nothing == Val("unknown", 0)
Encoded(c) == Val("enc", c)
Data(blobs) == Val("data", blobs)
Of(k, n) == [k |-> k, n |-> n]

\* A name: a text, and how it was found; a parameter; or not known.
Text(how, text) == [how |-> how, text |-> text]
NoName == Text("unknown", << >>)
Module(name) == Of("module", <<"loader", name>>)
SelfImage == Of("module", <<"self", NoName>>)
Walked == Of("module", <<"walk", NoName>>)

InCode(pc) == pc \in 1 .. Len(body.code)
InImage(va) == va \in CodeEnd .. ImageEnd - 1
ImportSlot(va) == va \in DOMAIN body.apis

\* stack_value
InFrame(d) == d \in 1 - StackLimit .. StackLimit - 1
Local(d) == IF InFrame(d) THEN Val("local", d) ELSE Nothing

\* Layout: the offsets of the structures that are walked.
TebSelf == 48
TebPeb == 96
PebImageBase == 16
PebLdr == 24
ListHeads == <<16, 32, 48>>
EntryLinks == <<0, 16, 32>>
EntryBase == 48
NewHeader == 60
ExportDirectory == 136
ImportDirectory == 144
FunctionArray == 28

-----------------------------------------------------------------------------
(* The machine: registers with the identity of what they hold, the frame as *)
(* slots and as cells, what image data flowed where, the buffers whose      *)
(* address was taken, and the names of the APIs looked up, by their calls.   *)

Fresh ==
  [regs |-> [r \in GPRs |-> IF r \in Arguments
                            THEN Val("param", (CHOOSE i \in 1 .. 4 : ByRegister[i] = r) - 1) ELSE Nothing],
   ids |-> [r \in GPRs |-> <<r, 0>>], next |-> 0, sp |-> 0,
   slots |-> [o \in {40 + 8 * i : i \in 0 .. 3} |-> Val("param", 4 + (o - 40) \div 8)],
   bytes |-> << >>, regions |-> {}, buffers |-> {}, named |-> << >>]

Without(f, S) == [x \in DOMAIN f \ S |-> f[x]]
CellsOf(at, size) == {at + 4 * j : j \in 0 .. size \div 4 - 1}

Read(m, r) == IF r = "rsp" THEN Val("local", m.sp) ELSE m.regs[r]
NoId == <<"none", 0>>
Id(m, r) == IF r \in GPRs THEN m.ids[r] ELSE NoId

\* set: a value of its own has a fresh identity, a copy the one it is a copy of.
SetAs(m, r, v, id) ==
  IF r # "rsp" THEN [m EXCEPT !.regs[r] = v, !.ids[r] = id]
  ELSE IF v.k = "local" THEN [m EXCEPT !.sp = v.n[1]] ELSE m
Set(m, r, v) == [SetAs(m, r, v, <<"fresh", m.next>>) EXCEPT !.next = @ + 1]

\* loc
Place(m, o) ==
  LET indexed == o.index # "none"
      global(va, i) == [at |-> "global", va |-> va, indexed |-> i]
      base == Read(m, o.reg)
  IN  CASE o.reg = "gs" -> [at |-> "segment", disp |-> o.disp]
        [] o.reg \in {"rip", "none"} -> global(o.disp, indexed)
        [] o.reg \in GPRs /\ base.k = "local" ->
             IF InFrame(base.n[1] + o.disp)
             THEN [at |-> "stack", off |-> base.n[1] + o.disp, indexed |-> indexed] ELSE global(-1, indexed)
        [] o.reg \in GPRs /\ base.k = "num" /\ InImage(base.n[1]) -> global(base.n[1] + o.disp, indexed)
        [] o.reg \in GPRs /\ base.k \in {"num", "unknown", "data"} /\ ~ (base.k = "num" /\ InImage(base.n[1]))
             /\ InImage(o.disp) -> global(o.disp, TRUE)
        [] OTHER ->
             [at |-> "field", base |-> base, id |-> Id(m, o.reg), disp |-> o.disp,
              index |-> IF indexed THEN {[value |-> Read(m, o.index), id |-> Id(m, o.index), scale |-> o.scale]} ELSE {}]

-----------------------------------------------------------------------------
(* Loads                                                                    *)

LoadStack(m, off, size) ==
  LET cells == CellsOf(off, size) IN
  IF off \in DOMAIN m.slots THEN m.slots[off]
  ELSE IF \A o \in cells : o \in DOMAIN m.bytes /\ m.bytes[o].k = "num"
  THEN Num(FoldSet(LAMBDA o, sum : sum + m.bytes[o].n[1] * (IF o = off THEN 1 ELSE Half), 0, cells))
  ELSE Nothing

Tainted(blobs) == IF blobs = {} THEN Nothing ELSE Data(blobs)
LoadBuffer(m, off) ==
  Tainted(UNION {g.blobs : g \in {g \in m.regions : g.start <= off /\ off < g.end}})

LoadGlobal(va, size, indexed) ==
  IF ~ indexed /\ ImportSlot(va) THEN Val("import", va)
  ELSE IF ~ indexed /\ va \in body.writable THEN (IF size = 8 THEN Val("global", va) ELSE Nothing)
  ELSE IF InImage(va) THEN Data({va}) ELSE Nothing

\* The loader's lists: PEB, PEB_LDR_DATA, their links, and the entries.
Listed(disp) ==
  LET lists == {i \in 1 .. 3 : ListHeads[i] = disp} IN
  IF lists = {} THEN Nothing ELSE Val("link", Min(lists))
InWalk(p) ==
  /\ p.index = {}
  /\ \/ p.base.k = "teb" /\ p.disp = TebPeb
     \/ p.base.k = "peb" /\ p.disp \in {PebLdr, PebImageBase}
     \/ p.base.k \in {"ldr", "link"}
LoadWalk(base, disp) ==
  CASE base.k = "teb" -> Val("peb", 0)
    [] base.k = "peb" -> IF disp = PebLdr THEN Val("ldr", 0) ELSE SelfImage
    [] base.k = "ldr" -> Listed(disp)
    [] base.k = "link" ->
         IF disp \in {0, 8} THEN base
         ELSE IF disp + EntryLinks[base.n[1]] = EntryBase THEN Walked ELSE Nothing

\* The headers of an image, as one register or as two that are added up in an
\* address: v belongs to the module whose base has the identity b.
Sum(p, k) ==
  {v \in {p.base} : \E x \in p.index : v.k = k /\ x.scale = 1 /\ x.id = v.n[Len(v.n)]}
  \cup {x.value : x \in {x \in p.index : x.value.k = k /\ x.scale = 1 /\ p.id = x.value.n[Len(x.value.n)]}}
Whose(p, whole, part) ==
  (IF p.base.k = whole /\ p.index = {} THEN {p.base} ELSE {}) \cup Sum(p, part)

DirectoryAt(disp) ==
  IF disp = ExportDirectory THEN {"export"} ELSE IF disp = ImportDirectory THEN {"import"} ELSE {}
\* DataDirectory[index] does not say which directory it is.
AnyDirectory(p) ==
  {v \in {p.base} : v.k = "headers" /\ p.disp = ExportDirectory /\ \E x \in p.index : x.scale = 8}

LoadHeaders(p) ==
  {Of("dirrva", <<d, v.n[1]>>) : d \in DirectoryAt(p.disp), v \in Whose(p, "headers", "lfanew")}
  \cup {Of("dirrva", <<"any", v.n[1]>>) : v \in AnyDirectory(p)}
LoadDirectory(p) ==
  {Val("arrayrva", v.n[2]) : v \in {v \in Whose(p, "dir", "dirrva") : v.n[1] # "import" /\ p.disp = FunctionArray}}

Found(values) == IF values = {} THEN Nothing ELSE CHOOSE v \in values : TRUE

PointerLike == {"module", "param", "unknown", "global", "api"}
LoadImage(p, size) ==
  IF p.index = {} /\ p.disp = NewHeader /\ size = 4 /\ p.base.k \in PointerLike THEN Val("lfanew", p.id)
  ELSE IF Whose(p, "headers", "lfanew") \cup AnyDirectory(p) # {} THEN Found(LoadHeaders(p))
  ELSE IF Whose(p, "dir", "dirrva") # {} THEN Found(LoadDirectory(p))
  ELSE IF p.base.k = "array" /\ \E x \in p.index : x.scale = 4 THEN Val("funcrva", p.base.n[1])
  ELSE IF p.base.k = "data" THEN p.base
  ELSE Found({x.value : x \in {x \in p.index : x.value.k = "data"}})

LoadField(p, size) == IF InWalk(p) THEN LoadWalk(p.base, p.disp) ELSE LoadImage(p, size)

LoadFrom(m, p, size) ==
  CASE p.at = "segment" -> IF p.disp = TebPeb THEN Val("peb", 0) ELSE IF p.disp = TebSelf THEN Val("teb", 0) ELSE Nothing
    [] p.at = "stack" -> IF p.indexed THEN LoadBuffer(m, p.off) ELSE LoadStack(m, p.off, size)
    [] p.at = "global" -> LoadGlobal(p.va, size, p.indexed)
    [] p.at = "field" -> LoadField(p, size)

OperandOf(m, o) ==
  CASE o.kind = "reg" -> Read(m, o.reg)
    [] o.kind = "imm" -> Num(o.disp)
    [] o.kind = "mem" -> LoadFrom(m, Place(m, o), o.size)
    [] OTHER -> Nothing

-----------------------------------------------------------------------------
(* Stores                                                                   *)

CellsFor(v, off, size) ==
  IF v.k \notin {"num", "enc"} THEN << >>
  ELSE [o \in CellsOf(off, size) |-> Val(v.k, IF o = off THEN v.n[1] % Half ELSE v.n[1] \div Half)]
Region(v, start, end) ==
  IF v.k = "data" THEN {[start |-> start, end |-> end, blobs |-> v.n[1]]} ELSE {}
\* Mutant: what a store overlaps in part is kept.
StoreOverWhole(m, off, size, v) ==
  [m EXCEPT !.bytes = CellsFor(v, off, size) @@ Without(@, CellsOf(off, size)),
            !.regions = @ \cup Region(v, off, off + size),
            !.slots = (off :> v) @@ @]
StoreOnStack(m, off, size, v) ==
  [m EXCEPT !.bytes = CellsFor(v, off, size) @@ Without(@, CellsOf(off, size)),
            !.regions = @ \cup Region(v, off, off + size),
            !.slots = (off :> v) @@ Without(@, {o \in DOMAIN @ : off < o + 8 /\ o < off + size})]

\* A store that is indexed leaves the frame as it was, but for where image data may be.
StoreTo(m, p, size, v) ==
  IF p.at # "stack" THEN m
  ELSE IF p.indexed THEN [m EXCEPT !.regions = @ \cup Region(v, p.off, StackLimit)]
  ELSE StoreOnStack(m, p.off, size, v)
Assign(m, o, v) == IF o.kind = "reg" THEN Set(m, o.reg, v) ELSE StoreTo(m, Place(m, o), o.size, v)

-----------------------------------------------------------------------------
(* Arithmetic                                                               *)

Word(n) == n % Modulus(8)

\* mix: what is computed from data of the image is that data; a constant with an
\* unknown value is encoded.
Blobs(v) == IF v.k = "data" THEN v.n[1] ELSE {}
Mix(a, b) ==
  IF "data" \in {a.k, b.k} THEN Data(Blobs(a) \cup Blobs(b))
  ELSE IF a.k = "enc" THEN a
  ELSE IF a.k = "num" /\ b.k \in {"unknown", "param", "enc"} THEN Encoded(a.n[1])
  ELSE Nothing

\* add_values: an offset and the base that it is an offset from.
Based == [lfanew |-> "headers", dirrva |-> "dir", arrayrva |-> "array", funcrva |-> "export"]
\* Mutant: an offset and any base are added up.
OffsetFromAny(v, id) == v.k \in DOMAIN Based
OffsetFrom(v, id) == v.k \in DOMAIN Based /\ v.n[Len(v.n)] = id

AddValues(a, aId, b, bId) ==
  CASE a.k = "num" /\ b.k = "num" -> Num(Word(a.n[1] + b.n[1]))
    [] a.k = "local" /\ b.k = "num" -> Local(a.n[1] + Signed(b.n[1], 8))
    [] a.k = "num" /\ b.k = "local" -> Local(b.n[1] + Signed(a.n[1], 8))
    [] a.k = "ldr" /\ b.k = "num" -> Listed(b.n[1])
    [] OffsetFrom(a, bId) -> [a EXCEPT !.k = Based[a.k]]
    [] OffsetFrom(b, aId) /\ ~ OffsetFrom(a, bId) -> [b EXCEPT !.k = Based[b.k]]
    [] OTHER -> Mix(a, b)

\* address
AddressWithout(base, disp) ==
  CASE base.k = "local" -> Local(base.n[1] + disp)
    [] base.k = "num" -> Num(Word(base.n[1] + disp))
    [] base.k = "ldr" -> Listed(disp)
    [] OTHER -> IF disp = 0 THEN base ELSE Nothing
Address(m, o) ==
  LET base == IF o.reg \in {"none", "rip"} THEN Num(0) ELSE Read(m, o.reg) IN
  IF o.index = "none" \/ o.reg = "rip" THEN AddressWithout(base, o.disp)
  ELSE IF o.scale = 1 /\ o.disp = 0 THEN AddValues(base, Id(m, o.reg), Read(m, o.index), Id(m, o.index))
  ELSE Nothing

\* arith, on two constants
BitOr(x, y) == x + y - BitAnd(x, y)
Bits(op, x, y) ==
  Word(CASE op = "and" -> BitAnd(x, y) [] op = "or" -> BitOr(x, y) [] op = "xor" -> BitOr(x, y) - BitAnd(x, y)
         [] op = "shl" -> x * 2^(y % (2 * HalfBits)) [] op = "shr" -> x \div 2^(y % (2 * HalfBits)) [] op = "sub" -> x - y)

Arith(op, a, aId, b, bId, same) ==
  LET constants == a.k = "num" /\ b.k = "num" IN
  CASE op \in {"xor", "sub"} /\ same -> Num(0)
    [] op = "add" -> AddValues(a, aId, b, bId)
    [] op \in {"sub", "xor", "and", "or", "shl", "shr"} /\ ~ same /\ constants -> Num(Bits(op, a.n[1], b.n[1]))
    [] op = "sub" /\ a.k = "local" /\ b.k = "num" -> Local(a.n[1] - Signed(b.n[1], 8))
    [] op = "and" /\ a.k = "local" -> a
    [] op \in {"and", "or", "shl", "shr"} /\ ~ constants /\ ~ (op = "and" /\ a.k = "local") ->
         IF a.k = "data" THEN a ELSE Nothing
    [] OTHER -> Mix(a, b)

Narrow(v, size) == IF v.k = "num" THEN Num(v.n[1] % Modulus(size)) ELSE v

\* alu
Combining == {"add", "sub", "xor", "and", "or", "shl", "shr", "imul"}
AluValue(m, i) ==
  LET a == Read(m, i.a.reg)
      same == i.b.kind = "reg" /\ i.b.reg = i.a.reg
  IN  CASE i.op \in {"not", "neg"} -> Mix(a, Nothing)
        [] i.op \in {"inc", "dec"} -> Mix(a, Num(1))
        [] i.op \in Combining -> Arith(i.op, a, Id(m, i.a.reg), OperandOf(m, i.b), IF i.b.kind = "reg" THEN Id(m, i.b.reg) ELSE NoId, same)
Alu(m, i) == Set(m, i.a.reg, Narrow(AluValue(m, i), i.a.size))

\* generic: what an instruction writes that is not modelled.
RegistersOf(o) == {o.reg, o.index} \cap GPRs
Generic(m, i) ==
  LET inRegisters == {Read(m, r) : r \in RegistersOf(i.a) \cup RegistersOf(i.b)}
      inMemory == {OperandOf(m, o) : o \in {o \in {i.a, i.b} : o.kind = "mem"}}
      blobs == UNION {Blobs(v) : v \in inRegisters \cup inMemory}
      encoded == {v \in inRegisters : v.k = "enc"}
  IN  IF i.a.kind \notin {"reg", "mem"} THEN m
      ELSE Assign(m, i.a, IF blobs # {} THEN Data(blobs) ELSE Found(encoded))

-----------------------------------------------------------------------------
(* step, but for calls                                                      *)

Slot(m, off) == IF off \in DOMAIN m.slots THEN m.slots[off] ELSE Nothing

Pushed(m, v) ==
  [m EXCEPT !.sp = @ - 8, !.bytes = Without(@, CellsOf(m.sp - 8, 8)), !.slots = (m.sp - 8 :> v) @@ @]
Popped(m, o) ==
  LET up == [m EXCEPT !.sp = @ + 8] IN IF o.kind = "reg" THEN Set(up, o.reg, Slot(m, m.sp)) ELSE up

MoveTo(m, i) ==
  IF i.a.kind = "mem" THEN StoreTo(m, Place(m, i.a), i.a.size, OperandOf(m, i.b))
  ELSE IF i.b.kind = "reg" THEN SetAs(m, i.a.reg, Read(m, i.b.reg), Id(m, i.b.reg))
  ELSE Set(m, i.a.reg, OperandOf(m, i.b))

TakeAddress(m, i) ==
  LET v == Address(m, i.b)
      buffer == IF v.k = "local" /\ i.b.index = "none" THEN {v.n[1]} ELSE {}
  IN  Set([m EXCEPT !.buffers = @ \cup buffer], i.a.reg, v)

Exchanged(m, a, b) == SetAs(SetAs(m, a, Read(m, b), Id(m, b)), b, Read(m, a), Id(m, a))

Stepped(m, i) ==
  CASE i.op = "push" -> Pushed(m, OperandOf(m, i.a))
    [] i.op = "pop" -> Popped(m, i.a)
    [] i.op = "leave" -> Popped(SetAs(m, "rsp", Read(m, "rbp"), Id(m, "rbp")), Reg("rbp", 8))
    [] i.op = "mov" -> MoveTo(m, i)
    [] i.op = "lea" -> TakeAddress(m, i)
    [] i.op = "xchg" -> Exchanged(m, i.a.reg, i.b.reg)
    [] i.op \in Combining \cup {"not", "neg", "inc", "dec"} ->
         IF i.a.kind = "reg" THEN Alu(m, i) ELSE Generic(m, i)
    [] i.op \in {"cmp", "test", "ret"} \cup Conditional -> m
    [] OTHER -> Generic(m, i)

-----------------------------------------------------------------------------
(* Names                                                                    *)

\* terminated: the text that cells begin with, when its end is among them.
Terminated(cells) ==
  LET ends == {n \in 1 .. Min({Len(cells), LongestName + 1}) : cells[n] = 0}
  IN  IF ends = {} \/ \E n \in 1 .. Min(ends) - 1 : cells[n] \notin Letters THEN << >>
      ELSE SubSeq(cells, 1, Min(ends) - 1)

\* The cells from an address on, up to a limit or to the first that is not of these kinds.
Run(cells, kinds, from, to) ==
  LET stops == {n \in 0 .. (to - from) \div 4 + 1 :
                  LET o == from + 4 * n IN o >= to \/ o \notin DOMAIN cells \/ cells[o].k \notin kinds}
  IN  [n \in 1 .. Min(stops) |-> cells[from + 4 * (n - 1)].n[1]]

Literal(va) == Terminated(Run(body.data, {"num"}, va, ImageEnd))

\* stack_name: the immediates that were stored in a buffer, or the nearest text of the
\* image that flowed into it.
LimitOf(m, d) == Min({d + TextRoom} \cup {b \in m.buffers : b > d})
Flowed(m, d) ==
  UNION {{<<IF g.start < d THEN d - g.start ELSE g.start - d, va>> : va \in {va \in g.blobs : Literal(va) # << >>}}
         : g \in {g \in m.regions : g.start < LimitOf(m, d) /\ d < g.end}}
Nearest(pairs) == CHOOSE p \in pairs : \A q \in pairs : p[1] < q[1] \/ (p[1] = q[1] /\ p[2] <= q[2])
StackName(m, d) ==
  LET plain == Run(m.bytes, {"num"}, d, LimitOf(m, d))
      cipher == Run(m.bytes, {"num", "enc"}, d, LimitOf(m, d))
  IN  IF plain = cipher /\ Terminated(plain) # << >> THEN Text("built", Terminated(plain))
      ELSE IF Flowed(m, d) # {} THEN Text("copied", Literal(Nearest(Flowed(m, d))[2])) ELSE NoName

\* name_of
NameOf(m, v) ==
  CASE v.k = "num" /\ InImage(v.n[1]) -> IF Literal(v.n[1]) = << >> THEN NoName ELSE Text("literal", Literal(v.n[1]))
    [] v.k = "local" -> StackName(m, v.n[1])
    [] OTHER -> NoName

-----------------------------------------------------------------------------
(* Calls                                                                    *)

\* The value of an argument.
ArgOf(m, n) == IF n < 4 THEN m.regs[ByRegister[n + 1]] ELSE Slot(m, m.sp + 32 + 8 * (n - 4))

\* captured: what is shown of it.
Shown(text, k, n) == IF Len(text) >= ShortestText THEN Of("text", text) ELSE Of(k, n)
CapturedValue(m, v) ==
  CASE v.k = "num" /\ InImage(v.n[1]) -> Shown(Literal(v.n[1]), "image", v.n[1])
    [] v.k = "num" /\ ~ InImage(v.n[1]) -> Of("int", v.n[1])
    [] v.k = "local" -> Shown(Terminated(Run(m.bytes, {"num"}, v.n[1], v.n[1] + ShownRoom)), "stack", v.n[1])
    [] v.k = "api" -> Of("api", m.named[v.n[1]])
    [] v.k = "module" -> IF v.n[1] = "self" THEN Of("self", 0) ELSE Of("module", v.n[2])
    [] v.k \in {"import", "param", "global"} -> Of(v.k, v.n[1])
    [] OTHER -> Of("unknown", 0)
Captured(m) == [n \in 1 .. CapturedArgs |-> CapturedValue(m, ArgOf(m, n - 1))]
StackEscaped(m) == \E n \in 0 .. CapturedArgs - 1 : ArgOf(m, n).k = "local"

\* target: an import, through its slot, a register or a stub; the check of a target;
\* or something else.
Through(v) == IF v.k = "import" THEN v ELSE Of("value", 0)
TargetOf(m, i) ==
  LET p == Place(m, i.a)
      global == i.a.kind = "mem" /\ p.at = "global" /\ ~ p.indexed
  IN  CASE i.op \in {"call", "jmp"} ->
             IF i.a.disp \in DOMAIN body.thunks THEN Val("import", body.thunks[i.a.disp]) ELSE Of("internal", i.a.disp)
        [] global /\ p.va = body.check -> Of("check", 0)
        [] global /\ p.va = body.dispatch -> Through(Read(m, "rax"))
        [] OTHER -> Through(OperandOf(m, i.a))

\* loader: what a call returns.  The ones that return through a pointer are among the
\* others: what they store there is forgotten with the frame that it points into.
Loaders == {"GetModuleHandle", "LoadLibrary", "GetProcAddress"}
KindOf(t) == IF t.k = "import" THEN body.apis[t.n[1]] ELSE "other"
Returns(m, kind) ==
  CASE kind = "GetModuleHandle" /\ Read(m, "rcx").k = "num" /\ Read(m, "rcx").n[1] = 0 -> SelfImage
    [] kind = "GetProcAddress" -> Val("api", place)
    [] kind \in {"GetModuleHandle", "LoadLibrary"} -> Module(NameOf(m, Read(m, "rcx")))
    [] OTHER -> Nothing
Named(m, kind) ==
  IF kind = "GetProcAddress" THEN (place :> NameOf(m, Read(m, "rdx"))) @@ m.named ELSE m.named

\* Mutant: a call leaves the frame as it was.
LeftWhole(m) == m
\* What may have been written through an argument.
Left(m) == IF StackEscaped(m) THEN [m EXCEPT !.slots = << >>, !.bytes = << >>, !.regions = {}] ELSE m

SetAll(m, registers, v) == FoldSet(LAMBDA r, n : Set(n, r, v), m, registers)
AfterCall(m, kind) ==
  Set(SetAll([Left(m) EXCEPT !.named = Named(m, kind)], Volatile, Nothing), "rax", Returns(m, kind))
Called(m, i) ==
  LET t == TargetOf(m, i) IN IF t.k = "check" THEN m ELSE AfterCall(m, KindOf(t))

\* A jump that leaves the function is a call; one through a table does not.
Leaves(i) ==
  \/ i.op \in {"call", "calli"}
  \/ i.op = "jmp" /\ ~ InCode(i.a.disp)
  \/ i.op = "jmpi" /\ ~ (i.a.kind = "mem" /\ i.a.index # "none")

-----------------------------------------------------------------------------
(* run                                                                      *)

\* call_arguments: the stubs that are known are those that are called.
Init ==
  /\ body \in Bodies
  /\ place = 1 /\ machine = Fresh /\ ended = FALSE /\ shown = << >> /\ known = << >> /\ cpu = {}

Passing == InCode(place)
Instruction == body.code[place]
Targets == {i.a.disp : i \in {i \in ToSet(body.code) : i.op \in Conditional \cup {"jmp"}}}

\* Mutant: constants of one predecessor are kept where a branch arrives.
ForgottenAtEnds(m) == IF ended THEN [m EXCEPT !.regs = [r \in GPRs |-> Nothing], !.slots = << >>] ELSE m
\* Where a branch may arrive, and after a terminator, nothing is known but the frame.
Forgotten(m) ==
  IF ended \/ place \in Targets
  THEN [m EXCEPT !.regs = [r \in GPRs |-> Nothing], !.slots = << >>, !.bytes = << >>, !.regions = {}]
  ELSE m

\* equality_guard, of the instruction before.
Guard(i) ==
  IF i.a.kind # "reg" THEN {}
  ELSE IF i.op = "cmp" /\ i.b.kind = "imm" THEN {Num(i.b.disp)}
  ELSE IF i.op = "test" /\ i.b.kind = "reg" /\ i.b.reg = i.a.reg THEN {Num(0)} ELSE {}
\* A jump that is not taken only when two values are equal says what a register holds.
Guarded(m) ==
  LET before == body.code[place - 1] IN
  IF Instruction.op # "jne" \/ place = 1 \/ Guard(before) = {} THEN m
  ELSE Set(m, before.a.reg, Found(Guard(before)))

Advance(m) ==
  /\ place' = place + 1 /\ known' = Append(known, m)
  /\ ended' = (Instruction.op \in {"ret", "jmp", "jmpi"})
  /\ UNCHANGED <<body, cpu>>

CallStep(m) ==
  /\ Leaves(Instruction)
  /\ machine' = Called(m, Instruction)
  /\ shown' = (place :> Captured(m)) @@ shown
PlainStep(m) ==
  /\ ~ Leaves(Instruction)
  /\ machine' = Guarded(IF Instruction.op \in {"jmp", "jmpi"} THEN m ELSE Stepped(m, Instruction))
  /\ UNCHANGED shown

Pass == Passing /\ \E m \in {Forgotten(machine)} : Advance(m) /\ (CallStep(m) \/ PlainStep(m))

-----------------------------------------------------------------------------
(* A run of the function (external).  The frame is cells of four bytes: a    *)
(* number, or one half of something else.  What a function is given the      *)
(* address of it may write, until it returns.                               *)

LowOf(c) == IF c.k = "num" THEN Num(c.n[1] % Half) ELSE [k |-> "low", of |-> c]
HighOf(c) == IF c.k = "num" THEN Num(c.n[1] \div Half) ELSE [k |-> "high", of |-> c]
Whole(low, high) ==
  IF low.k = "num" /\ high.k = "num" THEN Num(low.n[1] + Half * high.n[1])
  ELSE IF low.k = "low" /\ high.k = "high" /\ low.of = high.of THEN low.of ELSE Junk
CellAt(cells, at) == IF at \in DOMAIN cells THEN cells[at] ELSE Junk
HeldAt(cells, at, size) == IF size = 4 THEN CellAt(cells, at) ELSE Whole(CellAt(cells, at), CellAt(cells, at + 4))
WithCells(cells, at, size, c) ==
  (IF size = 4 THEN at :> LowOf(c) ELSE (at :> LowOf(c)) @@ (at + 4 :> HighOf(c))) @@ cells

InData(at, size) == IF ImportSlot(at) THEN Val("slot", at) ELSE HeldAt(body.data, at, size)

\* Registers and stack arguments at the start, and the places of a process.
GivenTo(odd) == [n \in 0 .. 7 |-> Num(40 + 3 * n + (IF odd THEN 1 ELSE 0))]
Start ==
  /\ ~ Passing /\ cpu = {}
  /\ \E given \in {GivenTo(odd) : odd \in BOOLEAN} :
       cpu' = {[pc |-> 1, heap |-> World.heap, flags |-> Unknown, given |-> given, strayed |-> FALSE,
                mem |-> FoldSet(LAMBDA n, cells : WithCells(cells, 8 + 8 * n, 8, given[n]), << >>, 4 .. 7),
                regs |-> [r \in GPRs \cup {"gs"} |->
                            IF r \in Arguments THEN given[(CHOOSE n \in 0 .. 3 : ByRegister[n + 1] = r)]
                            ELSE IF r = "gs" THEN Val("teb", 0) ELSE IF r = "rsp" THEN Val("local", 0) ELSE Junk]]}
  /\ UNCHANGED <<body, place, machine, ended, shown, known>>

\* The place that an instruction loads from or stores to.
Touched(i) ==
  CASE i.op = "push" -> Mem("rsp", -8, 8)
    [] i.op = "pop" -> Mem("rsp", 0, 8)
    [] i.op = "leave" -> Mem("rbp", 0, 8)
    [] OTHER -> IF i.a.kind = "mem" THEN i.a ELSE i.b

Ones(size) == Modulus(size) - 1
One(op, x, size) ==
  CASE op = "not" -> Ones(size) - x [] op = "neg" -> Modulus(size) - x [] op = "inc" -> x + 1 [] op = "dec" -> x + Ones(size)
ComputedBy(i, x, y) ==
  LET m == Modulus(i.a.size) IN
  IF x.k # "num" THEN Junk
  ELSE IF i.op \in {"not", "neg", "inc", "dec"} THEN Num(One(i.op, x.n[1] % m, i.a.size) % m)
  ELSE IF y.k # "num" THEN Junk ELSE Num(Bits(i.op, x.n[1] % m, y.n[1] % m) % m)

\* What Moved does not know: an offset that is added to a pointer, and operations on bits.
MovedBy(s, i, data) ==
  LET x == ValueOf(s, data, i.a)
      y == ValueOf(s, data, i.b)
  IN  CASE i.op = "xchg" -> SetReg(SetReg(s, i.a.reg, 8, y), i.b.reg, 8, x)
        [] i.op = "leave" -> Moved(SetReg(s, "rsp", 8, s.regs["rbp"]), Ins("pop", Reg("rbp", 8), None), data)
        [] i.op = "add" /\ i.a.kind = "reg" /\ x.k # "num" /\ y.k = "num" -> Put(s, i.a, Val(x.k, x.n[1] + Signed(y.n[1], 8)))
        [] i.op = "add" /\ i.a.kind = "reg" /\ x.k = "num" /\ y.k # "num" -> Put(s, i.a, Val(y.k, y.n[1] + x.n[1]))
        [] i.op \in {"not", "neg", "inc", "dec", "or", "shl"} \/ (i.op = "xor" /\ i.a # i.b) ->
             [Put(s, i.a, ComputedBy(i, x, y)) EXCEPT !.flags = Unknown]
        [] OTHER -> Moved(s, i, data)

Executed(s, i) ==
  LET o == Touched(i)
      at == AddressOf(s, o)
      framed == (o.kind = "mem") /\ at.k = "local"
      frame == IF framed THEN at.n[1] :> [size |-> o.size, value |-> HeldAt(s.mem, at.n[1], o.size)] ELSE << >>
      data == IF o.kind = "mem" /\ at.k = "num" THEN at.n[1] :> InData(at.n[1], o.size) ELSE << >>
      r == MovedBy([s EXCEPT !.mem = frame], i, data)
  IN  [r EXCEPT !.mem = IF r.mem = frame THEN s.mem ELSE WithCells(s.mem, at.n[1], o.size, r.mem[at.n[1]].value)]

\* The text behind a pointer, and the module that has it for a name.
TextBehind(s, c) ==
  CASE c.k = "num" -> Literal(c.n[1])
    [] c.k = "local" -> Terminated(Run(s.mem, {"num"}, c.n[1], c.n[1] + 4 * LongestName + 4))
    [] OTHER -> << >>
Modules == {World.modules[t] : t \in DOMAIN World.modules}
Loaded(text) == IF text \in DOMAIN World.modules THEN Val(World.modules[text], 0) ELSE Num(0)

ResultsOf(s, kind) ==
  LET first == s.regs["rcx"] IN
  CASE kind = "GetModuleHandle" /\ first = Num(0) -> {Val(World.self, 0)}
    [] kind = "GetProcAddress" -> {IF first.k \in Modules THEN Of("api", TextBehind(s, s.regs["rdx"])) ELSE Num(0)}
    [] kind = "LoadLibrary" \/ (kind = "GetModuleHandle" /\ first # Num(0)) -> {Loaded(TextBehind(s, first))}
    [] OTHER -> {Num(0), Num(33)}

\* The function that is called: through a slot or a stub, or one that is not known.
Callee(s, i) ==
  LET c == IF i.op \in {"call", "jmp"} THEN Num(i.a.disp)
           ELSE IF i.a.kind = "reg" THEN s.regs[i.a.reg]
           ELSE IF i.a.reg = "rip" /\ i.a.disp = body.dispatch THEN s.regs["rax"]
           ELSE LET at == AddressOf(s, i.a) IN IF at.k = "num" THEN InData(at.n[1], 8) ELSE Junk
  IN  CASE c.k = "slot" -> body.apis[c.n[1]]
        [] c.k = "num" /\ c.n[1] \in DOMAIN body.thunks -> body.apis[body.thunks[c.n[1]]]
        [] OTHER -> "other"
Checks(i) == i.op = "calli" /\ i.a.kind = "mem" /\ i.a.reg = "rip" /\ i.a.disp = body.check

PassedAt(s, n, size) ==
  IF n < 4 THEN RegValue(s, ByRegister[n + 1], size)
  ELSE HeldAt(s.mem, s.regs["rsp"].n[1] + 32 + 8 * (n - 4), size)
AfterReturn(s, result) ==
  LET sp == s.regs["rsp"].n[1]
      written == \E n \in 0 .. CapturedArgs - 1 : PassedAt(s, n, 8).k = "local"
  IN  [s EXCEPT !.pc = @ + 1, !.flags = Unknown,
                !.regs = [r \in DOMAIN @ |-> IF r = "rax" THEN result ELSE IF r \in Volatile THEN Junk ELSE @[r]],
                !.mem = IF written THEN << >> ELSE Restricted(@, {o \in DOMAIN @ : o >= sp + 32})]

\* The states after an instruction; none after the last.  A run strays where a jump
\* through a table joins code that the instruction above falls into and that no other
\* jump leads to.
Falls(to) == InCode(to) /\ to \notin Targets /\ to > 1 /\ body.code[to - 1].op \notin {"ret", "jmp", "jmpi"}
Tables(s, i) ==
  LET at == AddressOf(s, i.a) IN
  IF i.a.kind = "reg" THEN {s.regs[i.a.reg]} ELSE IF at.k = "num" THEN {InData(at.n[1], 8)} ELSE {}
Far(s, i) == {[s EXCEPT !.pc = v.n[1], !.strayed = @ \/ Falls(v.n[1])] : v \in {v \in Tables(s, i) : v.k \in {"num", "code"}}}
After(s, i) ==
  CASE i.op = "ret" -> {}
    [] i.op = "jmpi" -> Far(s, i)
    [] i.op = "jmp" -> {[s EXCEPT !.pc = i.a.disp]}
    [] i.op \in Conditional -> {[s EXCEPT !.pc = IF t THEN i.a.disp ELSE @ + 1] : t \in Outcomes(i.op, s.flags)}
    [] i.op \in {"call", "calli"} ->
         IF Checks(i) THEN {[s EXCEPT !.pc = @ + 1]} ELSE {AfterReturn(s, c) : c \in ResultsOf(s, Callee(s, i))}
    [] OTHER -> {[Executed(s, i) EXCEPT !.pc = @ + 1]}

RunStep ==
  /\ \E s \in cpu : \E t \in After(s, body.code[s.pc]) : InCode(t.pc) /\ cpu' = {t}
  /\ UNCHANGED <<body, place, machine, ended, shown, known>>

Next == Pass \/ Start \/ RunStep
Spec == Init /\ [][Next]_vars

-----------------------------------------------------------------------------
(* Properties                                                               *)

\* Where a structure of an image lies in it.
PartOf(k, c) ==
  CASE k = "headers" -> {World.parts[c.k].headers}
    [] k = "array" -> {World.parts[c.k].array}
    [] k = "export" -> World.parts[c.k].functions
    [] k = "dir" -> World.parts[c.k].directories

\* A value means what a register or a cell holds, when the stack pointer of the run is
\* further down by this much: the lower half of a number, and pointers whole.
Means(s, shift, v, low) ==
  CASE v.k = "num" -> low = Num(v.n[1] % Half)
    [] v.k = "param" -> low = LowOf(s.given[v.n[1]])
    [] v.k = "global" -> low = LowOf(InData(v.n[1], 8))
    [] v.k = "import" -> low = LowOf(Val("slot", v.n[1]))
    [] v.k = "local" -> low = LowOf(Val("local", v.n[1] + shift))
    [] v.k \in {"teb", "peb", "ldr"} -> low = LowOf(Val(v.k, 0))
    [] v.k = "link" -> low.k = "low" /\ low.of.n[1] = (IF low.of.k = "ldr" THEN ListHeads ELSE EntryLinks)[v.n[1]]
    [] v.k = "module" /\ v.n[1] = "self" -> low = LowOf(Val(World.self, 0))
    [] v.k = "module" /\ v.n[1] = "walk" -> low.k = "low" /\ low.of.k \in Modules /\ low.of.n[1] = 0
    [] v.k = "module" /\ v.n[1] = "loader" /\ v.n[2].how \in {"built", "literal"} -> low = LowOf(Loaded(v.n[2].text))
    [] v.k \in {"headers", "dir", "array", "export"} ->
         low.k = "low" /\ low.of.k \in Modules => low.of.n[1] \in PartOf(v.k, low.of)
    [] OTHER -> TRUE

\* What is known before an instruction is so on every path that comes to it, for the
\* registers and the frame above the stack pointer.
StateMeans(s, m) ==
  LET shift == s.regs["rsp"].n[1] - m.sp IN
  /\ \A r \in GPRs \ {"rsp"} : Means(s, shift, m.regs[r], LowOf(s.regs[r]))
  /\ \A o \in {o \in DOMAIN m.slots : o >= m.sp} : Means(s, shift, m.slots[o], CellAt(s.mem, o + shift))
  /\ \A o \in {o \in DOMAIN m.bytes : o >= m.sp} : m.bytes[o].k = "num" => CellAt(s.mem, o + shift) = m.bytes[o]

\* What is shown of an argument: of a number, its lower half.
Tells(s, shift, a, c, low) ==
  CASE a.k = "int" -> low = Num(a.n % Half)
    [] a.k = "image" -> c = Num(a.n)
    [] a.k = "text" -> TextBehind(s, c) = a.n
    [] a.k = "stack" -> c = Val("local", a.n + shift)
    [] a.k = "self" -> c = Val(World.self, 0)
    [] a.k = "module" -> a.n.how \in {"built", "literal"} => c = Loaded(a.n.text)
    [] a.k = "api" -> a.n.how \in {"built", "literal"} => c \in {Num(0), Of("api", a.n.text)}
    [] a.k = "import" -> c = Val("slot", a.n)
    [] a.k = "param" -> low = LowOf(s.given[a.n])
    [] a.k = "global" -> c = InData(a.n, 8)
    [] OTHER -> TRUE
\* At a jump that leaves the function the arguments on the stack are read at the wrong place.
CallTells(s) ==
  LET shift == s.regs["rsp"].n[1] - known[s.pc].sp
      judged == IF body.code[s.pc].op \in {"call", "calli"} THEN 1 .. CapturedArgs ELSE 1 .. 4
  IN  \A n \in judged : Tells(s, shift, shown[s.pc][n], PassedAt(s, n - 1, 8), LowOf(PassedAt(s, n - 1, 4)))

\* Every value that the interpreter knows is the one that the processor has there, and
\* what is shown of the arguments of a call is what the call is made with, round loops
\* too.  A path is left out once it has come through a jump table to code that is
\* otherwise only fallen into: machine.rs:527 says that annotations "must not inherit
\* one predecessor's constants at a join", but forgets at the targets of direct
\* branches only (machine.rs:530).
ValuesAreHeld ==
  \A s \in cpu : ~ s.strayed => /\ StateMeans(s, known[s.pc])
                                /\ s.pc \in DOMAIN shown => CallTells(s)

=============================================================================
