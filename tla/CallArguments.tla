------------------------------ MODULE CallArguments ------------------------------
(***************************************************************************)
(* The arguments of the calls that a driver makes to functions it imports  *)
(* (resx/src/analysis/driver/calls.rs and calls/device.rs): the decoded    *)
(* instructions are passed over once, in address order, with what is known *)
(* of registers and locals; what a jump forwards knows waits at its        *)
(* target, where it is intersected with what falls through.  After the     *)
(* pass the processor runs each function (external), to be compared.       *)
(*                                                                         *)
(* An import is its slot; programs give the signatures of the functions    *)
(* behind the slots, and the lengths of the texts in the image.            *)
(***************************************************************************)
EXTENDS Processor, SequencesExt, FiniteSetsExt, TLC

CONSTANTS
  Listings,       \* records of code, owners (of each instruction), data, apis and texts
  EvidenceLimit,  \* of the calls that are listed: 1024
  LocalLimit,     \* of the locals that are known: 256
  OperandLimit,   \* of an expression (128 characters)
  OidQuery        \* IOCTL_NDIS_QUERY_GLOBAL_STATS

VARIABLES
  listing,
  place, known,  \* the next instruction; the state before it
  linked,        \* next_rva
  owner,         \* current_owner
  forwards,      \* forward_states
  evidence,
  cpu            \* the run

vars == <<listing, place, known, linked, owner, forwards, evidence, cpu>>

-----------------------------------------------------------------------------
(* Values, with the instruction they come from.  A symbolic value is an     *)
(* expression over arguments and numbers.                                   *)

Nothing == [k |-> "nothing", n |-> << >>]
Value(k, n, site) == [k |-> k, n |-> <<n, site>>]
Argument(i, width, site) == [k |-> "arg", n |-> <<i, width, site>>]
Symbolic(op, x, y, site) == [k |-> "sym", n |-> <<op, x, y, site>>]

Low(v) ==
  CASE v.k = "num" -> Value("num", v.n[1] % Half, v.n[2])
    [] v.k = "arg" -> Argument(v.n[1], 4, v.n[3])
    [] v.k = "sym" -> v
    [] OTHER -> Nothing

Sized(v, size) == IF size = 4 THEN Low(v) ELSE v

RECURSIVE Operands(_)
Operands(e) == IF Len(e) = 2 THEN 1 ELSE Operands(e[2]) + Operands(e[3])

\* symbolic_text, symbolic_binary, symbolic_min
Text(v) == CASE v.k = "num" -> <<"num", v.n[1]>> [] v.k = "arg" -> <<"arg", v.n[1]>> [] OTHER -> SubSeq(v.n, 1, 3)
Combined(op, x, y, site) ==
  IF {x.k, y.k} \subseteq {"num", "arg", "sym"} /\ Operands(Text(x)) + Operands(Text(y)) <= OperandLimit
  THEN Symbolic(op, Text(x), Text(y), site) ELSE Nothing

-----------------------------------------------------------------------------
(* State                                                                    *)

Fresh == [regs |-> [r \in Registers |-> IF r = "rsp" THEN Value("local", 0, 0) ELSE Nothing],
          stack |-> << >>, compare |-> {}]

ByRegister == <<"rcx", "rdx", "r8", "r9">>
StackArguments == 4 .. 7   \* 4 .. 15

FunctionEntry(at) ==
  [Fresh EXCEPT
     !.regs = [r \in Registers |-> IF r \in Arguments THEN Argument((CHOOSE i \in 1 .. 4 : ByRegister[i] = r) - 1, 8, at) ELSE @[r]],
     !.stack = [o \in {40 + 8 * (i - 4) : i \in StackArguments} |-> [size |-> 8, value |-> Argument((o - 40) \div 8 + 4, 8, at)]]]

\* Mutant: what falls through is kept at a join.
IntersectLeft(a, b) == a

Intersect(a, b) ==
  [regs |-> [r \in Registers |-> IF a.regs[r] = b.regs[r] THEN a.regs[r] ELSE Nothing],
   stack |-> Restricted(a.stack, {o \in DOMAIN a.stack \cap DOMAIN b.stack : a.stack[o] = b.stack[o]}),
   compare |-> IF a.compare = b.compare THEN a.compare ELSE {}]

Known(st, r, size) == Sized(st.regs[r], size)

\* address
Address(st, m) ==
  IF m.reg = "rip" THEN Value("image", m.disp, place)
  ELSE IF m.index # "none" \/ m.reg = "none" THEN Nothing
  ELSE LET base == st.regs[m.reg] IN
       IF base.k \in {"local", "image"} THEN Value(base.k, base.n[1] + m.disp, place) ELSE Nothing

StoredAt(st, o, Fits(_)) == IF o \in DOMAIN st.stack /\ Fits(st.stack[o].size) THEN st.stack[o].value ELSE Nothing

\* operand
OperandValue(st, o) ==
  CASE o.kind = "reg" -> Known(st, o.reg, o.size)
    [] o.kind = "imm" -> Value("num", o.disp, place)
    [] o.kind = "mem" ->
         LET at == Address(st, o) IN
         CASE at.k = "local" -> StoredAt(st, at.n[1], LAMBDA size : size = o.size)
           [] at.k = "image" -> IF at.n[1] \in DOMAIN listing.apis THEN Value("import", at.n[1], 0)
                                ELSE Value("memory", at.n[1], place)
           [] OTHER -> Nothing
    [] OTHER -> Nothing

\* argument, argument_full
ArgumentValue(st, i, width) ==
  LET sp == st.regs["rsp"]
      full == IF i < 4 THEN st.regs[ByRegister[i + 1]]
              ELSE IF sp.k = "local" THEN StoredAt(st, sp.n[1] + 32 + 8 * (i - 4), LAMBDA size : size >= width)
              ELSE Nothing
  IN  Sized(full, width)

-----------------------------------------------------------------------------
(* step                                                                     *)

ResultValue(st, i, left, right) ==
  LET register == i.a.kind = "reg"
  IN  CASE i.op = "mov" -> right
        [] i.op = "lea" -> Address(st, i.b)
        [] i.op = "xor" /\ register /\ i.a = i.b -> Value("num", 0, place)
        [] i.op \in {"add", "sub"} /\ i.a.reg = "rsp" /\ register ->
             IF left.k = "local" /\ right.k = "num"
             THEN Value("local", left.n[1] + (IF i.op = "sub" THEN -1 ELSE 1) * Signed(right.n[1], 8), place) ELSE Nothing
        [] i.op \in {"add", "sub"} /\ register -> Combined(i.op, left, right, place)
        [] i.op = "imul" -> Combined("imul", left, right, place)
        [] i.op = "cmova" /\ st.compare = {<<left, right>>} -> Combined("min", left, right, place)
        [] OTHER -> Nothing

WritesMemory(i) == i.op = "push" \/ (i.a.kind = "mem" /\ i.op \notin {"cmp", "test"})
WritesFlags(i) == i.op \notin {"mov", "lea", "push", "pop", "cmova"}

Apart(stack, at, size) == {o \in DOMAIN stack : o + stack[o].size <= at \/ o >= at + size}

\* Mutant: a store replaces what begins at its address, not what it overlaps.
AfterStoreExact(st, i, at, value) ==
  IF ~ WritesMemory(i) THEN st.stack
  ELSE IF i.a.kind # "mem" \/ at.k # "local" THEN << >>
  ELSE (at.n[1] :> [size |-> i.a.size, value |-> value]) @@ st.stack

AfterStore(st, i, at, value) ==
  IF ~ WritesMemory(i) THEN st.stack
  ELSE IF i.a.kind # "mem" \/ at.k # "local" THEN << >>
  ELSE LET kept == Apart(st.stack, at.n[1], i.a.size)
           put == IF i.op = "mov" /\ Cardinality(kept) < LocalLimit
                  THEN at.n[1] :> [size |-> i.a.size, value |-> value] ELSE << >>
       IN  put @@ Restricted(st.stack, kept)

Written4(v) == IF v.k = "num" THEN Value("num", v.n[1] % Half, place) ELSE Low(v)

AfterRegisters(st, i, value) ==
  LET destination == IF i.a.kind = "reg" /\ i.op \notin {"cmp", "test", "push"} THEN {i.a.reg} ELSE {}
      put == IF i.a.size = 4 THEN Written4(value) ELSE value
      sp == st.regs["rsp"]
      moves == i.op \in {"push", "pop"}
      moved == IF sp.k = "local" THEN Value("local", sp.n[1] + (IF i.op = "push" THEN -8 ELSE 8), place) ELSE Nothing
  IN  [r \in Registers |->
         IF moves /\ r = "rsp" THEN moved ELSE IF r \in destination THEN put ELSE st.regs[r]]

WithResult(st, i, left, right, value) ==
  [regs |-> AfterRegisters(st, i, value), stack |-> AfterStore(st, i, Address(st, i.a), value),
   compare |-> IF i.op = "cmp" THEN {<<left, right>>} ELSE IF WritesFlags(i) THEN {} ELSE st.compare]
Compute(st, i, left, right) == WithResult(st, i, left, right, ResultValue(st, i, left, right))
Stepped(st, i) == Compute(st, i, OperandValue(st, i.a), OperandValue(st, i.b))

-----------------------------------------------------------------------------
(* Targets                                                                  *)

InCode(pc) == pc \in DOMAIN listing.code

RECURSIVE ImportOf(_, _, _)
\* imported_target: the slot that an instruction transfers to, as none or one.
ImportOf(regs, i, n) ==
  LET near == i.op \in {"call", "jmp"}
      slot(v) == IF v.k = "import" THEN {v.n[1]} ELSE {}
  IN  CASE n = 0 -> {}
        [] n > 0 /\ ~ near /\ i.a.kind = "reg" -> slot(regs[i.a.reg])
        [] n > 0 /\ ~ near /\ i.a.kind = "mem" -> IF i.a.reg = "rip" THEN {i.a.disp} \cap DOMAIN listing.apis ELSE {}
        [] n > 0 /\ near -> IF InCode(i.a.disp) /\ listing.code[i.a.disp].op \in {"jmp", "jmpi"}
                            THEN ImportOf(regs, listing.code[i.a.disp], n - 1) ELSE {}
ImportTarget(st, i) == ImportOf(st.regs, i, 8)

Calls == {pc \in DOMAIN listing.code : listing.code[pc].op = "call"}
\* resolved_thunks
IsThunk(pc) ==
  /\ listing.code[pc].op = "jmpi" /\ ImportOf(Fresh.regs, listing.code[pc], 1) # {}
  /\ \E c \in Calls : listing.code[c].a.disp = pc

SubtractsFrom(pc, r) ==
  InCode(pc) /\ LET i == listing.code[pc] IN i.op = "sub" /\ i.a = Reg("rsp", 8) /\ (r = {} \/ i.b \in r)
\* is_stack_probe_call, for what is known of RAX
ProbesStack(pc, size) ==
  LET i == listing.code[pc] IN
  i.op = "call" /\ size.k = "num" /\ SubtractsFrom(pc + 1, {Reg("rax", 8)}) /\ SubtractsFrom(i.a.disp, {})

-----------------------------------------------------------------------------
(* Calls                                                                    *)

ArgumentsOf(st, api) == [i \in DOMAIN api.args |-> ArgumentValue(st, i - 1, api.args[i].width)]

Named(api, values, name) ==
  LET at == {i \in DOMAIN values : api.args[i].name = name} IN IF at = {} THEN Nothing ELSE values[Min(at)]

\* recover_buffer_fields
Buffers == {<<"input_buffer", "input_length">>, <<"output_buffer", "output_length">>}
FieldsOf(st, buffer, base, length) ==
  IF base.k # "local" \/ length.k # "num" THEN {}
  ELSE {[buffer |-> buffer, offset |-> o - base.n[1], size |-> st.stack[o].size, value |-> st.stack[o].value]
        : o \in {o \in DOMAIN st.stack : o >= base.n[1] /\ o + st.stack[o].size <= base.n[1] + length.n[1]}}
Fields(st, api, values) ==
  UNION {FieldsOf(st, b[1], Named(api, values, b[1]), Named(api, values, b[2])) : b \in Buffers}

\* oid_value
Is(v, n) == v.k = "num" /\ v.n[1] = n
OidAt(st, from) ==
  IF from.k = "image" /\ from.n[1] \in DOMAIN listing.data THEN {listing.data[from.n[1]].n[1]}
  ELSE IF from.k # "local" THEN {}
  ELSE {v.n[1] : v \in {v \in {StoredAt(st, from.n[1], LAMBDA size : size = 4)} : v.k = "num"}}
Oid(st, api, values) ==
  IF Is(Named(api, values, "ioctl"), OidQuery) /\ Is(Named(api, values, "input_length"), 4)
  THEN OidAt(st, Named(api, values, "input_buffer")) ELSE {}

Evidence(st, slot, api, values) ==
  [site |-> place, slot |-> slot, args |-> values, fields |-> Fields(st, api, values), oid |-> Oid(st, api, values)]

\* Device functions copy the strings they are given; RtlInitUnicodeString fills its
\* destination, when that is a local and the text is known (device.rs, effects).
TextLength(source) ==
  IF source.k = "num" /\ source.n[1] = 0 THEN {0}
  ELSE IF source.k = "image" /\ source.n[1] \in DOMAIN listing.texts THEN {2 * listing.texts[source.n[1]]} ELSE {}
Unicode(at, length, room, source) ==
  (at :> [size |-> 2, value |-> length]) @@ (at + 2 :> [size |-> 2, value |-> room])
  @@ (at + 8 :> [size |-> 8, value |-> source])
Effects(api, values) ==
  LET room(n) == IF values[2].k = "num" THEN n ELSE n + 2 IN
  IF api.kind # "init" THEN {<< >>}
  ELSE IF values[1].k # "local" THEN {}
  ELSE {Unicode(values[1].n[1], Value("num", n, place), Value("num", room(n), place), values[2]) : n \in TextLength(values[2])}

\* Stored over what they overlap.
Overwritten(stack, stores) ==
  stores @@ Restricted(stack, {o \in DOMAIN stack : \A at \in DOMAIN stores : o \in Apart(stack, at, stores[at].size)})

\* What a call leaves of the locals: the callee owns the home area, and what is given
\* away with the address of a local is not known any more.
Left(st, values, outs, listed, effects) ==
  LET escaped == listed /\ effects = {} /\ \E i \in DOMAIN values : values[i].k = "local"
      kept == IF escaped \/ st.regs["rsp"].k # "local" THEN << >>
              ELSE Restricted(st.stack, Apart(st.stack, st.regs["rsp"].n[1], 32))
      filled == FoldSet(LAMBDA e, stack : Overwritten(stack, e), kept, effects)
  IN  Overwritten(filled, [o \in {values[i].n[1] : i \in outs} |-> [size |-> 8, value |-> Value("output", place, place)]])
StackAfterCall(st, api, values, listed) ==
  Left(st, values, {i \in DOMAIN values : listed /\ api.args[i].out /\ values[i].k = "local"}, listed,
       IF api.kind \in {"device", "init"} THEN Effects(api, values) ELSE {})

AfterCall(st, api, values, listed) ==
  [regs |-> [r \in Registers |->
               IF r = "rax" /\ api.handle THEN Value("result", place, place)
               ELSE IF r \in Volatile THEN Nothing ELSE st.regs[r]],
   stack |-> StackAfterCall(st, api, values, listed), compare |-> {}]

-----------------------------------------------------------------------------
(* recover                                                                  *)

Init ==
  /\ listing \in Listings
  /\ place = 1 /\ known = Fresh /\ linked = FALSE /\ owner = 0 /\ forwards = << >> /\ evidence = {} /\ cpu = {}

Passing == InCode(place)
Instruction == listing.code[place]
Entering == owner # listing.owners[place] \/ place = listing.owners[place]

\* What waits at later places; the jumps of earlier functions that lead nowhere go.
Waiting == Restricted(forwards, {pc \in DOMAIN forwards : Entering => pc >= listing.owners[place]})

\* The state at this instruction, with what falls through and what waits for it.
Joined(through, falls, waiting) ==
  IF place \notin DOMAIN waiting THEN (IF falls THEN through ELSE Fresh)
  ELSE IF falls THEN Intersect(through, waiting[place]) ELSE waiting[place]
Here(waiting) == Joined(IF Entering THEN FunctionEntry(listing.owners[place]) ELSE known, Entering \/ linked, waiting)

WithForward(later, st, target) ==
  IF target <= place THEN later
  ELSE (target :> IF target \in DOMAIN later THEN Intersect(later[target], st) ELSE st) @@ later

GoOn(st) == known' = st /\ linked' = TRUE
Break == known' = Fresh /\ linked' = FALSE
Advance == place' = place + 1 /\ owner' = listing.owners[place] /\ UNCHANGED <<listing, cpu>>

SkipThunk(waiting) == Break /\ forwards' = waiting /\ UNCHANGED evidence

\* A call to the stack probe keeps every register.
Probe(st, later) ==
  /\ ProbesStack(place, st.regs["rax"])
  /\ GoOn(st) /\ forwards' = later /\ UNCHANGED evidence

Leave(st, later) ==
  /\ Instruction.op = "jmp" /\ ImportTarget(st, Instruction) = {}
  /\ Break /\ forwards' = WithForward(later, st, Instruction.a.disp) /\ UNCHANGED evidence

\* In a tail transfer the return address of the caller is on the stack already.
Raised(st) ==
  IF st.regs["rsp"].k # "local" THEN st
  ELSE [st EXCEPT !.regs["rsp"] = Value("local", @.n[1] + 8, @.n[2])]

\* The call of a function, and what is listed of it when it is an import with a
\* known signature; anything else is called without a name.
TailTransfer == Instruction.op \in {"jmp", "jmpi"}
Room == Cardinality(evidence) < EvidenceLimit
Nameless == [kind |-> "other", args |-> << >>, handle |-> FALSE]
CallOf(st, slot, api, values) ==
  LET listed == api.args # << >> /\ Room IN
  /\ evidence' = evidence \cup (IF listed THEN {Evidence(st, slot, api, values)} ELSE {})
  /\ IF TailTransfer THEN Break ELSE GoOn(AfterCall(st, api, values, listed))
CallAs(st, slot, api) == CallOf(st, slot, api, ArgumentsOf(st, api))
CallTo(st, slots) ==
  IF slots = {} THEN Instruction.op # "jmp" /\ CallAs(st, 0, Nameless)
  ELSE \E slot \in slots : CallAs(st, slot, listing.apis[slot])

Call(st, later) ==
  /\ Instruction.op \in {"call", "calli", "jmp", "jmpi"}
  /\ ~ ProbesStack(place, st.regs["rax"])
  /\ CallTo(IF TailTransfer THEN Raised(st) ELSE st, ImportTarget(st, Instruction))
  /\ forwards' = later

Branch(st, later) ==
  /\ Instruction.op \in Conditional
  /\ GoOn(st) /\ forwards' = WithForward(later, st, Instruction.a.disp) /\ UNCHANGED evidence

Stop(later) == Instruction.op = "ret" /\ Break /\ forwards' = later /\ UNCHANGED evidence

Simple == {"mov", "lea", "push", "pop", "add", "sub", "cmp", "test", "and", "xor", "shr", "imul", "cmova", "other"}
Transfer(st, later) ==
  /\ Instruction.op \in Simple
  /\ GoOn(Stepped(st, Instruction)) /\ forwards' = later /\ UNCHANGED evidence

Read(st, later) ==
  Probe(st, later) \/ Leave(st, later) \/ Call(st, later) \/ Branch(st, later) \/ Stop(later) \/ Transfer(st, later)

Pass ==
  /\ Passing /\ Advance
  /\ \E waiting \in {Waiting} :
       IF IsThunk(place) THEN SkipThunk(waiting)
       ELSE \E st \in {Here(waiting)} : Read(st, Restricted(waiting, DOMAIN waiting \ {place}))

-----------------------------------------------------------------------------
(* A run of a function (external).  Functions do not keep the addresses they *)
(* are given.  A run that comes to an instruction by a jump that the pass     *)
(* does not join there, backwards or through a table, has "strayed"; one in   *)
(* which a function whose signature is not known got an address in the frame  *)
(* has "lent" what it knew of the frame.                                      *)

Given(i) == Num(70 + 5 * i)
Start ==
  /\ ~ Passing /\ cpu = {}
  /\ \E pc \in {listing.owners[q] : q \in DOMAIN listing.owners} :
       cpu' = {[pc |-> pc, heap |-> << >>, flags |-> Unknown, strayed |-> FALSE, lent |-> FALSE,
                mem |-> [o \in {40 + 8 * (i - 4) : i \in StackArguments} |-> [size |-> 8, value |-> Given((o - 40) \div 8 + 4)]],
                regs |-> [r \in Registers |->
                            IF r \in Arguments THEN Given((CHOOSE i \in 1 .. 4 : ByRegister[i] = r) - 1)
                            ELSE IF r = "rsp" THEN Val("local", 0) ELSE Junk]]}
  /\ UNCHANGED <<listing, place, known, linked, owner, forwards, evidence>>

\* The slot that a transfer uses; a slot is loaded as itself.
SlotOf(s, i) ==
  IF i.op \in {"call", "jmp"} THEN ImportOf(Fresh.regs, i, 8)
  ELSE LET v == ValueOf(s, listing.data, i.a) IN IF v.k = "slot" THEN {v.n[1]} ELSE {}

\* At a tail transfer, the arguments lie one place further up.
Passed(s, i, width, tail) ==
  LET at == s.regs["rsp"].n[1] + 32 + 8 * (i - 4) + (IF tail THEN 8 ELSE 0) IN
  IF i < 4 THEN s.regs[ByRegister[i + 1]]
  ELSE IF at \in DOMAIN s.mem /\ s.mem[at].size >= width THEN s.mem[at].value ELSE Junk

\* A text that nobody knows leaves lengths that nobody knows.
Filled(values) ==
  LET clear == Is(values[2], 0) \/ (values[2].k = "num" /\ values[2].n[1] \in DOMAIN listing.texts)
      length == IF Is(values[2], 0) THEN 0 ELSE 2 * listing.texts[values[2].n[1]]
      room == IF length = 0 /\ Is(values[2], 0) THEN 0 ELSE length + 2
  IN  IF values[1].k # "local" THEN << >>
      ELSE IF clear THEN Unicode(values[1].n[1], Num(length), Num(room), values[2])
      ELSE Unicode(values[1].n[1], Junk, Junk, values[2])
Outputs(s, api, values) ==
  [o \in {values[i].n[1] : i \in {i \in DOMAIN values : api.args[i].out /\ values[i].k = "local"}} |->
     [size |-> 8, value |-> Val("output", s.pc)]]
Lends(s, api) == api.args = << >> /\ Escaped(s)
Writes(s, api, values) ==
  LET home == Overlapping(s.mem, s.regs["rsp"].n[1], 32)
      all == Lends(s, api) \/ (api.kind = "other" /\ \E i \in DOMAIN values : values[i].k = "local")
  IN  Overwritten(IF all THEN << >> ELSE Restricted(s.mem, DOMAIN s.mem \ home),
                  Outputs(s, api, values) @@ (IF api.kind = "init" THEN Filled(values) ELSE << >>))

AfterRun(s, api) ==
  [s EXCEPT !.pc = @ + 1, !.flags = Unknown, !.lent = @ \/ Lends(s, api),
            !.regs = [r \in Registers |-> IF r = "rax" /\ api.handle THEN Val("result", s.pc)
                                          ELSE IF r \in Volatile THEN Junk ELSE s.regs[r]],
            !.mem = Writes(s, api, [i \in DOMAIN api.args |-> Passed(s, i - 1, api.args[i].width, FALSE)])]
Called(slots) == IF slots = {} THEN Nameless ELSE listing.apis[Min(slots)]

\* The pass begins afresh where nothing falls through and no jump forwards leads.
Afresh(pc) ==
  /\ pc # listing.owners[pc] /\ listing.code[pc - 1].op \in {"ret", "jmp", "jmpi"}
  /\ \A from \in 1 .. pc - 1 : listing.code[from].op \in Conditional \cup {"jmp"} => listing.code[from].a.disp # pc
Jumped(s, to, joined) == [s EXCEPT !.pc = to, !.strayed = @ \/ ~ (joined \/ (InCode(to) /\ Afresh(to)))]
Near(s, i) == Jumped(s, i.a.disp, i.a.disp > s.pc)
Far(s, i) ==
  {Jumped(s, v.n[1], FALSE) : v \in {v \in {ValueOf(s, listing.data, i.a)} : v.k \in {"num", "code"}}}

\* The states after one instruction; none after the last.
After(s, i) ==
  CASE i.op = "ret" \/ (i.op \in {"jmp", "jmpi"} /\ SlotOf(s, i) # {}) -> {}
    [] i.op = "jmpi" /\ SlotOf(s, i) = {} -> Far(s, i)
    [] i.op = "jmp" /\ SlotOf(s, i) = {} -> {Near(s, i)}
    [] i.op \in Conditional -> {IF t THEN Near(s, i) ELSE [s EXCEPT !.pc = @ + 1] : t \in Outcomes(i.op, s.flags)}
    [] i.op \in {"call", "calli"} ->
         {IF ProbesStack(s.pc, s.regs["rax"]) THEN [s EXCEPT !.pc = @ + 1] ELSE AfterRun(s, Called(SlotOf(s, i)))}
    [] OTHER -> {[Moved(s, i, listing.data) EXCEPT !.pc = @ + 1]}

RunStep ==
  /\ \E s \in cpu :
       /\ InCode(s.pc)
       /\ LET after == After(s, listing.code[s.pc])
          IN  \/ after = {} /\ cpu' = {[s EXCEPT !.pc = 0]}
              \/ \E t \in after : cpu' = {t}
  /\ UNCHANGED <<listing, place, known, linked, owner, forwards, evidence>>

Next == Pass \/ Start \/ RunStep
Spec == Init /\ [][Next]_vars

-----------------------------------------------------------------------------
(* Properties                                                               *)

RECURSIVE Computed(_)
\* An expression, in 32 bits.
Computed(e) ==
  IF e[1] = "num" THEN e[2] % Half
  ELSE IF e[1] = "arg" THEN Given(e[2]).n[1] % Half
  ELSE LET x == Computed(e[2])
           y == Computed(e[3])
       IN  (CASE e[1] = "add" -> x + y [] e[1] = "sub" -> x - y [] e[1] = "imul" -> x * y
              [] e[1] = "min" -> Min({x, y})) % Half

Means(v, c) ==
  CASE v.k = "num" -> c = Num(v.n[1])
    [] v.k = "arg" -> c = Num(Given(v.n[1]).n[1] % (IF v.n[2] = 4 THEN Half ELSE Half * Half))
    [] v.k = "sym" -> c.k = "num" /\ c.n[1] % Half = Computed(SubSeq(v.n, 1, 3))
    [] v.k = "image" -> c \in {Num(v.n[1]), Val("code", v.n[1])}
    [] v.k = "memory" -> v.n[1] \in DOMAIN listing.data => c = listing.data[v.n[1]]
    [] v.k = "import" -> c = Val("slot", v.n[1])
    [] v.k \in {"local", "result", "output"} -> c = Val(v.k, v.n[1])
    [] OTHER -> TRUE

Held(s, o, size) == IF o \in DOMAIN s.mem /\ s.mem[o].size = size THEN s.mem[o].value ELSE Junk
Truncated(c, width) == IF width = 8 THEN c ELSE IF c.k = "num" THEN Num(c.n[1] % Half) ELSE Junk
IsReal(s, e, api, values) ==
  LET Buffer(name) == values[CHOOSE i \in DOMAIN values : api.args[i].name = name] IN
  /\ \A i \in DOMAIN values : Means(e.args[i], values[i])
  /\ \A f \in e.fields : Means(f.value, Held(s, Buffer(f.buffer).n[1] + f.offset, f.size))
  /\ \A n \in e.oid : \E at \in {Buffer("input_buffer")} :
       Num(n) = IF at.k = "local" THEN Held(s, at.n[1], 4) ELSE listing.data[at.n[1]]
PassesWhatIsListed(s) ==
  \A e \in {e \in evidence : e.site = s.pc} : \A api \in {listing.apis[e.slot]} :
    IsReal(s, e, api, [i \in DOMAIN api.args |->
      Truncated(Passed(s, i - 1, api.args[i].width, listing.code[s.pc].op \in {"jmp", "jmpi"}), api.args[i].width)])

\* A value that is listed for an argument, a field of a buffer or an OID is the one
\* that the call is made with.  Two kinds of paths are left out: those that came, on
\* their way, by a jump backwards or through a table to an instruction that the pass
\* knows something at, which it does not join; and those on which a function whose
\* signature is not known got an address in the frame (see LocalsStayUnreachable).
ArgumentsAreReal == \A s \in cpu : ~ s.strayed /\ ~ s.lent => PassesWhatIsListed(s)

\* What calls.rs:982 says of what it keeps after a call: "Other caller locals remain
\* unreachable unless their address was passed to the call."
LocalsStayUnreachable == \A s \in cpu : ~ s.strayed => PassesWhatIsListed(s)

\* A call through the slot of a function with a known signature, or through jumps to
\* such a slot, is listed, unless the list is full.
CallsAreListed ==
  \A s \in cpu :
    (/\ InCode(s.pc) /\ Cardinality(evidence) < EvidenceLimit
     /\ listing.code[s.pc].op \in {"call", "calli"} /\ listing.code[s.pc].a.kind # "reg")
    => \A slot \in SlotOf(s, listing.code[s.pc]) :
         listing.apis[slot].args # << >> => \E e \in evidence : e.site = s.pc /\ e.slot = slot

=============================================================================
