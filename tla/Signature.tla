------------------------------ MODULE Signature -------------------------------
(***************************************************************************)
(* The signature that RESX infers from the code of one function            *)
(* (infer in resx/src/analysis/reconstruction/signature.rs, with its       *)
(* state.rs): where each value of the entry state may have gone is         *)
(* followed over branches and joins until nothing changes, and what reads  *)
(* it, how wide, and what memory is reached through it is recorded for the *)
(* parameter that it is.  The return type is what every way out agrees on. *)
(*                                                                         *)
(* When the analysis is done, every path through the function is walked,   *)
(* with each value marked by the parameter that it really is, for the      *)
(* claims.                                                                  *)
(*                                                                         *)
(* Parameters are numbered from 0.  Code is a sequence, and the address of *)
(* an instruction its place there.  A set of at most one element is a      *)
(* value that may be absent.                                               *)
(***************************************************************************)
EXTENDS Processor, FiniteSetsExt, TLC

CONSTANTS
  Functions,         \* of an arch, 64 or 32, and a code
  InstructionLimit,  \* 4096
  InferenceSteps,    \* 16384
  MaxArgs,           \* 16
  EvidenceCap,       \* 8 addresses for one parameter
  SlotLimit          \* 64 slots of the stack

VARIABLES function, states, queue, params, returns, steps, unresolved, doing,
          met, uses, exits  \* the walk over the paths
inferVars == <<function, states, queue, params, returns, steps, unresolved, doing, met, uses, exits>>

Word == function.arch \div 8
Rows == 1 .. Min({Len(function.code), InstructionLimit})
Given == 0 .. MaxArgs - 1
StackAt(n) == IF Word = 8 THEN 40 + (n - 4) * 8 ELSE 4 + n * 4
FirstOnStack == IF Word = 8 THEN 4 ELSE 0
Floats == {"movsd", "addsd"}
Moves == {"mov", "movzx", "movsd"}
ByNumber == IF Word = 8 THEN <<{"rcx", "xmm0"}, {"rdx", "xmm1"}, {"r8"}, {"r9"}>> ELSE << >>

-----------------------------------------------------------------------------
(* What an instruction reads and writes, as the decoder tells it.            *)

Memory(i) == IF i.a.kind = "mem" THEN i.a ELSE i.b
HasMemory(i) == Memory(i).kind = "mem" /\ i.op # "lea"
Zeroes(i) == i.op \in {"xor", "sub"} /\ i.a.kind = "reg" /\ i.a = i.b
Updates == {"add", "sub", "xor", "addsd"}
ReadsFirst(i) == i.op \in Updates \cup {"cmp", "push", "calli", "jmpi"} \/ (i.op = "cmova" /\ i.a.size = 4)
WritesFirst(i) == i.op \in Moves \cup Updates \cup {"lea", "cmova", "pop"}
Named(r, size) == {x \in {<<r, size>>} : r \notin {"none", "rip"}}
RegistersRead(i) ==
  (IF i.b.kind = "reg" THEN Named(i.b.reg, i.b.size) ELSE {})
  \cup (IF i.a.kind = "reg" /\ ReadsFirst(i) THEN Named(i.a.reg, i.a.size) ELSE {})
  \cup (IF Memory(i).kind = "mem" THEN Named(Memory(i).reg, Word) \cup Named(Memory(i).index, Word) ELSE {})
RegistersWritten(i) ==
  (IF i.a.kind = "reg" /\ WritesFirst(i) THEN {i.a.reg} ELSE {})
  \cup (IF i.op \in {"push", "pop", "call", "calli", "ret"} THEN {"rsp"} ELSE {})
MemoryRead(i) == HasMemory(i) /\ (i.b.kind = "mem" \/ ReadsFirst(i))
MemoryWritten(i) == i.a.kind = "mem" /\ WritesFirst(i)

-----------------------------------------------------------------------------
(* State.                                                                    *)

Unset == [origins |-> {}, from |-> 0, width |-> 0, float |-> FALSE, pointer |-> FALSE, addr |-> {}]
Origin(n) == [Unset EXCEPT !.origins = {n}]
InRegister(r) == {n \in DOMAIN ByNumber : r \in ByNumber[n]}
Initial ==
  [regs |-> [r \in UNION {ByNumber[n] : n \in DOMAIN ByNumber} |-> Origin(Min(InRegister(r)) - 1)],
   stack |-> [at \in {StackAt(n) : n \in {n \in Given : n >= FirstOnStack}} |->
                Origin(CHOOSE n \in Given : n >= FirstOnStack /\ StackAt(n) = at)],
   sp |-> {0}, bp |-> {}]

\* reg_value
InReg(s, r) == IF r \in DOMAIN s.regs THEN s.regs[r] ELSE Unset

\* stack_address
StackAddress(s, m) ==
  IF m.kind # "mem" \/ m.index # "none" THEN {}
  ELSE {n + m.disp : n \in CASE m.reg = "rsp" -> s.sp [] m.reg = "rbp" -> s.bp [] OTHER -> InReg(s, m.reg).addr}

\* Mutant: at a join what one side does not know keeps what the other does.
MergedKeeping(a, b) ==
  [origins |-> a.origins \cup b.origins, from |-> IF a.from = b.from THEN a.from ELSE 0,
   width |-> IF b = Unset THEN a.width ELSE IF a.width = b.width /\ a.float = b.float THEN a.width ELSE 0,
   float |-> a.float /\ b.float, pointer |-> a.pointer /\ b.pointer,
   addr |-> IF a.addr = b.addr THEN a.addr ELSE {}]

Merged(a, b) ==
  [origins |-> a.origins \cup b.origins, from |-> IF a.from = b.from THEN a.from ELSE 0,
   width |-> IF a.width = b.width /\ a.float = b.float THEN a.width ELSE 0,
   float |-> a.float /\ b.float, pointer |-> a.pointer /\ b.pointer,
   addr |-> IF a.addr = b.addr THEN a.addr ELSE {}]

\* merge
Join(old, new) ==
  [regs |-> [r \in DOMAIN old.regs \cup DOMAIN new.regs |-> Merged(InReg(old, r), InReg(new, r))],
   stack |-> Restricted(old.stack, {o \in DOMAIN old.stack : o \in DOMAIN new.stack /\ new.stack[o] = old.stack[o]}),
   sp |-> IF old.sp = new.sp THEN old.sp ELSE {}, bp |-> IF old.bp = new.bp THEN old.bp ELSE {}]

-----------------------------------------------------------------------------
(* One instruction.                                                          *)

SlotAt(s, at, size) ==
  IF \E o \in at : o \in DOMAIN s.stack /\ s.stack[o].width \notin 1 .. size - 1
  THEN s.stack[CHOOSE o \in at : TRUE] ELSE Unset
SourceOf(s, i, at) ==
  IF i.b.kind = "reg" THEN InReg(s, i.b.reg) ELSE IF i.b.kind = "mem" THEN SlotAt(s, at, i.b.size) ELSE Unset
SourceWidth(i) ==
  IF i.b.kind = "mem" THEN i.b.size ELSE IF i.op \in Floats THEN 8 ELSE IF i.b.kind = "reg" THEN i.b.size ELSE 0

\* record, for all that one instruction does to a parameter.
WidthRead(i, read, value) ==
  IF i.op \in Floats /\ read[2] = 16 THEN 8
  ELSE IF value.from > 0 THEN Min({value.from, read[2]})
  ELSE IF i.op = "lea" THEN Min({i.a.size, read[2]})
  ELSE read[2]
Record(origins, width, rd, wr, float) ==
  [origins |-> origins, width |-> width, read |-> rd, write |-> wr, float |-> float]
Records(s, i, source) ==
  (IF Zeroes(i) THEN {}
   ELSE {Record(InReg(s, r[1]).origins, WidthRead(i, r, InReg(s, r[1])), FALSE, FALSE,
                i.op \in Floats /\ r[2] = 16) : r \in RegistersRead(i)})
  \cup (IF HasMemory(i) THEN {Record(InReg(s, Memory(i).reg).origins, 0, MemoryRead(i), MemoryWritten(i), FALSE)}
        ELSE {})
  \cup (IF i.op \in Moves /\ i.a.kind = "reg"
        THEN {Record(source.origins, SourceWidth(i), FALSE, FALSE, FALSE)} ELSE {})
Recorded(p, records, pc) ==
  IF records = {} THEN p
  ELSE [read |-> p.read \/ \E r \in records : r.read, write |-> p.write \/ \E r \in records : r.write,
        float |-> p.float \/ \E r \in records : r.float,
        widths |-> p.widths \cup ({r.width : r \in records} \ {0}),
        evidence |-> IF Cardinality(p.evidence) < EvidenceCap THEN p.evidence \cup {pc} ELSE p.evidence]

\* The value for the destination.
Made(i) == [Unset EXCEPT !.width = IF i.op \in Floats THEN 8 ELSE i.a.size, !.float = i.op \in Floats]
MovedValue(i, made, source) ==
  [made EXCEPT !.origins = source.origins,
               !.from = IF source.from > 0 THEN source.from ELSE SourceWidth(i),
               !.pointer = source.pointer /\ made.width = Word, !.addr = source.addr]
ProducedValue(s, i, at, source, old) ==
  CASE i.op \in Moves -> MovedValue(i, Made(i), source)
    [] i.op = "lea" /\ (i.b.reg = "rip" \/ at # {}) -> [Made(i) EXCEPT !.pointer = i.a.size = Word, !.addr = at]
    [] i.op = "cmova" -> [Made(i) EXCEPT !.origins = old.origins,
                                         !.width = IF old.width # i.a.size \/ old.float THEN 0 ELSE @]
    [] OTHER -> Made(i)

\* A store forgets what it overlaps, and everything when it may go anywhere.
StackAfter(s, i, at) ==
  LET kept == {o \in DOMAIN s.stack : \A a \in at : o >= a + i.a.size \/ o + 8 <= a}
      stored == IF i.op \in Moves /\ i.b.kind = "reg" /\ Cardinality(kept) < SlotLimit THEN at ELSE {}
  IN  IF i.a.kind # "mem" THEN s.stack
      ELSE IF at = {} THEN << >>
      ELSE [o \in stored |-> [InReg(s, i.b.reg) EXCEPT !.width = i.a.size]] @@ Restricted(s.stack, kept)

SpAfter(s, i) ==
  CASE i.op = "push" -> {n - Word : n \in s.sp}
    [] i.op = "pop" -> {n + Word : n \in s.sp}
    [] i.op \in {"add", "sub"} /\ i.a.reg = "rsp" /\ i.b.kind = "imm" ->
         {IF i.op = "sub" THEN n - i.b.disp ELSE n + i.b.disp : n \in s.sp}
    [] OTHER -> IF "rsp" \in RegistersWritten(i) THEN {} ELSE s.sp
BpAfter(s, i) ==
  IF i.op = "mov" /\ i.a.reg = "rbp" /\ i.a.kind = "reg" /\ i.b.kind = "reg" /\ i.b.reg = "rsp" THEN s.sp
  ELSE IF i.op \notin {"push", "pop"} /\ "rbp" \in RegistersWritten(i) THEN {} ELSE s.bp

Killed == {"rax", "rcx", "rdx", "r8", "r9", "xmm0", "xmm1"}
AfterInstruction(s, i, at, produced) ==
  LET left == DOMAIN s.regs \ RegistersWritten(i)
      to == IF i.a.kind = "reg" /\ WritesFirst(i) THEN {i.a.reg} ELSE {}
      regs == [r \in left \cup to |-> IF r \in to THEN produced ELSE s.regs[r]]
      call == i.op \in {"call", "calli"}
  IN  [regs |-> IF call THEN Restricted(regs, DOMAIN regs \ Killed) ELSE regs,
       stack |-> IF call THEN << >> ELSE StackAfter(s, i, at),
       sp |-> SpAfter(s, i), bp |-> BpAfter(s, i)]

Successors(i, pc) ==
  CASE i.op = "jmp" -> <<i.a.disp>>
    [] i.op \in Conditional -> <<i.a.disp, pc + 1>>
    [] i.op \in {"ret", "jmpi"} -> << >>
    [] OTHER -> <<pc + 1>>

\* What a return gives: the scalar or the vector, when just one was produced.
Returning(scalar, vector) ==
  IF vector.float /\ scalar.width = 0 THEN vector
  ELSE IF scalar.width # 0 /\ vector.width = 0 THEN scalar ELSE Unset

-----------------------------------------------------------------------------
(* infer.                                                                    *)

NoUse == [read |-> FALSE, write |-> FALSE, float |-> FALSE, widths |-> {}, evidence |-> {}]
Entry == 1
InferInit ==
  /\ function \in Functions
  /\ states = (Entry :> Initial) /\ queue = <<Entry>> /\ params = [n \in Given |-> NoUse]
  /\ returns = << >> /\ steps = 0 /\ unresolved = FALSE /\ doing = "infer"
  /\ met = {} /\ uses = {} /\ exits = {}

\* States of the successors: joined with what is known there, and queued when that
\* changes anything.
Changed(known, next, to) == to \notin DOMAIN known \/ Join(known[to], next) # known[to]
Passed(known, next, to) ==
  [pc \in DOMAIN known \cup to |->
     IF pc \notin to THEN known[pc] ELSE IF pc \in DOMAIN known THEN Join(known[pc], next) ELSE next]

\* Mutant: what was queued once is not queued again.
QueuedOnce(known, next, to) == SelectSeq(to, LAMBDA pc : pc \notin DOMAIN known)

Queued(known, next, to) == SelectSeq(to, LAMBDA pc : Changed(known, next, pc))

PassOn(i, pc, next) ==
  LET to == SelectSeq(Successors(i, pc), LAMBDA n : n \in Rows)
  IN  /\ states' = Passed(states, next, {to[n] : n \in DOMAIN to})
      /\ queue' = Tail(queue) \o Queued(states, next, to)
      /\ unresolved' = (unresolved \/ i.op = "jmpi" \/ Len(to) < Len(Successors(i, pc)))
      /\ returns' = IF i.op = "ret" THEN (pc :> Returning(InReg(next, "rax"), InReg(next, "xmm0"))) @@ returns
                    ELSE returns

\* The records and the values, from the address of the memory operand.
VisitOf(s, i, pc, at, source) ==
  /\ params' = [n \in Given |->
                  Recorded(params[n], {r \in Records(s, i, source) : n \in r.origins}, pc)]
  /\ PassOn(i, pc, AfterInstruction(s, i, at, ProducedValue(s, i, at, source, InReg(s, i.a.reg))))
VisitAt(s, i, pc, at) == VisitOf(s, i, pc, at, SourceOf(s, i, at))
VisitRow(s, i, pc) == VisitAt(s, i, pc, StackAddress(s, Memory(i)))

Visit ==
  /\ doing = "infer" /\ queue # << >> /\ steps < InferenceSteps
  /\ steps' = steps + 1
  /\ VisitRow(states[Head(queue)], function.code[Head(queue)], Head(queue))
  /\ UNCHANGED <<function, doing, met, uses, exits>>

Truncated == Len(function.code) > InstructionLimit \/ steps >= InferenceSteps

\* The return type; an unset one is "unknown".
Agreed == {v \in {returns[pc] : pc \in DOMAIN returns} :
             \A pc \in DOMAIN returns :
               returns[pc].width = v.width /\ returns[pc].float = v.float /\ returns[pc].pointer = v.pointer}
ReturnType == IF unresolved \/ Truncated THEN {} ELSE {v \in Agreed : v.width \in {1, 2, 4, 8}}

\* The parameters that are listed, by number: up to the last with evidence, and
\* without those in registers when only the stack is used.
Evident == {n \in Given : params[n].evidence # {}}
Listed == IF Evident = {} THEN {} ELSE 0 .. Max(Evident)
OnlyStack ==
  Word = 8 /\ Cardinality(Listed) >= 6 /\ 0 .. 3 \cap Evident = {} /\ Listed \ 0 .. 3 \subseteq Evident
Reported == IF OnlyStack THEN Listed \ 0 .. 3 ELSE Listed

-----------------------------------------------------------------------------
(* The paths.  A mark tells which parameter a value is, if it is one, how    *)
(* much of it is left, whether it got here in registers alone, the place in  *)
(* the frame that it points to, and how a register was last written.         *)

Bare == [is |-> {}, width |-> Word, direct |-> TRUE, addr |-> {}, made |-> {}]
MarkOf(n) == [Bare EXCEPT !.is = {n}]
AllRegs == {"rax", "rcx", "rdx", "r8", "r9", "rbx", "rbp", "xmm0", "xmm1"}
Begin ==
  [pc |-> Entry, sp |-> 0, quiet |-> TRUE,
   regs |-> [r \in AllRegs |-> IF InRegister(r) = {} THEN Bare ELSE MarkOf(Min(InRegister(r)) - 1)],
   mem |-> [o \in DOMAIN Initial.stack |->
              [size |-> Word, value |-> MarkOf(CHOOSE n \in Initial.stack[o].origins : TRUE)]]]

RegMark(c, r) == IF r \in AllRegs THEN c.regs[r] ELSE [Bare EXCEPT !.addr = IF r = "rsp" THEN {c.sp} ELSE {}]
PlaceOf(c, m) == IF m.kind # "mem" \/ m.index # "none" THEN {} ELSE {n + m.disp : n \in RegMark(c, m.reg).addr}
InMemory(c, at, size) ==
  IF \E o \in at : o \in DOMAIN c.mem /\ c.mem[o].size >= size THEN c.mem[CHOOSE o \in at : TRUE].value ELSE Bare
Narrower(mark, size) == [mark EXCEPT !.width = Min({@, size}), !.addr = IF size = Word THEN @ ELSE {}]

\* A use: a parameter, where, how much of it, by value or through it; sure when the
\* analysis is bound to see it.
Use(n, pc, width, how, sure) == [param |-> n, pc |-> pc, width |-> width, how |-> how, sure |-> sure]
UsesOf(c, i, at) ==
  (IF Zeroes(i) THEN {}
   ELSE UNION {{Use(n, c.pc, Min({RegMark(c, r[1]).width, r[2]}), "value", RegMark(c, r[1]).direct)
                : n \in RegMark(c, r[1]).is} : r \in RegistersRead(i)})
  \cup (IF i.op \in Moves /\ i.b.kind = "mem"
        THEN {Use(n, c.pc, i.b.size, "value", c.quiet /\ i.b.reg = "rsp" /\ InMemory(c, at, i.b.size).direct)
              : n \in InMemory(c, at, i.b.size).is} ELSE {})
  \cup {Use(n, c.pc, 0, how, RegMark(c, Memory(i).reg).direct)
        : n \in RegMark(c, Memory(i).reg).is,
          how \in (IF MemoryRead(i) THEN {"load"} ELSE {}) \cup (IF MemoryWritten(i) THEN {"store"} ELSE {})}

How(i, pointer) == {[width |-> IF i.op \in Floats THEN 8 ELSE i.a.size, float |-> i.op \in Floats, pointer |-> pointer]}
IsPointer(mark) == \E m \in mark.made : m.pointer
Assigned(i, at, mark) ==
  CASE i.op \in Moves -> [Narrower(mark, SourceWidth(i)) EXCEPT !.made = How(i, IsPointer(mark) /\ i.a.size = Word)]
    [] i.op = "lea" -> [Bare EXCEPT !.addr = at, !.made = How(i, (i.b.reg = "rip" \/ at # {}) /\ i.a.size = Word)]
    [] i.op = "cmova" -> [Narrower(mark, i.a.size) EXCEPT !.made = How(i, FALSE), !.direct = FALSE]
    [] OTHER -> [Bare EXCEPT !.made = How(i, FALSE)]
FromMark(c, i, at) ==
  IF i.b.kind = "reg" THEN RegMark(c, i.b.reg)
  ELSE IF i.b.kind = "mem" THEN [InMemory(c, at, i.b.size) EXCEPT !.direct = @ /\ c.quiet] ELSE Bare

Frame(c, i) ==
  CASE i.op = "push" -> c.sp - Word [] i.op = "pop" -> c.sp + Word
    [] i.op = "sub" /\ i.a.reg = "rsp" -> c.sp - i.b.disp
    [] i.op = "add" /\ i.a.reg = "rsp" -> c.sp + i.b.disp
    [] OTHER -> c.sp
MemoryAfter(c, i, at, mark) ==
  CASE i.op = "push" -> Written(c.mem, c.sp - Word, Word, [RegMark(c, i.a.reg) EXCEPT !.direct = FALSE])
    [] MemoryWritten(i) /\ at # {} ->
         Written(c.mem, CHOOSE o \in at : TRUE, i.a.size,
                 IF i.op \in Moves THEN [Narrower(mark, i.a.size) EXCEPT !.direct = FALSE] ELSE Bare)
    [] i.op \in {"call", "calli"} -> << >>
    [] OTHER -> c.mem
\* Nothing has been written that may be an argument, and no call made.
StillQuiet(c, i, at) ==
  /\ c.quiet /\ i.op \notin {"call", "calli"}
  /\ i.a.kind = "mem" => at # {} /\ \A o \in at : o + i.a.size <= StackAt(FirstOnStack)

Ways(c, i, at) ==
  LET mark == FromMark(c, i, at)
      after == [c EXCEPT !.sp = Frame(c, i), !.quiet = StillQuiet(c, i, at), !.mem = MemoryAfter(c, i, at, mark),
                         !.regs = [r \in AllRegs |->
                                     IF r = i.a.reg /\ i.a.kind = "reg" /\ WritesFirst(i)
                                     THEN IF i.op = "pop" THEN [InMemory(c, {c.sp}, Word) EXCEPT !.made = How(i, FALSE), !.direct = FALSE]
                                          ELSE Assigned(i, at, mark)
                                     ELSE IF i.op \in {"call", "calli"} /\ r \in Killed THEN Bare ELSE @[r]]]
      kept == [after EXCEPT !.regs = [c.regs EXCEPT ![IF i.a.reg \in AllRegs THEN i.a.reg ELSE "rax"] =
                                        [@ EXCEPT !.made = How(i, FALSE), !.direct = FALSE]]]
      results == IF i.op = "cmova" THEN {after, kept} ELSE {after}
      places == {n \in {Successors(i, c.pc)[k] : k \in DOMAIN Successors(i, c.pc)} : n \in Rows}
  IN  {[t EXCEPT !.pc = n] : t \in results, n \in places}

Infers ==
  /\ doing = "infer" /\ (queue = << >> \/ steps >= InferenceSteps)
  /\ doing' = "walk" /\ met' = {Begin}
  /\ UNCHANGED <<function, states, queue, params, returns, steps, unresolved, uses, exits>>

\* All paths at once, until they lead nowhere new.
StepOn(next) ==
  /\ met' = met \cup next
  /\ doing' = IF next \subseteq met THEN "done" ELSE "walk"
Row(c) == function.code[c.pc]
PlaceIn(c) == PlaceOf(c, Memory(Row(c)))
Walk ==
  /\ doing = "walk"
  /\ StepOn(UNION {Ways(c, Row(c), PlaceIn(c)) : c \in met})
  /\ uses' = uses \cup UNION {UsesOf(c, Row(c), PlaceIn(c)) : c \in met}
  /\ exits' = exits \cup {<<c.regs["rax"].made, c.regs["xmm0"].made>> : c \in {c \in met : Row(c).op = "ret"}}
  /\ UNCHANGED <<function, states, queue, params, returns, steps, unresolved>>

InferNext == Visit \/ Infers \/ Walk

-----------------------------------------------------------------------------
\* What is listed of a parameter happens on some path, at the places that are given
\* for it.
Witnessed ==
  \A n \in Evident :
    /\ \A pc \in params[n].evidence : \E u \in uses : u.param = n /\ u.pc = pc
    /\ params[n].read => \E u \in uses : u.param = n /\ u.how = "load"
    /\ params[n].write => \E u \in uses : u.param = n /\ u.how = "store"

\* A use that is sure is listed, as wide as it is.
Covered ==
  \A u \in uses : u.sure =>
    /\ u.param \in Reported
    /\ u.how = "load" => params[u.param].read
    /\ u.how = "store" => params[u.param].write
    /\ u.how = "value" => u.width \in params[u.param].widths

\* A return type holds for every way out; an integer may be a pointer on some.
Gives(v, exit) ==
  \E m \in IF v.float THEN exit[2] ELSE exit[1] :
    m.width = v.width /\ m.float = v.float /\ (v.pointer => m.pointer)
ReturnsAgree == \A v \in ReturnType, exit \in exits : Gives(v, exit)

\* The parameters and the return type that are inferred are those of the paths
\* through the function.
SignatureIsWitnessed ==
  doing = "done" => /\ Witnessed
                    /\ Truncated \/ (Covered /\ ReturnsAgree)

=============================================================================
