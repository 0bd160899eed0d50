------------------------------ MODULE DriverDispatch ------------------------------
(***************************************************************************)
(* The dispatch routines of a driver (resx/src/analysis/driver/            *)
(* dispatch.rs): the paths of DriverEntry, and of the helpers that get the *)
(* driver object, are followed with what is known of registers and locals; *)
(* a store of the address of a function into the table of the object is an *)
(* assignment, conditional when a branch whose outcome is not known lies   *)
(* before it.  After the search the processor runs the entry (external).   *)
(***************************************************************************)
EXTENDS Processor, SequencesExt, TLC

CONSTANTS
  Drivers,        \* records of code and data
  StepLimit,      \* 65536
  WorkLimit,      \* pending: 256
  VisitLimit,     \* visits of an instruction: 64
  DepthLimit      \* of helpers: 8

VARIABLES
  driver,
  waiting, work,    \* pending; the work that is followed, or none
  visits, taken,    \* of an instruction; the steps
  followed,         \* history: the works that were followed
  stores,           \* major_functions
  callbacks, devices,
  cut,              \* truncated
  cpu, performed    \* the run; the stores that it performed

vars == <<driver, waiting, work, visits, taken, followed, stores, callbacks, devices, cut, cpu, performed>>
searchVars == <<driver, waiting, work, visits, taken, followed, stores, callbacks, devices, cut>>

Nothing == Val("nothing", 0)
Driver == Val("driver", 0)
ClassInitialize == 1     \* slots of imports that a "calli" can name
CreateDevice == 2

-----------------------------------------------------------------------------
(* Values: the driver object, code, numbers and locals.                     *)

\* register
Known(w, r, size) ==
  LET v == w.regs[r] IN
  IF size = 8 THEN v ELSE IF size = 4 /\ v.k = "num" THEN Num(v.n[1] % Half) ELSE Nothing

\* address
Address(w, m) ==
  LET index == IF m.index = "none" THEN Num(0) ELSE Known(w, m.index, 8) IN
  IF m.reg \notin Registers \/ index.k # "num" \/ Known(w, m.reg, 8) = Nothing THEN Nothing
  ELSE Val(Known(w, m.reg, 8).k, Known(w, m.reg, 8).n[1] + index.n[1] * m.scale + m.disp)

\* operand
Value(w, o) ==
  CASE o.kind = "reg" -> Known(w, o.reg, o.size)
    [] o.kind = "imm" -> Num(o.disp)
    [] o.kind = "mem" ->
         LET at == Address(w, o) IN
         IF o.size = 8 /\ at.k = "local" /\ at.n[1] \in DOMAIN w.stack THEN w.stack[at.n[1]] ELSE Nothing
    [] OTHER -> Nothing

Same(i) == i.op = "xor" /\ i.a.kind = "reg" /\ i.a = i.b
ResultValue(w, i, left, right) ==
  CASE i.op = "mov" -> right
    [] i.op = "lea" -> IF i.b.reg = "rip" THEN (IF i.b.disp \in DOMAIN driver.code THEN Val("code", i.b.disp) ELSE Nothing)
                       ELSE IF Address(w, i.b).k = "local" THEN Address(w, i.b) ELSE Nothing
    [] Same(i) -> Num(0)
    [] i.op \in {"add", "sub"} /\ right.k = "num" /\ left.k = "num" -> Num(ResultOf(i.op, left.n[1], right.n[1], i.a.size))
    [] i.op \in {"add", "sub"} /\ right.k = "num" /\ left.k = "local" ->
         Val("local", left.n[1] + (IF i.op = "sub" THEN -1 ELSE 1) * Signed(right.n[1], 8))
    [] OTHER -> Nothing

\* The flags are computed as the processor does, where both operands are known.
NewFlags(i, left, right) ==
  LET modulus == Modulus(i.a.size) IN
  IF Same(i) THEN {Compared("sub", 0, 0, 8)}
  ELSE IF i.op \in {"cmp", "sub", "add", "test"} /\ left.k = "num" /\ right.k = "num"
  THEN {Compared(i.op, left.n[1] % modulus, right.n[1] % modulus, i.a.size)}
  ELSE {}

WritesMemory(i) == i.op = "push" \/ (i.a.kind = "mem" /\ i.op \notin {"cmp", "test"})
WritesFlags(i) == i.op \notin {"mov", "lea", "push", "pop"}
Destination(i) == IF i.a.kind = "reg" /\ i.op \notin {"cmp", "test", "push"} THEN {i.a.reg} ELSE {}

\* A store to a local takes the place of what it overlaps; any other store, and a
\* push, leaves nothing known of the locals, unless it goes to the driver object.
AfterStore(w, i, right) ==
  LET at == Address(w, i.a)
      kept == {o \in DOMAIN w.stack : o + 8 <= at.n[1] \/ o >= at.n[1] + i.a.size}
      put == IF i.op = "mov" /\ i.a.size = 8 /\ right # Nothing THEN at.n[1] :> right ELSE << >>
  IN  IF ~ WritesMemory(i) THEN w.stack
      ELSE IF i.a.kind # "mem" THEN << >>
      ELSE IF at.k = "driver" /\ i.op = "mov" /\ i.a.size = 8 THEN w.stack
      ELSE IF at.k = "local" THEN put @@ Restricted(w.stack, kept) ELSE << >>

AfterRegisters(w, i, value) ==
  LET written == Destination(i) \cup (IF i.op \in {"push", "pop"} THEN {"rsp"} ELSE {})
      cleared == [r \in Registers |-> IF r \in written THEN Nothing ELSE w.regs[r]]
      small == i.a.size = 4
  IN  [r \in Registers |->
         IF i.op \in {"push", "pop"} /\ r = "rsp" /\ w.regs[r].k = "local"
         THEN Val("local", w.regs[r].n[1] + (IF i.op = "push" THEN -8 ELSE 8))
         ELSE IF r \in Destination(i) /\ small THEN (IF value.k = "num" THEN Num(value.n[1] % Half) ELSE Nothing)
         ELSE IF r \in Destination(i) THEN value ELSE cleared[r]]

Transferred(w, i) ==
  LET left == Value(w, i.a)
      right == Value(w, i.b)
      regs == AfterRegisters(w, i, ResultValue(w, i, left, right))
      stack == AfterStore(w, i, right)
      top == IF i.op \in {"push", "pop"} /\ regs["rsp"].k = "local" THEN {regs["rsp"].n[1]} ELSE {}
  IN  [w EXCEPT !.pc = @ + 1, !.regs = regs, !.stack = Restricted(stack, DOMAIN stack \ top),
                !.flags = IF WritesFlags(i) THEN NewFlags(i, left, right) ELSE @]

\* The assignment that an instruction makes: its slot, and its site.
Major == {112 + 8 * n : n \in 0 .. 27}
Assigned(w, i) ==
  LET at == Address(w, i.a)
      target == Value(w, i.b)
  IN  IF i.op = "mov" /\ i.a.kind = "mem" /\ i.a.size = 8 /\ at.k = "driver" /\ at.n[1] \in Major /\ target.k = "code"
      THEN {[site |-> w.pc, slot |-> (at.n[1] - 112) \div 8, target |-> target.n[1]]} ELSE {}

-----------------------------------------------------------------------------
(* recover                                                                  *)

Entry == [pc |-> 1, depth |-> 0, conditional |-> FALSE, flags |-> {}, stack |-> << >>,
          regs |-> [r \in Registers |-> IF r = "rcx" THEN Driver ELSE IF r = "rsp" THEN Val("local", 0) ELSE Nothing]]

Init ==
  /\ driver \in Drivers
  /\ waiting = <<Entry>> /\ work = {} /\ taken = 0 /\ followed = {}
  /\ visits = [pc \in DOMAIN driver.code |-> 0]
  /\ stores = {} /\ callbacks = {} /\ devices = {} /\ cut = FALSE
  /\ cpu = {} /\ performed = {}

runVars == <<cpu, performed>>
Found == <<stores, callbacks, devices>>

Take ==
  /\ work = {} /\ waiting # << >> /\ taken < StepLimit
  /\ work' = {Head(waiting)} /\ waiting' = Tail(waiting)
  /\ UNCHANGED <<driver, visits, taken, followed, Found, cut, runVars>>

InCode(w) == w.pc \in DOMAIN driver.code
Instruction(w) == driver.code[w.pc]
Decoded(w) == InCode(w) /\ visits[w.pc] < VisitLimit

\* A path that was cut short, or left the code.
Abandon(w) ==
  /\ taken >= StepLimit \/ ~ Decoded(w)
  /\ cut' = (cut \/ taken >= StepLimit \/ InCode(w))
  /\ taken' = (IF taken < StepLimit THEN taken + 1 ELSE taken)
  /\ work' = {}
  /\ UNCHANGED <<driver, waiting, visits, followed, Found, runVars>>

Visit(w, ops) ==
  /\ taken < StepLimit /\ Decoded(w) /\ Instruction(w).op \in ops
  /\ taken' = taken + 1 /\ visits' = [visits EXCEPT ![w.pc] = @ + 1]
  /\ followed' = followed \cup {w}
  /\ UNCHANGED <<driver, runVars>>

Stop(w) == Visit(w, {"ret", "jmpi"}) /\ work' = {} /\ UNCHANGED <<waiting, Found, cut>>
Follow(w) ==
  /\ Visit(w, {"jmp"}) /\ work' = {[w EXCEPT !.pc = Instruction(w).a.disp]}
  /\ UNCHANGED <<waiting, Found, cut>>

\* Mutant: only the edge that is taken makes its path conditional.
ThroughUnmarked(w, choices) == [w EXCEPT !.pc = @ + 1]

Through(w, choices) == [w EXCEPT !.pc = @ + 1, !.conditional = @ \/ choices = {}]

Branch(w) ==
  /\ Visit(w, Conditional)
  /\ LET i == Instruction(w)
         choices == UNION {Outcomes(i.op, f) : f \in w.flags}
         to == [w EXCEPT !.pc = i.a.disp]
         room == Len(waiting) < WorkLimit
     IN  IF choices = {TRUE} THEN work' = {to} /\ UNCHANGED <<waiting, cut>>
         ELSE /\ work' = {Through(w, choices)}
              /\ waiting' = waiting \o (IF choices = {} /\ room THEN <<[to EXCEPT !.conditional = TRUE]>> ELSE << >>)
              /\ cut' = (cut \/ (choices = {} /\ ~ room))
  /\ UNCHANGED Found

\* What a call leaves of the locals: the callee owns the home area, and may write
\* every local when the address of one is passed.
\* Mutant: the home area is taken for the caller's.
LocalsAfterCallNoHome(w) ==
  IF (\E r \in Arguments : w.regs[r].k = "local") \/ \E o \in DOMAIN w.stack : w.stack[o].k = "local" THEN << >>
  ELSE w.stack

LocalsAfterCall(w) ==
  LET home == IF w.regs["rsp"].k = "local"
              THEN {o \in DOMAIN w.stack : o + 8 > w.regs["rsp"].n[1] /\ o < w.regs["rsp"].n[1] + 32} ELSE {}
  IN  IF (\E r \in Arguments : w.regs[r].k = "local") \/ \E o \in DOMAIN w.stack : w.stack[o].k = "local" THEN << >>
      ELSE Restricted(w.stack, DOMAIN w.stack \ home)

Helper(w, target) ==
  [Entry EXCEPT !.pc = target, !.depth = w.depth + 1, !.conditional = w.conditional,
     !.regs = [r \in Registers |-> IF r = "rsp" THEN Val("local", 0)
                                   ELSE IF r \in Arguments /\ w.regs[r].k # "local" THEN w.regs[r] ELSE Nothing]]

\* A class driver's callback lies in a record among the locals (FdoData at 40).
Callback(w) ==
  LET at == w.regs["r8"].n[1] + 40 IN
  IF w.regs["rcx"] = Driver /\ w.regs["r8"].k = "local" /\ at \in DOMAIN w.stack /\ w.stack[at].k = "code"
  THEN {w.stack[at].n[1]} ELSE {}

Call(w) ==
  /\ Visit(w, {"call", "calli"})
  /\ LET i == Instruction(w)
         passed == \E r \in Arguments : w.regs[r] = Driver
         enters == i.op = "call" /\ passed /\ w.depth < DepthLimit /\ Len(waiting) < WorkLimit
     IN  /\ waiting' = waiting \o (IF enters THEN <<Helper(w, i.a.disp)>> ELSE << >>)
         /\ callbacks' = callbacks \cup (IF i.op = "calli" /\ i.a.disp = ClassInitialize THEN Callback(w) ELSE {})
         /\ devices' = devices \cup (IF i.op = "calli" /\ i.a.disp = CreateDevice /\ w.regs["rcx"] = Driver
                                     THEN {w.pc} ELSE {})
  /\ work' = {[w EXCEPT !.pc = @ + 1, !.flags = {}, !.stack = LocalsAfterCall(w),
                        !.regs = [r \in Registers |-> IF r \in Volatile THEN Nothing ELSE @[r]]]}
  /\ UNCHANGED <<stores, cut>>

Simple == {"mov", "lea", "push", "pop", "add", "sub", "cmp", "test", "and", "xor", "shr", "other"}
Transfer(w) ==
  /\ Visit(w, Simple)
  /\ stores' = stores \cup {[s |-> s, conditional |-> w.conditional, depth |-> w.depth] :
                            s \in {s \in Assigned(w, Instruction(w)) : \A old \in stores : old.s # s}}
  /\ work' = {Transferred(w, Instruction(w))}
  /\ UNCHANGED <<waiting, callbacks, devices, cut>>

Search == Take \/ \E w \in work : Abandon(w) \/ Stop(w) \/ Follow(w) \/ Branch(w) \/ Call(w) \/ Transfer(w)
Searched == work = {} /\ (waiting = << >> \/ taken >= StepLimit)

-----------------------------------------------------------------------------
(* A run of DriverEntry (external), or of a helper from its call on, no      *)
(* deeper than the search goes: that it goes no deeper is not said in cut.  *)

Start ==
  /\ Searched /\ cpu = {}
  /\ cpu' = {[pc |-> 1, depth |-> 0, mem |-> << >>, heap |-> << >>, flags |-> Unknown,
              regs |-> [r \in Registers |-> IF r = "rcx" THEN Driver
                                            ELSE IF r = "rsp" THEN Val("local", 0) ELSE Junk]]}
  /\ UNCHANGED <<searchVars, performed>>

\* The store that the processor is about to perform.
Performs(s, i) ==
  LET at == AddressOf(s, i.a)
      target == ValueOf(s, driver.data, i.b)
  IN  IF i.op = "mov" /\ i.a.kind = "mem" /\ i.a.size = 8 /\ at.k = "driver" /\ at.n[1] \in Major /\ target.k = "code"
      THEN {[site |-> s.pc, slot |-> (at.n[1] - 112) \div 8, target |-> target.n[1]]} ELSE {}

RunStep ==
  /\ \E s \in cpu :
       /\ s.pc \in DOMAIN driver.code
       /\ LET i == driver.code[s.pc] IN
          /\ performed' = performed \cup Performs(s, i)
          /\ \/ StepsFrom(s, i, driver.data, 32) = {} /\ cpu' = {[s EXCEPT !.pc = 0]}
             \/ \E t \in StepsFrom(s, i, driver.data, 32) :
                  LET entered == i.op = "call" /\ t.pc # s.pc + 1 IN
                  /\ entered => s.depth < DepthLimit /\ \E r \in Arguments : s.regs[r] = Driver
                  /\ cpu' = {[t EXCEPT !.depth = IF entered THEN @ + 1 ELSE @]}
  /\ UNCHANGED searchVars

Next == Search \/ Start \/ RunStep
Spec == Init /\ [][Next]_vars

-----------------------------------------------------------------------------
(* Properties.                                                              *)

Covers(a, s) ==
  /\ a.pc = s.pc /\ a.depth = s.depth
  /\ \A x \in Registers : a.regs[x] # Nothing => s.regs[x] = a.regs[x]
  /\ \A o \in DOMAIN a.stack : o \in DOMAIN s.mem /\ s.mem[o].size = 8 /\ s.mem[o].value = a.stack[o]

\* Unless the search says that it was cut short: every state that DriverEntry or a
\* helper can come to was followed, with values that are the processor's; and a
\* store of an address, kept since its "lea" in registers or locals by moves alone,
\* into the dispatch table is among those reported.
EntryIsFollowed ==
  ~ cut =>
    /\ \A s \in cpu : s.pc # 0 => \E a \in followed : Covers(a, s)
    /\ \A p \in performed : \E r \in stores : r.s = p

\* What is reported as unconditional, of the entry itself, is performed by every run
\* that ends in it.
UnconditionalIsDone ==
  (\E s \in cpu : s.pc = 0 /\ s.depth = 0) =>
    \A r \in stores : ~ r.conditional /\ r.depth = 0 => r.s \in performed

=============================================================================
