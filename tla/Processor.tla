------------------------------- MODULE Processor -------------------------------
(***************************************************************************)
(* What an x64 processor and the Windows calling convention make of the    *)
(* instructions that the path analyses of resx follow: the reference for   *)
(* those analyses, not a part of RESX.  A 32-bit number has HalfBits bits  *)
(* here and a 64-bit number twice as many.  A value is a number, an        *)
(* address in the current frame ("local"), a pointer to a kernel object,   *)
(* the address of code, or something nobody knows ("junk").                *)
(***************************************************************************)
EXTENDS Integers, Sequences, FiniteSets

CONSTANTS HalfBits,
          CodeEnd    \* addresses of code lie below, those of data above

Half == 2^HalfBits
Modulus(size) == IF size = 4 THEN Half ELSE Half * Half

Registers == {"rax", "rcx", "rdx", "r8", "r9", "rbx", "rsi", "rsp"}
Arguments == {"rcx", "rdx", "r8", "r9"}
Volatile == {"rax", "rcx", "rdx", "r8", "r9"}

Val(k, n) == [k |-> k, n |-> <<n>>]
Num(n) == Val("num", n)
Junk == Val("junk", 0)

-----------------------------------------------------------------------------
(* Instructions: an operation and two operands.                             *)

Operand(kind, reg, size, index, scale, disp) ==
  [kind |-> kind, reg |-> reg, size |-> size, index |-> index, scale |-> scale, disp |-> disp]
None == Operand("none", "none", 0, "none", 1, 0)
Reg(r, size) == Operand("reg", r, size, "none", 1, 0)
Imm(n) == Operand("imm", "none", 8, "none", 1, n)
Mem(base, disp, size) == Operand("mem", base, size, "none", 1, disp)
Indexed(base, index, scale, disp, size) == Operand("mem", base, size, index, scale, disp)
\* A memory operand relative to the instruction pointer has the base "rip".

Ins(op, a, b) == [op |-> op, a |-> a, b |-> b]
Jump(op, to) == Ins(op, Imm(to), None)   \* jumps and direct calls
Conditional == {"je", "jne", "ja", "jae", "jb", "jbe", "jl", "jge", "js"}

-----------------------------------------------------------------------------
(* Flags are those of a number that is compared or computed; those of       *)
(* something else are not known.                                            *)

Signed(n, size) == IF 2 * n >= Modulus(size) THEN n - Modulus(size) ELSE n

\* The exact result of an operation on integers.
Exact(op, x, y) == IF op = "add" THEN x + y ELSE x - y
BitAnd(x, y) ==
  LET bit(n, k) == (n \div 2^k) % 2
      f[k \in 0 .. 2 * HalfBits] == IF k = 0 THEN 0
                                    ELSE f[k - 1] + bit(x, k - 1) * bit(y, k - 1) * 2^(k - 1)
  IN  f[2 * HalfBits]
ResultOf(op, x, y, size) ==
  (IF op \in {"test", "and"} THEN BitAnd(x, y) ELSE IF op = "shr" THEN x \div 2^y
   ELSE Exact(op, x, y)) % Modulus(size)

Unknown == [known |-> FALSE, zero |-> FALSE, less |-> FALSE, below |-> FALSE, sign |-> FALSE]
Compared(op, x, y, size) ==
  LET r == ResultOf(op, x, y, size)
      arithmetic == op \in {"add", "sub", "cmp"}
  IN  [known |-> TRUE, zero |-> r = 0, sign |-> Signed(r, size) < 0,
       below |-> arithmetic /\ Exact(op, x, y) \notin 0 .. Modulus(size) - 1,
       less |-> IF arithmetic THEN Exact(op, Signed(x, size), Signed(y, size)) < 0
                ELSE Signed(r, size) < 0]

Outcomes(op, f) ==
  IF ~ f.known THEN BOOLEAN
  ELSE {CASE op = "je" -> f.zero [] op = "jne" -> ~ f.zero
          [] op = "jb" -> f.below [] op = "jae" -> ~ f.below
          [] op = "jbe" -> f.below \/ f.zero [] op = "ja" -> ~ f.below /\ ~ f.zero
          [] op = "jl" -> f.less [] op = "jge" -> ~ f.less
          [] op = "js" -> f.sign}

-----------------------------------------------------------------------------
(* A state: pc, regs, mem (the frame: from offsets to a size and a value),  *)
(* heap (the fields of objects, as pairs of an object and an offset) and    *)
(* flags.                                                                   *)

Narrowed(v, size) ==
  IF size = 8 THEN v ELSE IF size = 4 /\ v.k = "num" THEN Num(v.n[1] % Half) ELSE Junk
RegValue(s, r, size) == Narrowed(s.regs[r], size)

\* The address that an operand stands for: a value, moved.
Moving(base, index, m) ==
  IF index.k # "num" \/ base.k \in {"junk", "code"} THEN Junk
  ELSE Val(base.k, base.n[1] + index.n[1] * m.scale + m.disp)
AddressOf(s, m) ==
  Moving(IF m.reg = "rip" \/ m.reg = "none" THEN Num(0) ELSE RegValue(s, m.reg, 8),
         IF m.index = "none" THEN Num(0) ELSE RegValue(s, m.index, 8), m)

Overlapping(mem, at, size) == {o \in DOMAIN mem : o < at + size /\ at < o + mem[o].size}
Restricted(f, D) == [x \in D |-> f[x]]
Written(mem, at, size, v) ==
  LET kept == DOMAIN mem \ Overlapping(mem, at, size)
  IN  [o \in kept \cup {at} |-> IF o = at THEN [size |-> size, value |-> v] ELSE mem[o]]

Stored(f, key, size) == IF key \in DOMAIN f /\ f[key].size = size THEN f[key].value ELSE Junk
LoadAt(s, data, at, size) ==
  IF at.k = "local" THEN Stored(s.mem, at.n[1], size)
  ELSE IF at.k = "num" THEN IF at.n[1] \in DOMAIN data THEN data[at.n[1]] ELSE Junk
  ELSE Stored(s.heap, <<at.k, at.n[1]>>, size)
Load(s, data, m) == LoadAt(s, data, AddressOf(s, m), m.size)

ValueOf(s, data, operand) ==
  CASE operand.kind = "reg" -> RegValue(s, operand.reg, operand.size)
    [] operand.kind = "imm" -> Num(operand.disp)
    [] operand.kind = "mem" -> Load(s, data, operand)
    [] OTHER -> Junk

SetReg(s, r, size, v) == [s EXCEPT !.regs[r] = Narrowed(v, size)]

\* A store through something unknown is taken to hit nothing in the frame.
StoreAt(s, at, size, v) ==
  LET hit(f) == /\ f[1] = at.k
                /\ f[2] < at.n[1] + size /\ at.n[1] < f[2] + s.heap[f].size
  IN  IF at.k = "local" THEN [s EXCEPT !.mem = Written(@, at.n[1], size, v)]
      ELSE [s EXCEPT !.heap = [f \in DOMAIN @ |-> IF hit(f) THEN [@[f] EXCEPT !.value = Junk] ELSE @[f]]]
Store(s, m, v) == StoreAt(s, AddressOf(s, m), m.size, v)

Put(s, operand, v) ==
  CASE operand.kind = "reg" -> SetReg(s, operand.reg, operand.size, v)
    [] operand.kind = "mem" -> Store(s, operand, v)
    [] OTHER -> s

-----------------------------------------------------------------------------
(* Steps.                                                                   *)

OnNumbers(s, i, op, x, y, size) ==
  [(IF op \in {"cmp", "test"} THEN s ELSE Put(s, i.a, Num(ResultOf(op, x, y, size))))
     EXCEPT !.flags = IF op = "shr" THEN Unknown ELSE Compared(op, x, y, size)]
OnOthers(s, i, x, y) ==
  [(IF i.op \in {"cmp", "test"} THEN s
    ELSE Put(s, i.a, IF x.k = "local" /\ y.k = "num" /\ i.op \in {"add", "sub"}
                     THEN Val("local", Exact(i.op, x.n[1], Signed(y.n[1], 8))) ELSE Junk))
     EXCEPT !.flags = Unknown]
CombinedOf(s, i, x, y) ==
  IF i.op = "xor" /\ i.a = i.b THEN OnNumbers(s, i, "sub", 0, 0, i.a.size)
  ELSE IF x.k = "num" /\ y.k = "num"
  THEN OnNumbers(s, i, i.op, x.n[1] % Modulus(i.a.size), y.n[1] % Modulus(i.a.size), i.a.size)
  ELSE OnOthers(s, i, x, y)
Arithmetic(s, data, i) == CombinedOf(s, i, ValueOf(s, data, i.a), ValueOf(s, data, i.b))

Product(x, y, size) ==
  IF x.k = "num" /\ y.k = "num" THEN Num((x.n[1] * y.n[1]) % Modulus(size)) ELSE Junk
Moved(s, i, data) ==
  CASE i.op = "mov" -> Put(s, i.a, ValueOf(s, data, i.b))
    [] i.op = "lea" -> Put(s, i.a, IF i.b.reg = "rip" THEN (IF i.b.disp < CodeEnd THEN Val("code", i.b.disp) ELSE Num(i.b.disp)) ELSE AddressOf(s, i.b))
    [] i.op = "push" ->
         Store([s EXCEPT !.regs["rsp"] = Val("local", @.n[1] - 8)], Mem("rsp", 0, 8), ValueOf(s, data, i.a))
    [] i.op = "pop" ->
         Put([s EXCEPT !.regs["rsp"] = Val("local", @.n[1] + 8)], i.a, Load(s, data, Mem("rsp", 0, 8)))
    [] i.op = "cmova" ->
         LET taken == ~ s.flags.below /\ ~ s.flags.zero
         IN  Put(s, i.a, IF ~ s.flags.known THEN Junk ELSE ValueOf(s, data, IF taken THEN i.b ELSE i.a))
    [] i.op = "imul" ->
         [Put(s, i.a, Product(ValueOf(s, data, i.a), ValueOf(s, data, i.b), i.a.size))
            EXCEPT !.flags = Unknown]
    [] i.op = "other" -> [Put(s, i.a, Junk) EXCEPT !.flags = Unknown]
    [] OTHER -> Arithmetic(s, data, i)

\* After a call: its frame is gone, and so is what it could reach.  It may use the
\* home bytes above the return address, and every local whose address is passed
\* in a register or lies in the frame.
Escaped(s) == \/ \E r \in Arguments : s.regs[r].k = "local"
              \/ \E o \in DOMAIN s.mem : s.mem[o].value.k = "local"
Returned(s, home) ==
  LET sp == s.regs["rsp"].n[1]
      used == Overlapping(s.mem, sp, home)
  IN  [s EXCEPT !.pc = @ + 1, !.flags = Unknown,
                !.regs = [r \in Registers |-> IF r \in Volatile THEN Junk ELSE @[r]],
                !.mem = IF Escaped(s) THEN << >> ELSE Restricted(@, DOMAIN @ \ used)]

\* In the callee: the arguments, in a frame of its own.  The addresses of the
\* caller's locals lie outside it.
Entered(s, target) ==
  [s EXCEPT !.pc = target, !.flags = Unknown, !.mem = << >>,
            !.regs = [r \in Registers |-> IF r = "rsp" THEN Val("local", 0)
                                          ELSE IF r \in Arguments /\ @[r].k # "local" THEN @[r] ELSE Junk]]

\* The states after one instruction; none after the last.
StepsFrom(s, i, data, home) ==
  CASE i.op = "ret" -> {}
    [] i.op = "jmpi" -> {[s EXCEPT !.pc = v.n[1]] : v \in {v \in {ValueOf(s, data, i.a)} : v.k \in {"num", "code"}}}
    [] i.op = "jmp" -> {[s EXCEPT !.pc = i.a.disp]}
    [] i.op \in Conditional ->
         {[s EXCEPT !.pc = IF t THEN i.a.disp ELSE @ + 1] : t \in Outcomes(i.op, s.flags)}
    [] i.op = "call" -> {Returned(s, home), Entered(s, i.a.disp)}
    [] i.op = "calli" -> {Returned(s, home)}
    [] OTHER -> {[Moved(s, i, data) EXCEPT !.pc = @ + 1]}

=============================================================================
