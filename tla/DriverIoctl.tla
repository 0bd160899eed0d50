------------------------------- MODULE DriverIoctl -------------------------------
(***************************************************************************)
(* The IOCTL codes of a driver (resx/src/analysis/driver/ioctl.rs and its  *)
(* lengths.rs): the paths of a registered IRP handler are followed with    *)
(* what is known of registers, locals and the request code; each           *)
(* comparison of the code is a candidate, and a test of a buffer length    *)
(* with one edge to a size error is a length check.                        *)
(*                                                                         *)
(* Programs of the Processor stand for the image; an address of code is an *)
(* index of its instruction.  When the search has ended, the processor     *)
(* runs the handler on a request (external), to be compared with it.       *)
(***************************************************************************)
EXTENDS Processor, SequencesExt, FiniteSetsExt, TLC

CONSTANTS
  Programs,      \* records of code and data
  Requests,      \* records of code, input and output
  RootSteps,     \* ROOT_STEPS
  PendingLimit,  \* PENDING_LIMIT
  StatesPerPc,   \* 8
  TableLimit,    \* TABLE_LIMIT
  ProbeSteps,    \* 48, of failure_edge
  SizeFailures   \* size_failure

VARIABLES
  program,
  pending, current,   \* the states to be followed; the one that is, or none
  visited, steps,
  codes,              \* out: pairs of a code and the site of its comparison
  checks,             \* length_checks
  truncated,
  unsupported,        \* indirect branches
  request, cpu,       \* the run: what is asked, the processor
  violated, failed    \* of the run: a check was violated; a size error was set

vars == <<program, pending, current, visited, steps, codes, checks, truncated, unsupported,
          request, cpu, violated, failed>>
searchVars == <<program, pending, current, visited, steps, codes, checks, truncated, unsupported>>

-----------------------------------------------------------------------------
(* Values.  "request" is the code of the request plus a wrapping offset.    *)

Nothing == Val("nothing", 0)
Irp == Val("irp", 0)
IoStack == Val("io", 0)
IndexVal(shift, mask) == [k |-> "index", n |-> <<shift, mask>>]
TableVal(base, ix) == [k |-> "table", n |-> <<base>> \o ix.n]
IndexOf(table) == IndexVal(table.n[2], table.n[3])

\* The field of an object that is read, if it is one of those that are known.
Fields == (<<"irp", 184, 8>> :> IoStack) @@ (<<"io", 24, 4>> :> Val("request", 0))
          @@ (<<"io", 16, 4>> :> Val("input", 0)) @@ (<<"io", 8, 4>> :> Val("output", 0))

\* State::entry
Entry(pc) ==
  [pc |-> pc, depth |-> 0,
   regs |-> [r \in Registers |-> IF r = "rdx" THEN Irp ELSE IF r = "rsp" THEN Val("local", 0) ELSE Nothing],
   locals |-> << >>, flags |-> {}, known |-> {}, bounds |-> << >>, table |-> {},
   equal |-> {}, excluded |-> {}, low |-> 0, high |-> Half - 1, valid |-> TRUE]

\* State::reg
Known(s, r, size) ==
  LET v == s.regs[r] IN
  CASE size = 8 -> v
    [] size = 4 /\ v.k = "num" -> Num(v.n[1] % Half)
    [] size = 4 /\ v.k \in {"request", "index", "input", "output"} -> v
    [] OTHER -> Nothing

\* State::permits
Permits(s, c) == c \in s.low .. s.high /\ s.equal \subseteq {c} /\ c \notin s.excluded

\* local_address
IsLocal(s, m) == m.kind = "mem" /\ m.index = "none" /\ m.reg # "rip" /\ m.reg # "none"
                 /\ Known(s, m.reg, 8).k = "local"
LocalAddress(s, m) == Known(s, m.reg, 8).n[1] + m.disp

\* table_address: where a table begins, with the index that is added; data that
\* can be written is no table.
HasTable(s, m, scale) ==
  /\ m.kind = "mem" /\ m.scale = scale /\ m.index # "none"
  /\ Known(s, m.index, 8).k = "index"
  /\ m.reg = "none" \/ Known(s, m.reg, 8).k = "num"
TableAddress(s, m) == m.disp + (IF m.reg = "none" THEN 0 ELSE Known(s, m.reg, 8).n[1])
Readable(base) == base \in DOMAIN program.data

Loaded(s, m) ==
  LET base == IF m.reg \in Registers THEN Known(s, m.reg, 8) ELSE Nothing
      field == <<base.k, m.disp, m.size>>
  IN  IF IsLocal(s, m)
      THEN IF LocalAddress(s, m) \in DOMAIN s.locals /\ s.locals[LocalAddress(s, m)].size = m.size
           THEN s.locals[LocalAddress(s, m)].value ELSE Nothing
      ELSE IF s.valid /\ m.index = "none" /\ field \in DOMAIN Fields THEN Fields[field]
      ELSE IF m.size = 4 /\ HasTable(s, m, 4) /\ Readable(TableAddress(s, m))
      THEN TableVal(TableAddress(s, m), Known(s, m.index, 8))
      ELSE Nothing

\* operand
Value(s, o) ==
  CASE o.kind = "reg" -> Known(s, o.reg, o.size)
    [] o.kind = "imm" -> Num(o.disp)
    [] o.kind = "mem" -> Loaded(s, o)
    [] OTHER -> Nothing

-----------------------------------------------------------------------------
(* Flags and branches.                                                      *)

\* constant_flags
ConstantFlags(op, l, r, size) ==
  LET top == Modulus(size) \div 2
      x == l % Modulus(size)
      y == r % Modulus(size)
      result == (CASE op = "add" -> x + y [] op \in {"sub", "cmp"} -> x - y
                   [] op \in {"test", "and"} -> BitAnd(x, y)) % Modulus(size)
      high(n) == n >= top
  IN  [zero |-> result = 0, sign |-> high(result),
       carry |-> CASE op = "add" -> result < x [] op \in {"sub", "cmp"} -> x < y [] OTHER -> FALSE,
       overflow |-> CASE op = "add" -> high(x) = high(y) /\ high(result) # high(x)
                      [] op \in {"sub", "cmp"} -> high(x) # high(y) /\ high(result) # high(x)
                      [] OTHER -> FALSE]

\* known_branch
KnownBranch(op, f) ==
  CASE op = "je" -> f.zero [] op = "jne" -> ~ f.zero
    [] op = "ja" -> ~ f.carry /\ ~ f.zero [] op = "jae" -> ~ f.carry
    [] op = "jb" -> f.carry [] op = "jbe" -> f.carry \/ f.zero
    [] op = "jl" -> f.sign # f.overflow [] op = "jge" -> f.sign = f.overflow
    [] op = "js" -> f.sign

\* comparison_code: the code that a condition compares the request with, if any.
ComparisonCode(c) ==
  IF c.left.k = "request" /\ c.right.k = "num" THEN {(c.right.n[1] - c.left.n[1]) % Half}
  ELSE IF c.left.k = "num" /\ c.right.k = "request" THEN {(c.left.n[1] - c.right.n[1]) % Half}
  ELSE {}

EqualityRefined(s, c, equal) ==
  LET compared == ComparisonCode(c)
      tables == {v \in {c.left, c.right} : v.k = "table" /\ Val("request", 0) \in {c.left, c.right}}
      bounded == {t \in tables : IndexOf(t) \in DOMAIN s.bounds}
  IN  [s EXCEPT !.equal = IF equal /\ compared # {} THEN compared ELSE @,
                !.excluded = IF equal THEN @ ELSE @ \cup compared,
                !.table = IF ~ equal \/ bounded = {} THEN @
                          ELSE {[base |-> t.n[1], index |-> IndexOf(t), count |-> s.bounds[IndexOf(t)],
                                 site |-> c.site] : t \in bounded}]

\* Mutant: an edge that excludes the bound keeps it, and the other way round.
RangeRefinedByOne(s, c, op, taken) ==
  LET n == c.right.n[1] IN
  CASE <<op, taken>> \in {<<"jb", TRUE>>, <<"jae", FALSE>>} -> [s EXCEPT !.high = Min({@, n - 1})]
    [] <<op, taken>> \in {<<"jbe", TRUE>>, <<"ja", FALSE>>} -> [s EXCEPT !.high = Min({@, n - 1})]
    [] <<op, taken>> \in {<<"ja", TRUE>>, <<"jbe", FALSE>>} -> [s EXCEPT !.low = Max({@, n + 1})]
    [] <<op, taken>> \in {<<"jae", TRUE>>, <<"jb", FALSE>>} -> [s EXCEPT !.low = Max({@, n})]
    [] OTHER -> s

\* The bounds of the code itself; a bound that leaves nothing makes low > high.
RangeRefined(s, c, op, taken) ==
  LET n == c.right.n[1] IN
  CASE <<op, taken>> \in {<<"jb", TRUE>>, <<"jae", FALSE>>} -> [s EXCEPT !.high = Min({@, n - 1})]
    [] <<op, taken>> \in {<<"jbe", TRUE>>, <<"ja", FALSE>>} -> [s EXCEPT !.high = Min({@, n})]
    [] <<op, taken>> \in {<<"ja", TRUE>>, <<"jbe", FALSE>>} -> [s EXCEPT !.low = Max({@, n + 1})]
    [] <<op, taken>> \in {<<"jae", TRUE>>, <<"jb", FALSE>>} -> [s EXCEPT !.low = Max({@, n})]
    [] OTHER -> s

IndexRefined(s, c, op, taken) ==
  LET n == c.right.n[1]
      counts == (IF <<op, taken>> \in {<<"jb", TRUE>>, <<"jae", FALSE>>} THEN {n} ELSE {})
                \cup (IF <<op, taken>> \in {<<"jbe", TRUE>>, <<"ja", FALSE>>} THEN {n + 1} ELSE {})
      old == IF c.left \in DOMAIN s.bounds THEN {s.bounds[c.left]} ELSE {}
  IN  IF {x \in counts : x <= TableLimit} = {} THEN s
      ELSE [s EXCEPT !.bounds = (c.left :> Min(counts \cup old)) @@ @]

\* refine: the state on one edge, or none when the edge cannot be.
Refined(s, op, taken) ==
  LET c == CHOOSE c \in s.flags : TRUE
      equality == op \in {"je", "jne"}
      equal == (op = "je") = taken
      code == ComparisonCode(c)
      impossible == equality /\ IF equal THEN \E n \in code : ~ Permits(s, n) ELSE code # {} /\ s.equal = code
      first == IF equality THEN EqualityRefined(s, c, equal) ELSE s
      second == IF c.left.k = "index" /\ c.right.k = "num" THEN IndexRefined(first, c, op, taken)
                ELSE IF c.left = Val("request", 0) /\ c.right.k = "num" /\ c.right.n[1] < Half
                THEN RangeRefined(first, c, op, taken)
                ELSE first
      possible(t) == t.low <= t.high /\ \A n \in t.equal : Permits(t, n)
  IN  IF s.flags = {} THEN {s}
      ELSE IF impossible THEN {}
      ELSE {t \in {second} : possible(t)}


-----------------------------------------------------------------------------
(* Instructions that go on with the next one.                               *)

Condition(left, right, site) == [left |-> left, right |-> right, site |-> site]
Shifted(op, x, n, modulus) == (IF op = "sub" THEN x - n ELSE x + n) % modulus

\* The value for the destination, or nothing.
ResultValue(s, i, left, right) ==
  LET constant == right.k = "num" IN
  CASE i.op = "mov" -> right
    [] i.op = "lea" ->
         IF i.b.reg = "rip" THEN Num(i.b.disp)
         ELSE IF IsLocal(s, i.b) THEN Val("local", LocalAddress(s, i.b))
         ELSE IF i.a.size = 4 /\ i.b.index = "none" /\ i.b.reg \in Registers /\ Known(s, i.b.reg, 8).k = "request"
         THEN Val("request", (Known(s, i.b.reg, 8).n[1] + i.b.disp) % Half)
         ELSE Nothing
    [] i.op \in {"add", "sub"} /\ constant /\ left.k = "request" /\ i.a.size = 4 ->
         Val("request", Shifted(i.op, left.n[1], right.n[1], Half))
    [] i.op \in {"add", "sub"} /\ constant /\ left.k = "num" ->
         Num(Shifted(i.op, left.n[1], right.n[1], Half * Half))
    [] i.op \in {"add", "sub"} /\ constant /\ left.k = "local" ->
         Val("local", left.n[1] + (IF i.op = "sub" THEN -1 ELSE 1) * Signed(right.n[1], 8))
    [] i.op = "xor" /\ i.a.kind = "reg" /\ i.a = i.b -> Num(0)
    [] i.op = "shr" /\ constant /\ i.a.size = 4 /\ left = Val("request", 0) ->
         IndexVal(right.n[1], Half - 1)
    [] i.op = "and" /\ constant /\ i.a.size = 4 /\ left.k = "index" ->
         IndexVal(left.n[1], BitAnd(left.n[2], right.n[1]))
    [] OTHER -> Nothing

\* What a later branch can know of the flags that the instruction leaves.
NewCondition(s, i, left, right, value) ==
  CASE i.op \in {"add", "sub"} /\ value.k = "request" -> {Condition(value, Num(0), s.pc)}
    [] i.op = "cmp" /\ Nothing \notin {left, right} -> {Condition(left, right, s.pc)}
    [] i.op = "test" /\ left = right /\ left.k = "request" -> {Condition(left, Num(0), s.pc)}
    [] OTHER -> {}
NewFlags(i, left, right) ==
  IF i.op = "xor" /\ i.a.kind = "reg" /\ i.a = i.b THEN {ConstantFlags("sub", 0, 0, 8)}
  ELSE IF left.k = "num" /\ right.k = "num" /\ i.op \in {"add", "sub", "cmp", "test", "and"}
  THEN {ConstantFlags(i.op, left.n[1], right.n[1], i.a.size)}
  ELSE {}

WritesMemory(i) == i.op = "push" \/ (i.a.kind = "mem" /\ i.op \notin {"cmp", "test"})
WritesFlags(i) == i.op \notin {"mov", "lea", "push", "pop"}
WrittenRegisters(i) ==
  (IF i.op \in {"push", "pop"} THEN {"rsp"} ELSE {})
  \cup (IF i.a.kind = "reg" /\ i.op \notin {"cmp", "test", "push"} THEN {i.a.reg} ELSE {})

\* Where a store goes, when it goes to a local.
StoreTo(s, i) ==
  IF i.op = "push" THEN IF Known(s, "rsp", 8).k = "local" THEN {[at |-> Known(s, "rsp", 8).n[1] - 8, size |-> 8]} ELSE {}
  ELSE IF IsLocal(s, i.a) THEN {[at |-> LocalAddress(s, i.a), size |-> i.a.size]} ELSE {}

\* A store to the fields of the request that are read later makes them unknown.
HitsField(s, m) ==
  /\ m.reg \in Registers /\ Known(s, m.reg, 8).k \in {"irp", "io"}
  /\ LET field == IF Known(s, m.reg, 8).k = "irp" THEN <<184, 8>> ELSE <<8, 20>>
     IN  m.index # "none" \/ (m.disp < field[1] + field[2] /\ m.disp + m.size > field[1])

AfterStore(s, i, right) ==
  LET to == StoreTo(s, i)
      apart(o, w) == o + s.locals[o].size <= w.at \/ o >= w.at + w.size
      kept == {o \in DOMAIN s.locals : \A w \in to : apart(o, w)}
      stored == [o \in {w.at : w \in to} |-> [size |-> i.a.size, value |-> right]]
  IN  IF ~ WritesMemory(i) THEN s
      ELSE IF to = {} THEN [s EXCEPT !.locals = << >>, !.valid = @ /\ ~ (i.op # "push" /\ HitsField(s, i.a))]
      ELSE [s EXCEPT !.locals = (IF i.op = "mov" /\ right # Nothing THEN stored ELSE << >>)
                                @@ Restricted(s.locals, kept)]

\* A 4-byte destination takes nothing but numbers and what comes from the request.
Fits(v, size) == v.k = "num" \/ v.k \in {"request", "index", "input", "output"} \/ size = 8
AfterRegisters(s, i, old, value) ==
  LET v == IF value.k = "num" /\ i.a.size = 4 THEN Num(value.n[1] % Half) ELSE value
      to == [r \in Registers |-> IF r \in WrittenRegisters(i) THEN Nothing ELSE s.regs[r]]
      put == IF i.a.kind = "reg" /\ i.op \notin {"cmp", "test", "push"} /\ Fits(value, i.a.size)
             THEN [to EXCEPT ![i.a.reg] = v] ELSE to
      sp == old.n[1] + (IF i.op = "push" THEN -8 ELSE 8)
  IN  IF i.op \in {"push", "pop"} /\ old.k = "local"
      THEN [s EXCEPT !.regs = [put EXCEPT !["rsp"] = Val("local", sp)],
                     !.locals = Restricted(@, DOMAIN @ \ {sp})]
      ELSE [s EXCEPT !.regs = put]

Transferred(s, i) ==
  LET left == Value(s, i.a)
      right == Value(s, i.b)
      value == ResultValue(s, i, left, right)
      done == AfterRegisters(AfterStore(s, i, right), i, Known(s, "rsp", 8), value)
  IN  IF WritesFlags(i)
      THEN [done EXCEPT !.pc = @ + 1, !.flags = NewCondition(s, i, left, right, value),
                        !.known = NewFlags(i, left, right)]
      ELSE [done EXCEPT !.pc = @ + 1]

\* The codes of a table that was compared, when a handler is read with its index.
TableCodes(s, i) ==
  LET slots(t) == 0 .. t.count - 1
      code(t, slot) == program.data[t.base + 4 * slot]
      complete(t, slot) ==
        LET handler == TableAddress(s, i.b) + 8 * slot IN
        /\ {t.base + 4 * slot, handler} \subseteq DOMAIN program.data
        /\ BitAnd(code(t, slot).n[1] \div 2^t.index.n[1], t.index.n[2]) = slot
        /\ program.data[handler].n[1] \in DOMAIN program.code
        /\ Permits(s, code(t, slot).n[1])
  IN  IF i.op = "mov" /\ i.b.kind = "mem" /\ i.b.size = 8 /\ HasTable(s, i.b, 8) /\ Readable(TableAddress(s, i.b))
      THEN UNION {{<<code(t, slot).n[1], t.site>> : slot \in {n \in slots(t) : complete(t, n)}}
                  : t \in {t \in s.table : t.index = Known(s, i.b.index, 8)}}
      ELSE {}


-----------------------------------------------------------------------------
(* Length checks (lengths.rs).  The size error that an edge comes to, as     *)
(* none or one; the edge is followed as far as it does not branch.           *)

IrpStatus(s, i) ==
  /\ i.op = "mov" /\ i.a.kind = "mem" /\ i.a.size = 4 /\ i.a.index = "none" /\ i.a.disp = 48
  /\ i.a.reg \in Registers /\ Known(s, i.a.reg, 8) = Irp

ProbeMoved(s, i, right) ==
  LET value == IF i.op = "mov" THEN right ELSE IF i.op = "xor" /\ i.a.kind = "reg" /\ i.a = i.b THEN Num(0) ELSE Nothing
      cleared == [r \in Registers |-> IF r \in WrittenRegisters(i) THEN Nothing ELSE s.regs[r]]
      fits == i.a.kind = "reg" /\ (i.a.size = 8 \/ value.k = "num")
      v == IF value.k = "num" /\ i.a.size = 4 THEN Num(value.n[1] % Half) ELSE value
  IN  [s EXCEPT !.regs = IF value # Nothing /\ fits THEN [cleared EXCEPT ![i.a.reg] = v] ELSE cleared,
                !.locals = IF WritesMemory(i) THEN << >> ELSE @, !.pc = @ + 1]
AfterProbedCall(s) ==
  [s EXCEPT !.regs = [r \in Registers |-> IF r \in Volatile THEN Nothing ELSE @[r]],
            !.locals = << >>, !.pc = @ + 1]

SizeError(v) == v.k = "num" /\ v.n[1] % Half \in SizeFailures

RECURSIVE FailureEdge(_, _)
\* failure_edge
FailureEdge(s, n) ==
  LET i == program.code[s.pc]
      right == Value(s, i.b)
  IN  IF n = 0 \/ s.pc \notin DOMAIN program.code THEN FALSE
      ELSE IF IrpStatus(s, i) /\ SizeError(right) THEN TRUE
      ELSE CASE i.op = "ret" -> SizeError(Known(s, "rax", 4))
             [] i.op = "jmp" -> FailureEdge([s EXCEPT !.pc = i.a.disp], n - 1)
             [] i.op \in {"call", "calli"} -> FailureEdge(AfterProbedCall(s), n - 1)
             [] i.op \in Conditional \cup {"jmpi"} -> FALSE
             [] OTHER -> FailureEdge(ProbeMoved(s, i, right), n - 1)

Relation == ("je" :> "==") @@ ("jne" :> "!=") @@ ("jb" :> "<") @@ ("jbe" :> "<=") @@ ("ja" :> ">") @@ ("jae" :> ">=")
Inverted(r) == CASE r = "==" -> "!=" [] r = "!=" -> "==" [] r = "<" -> ">=" [] r = "<=" -> ">" [] r = ">" -> "<=" [] r = ">=" -> "<"

\* Mutant: a comparison with the length on the right is negated, not turned.
ReversedByNegation(r) == Inverted(r)

Reversed(r) == CASE r = "<" -> ">" [] r = "<=" -> ">=" [] r = ">" -> "<" [] r = ">=" -> "<=" [] OTHER -> r


\* check: the relation that holds on the edge without the error.  A test with an
\* error on both edges, or on neither, is no check.
Check(s, i) ==
  LET c == CHOOSE c \in s.flags : TRUE
      left == c.left.k \in {"input", "output"} /\ c.right.k = "num"
      right == c.right.k \in {"input", "output"} /\ c.left.k = "num"
      relation == IF left THEN Relation[i.op] ELSE Reversed(Relation[i.op])
      taken == FailureEdge([s EXCEPT !.pc = i.a.disp], ProbeSteps)
      through == FailureEdge([s EXCEPT !.pc = @ + 1], ProbeSteps)
  IN  IF s.flags # {} /\ i.op \in DOMAIN Relation /\ (left \/ right) /\ taken # through
      THEN {[buffer |-> (IF left THEN c.left ELSE c.right).k,
             relation |-> IF taken THEN Inverted(relation) ELSE relation,
             bytes |-> (IF left THEN c.right ELSE c.left).n[1], code |-> code, branch |-> s.pc]
            : code \in s.equal}
      ELSE {}

-----------------------------------------------------------------------------
(* recover: one root.                                                        *)

Init ==
  /\ program \in Programs
  /\ pending = <<Entry(1)>> /\ current = {} /\ visited = {} /\ steps = 0
  /\ codes = {} /\ checks = {} /\ truncated = FALSE /\ unsupported = 0
  /\ request = {} /\ cpu = {} /\ violated = FALSE /\ failed = FALSE

runVars == <<request, cpu, violated, failed>>

Take ==
  /\ current = {} /\ pending # << >> /\ steps < RootSteps
  /\ current' = {Head(pending)} /\ pending' = Tail(pending)
  /\ UNCHANGED <<program, visited, steps, codes, checks, truncated, unsupported, runVars>>

\* The state was followed before, or there are too many at its instruction.
AlreadyMet(s) == s \in visited
Crowded(s) == Cardinality({t \in visited : t.pc = s.pc}) >= StatesPerPc
Abandon(s) ==
  /\ steps >= RootSteps \/ AlreadyMet(s) \/ Crowded(s)
  /\ truncated' = (truncated \/ steps >= RootSteps \/ ~ AlreadyMet(s))
  /\ current' = {}
  /\ UNCHANGED <<program, pending, visited, steps, codes, checks, unsupported, runVars>>

Visit(s) ==
  /\ steps < RootSteps /\ ~ AlreadyMet(s) /\ ~ Crowded(s)
  /\ visited' = visited \cup {s} /\ steps' = steps + 1
  /\ UNCHANGED <<program, runVars>>
Decoded(s) == s.pc \in DOMAIN program.code
Instruction(s) == program.code[s.pc]

Stop(s) ==
  /\ Visit(s)
  /\ ~ Decoded(s) \/ Instruction(s).op \in {"ret", "jmpi"}
  /\ current' = {}
  /\ unsupported' = unsupported + (IF Decoded(s) /\ Instruction(s).op = "jmpi" THEN 1 ELSE 0)
  /\ UNCHANGED <<pending, codes, checks, truncated>>

Follow(s) ==
  /\ Visit(s) /\ Decoded(s) /\ Instruction(s).op = "jmp"
  /\ current' = {[s EXCEPT !.pc = Instruction(s).a.disp]}
  /\ UNCHANGED <<pending, codes, checks, truncated, unsupported>>

\* Queued: what may wait, when there is room.
Queued(states) ==
  LET room == Len(pending) < PendingLimit IN
  /\ pending' = pending \o (IF room THEN SetToSeq(states) ELSE << >>)
  /\ truncated' = (truncated \/ (states # {} /\ ~ room))

Branch(s) ==
  /\ Visit(s) /\ Decoded(s) /\ Instruction(s).op \in Conditional
  /\ LET i == Instruction(s)
         choices == {KnownBranch(i.op, f) : f \in s.known}
         compared == UNION {{<<code, c.site>> : code \in {n \in ComparisonCode(c) : Permits(s, n)}} : c \in s.flags}
         taken == IF FALSE \in choices THEN {} ELSE Refined([s EXCEPT !.pc = i.a.disp], i.op, TRUE)
         through == IF TRUE \in choices THEN {} ELSE Refined([s EXCEPT !.pc = @ + 1], i.op, FALSE)
     IN  /\ checks' = checks \cup Check(s, i)
         /\ codes' = codes \cup IF i.op \in {"je", "jne"} THEN compared ELSE {}
         /\ Queued(taken) /\ current' = through
  /\ UNCHANGED unsupported

\* A call with the request is followed too, with its arguments; the caller goes on
\* with what a call leaves.
Child(s, target) ==
  [Entry(target) EXCEPT
     !.regs = [r \in Registers |-> IF r = "rsp" THEN Val("local", 0)
                                   ELSE IF r \in Arguments /\ s.regs[r].k # "local" THEN s.regs[r] ELSE Nothing],
     !.depth = s.depth + 1, !.equal = s.equal, !.excluded = s.excluded,
     !.low = s.low, !.high = s.high, !.valid = s.valid]
AfterCall(s) ==
  LET passed == {s.regs[r].k : r \in Arguments} IN
  [s EXCEPT !.pc = @ + 1, !.flags = {}, !.known = {},
            !.locals = IF passed \cap {"local", "irp", "io"} # {} THEN << >> ELSE @,
            !.regs = [r \in Registers |-> IF r \in Volatile THEN Nothing ELSE @[r]]]
Relevant(s) == \E r \in Arguments : s.regs[r].k \in {"irp", "io", "request", "input", "output"}

Call(s) ==
  /\ Visit(s) /\ Decoded(s) /\ Instruction(s).op \in {"call", "calli"}
  /\ LET target == Instruction(s).a.disp
         direct == Instruction(s).op = "call" /\ Relevant(s)
         children == IF direct /\ target \in DOMAIN program.code THEN {Child(s, target)} ELSE {}
     IN  IF direct /\ s.depth >= 2
         THEN truncated' = TRUE /\ UNCHANGED pending
         ELSE Queued(children)
  /\ current' = {AfterCall(s)}
  /\ UNCHANGED <<codes, checks, unsupported>>

Transfer(s) ==
  /\ Visit(s) /\ Decoded(s)
  /\ Instruction(s).op \notin {"ret", "jmp", "jmpi", "call", "calli"} \cup Conditional
  /\ codes' = codes \cup TableCodes(s, Instruction(s))
  /\ current' = {Transferred(s, Instruction(s))}
  /\ UNCHANGED <<pending, checks, truncated, unsupported>>

Search == Take \/ \E s \in current : Abandon(s) \/ Stop(s) \/ Follow(s) \/ Branch(s) \/ Call(s) \/ Transfer(s)
Searched == current = {} /\ (pending = << >> \/ steps >= RootSteps)

-----------------------------------------------------------------------------
(* A run of the handler (external).  A handler calls helpers with the        *)
(* request; what they return to the caller is not known.  A call may change  *)
(* its home area and every local that its callee can reach: "taken" holds    *)
(* those that AfterCall does not forget, and a run that reads one goes       *)
(* "beyond" what the search promises.                                        *)

FieldOf(size, v) == [size |-> size, value |-> v]
Processor(r) ==
  [pc |-> 1, depth |-> 0, mem |-> << >>, flags |-> Unknown, taken |-> {}, beyond |-> FALSE,
   regs |-> [x \in Registers |-> IF x = "rdx" THEN Irp ELSE IF x = "rsp" THEN Val("local", 0) ELSE Junk],
   heap |-> (<<"irp", 184>> :> FieldOf(8, IoStack)) @@ (<<"io", 24>> :> FieldOf(4, Num(r.code)))
            @@ (<<"io", 16>> :> FieldOf(4, Num(r.input))) @@ (<<"io", 8>> :> FieldOf(4, Num(r.output)))]

Request ==
  /\ Searched /\ cpu = {}
  /\ \E r \in Requests : request' = {r} /\ cpu' = {Processor(r)}
  /\ UNCHANGED <<searchVars, violated, failed>>

Holds(relation, x, y) ==
  CASE relation = "==" -> x = y [] relation = "!=" -> x # y [] relation = "<" -> x < y
    [] relation = "<=" -> x <= y [] relation = ">" -> x > y [] relation = ">=" -> x >= y
Violates(s, r) == \E c \in checks : c.branch = s.pc /\ c.code = r.code /\ ~ Holds(c.relation, r[c.buffer], c.bytes)
Fails(s, i) ==
  \/ i.op = "ret" /\ SizeError(RegValue(s, "rax", 4))
  \/ /\ i.op = "mov" /\ i.a.kind = "mem" /\ i.a.size = 4 /\ AddressOf(s, i.a) = Val("irp", 48)
     /\ SizeError(ValueOf(s, program.data, i.b))

\* Helpers get the request in a register; they are entered two calls deep, and not
\* on the way to an error, where only their caller matters.
HomeBytes == 32
Helped(s) == \E r \in Arguments : s.regs[r].k \in {"irp", "io"}
TakenBy(s, t) ==
  IF \E r \in Arguments : s.regs[r].k \in {"local", "irp", "io"} THEN {} ELSE DOMAIN s.mem \ DOMAIN t.mem
Reads(s, i) ==
  LET used == (IF i.op = "lea" THEN {} ELSE {i.b}) \cup (IF i.op = "mov" THEN {} ELSE {i.a})
  IN  {AddressOf(s, m) : m \in {m \in used : m.kind = "mem"}}
Enter(s, t) ==
  Helped(s) /\ s.depth < 2 /\ ~ violated /\ cpu' = {[t EXCEPT !.depth = @ + 1, !.taken = {}]}
GoOn(s, i, t) ==
  cpu' = {[t EXCEPT !.taken = (@ \cup (IF i.op \in {"call", "calli"} THEN TakenBy(s, t) ELSE {})) \ DOMAIN t.mem,
                    !.beyond = @ \/ \E o \in s.taken : Val("local", o) \in Reads(s, i)]}
RunStep ==
  /\ \E s \in cpu, r \in request :
       /\ s.pc \in DOMAIN program.code
       /\ LET i == program.code[s.pc]
              after == StepsFrom(s, i, program.data, HomeBytes)
          IN  /\ violated' = (violated \/ Violates(s, r))
              /\ failed' = (failed \/ Fails(s, i))
              /\ \/ after = {} /\ cpu' = {[s EXCEPT !.pc = 0]}
                 \/ \E t \in after : IF i.op = "call" /\ t.pc # s.pc + 1 THEN Enter(s, t) ELSE GoOn(s, i, t)
  /\ UNCHANGED <<searchVars, request>>

Next == Search \/ Request \/ RunStep
Spec == Init /\ [][Next]_vars

-----------------------------------------------------------------------------
(* Properties.                                                              *)

\* What a value of the search stands for, in the run of a request.
Meaning(v, r) ==
  CASE v.k = "request" -> Num((r.code + v.n[1]) % Half)
    [] v.k = "input" -> Num(r.input) [] v.k = "output" -> Num(r.output)
    [] v.k = "index" -> Num(BitAnd(r.code \div 2^v.n[1], v.n[2]))
    [] v.k = "table" -> program.data[v.n[1] + 4 * BitAnd(r.code \div 2^v.n[2], v.n[3])]
    [] OTHER -> v

Covers(a, s, r) ==
  /\ a.pc = s.pc /\ a.depth = s.depth /\ Permits(a, r.code)
  /\ \A x \in Registers : a.regs[x] # Nothing => s.regs[x] = Meaning(a.regs[x], r)
  /\ \A o \in DOMAIN a.locals \ s.taken :
       /\ o \in DOMAIN s.mem /\ s.mem[o].size = a.locals[o].size
       /\ s.mem[o].value = Meaning(a.locals[o].value, r)

\* Unless the search says that it was cut short, every state that the handler can
\* come to, with any request, is one that the search had at that instruction (where
\* no indirect branch stopped it); and an instruction that only one code can reach
\* has that code among those found.  This ends where the handler reads a local that a
\* call may have changed and AfterCall keeps: one in the home area of the call, or one
\* that the callee reaches by an address in the frame, when no argument register holds
\* an address in the frame, the IRP or its stack location.
RequestsAreCovered ==
  \A s \in cpu, r \in request :
     ~ truncated /\ s.pc # 0 /\ ~ s.beyond =>
       /\ unsupported = 0 => \E a \in visited : Covers(a, s, r)
       /\ s.pc \in program.handlers => \E c \in codes : c[1] = r.code

\* A request that breaks a length check on its way, with the code it was listed
\* for, has a size error set or returned before it is left; with the same exception.
GuardsAreReal == violated /\ (\E s \in cpu : s.pc = 0 /\ ~ s.beyond) => failed

=============================================================================
