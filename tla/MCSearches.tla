----------------------------- MODULE MCSearches -----------------------------
(***************************************************************************)
(* The graph searches of the analyser for TLC, one per behaviour: the      *)
(* callers of a function over every call graph of three functions, the     *)
(* control flow of every code of four addresses over a choice of           *)
(* instructions, and the forward call tree over every code of three        *)
(* functions that make at most two calls each, internal, imported or into  *)
(* a kernel image whose functions have RVAs of their own; and the analyses  *)
(* that follow paths of code, each over a few programs of the Processor    *)
(* that meet its rules, and then the processor over the same programs: IRP *)
(* handlers for DriverIoctl and entries of drivers for DriverDispatch,     *)
(* callers of imported functions for CallArguments, functions of which the *)
(* arguments are shown for ResolutionMachine, and functions whose          *)
(* signature is inferred.  A 32-bit number has six bits here.              *)
(***************************************************************************)
EXTENDS CallTree, RecursiveCfg, CallMap, FiniteSets, FiniteSetsExt, SequencesExt, TLC

CONSTANTS
  Repeated,                          \* caller lists in which a caller repeats
  HalfBits, CodeEnd, StepLimit, WorkLimit, VisitLimit, DepthLimit,    \* see DriverIoctl,
  RootSteps, PendingLimit, StatesPerPc, TableLimit, ProbeSteps, SizeFailures   \* and the others

VARIABLES
  search,  \* the search that runs
  part, program, todo, current, met, steps, codes, checks, truncated, unsupported,
  asked, cpu, violated, failed,
  driver, waiting, work, visits, taken, followed, stores, callbacks, devices, cut, performed,
  listing, place, known, linked, owner, forwards, evidence,
  function, entering, agenda, params, returns, inferring, gaps, doing, paths, uses, exits

-----------------------------------------------------------------------------
(* The programs for the analyses that follow paths.                        *)

P == INSTANCE Processor

Handler(text, data, handlers) == [code |-> text, data |-> data, handlers |-> handlers]
NoData == << >>

\* The code is compared twice; each handler tests a length first.
Compared == Handler(<<
  P!Ins("mov", P!Reg("rax", 8), P!Mem("rdx", 184, 8)),
  P!Ins("mov", P!Reg("rcx", 4), P!Mem("rax", 24, 4)),
  P!Ins("cmp", P!Reg("rcx", 4), P!Imm(20)),
  P!Jump("je", 10),
  P!Ins("cmp", P!Reg("rcx", 4), P!Imm(36)),
  P!Jump("je", 16),
  P!Ins("mov", P!Mem("rdx", 48, 4), P!Imm(7)),
  P!Ins("mov", P!Reg("rax", 4), P!Imm(7)),
  P!Ins("ret", P!None, P!None),
  P!Ins("cmp", P!Mem("rax", 16, 4), P!Imm(8)),
  P!Jump("jb", 14),
  P!Ins("mov", P!Reg("rax", 4), P!Imm(0)),
  P!Ins("ret", P!None, P!None),
  P!Ins("mov", P!Reg("rax", 4), P!Imm(13)),
  P!Ins("ret", P!None, P!None),
  P!Ins("mov", P!Reg("r8", 4), P!Mem("rax", 8, 4)),
  P!Ins("mov", P!Reg("rbx", 4), P!Imm(4)),
  P!Ins("cmp", P!Reg("rbx", 4), P!Reg("r8", 4)),
  P!Jump("ja", 22),
  P!Ins("xor", P!Reg("rax", 4), P!Reg("rax", 4)),
  P!Ins("ret", P!None, P!None),
  P!Ins("push", P!Reg("rdx", 8), P!None),
  P!Ins("calli", P!None, P!None),
  P!Ins("pop", P!Reg("rcx", 8), P!None),
  P!Ins("mov", P!Reg("rax", 4), P!Imm(14)),
  P!Jump("jmp", 21)>>, NoData, {12, 20})

\* The code is reduced step by step, within a range; it is kept in a local, too.
Reduced == Handler(<<
  P!Ins("sub", P!Reg("rsp", 8), P!Imm(32)),
  P!Ins("mov", P!Reg("rax", 8), P!Mem("rdx", 184, 8)),
  P!Ins("mov", P!Reg("rcx", 4), P!Mem("rax", 24, 4)),
  P!Ins("mov", P!Mem("rsp", 16, 4), P!Reg("rcx", 4)),
  P!Ins("cmp", P!Reg("rcx", 4), P!Imm(40)),
  P!Jump("ja", 21),
  P!Ins("cmp", P!Reg("rcx", 4), P!Imm(20)),
  P!Jump("jb", 21),
  P!Ins("sub", P!Reg("rcx", 4), P!Imm(20)),
  P!Jump("je", 19),
  P!Ins("lea", P!Reg("rbx", 4), P!Mem("rcx", 60, 4)),
  P!Ins("test", P!Reg("rbx", 4), P!Reg("rbx", 4)),
  P!Jump("je", 20),
  P!Ins("lea", P!Reg("rsi", 8), P!Mem("rsp", 8, 8)),
  P!Ins("cmp", P!Mem("rsi", 8, 4), P!Imm(40)),
  P!Jump("jne", 21),
  P!Ins("mov", P!Mem("rsi", 4, 8), P!Imm(3)),
  P!Jump("jmp", 22),
  P!Jump("jmp", 21),
  P!Jump("jmp", 21),
  P!Ins("ret", P!None, P!None),
  P!Ins("mov", P!Reg("rcx", 4), P!Mem("rsp", 16, 4)),
  P!Ins("ret", P!None, P!None)>>, NoData, {19, 20, 17})

\* Helpers: one with the request, one with the code and the address of a local.
Helping(deeper) == Handler(<<
  P!Ins("mov", P!Reg("rax", 8), P!Mem("rdx", 184, 8)),
  P!Ins("mov", P!Reg("rsi", 4), P!Mem("rax", 24, 4)),
  P!Ins("mov", P!Mem("rsp", -16, 4), P!Reg("rsi", 4)),
  P!Ins("mov", P!Reg("rcx", 8), P!Reg("rdx", 8)),
  P!Ins("mov", P!Reg("rbx", 8), P!Reg("rax", 8)),
  P!Ins("call", P!Imm(14), P!None),
  P!Ins("mov", P!Reg("rdx", 4), P!Mem("rsp", -16, 4)),
  P!Ins("cmp", P!Reg("rsi", 4), P!Imm(24)),
  P!Jump("jne", 12),
  P!Ins("mov", P!Mem("rbx", 4, 8), P!Imm(0)),
  P!Ins("mov", P!Reg("rcx", 4), P!Mem("rbx", 8, 4)),
  P!Jump("jb", 13),
  P!Ins("ret", P!None, P!None),
  P!Ins("mov", P!Reg("rax", 8), P!Mem("rcx", 184, 8)),
  P!Ins("mov", P!Reg("r8", 8), P!Reg("rcx", 8)),
  P!Ins("cmp", P!Mem("rax", 24, 4), P!Imm(20)),
  P!Jump("jne", 13),
  P!Ins("cmp", P!Mem("rax", 16, 4), P!Imm(8)),
  P!Jump("jae", 13),
  P!Ins("mov", P!Mem("r8", 48, 4), P!Imm(14)),
  P!Ins("call", P!Imm(deeper), P!None),
  P!Ins("ret", P!None, P!None)>>, NoData, {10, 18, 20})

\* A table of codes, indexed with bits of the code, next to one of handlers.
Dispatched == Handler(<<
  P!Ins("mov", P!Reg("rax", 8), P!Mem("rdx", 184, 8)),
  P!Ins("mov", P!Reg("rcx", 4), P!Mem("rax", 24, 4)),
  P!Ins("mov", P!Reg("rdx", 4), P!Reg("rcx", 4)),
  P!Ins("shr", P!Reg("rdx", 4), P!Imm(2)),
  P!Ins("and", P!Reg("rdx", 4), P!Imm(3)),
  P!Ins("cmp", P!Reg("rdx", 4), P!Imm(2)),
  P!Jump("jae", 13),
  P!Ins("lea", P!Reg("r8", 8), P!Mem("rip", 100, 8)),
  P!Ins("cmp", P!Indexed("r8", "rdx", 4, 0, 4), P!Reg("rcx", 4)),
  P!Jump("jne", 13),
  P!Ins("mov", P!Reg("rax", 8), P!Indexed("none", "rdx", 8, 200, 8)),
  P!Ins("jmpi", P!Reg("rax", 8), P!None),
  P!Ins("ret", P!None, P!None),
  P!Ins("ret", P!None, P!None),
  P!Ins("ret", P!None, P!None)>>,
  (100 :> P!Num(16)) @@ (104 :> P!Num(36)) @@ (108 :> P!Num(24)) @@ (200 :> P!Num(14)) @@ (208 :> P!Num(15)), {14, 15})

\* A count that the processor knows as well, and one that goes on for too long.
Counted(times) == Handler(<<
  P!Ins("xor", P!Reg("rbx", 4), P!Reg("rbx", 4)),
  P!Ins("add", P!Reg("rbx", 4), P!Imm(1)),
  P!Ins("cmp", P!Reg("rbx", 4), P!Imm(times)),
  P!Jump("jb", 2),
  P!Ins("mov", P!Reg("rax", 8), P!Mem("rdx", 184, 8)),
  P!Ins("other", P!Mem("rsp", -8, 8), P!None),
  P!Ins("mov", P!Reg("rcx", 4), P!Mem("rax", 24, 4)),
  P!Ins("test", P!Reg("rcx", 4), P!Reg("rcx", 4)),
  P!Jump("js", 11),
  P!Ins("cmp", P!Reg("rbx", 4), P!Reg("rcx", 4)),
  P!Jump("je", 13),
  P!Ins("ret", P!None, P!None),
  P!Ins("ret", P!None, P!None)>>, NoData, IF times < 8 THEN {13} ELSE {})

\* The code kept in a local over a call that is given neither the request nor, in a
\* register, an address in the frame.  The local may lie in the home area of the call,
\* and its address may be an argument on the stack.
Keeping(at, lent) == Handler(<<
  P!Ins("sub", P!Reg("rsp", 8), P!Imm(64)),
  P!Ins("mov", P!Reg("rax", 8), P!Mem("rdx", 184, 8)),
  P!Ins("mov", P!Reg("rcx", 4), P!Mem("rax", 24, 4)),
  P!Ins("mov", P!Mem("rsp", at, 4), P!Reg("rcx", 4)),
  P!Ins("lea", P!Reg("rax", 8), P!Mem("rsp", 48, 8)),
  IF lent THEN P!Ins("mov", P!Mem("rsp", 32, 8), P!Reg("rax", 8)) ELSE P!Ins("xor", P!Reg("rax", 4), P!Reg("rax", 4)),
  P!Ins("xor", P!Reg("rdx", 4), P!Reg("rdx", 4)),
  P!Ins("calli", P!Imm(1), P!None),
  P!Ins("xor", P!Reg("rbx", 4), P!Reg("rbx", 4)),
  P!Ins("cmp", P!Mem("rsp", at, 4), P!Imm(20)),
  P!Jump("je", 13),
  P!Ins("ret", P!None, P!None),
  P!Ins("ret", P!None, P!None)>>, NoData, IF at = 48 /\ ~ lent THEN {13} ELSE {})
Keepings == {Keeping(at, lent) : at \in {8, 48}, lent \in BOOLEAN}

IrpHandlers == Keepings \cup {Compared, Reduced, Helping(14), Helping(22), Dispatched, Counted(2), Counted(12)}
IrpRequests == {[code |-> c, input |-> n, output |-> 12 - n] : c \in {2, 16, 20, 24, 36, 40, 50}, n \in {7, 8, 9}}
Io == INSTANCE DriverIoctl WITH Programs <- IrpHandlers, Requests <- IrpRequests, request <- asked, pending <- todo, visited <- met

-----------------------------------------------------------------------------
(* Entries of drivers for DriverDispatch.                                   *)

DriverCode(text) == [code |-> text, data |-> << >>]
ret == P!Ins("ret", P!None, P!None)

\* Stores through a copy of the object, with an address that a local keeps over a
\* call; a helper that stores in a loop; a branch on what nobody knows, one that is
\* known, and a store that no path comes to.
Filling == DriverCode(<<
  P!Ins("sub", P!Reg("rsp", 8), P!Imm(64)),
  P!Ins("mov", P!Reg("rbx", 8), P!Reg("rcx", 8)),
  P!Ins("lea", P!Reg("rax", 8), P!Mem("rip", 30, 8)),
  P!Ins("mov", P!Mem("rcx", 112, 8), P!Reg("rax", 8)),
  P!Ins("mov", P!Mem("rsp", 40, 8), P!Reg("rax", 8)),
  P!Ins("mov", P!Mem("rsp", 8, 8), P!Reg("rax", 8)),
  P!Ins("call", P!Imm(20), P!None),
  P!Ins("mov", P!Reg("rax", 8), P!Mem("rsp", 40, 8)),
  P!Ins("mov", P!Mem("rbx", 120, 8), P!Reg("rax", 8)),
  P!Ins("mov", P!Reg("rax", 8), P!Mem("rsp", 8, 8)),
  P!Ins("cmp", P!Reg("rax", 8), P!Imm(0)),
  P!Jump("je", 15),
  P!Ins("lea", P!Reg("rsi", 8), P!Mem("rip", 31, 8)),
  P!Ins("mov", P!Mem("rbx", 128, 8), P!Reg("rsi", 8)),
  P!Ins("xor", P!Reg("rsi", 4), P!Reg("rsi", 4)),
  P!Ins("test", P!Reg("rsi", 8), P!Reg("rsi", 8)),
  P!Jump("je", 19),
  P!Ins("mov", P!Mem("rbx", 136, 8), P!Reg("rax", 8)),
  ret,
  P!Ins("mov", P!Reg("rsi", 8), P!Reg("rcx", 8)),
  P!Ins("xor", P!Reg("r8", 8), P!Reg("r8", 8)),
  P!Ins("lea", P!Reg("rax", 8), P!Mem("rip", 32, 8)),
  P!Ins("mov", P!Indexed("rsi", "r8", 8, 144, 8), P!Reg("rax", 8)),
  P!Ins("add", P!Reg("r8", 8), P!Imm(1)),
  P!Ins("cmp", P!Reg("r8", 8), P!Imm(3)),
  P!Jump("jb", 23),
  P!Ins("cmp", P!Reg("rdx", 8), P!Imm(0)),
  P!Jump("je", 30),
  P!Ins("calli", P!Imm(2), P!None),
  ret, ret, ret>>)

\* A record among the locals, whose address is passed; a push, which leaves the
\* locals unknown; a helper that calls itself.
Registering == DriverCode(<<
  P!Ins("push", P!Reg("rbx", 8), P!None),
  P!Ins("mov", P!Reg("rbx", 8), P!Reg("rcx", 8)),
  P!Ins("lea", P!Reg("rax", 8), P!Mem("rip", 18, 8)),
  P!Ins("mov", P!Mem("rsp", -40, 8), P!Reg("rax", 8)),
  P!Ins("lea", P!Reg("r8", 8), P!Mem("rsp", -80, 8)),
  P!Ins("calli", P!Imm(1), P!None),
  P!Ins("mov", P!Reg("rsi", 8), P!Mem("rsp", -40, 8)),
  P!Ins("lea", P!Reg("rsi", 8), P!Mem("rip", 17, 8)),
  P!Ins("mov", P!Mem("rbx", 112, 8), P!Reg("rsi", 8)),
  P!Ins("mov", P!Reg("rdx", 8), P!Reg("rbx", 8)),
  P!Ins("call", P!Imm(13), P!None),
  P!Jump("jmp", 16),
  P!Ins("lea", P!Reg("rax", 8), P!Mem("rip", 18, 8)),
  P!Ins("mov", P!Mem("rdx", 120, 8), P!Reg("rax", 8)),
  P!Ins("call", P!Imm(13), P!None),
  P!Ins("pop", P!Reg("rbx", 8), P!None),
  ret, ret>>)

\* A loop that goes on for too long.
Spinning == DriverCode(<<
  P!Ins("add", P!Reg("rax", 8), P!Imm(1)),
  P!Ins("cmp", P!Reg("rax", 8), P!Imm(9)),
  P!Jump("jne", 1),
  ret>>)

Dispatch == INSTANCE DriverDispatch WITH Drivers <- {Filling, Registering, Spinning}

-----------------------------------------------------------------------------
(* Callers of imported functions for CallArguments.                         *)

Given(name, width) == [name |-> name, width |-> width, out |-> FALSE]
Filled(name) == [name |-> name, width |-> 8, out |-> TRUE]
Api(kind, args, handle) == [kind |-> kind, args |-> args, handle |-> handle]
DeviceControl ==
  Api("other", <<Given("handle", 8), Given("ioctl", 4), Given("input_buffer", 8), Given("input_length", 4),
                 Given("output_buffer", 8), Given("output_length", 4), Filled("bytes_out")>>, FALSE)
Apis == (100 :> DeviceControl) @@ (104 :> Api("other", <<Given("path", 8)>>, TRUE))
        @@ (108 :> Api("init", <<Given("destination", 8), Given("source", 8)>>, FALSE))
        @@ (112 :> Api("device", <<Given("driver_object", 8), Given("extension_size", 4), Given("device_name", 8),
                                   Given("device_type", 4), Given("characteristics", 4), Given("exclusive", 4),
                                   Filled("device_object_out")>>, FALSE))
        @@ (116 :> Api("other", << >>, FALSE))
ImageData == (100 :> P!Val("slot", 100)) @@ (104 :> P!Val("slot", 104)) @@ (108 :> P!Val("slot", 108))
             @@ (112 :> P!Val("slot", 112)) @@ (116 :> P!Val("slot", 116)) @@ (200 :> P!Num(9))
             @@ (240 :> P!Num(6)) @@ (248 :> P!Num(8))
Listing(text, entries) ==
  [code |-> text, data |-> ImageData, apis |-> Apis, texts |-> (220 :> 3),
   owners |-> [pc \in DOMAIN text |-> CHOOSE e \in entries : e <= pc /\ \A f \in entries : f <= pc => f <= e]]
Via(slot) == P!Ins("calli", P!Mem("rip", slot, 8), P!None)

\* A request built among the locals, on two paths that join, with a handle from an
\* earlier call, in a function with a stack probe.
Building == Listing(<<
  P!Ins("push", P!Reg("rbx", 8), P!None),
  P!Ins("mov", P!Reg("rax", 4), P!Imm(48)),
  P!Ins("mov", P!Reg("rsi", 8), P!Reg("rcx", 8)),
  P!Ins("call", P!Imm(40), P!None),
  P!Ins("sub", P!Reg("rsp", 8), P!Reg("rax", 8)),
  P!Ins("sub", P!Reg("rsp", 8), P!Imm(64)),
  P!Ins("lea", P!Reg("rcx", 8), P!Mem("rip", 220, 8)),
  Via(104),
  P!Ins("mov", P!Reg("rbx", 8), P!Reg("rax", 8)),
  P!Ins("mov", P!Mem("rsp", 80, 8), P!Imm(3)),
  P!Ins("mov", P!Mem("rsp", 64, 4), P!Imm(7)),
  P!Ins("cmp", P!Mem("rsi", 8, 4), P!Imm(0)),
  P!Jump("je", 17),
  P!Ins("mov", P!Reg("rdx", 4), P!Imm(20)),
  P!Ins("mov", P!Mem("rsp", 68, 4), P!Imm(9)),
  P!Jump("jmp", 19),
  P!Ins("mov", P!Reg("rdx", 4), P!Imm(24)),
  P!Ins("mov", P!Mem("rsp", 84, 4), P!Imm(9)),
  P!Ins("lea", P!Reg("r8", 8), P!Mem("rsp", 64, 8)),
  P!Ins("mov", P!Reg("r9", 4), P!Imm(16)),
  P!Ins("lea", P!Reg("rax", 8), P!Mem("rsp", 72, 8)),
  P!Ins("mov", P!Mem("rsp", 48, 8), P!Reg("rax", 8)),
  P!Ins("mov", P!Mem("rsp", 40, 4), P!Imm(8)),
  P!Ins("mov", P!Mem("rsp", 32, 8), P!Reg("r8", 8)),
  P!Ins("mov", P!Reg("rcx", 8), P!Reg("rbx", 8)),
  Via(100),
  P!Ins("mov", P!Reg("rdx", 8), P!Mem("rsp", 72, 8)),
  P!Ins("mov", P!Reg("rcx", 8), P!Mem("rsp", 64, 8)),
  P!Ins("mov", P!Reg("rax", 8), P!Mem("rip", 104, 8)),
  P!Ins("calli", P!Reg("rax", 8), P!None),
  P!Jump("jb", 27),
  ret,
  ret, ret, ret, ret, ret, ret, ret,
  P!Ins("sub", P!Reg("rsp", 8), P!Imm(16)),
  ret>>, {1, 40})

\* Arguments that are computed, with a bound; a call through a jump, and a tail jump
\* to it with arguments of the caller; stores that overlap.
Computing == Listing(<<
  P!Ins("cmp", P!Reg("r8", 4), P!Reg("rdx", 4)),
  P!Ins("mov", P!Reg("rbx", 8), P!Mem("rsp", 40, 8)),
  P!Ins("cmova", P!Reg("r8", 4), P!Reg("rdx", 4)),
  P!Ins("imul", P!Reg("r8", 4), P!Imm(5)),
  P!Ins("mov", P!Reg("rdx", 4), P!Reg("r8", 4)),
  P!Ins("sub", P!Reg("rdx", 4), P!Imm(9)),
  P!Ins("mov", P!Reg("rcx", 8), P!Reg("rdx", 8)),
  P!Ins("add", P!Reg("rcx", 8), P!Reg("rbx", 8)),
  P!Ins("lea", P!Reg("r8", 8), P!Mem("rip", 200, 8)),
  P!Ins("mov", P!Reg("r9", 4), P!Imm(4)),
  P!Ins("mov", P!Mem("rsp", 8, 8), P!Imm(6)),
  P!Ins("mov", P!Mem("rsp", 40, 4), P!Imm(5)),
  P!Ins("mov", P!Mem("rsp", 12, 4), P!Imm(8)),
  P!Ins("mov", P!Reg("rcx", 8), P!Mem("rsp", 8, 8)),
  P!Ins("test", P!Mem("rcx", 0, 4), P!Imm(1)),
  P!Jump("jne", 20),
  P!Ins("mov", P!Reg("rdx", 4), P!Imm(30)),
  P!Ins("mov", P!Mem("rsp", 48, 8), P!Reg("rdx", 8)),
  P!Jump("jmp", 22),
  P!Ins("call", P!Imm(22), P!None),
  ret,
  P!Ins("jmpi", P!Mem("rip", 100, 8), P!None),
  P!Ins("mov", P!Mem("rsp", 40, 8), P!Imm(2)),
  P!Ins("lea", P!Reg("r9", 8), P!Mem("rsp", 16, 8)),
  P!Jump("jmp", 22)>>, {1, 22, 23})

\* Strings and devices: the fields of a string among the locals, and what else a
\* call may write; a call of which nothing is known.
Naming == Listing(<<
  P!Ins("sub", P!Reg("rsp", 8), P!Imm(96)),
  P!Ins("mov", P!Mem("rsp", 64, 8), P!Imm(4)),
  P!Ins("lea", P!Reg("rcx", 8), P!Mem("rsp", 60, 8)),
  P!Ins("lea", P!Reg("rdx", 8), P!Mem("rip", 220, 8)),
  Via(108),
  P!Ins("mov", P!Mem("rsp", 24, 8), P!Imm(1)),
  P!Ins("mov", P!Mem("rsp", 80, 8), P!Imm(1)),
  P!Ins("lea", P!Reg("r8", 8), P!Mem("rsp", 60, 8)),
  P!Ins("lea", P!Reg("rax", 8), P!Mem("rsp", 76, 8)),
  P!Ins("mov", P!Mem("rsp", 48, 8), P!Reg("rax", 8)),
  P!Ins("mov", P!Mem("rsp", 40, 8), P!Imm(1)),
  Via(112),
  P!Ins("mov", P!Reg("rcx", 8), P!Mem("rsp", 76, 8)),
  P!Ins("mov", P!Reg("rdx", 8), P!Mem("rsp", 80, 8)),
  P!Ins("mov", P!Reg("r9", 8), P!Mem("rsp", 24, 8)),
  P!Ins("mov", P!Reg("r8", 8), P!Mem("rsp", 68, 8)),
  Via(100),
  Via(116),
  P!Ins("lea", P!Reg("rcx", 8), P!Mem("rsp", 60, 8)),
  Via(116),
  Via(104),
  ret>>, {1})

\* A value of the frame over a call of which nothing is known, that is given the
\* address of it or not.
Lending(lent) == Listing(<<
  P!Ins("sub", P!Reg("rsp", 8), P!Imm(96)),
  P!Ins("mov", P!Mem("rsp", 64, 8), P!Imm(4)),
  P!Ins("lea", P!Reg("rcx", 8), P!Mem(IF lent THEN "rsp" ELSE "rip", IF lent THEN 64 ELSE 220, 8)),
  Via(116),
  P!Ins("mov", P!Reg("rdx", 8), P!Mem("rsp", 64, 8)),
  Via(100),
  ret>>, {1})

\* A jump through a table to code that is fallen into, too, or to code of its own; and
\* a loop.
Switching(to) == Listing(<<
  P!Ins("mov", P!Reg("rdx", 4), P!Imm(3)),
  P!Ins("test", P!Mem("rcx", 0, 4), P!Imm(1)),
  P!Jump("je", 5),
  P!Ins("jmpi", P!Mem("rip", IF to = 6 THEN 240 ELSE 248, 8), P!None),
  P!Ins("mov", P!Reg("rdx", 4), P!Imm(4)),
  Via(100),
  ret,
  P!Ins("mov", P!Reg("r8", 4), P!Imm(5)),
  Via(100),
  P!Jump("jb", 8),
  ret>>, {1})

Calling == INSTANCE CallArguments WITH
  Listings <- {Building, Computing, Naming} \cup {Lending(lent) : lent \in BOOLEAN} \cup {Switching(to) : to \in {6, 8}}, EvidenceLimit <- 8, LocalLimit <- 12, OperandLimit <- 4, OidQuery <- 30

-----------------------------------------------------------------------------
(* Functions for Signature.                                                 *)

R8(r) == P!Reg(r, 8)
R4(r) == P!Reg(r, 4)
Win64(text) == [arch |-> 64, code |-> text]

\* Two of a few instructions, one on each side of a branch, and a loop or a join.
Some == {P!Ins("mov", R8("rax"), R8("rcx")), P!Ins("mov", R8("rcx"), R8("rdx")),
         P!Ins("mov", R4("rax"), P!Mem("rcx", 0, 4)), P!Ins("mov", P!Mem("rsp", 8, 8), R8("r8")),
         P!Ins("calli", R8("rdx"), P!None), P!Ins("cmova", R8("rax"), R8("rdx")),
         P!Ins("add", P!Mem("rdx", 0, 4), P!Imm(1)), P!Ins("lea", R8("rax"), P!Mem("rip", 100, 8)),
         P!Ins("xor", R4("rcx"), R4("rcx"))}
Pushing == P!Ins("push", R8("rdx"), P!None)
Firsts == {P!Ins("mov", R8("rbx"), R8("rcx")), P!Ins("lea", R8("rcx"), P!Mem("rsp", 0, 8))}
Branching ==
  {Win64(<<f, a, P!Jump("je", 5), b, P!Ins("mov", R4("r8"), P!Mem("rsp", 8, 4)), ret>>) :
     f \in Firsts, a \in Some \cup {Pushing}, b \in Some \cup {Pushing}}
  \cup {Win64(<<f, a, b, P!Jump("je", 2), P!Ins("mov", R4("rax"), P!Mem("rcx", 8, 4)), ret>>) :
          f \in Firsts, a \in Some, b \in Some}

Frames == {
  \* A frame pointer, spills into the home area, an argument on the stack, a double.
  Win64(<<P!Ins("push", R8("rbp"), P!None), P!Ins("mov", R8("rbp"), R8("rsp")),
          P!Ins("sub", R8("rsp"), P!Imm(32)), P!Ins("mov", P!Mem("rbp", 16, 8), R8("rcx")),
          P!Ins("mov", P!Mem("rbp", -8, 8), R8("rdx")), P!Ins("mov", R4("rax"), P!Mem("rbp", 48, 4)),
          P!Ins("addsd", P!Reg("xmm1", 16), P!Reg("xmm0", 16)), P!Ins("mov", R8("rbx"), P!Mem("rbp", 16, 8)),
          P!Ins("movzx", R4("r8"), P!Mem("rbx", 4, 2)), P!Ins("mov", P!Mem("rbp", -16, 4), R4("rdx")),
          P!Ins("add", R8("rsp"), P!Imm(32)), P!Ins("pop", R8("rbp"), P!None),
          P!Ins("movsd", P!Reg("xmm0", 16), P!Reg("xmm1", 16)), ret>>),
  Win64(<<P!Ins("addsd", P!Reg("xmm0", 16), P!Reg("xmm1", 16)), P!Ins("movsd", P!Mem("r8", 0, 8), P!Reg("xmm0", 16)),
          P!Jump("je", 5), P!Ins("mov", R8("rbx"), R8("r8")), ret>>),
  \* Six arguments on the stack alone.
  Win64([n \in 1 .. 7 |-> IF n = 7 THEN ret ELSE P!Ins("mov", R4("rax"), P!Mem("rsp", 32 + 8 * n, 4))]),
  \* A store to an unknown place, and a jump to one; a branch out of the function.
  Win64(<<P!Ins("mov", P!Mem("rbx", 0, 8), R8("rcx")), P!Ins("mov", R8("rax"), P!Mem("rsp", 40, 8)),
          P!Jump("je", 5), P!Ins("jmpi", P!Mem("rdx", 0, 8), P!None), P!Jump("jb", 9),
          P!Ins("cmp", P!Mem("r9", 0, 4), P!Imm(0)), ret>>),
  \* Two ways out that do not agree, and two that do.
  Win64(<<P!Ins("cmp", R4("rcx"), P!Imm(0)), P!Jump("je", 5), P!Ins("mov", R4("rax"), P!Imm(1)), ret,
          P!Ins("lea", R8("rax"), P!Mem("rip", 100, 8)), ret>>),
  Win64(<<P!Ins("cmp", R4("rcx"), P!Imm(0)), P!Jump("je", 5), P!Ins("mov", R4("rax"), P!Imm(1)), ret,
          P!Ins("xor", R4("rax"), R4("rax")), P!Jump("jmp", 8), ret, P!Ins("calli", P!Mem("rip", 100, 8), P!None),
          P!Ins("lea", R4("rax"), P!Mem("rdx", 4, 4)), ret>>),
  \* More uses than are listed, and code that is longer than both limits.
  Win64([n \in 1 .. 6 |-> IF n = 6 THEN ret ELSE P!Ins("mov", R4("rax"), P!Mem("rcx", 4 * n, 4))]),
  Win64([n \in 1 .. 26 |-> IF n = 26 THEN ret ELSE P!Ins("mov", R4("rax"), P!Mem(IF n < 24 THEN "rcx" ELSE "rdx", 4 * n, 4))]),
  Win64([n \in 1 .. 22 |-> IF n = 22 THEN ret ELSE P!Ins("add", R4("rax"), R4("rcx"))]),
  \* Arguments of a 32-bit function.
  [arch |-> 32, code |-> <<P!Ins("push", R4("rbp"), P!None), P!Ins("mov", R4("rbp"), R4("rsp")),
          P!Ins("mov", R4("rcx"), P!Mem("rbp", 8, 4)), P!Ins("cmp", P!Mem("rbp", 12, 4), P!Imm(0)),
          P!Jump("je", 7), P!Ins("movzx", R4("rax"), P!Mem("rcx", 1, 1)), P!Ins("mov", R4("rax"), P!Mem("rbp", 16, 4)),
          P!Ins("mov", P!Mem("rcx", 0, 4), R4("rax")), P!Ins("pop", R4("rbp"), P!None), ret>>]}

Sig == INSTANCE Signature WITH
  Functions <- Branching \cup Frames, InstructionLimit <- 24, InferenceSteps <- 20, MaxArgs <- 10,
  EvidenceCap <- 4, SlotLimit <- 9,
  states <- entering, queue <- agenda, steps <- inferring, unresolved <- gaps, met <- paths

-----------------------------------------------------------------------------
(* Functions for ResolutionMachine.                                         *)

Loaders == (72 :> "LoadLibrary") @@ (80 :> "GetModuleHandle") @@ (88 :> "GetProcAddress") @@ (96 :> "other")
Texts == (120 :> P!Num(7)) @@ (124 :> P!Num(1)) @@ (200 :> P!Num(40)) @@ (204 :> P!Num(41)) @@ (208 :> P!Num(0))
         @@ (232 :> P!Num(6)) @@ (236 :> P!Num(0)) @@ (240 :> P!Num(8)) @@ (244 :> P!Num(0))
         @@ (216 :> P!Num(50)) @@ (220 :> P!Num(51)) @@ (224 :> P!Num(0)) @@ (228 :> P!Num(0))
Body(text) ==
  [code |-> text, data |-> Texts, apis |-> Loaders, thunks |-> (60 :> 96), writable |-> {120}, dispatch |-> 104, check |-> 112]
Into(base, disp, size, v) == P!Ins("mov", P!Mem(base, disp, size), v)
From(r, base, disp, size) == P!Ins("mov", P!Reg(r, size), P!Mem(base, disp, size))
AddressIn(r, base, disp) == P!Ins("lea", R8(r), P!Mem(base, disp, 8))

\* An equality, joins, and a local that a call may write.
Joining == Body(<<
  P!Ins("push", R8("rbx"), P!None),
  P!Ins("sub", R8("rsp"), P!Imm(64)),
  P!Ins("mov", R8("rbx"), R8("rcx")),
  Into("rsp", 40, 8, P!Imm(5)),
  Into("rsp", 32, 8, R8("r9")),
  P!Ins("cmp", R4("rdx"), P!Imm(43)),
  P!Jump("jne", 11),
  P!Ins("xchg", R8("rdx"), R8("r8")),
  P!Ins("mov", R8("rsi"), P!Imm(9)),
  Via(96),
  From("rdx", "rsp", 40, 8),
  P!Ins("test", R8("rbx"), R8("rbx")),
  P!Jump("jne", 16),
  P!Ins("mov", R8("rcx"), R8("rbx")),
  P!Jump("jmp", 17),
  Into("rsp", 48, 4, P!Imm(6)),
  AddressIn("r8", "rsp", 48),
  Into("rsp", 48, 4, P!Imm(7)),
  Into("rsp", 56, 8, P!Imm(8)),
  Via(96),
  From("rcx", "rsp", 48, 4),
  From("rdx", "rsp", 56, 8),
  P!Ins("call", P!Imm(60), P!None),
  P!Ins("add", R8("rsp"), P!Imm(64)),
  P!Ins("pop", R8("rbx"), P!None),
  P!Jump("jmp", 60)>>)

\* Modules and functions that are looked up, by texts in the image.
Loading == Body(<<
  P!Ins("sub", R8("rsp"), P!Imm(56)),
  AddressIn("rcx", "rip", 200),
  Via(72),
  P!Ins("mov", R8("rbx"), R8("rax")),
  P!Ins("mov", R8("rcx"), R8("rbx")),
  AddressIn("rdx", "rip", 216),
  Via(88),
  P!Ins("mov", R8("rsi"), R8("rax")),
  Into("rsp", 40, 8, R8("rsi")),
  P!Ins("mov", R8("rcx"), R8("rsi")),
  P!Ins("mov", R8("rdx"), R8("rbx")),
  P!Ins("xor", R4("r8"), R4("r8")),
  From("r9", "rip", 80, 8),
  P!Ins("calli", R8("rsi"), P!None),
  P!Ins("xor", R4("rcx"), R4("rcx")),
  From("rax", "rip", 80, 8),
  Via(112),
  Via(104),
  P!Ins("mov", R8("rcx"), R8("rax")),
  From("rdx", "rip", 120, 8),
  From("r8", "rip", 120, 4),
  AddressIn("r9", "rip", 204),
  P!Ins("call", P!Imm(60), P!None),
  AddressIn("rcx", "rip", 216),
  P!Ins("call", P!Imm(61), P!None),
  AddressIn("rcx", "rip", 216),
  Via(72),
  P!Ins("mov", R8("rdx"), R8("rax")),
  AddressIn("rcx", "rip", 124),
  P!Ins("add", R8("rsp"), P!Imm(56)),
  P!Ins("jmpi", P!Mem("rip", 96, 8), P!None),
  P!Ins("jmpi", P!Indexed("none", "rax", 8, 240, 8), P!None),
  ret>>)

\* Texts in the frame: from immediates, beyond the end of a buffer, encoded, copied.
Spelling == Body(<<
  P!Ins("sub", R8("rsp"), P!Imm(104)),
  Into("rsp", 64, 4, P!Imm(40)),
  Into("rsp", 68, 4, P!Imm(41)),
  Into("rsp", 72, 4, P!Imm(0)),
  AddressIn("rcx", "rsp", 64),
  Via(72),
  P!Ins("mov", R8("rbx"), R8("rax")),
  Into("rsp", 64, 8, P!Imm(2664)),
  Into("rsp", 72, 8, P!Imm(0)),
  AddressIn("rdx", "rsp", 64),
  P!Ins("mov", R8("rcx"), R8("rbx")),
  AddressIn("r8", "rsp", 72),
  Via(88),
  P!Ins("mov", R8("rcx"), R8("rax")),
  P!Ins("mov", R4("rax"), P!Imm(9)),
  P!Ins("xor", R4("rax"), R4("rsi")),
  Into("rsp", 64, 4, P!Imm(50)),
  Into("rsp", 68, 4, R4("rax")),
  Into("rsp", 72, 4, P!Imm(0)),
  AddressIn("rdx", "rsp", 64),
  Via(88),
  P!Ins("xor", R4("rsi"), R4("rsi")),
  From("r8", "rip", 216, 8),
  P!Ins("mov", P!Indexed("rsp", "rsi", 1, 64, 8), R8("r8")),
  From("r8", "rip", 224, 8),
  Into("rsp", 72, 8, R8("r8")),
  AddressIn("rdx", "rsp", 64),
  P!Ins("mov", R8("rcx"), R8("rbx")),
  From("r9", "rdx", 0, 8),
  P!Ins("mov", R8("r8"), P!Indexed("rsp", "rsi", 1, 64, 8)),
  Via(88),
  P!Ins("mov", R8("rcx"), R8("rax")),
  P!Ins("mov", R8("rdx"), R8("rbx")),
  Via(96),
  ret>>)

\* From the TEB to a function that an image exports, and to the image itself.
Walking == Body(<<
  From("rax", "gs", 96, 8),
  From("rax", "rax", 24, 8),
  AddressIn("rsi", "rax", 16),
  From("rcx", "rax", 32, 8),
  From("rcx", "rcx", 0, 8),
  From("rbx", "rcx", 32, 8),
  From("rax", "rbx", 60, 4),
  P!Ins("lea", R8("rdx"), P!Indexed("rbx", "rax", 1, 0, 8)),
  From("rcx", "rdx", 136, 4),
  P!Ins("mov", R4("rcx"), P!Indexed("rbx", "rax", 1, 136, 4)),
  P!Ins("mov", R8("r8"), R8("rbx")),
  P!Ins("add", R8("rcx"), R8("r8")),
  From("r8", "rcx", 28, 4),
  P!Ins("lea", R8("r8"), P!Indexed("rbx", "r8", 1, 0, 8)),
  P!Ins("xor", R4("r9"), R4("r9")),
  P!Ins("mov", R4("r9"), P!Indexed("r8", "r9", 4, 0, 4)),
  P!Ins("add", R8("r9"), R8("rbx")),
  From("rsi", "gs", 48, 8),
  From("rsi", "rsi", 96, 8),
  From("rsi", "rsi", 16, 8),
  P!Ins("add", R8("rax"), R8("rsi")),
  P!Ins("mov", R8("rcx"), R8("rsi")),
  P!Ins("mov", R8("rdx"), R8("rbx")),
  P!Ins("calli", R8("r9"), P!None),
  P!Ins("mov", R8("rcx"), R8("rsi")),
  P!Ins("mov", R8("rdx"), R8("rbx")),
  Via(96),
  ret>>)

\* Numbers in a frame, stored and loaded by halves, and computed; a return in the middle.
Storing == Body(<<
  P!Ins("push", R8("rbp"), P!None),
  P!Ins("mov", R8("rbp"), R8("rsp")),
  P!Ins("sub", R8("rsp"), P!Imm(80)),
  Into("rbp", -16, 8, P!Imm(130)),
  Into("rbp", -12, 4, P!Imm(3)),
  From("rcx", "rbp", -16, 8),
  From("rdx", "rbp", -12, 4),
  Into("rsp", 32, 8, R8("rcx")),
  From("r8", "rbp", 48, 8),
  AddressIn("r9", "rbp", -16),
  From("r9", "r9", 4, 4),
  P!Ins("mov", R4("rax"), P!Imm(37)),
  P!Ins("shl", R4("rax"), P!Imm(2)),
  P!Ins("or", R4("rax"), P!Imm(3)),
  P!Ins("xor", R8("rax"), P!Imm(17)),
  P!Ins("sub", R4("rax"), P!Imm(9)),
  P!Ins("and", R4("rax"), P!Imm(30)),
  P!Ins("shr", R4("rax"), P!Imm(1)),
  P!Ins("add", R8("rax"), R8("rcx")),
  Into("rsp", 40, 8, R8("rax")),
  P!Ins("neg", R8("rax"), P!None),
  P!Ins("inc", R8("rax"), P!None),
  P!Ins("imul", R8("r8"), P!Imm(3)),
  P!Ins("add", P!Mem("rsp", 32, 8), P!Imm(1)),
  Via(96),
  P!Ins("cmova", R8("rcx"), R8("rax")),
  P!Ins("test", R4("rax"), R4("rax")),
  P!Jump("je", 31),
  P!Ins("leave", P!None, P!None),
  ret,
  P!Ins("mov", R8("rcx"), P!Imm(7)),
  P!Ins("lea", R8("rdx"), P!Mem("rsp", 64, 8)),
  Into("rsp", 40, 8, P!Imm(6)),
  Via(96),
  ret>>)

\* Two of a few instructions, and one that a branch may skip, before a call.
Moves == {Into("rsp", 40, 8, R8("rdx")), Into("rsp", 44, 4, P!Imm(3)), From("rdx", "rsp", 40, 8), From("rcx", "rsp", 44, 4),
          AddressIn("rcx", "rsp", 40), P!Ins("mov", R4("rdx"), P!Imm(9)), P!Ins("add", R8("rdx"), R8("rcx")),
          P!Ins("xchg", R8("rcx"), R8("rdx")), P!Ins("sub", R8("rsp"), P!Imm(8)), P!Ins("inc", R8("rcx"), P!None),
          From("r8", "rip", 120, 8), Via(72)}
Mixed == {Body(<<P!Ins("sub", R8("rsp"), P!Imm(64)), a, b, P!Jump("je", 6), c, P!Ins("mov", R8("r9"), R8("rdx")), Via(96), ret>>) :
            a \in Moves, b \in Moves, c \in Moves}

\* A jump through a table to code that is fallen into, too, or to code of its own.
Tabled(to) == Body(<<
  P!Ins("mov", R4("rdx"), P!Imm(3)),
  P!Ins("cmp", P!Mem("rcx", 0, 4), P!Imm(1)),
  P!Jump("je", 5),
  P!Ins("jmpi", P!Mem("rip", IF to = 6 THEN 232 ELSE 240, 8), P!None),
  P!Ins("mov", R4("rdx"), P!Imm(4)),
  Via(96),
  ret,
  P!Ins("mov", R4("rcx"), P!Imm(5)),
  Via(96),
  ret>>)

\* A loop that changes a register and the frame.
Looping == Body(<<
  P!Ins("sub", R8("rsp"), P!Imm(64)),
  P!Ins("mov", R8("rbx"), P!Imm(5)),
  Into("rsp", 40, 8, P!Imm(5)),
  From("rcx", "rsp", 40, 8),
  P!Ins("neg", R8("rbx"), P!None),
  Into("rsp", 40, 8, R8("rbx")),
  P!Ins("mov", R8("rdx"), R8("rbx")),
  Via(96),
  P!Ins("test", R4("rax"), R4("rax")),
  P!Jump("jne", 4),
  ret>>)

Field(size, v) == [size |-> size, value |-> v]
Image(m, h, d, a, f) ==
  (<<m, 60>> :> Field(4, P!Num(h))) @@ (<<m, h + 136>> :> Field(4, P!Num(d)))
  @@ (<<m, d + 28>> :> Field(4, P!Num(a))) @@ (<<m, a>> :> Field(4, P!Num(f)))
Parts(h, d, a, f) == [headers |-> h, directories |-> {d}, array |-> a, functions |-> {f}]
ThisWorld ==
  [self |-> "exe", modules |-> (<<40, 41>> :> "lib") @@ (<<45, 46>> :> "exe"),
   parts |-> [lib |-> Parts(12, 20, 30, 36), exe |-> Parts(16, 24, 34, 42)],
   heap |-> (<<"teb", 96>> :> Field(8, P!Val("peb", 0))) @@ (<<"teb", 48>> :> Field(8, P!Val("teb", 0)))
            @@ (<<"peb", 24>> :> Field(8, P!Val("ldr", 0))) @@ (<<"peb", 16>> :> Field(8, P!Val("exe", 0)))
            @@ (<<"ldr", 32>> :> Field(8, P!Val("first", 16))) @@ (<<"first", 16>> :> Field(8, P!Val("second", 16)))
            @@ (<<"second", 48>> :> Field(8, P!Val("lib", 0)))
            @@ Image("lib", 12, 20, 30, 36) @@ Image("exe", 16, 24, 34, 42)]

RM == INSTANCE ResolutionMachine WITH
  Bodies <- {Joining, Loading, Spelling, Walking, Storing, Looping, Tabled(6), Tabled(8)} \cup Mixed, World <- ThisWorld,
  CapturedArgs <- 12, StackLimit <- 400, TextRoom <- 16, ShownRoom <- 24, LongestName <- 4, ShortestText <- 1,
  Letters <- 33 .. 60, ImageEnd <- 300,
  body <- listing, machine <- known, ended <- linked, shown <- evidence, known <- forwards

-----------------------------------------------------------------------------
signatureVars ==
  <<function, entering, agenda, params, returns, inferring, gaps, doing, paths, uses, exits>>
SignatureIdle ==
  /\ function = 0 /\ entering = 0 /\ agenda = 0 /\ params = 0 /\ returns = 0 /\ inferring = 0
  /\ gaps = 0 /\ doing = 0 /\ paths = 0 /\ uses = 0 /\ exits = 0
callVars == <<listing, place, known, linked, owner, forwards, evidence>>
CallsIdle ==
  /\ listing = 0 /\ place = 0 /\ known = 0 /\ linked = FALSE /\ owner = 0 /\ forwards = 0 /\ evidence = {}
ioctlVars == <<program, todo, current, met, steps, codes, checks, truncated, unsupported,
               asked, violated, failed>>
dispatchVars == <<driver, waiting, work, visits, taken, followed, stores, callbacks, devices, cut, performed>>

IoctlIdle ==
  /\ program = 0 /\ todo = 0 /\ current = 0 /\ met = 0 /\ steps = 0 /\ codes = 0 /\ checks = 0
  /\ truncated = 0 /\ unsupported = 0 /\ asked = 0 /\ violated = 0 /\ failed = 0
DispatchIdle ==
  /\ driver = 0 /\ waiting = 0 /\ work = 0 /\ visits = 0 /\ taken = 0 /\ followed = 0 /\ stores = 0
  /\ callbacks = 0 /\ devices = 0 /\ cut = 0 /\ performed = 0

PathsIdle == part = "none" /\ cpu = {} /\ IoctlIdle /\ DispatchIdle /\ CallsIdle /\ SignatureIdle
pathVars == <<part, ioctlVars, cpu, dispatchVars, callVars, signatureVars>>

PathsInit ==
  \/ part = "ioctl" /\ DispatchIdle /\ CallsIdle /\ SignatureIdle /\ Io!Init
  \/ part = "dispatch" /\ IoctlIdle /\ CallsIdle /\ SignatureIdle /\ Dispatch!Init
  \/ part = "arguments" /\ IoctlIdle /\ DispatchIdle /\ SignatureIdle /\ Calling!Init
  \/ part = "machine" /\ owner = 0 /\ IoctlIdle /\ DispatchIdle /\ SignatureIdle /\ RM!Init
  \/ part = "signature" /\ cpu = {} /\ IoctlIdle /\ DispatchIdle /\ CallsIdle /\ Sig!InferInit
PathsNext ==
  \/ part = "ioctl" /\ Io!Next /\ UNCHANGED <<part, dispatchVars, callVars, signatureVars>>
  \/ part = "dispatch" /\ Dispatch!Next /\ UNCHANGED <<part, ioctlVars, callVars, signatureVars>>
  \/ part = "arguments" /\ Calling!Next /\ UNCHANGED <<part, ioctlVars, dispatchVars, signatureVars>>
  \/ part = "machine" /\ RM!Next /\ UNCHANGED <<part, owner, ioctlVars, dispatchVars, signatureVars>>
  \/ part = "signature" /\ Sig!InferNext /\ UNCHANGED <<part, ioctlVars, cpu, dispatchVars, callVars>>

-----------------------------------------------------------------------------
(* Callers: each listed at most once, or twice where a wrapper export       *)
(* repeats it; --depth zero and both sides of the longest path; budgets on, *)
(* off and small.                                                           *)

Ascending(S) == SetToSortSeq(S, <)
AllGraphs == [Funcs -> {Ascending(S) : S \in SUBSET Funcs} \cup Repeated]
RepeatedCallers == {<<2, 2>>}
SomeOptions == [depth : {0, 2, 3}, maxCallers : {0, 1}, maxTotal : {0, 3}]

(* Code: short and long instructions, branches backwards, forwards, into    *)
(* the middle of an instruction and out of the function, fewer kinds at the  *)
(* last address, and a budget that stops the search in some of them.        *)

Insn(kind, size, target) == [kind |-> kind, size |-> size, target |-> target]
Insns ==
  {Insn("plain", 1, 0), Insn("plain", 2, 0), Insn("ret", 1, 0),
   Insn("indirect", 1, 0), Insn("sys", 1, 0), Insn("int3", 1, 0),
   Insn("unmapped", 1, 0)}
  \cup {Insn("jcc", 1, t) : t \in {0, 2, 4}}
  \cup {Insn("jmp", 2, t) : t \in {0, 3}}
Lasts == {Insn("plain", 1, 0), Insn("plain", 2, 0), Insn("ret", 1, 0),
          Insn("unmapped", 1, 0), Insn("jcc", 1, 0)}
AllCodes == {c \in [0 .. 3 -> Insns] : c[3] \in Lasts}

(* Forward calls: every second call is of a few kinds, and a kernel function *)
(* calls another.                                                           *)

Dispatching == [ApiCall("syscall", 7, FALSE, FALSE) EXCEPT !.classes = {5, 6}]
Internals == {ApiCall("internal", to, FALSE, FALSE) : to \in Funcs}
Matching == ApiCall("import", 0, TRUE, FALSE)
SomeCalls ==
  Internals \cup
  {ApiCall("internal", 3, FALSE, TRUE), Matching, ApiCall("syscall", 8, FALSE, FALSE),
   Dispatching}
Bodies == {<<c>> : c \in SomeCalls} \cup {<<c, d>> : c \in Internals, d \in SomeCalls}
Kernel == [rva \in {7, 8, 9} |->
             CASE rva = 7 -> << >>
               [] rva = 8 -> <<ApiCall("internal", 9, FALSE, FALSE), Matching>>
               [] rva = 9 -> <<Matching>>]
SomeHandlers == 7 :> (6 :> 9)
SomePrograms ==
  {[user |-> <<a, b, c>>, kernel |-> Kernel, handlers |-> SomeHandlers] :
     a \in Bodies, b \in Bodies, c \in {<<ApiCall("internal", 1, FALSE, FALSE)>>, <<Matching>>}}
SomeRequests ==
  [filter : {TRUE}, depth : {3, 7}, maxSubcalls : {64}]
  \cup [filter : {FALSE}, depth : {3}, maxSubcalls : {1}]

-----------------------------------------------------------------------------

\* What the searches that do not run are given.
AGraph == CHOOSE g \in Graphs : TRUE
AnOption == CHOOSE o \in Options : TRUE
ACode == CHOOSE c \in Codes : TRUE
AProgram == CHOOSE p \in Programs : TRUE
ARequest == CHOOSE r \in Requests : TRUE

CallersIdle == graph = AGraph /\ opt = AnOption /\ Init
CodeIdle == code = ACode /\ RecoverInit
MapIdle == calls = AProgram /\ request = ARequest /\ MapInit

SearchInit ==
  \/ search = "callers" /\ CodeIdle /\ MapIdle /\ PathsIdle /\ Init
  \/ search = "code" /\ CallersIdle /\ MapIdle /\ PathsIdle /\ RecoverInit
  \/ search = "calls" /\ CallersIdle /\ CodeIdle /\ PathsIdle /\ MapInit
  \/ search = "paths" /\ CallersIdle /\ CodeIdle /\ MapIdle /\ PathsInit

SearchNext ==
  \/ search = "callers" /\ Next /\ UNCHANGED <<search, cfgVars, mapVars, pathVars>>
  \/ search = "code" /\ RecoverNext /\ UNCHANGED <<search, vars, mapVars, pathVars>>
  \/ search = "calls" /\ MapNext /\ UNCHANGED <<search, vars, cfgVars, pathVars>>
  \/ search = "paths" /\ PathsNext /\ UNCHANGED <<search, vars, cfgVars, mapVars>>

\* The code search is a loop that goes on until it is done.
SearchSpec ==
  /\ SearchInit /\ [][SearchNext]_<<search, vars, cfgVars, mapVars, pathVars>>
  /\ WF_cfgVars(search = "code" /\ RecoverNext)

(* For a claim about --depth: the call tree over codes of four functions of  *)
(* which the last makes a call that matches, next to one graph and one code. *)

DeepBodies == {<<c>> : c \in Internals} \cup {<<c, d>> : c \in Internals, d \in Internals \cup {Matching}}
DeepPrograms ==
  {[user |-> <<a, b, <<c>>, <<Matching>>>>, kernel |-> << >>, handlers |-> << >>] :
     a \in DeepBodies, b \in DeepBodies, c \in Internals}
DeepRequests == [filter : {TRUE}, depth : {3, 6}, maxSubcalls : {64}]

NoCallers == {[f \in Funcs |-> << >>]}
NoCode == {[a \in 0 .. 3 |-> Insn("ret", 1, 0)]}

\* The code search ends on every code, loops and overlaps included.
Terminates == search = "code" ~> cfgPhase = "done"

\* Every path of an IRP handler is followed with values that are the processor's,
\* and the codes it compares are listed, unless the search says that it was cut, up
\* to where the handler reads a local that a call may have changed unseen (see
\* DriverIoctl); and a request that fails a listed length check gets a size error, up
\* to there.  Every path of
\* DriverEntry and its helpers is followed with values that are the processor's, and
\* the stores into the dispatch table on it are reported, unless the search says that
\* it was cut; what is reported as unconditional is done.
PathsAreSound ==
  /\ part = "ioctl" => Io!RequestsAreCovered /\ Io!GuardsAreReal
  /\ part = "dispatch" => Dispatch!EntryIsFollowed /\ Dispatch!UnconditionalIsDone

\* What is listed of the call of an imported function, its arguments and the fields
\* of its buffers, is what the processor passes, on every path but those that reach
\* known code by a jump backwards or through a table, or lend an address in the frame
\* to a function whose signature is not known; and no such call is left out.  What the
\* interpreter knows of registers and of the frame is what the processor has there,
\* and what it shows of the arguments of a call, the texts, modules and functions
\* looked up included, is what is passed, on every path but those through a table to
\* code that is also fallen into.  What is inferred of the parameters of a function,
\* and of what it returns, is what is done with them on the paths through it.
ArgumentsAreReal ==
  /\ part = "arguments" => Calling!ArgumentsAreReal /\ Calling!CallsAreListed
  /\ part = "machine" => RM!ValuesAreHeld
  /\ part = "signature" => Sig!SignatureIsWitnessed

\* What calls.rs:982 says of the locals that it keeps after a call: that they "remain
\* unreachable unless their address was passed to the call", so that what is listed of
\* later calls is what is passed.
LocalsStayUnreachable == part = "arguments" => Calling!LocalsStayUnreachable

=============================================================================
