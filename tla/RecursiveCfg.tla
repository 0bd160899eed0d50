---------------------------- MODULE RecursiveCfg ----------------------------
(***************************************************************************)
(* Recovery of a function's control flow graph by recursive descent        *)
(* (recover_recursive_cfg in                                               *)
(* resx/src/analysis/reconstruction/recursive_cfg.rs): a queue of block    *)
(* starts, each decoded linearly until a branch, a return or a limit       *)
(* (disassemble_at in resx/src/analysis/algorithms/disasm.rs), whose edges *)
(* feed the queue.                                                         *)
(*                                                                         *)
(* An address is a natural number and the function is 0 .. End - 1.  What  *)
(* an address decodes to is an input: any code.  Instructions overlap      *)
(* freely, since any address can be the target of a branch.  An            *)
(* instruction that the section's bytes end inside is part of the code: it *)
(* decodes so wherever a block begins.  One that a block's own byte limit  *)
(* ends inside is not: that depends on where the block begins.             *)
(***************************************************************************)
EXTENDS Naturals, FiniteSets, Sequences

CONSTANTS
  End,         \* the first address after the function
  Codes,       \* the codes considered: what each address decodes to
  BlockLimit,  \* instructions decoded at a time (max_insns)
  MaxBytes,    \* bytes decoded at a time (max_bytes)
  MaxTotal     \* bound on the block starts considered (max_total)

Kinds == {"plain", "jcc", "jmp", "indirect", "ret", "int3", "sys", "unmapped"}

\* The bounds have a floor in the code, and an instruction has a length.
ASSUME CodeAssumption ==
  /\ End \in Nat \ {0} /\ MaxTotal \in Nat
  /\ BlockLimit \in Nat \ {0} /\ MaxBytes \in Nat \ {0}
  /\ Codes \subseteq [0 .. End - 1 -> [kind : Kinds, size : Nat \ {0}, target : Nat]]

Addresses == 0 .. End - 1

VARIABLES
  code,        \* what each address decodes to
  queue,       \* block starts to visit
  seen,        \* block starts visited
  blocks,      \* block_map: the starts of the blocks decoded
  edges,       \* edges between blocks
  discovered,  \* targets of edges
  unresolved,  \* indirect jumps
  notes,       \* block starts that are not file bytes
  cfgPhase     \* "loop" or "done"

cfgVars == <<code, queue, seen, blocks, edges, discovered, unresolved, notes, cfgPhase>>

-----------------------------------------------------------------------------
(* Decoding.                                                                *)

\* same_function_range
InFunction(a) == a < End

\* pe.rva_to_offset and disassemble_at succeed
Decodable(a) == code[a].kind # "unmapped"

NextRva(a) == a + code[a].size

\* terminates_block; an int3 ends the linear decoding of a function that
\* .pdata does not bound.
Stops(a) == code[a].kind \in {"jcc", "jmp", "indirect", "ret", "int3"}

\* Instructions that follow each other, none of which ends a block before the last.
Straight(insns) ==
  /\ \A i \in 1 .. Len(insns) - 1 : insns[i + 1] = NextRva(insns[i]) /\ ~Stops(insns[i])
  /\ \A i \in 1 .. Len(insns) : Decodable(insns[i])

\* The bytes handed to the decoder end at the length of the function, too.
ByteLimit == IF MaxBytes < End THEN MaxBytes ELSE End

RunsFrom(start) ==
  {insns \in UNION {[1 .. n -> {a \in start .. End - 1 : a < start + ByteLimit}] :
                      n \in 1 .. BlockLimit} :
     insns[1] = start /\ Straight(insns)}

\* disassemble_at goes on as long as it can.
BlockAt(start) ==
  LET runs == RunsFrom(start)
  IN CHOOSE insns \in runs : \A other \in runs : Len(other) <= Len(insns)

LastOf(start) == LET insns == BlockAt(start) IN insns[Len(insns)]

\* The byte limit ends inside the last instruction, which decodes as an invalid
\* one of the bytes that are left.
Torn(start) == NextRva(LastOf(start)) > start + ByteLimit

LastKind(start) == IF Torn(start) THEN "plain" ELSE code[LastOf(start)].kind
BlockEnd(start) == IF Torn(start) THEN start + ByteLimit ELSE NextRva(LastOf(start))

Edge(start, kind, to) == [from |-> start, kind |-> kind, to |-> to]

\* Mutant: a conditional branch has its taken edge only.
BlockEdgesTakenOnly(start) ==
  LET kind == LastKind(start)
      target == code[LastOf(start)].target
  IN CASE kind \in {"jcc", "jmp"} -> {Edge(start, "jump", target)}
       [] kind \in {"plain", "int3"} -> {Edge(start, "fallthrough", BlockEnd(start))}
       [] OTHER -> {}

\* block_edges with a target: by the last instruction of the block.
BlockEdges(start) ==
  LET kind == LastKind(start)
      target == code[LastOf(start)].target
  IN CASE kind = "jcc" -> {Edge(start, "taken", target),
                           Edge(start, "fallthrough", BlockEnd(start))}
       [] kind = "jmp" -> {Edge(start, "jump", target)}
       [] kind \in {"plain", "int3"} -> {Edge(start, "fallthrough", BlockEnd(start))}
       [] OTHER -> {}

-----------------------------------------------------------------------------

RecoverInit ==
  /\ code \in Codes
  /\ queue = <<0>>
  /\ seen = {} /\ blocks = {} /\ edges = {} /\ discovered = {}
  /\ unresolved = {} /\ notes = {}
  /\ cfgPhase = "loop"

\* Mutant: a block start seen before goes to the end of the queue.
SkipSeenRequeued ==
  /\ cfgPhase = "loop" /\ queue # <<>>
  /\ Head(queue) \in seen
  /\ queue' = Append(Tail(queue), Head(queue))
  /\ UNCHANGED <<code, seen, blocks, edges, discovered, unresolved, notes, cfgPhase>>

\* The block start was visited before.
SkipSeen ==
  /\ cfgPhase = "loop" /\ queue # <<>>
  /\ Head(queue) \in seen
  /\ queue' = Tail(queue)
  /\ UNCHANGED <<code, seen, blocks, edges, discovered, unresolved, notes, cfgPhase>>

\* seen.len() > max_total, after the start was inserted.
WithinBudget(visited) == Cardinality(visited) <= MaxTotal

\* Take a new block start off the queue and count it.
Visit(start) ==
  /\ cfgPhase = "loop" /\ queue # <<>>
  /\ start = Head(queue) /\ start \notin seen
  /\ seen' = seen \cup {start}
  /\ queue' = Tail(queue)

\* The budget is used up: the start is counted and dropped.
DropOverBudget(start) ==
  /\ Visit(start)
  /\ ~WithinBudget(seen')
  /\ UNCHANGED <<code, blocks, edges, discovered, unresolved, notes, cfgPhase>>

\* A start that has no bytes in the file, or that does not decode, leaves a
\* note.
NoteUndecodable(start) ==
  /\ Visit(start)
  /\ WithinBudget(seen')
  /\ ~Decodable(start)
  /\ notes' = notes \cup {start}
  /\ UNCHANGED <<code, blocks, edges, discovered, unresolved, cfgPhase>>

\* The edges whose targets are queued.
Inside(found) == {e \in found : InFunction(e.to)}

\* The targets in the order of block_edges: taken before fallthrough, at most one of
\* each.
InOrder(found) ==
  LET falls == {e \in found : e.kind = "fallthrough"}
      Target(s) == IF s = {} THEN <<>> ELSE <<(CHOOSE e \in s : TRUE).to>>
  IN Target(found \ falls) \o Target(falls)

\* Mutant: nothing is queued when the block was cut by the decoding limit.
DecodeBlockWhole(start) ==
  /\ cfgPhase = "loop" /\ queue # <<>>
  /\ start = Head(queue) /\ start \notin seen
  /\ seen' = seen \cup {start}
  /\ WithinBudget(seen') /\ Decodable(start)
  /\ blocks' = blocks \cup {start}
  /\ \E found \in {BlockEdges(start)} :
       /\ edges' = edges \cup found
       /\ discovered' = discovered \cup {e.to : e \in found}
       /\ queue' = Tail(queue) \o
            (IF Stops(LastOf(start)) THEN InOrder(Inside(found)) ELSE <<>>)
  /\ UNCHANGED <<code, unresolved, notes, cfgPhase>>

\* Decode a block, record its edges and queue their targets in the function.
DecodeBlock(start) ==
  /\ cfgPhase = "loop" /\ queue # <<>>
  /\ start = Head(queue) /\ start \notin seen
  /\ seen' = seen \cup {start}
  /\ WithinBudget(seen') /\ Decodable(start)
  /\ blocks' = blocks \cup {start}
  /\ \E found \in {BlockEdges(start)} :
       /\ edges' = edges \cup found
       /\ discovered' = discovered \cup {e.to : e \in found}
       /\ queue' = Tail(queue) \o InOrder(Inside(found))
  /\ unresolved' = unresolved \cup
       (IF LastKind(start) = "indirect" THEN {LastOf(start)} ELSE {})
  /\ UNCHANGED <<code, notes, cfgPhase>>

EndSearch ==
  /\ cfgPhase = "loop" /\ queue = <<>>
  /\ cfgPhase' = "done"
  /\ UNCHANGED <<code, queue, seen, blocks, edges, discovered, unresolved, notes>>

RecoverNext ==
  \/ SkipSeen
  \/ \E start \in Addresses : DropOverBudget(start)
  \/ \E start \in Addresses : NoteUndecodable(start)
  \/ \E start \in Addresses : DecodeBlock(start)
  \/ EndSearch

RecoverSpec == RecoverInit /\ [][RecoverNext]_cfgVars

-----------------------------------------------------------------------------
(* Properties.                                                              *)

RecoverTypeOK ==
  /\ code \in Codes
  /\ \A i \in 1 .. Len(queue) : queue[i] \in Addresses
  /\ blocks \subseteq seen /\ seen \subseteq Addresses
  /\ notes \subseteq seen \ blocks
  /\ unresolved \subseteq Addresses
  /\ \A e \in edges : e.from \in blocks
  /\ cfgPhase \in {"loop", "done"}

InstructionsAt(start) == LET insns == BlockAt(start) IN {insns[i] : i \in 1 .. Len(insns)}
Instructions == UNION {InstructionsAt(s) : s \in blocks}

Successors(a) ==
  CASE code[a].kind = "jcc" -> {code[a].target, NextRva(a)}
    [] code[a].kind = "jmp" -> {code[a].target}
    [] code[a].kind \in {"plain", "int3", "sys"} -> {NextRva(a)}
    [] OTHER -> {}

\* Instructions that control does not leave once it has entered at `from`, save
\* behind those where it is taken to end.
Closed(insns, from, ends) ==
  /\ \A a \in from : InFunction(a) /\ Decodable(a) => a \in insns
  /\ \A a \in insns \ ends : \A b \in Successors(a) : InFunction(b) /\ Decodable(b) => b \in insns

\* The instructions that control can reach so.
Reachable(from, ends) ==
  LET closed == {insns \in SUBSET Addresses : Closed(insns, from, ends)}
  IN {a \in Addresses : \A insns \in closed : a \in insns}

\* Where the blocks begin that a torn instruction leads to: in its middle.
Seams == {BlockEnd(s) : s \in {b \in blocks : Torn(b)}}

\* The instructions of a block whose way on is known: not a torn one, nor a
\* system call that a limit makes the last one.
FollowedAt(start) ==
  InstructionsAt(start) \
    (IF Torn(start) \/ code[LastOf(start)].kind = "sys" THEN {LastOf(start)} ELSE {})
DeadEnds == Instructions \ UNION {FollowedAt(s) : s \in blocks}

\* However blocks were split by the limits or overlap, they hold instructions
\* that control can reach from the entry or from a seam only, and, unless the
\* budget stopped the search, all that it can reach from the entry without
\* passing a dead end.
ReachedExactly ==
  /\ Instructions \subseteq Reachable({0} \cup Seams, {})
  /\ cfgPhase = "done" /\ Cardinality(seen) <= MaxTotal
       => Reachable({0}, DeadEnds) \subseteq Instructions

\* Every edge into the function leads to a block, or to a start that is noted
\* as undecodable, when no budget stopped the search.
EdgesClosed ==
  cfgPhase = "done" /\ Cardinality(seen) <= MaxTotal =>
    \A e \in edges : InFunction(e.to) => e.to \in blocks \cup notes

\* The blocks hold the instructions that control can reach, and no others, but
\* for what the byte limit tears: an instruction that straddles it is followed at
\* its middle, and nowhere else; when no budget stops the search, every edge into
\* the function leads to a block, or to a start that is noted as undecodable.
BlocksExact == ReachedExactly /\ EdgesClosed

=============================================================================
