---------------------------- MODULE SearchProofs ----------------------------
(***************************************************************************)
(* Three searches of a graph, for every graph they may be given and all    *)
(* limits: the tree of callers (CallTree), the blocks of a function        *)
(* (RecursiveCfg), which work from a queue, and the forward call tree      *)
(* (CallMap), which works from a stack.                                    *)
(***************************************************************************)
EXTENDS CallTree, RecursiveCfg, CallMap, SequenceTheorems, FiniteSetTheorems,
        WellFoundedInduction, TLAPS

NodeType == [func : Funcs, parent : Nat, depth : Nat, truncated : BOOLEAN]

\* Types, with the inputs reduced to what the steps use of them.
Types ==
  /\ graph \in [Funcs -> Seq(Funcs)]
  /\ opt.depth \in Nat /\ opt.maxCallers \in Nat /\ opt.maxTotal \in Nat
  /\ flat \in Seq(NodeType)
  /\ level \in Nat /\ total \in Nat /\ parent \in 0 .. Len(flat)
  /\ frontier \in Seq(Nodes) /\ next \in Seq(Nodes)
  /\ pending \in Seq(Funcs)
  /\ phase \in {"level", "target", "callers", "done"}

\* The visited set is the set of functions of the tree.
VisitedExact ==
  /\ visited \subseteq Funcs
  /\ \A i \in Nodes : flat[i].func \in visited
  /\ \A f \in visited : \E i \in Nodes : flat[i].func = f

\* A node that is, was or will be expanded: the first of its function.
Expandable(i) == i \in Nodes /\ FirstSighting(i)

FreshAt(nodes, depth) ==
  \A k \in 1 .. Len(nodes) :
    Expandable(nodes[k]) /\ flat[nodes[k]].depth = depth

FrontierFresh ==
  /\ FreshAt(frontier, level)
  /\ phase \in {"target", "callers"} => FreshAt(next, level + 1)
  /\ phase = "callers" => Expandable(parent) /\ flat[parent].depth = level

ParentsFresh == \A i \in 2 .. Len(flat) : FirstSighting(flat[i].parent)

\* Depths so far; the level being expanded is within --depth.
Layers ==
  /\ Len(flat) >= 1
  /\ BreadthFirst
  /\ level <= opt.depth
  /\ phase \in {"target", "callers"} =>
       level < opt.depth /\ flat[Len(flat)].depth <= level + 1
  /\ phase = "level" => flat[Len(flat)].depth <= level

Counted == total = Len(flat) - 1

IInv ==
  /\ graph \in Graphs /\ opt \in Options
  /\ Types /\ VisitedExact /\ FrontierFresh /\ ParentsFresh /\ Layers
  /\ Counted /\ TotalBounded

LEMMA InitIInv == Init => IInv
<1> SUFFICES ASSUME Init PROVE IInv
  OBVIOUS
<1> USE FuncsAssumption, GraphsAssumption, OptionsAssumption
<1>1. /\ flat = <<Node(Root, 0, 0, FALSE)>> /\ Len(flat) = 1
      /\ Nodes = {1} /\ flat[1] = Node(Root, 0, 0, FALSE)
      /\ Node(Root, 0, 0, FALSE) \in NodeType
  BY DEF Init, Nodes, Node, NodeType
<1>2. Types
  <2>1. graph \in [Funcs -> Seq(Funcs)] /\ opt \in [depth : Nat, maxCallers : Nat,
                                                  maxTotal : Nat]
    BY DEF Init
  <2>2. flat \in Seq(NodeType)
    <3> DEFINE root == Node(Root, 0, 0, FALSE)
    <3>1. flat = <<root>> /\ root \in NodeType
      BY <1>1
    <3> HIDE DEF root
    <3>2. QED
      BY <3>1
  <2>6. parent \in 0 .. Len(flat)
    BY <1>1 DEF Init
  <2>3. frontier \in Seq(Nodes) /\ next \in Seq(Nodes) /\ pending \in Seq(Funcs)
    <3>1. frontier = <<1>> /\ next = <<>> /\ pending = <<>>
      BY DEF Init
    <3>2. 1 \in Nodes
      BY <1>1
    <3>3. QED
      BY <3>1, <3>2
  <2>4. level \in Nat /\ total \in Nat
        /\ phase \in {"level", "target", "callers", "done"}
    BY DEF Init
  <2>5. QED
    BY <2>1, <2>2, <2>3, <2>4, <2>6 DEF Types
<1>3. VisitedExact
  BY <1>1 DEF Init, VisitedExact, Node
<1>4. FrontierFresh /\ ParentsFresh
  BY <1>1 DEF Init, FrontierFresh, FreshAt, ParentsFresh, Expandable,
              FirstSighting, Node
<1>5. Layers /\ Counted /\ TotalBounded
  BY <1>1 DEF Init, Layers, BreadthFirst, Counted, TotalBounded, Node
<1>6. QED
  BY <1>2, <1>3, <1>4, <1>5 DEF IInv, Init

\* What appending a node leaves alone.
LEMMA AppendNode ==
  ASSUME flat \in Seq(NodeType), NEW node \in NodeType,
         flat' = Append(flat, node)
  PROVE  /\ flat' \in Seq(NodeType)
         /\ Len(flat') = Len(flat) + 1
         /\ flat'[Len(flat) + 1] = node
         /\ \A i \in 1 .. Len(flat) : flat'[i] = flat[i]
OBVIOUS

\* Marking a node as truncated changes nothing else.
LEMMA TruncateNode ==
  ASSUME flat \in Seq(NodeType), NEW n \in 1 .. Len(flat), Truncate(n)
  PROVE  /\ flat' \in Seq(NodeType)
         /\ Len(flat') = Len(flat)
         /\ \A i \in 1 .. Len(flat) :
              /\ flat'[i].func = flat[i].func
              /\ flat'[i].parent = flat[i].parent
              /\ flat'[i].depth = flat[i].depth
<1> DEFINE marked == [flat[n] EXCEPT !.truncated = TRUE]
<1>1. flat[n] \in NodeType
  BY ElementOfSeq
<1>2. marked \in NodeType /\ marked.func = flat[n].func
      /\ marked.parent = flat[n].parent /\ marked.depth = flat[n].depth
  BY <1>1 DEF NodeType
<1>3. flat' = [flat EXCEPT ![n] = marked]
  BY DEF Truncate
<1> HIDE DEF marked
<1>4. flat' \in Seq(NodeType) /\ Len(flat') = Len(flat)
  BY <1>2, <1>3, ExceptSeq
<1>5. \A i \in 1 .. Len(flat) : flat'[i] = IF i = n THEN marked ELSE flat[i]
  BY <1>3
<1>6. QED
  BY <1>2, <1>4, <1>5

\* Steps that change no function, parent or depth of the tree keep the parts
\* of the invariant that are about the tree alone.
LEMMA SameShape ==
  ASSUME IInv, UNCHANGED input, UNCHANGED <<visited, total>>,
         flat' \in Seq(NodeType), Len(flat') = Len(flat),
         \A i \in 1 .. Len(flat) :
           /\ flat'[i].func = flat[i].func
           /\ flat'[i].parent = flat[i].parent
           /\ flat'[i].depth = flat[i].depth
  PROVE  /\ Nodes' = Nodes
         /\ VisitedExact' /\ ParentsFresh' /\ Counted' /\ TotalBounded'
         /\ BreadthFirst'
         /\ \A i \in Nodes : Expandable(i) => Expandable(i)'
         /\ \A s \in Seq(Nodes) : \A d \in Nat : FreshAt(s, d) => FreshAt(s, d)'
<1>1. Nodes' = Nodes
  BY DEF Nodes
<1>2. flat \in Seq(NodeType) /\ \A i \in Nodes : flat[i] \in NodeType
  BY DEF IInv, Types, Nodes
<1>3. VisitedExact'
  BY <1>1 DEF IInv, VisitedExact, Nodes
<1>4. \A i \in Nodes : FirstSighting(i) <=> FirstSighting(i)'
  BY <1>1 DEF FirstSighting, Nodes
<1>5. ParentsFresh'
  <2> SUFFICES ASSUME NEW i \in 2 .. Len(flat) PROVE FirstSighting(flat[i].parent)'
    BY DEF ParentsFresh
  <2>1. flat[i].parent \in Nodes /\ FirstSighting(flat[i].parent)
    BY DEF IInv, ParentsFresh, Layers, BreadthFirst, Nodes
  <2>2. flat'[i].parent = flat[i].parent
    OBVIOUS
  <2>3. QED
    BY <2>1, <2>2, <1>4
<1>6. Counted' /\ TotalBounded'
  BY DEF IInv, Counted, TotalBounded, input
<1>7. BreadthFirst'
  <2> SUFFICES ASSUME NEW i \in 2 .. Len(flat)
               PROVE  /\ flat'[i].parent \in 1 .. i - 1
                      /\ flat'[i].depth = flat'[flat'[i].parent].depth + 1
                      /\ flat'[i - 1].depth <= flat'[i].depth
                      /\ flat'[i].depth <= opt'.depth
    BY DEF BreadthFirst
  <2>1. /\ flat[i].parent \in 1 .. i - 1
        /\ flat[i].depth = flat[flat[i].parent].depth + 1
        /\ flat[i - 1].depth <= flat[i].depth
        /\ flat[i].depth <= opt.depth
    BY DEF IInv, Layers, BreadthFirst
  <2>2. i - 1 \in 1 .. Len(flat) /\ flat[i].parent \in 1 .. Len(flat)
    BY <2>1, <1>2 DEF Nodes
  <2>3. QED
    BY <2>1, <2>2 DEF input
<1>8. \A i \in Nodes : Expandable(i) => Expandable(i)'
  BY <1>1, <1>4 DEF Expandable
<1>9. ASSUME NEW s \in Seq(Nodes), NEW d \in Nat, FreshAt(s, d)
      PROVE  FreshAt(s, d)'
  <2> SUFFICES ASSUME NEW k \in 1 .. Len(s)
               PROVE  Expandable(s[k])' /\ flat'[s[k]].depth = d
    BY DEF FreshAt
  <2>1. s[k] \in Nodes /\ Expandable(s[k]) /\ flat[s[k]].depth = d
    BY <1>9 DEF FreshAt
  <2>2. QED
    BY <2>1, <1>8 DEF Nodes
<1>10. QED
  BY <1>1, <1>3, <1>5, <1>6, <1>7, <1>8, <1>9

\* The steps that add no node and mark none.
LEMMA ControlSteps ==
  ASSUME IInv, BeginLevel \/ Finish \/ EndTarget \/ EndLevel \/ UNCHANGED vars
  PROVE  IInv'
<1>1. UNCHANGED flat /\ UNCHANGED input /\ UNCHANGED <<visited, total>>
  BY DEF BeginLevel, Finish, EndTarget, EndLevel, vars, input
<1>2. flat \in Seq(NodeType) /\ Len(flat) \in 1 .. Len(flat)
      /\ flat[Len(flat)] \in NodeType /\ opt.depth \in Nat /\ level \in Nat
      /\ frontier \in Seq(Nodes) /\ next \in Seq(Nodes) /\ parent \in 0 .. Len(flat)
  BY DEF IInv, Types, Layers
<1>3. /\ Nodes' = Nodes
      /\ VisitedExact' /\ ParentsFresh' /\ Counted' /\ TotalBounded'
      /\ BreadthFirst'
      /\ \A i \in Nodes : Expandable(i) => Expandable(i)'
      /\ \A s \in Seq(Nodes) : \A d \in Nat : FreshAt(s, d) => FreshAt(s, d)'
  BY <1>1, <1>2, SameShape
<1>4. FreshAt(frontier, level) /\ (phase \in {"target", "callers"} => FreshAt(next, level + 1))
  BY DEF IInv, FrontierFresh
<1>5. Types' /\ (graph \in Graphs)' /\ (opt \in Options)'
  <2>1. /\ UNCHANGED <<graph, opt, flat, total, parent, pending>>
        /\ level' \in Nat /\ frontier' \in Seq(Nodes) /\ next' \in Seq(Nodes)
        /\ phase' \in {"level", "target", "callers", "done"}
    <3>1. /\ level' \in {level, level + 1} /\ frontier' \in {frontier, next}
          /\ next' \in {next, <<>>}
          /\ phase' \in {phase, "level", "target", "callers", "done"}
          /\ UNCHANGED <<graph, opt, flat, total, parent, pending>>
      BY <1>1 DEF BeginLevel, Finish, EndTarget, EndLevel, vars, input
    <3>2. phase \in {"level", "target", "callers", "done"}
      BY DEF IInv, Types
    <3>3. level' \in Nat
      BY <1>2, <3>1
    <3>4. frontier' \in Seq(Nodes) /\ next' \in Seq(Nodes)
      BY <1>2, <3>1, EmptySeq, Zenon
    <3>5. QED
      BY <3>1, <3>2, <3>3, <3>4, Zenon
  <2>2. QED
    BY <1>3, <2>1 DEF IInv, Types
<1>6. CASE BeginLevel
  <2>1. FrontierFresh'
    BY <1>2, <1>3, <1>4, <1>6 DEF BeginLevel, FrontierFresh, FreshAt
  <2>2. flat[Len(flat)].depth <= level + 1
    BY <1>2, <1>6 DEF BeginLevel, IInv, Layers, NodeType
  <2>3. Layers'
    BY <1>1, <1>3, <1>2, <1>6, <2>2 DEF BeginLevel, IInv, Layers, input
  <2>4. QED
    BY <1>3, <1>5, <2>1, <2>3 DEF IInv
<1>7. CASE Finish
  BY <1>1, <1>2, <1>3, <1>4, <1>5, <1>7
     DEF Finish, IInv, FrontierFresh, FreshAt, Layers, input
<1>8. CASE EndTarget
  <2>1. FreshAt(frontier, level)' /\ FreshAt(next, level + 1)'
    <3>1. UNCHANGED <<frontier, next, level>> /\ FreshAt(next, level + 1)
      BY <1>4, <1>8 DEF EndTarget
    <3>2. level + 1 \in Nat
      BY <1>2
    <3>3. QED
      BY <1>2, <1>3, <1>4, <3>1, <3>2 DEF FreshAt
  <2>2. FrontierFresh'
    BY <2>1, <1>8 DEF EndTarget, FrontierFresh
  <2>3. Layers'
    BY <1>1, <1>3, <1>8 DEF EndTarget, IInv, Layers, input
  <2>4. QED
    BY <1>3, <1>5, <2>2, <2>3 DEF IInv
<1>9. CASE EndLevel
  <2>1. FreshAt(frontier, level)'
    <3>1. frontier' = next /\ level' = level + 1 /\ FreshAt(next, level + 1)
      BY <1>4, <1>9 DEF EndLevel
    <3>2. level + 1 \in Nat
      BY <1>2
    <3>3. QED
      BY <1>2, <1>3, <3>1, <3>2 DEF FreshAt
  <2>2. FrontierFresh'
    BY <2>1, <1>9 DEF EndLevel, FrontierFresh
  <2>3. Layers'
    BY <1>1, <1>2, <1>3, <1>9 DEF EndLevel, IInv, Layers, input
  <2>4. QED
    BY <1>3, <1>5, <2>2, <2>3 DEF IInv
<1>10. CASE UNCHANGED vars
  <2>1. UNCHANGED <<frontier, next, level, parent, phase, flat, opt>>
    BY <1>10 DEF vars, input
  <2>2. level + 1 \in Nat
    BY <1>2
  <2>3. FreshAt(frontier, level)'
    BY <1>2, <1>3, <1>4, <2>1 DEF FreshAt
  <2>4. phase' \in {"target", "callers"} => FreshAt(next, level + 1)'
    BY <1>2, <1>3, <1>4, <2>1, <2>2 DEF FreshAt
  <2>5. FrontierFresh'
    BY <1>3, <2>1, <2>3, <2>4 DEF IInv, FrontierFresh, Expandable
  <2>6. Layers'
    BY <1>3, <2>1 DEF IInv, Layers
  <2>7. QED
    BY <1>3, <1>5, <2>5, <2>6 DEF IInv
<1>11. QED
  BY <1>6, <1>7, <1>8, <1>9, <1>10

LEMMA QueryCallersStep == IInv /\ QueryCallers => IInv'
<1> SUFFICES ASSUME IInv, QueryCallers PROVE IInv'
  OBVIOUS
<1>1. /\ flat \in Seq(NodeType) /\ Len(flat) \in 1 .. Len(flat)
      /\ flat[Len(flat)] \in NodeType /\ opt.depth \in Nat /\ opt.maxCallers \in Nat
      /\ level \in Nat /\ level + 1 \in Nat /\ phase = "target"
      /\ frontier \in Seq(Nodes) /\ frontier # <<>> /\ next \in Seq(Nodes)
      /\ graph \in [Funcs -> Seq(Funcs)]
  BY DEF IInv, Types, Layers, QueryCallers
<1> PICK node \in Nodes : node = Head(frontier)
  BY <1>1
<1> DEFINE callers == CallersFor(flat[node].func)
           cut == opt.maxCallers > 0 /\ Len(callers) > opt.maxCallers
<1>2. /\ Len(frontier) >= 1 /\ node = frontier[1]
      /\ Tail(frontier) \in Seq(Nodes) /\ Len(Tail(frontier)) = Len(frontier) - 1
      /\ \A k \in 1 .. Len(frontier) - 1 : Tail(frontier)[k] = frontier[k + 1]
  BY <1>1
<1>3. FreshAt(frontier, level) /\ FreshAt(next, level + 1)
  BY <1>1 DEF IInv, FrontierFresh
<1>4. Expandable(node) /\ flat[node].depth = level
  BY <1>2, <1>3 DEF FreshAt
<1>5. callers \in Seq(Funcs)
  <2>1. flat[node] \in NodeType
    BY <1>1, <1>2 DEF Nodes
  <2>2. flat[node].func \in Funcs
    BY <2>1 DEF NodeType
  <2>3. QED
    BY <1>1, <2>2 DEF CallersFor
<1>6. /\ parent' = node /\ frontier' = Tail(frontier) /\ phase' = "callers"
      /\ pending' = IF cut THEN SubSeq(callers, 1, opt.maxCallers) ELSE callers
      /\ IF cut THEN Truncate(node) ELSE UNCHANGED flat
      /\ UNCHANGED <<graph, opt, level, next, visited, total>>
  BY DEF QueryCallers, input
<1>7. pending' \in Seq(Funcs)
  <2>1. CASE cut
    <3>1. opt.maxCallers \in 1 .. Len(callers)
      BY <1>1, <1>5, <2>1
    <3>2. SubSeq(callers, 1, opt.maxCallers) \in Seq(Funcs)
      <4> HIDE DEF callers
      <4>1. QED
        BY <1>5, <3>1, SubSeqProperties
    <3>3. QED
      BY <1>6, <2>1, <3>2
  <2>2. CASE ~cut
    BY <1>5, <1>6, <2>2
  <2>3. QED
    BY <2>1, <2>2
<1> HIDE DEF callers, cut
<1>8. /\ flat' \in Seq(NodeType) /\ Len(flat') = Len(flat)
      /\ \A i \in 1 .. Len(flat) :
           /\ flat'[i].func = flat[i].func
           /\ flat'[i].parent = flat[i].parent
           /\ flat'[i].depth = flat[i].depth
  <2>1. CASE cut
    <3>1. Truncate(node) /\ node \in 1 .. Len(flat)
      BY <1>2, <1>6, <2>1 DEF Nodes
    <3>2. QED
      BY <1>1, <3>1, TruncateNode
  <2>2. CASE ~cut
    BY <1>1, <1>6, <2>2
  <2>3. QED
    BY <2>1, <2>2
<1>9. /\ Nodes' = Nodes
      /\ VisitedExact' /\ ParentsFresh' /\ Counted' /\ TotalBounded'
      /\ BreadthFirst'
      /\ \A i \in Nodes : Expandable(i) => Expandable(i)'
      /\ \A s \in Seq(Nodes) : \A d \in Nat : FreshAt(s, d) => FreshAt(s, d)'
  BY <1>6, <1>8, SameShape DEF input
<1>10. Types'
  BY <1>1, <1>2, <1>6, <1>7, <1>8, <1>9 DEF IInv, Types, Nodes
<1>11. FrontierFresh'
  <2>1. FreshAt(Tail(frontier), level)
    BY <1>1, <1>2, <1>3 DEF FreshAt
  <2>2. FreshAt(frontier, level)'
    BY <1>1, <1>2, <1>6, <1>9, <2>1 DEF FreshAt
  <2>3. FreshAt(next, level + 1)'
    BY <1>1, <1>3, <1>6, <1>9 DEF FreshAt
  <2>4. Expandable(parent)' /\ flat'[parent'].depth = level'
    <3>1. Expandable(node)' /\ flat'[node].depth = level
      BY <1>2, <1>4, <1>8, <1>9 DEF Nodes
    <3>2. QED
      BY <1>6, <3>1 DEF Expandable
  <2>5. QED
    BY <2>2, <2>3, <2>4 DEF FrontierFresh
<1>12. Layers'
  <2>1. level < opt.depth /\ flat[Len(flat)].depth <= level + 1
    BY <1>1 DEF IInv, Layers
  <2>2. flat'[Len(flat')].depth = flat[Len(flat)].depth
    BY <1>1, <1>8
  <2>3. QED
    BY <1>1, <1>6, <1>8, <1>9, <2>1, <2>2 DEF IInv, Layers
<1>13. QED
  BY <1>6, <1>9, <1>10, <1>11, <1>12 DEF IInv

LEMMA CutAtTotalStep == IInv /\ CutAtTotal => IInv'
<1> SUFFICES ASSUME IInv, CutAtTotal PROVE IInv'
  OBVIOUS
<1>1. /\ flat \in Seq(NodeType) /\ Len(flat) \in 1 .. Len(flat)
      /\ flat[Len(flat)] \in NodeType /\ opt.depth \in Nat
      /\ level \in Nat /\ level + 1 \in Nat /\ phase = "callers"
      /\ frontier \in Seq(Nodes) /\ next \in Seq(Nodes)
  BY DEF IInv, Types, Layers, CutAtTotal
<1>2. /\ FreshAt(frontier, level) /\ FreshAt(next, level + 1)
      /\ Expandable(parent) /\ flat[parent].depth = level
  BY <1>1 DEF IInv, FrontierFresh
<1>3. parent \in Nodes
  BY <1>2 DEF Expandable
<1>4. /\ Truncate(parent) /\ pending' = <<>>
      /\ UNCHANGED <<graph, opt, level, frontier, next, parent, visited, total,
                     phase>>
  BY DEF CutAtTotal, input
<1>5. /\ flat' \in Seq(NodeType) /\ Len(flat') = Len(flat)
      /\ \A i \in 1 .. Len(flat) :
           /\ flat'[i].func = flat[i].func
           /\ flat'[i].parent = flat[i].parent
           /\ flat'[i].depth = flat[i].depth
  BY <1>1, <1>3, <1>4, TruncateNode DEF Nodes
<1>6. /\ Nodes' = Nodes
      /\ VisitedExact' /\ ParentsFresh' /\ Counted' /\ TotalBounded'
      /\ BreadthFirst'
      /\ \A i \in Nodes : Expandable(i) => Expandable(i)'
      /\ \A s \in Seq(Nodes) : \A d \in Nat : FreshAt(s, d) => FreshAt(s, d)'
  BY <1>4, <1>5, SameShape DEF input
<1>7. Types'
  <2>1. pending' \in Seq(Funcs)
    BY <1>4, EmptySeq
  <2>2. QED
    BY <1>1, <1>4, <1>5, <1>6, <2>1 DEF IInv, Types
<1>8. FrontierFresh'
  <2>1. FreshAt(frontier, level)' /\ FreshAt(next, level + 1)'
    BY <1>1, <1>2, <1>4, <1>6 DEF FreshAt
  <2>2. PICK p \in Nodes : p = parent
    BY <1>3
  <2>3. Expandable(p)' /\ flat'[p].depth = level
    BY <1>2, <1>5, <1>6, <2>2 DEF Nodes
  <2>4. Expandable(parent)' /\ flat'[parent'].depth = level'
    BY <1>4, <2>2, <2>3 DEF Expandable
  <2>5. QED
    BY <2>1, <2>4 DEF FrontierFresh
<1>9. Layers'
  <2>1. level < opt.depth /\ flat[Len(flat)].depth <= level + 1
    BY <1>1 DEF IInv, Layers
  <2>2. flat'[Len(flat')].depth = flat[Len(flat)].depth
    BY <1>1, <1>5
  <2>3. QED
    BY <1>1, <1>4, <1>5, <1>6, <2>1, <2>2 DEF IInv, Layers
<1>10. QED
  BY <1>4, <1>6, <1>7, <1>8, <1>9 DEF IInv

LEMMA AddCallerStep == IInv /\ AddCaller => IInv'
<1> SUFFICES ASSUME IInv, AddCaller PROVE IInv'
  OBVIOUS
<1>1. /\ flat \in Seq(NodeType) /\ Len(flat) \in Nat /\ Len(flat) >= 1
      /\ opt.depth \in Nat /\ opt.maxTotal \in Nat
      /\ level \in Nat /\ level + 1 \in Nat /\ phase = "callers"
      /\ frontier \in Seq(Nodes) /\ next \in Seq(Nodes)
      /\ pending \in Seq(Funcs) /\ pending # <<>> /\ total \in Nat
      /\ visited \subseteq Funcs
  <2>1. /\ phase = "callers" /\ pending # <<>>
    BY DEF AddCaller
  <2>2. /\ flat \in Seq(NodeType)
        /\ level \in Nat /\ total \in Nat
        /\ frontier \in Seq(Nodes) /\ next \in Seq(Nodes)
        /\ pending \in Seq(Funcs)
    BY DEF IInv, Types
  <2>3. /\ opt.depth \in Nat /\ opt.maxTotal \in Nat
        /\ visited \subseteq Funcs /\ Len(flat) >= 1
    BY DEF IInv, Types, Layers, VisitedExact
  <2>4. QED
    BY <2>1, <2>2, <2>3
<1>2. /\ FreshAt(frontier, level) /\ FreshAt(next, level + 1)
      /\ Expandable(parent) /\ flat[parent].depth = level
  BY <1>1 DEF IInv, FrontierFresh
<1>3. PICK caller \in Funcs : caller = Head(pending)
  BY <1>1
<1>4. PICK isNew \in BOOLEAN : isNew = (caller \notin visited)
  OBVIOUS
<1>5. PICK last \in Nat : last = Len(flat) + 1
  BY <1>1
<1>6. PICK p \in Nodes : p = parent
  BY <1>2 DEF Expandable
<1> DEFINE node == Node(caller, p, level + 1, ~isNew)
<1>7. /\ flat' = Append(flat, node)
      /\ next' = IF isNew THEN Append(next, last) ELSE next
      /\ visited' = visited \cup {caller} /\ total' = total + 1
      /\ pending' = Tail(pending) /\ ~AtTotal
      /\ UNCHANGED <<graph, opt, level, frontier, parent, phase>>
  BY <1>3, <1>4, <1>5, <1>6 DEF AddCaller, input
<1>8. /\ node \in NodeType /\ node.func = caller /\ node.parent = p
      /\ node.depth = level + 1
  BY <1>1, <1>6 DEF NodeType, Node, Nodes
<1> HIDE DEF node
<1>9. /\ flat' \in Seq(NodeType) /\ Len(flat') = last /\ flat'[last] = node
      /\ \A i \in Nodes : flat'[i] = flat[i]
      /\ Nodes' = 1 .. last /\ Nodes \subseteq Nodes' /\ Nodes = 1 .. last - 1
  BY <1>1, <1>5, <1>7, <1>8, AppendNode DEF Nodes
<1>10. ASSUME NEW i \in Nodes, FirstSighting(i) PROVE FirstSighting(i)'
  <2>1. \A j \in 1 .. i - 1 : j \in Nodes
    BY <1>1 DEF Nodes
  <2>2. \A j \in 1 .. i - 1 : flat'[j].func # flat'[i].func
    BY <1>9, <1>10, <2>1 DEF FirstSighting
  <2>3. QED
    BY <2>2 DEF FirstSighting
<1>11. \A i \in Nodes : Expandable(i) => Expandable(i)'
  BY <1>9, <1>10 DEF Expandable
<1>12. isNew => Expandable(last)' /\ flat'[last].depth = level + 1
  <2> SUFFICES ASSUME isNew
               PROVE  FirstSighting(last)' /\ last \in Nodes'
    BY <1>8, <1>9 DEF Expandable
  <2>1. \A j \in Nodes : flat[j].func # caller
    BY <1>4 DEF IInv, VisitedExact
  <2>2. \A j \in 1 .. last - 1 : flat'[j].func # flat'[last].func
    BY <1>8, <1>9, <2>1
  <2>3. QED
    BY <1>1, <1>5, <1>9, <2>2 DEF FirstSighting
<1>13. Types'
  <2>1. Tail(pending) \in Seq(Funcs)
    BY <1>1
  <2>2. frontier' \in Seq(Nodes')
    <3>1. frontier \in Seq(Nodes')
      BY <1>1, <1>9
    <3>2. QED
      BY <1>7, <3>1
  <2>3. next' \in Seq(Nodes')
    <3>1. next \in Seq(Nodes') /\ last \in Nodes'
      BY <1>1, <1>5, <1>9
    <3>2. QED
      BY <1>7, <3>1, AppendProperties
  <2>4. parent' \in 0 .. Len(flat')
    BY <1>6, <1>7, <1>9
  <2>5. QED
    BY <1>1, <1>7, <1>9, <2>1, <2>2, <2>3, <2>4 DEF IInv, Types
<1>14. VisitedExact'
  <2>1. visited' \subseteq Funcs
    BY <1>1, <1>3, <1>7
  <2>2. \A i \in Nodes' : flat'[i].func \in visited'
    <3>1. \A i \in Nodes : flat'[i].func \in visited'
      BY <1>7, <1>9 DEF IInv, VisitedExact
    <3>2. flat'[last].func \in visited'
      BY <1>7, <1>8, <1>9
    <3>3. QED
      BY <1>9, <3>1, <3>2
  <2>3. \A f \in visited' : \E i \in Nodes' : flat'[i].func = f
    <3> SUFFICES ASSUME NEW f \in visited' PROVE \E i \in Nodes' : flat'[i].func = f
      OBVIOUS
    <3>1. CASE f = caller
      <4>1. last \in Nodes' /\ flat'[last].func = caller
        BY <1>1, <1>5, <1>8, <1>9
      <4>2. QED
        BY <3>1, <4>1
    <3>2. CASE f \in visited
      BY <1>9, <3>2 DEF IInv, VisitedExact
    <3>3. QED
      BY <1>7, <3>1, <3>2
  <2>4. QED
    BY <2>1, <2>2, <2>3 DEF VisitedExact
<1>15. FrontierFresh'
  <2>1. ASSUME NEW s \in Seq(Nodes), NEW d \in Nat, FreshAt(s, d)
        PROVE  FreshAt(s, d)'
    <3> SUFFICES ASSUME NEW k \in 1 .. Len(s)
                 PROVE  Expandable(s[k])' /\ flat'[s[k]].depth = d
      BY DEF FreshAt
    <3>1. s[k] \in Nodes /\ Expandable(s[k]) /\ flat[s[k]].depth = d
      BY <2>1 DEF FreshAt
    <3>2. QED
      BY <1>9, <1>11, <3>1
  <2>2. PICK f \in Seq(Nodes), n \in Seq(Nodes), l \in Nat :
          f = frontier /\ n = next /\ l = level
    BY <1>1
  <2>3. FreshAt(f, l)' /\ FreshAt(n, l + 1)'
    BY <1>2, <2>1, <2>2
  <2>4. FreshAt(Append(n, last), l + 1)' \/ ~isNew
    <3> SUFFICES ASSUME isNew, NEW k \in 1 .. Len(n) + 1
                 PROVE  /\ Expandable(Append(n, last)[k])'
                        /\ flat'[Append(n, last)[k]].depth = l + 1
      BY DEF FreshAt
    <3>1. CASE k \in 1 .. Len(n)
      <4>1. Append(n, last)[k] = n[k]
        BY <3>1
      <4>2. Expandable(n[k])' /\ flat'[n[k]].depth = l + 1
        BY <2>3, <3>1 DEF FreshAt
      <4>3. QED
        BY <4>1, <4>2
    <3>2. CASE k = Len(n) + 1
      <4>1. Append(n, last)[k] = last
        BY <3>2
      <4>2. QED
        BY <1>12, <2>2, <4>1
    <3>3. QED
      BY <3>1, <3>2
  <2>5. frontier' = f /\ level' = l /\ next' \in {n, Append(n, last)}
        /\ (~isNew => next' = n)
    BY <1>7, <2>2
  <2>6. FreshAt(frontier, level)' /\ FreshAt(next, level + 1)'
    BY <2>3, <2>4, <2>5 DEF FreshAt
  <2>7. Expandable(p)' /\ flat'[p].depth = l
    BY <1>2, <1>6, <1>9, <1>11, <2>2
  <2>8. Expandable(parent)' /\ flat'[parent'].depth = level'
    BY <1>6, <1>7, <2>5, <2>7 DEF Expandable
  <2>9. QED
    BY <2>6, <2>8 DEF FrontierFresh
<1>16. ParentsFresh'
  <2> SUFFICES ASSUME NEW i \in 2 .. Len(flat') PROVE FirstSighting(flat[i].parent)'
    BY DEF ParentsFresh
  <2>1. CASE i = last
    <3>1. FirstSighting(p)'
      BY <1>2, <1>6, <1>10 DEF Expandable
    <3>2. QED
      BY <1>8, <1>9, <2>1, <3>1 DEF FirstSighting
  <2>2. CASE i \in 2 .. Len(flat)
    <3>1. PICK q \in Nodes : q = flat[i].parent
      BY <2>2 DEF IInv, Layers, BreadthFirst, Nodes
    <3>2. FirstSighting(q)'
      BY <1>10, <2>2, <3>1 DEF IInv, ParentsFresh
    <3>3. flat'[i].parent = q
      BY <1>9, <2>2, <3>1 DEF Nodes
    <3>4. QED
      BY <3>2, <3>3 DEF FirstSighting
  <2>3. QED
    BY <1>1, <1>5, <1>9, <2>1, <2>2
<1>17. Layers'
  <2>1. level < opt.depth /\ flat[Len(flat)].depth <= level + 1 /\ BreadthFirst
    BY <1>1 DEF IInv, Layers
  <2>2. BreadthFirst'
    <3> SUFFICES ASSUME NEW i \in 2 .. Len(flat')
                 PROVE  /\ flat'[i].parent \in 1 .. i - 1
                        /\ flat'[i].depth = flat'[flat'[i].parent].depth + 1
                        /\ flat'[i - 1].depth <= flat'[i].depth
                        /\ flat'[i].depth <= opt'.depth
      BY DEF BreadthFirst
    <3>1. CASE i = last
      <4>1. flat'[i] = node /\ flat'[p] = flat[p] /\ flat'[i - 1] = flat[Len(flat)]
        BY <1>1, <1>5, <1>9, <3>1
      <4>2. flat[p].depth = level
        BY <1>2, <1>6
      <4>3. p \in 1 .. i - 1
        BY <1>9, <3>1
      <4>4. /\ flat'[i].parent = p /\ flat'[i].depth = level + 1
            /\ flat'[p].depth = level /\ flat'[i - 1].depth <= level + 1
        BY <1>8, <2>1, <4>1, <4>2
      <4>5. level + 1 <= opt'.depth
        BY <1>1, <1>7, <2>1
      <4>6. QED
        BY <4>3, <4>4, <4>5
    <3>2. CASE i \in 2 .. Len(flat)
      <4>1. /\ flat[i].parent \in 1 .. i - 1
            /\ flat[i].depth = flat[flat[i].parent].depth + 1
            /\ flat[i - 1].depth <= flat[i].depth
            /\ flat[i].depth <= opt.depth
        BY <2>1, <3>2 DEF BreadthFirst
      <4>2. i \in Nodes /\ i - 1 \in Nodes /\ flat[i].parent \in Nodes
        BY <1>1, <3>2, <4>1 DEF Nodes
      <4>3. QED
        BY <1>7, <1>9, <4>1, <4>2
    <3>3. QED
      BY <1>1, <1>5, <1>9, <3>1, <3>2
  <2>3. flat'[Len(flat')].depth = level + 1
    BY <1>8, <1>9
  <2>4. QED
    BY <1>1, <1>5, <1>7, <1>9, <2>1, <2>2, <2>3 DEF IInv, Layers
<1>18. Counted' /\ TotalBounded'
  <2>1. total = Len(flat) - 1
    BY DEF IInv, Counted
  <2>2. opt.maxTotal > 0 => total < opt.maxTotal
    BY <1>1, <1>7 DEF AtTotal
  <2>3. QED
    BY <1>1, <1>5, <1>7, <1>9, <2>1, <2>2 DEF Counted, TotalBounded
<1>19. QED
  BY <1>7, <1>13, <1>14, <1>15, <1>16, <1>17, <1>18 DEF IInv

LEMMA NextIInv == IInv /\ [Next]_vars => IInv'
BY ControlSteps, QueryCallersStep, CutAtTotalStep, AddCallerStep DEF Next

\* The inductive invariant holds in every reachable state.
THEOREM CallTreeInvariant == Spec => []IInv
BY InitIInv, NextIInv, PTL DEF Spec

\* Type correctness of the traversal.
THEOREM TypeCorrect == Spec => []TypeOK
<1>1. IInv => TypeOK
  BY DEF IInv, Types, VisitedExact, TypeOK, NodeType
<1>2. QED
  BY <1>1, CallTreeInvariant, PTL

\* --max-total bounds the tree, whatever the graph.
THEOREM TotalIsBounded == Spec => []TotalBounded
<1>1. IInv => TotalBounded
  BY DEF IInv
<1>2. QED
  BY <1>1, CallTreeInvariant, PTL

\* The tree is breadth first and no deeper than --depth, whatever the graph.
THEOREM TreeIsBreadthFirst == Spec => []BreadthFirst
<1>1. IInv => BreadthFirst
  BY DEF IInv, Layers
<1>2. QED
  BY <1>1, CallTreeInvariant, PTL

\* No function is expanded twice, however recursive the graph: every parent
\* is the first sighting of its function, and a function has one.
THEOREM FunctionsExpandOnce == Spec => []ExpandedOnce
<1>1. IInv => ExpandedOnce
  <2> SUFFICES ASSUME IInv, NEW i \in 2 .. Len(flat), NEW j \in 2 .. Len(flat),
                      flat[flat[i].parent].func = flat[flat[j].parent].func
               PROVE  flat[i].parent = flat[j].parent
    BY DEF ExpandedOnce
  <2>1. /\ flat[i].parent \in Nodes /\ flat[j].parent \in Nodes
        /\ FirstSighting(flat[i].parent) /\ FirstSighting(flat[j].parent)
    BY DEF IInv, Layers, BreadthFirst, ParentsFresh, Nodes
  <2>2. ASSUME NEW a \in Nodes, NEW b \in Nodes, FirstSighting(b), a < b
        PROVE  flat[a].func # flat[b].func
    <3>1. a \in 1 .. b - 1
      BY <2>2 DEF Nodes
    <3>2. QED
      BY <2>2, <3>1 DEF FirstSighting
  <2>3. ~(flat[i].parent < flat[j].parent) /\ ~(flat[j].parent < flat[i].parent)
    BY <2>1, <2>2
  <2>4. QED
    BY <2>1, <2>3 DEF Nodes
<1>2. QED
  BY <1>1, CallTreeInvariant, PTL

-----------------------------------------------------------------------------
(* What the tree lists.                                                     *)

Children(i) == {j \in Nodes : flat[j].parent = i}

\* The queues are in the order of the nodes, behind every node expanded so far.
Ascending(s) == \A k, l \in 1 .. Len(s) : k < l => s[k] < s[l]
Above(s, n) == \A k \in 1 .. Len(s) : n < s[k]

Queued ==
  /\ Ascending(frontier)
  /\ \A j \in 2 .. Len(flat) : Above(frontier, flat[j].parent)
  /\ phase \in {"target", "callers"} =>
       /\ Ascending(next)
       /\ \A k \in 1 .. Len(frontier) : Above(next, frontier[k])
       /\ \A j \in 2 .. Len(flat) : Above(next, flat[j].parent)
  /\ phase = "callers" => Above(frontier, parent) /\ Above(next, parent)

\* Every first sighting is waiting, being expanded, or expanded.
In(i, s) == \E k \in 1 .. Len(s) : s[k] = i
Handled(i) == flat[i].truncated \/ ListsCallers(i)

Covered ==
  \A i \in Nodes : FirstSighting(i) =>
    /\ flat[i].depth < level => Handled(i)
    /\ phase \in {"level", "done"} /\ flat[i].depth = level => In(i, frontier)
    /\ phase \in {"target", "callers"} /\ flat[i].depth = level =>
         In(i, frontier) \/ (phase = "callers" /\ i = parent) \/ Handled(i)
    /\ phase \in {"target", "callers"} /\ flat[i].depth = level + 1 => In(i, next)

\* The node being expanded has its first n callers; those after them are pending,
\* all that are left unless the node is marked.
Partial(n) ==
  LET callers == CallersFor(flat[parent].func)
  IN  /\ n + Len(pending) <= Len(callers)
      /\ Children(parent) = Len(flat) - n + 1 .. Len(flat)
      /\ \A k \in 1 .. n : flat[Len(flat) - n + k].func = callers[k]
      /\ \A k \in 1 .. Len(pending) : pending[k] = callers[n + k]
      /\ flat[parent].truncated \/ n + Len(pending) = Len(callers)
Expanding == phase = "callers" => \E n \in 0 .. Len(flat) - 1 : Partial(n)

\* Without a cut, only later sightings are marked.
Uncut ==
  opt.maxCallers = 0 /\ ~AtTotal => \A i \in Nodes : FirstSighting(i) => ~flat[i].truncated

\* A node is as many calls away from the root as it is deep.
Near == \A i \in Nodes : Within(flat[i].func, flat[i].depth)
Rooted == flat[1].func = Root /\ flat[1].depth = 0 /\ flat[1].parent = 0

Ended ==
  phase = "done" =>
    flat[Len(flat)].depth <= level /\ (level = opt.depth \/ frontier = <<>> \/ AtTotal)

Whole == Queued /\ Covered /\ Expanding /\ Uncut /\ Near /\ Rooted /\ Ended

LEMMA WithinSame ==
  ASSUME NEW f, NEW d, graph' = graph
  PROVE  Within(f, d)' <=> Within(f, d)
BY DEF Within, Calls, CallersFor

LEMMA WithinRoot == Within(Root, 0)
<1> DEFINE path == [k \in 0 .. 0 |-> Root]
<1>1. path \in [0 .. 0 -> Funcs] /\ path[0] = Root
  BY FuncsAssumption
<1>2. 0 \in 0 .. 0 /\ \A k \in 1 .. 0 : Calls(path[k], path[k - 1])
  OBVIOUS
<1> HIDE DEF path
<1>3. QED
  BY <1>1, <1>2 DEF Within

LEMMA WithinCaller ==
  ASSUME NEW f \in Funcs, NEW g, NEW d \in Nat, Within(g, d), Calls(f, g)
  PROVE  Within(f, d + 1)
<1>1. PICK n \in 0 .. d : \E path \in [0 .. n -> Funcs] :
        path[0] = Root /\ path[n] = g /\ \A k \in 1 .. n : Calls(path[k], path[k - 1])
  BY DEF Within
<1>2. PICK path \in [0 .. n -> Funcs] :
        path[0] = Root /\ path[n] = g /\ \A k \in 1 .. n : Calls(path[k], path[k - 1])
  BY <1>1
<1> DEFINE longer == [k \in 0 .. n + 1 |-> IF k <= n THEN path[k] ELSE f]
<1>3. longer \in [0 .. n + 1 -> Funcs] /\ longer[0] = Root /\ longer[n + 1] = f
  BY <1>2
<1>4. ASSUME NEW k \in 1 .. n + 1 PROVE Calls(longer[k], longer[k - 1])
  <2>1. CASE k \in 1 .. n
    <3>1. longer[k] = path[k] /\ longer[k - 1] = path[k - 1]
      BY <2>1
    <3> HIDE DEF longer
    <3>2. QED
      BY <1>2, <2>1, <3>1
  <2>2. CASE k = n + 1
    <3>1. longer[k] = f /\ longer[k - 1] = g
      BY <1>2, <2>2
    <3>2. QED
      BY <3>1
  <2>3. QED
    BY <2>1, <2>2
<1>5. n + 1 \in 0 .. d + 1
  OBVIOUS
<1> HIDE DEF longer
<1>6. QED
  BY <1>3, <1>4, <1>5 DEF Within

LEMMA InitWhole == Init => Whole
<1> SUFFICES ASSUME Init PROVE Whole
  OBVIOUS
<1>1. /\ Len(flat) = 1 /\ Nodes = {1} /\ flat[1] = Node(Root, 0, 0, FALSE)
      /\ flat[1].func = Root /\ flat[1].depth = 0 /\ flat[1].truncated = FALSE
      /\ flat[1].parent = 0
      /\ frontier = <<1>> /\ level = 0 /\ phase = "level"
  BY DEF Init, Nodes, Node
<1>2. Queued
  BY <1>1 DEF Queued, Ascending, Above
<1>3. Covered
  <2>1. In(1, frontier)
    BY <1>1 DEF In
  <2>2. ASSUME NEW i \in Nodes PROVE i = 1 /\ flat[i].depth = 0 /\ In(i, frontier)
    BY <1>1, <2>1
  <2>3. ~ (0 < level) /\ phase \notin {"target", "callers"}
    BY <1>1
  <2>4. QED
    BY <2>2, <2>3 DEF Covered
<1>4. Expanding /\ Uncut /\ Rooted /\ Ended
  BY <1>1 DEF Expanding, Uncut, Rooted, Ended
<1>5. Near
  BY <1>1, WithinRoot DEF Near
<1>6. QED
  BY <1>2, <1>3, <1>4, <1>5 DEF Whole

\* Steps that add no node keep what is said of the nodes.
LEMMA NodesKept ==
  ASSUME IInv, Near, Rooted, graph' = graph, Len(flat') = Len(flat),
         \A i \in 1 .. Len(flat) :
           /\ flat'[i].func = flat[i].func
           /\ flat'[i].parent = flat[i].parent
           /\ flat'[i].depth = flat[i].depth
           /\ flat[i].truncated => flat'[i].truncated
  PROVE  /\ Nodes' = Nodes /\ Near' /\ Rooted'
         /\ \A i \in Nodes : FirstSighting(i)' <=> FirstSighting(i)
         /\ \A i \in Nodes : Children(i)' = Children(i)
         /\ \A i \in Nodes : Handled(i) => Handled(i)'
<1>1. Nodes' = Nodes /\ Len(flat) \in Nat /\ Len(flat) >= 1
  BY DEF Nodes, IInv, Types, Layers
<1>2. Near'
  <2>1. \A i \in Nodes : Within(flat[i].func, flat[i].depth)'
    <3> SUFFICES ASSUME NEW i \in Nodes PROVE Within(flat[i].func, flat[i].depth)'
      OBVIOUS
    <3>1. PICK f, d : f = flat[i].func /\ d = flat[i].depth
      OBVIOUS
    <3>2. flat'[i].func = f /\ flat'[i].depth = d /\ Within(f, d)
      BY <3>1 DEF Near, Nodes
    <3>3. Within(f, d)'
      BY <3>2, WithinSame
    <3>4. QED
      BY <3>2, <3>3 DEF Within
  <2>2. QED
    BY <1>1, <2>1 DEF Near
<1>3. Rooted'
  BY <1>1 DEF Rooted
<1>4. \A i \in Nodes : FirstSighting(i)' <=> FirstSighting(i)
  BY <1>1 DEF FirstSighting, Nodes
<1>5. \A i \in Nodes : Children(i)' = Children(i)
  BY <1>1 DEF Children, Nodes
<1>6. ASSUME NEW i \in Nodes, ListsCallers(i) PROVE ListsCallers(i)'
  <2>1. CallersFor(flat[i].func)' = CallersFor(flat[i].func)
    BY DEF CallersFor, Nodes
  <2>2. PICK b \in Nodes :
          /\ Children(i) = b + 1 .. b + Len(CallersFor(flat[i].func))
          /\ \A k \in 1 .. Len(CallersFor(flat[i].func)) :
               flat[b + k].func = CallersFor(flat[i].func)[k]
    BY <1>6 DEF ListsCallers, Children
  <2>3. ASSUME NEW k \in 1 .. Len(CallersFor(flat[i].func))
        PROVE  flat'[b + k].func = CallersFor(flat[i].func)[k]
    <3>1. flat[i].func \in Funcs /\ graph \in [Funcs -> Seq(Funcs)]
      <4>1. flat[i] \in NodeType
        BY DEF IInv, Types, Nodes
      <4>2. QED
        BY <4>1 DEF IInv, Types, NodeType
    <3>2. Len(CallersFor(flat[i].func)) \in Nat
      BY <3>1 DEF CallersFor
    <3>3. b \in Nat /\ b + k \in b + 1 .. b + Len(CallersFor(flat[i].func))
      BY <3>2 DEF Nodes
    <3>4. b + k \in Nodes
      BY <2>2, <3>3 DEF Children
    <3>5. QED
      BY <2>2, <3>4 DEF Nodes
  <2>4. Children(i)' = b + 1 .. b + Len(CallersFor(flat[i].func))
    BY <1>5, <2>2
  <2>5. QED
    BY <1>1, <2>1, <2>3, <2>4 DEF ListsCallers, Children
<1>7. \A i \in Nodes : Handled(i) => Handled(i)'
  BY <1>6 DEF Handled, Nodes
<1>8. QED
  BY <1>1, <1>2, <1>3, <1>4, <1>5, <1>7

LEMMA LeastNumber ==
  ASSUME NEW T \in SUBSET Nat, T # {}
  PROVE  \E x \in T : \A y \in T : x <= y
<1> DEFINE R == {p \in Nat \X Nat : p[1] < p[2]}
<1>1. IsWellFoundedOn(R, Nat)
  BY NatLessThanWellFounded DEF OpToRel
<1> HIDE DEF R
<1>2. PICK x \in T : \A y \in T : ~ (<<y, x>> \in R)
  BY <1>1, WFMin
<1>3. ASSUME NEW y \in T PROVE x <= y
  <2>1. x \in Nat /\ y \in Nat
    OBVIOUS
  <2>2. ~ (y < x)
    BY <1>2, <2>1 DEF R
  <2>3. QED
    BY <2>1, <2>2
<1>4. QED
  BY <1>3

LEMMA NodeTypes ==
  ASSUME flat \in Seq(NodeType), NEW i \in Nodes
  PROVE  /\ flat[i] \in NodeType /\ flat[i].func \in Funcs /\ flat[i].parent \in Nat
         /\ flat[i].depth \in Nat /\ flat[i].truncated \in BOOLEAN
<1>1. flat[i] \in NodeType
  BY DEF Nodes
<1>2. QED
  BY <1>1 DEF NodeType

\* Depths never fall along the nodes: the first node above an earlier one would be
\* above its neighbour.
LEMMA DepthsAscend ==
  ASSUME flat \in Seq(NodeType), BreadthFirst, NEW a \in Nodes, NEW b \in Nodes, a <= b
  PROVE  flat[a].depth <= flat[b].depth
<1> DEFINE T == {c \in a .. Len(flat) : flat[c].depth < flat[a].depth}
<1>1. \A i \in Nodes : flat[i].depth \in Nat
  BY NodeTypes
<1>2. CASE T = {}
  BY <1>1, <1>2 DEF Nodes
<1>3. CASE T # {}
  <2>1. T \in SUBSET Nat
    BY DEF Nodes
  <2>2. PICK c \in T : \A x \in T : c <= x
    BY <1>3, <2>1, LeastNumber
  <2>3. c \in a .. Len(flat) /\ c # a /\ flat[c].depth < flat[a].depth
    BY <1>1, <2>2
  <2>4. c \in 2 .. Len(flat) /\ c - 1 \in a .. Len(flat) /\ c - 1 \in Nodes /\ c \in Nodes
    BY <2>3 DEF Nodes
  <2>5. c - 1 \notin T
    BY <2>2, <2>3
  <2>6. ~ (flat[c - 1].depth < flat[a].depth)
    BY <2>4, <2>5
  <2>7. flat[c - 1].depth <= flat[c].depth
    BY <2>4 DEF BreadthFirst
  <2>8. QED
    BY <1>1, <2>3, <2>4, <2>6, <2>7
<1>4. QED
  BY <1>2, <1>3

\* Marking a node leaves the marks of the others.
LEMMA MarkNode ==
  ASSUME flat \in Seq(NodeType), NEW n \in 1 .. Len(flat), Truncate(n)
  PROVE  /\ flat' \in Seq(NodeType) /\ Len(flat') = Len(flat)
         /\ \A i \in 1 .. Len(flat) :
              /\ flat'[i].func = flat[i].func
              /\ flat'[i].parent = flat[i].parent
              /\ flat'[i].depth = flat[i].depth
              /\ flat[i].truncated => flat'[i].truncated
         /\ flat'[n].truncated
<1>1. \A i \in 1 .. Len(flat) : flat[i].truncated => flat'[i].truncated
  BY DEF Truncate
<1>2. flat'[n].truncated
  <2>1. flat[n] \in NodeType
    BY ElementOfSeq
  <2>2. flat' = [flat EXCEPT ![n] = [flat[n] EXCEPT !.truncated = TRUE]]
    BY DEF Truncate
  <2>3. QED
    BY <2>1, <2>2 DEF NodeType
<1>3. QED
  BY <1>1, <1>2, TruncateNode

\* The steps that mark no node and add none.
LEMMA ControlWhole ==
  ASSUME IInv, Whole, BeginLevel \/ Finish \/ EndTarget \/ EndLevel \/ UNCHANGED vars
  PROVE  Whole'
<1> USE DEF Whole
<1>1. UNCHANGED <<graph, opt, flat, total, parent, pending>>
  BY DEF BeginLevel, Finish, EndTarget, EndLevel, vars, input
<1>2. /\ Nodes' = Nodes /\ Near' /\ Rooted'
      /\ \A i \in Nodes : FirstSighting(i)' <=> FirstSighting(i)
      /\ \A i \in Nodes : Children(i)' = Children(i)
      /\ \A i \in Nodes : Handled(i) => Handled(i)'
  BY <1>1, NodesKept
<1>3. Uncut'
  BY <1>1, <1>2 DEF Uncut, AtTotal
<1>4. /\ flat \in Seq(NodeType) /\ Len(flat) \in Nat /\ Len(flat) \in Nodes
      /\ level \in Nat /\ opt.depth \in Nat
      /\ \A i \in Nodes : flat[i].depth \in Nat
  BY NodeTypes DEF IInv, Types, Layers, Nodes
<1>5. ASSUME NEW i \in Nodes PROVE flat[i].depth <= flat[Len(flat)].depth
  BY <1>4, DepthsAscend DEF IInv, Layers, Nodes
<1>6. CASE BeginLevel
  <2>1. /\ phase = "level" /\ phase' = "target" /\ next' = <<>>
        /\ UNCHANGED <<level, frontier>>
    BY <1>6 DEF BeginLevel
  <2>2. Queued'
    BY <1>1, <2>1 DEF Queued, Ascending, Above
  <2>3. Covered'
    <3> SUFFICES ASSUME NEW i \in Nodes, FirstSighting(i)
                 PROVE  /\ flat[i].depth < level => Handled(i)'
                        /\ flat[i].depth = level => In(i, frontier)
                        /\ flat[i].depth # level + 1
      BY <1>1, <1>2, <2>1 DEF Covered, In
    <3>1. flat[i].depth <= level
      BY <1>4, <1>5, <2>1 DEF IInv, Layers
    <3>2. QED
      BY <1>2, <1>4, <2>1, <3>1 DEF Covered
  <2>4. Expanding' /\ Ended'
    BY <2>1 DEF Expanding, Ended
  <2>5. QED
    BY <1>2, <1>3, <2>2, <2>3, <2>4
<1>7. CASE Finish
  <2>1. /\ phase = "level" /\ phase' = "done" /\ UNCHANGED <<level, frontier, next>>
        /\ level = opt.depth \/ frontier = <<>> \/ AtTotal
    BY <1>7 DEF Finish
  <2>2. Queued'
    BY <1>1, <2>1 DEF Queued, Ascending, Above
  <2>3. Covered'
    BY <1>1, <1>2, <2>1 DEF Covered, In
  <2>4. Expanding' /\ Ended'
    BY <1>1, <2>1 DEF Expanding, Ended, AtTotal, IInv, Layers
  <2>5. QED
    BY <1>2, <1>3, <2>2, <2>3, <2>4
<1>8. CASE EndTarget
  <2>1. /\ phase = "callers" /\ phase' = "target" /\ pending = <<>>
        /\ UNCHANGED <<level, frontier, next>>
    BY <1>8 DEF EndTarget
  <2>2. Queued'
    BY <1>1, <2>1 DEF Queued, Ascending, Above
  <2>3. parent \in Nodes /\ Handled(parent)
    <3>1. parent \in Nodes
      BY <2>1 DEF IInv, FrontierFresh, Expandable
    <3>2. PICK n \in 0 .. Len(flat) - 1 : Partial(n)
      BY <2>1 DEF Expanding
    <3>3. CASE flat[parent].truncated
      BY <3>1, <3>3 DEF Handled
    <3>4. CASE n = Len(CallersFor(flat[parent].func))
      <4> DEFINE callers == CallersFor(flat[parent].func)
      <4>0. Len(flat) - n \in Nodes
        BY <1>4 DEF Nodes
      <4>1. PICK b \in Nodes : b = Len(flat) - n
        BY <4>0
      <4>2. Children(parent) = b + 1 .. b + n
        BY <1>4, <3>2, <4>1 DEF Partial, Nodes
      <4>3. \A k \in 1 .. n : flat[b + k].func = callers[k]
        BY <3>2, <4>1 DEF Partial
      <4>4. /\ {j \in Nodes : flat[j].parent = parent} = b + 1 .. b + Len(callers)
            /\ \A k \in 1 .. Len(callers) : flat[b + k].func = callers[k]
        BY <3>4, <4>2, <4>3 DEF Children
      <4>5. ListsCallers(parent)
        BY <4>4 DEF ListsCallers
      <4>6. QED
        BY <3>1, <4>5 DEF Handled
    <3>5. QED
      BY <2>1, <3>2, <3>3, <3>4 DEF Partial
  <2>4. Covered'
    <3> SUFFICES ASSUME NEW i \in Nodes, FirstSighting(i)
                 PROVE  /\ flat[i].depth < level => Handled(i)'
                        /\ flat[i].depth = level => In(i, frontier) \/ Handled(i)'
                        /\ flat[i].depth = level + 1 => In(i, next)
      BY <1>1, <1>2, <2>1 DEF Covered, In
    <3>1. QED
      BY <1>2, <2>1, <2>3 DEF Covered
  <2>5. Expanding' /\ Ended'
    BY <2>1 DEF Expanding, Ended
  <2>6. QED
    BY <1>2, <1>3, <2>2, <2>4, <2>5
<1>9. CASE EndLevel
  <2>1. /\ phase = "target" /\ phase' = "level" /\ frontier = <<>> /\ frontier' = next
        /\ level' = level + 1 /\ next' = next
    BY <1>9 DEF EndLevel
  <2>2. Queued'
    BY <1>1, <2>1 DEF Queued, Ascending, Above
  <2>3. Covered'
    <3> SUFFICES ASSUME NEW i \in Nodes, FirstSighting(i)
                 PROVE  /\ flat[i].depth < level + 1 => Handled(i)'
                        /\ flat[i].depth = level + 1 => In(i, next)
      BY <1>1, <1>2, <2>1 DEF Covered, In
    <3>1. ~ In(i, frontier)
      BY <2>1 DEF In
    <3>2. flat[i].depth < level + 1 => flat[i].depth < level \/ flat[i].depth = level
      BY <1>4
    <3>3. QED
      BY <1>2, <2>1, <3>1, <3>2 DEF Covered
  <2>4. Expanding' /\ Ended'
    BY <2>1 DEF Expanding, Ended
  <2>5. QED
    BY <1>2, <1>3, <2>2, <2>3, <2>4
<1>10. CASE UNCHANGED vars
  <2>1. UNCHANGED <<level, frontier, next, phase>>
    BY <1>10 DEF vars
  <2>2. Queued'
    BY <1>1, <2>1 DEF Queued, Ascending, Above
  <2>3. Covered'
    BY <1>1, <1>2, <2>1 DEF Covered, In
  <2>4. Expanding'
    BY <1>1, <2>1 DEF Expanding, Partial, Children, Nodes, CallersFor
  <2>5. Ended'
    BY <1>1, <2>1 DEF Ended, AtTotal
  <2>6. QED
    BY <1>2, <1>3, <2>2, <2>3, <2>4, <2>5
<1>11. QED
  BY <1>6, <1>7, <1>8, <1>9, <1>10

\* The next target: with all its callers, or marked.
LEMMA QueryWhole ==
  ASSUME IInv, Whole, QueryCallers
  PROVE  Whole'
<1> USE DEF Whole
<1>1. /\ flat \in Seq(NodeType) /\ Len(flat) \in Nat /\ Len(flat) \in Nodes
      /\ level \in Nat /\ opt.maxCallers \in Nat /\ phase = "target" /\ phase' = "callers"
      /\ frontier \in Seq(Nodes) /\ frontier # <<>> /\ next \in Seq(Nodes)
      /\ graph \in [Funcs -> Seq(Funcs)]
      /\ UNCHANGED <<graph, opt, total, level, next>>
  <2>1. /\ flat \in Seq(NodeType) /\ level \in Nat /\ opt.maxCallers \in Nat
        /\ frontier \in Seq(Nodes) /\ next \in Seq(Nodes) /\ graph \in [Funcs -> Seq(Funcs)]
    BY DEF IInv, Types
  <2>2. /\ phase = "target" /\ phase' = "callers" /\ frontier # <<>>
        /\ UNCHANGED <<graph, opt, total, level, next>>
    BY DEF QueryCallers, input
  <2>3. Len(flat) \in Nat /\ Len(flat) \in Nodes
    BY <2>1 DEF IInv, Layers, Nodes
  <2>4. QED
    BY <2>1, <2>2, <2>3
<1> PICK node \in Nodes : node = Head(frontier)
  BY <1>1
<1> DEFINE callers == CallersFor(flat[node].func)
           cut == opt.maxCallers > 0 /\ Len(callers) > opt.maxCallers
<1>2. /\ Len(frontier) \in Nat /\ Len(frontier) >= 1 /\ node = frontier[1]
      /\ frontier' \in Seq(Nodes) /\ Len(frontier') = Len(frontier) - 1
      /\ \A k \in 1 .. Len(frontier') : frontier'[k] = frontier[k + 1] /\ k + 1 \in 1 .. Len(frontier)
  BY <1>1 DEF QueryCallers
<1>3. callers \in Seq(Funcs)
  BY <1>1, NodeTypes DEF CallersFor
<1>4. /\ parent' = node
      /\ pending' = IF cut THEN SubSeq(callers, 1, opt.maxCallers) ELSE callers
      /\ IF cut THEN Truncate(node) ELSE UNCHANGED flat
  BY DEF QueryCallers
<1>5. /\ Len(pending') <= Len(callers) /\ Len(pending') \in Nat
      /\ \A k \in 1 .. Len(pending') : pending'[k] = callers[k]
      /\ cut \/ Len(pending') = Len(callers)
  <2> HIDE DEF callers
  <2>1. CASE cut
    <3>1. opt.maxCallers \in 1 .. Len(callers) /\ pending' = SubSeq(callers, 1, opt.maxCallers)
      BY <1>1, <1>3, <1>4, <2>1
    <3>2. /\ Len(pending') = opt.maxCallers
          /\ \A k \in 1 .. opt.maxCallers : pending'[k] = callers[k]
      BY <1>3, <3>1, SubSeqProperties
    <3>3. QED
      BY <1>3, <2>1, <3>1, <3>2
  <2>2. CASE ~cut
    BY <1>3, <1>4, <2>2
  <2>3. QED
    BY <2>1, <2>2
<1>6. /\ flat' \in Seq(NodeType) /\ Len(flat') = Len(flat)
      /\ \A i \in 1 .. Len(flat) :
           /\ flat'[i].func = flat[i].func
           /\ flat'[i].parent = flat[i].parent
           /\ flat'[i].depth = flat[i].depth
           /\ flat[i].truncated => flat'[i].truncated
      /\ cut => flat'[node].truncated
  <2>1. CASE cut
    BY <1>1, <1>4, <2>1, MarkNode DEF Nodes
  <2>2. CASE ~cut
    BY <1>1, <1>4, <2>2
  <2>3. QED
    BY <2>1, <2>2
<1>7. /\ Nodes' = Nodes /\ Near' /\ Rooted'
      /\ \A i \in Nodes : FirstSighting(i)' <=> FirstSighting(i)
      /\ \A i \in Nodes : Children(i)' = Children(i)
      /\ \A i \in Nodes : Handled(i) => Handled(i)'
  BY <1>1, <1>6, NodesKept
<1>8. Uncut'
  <2>1. CASE cut
    BY <1>1, <2>1 DEF Uncut
  <2>2. CASE ~cut
    BY <1>1, <1>4, <1>7, <2>2 DEF Uncut, AtTotal
  <2>3. QED
    BY <2>1, <2>2
<1> HIDE DEF callers, cut
<1>9. Queued'
  <2>1. /\ Ascending(frontier) /\ Ascending(next)
        /\ \A j \in 2 .. Len(flat) : Above(frontier, flat[j].parent) /\ Above(next, flat[j].parent)
        /\ \A k \in 1 .. Len(frontier) : Above(next, frontier[k])
    BY <1>1 DEF Queued
  <2>2. Ascending(frontier')
    <3> SUFFICES ASSUME NEW k \in 1 .. Len(frontier'), NEW l \in 1 .. Len(frontier'), k < l
                 PROVE  frontier'[k] < frontier'[l]
      BY DEF Ascending
    <3>1. k + 1 \in 1 .. Len(frontier) /\ l + 1 \in 1 .. Len(frontier) /\ k + 1 < l + 1
      BY <1>2
    <3>2. frontier[k + 1] < frontier[l + 1]
      BY <2>1, <3>1 DEF Ascending
    <3>3. QED
      BY <1>2, <3>2
  <2>3. ASSUME NEW j \in 2 .. Len(flat)
        PROVE  Above(frontier', flat'[j].parent) /\ Above(next', flat'[j].parent)
    <3>1. flat'[j].parent = flat[j].parent
      BY <1>1, <1>6 DEF Nodes
    <3>2. Above(frontier, flat[j].parent) /\ Above(next', flat[j].parent)
      BY <1>1, <2>1
    <3>3. ASSUME NEW k \in 1 .. Len(frontier') PROVE flat[j].parent < frontier'[k]
      <4>1. k + 1 \in 1 .. Len(frontier) /\ frontier'[k] = frontier[k + 1]
        BY <1>2
      <4>2. QED
        BY <3>2, <4>1 DEF Above
    <3>4. QED
      BY <3>1, <3>2, <3>3 DEF Above
  <2>4. \A k \in 1 .. Len(frontier') : Above(next', frontier'[k])
    BY <1>1, <1>2, <2>1
  <2>5. Above(frontier', node) /\ Above(next', node)
    <3>1. \A k \in 1 .. Len(frontier') : node < frontier'[k]
      <4> SUFFICES ASSUME NEW k \in 1 .. Len(frontier') PROVE node < frontier'[k]
        OBVIOUS
      <4>1. 1 \in 1 .. Len(frontier) /\ k + 1 \in 1 .. Len(frontier) /\ 1 < k + 1
        BY <1>2
      <4>2. frontier[1] < frontier[k + 1]
        BY <2>1, <4>1 DEF Ascending
      <4>3. QED
        BY <1>2, <4>2
    <3>2. Above(next, node)
      BY <1>2, <2>1
    <3>3. QED
      BY <1>1, <3>1, <3>2 DEF Above
  <2>6. Ascending(next')
    BY <1>1, <2>1
  <2>7. QED
    BY <1>1, <1>4, <1>6, <2>2, <2>3, <2>4, <2>5, <2>6 DEF Queued, Above, Ascending
<1>10. Covered'
  <2> SUFFICES ASSUME NEW i \in Nodes, FirstSighting(i)
               PROVE  /\ flat[i].depth < level => Handled(i)'
                      /\ flat[i].depth = level => In(i, frontier') \/ i = node \/ Handled(i)'
                      /\ flat[i].depth = level + 1 => In(i, next)
    BY <1>1, <1>4, <1>6, <1>7 DEF Covered, In, Nodes
  <2>1. In(i, frontier) => In(i, frontier') \/ i = node
    <3> SUFFICES ASSUME NEW k \in 1 .. Len(frontier), i = frontier[k], k # 1
                 PROVE  In(i, frontier')
      BY <1>2 DEF In
    <3>1. k - 1 \in 1 .. Len(frontier') /\ frontier'[k - 1] = i
      BY <1>2
    <3>2. QED
      BY <3>1 DEF In
  <2>2. QED
    BY <1>1, <1>7, <2>1 DEF Covered
<1>11. Expanding'
  <2>1. 0 \in 0 .. Len(flat') - 1
    BY <1>1, <1>6 DEF Nodes
  <2>2. Partial(0)'
    <3>1. CallersFor(flat[node].func)' = callers
      BY <1>1, <1>6 DEF CallersFor, callers, Nodes
    <3>2. Children(node) = {}
      <4> SUFFICES ASSUME NEW j \in Nodes, flat[j].parent = node PROVE FALSE
        BY DEF Children
      <4>1. CASE j = 1
        BY <4>1 DEF Rooted, Nodes
      <4>2. CASE j \in 2 .. Len(flat)
        <5>1. Above(frontier, flat[j].parent)
          BY <4>2 DEF Queued
        <5>2. 1 \in 1 .. Len(frontier) /\ frontier[1] = node /\ node \in Nat
          BY <1>2 DEF Nodes
        <5>3. node < frontier[1]
          BY <5>1, <5>2 DEF Above
        <5>4. QED
          BY <5>2, <5>3
      <4>3. QED
        BY <1>1, <4>1, <4>2 DEF Nodes
    <3>3. Children(node)' = {}
      BY <1>7, <3>2
    <3>4. 0 + Len(pending') <= Len(callers)
      BY <1>5
    <3>5. Children(node)' = Len(flat') - 0 + 1 .. Len(flat')
      <4>1. Len(flat') \in Nat
        BY <1>1, <1>6
      <4>2. Len(flat') - 0 + 1 .. Len(flat') = {}
        BY <4>1
      <4>3. QED
        BY <3>3, <4>2
    <3>6. \A k \in 1 .. 0 : flat'[Len(flat') - 0 + k].func = callers[k]
      OBVIOUS
    <3>7. ASSUME NEW k \in 1 .. Len(pending') PROVE pending'[k] = callers[0 + k]
      BY <1>5
    <3>8. flat'[node].truncated \/ 0 + Len(pending') = Len(callers)
      BY <1>5, <1>6
    <3>9. graph'[flat'[node].func] = callers
      BY <3>1 DEF CallersFor
    <3>10. QED
      BY <1>4, <3>4, <3>5, <3>6, <3>7, <3>8, <3>9 DEF Partial, Children, CallersFor
  <2>3. QED
    BY <2>1, <2>2 DEF Expanding
<1>12. Ended'
  BY <1>1 DEF Ended
<1>13. QED
  BY <1>7, <1>8, <1>9, <1>10, <1>11, <1>12

\* --max-total is used up: the target is marked.
LEMMA CutWhole ==
  ASSUME IInv, Whole, CutAtTotal
  PROVE  Whole'
<1> USE DEF Whole
<1>1. /\ flat \in Seq(NodeType) /\ Len(flat) \in Nat /\ Len(flat) \in Nodes
      /\ phase = "callers" /\ phase' = "callers" /\ pending' = <<>> /\ AtTotal /\ Truncate(parent)
      /\ UNCHANGED <<graph, opt, total, level, frontier, next, parent>>
      /\ frontier \in Seq(Nodes) /\ next \in Seq(Nodes)
  BY DEF IInv, Types, Layers, Nodes, CutAtTotal, input
<1> PICK node \in Nodes : node = parent
  BY <1>1 DEF IInv, FrontierFresh, Expandable
<1>2. /\ flat' \in Seq(NodeType) /\ Len(flat') = Len(flat)
      /\ \A i \in 1 .. Len(flat) :
           /\ flat'[i].func = flat[i].func
           /\ flat'[i].parent = flat[i].parent
           /\ flat'[i].depth = flat[i].depth
           /\ flat[i].truncated => flat'[i].truncated
      /\ flat'[node].truncated
  BY <1>1, MarkNode DEF Nodes
<1>3. /\ Nodes' = Nodes /\ Near' /\ Rooted'
      /\ \A i \in Nodes : FirstSighting(i)' <=> FirstSighting(i)
      /\ \A i \in Nodes : Children(i)' = Children(i)
      /\ \A i \in Nodes : Handled(i) => Handled(i)'
  BY <1>1, <1>2, NodesKept
<1>4. Uncut' /\ Ended'
  BY <1>1 DEF Uncut, AtTotal, Ended
<1>5. Queued'
  BY <1>1, <1>2 DEF Queued, Ascending, Above
<1>6. Covered'
  <2> SUFFICES ASSUME NEW i \in Nodes, FirstSighting(i)
               PROVE  /\ flat[i].depth < level => Handled(i)'
                      /\ flat[i].depth = level => In(i, frontier) \/ i = parent \/ Handled(i)'
                      /\ flat[i].depth = level + 1 => In(i, next)
    BY <1>1, <1>2, <1>3 DEF Covered, In, Nodes
  <2>1. QED
    BY <1>1, <1>3 DEF Covered
<1>7. Expanding'
  <2>1. PICK n \in 0 .. Len(flat) - 1 : Partial(n)
    BY <1>1 DEF Expanding
  <2>2. Partial(n)'
    <3> DEFINE callers == CallersFor(flat[node].func)
    <3>1. CallersFor(flat[node].func)' = callers
      BY <1>1, <1>2 DEF CallersFor, Nodes
    <3>2. callers \in Seq(Funcs)
      BY <1>1, NodeTypes DEF CallersFor, IInv, Types
    <3> HIDE DEF callers
    <3>3. /\ n + Len(pending) <= Len(callers)
          /\ Children(node) = Len(flat) - n + 1 .. Len(flat)
          /\ \A k \in 1 .. n : flat[Len(flat) - n + k].func = callers[k]
      BY <2>1 DEF Partial, callers
    <3>4. Len(pending) \in Nat /\ Len(pending') = 0
      BY <1>1 DEF IInv, Types
    <3>5. ASSUME NEW k \in 1 .. n PROVE flat'[Len(flat) - n + k].func = callers[k]
      <4>1. Len(flat) - n + k \in 1 .. Len(flat)
        BY <1>1
      <4>2. QED
        BY <1>2, <3>3, <4>1
    <3>6. Children(node)' = Len(flat) - n + 1 .. Len(flat)
      BY <1>3, <3>3
    <3>7. QED
      BY <1>1, <1>2, <3>1, <3>2, <3>3, <3>4, <3>5, <3>6 DEF Partial
  <2>3. QED
    BY <1>2, <2>2 DEF Expanding
<1>8. QED
  BY <1>3, <1>4, <1>5, <1>6, <1>7

\* A caller is added under the node being expanded.
LEMMA AddWhole ==
  ASSUME IInv, Whole, AddCaller
  PROVE  Whole'
<1> USE DEF Whole
<1>1. /\ flat \in Seq(NodeType) /\ Len(flat) \in Nat /\ Len(flat) \in Nodes
      /\ level \in Nat /\ phase = "callers" /\ phase' = "callers"
      /\ frontier \in Seq(Nodes) /\ next \in Seq(Nodes)
      /\ pending \in Seq(Funcs) /\ pending # <<>> /\ ~AtTotal /\ total \in Nat
      /\ opt.maxTotal \in Nat /\ graph \in [Funcs -> Seq(Funcs)]
      /\ total' = total + 1
      /\ UNCHANGED <<graph, opt, level, frontier, parent>>
  <2>1. /\ flat \in Seq(NodeType) /\ level \in Nat
        /\ frontier \in Seq(Nodes) /\ next \in Seq(Nodes) /\ pending \in Seq(Funcs)
        /\ total \in Nat /\ opt.maxTotal \in Nat /\ graph \in [Funcs -> Seq(Funcs)]
    BY DEF IInv, Types
  <2>2. /\ phase = "callers" /\ phase' = "callers" /\ pending # <<>> /\ ~AtTotal
        /\ total' = total + 1 /\ UNCHANGED <<graph, opt, level, frontier, parent>>
    BY DEF AddCaller, input
  <2>3. Len(flat) \in Nat /\ Len(flat) \in Nodes
    BY <2>1 DEF IInv, Layers, Nodes
  <2>4. QED
    BY <2>1, <2>2, <2>3
<1>2. PICK p \in Nodes : p = parent /\ flat[p].depth = level
  BY <1>1 DEF IInv, FrontierFresh, Expandable
<1>3. PICK caller \in Funcs : caller = Head(pending)
  BY <1>1
<1>4. PICK isNew \in BOOLEAN : isNew = (caller \notin visited)
  OBVIOUS
<1>5. PICK last \in Nat : last = Len(flat) + 1
  BY <1>1
<1> DEFINE node == Node(caller, p, level + 1, ~isNew)
<1>6. /\ flat' = Append(flat, node)
      /\ next' = IF isNew THEN Append(next, last) ELSE next
      /\ pending' = Tail(pending)
  BY <1>2, <1>3, <1>4, <1>5 DEF AddCaller
<1>7. /\ node \in NodeType /\ node.func = caller /\ node.parent = p
      /\ node.depth = level + 1 /\ node.truncated = ~isNew
  BY <1>1, <1>2 DEF NodeType, Node, Nodes
<1> HIDE DEF node
<1>8. /\ flat' \in Seq(NodeType) /\ Len(flat') = last /\ flat'[last] = node
      /\ \A i \in Nodes : flat'[i] = flat[i]
      /\ Nodes' = Nodes \cup {last} /\ last \notin Nodes /\ \A i \in Nodes : i < last
  <2>1. /\ flat' \in Seq(NodeType) /\ Len(flat') = last /\ flat'[last] = node
        /\ \A i \in 1 .. Len(flat) : flat'[i] = flat[i]
    BY <1>1, <1>5, <1>6, <1>7, AppendNode
  <2>2. Nodes = 1 .. Len(flat) /\ Nodes' = 1 .. Len(flat')
    BY DEF Nodes
  <2>3. Nodes' = Nodes \cup {last} /\ last \notin Nodes /\ \A i \in Nodes : i < last
    BY <1>1, <1>5, <2>1, <2>2
  <2>4. QED
    BY <2>1, <2>2, <2>3
<1>9. ASSUME NEW i \in Nodes PROVE FirstSighting(i)' <=> FirstSighting(i)
  <2>1. \A j \in 1 .. i - 1 : j \in Nodes
    BY <1>1 DEF Nodes
  <2>2. QED
    BY <1>8, <2>1 DEF FirstSighting
<1>10. FirstSighting(last)' => isNew
  <2> SUFFICES ASSUME ~isNew PROVE ~ FirstSighting(last)'
    OBVIOUS
  <2>1. PICK i \in Nodes : flat[i].func = caller
    BY <1>4 DEF IInv, VisitedExact
  <2>2. i \in 1 .. last - 1 /\ flat'[i].func = flat'[last].func
    BY <1>1, <1>5, <1>7, <1>8, <2>1 DEF Nodes
  <2>3. QED
    BY <2>2 DEF FirstSighting
<1>11. ASSUME NEW i \in Nodes PROVE Children(i)' = IF i = p THEN Children(i) \cup {last} ELSE Children(i)
  BY <1>7, <1>8 DEF Children
<1>12. ASSUME NEW i \in Nodes, i # p, Handled(i) PROVE Handled(i)'
  <2>1. CASE flat[i].truncated
    BY <1>8, <2>1 DEF Handled
  <2>2. CASE ListsCallers(i)
    <3> DEFINE callers == CallersFor(flat[i].func)
    <3>1. graph'[flat'[i].func] = callers /\ callers \in Seq(Funcs)
      BY <1>1, <1>8, NodeTypes DEF CallersFor
    <3>2. PICK b \in Nodes :
            /\ Children(i) = b + 1 .. b + Len(callers)
            /\ \A k \in 1 .. Len(callers) : flat[b + k].func = callers[k]
      BY <2>2 DEF ListsCallers, Children
    <3> HIDE DEF callers
    <3>3. ASSUME NEW k \in 1 .. Len(callers) PROVE flat'[b + k].func = callers[k]
      <4>1. b + k \in b + 1 .. b + Len(callers)
        BY <3>1 DEF Nodes
      <4>2. b + k \in Nodes
        BY <3>2, <4>1 DEF Children
      <4>3. QED
        BY <1>8, <3>2, <4>2
    <3>4. Children(i)' = b + 1 .. b + Len(callers)
      BY <1>11, <1>12, <3>2
    <3>5. b \in Nodes'
      BY <1>8
    <3>6. ListsCallers(i)'
      BY <3>1, <3>3, <3>4, <3>5 DEF ListsCallers, Children, CallersFor
    <3>7. QED
      BY <3>6 DEF Handled
  <2>3. QED
    BY <1>12, <2>1, <2>2 DEF Handled
<1>13. Queued'
  <2>1. /\ Ascending(frontier) /\ Ascending(next)
        /\ \A j \in 2 .. Len(flat) : Above(frontier, flat[j].parent) /\ Above(next, flat[j].parent)
        /\ \A k \in 1 .. Len(frontier) : Above(next, frontier[k])
        /\ Above(frontier, p) /\ Above(next, p)
    BY <1>1, <1>2 DEF Queued
  <2>2. /\ Len(next) \in Nat
        /\ \A k \in 1 .. Len(next) : next[k] \in Nodes /\ next'[k] = next[k]
        /\ Len(next') \in {Len(next), Len(next) + 1}
        /\ Len(next') = Len(next) + 1 => next'[Len(next) + 1] = last
    BY <1>1, <1>6
  <2>3. Ascending(next')
    <3> SUFFICES ASSUME NEW k \in 1 .. Len(next'), NEW l \in 1 .. Len(next'), k < l
                 PROVE  next'[k] < next'[l]
      BY DEF Ascending
    <3>1. CASE l \in 1 .. Len(next)
      BY <2>1, <2>2, <3>1 DEF Ascending
    <3>2. CASE l = Len(next) + 1
      BY <1>8, <2>2, <3>2
    <3>3. QED
      BY <2>2, <3>1, <3>2
  <2>4. ASSUME NEW i \in Nodes, Above(next, i) PROVE Above(next', i)
    BY <1>8, <2>2, <2>4 DEF Above
  <2>5. \A k \in 1 .. Len(frontier) : frontier[k] \in Nodes
    BY <1>1
  <2>6. \A k \in 1 .. Len(frontier) : Above(next', frontier[k])
    BY <2>1, <2>4, <2>5
  <2>7. ASSUME NEW j \in 2 .. last PROVE Above(frontier, flat'[j].parent) /\ Above(next', flat'[j].parent)
    <3>1. CASE j = last
      BY <1>7, <1>8, <2>1, <2>4, <3>1
    <3>2. CASE j \in 2 .. Len(flat)
      <4>1. j \in Nodes /\ flat'[j] = flat[j] /\ flat[j].parent \in Nodes
        BY <1>8, <3>2 DEF IInv, Layers, BreadthFirst, Nodes
      <4>2. QED
        BY <2>1, <2>4, <3>2, <4>1
    <3>3. QED
      BY <1>1, <1>5, <3>1, <3>2
  <2>8. Above(frontier, p) /\ Above(next', p)
    BY <2>1, <2>4
  <2>9. QED
    BY <1>1, <1>2, <1>8, <2>1, <2>3, <2>6, <2>7, <2>8 DEF Queued, Ascending, Above
<1>14. Covered'
  <2>1. ASSUME NEW i \in Nodes, FirstSighting(i)
        PROVE  /\ flat[i].depth < level => Handled(i)'
               /\ flat[i].depth = level => In(i, frontier) \/ i = p \/ Handled(i)'
               /\ flat[i].depth = level + 1 => In(i, next')
    <3>1. /\ flat[i].depth < level => Handled(i)
          /\ flat[i].depth = level => In(i, frontier) \/ i = p \/ Handled(i)
          /\ flat[i].depth = level + 1 => In(i, next)
      BY <1>1, <1>2, <2>1 DEF Covered
    <3>2. In(i, next) => In(i, next')
      BY <1>1, <1>6 DEF In
    <3>3. i = p => ~ (flat[i].depth < level)
      BY <1>1, <1>2
    <3>4. QED
      BY <1>12, <3>1, <3>2, <3>3
  <2>2. isNew => In(last, next')
    <3> SUFFICES ASSUME isNew PROVE In(last, next')
      OBVIOUS
    <3>1. Len(next') = Len(next) + 1 /\ next'[Len(next) + 1] = last /\ Len(next) \in Nat
      BY <1>1, <1>6
    <3>2. QED
      BY <3>1 DEF In
  <2>3. flat'[last].depth = level + 1 /\ ~ (level + 1 < level) /\ level + 1 # level
    BY <1>1, <1>7, <1>8
  <2> SUFFICES ASSUME NEW i \in Nodes', FirstSighting(i)'
               PROVE  /\ flat'[i].depth < level => Handled(i)'
                      /\ flat'[i].depth = level => In(i, frontier) \/ i = p \/ Handled(i)'
                      /\ flat'[i].depth = level + 1 => In(i, next')
    BY <1>1, <1>2 DEF Covered, In
  <2>4. CASE i \in Nodes
    BY <1>8, <1>9, <2>1, <2>4
  <2>5. CASE i = last
    BY <1>10, <2>2, <2>3, <2>5
  <2>6. QED
    BY <1>8, <2>4, <2>5
<1>15. PICK n \in 0 .. Len(flat) - 1 : Partial(n)
  BY <1>1 DEF Expanding
<1> DEFINE callers == CallersFor(flat[p].func)
<1> PICK m \in Nat : m = Len(flat) - n
  <2>1. Len(flat) - n \in Nat
    BY <1>1
  <2>2. QED
    BY <2>1
<1>16. callers \in Seq(Funcs) /\ graph'[flat'[p].func] = callers
  BY <1>1, <1>8, NodeTypes DEF CallersFor
<1>17. /\ n + Len(pending) <= Len(callers)
       /\ Children(p) = Len(flat) - n + 1 .. Len(flat)
       /\ \A k \in 1 .. n : flat[Len(flat) - n + k].func = callers[k]
       /\ \A k \in 1 .. Len(pending) : pending[k] = callers[n + k]
       /\ flat[p].truncated \/ n + Len(pending) = Len(callers)
  BY <1>2, <1>15 DEF Partial
<1> HIDE DEF callers
<1>18. /\ Len(pending) \in Nat /\ Len(pending) >= 1 /\ caller = callers[n + 1]
       /\ Len(pending') = Len(pending) - 1
       /\ \A k \in 1 .. Len(pending') : pending'[k] = pending[k + 1]
  <2>1. /\ Len(pending) \in Nat /\ Len(pending) >= 1 /\ caller = pending[1]
        /\ Len(pending') = Len(pending) - 1
        /\ \A k \in 1 .. Len(pending') : pending'[k] = pending[k + 1]
    BY <1>1, <1>3, <1>6
  <2>2. QED
    BY <1>17, <2>1
<1>19. Expanding'
  <2>1. n + 1 \in 0 .. Len(flat') - 1
    BY <1>1, <1>5, <1>8
  <2>2. n + 1 + Len(pending') <= Len(callers)
    BY <1>17, <1>18
  <2>3. Children(p)' = Len(flat') - (n + 1) + 1 .. Len(flat')
    <3>1. Children(p)' = (m + 1 .. Len(flat)) \cup {last}
      BY <1>11, <1>17
    <3>2. (m + 1 .. Len(flat)) \cup {last} = m + 1 .. last
      BY <1>1, <1>5
    <3>3. Len(flat') - (n + 1) + 1 = m + 1 /\ Len(flat') = last
      BY <1>1, <1>5, <1>8
    <3>4. QED
      BY <3>1, <3>2, <3>3
  <2>4. ASSUME NEW k \in 1 .. n + 1 PROVE flat'[Len(flat') - (n + 1) + k].func = callers[k]
    <3>1. CASE k = n + 1
      <4>1. Len(flat') - (n + 1) + k = last
        BY <1>1, <1>5, <1>8, <3>1
      <4>2. QED
        BY <1>7, <1>8, <1>18, <3>1, <4>1
    <3>2. CASE k \in 1 .. n
      <4>1. Len(flat') - (n + 1) + k = m + k
        BY <1>1, <1>5, <1>8, <3>2
      <4>2. m + k \in Nodes
        BY <1>1, <3>2 DEF Nodes
      <4>3. flat[m + k].func = callers[k]
        BY <1>17, <3>2
      <4>4. QED
        BY <1>8, <4>1, <4>2, <4>3
    <3>3. QED
      BY <3>1, <3>2
  <2>5. ASSUME NEW k \in 1 .. Len(pending') PROVE pending'[k] = callers[n + 1 + k]
    <3>1. k + 1 \in 1 .. Len(pending) /\ n + (k + 1) = n + 1 + k
      BY <1>18
    <3>2. QED
      BY <1>17, <1>18, <3>1
  <2>6. flat'[p].truncated \/ n + 1 + Len(pending') = Len(callers)
    <3>1. CASE flat[p].truncated
      BY <1>8, <3>1
    <3>2. CASE n + Len(pending) = Len(callers)
      <4>1. n \in Int /\ Len(pending) \in Int /\ Len(pending') = Len(pending) - 1
        BY <1>18
      <4>2. n + 1 + Len(pending') = n + Len(pending)
        BY <4>1
      <4>3. QED
        BY <3>2, <4>2
    <3>3. QED
      BY <1>17, <3>1, <3>2
  <2>7. Partial(n + 1)'
    BY <1>1, <1>2, <1>16, <2>2, <2>3, <2>4, <2>5, <2>6 DEF Partial, Children, CallersFor
  <2>8. QED
    BY <2>1, <2>7 DEF Expanding
<1>20. Uncut'
  <2> SUFFICES ASSUME opt.maxCallers = 0, NEW i \in Nodes', FirstSighting(i)'
               PROVE  ~ flat'[i].truncated
    BY <1>1 DEF Uncut
  <2>1. CASE i \in Nodes
    BY <1>1, <1>8, <1>9, <2>1 DEF Uncut
  <2>2. CASE i = last
    BY <1>7, <1>8, <1>10, <2>2
  <2>3. QED
    BY <1>8, <2>1, <2>2
<1>21. Near'
  <2>1. ASSUME NEW i \in Nodes PROVE Within(flat[i].func, flat[i].depth)'
    <3>1. PICK f, d : f = flat[i].func /\ d = flat[i].depth
      OBVIOUS
    <3>2. flat'[i].func = f /\ flat'[i].depth = d /\ Within(f, d)
      BY <1>8, <3>1 DEF Near
    <3>3. Within(f, d)'
      BY <1>1, <3>2, WithinSame
    <3>4. QED
      BY <3>2, <3>3 DEF Within
  <2>2. Within(flat[last].func, flat[last].depth)'
    <3>1. PICK g \in Funcs, d \in Nat : g = flat[p].func /\ d = level
      BY <1>1, NodeTypes
    <3>2. Within(g, d)
      BY <1>2, <3>1 DEF Near
    <3>3. callers = CallersFor(g) /\ n + 1 \in 1 .. Len(callers)
      BY <1>16, <1>17, <1>18, <3>1 DEF callers
    <3>4. Calls(caller, g)
      BY <1>16, <1>18, <3>3 DEF Calls
    <3>5. Within(caller, d + 1)
      BY <3>2, <3>4, WithinCaller
    <3>6. Within(caller, d + 1)'
      BY <1>1, <3>5, WithinSame
    <3>7. flat'[last].func = caller /\ flat'[last].depth = d + 1
      BY <1>7, <1>8, <3>1
    <3>8. QED
      BY <3>6, <3>7 DEF Within
  <2>3. QED
    BY <1>8, <2>1, <2>2 DEF Near
<1>22. Rooted' /\ Ended'
  <2>1. 1 \in Nodes
    BY <1>1 DEF Nodes
  <2>2. QED
    BY <1>1, <1>8, <2>1 DEF Rooted, Ended
<1>23. QED
  BY <1>13, <1>14, <1>19, <1>20, <1>21, <1>22

LEMMA NextWhole == IInv /\ Whole /\ [Next]_vars => Whole'
BY ControlWhole, QueryWhole, CutWhole, AddWhole DEF Next

\* Both invariants, in every reachable state.
THEOREM WholeInvariant == Spec => [](IInv /\ Whole)
<1>1. IInv /\ Whole /\ [Next]_vars => (IInv /\ Whole)'
  BY NextIInv, NextWhole
<1>2. QED
  BY <1>1, InitIInv, InitWhole, PTL DEF Spec

\* A target that does not list all its callers is marked, whatever cut it short.
THEOREM CutsAreMarked == Spec => []QueriedCutsMarked
<1>1. Whole => QueriedCutsMarked
  BY DEF Whole, Covered, Handled, QueriedCutsMarked
<1>2. QED
  BY <1>1, WholeInvariant, PTL

\* The finished tree without a cut: all callers of every node above --depth.
LEMMA AllListed ==
  ASSUME IInv, Whole, phase = "done", ~AtTotal, opt.maxCallers = 0,
         NEW i \in Nodes, FirstSighting(i), flat[i].depth < opt.depth
  PROVE  ListsCallers(i)
<1>1. /\ flat \in Seq(NodeType) /\ Len(flat) \in Nodes /\ level \in Nat /\ BreadthFirst
      /\ flat[i].depth \in Nat /\ flat[Len(flat)].depth \in Nat /\ i <= Len(flat)
  BY NodeTypes DEF IInv, Types, Layers, Nodes
<1>2. flat[i].depth <= level
  BY <1>1, DepthsAscend DEF Whole, Ended
<1>3. flat[i].depth # level \/ level = opt.depth
  <2>1. flat[i].depth = level => In(i, frontier)
    BY DEF Whole, Covered
  <2>2. frontier = <<>> => ~ In(i, frontier)
    BY DEF In
  <2>3. QED
    BY <2>1, <2>2 DEF Whole, Ended
<1>4. flat[i].depth < level
  BY <1>1, <1>2, <1>3
<1>5. QED
  BY <1>4 DEF Whole, Covered, Handled, Uncut

\* Every function has a first sighting, which no other node of it precedes.
LEMMA Sighted ==
  ASSUME IInv, NEW j \in Nodes
  PROVE  \E i \in Nodes : /\ FirstSighting(i) /\ flat[i].func = flat[j].func
                          /\ flat[i].depth <= flat[j].depth
<1> DEFINE T == {i \in Nodes : flat[i].func = flat[j].func}
<1>1. T \in SUBSET Nat /\ T # {}
  BY DEF Nodes
<1>2. PICK i \in T : \A x \in T : i <= x
  BY <1>1, LeastNumber
<1>3. i \in Nodes /\ i <= j /\ flat[i].func = flat[j].func
  BY <1>2
<1>4. FirstSighting(i)
  <2> SUFFICES ASSUME NEW x \in 1 .. i - 1, flat[x].func = flat[i].func PROVE FALSE
    BY DEF FirstSighting
  <2>1. x \in Nodes /\ x < i /\ i \in Nat /\ x \in Nat
    BY <1>3 DEF Nodes
  <2>2. x \in T
    BY <1>3, <2>1
  <2>3. QED
    BY <1>2, <2>1, <2>2
<1>5. flat[i].depth <= flat[j].depth
  BY <1>3, DepthsAscend DEF IInv, Types, Layers
<1>6. QED
  BY <1>3, <1>4, <1>5

\* The finished tree without a cut has every function within --depth, no deeper than
\* the way to it is long: the first function on that way that is missing, or too deep,
\* would be a caller of the one before it, which lists its callers.
LEMMA WithinIsFound ==
  ASSUME IInv, Whole, phase = "done", ~AtTotal, opt.maxCallers = 0,
         NEW f \in Funcs, NEW d \in 0 .. opt.depth, Within(f, d)
  PROVE  \E i \in Nodes : FirstSighting(i) /\ flat[i].func = f /\ flat[i].depth <= d
<1>1. /\ flat \in Seq(NodeType) /\ opt.depth \in Nat /\ graph \in [Funcs -> Seq(Funcs)]
      /\ 1 \in Nodes
  BY DEF IInv, Types, Layers, Nodes
<1>2. PICK n \in 0 .. d : \E path \in [0 .. n -> Funcs] :
        path[0] = Root /\ path[n] = f /\ \A k \in 1 .. n : Calls(path[k], path[k - 1])
  BY DEF Within
<1>3. PICK path \in [0 .. n -> Funcs] :
        path[0] = Root /\ path[n] = f /\ \A k \in 1 .. n : Calls(path[k], path[k - 1])
  BY <1>2
<1> DEFINE Found(k) ==
      \E i \in Nodes : FirstSighting(i) /\ flat[i].func = path[k] /\ flat[i].depth <= k
    T == {k \in 0 .. n : ~ Found(k)}
<1>4. Found(0)
  BY <1>1, <1>3 DEF Whole, Rooted, FirstSighting
<1>5. ASSUME NEW k \in 1 .. n, Found(k - 1) PROVE Found(k)
  <2>1. PICK i \in Nodes :
          FirstSighting(i) /\ flat[i].func = path[k - 1] /\ flat[i].depth <= k - 1
    BY <1>5
  <2>2. flat[i].depth \in Nat /\ flat[i].depth < opt.depth
    BY <1>1, <2>1, NodeTypes
  <2>3. ListsCallers(i)
    BY <2>1, <2>2, AllListed
  <2> DEFINE callers == CallersFor(flat[i].func)
  <2>4. PICK b \in Nodes :
          /\ Children(i) = b + 1 .. b + Len(callers)
          /\ \A l \in 1 .. Len(callers) : flat[b + l].func = callers[l]
    BY <2>3 DEF ListsCallers, Children
  <2>5. callers \in Seq(Funcs)
    BY <1>1, NodeTypes DEF CallersFor
  <2>6. PICK l \in DOMAIN callers : callers[l] = path[k]
    BY <1>3, <2>1 DEF Calls
  <2> HIDE DEF callers
  <2>7. l \in 1 .. Len(callers) /\ b + l \in b + 1 .. b + Len(callers)
    BY <2>5, <2>6 DEF Nodes
  <2>8. b + l \in Nodes /\ flat[b + l].parent = i /\ flat[b + l].func = path[k]
    BY <2>4, <2>6, <2>7 DEF Children
  <2>9. flat[b + l].depth = flat[i].depth + 1
    <3>1. b + l \in 2 .. Len(flat)
      BY <2>7, <2>8 DEF Nodes
    <3>2. QED
      BY <2>8, <3>1 DEF IInv, Layers, BreadthFirst
  <2>10. PICK j \in Nodes : /\ FirstSighting(j) /\ flat[j].func = flat[b + l].func
                            /\ flat[j].depth <= flat[b + l].depth
    BY <2>8, Sighted
  <2>11. flat[j].depth \in Nat /\ flat[j].depth <= k
    <3>1. flat[j].depth \in Nat
      BY <1>1, NodeTypes
    <3>2. flat[i].depth + 1 <= k /\ flat[j].depth <= flat[i].depth + 1
      BY <2>1, <2>2, <2>9, <2>10
    <3>3. QED
      BY <2>2, <3>1, <3>2
  <2>12. QED
    BY <2>8, <2>10, <2>11
<1>6. T = {}
  <2> SUFFICES ASSUME T # {} PROVE FALSE
    OBVIOUS
  <2>1. T \in SUBSET Nat
    OBVIOUS
  <2> HIDE DEF Found
  <2>2. PICK k \in T : \A x \in T : k <= x
    BY <2>1, LeastNumber
  <2>3. k \in 1 .. n /\ k - 1 \in 0 .. n
    BY <1>4, <2>2
  <2>4. k - 1 \notin T
    BY <2>2, <2>3
  <2>5. Found(k - 1)
    BY <2>3, <2>4
  <2>6. QED
    BY <1>5, <2>2, <2>3, <2>5
<1>7. Found(n)
  <2> HIDE DEF Found
  <2>1. QED
    BY <1>6
<1>8. PICK i \in Nodes : FirstSighting(i) /\ flat[i].func = f /\ flat[i].depth <= n
  BY <1>3, <1>7
<1>9. flat[i].depth \in Nat /\ flat[i].depth <= d
  BY <1>1, <1>8, NodeTypes
<1>10. QED
  BY <1>8, <1>9

\* A cut is marked where it fell, and when no budget cuts the tree it is the whole
\* answer, for every graph, cycles included: the functions within --depth and no
\* others, each listing its callers.
THEOREM TreeIsWhole == Spec => []TreeIsComplete
<1>1. IInv /\ Whole /\ QueriedCutsMarked => TreeIsComplete
  <2> SUFFICES ASSUME IInv, Whole, QueriedCutsMarked,
                      phase = "done", ~AtTotal, opt.maxCallers = 0
               PROVE  /\ {flat[i].func : i \in Nodes} = {f \in Funcs : Within(f, opt.depth)}
                      /\ \A i \in Nodes :
                           FirstSighting(i) /\ opt.depth > 0 /\ Within(flat[i].func, opt.depth - 1)
                             => ListsCallers(i)
    BY DEF TreeIsComplete
  <2>1. /\ flat \in Seq(NodeType) /\ opt.depth \in Nat /\ level \in Nat /\ level <= opt.depth
        /\ Len(flat) \in Nodes /\ BreadthFirst
    BY DEF IInv, Types, Layers, Nodes
  <2>2. ASSUME NEW i \in Nodes PROVE flat[i].func \in Funcs /\ Within(flat[i].func, opt.depth)
    <3>1. PICK n \in Nat : n = flat[i].depth /\ n <= opt.depth
      <4>1. i <= Len(flat) /\ flat[i].depth \in Nat /\ flat[Len(flat)].depth \in Nat
        BY <2>1, NodeTypes DEF Nodes
      <4>2. flat[i].depth <= flat[Len(flat)].depth /\ flat[Len(flat)].depth <= level
        BY <2>1, <4>1, DepthsAscend DEF Whole, Ended
      <4>3. QED
        BY <2>1, <4>1, <4>2
    <3>2. Within(flat[i].func, n)
      BY <3>1 DEF Whole, Near
    <3>3. 0 .. n \subseteq 0 .. opt.depth
      BY <2>1, <3>1
    <3>4. QED
      BY <2>1, <3>2, <3>3, NodeTypes DEF Within
  <2>3. ASSUME NEW f \in Funcs, Within(f, opt.depth) PROVE \E i \in Nodes : flat[i].func = f
    BY <2>1, <2>3, WithinIsFound
  <2>4. ASSUME NEW i \in Nodes, FirstSighting(i), opt.depth > 0,
               Within(flat[i].func, opt.depth - 1)
        PROVE  ListsCallers(i)
    <3>1. flat[i].func \in Funcs /\ opt.depth - 1 \in 0 .. opt.depth
      BY <2>1, <2>4, NodeTypes
    <3>2. PICK j \in Nodes : /\ FirstSighting(j) /\ flat[j].func = flat[i].func
                             /\ flat[j].depth <= opt.depth - 1
      BY <2>4, <3>1, WithinIsFound
    <3>3. j = i
      <4>1. ~ (i < j) /\ ~ (j < i)
        BY <2>4, <3>2 DEF FirstSighting, Nodes
      <4>2. QED
        BY <4>1 DEF Nodes
    <3>4. flat[i].depth < opt.depth
      BY <2>1, <3>2, <3>3, NodeTypes
    <3>5. QED
      BY <2>4, <3>4, AllListed
  <2>5. QED
    BY <2>2, <2>3, <2>4
<1>2. QED
  BY <1>1, WholeInvariant, CutsAreMarked, PTL

-----------------------------------------------------------------------------
(* Blocks.                                                                  *)

CodeTyped == code \in [Addresses -> [kind : Kinds, size : Nat \ {0}, target : Nat]]

LEMMA InstructionTypes ==
  ASSUME CodeTyped, NEW a \in Addresses
  PROVE  /\ a \in Nat /\ code[a].kind \in Kinds
         /\ NextRva(a) \in Nat /\ code[a].target \in Nat
<1>1. code[a] \in [kind : Kinds, size : Nat \ {0}, target : Nat]
  BY DEF CodeTyped
<1>2. a \in Nat
  BY CodeAssumption DEF Addresses
<1>3. code[a].kind \in Kinds /\ code[a].size \in Nat /\ code[a].target \in Nat
  BY <1>1
<1>4. QED
  BY <1>2, <1>3 DEF NextRva

LEMMA SomeBytes == ByteLimit \in Nat \ {0}
BY CodeAssumption DEF ByteLimit

\* A block is a run of instructions from its start on: there are runs, and the
\* longest of them exist.
LEMMA BlockIsRun ==
  ASSUME CodeTyped, NEW start \in Addresses, Decodable(start)
  PROVE  /\ BlockAt(start) \in RunsFrom(start)
         /\ Len(BlockAt(start)) \in Nat \ {0}
         /\ \A i \in 1 .. Len(BlockAt(start)) : BlockAt(start)[i] \in Addresses
<1> DEFINE Room == {BlockLimit - Len(insns) : insns \in RunsFrom(start)}
<1>1. ASSUME NEW insns \in RunsFrom(start)
      PROVE  \E n \in 1 .. BlockLimit : insns \in [1 .. n -> Addresses] /\ Len(insns) = n
  <2> DEFINE Reach == {a \in start .. End - 1 : a < start + ByteLimit}
  <2>1. PICK n \in 1 .. BlockLimit : insns \in [1 .. n -> Reach]
    BY DEF RunsFrom
  <2>2. n \in Nat /\ Reach \subseteq Addresses
    BY CodeAssumption DEF Addresses
  <2>3. insns \in [1 .. n -> Addresses]
    BY <2>1, <2>2
  <2>4. Len(insns) = n
    BY <2>2, <2>3
  <2>5. QED
    BY <2>3, <2>4
<1>2. RunsFrom(start) # {}
  <2> DEFINE one == [i \in 1 .. 1 |-> start]
  <2>1. /\ one \in [1 .. 1 -> {a \in start .. End - 1 : a < start + ByteLimit}]
        /\ one[1] = start /\ 1 \in 1 .. BlockLimit
    BY CodeAssumption, SomeBytes DEF Addresses
  <2>2. Len(one) = 1
    BY <2>1
  <2>3. Straight(one)
    BY <2>1, <2>2 DEF Straight
  <2>4. QED
    BY <2>1, <2>3 DEF RunsFrom
<1>3. Room \in SUBSET Nat /\ Room # {}
  BY <1>1, <1>2, CodeAssumption
<1>4. PICK least \in Room : \A room \in Room : least <= room
  BY <1>3, LeastNumber
<1>5. PICK longest \in RunsFrom(start) : least = BlockLimit - Len(longest)
  BY <1>4
<1>6. ASSUME NEW other \in RunsFrom(start) PROVE Len(other) <= Len(longest)
  <2>1. Len(other) \in Nat /\ Len(longest) \in Nat /\ BlockLimit \in Nat
    BY <1>1, CodeAssumption
  <2>2. BlockLimit - Len(longest) <= BlockLimit - Len(other)
    BY <1>4, <1>5
  <2>3. QED
    BY <2>1, <2>2
<1>7. BlockAt(start) \in RunsFrom(start)
  BY <1>6 DEF BlockAt
<1>8. PICK n \in 1 .. BlockLimit : BlockAt(start) \in [1 .. n -> Addresses] /\ Len(BlockAt(start)) = n
  BY <1>1, <1>7
<1>9. n \in Nat \ {0}
  BY CodeAssumption
<1>10. QED
  BY <1>7, <1>8, <1>9

LEMMA LastOfBlock ==
  ASSUME CodeTyped, NEW start \in Addresses, Decodable(start)
  PROVE  /\ Len(BlockAt(start)) \in 1 .. Len(BlockAt(start))
         /\ LastOf(start) = BlockAt(start)[Len(BlockAt(start))]
         /\ LastOf(start) \in Addresses /\ Decodable(LastOf(start))
<1>1. Len(BlockAt(start)) \in 1 .. Len(BlockAt(start))
  BY BlockIsRun
<1>2. LastOf(start) = BlockAt(start)[Len(BlockAt(start))]
  BY DEF LastOf
<1>3. Straight(BlockAt(start))
  BY BlockIsRun DEF RunsFrom
<1>4. QED
  BY <1>1, <1>2, <1>3, BlockIsRun DEF Straight

\* From one instruction of a block to the next, control goes on.
LEMMA StepInBlock ==
  ASSUME CodeTyped, NEW start \in Addresses, Decodable(start),
         NEW i \in 1 .. Len(BlockAt(start)) - 1
  PROVE  /\ i \in 1 .. Len(BlockAt(start)) /\ i + 1 \in 1 .. Len(BlockAt(start))
         /\ Decodable(BlockAt(start)[i + 1])
         /\ Successors(BlockAt(start)[i]) = {BlockAt(start)[i + 1]}
<1> DEFINE insns == BlockAt(start)
           a == insns[i]
<1>1. i \in 1 .. Len(insns) /\ i + 1 \in 1 .. Len(insns)
  BY BlockIsRun
<1>2. Straight(insns)
  BY BlockIsRun DEF RunsFrom
<1>3. Decodable(a) /\ Decodable(insns[i + 1]) /\ ~Stops(a) /\ insns[i + 1] = NextRva(a)
  BY <1>1, <1>2 DEF Straight
<1>4. a \in Addresses
  BY <1>1, BlockIsRun
<1>5. code[a].kind \in {"plain", "sys"}
  BY <1>3, <1>4, InstructionTypes DEF Decodable, Stops, Kinds
<1>6. Successors(a) = {NextRva(a)}
  BY <1>5 DEF Successors
<1>7. QED
  BY <1>1, <1>3, <1>6

\* A set that control does not leave has the whole of a block, if it has its start.
LEMMA BlockStaysInside ==
  ASSUME CodeTyped, NEW insns \in SUBSET Addresses, NEW from, Closed(insns, from, {}),
         NEW start \in insns, Decodable(start)
  PROVE  InstructionsAt(start) \subseteq insns
<1> DEFINE block == BlockAt(start)
           Outside == {i \in 1 .. Len(block) : block[i] \notin insns}
<1>1. Len(block) \in Nat /\ block[1] = start
  BY BlockIsRun DEF RunsFrom
<1>2. CASE Outside = {}
  BY <1>2 DEF InstructionsAt
<1>3. CASE Outside # {}
  <2>1. Outside \in SUBSET Nat
    BY <1>1
  <2>2. PICK i \in Outside : \A j \in Outside : i <= j
    BY <1>3, <2>1, LeastNumber
  <2>3. i \in 1 .. Len(block) /\ block[i] \notin insns /\ i # 1
    BY <1>1, <2>2
  <2>4. i - 1 \in 1 .. Len(block) - 1 /\ i - 1 \in 1 .. Len(block) /\ (i - 1) + 1 = i /\ ~ (i <= i - 1)
    BY <1>1, <2>3
  <2>5. block[i - 1] \in insns
    BY <2>2, <2>4
  <2>6. Decodable(block[i]) /\ Successors(block[i - 1]) = {block[i]}
    BY <2>4, StepInBlock
  <2>7. InFunction(block[i])
    <3>1. block[i] \in Addresses
      BY <2>3, BlockIsRun
    <3>2. QED
      BY <3>1, CodeAssumption DEF InFunction, Addresses
  <2>8. block[i] \in insns
    BY <2>5, <2>6, <2>7 DEF Closed
  <2>9. QED
    BY <2>3, <2>8
<1>4. QED
  BY <1>2, <1>3

\* An edge of a block leads where its last instruction does, or to the seam if that
\* is torn; unless it is torn or a system call every way on is an edge.
LEMMA EdgesOfBlock ==
  ASSUME CodeTyped, NEW start \in Addresses, Decodable(start)
  PROVE  /\ \A e \in BlockEdges(start) :
              /\ e.from = start /\ e.to \in Nat
              /\ IF Torn(start) THEN e.to = BlockEnd(start) ELSE e.to \in Successors(LastOf(start))
         /\ ~Torn(start) /\ code[LastOf(start)].kind # "sys" =>
              \A b \in Successors(LastOf(start)) : \E e \in BlockEdges(start) : e.to = b
<1> DEFINE last == LastOf(start)
           kind == code[last].kind
<1>1. kind \in Kinds /\ NextRva(last) \in Nat /\ code[last].target \in Nat
  BY LastOfBlock, InstructionTypes
<1>2. CASE Torn(start)
  <2>1. BlockEdges(start) = {Edge(start, "fallthrough", BlockEnd(start))}
    BY <1>2 DEF BlockEdges, LastKind
  <2>2. BlockEnd(start) \in Nat
    BY <1>2, SomeBytes, InstructionTypes DEF BlockEnd
  <2>3. QED
    BY <1>2, <2>1, <2>2 DEF Edge
<1> SUFFICES ASSUME ~Torn(start)
             PROVE  /\ \A e \in BlockEdges(start) :
                         e.from = start /\ e.to \in Nat /\ e.to \in Successors(last)
                    /\ kind # "sys" =>
                         \A b \in Successors(last) : \E e \in BlockEdges(start) : e.to = b
  BY <1>2
<1>3. LastKind(start) = kind /\ BlockEnd(start) = NextRva(last)
  BY DEF LastKind, BlockEnd
<1>4. CASE kind = "jcc"
  <2>1. BlockEdges(start) = {Edge(start, "taken", code[last].target),
                             Edge(start, "fallthrough", NextRva(last))}
    BY <1>3, <1>4 DEF BlockEdges
  <2>2. Successors(last) = {code[last].target, NextRva(last)}
    BY <1>4 DEF Successors
  <2>3. QED
    BY <1>1, <2>1, <2>2 DEF Edge
<1>5. CASE kind = "jmp"
  <2>1. BlockEdges(start) = {Edge(start, "jump", code[last].target)}
    BY <1>3, <1>5 DEF BlockEdges
  <2>2. Successors(last) = {code[last].target}
    BY <1>5 DEF Successors
  <2>3. QED
    BY <1>1, <2>1, <2>2 DEF Edge
<1>6. CASE kind \in {"plain", "int3"}
  <2>1. BlockEdges(start) = {Edge(start, "fallthrough", NextRva(last))}
    BY <1>3, <1>6 DEF BlockEdges
  <2>2. Successors(last) = {NextRva(last)}
    BY <1>6 DEF Successors
  <2>3. QED
    BY <1>1, <2>1, <2>2 DEF Edge
<1>7. CASE kind \in {"indirect", "ret", "unmapped"}
  <2>1. BlockEdges(start) = {} /\ Successors(last) = {}
    BY <1>3, <1>7 DEF BlockEdges, Successors
  <2>2. QED
    BY <2>1
<1>8. CASE kind = "sys"
  <2>1. BlockEdges(start) = {}
    BY <1>3, <1>8 DEF BlockEdges
  <2>2. QED
    BY <1>8, <2>1
<1>9. QED
  BY <1>1, <1>4, <1>5, <1>6, <1>7, <1>8 DEF Kinds

-----------------------------------------------------------------------------
(* The queue.                                                               *)

Waits(a, starts) == \E i \in 1 .. Len(starts) : starts[i] = a

LEMMA WaitsInTail ==
  ASSUME NEW starts \in Seq(Addresses), starts # <<>>
  PROVE  /\ Head(starts) \in Addresses /\ Tail(starts) \in Seq(Addresses)
         /\ \A a : Waits(a, starts) <=> a = Head(starts) \/ Waits(a, Tail(starts))
<1>1. /\ Len(starts) \in Nat \ {0} /\ Len(Tail(starts)) = Len(starts) - 1
      /\ Head(starts) = starts[1] /\ starts[1] \in Addresses /\ Tail(starts) \in Seq(Addresses)
      /\ \A i \in 1 .. Len(Tail(starts)) : Tail(starts)[i] = starts[i + 1]
  OBVIOUS
<1>2. ASSUME NEW a, NEW i \in 1 .. Len(starts), starts[i] = a
      PROVE  a = Head(starts) \/ Waits(a, Tail(starts))
  <2>1. CASE i = 1
    BY <1>1, <1>2, <2>1
  <2>2. CASE i # 1
    <3>1. i - 1 \in 1 .. Len(Tail(starts)) /\ (i - 1) + 1 = i
      BY <1>1, <1>2, <2>2
    <3>2. Tail(starts)[i - 1] = a
      BY <1>1, <1>2, <3>1
    <3>3. QED
      BY <3>1, <3>2 DEF Waits
  <2>3. QED
    BY <2>1, <2>2
<1>3. ASSUME NEW a, a = Head(starts) PROVE Waits(a, starts)
  <2>1. 1 \in 1 .. Len(starts)
    BY <1>1
  <2>2. QED
    BY <1>1, <1>3, <2>1 DEF Waits
<1>4. ASSUME NEW a, NEW i \in 1 .. Len(Tail(starts)), Tail(starts)[i] = a
      PROVE  Waits(a, starts)
  <2>1. i + 1 \in 1 .. Len(starts) /\ starts[i + 1] = a
    BY <1>1, <1>4
  <2>2. QED
    BY <2>1 DEF Waits
<1>5. QED
  BY <1>1, <1>2, <1>3, <1>4 DEF Waits

LEMMA WaitsInBoth ==
  ASSUME NEW s \in Seq(Addresses), NEW t \in Seq(Addresses)
  PROVE  /\ s \o t \in Seq(Addresses)
         /\ \A a : Waits(a, s \o t) <=> Waits(a, s) \/ Waits(a, t)
<1>1. /\ Len(s) \in Nat /\ Len(t) \in Nat /\ Len(s \o t) = Len(s) + Len(t)
      /\ s \o t \in Seq(Addresses)
      /\ \A i \in 1 .. Len(s) : (s \o t)[i] = s[i]
      /\ \A i \in 1 .. Len(t) : (s \o t)[Len(s) + i] = t[i]
  OBVIOUS
<1>2. ASSUME NEW a, NEW i \in 1 .. Len(s \o t), (s \o t)[i] = a
      PROVE  Waits(a, s) \/ Waits(a, t)
  <2>1. CASE i \in 1 .. Len(s)
    BY <1>1, <1>2, <2>1 DEF Waits
  <2>2. CASE i \notin 1 .. Len(s)
    <3>1. i - Len(s) \in 1 .. Len(t) /\ Len(s) + (i - Len(s)) = i
      BY <1>1, <1>2, <2>2
    <3>2. t[i - Len(s)] = a
      BY <1>1, <1>2, <3>1
    <3>3. QED
      BY <3>1, <3>2 DEF Waits
  <2>3. QED
    BY <2>1, <2>2
<1>3. ASSUME NEW a, NEW i \in 1 .. Len(s), s[i] = a PROVE Waits(a, s \o t)
  <2>1. i \in 1 .. Len(s \o t) /\ (s \o t)[i] = a
    BY <1>1, <1>3
  <2>2. QED
    BY <2>1 DEF Waits
<1>4. ASSUME NEW a, NEW i \in 1 .. Len(t), t[i] = a PROVE Waits(a, s \o t)
  <2>1. Len(s) + i \in 1 .. Len(s \o t) /\ (s \o t)[Len(s) + i] = a
    BY <1>1, <1>4
  <2>2. QED
    BY <2>1 DEF Waits
<1>5. QED
  BY <1>1, <1>2, <1>3, <1>4 DEF Waits

\* The targets of a block's edges into the function are queued, and nothing else.
LEMMA TargetsWait ==
  ASSUME CodeTyped, NEW start \in Addresses, Decodable(start)
  PROVE  LET found == Inside(BlockEdges(start))
         IN  /\ InOrder(found) \in Seq(Addresses)
             /\ \A a : Waits(a, InOrder(found)) <=> \E e \in found : e.to = a
<1> DEFINE last == LastOf(start)
           kind == code[last].kind
           found == Inside(BlockEdges(start))
           falls == {e \in found : e.kind = "fallthrough"}
           Target(s) == IF s = {} THEN <<>> ELSE <<(CHOOSE e \in s : TRUE).to>>
<1>1. \A e \in found : e \in BlockEdges(start) /\ e.to \in Addresses
  <2>1. \A e \in BlockEdges(start) : e.to \in Nat
    BY EdgesOfBlock
  <2>2. QED
    BY <2>1, CodeAssumption DEF Inside, InFunction, Addresses
<1>2. \A e, d \in BlockEdges(start) : (e.kind = "fallthrough") = (d.kind = "fallthrough") => e = d
  BY DEF BlockEdges, Edge
<1>3. ASSUME NEW s \in SUBSET found, \A e, d \in s : e = d
      PROVE  Target(s) \in Seq(Addresses) /\ \A a : Waits(a, Target(s)) <=> \E e \in s : e.to = a
  <2>1. CASE s = {}
    <3>1. Target(s) = <<>> /\ Len(<<>>) = 0 /\ <<>> \in Seq(Addresses)
      BY <2>1
    <3>2. QED
      BY <2>1, <3>1 DEF Waits
  <2>2. CASE s # {}
    <3>1. PICK e \in s : s = {e}
      BY <1>3, <2>2
    <3>2. (CHOOSE d \in s : TRUE) = e
      BY <3>1
    <3>3. Target(s) = <<e.to>>
      BY <2>2, <3>2
    <3>4. <<e.to>> \in Seq(Addresses) /\ Len(<<e.to>>) = 1 /\ <<e.to>>[1] = e.to
      BY <1>1
    <3>5. QED
      BY <3>1, <3>3, <3>4 DEF Waits
  <2>3. QED
    BY <2>1, <2>2
<1>4. /\ falls \in SUBSET found /\ \A e, d \in falls : e = d
      /\ found \ falls \in SUBSET found /\ \A e, d \in found \ falls : e = d
  BY <1>1, <1>2
<1>5. InOrder(found) = Target(found \ falls) \o Target(falls)
  BY DEF InOrder
<1> HIDE DEF Target
<1>6. /\ InOrder(found) \in Seq(Addresses)
      /\ \A a : Waits(a, InOrder(found)) <=> Waits(a, Target(found \ falls)) \/ Waits(a, Target(falls))
  <2>1. Target(found \ falls) \in Seq(Addresses) /\ Target(falls) \in Seq(Addresses)
    BY <1>3, <1>4
  <2>2. ASSUME NEW s, NEW t, s \in Seq(Addresses), t \in Seq(Addresses), InOrder(found) = s \o t
        PROVE  /\ InOrder(found) \in Seq(Addresses)
               /\ \A a : Waits(a, InOrder(found)) <=> Waits(a, s) \/ Waits(a, t)
    BY <2>2, WaitsInBoth
  <2>3. QED
    BY <1>5, <2>1, <2>2, Zenon
<1>7. \A a : Waits(a, InOrder(found)) <=> \E e \in found : e.to = a
  BY <1>3, <1>4, <1>6
<1>8. QED
  BY <1>6, <1>7

-----------------------------------------------------------------------------
(* The inductive invariant.                                                 *)

SearchTyped ==
  /\ code \in Codes /\ CodeTyped
  /\ queue \in Seq(Addresses)
  /\ seen \subseteq Addresses /\ blocks \subseteq seen /\ notes \subseteq seen
  /\ \A s \in blocks : Decodable(s)
  /\ \A s \in notes : ~Decodable(s)
  /\ unresolved \subseteq Addresses
  /\ cfgPhase \in {"loop", "done"}
  /\ cfgPhase = "done" => queue = <<>>

\* Every start was reached by control, from the entry or a seam.
StartsReached ==
  \A insns \in SUBSET Addresses : Closed(insns, {0} \cup Seams, {}) =>
    \A a \in Addresses : Decodable(a) /\ (a \in blocks \/ Waits(a, queue)) => a \in insns

\* Only starts beyond the budget are dropped.
Accounted == Cardinality(seen) <= MaxTotal => seen \subseteq blocks \cup notes

\* The edges are those of the blocks, and each was followed or will be.
EdgesKnown == edges = UNION {BlockEdges(s) : s \in blocks}
Met(a) == a \in seen \/ Waits(a, queue)
EdgesFollowed == Met(0) /\ \A e \in edges : InFunction(e.to) => Met(e.to)

RecoverInv == SearchTyped /\ StartsReached /\ Accounted /\ EdgesKnown /\ EdgesFollowed

LEMMA AddressesFinite ==
  /\ 0 \in Addresses /\ IsFiniteSet(Addresses)
  /\ \A a \in Nat : InFunction(a) <=> a \in Addresses
<1>1. /\ 0 \in Addresses
      /\ \A a \in Nat : InFunction(a) <=> a \in Addresses
  BY CodeAssumption DEF Addresses, InFunction
<1>2. IsFiniteSet(0 .. End - 1)
  BY CodeAssumption, FS_Interval
<1>3. QED
  BY <1>1, <1>2 DEF Addresses

\* A visit makes the seen starts no fewer.
LEMMA VisitCounts ==
  ASSUME NEW counted \in SUBSET Addresses, NEW start \in Addresses,
         Cardinality(counted \cup {start}) <= MaxTotal
  PROVE  Cardinality(counted) <= MaxTotal
<1>1. IsFiniteSet(counted) /\ IsFiniteSet(counted \cup {start})
  BY AddressesFinite, FS_Subset
<1>2. counted \subseteq counted \cup {start}
  OBVIOUS
<1>3. /\ Cardinality(counted) \in Nat /\ Cardinality(counted \cup {start}) \in Nat
      /\ Cardinality(counted) <= Cardinality(counted \cup {start})
  BY <1>1, <1>2, FS_CardinalityType, FS_Subset
<1>4. QED
  BY <1>3, CodeAssumption

LEMMA InitRecoverInv == RecoverInit => RecoverInv
<1> SUFFICES ASSUME RecoverInit PROVE RecoverInv
  OBVIOUS
<1>1. /\ code \in Codes /\ queue = <<0>> /\ seen = {} /\ blocks = {} /\ edges = {}
      /\ unresolved = {} /\ notes = {} /\ cfgPhase = "loop"
  BY DEF RecoverInit
<1>2. /\ queue \in Seq(Addresses) /\ Len(queue) = 1 /\ queue[1] = 0
  BY <1>1, AddressesFinite
<1>3. SearchTyped
  <2>1. CodeTyped
    BY <1>1, CodeAssumption DEF CodeTyped, Addresses
  <2>2. QED
    BY <1>1, <1>2, <2>1 DEF SearchTyped
<1>4. \A a : Waits(a, queue) <=> a = 0
  BY <1>2 DEF Waits
<1>5. StartsReached
  <2>1. 0 \in Addresses /\ InFunction(0)
    BY AddressesFinite
  <2>2. QED
    BY <1>1, <1>4, <2>1 DEF StartsReached, Closed
<1>6. Accounted /\ EdgesKnown
  BY <1>1 DEF Accounted, EdgesKnown
<1>7. EdgesFollowed
  BY <1>1, <1>4 DEF EdgesFollowed, Met
<1>8. QED
  BY <1>3, <1>5, <1>6, <1>7 DEF RecoverInv

\* What depends on the code only does not change.
LEMMA CodeStays ==
  ASSUME code' = code
  PROVE  /\ CodeTyped' <=> CodeTyped
         /\ \A a : Decodable(a)' <=> Decodable(a)
         /\ \A a : BlockAt(a)' = BlockAt(a) /\ LastOf(a)' = LastOf(a)
         /\ \A a : BlockEdges(a)' = BlockEdges(a)
         /\ \A a : Torn(a)' = Torn(a) /\ BlockEnd(a)' = BlockEnd(a)
         /\ \A insns, from, ends : Closed(insns, from, ends)' <=> Closed(insns, from, ends)
BY DEF CodeTyped, Decodable, BlockAt, RunsFrom, Straight, Stops, NextRva, LastOf, BlockEdges,
       Edge, Closed, Successors, InFunction, Addresses, ByteLimit, Torn, LastKind, BlockEnd

\* A seam stays one.
LEMMA SeamsGrow ==
  ASSUME code' = code
  PROVE  /\ blocks' = blocks => Seams' = Seams
         /\ blocks \subseteq blocks' => Seams \subseteq Seams'
         /\ \A s \in blocks' : Torn(s) => BlockEnd(s) \in Seams'
BY CodeStays DEF Seams

\* Closed for more entries is closed for fewer.
LEMMA ClosedForFewer ==
  ASSUME NEW insns, NEW more, NEW from \in SUBSET more, Closed(insns, more, {})
  PROVE  Closed(insns, from, {})
BY DEF Closed

\* A start that was visited before goes.
LEMMA SkipSeenKeeps == ASSUME RecoverInv, SkipSeen PROVE RecoverInv'
<1>1. /\ queue # <<>> /\ Head(queue) \in seen /\ queue' = Tail(queue)
      /\ UNCHANGED <<code, seen, blocks, edges, unresolved, notes, cfgPhase>>
      /\ cfgPhase = "loop"
  BY DEF SkipSeen
<1>2. queue \in Seq(Addresses) /\ code' = code
  BY <1>1 DEF RecoverInv, SearchTyped
<1>3. queue' \in Seq(Addresses) /\ \A a : Waits(a, queue) <=> a = Head(queue) \/ Waits(a, queue')
  BY <1>1, <1>2, WaitsInTail
<1>4. SearchTyped'
  BY <1>1, <1>2, <1>3, CodeStays DEF RecoverInv, SearchTyped
<1>5. StartsReached'
  BY <1>1, <1>2, <1>3, CodeStays, SeamsGrow DEF RecoverInv, StartsReached, Addresses
<1>6. Accounted' /\ EdgesKnown'
  BY <1>1, <1>2, CodeStays DEF RecoverInv, Accounted, EdgesKnown
<1>7. EdgesFollowed'
  BY <1>1, <1>3 DEF RecoverInv, EdgesFollowed, Met, InFunction
<1>8. QED
  BY <1>4, <1>5, <1>6, <1>7 DEF RecoverInv

\* A start that is visited and makes no block goes: it was noted or is dropped.
LEMMA NoBlockKeeps ==
  ASSUME RecoverInv, NEW start \in Addresses, Visit(start), WithinBudget(seen') => start \in notes',
         notes' = notes \/ (notes' = notes \cup {start} /\ ~Decodable(start)),
         UNCHANGED <<code, blocks, edges, unresolved, cfgPhase>>
  PROVE  RecoverInv'
<1>1. /\ queue # <<>> /\ start = Head(queue) /\ queue' = Tail(queue) /\ cfgPhase = "loop"
      /\ seen' = seen \cup {start}
  BY DEF Visit
<1>2. queue \in Seq(Addresses) /\ code' = code
  BY DEF RecoverInv, SearchTyped
<1>3. queue' \in Seq(Addresses) /\ \A a : Waits(a, queue) <=> a = start \/ Waits(a, queue')
  BY <1>1, <1>2, WaitsInTail
<1>4. SearchTyped'
  <2>1. \A s \in notes' : ~Decodable(s)
    BY DEF RecoverInv, SearchTyped
  <2>2. notes' \subseteq seen'
    BY <1>1 DEF RecoverInv, SearchTyped
  <2>3. QED
    BY <1>1, <1>2, <1>3, <2>1, <2>2, CodeStays DEF RecoverInv, SearchTyped, Addresses
<1>5. StartsReached'
  BY <1>1, <1>2, <1>3, CodeStays, SeamsGrow DEF RecoverInv, StartsReached, Addresses
<1>6. Accounted'
  <2> SUFFICES ASSUME Cardinality(seen') <= MaxTotal PROVE seen' \subseteq blocks \cup notes'
    BY DEF Accounted
  <2>1. Cardinality(seen) <= MaxTotal
    <3>1. seen \in SUBSET Addresses /\ Cardinality(seen \cup {start}) <= MaxTotal
      BY <1>1 DEF RecoverInv, SearchTyped
    <3>2. QED
      BY <3>1, VisitCounts
  <2>2. start \in notes' /\ seen \subseteq blocks \cup notes
    BY <2>1 DEF RecoverInv, Accounted, WithinBudget
  <2>3. QED
    BY <1>1, <2>2
<1>7. EdgesKnown'
  BY <1>2, CodeStays DEF RecoverInv, EdgesKnown
<1>8. EdgesFollowed'
  BY <1>1, <1>3 DEF RecoverInv, EdgesFollowed, Met, InFunction
<1>9. QED
  BY <1>4, <1>5, <1>6, <1>7, <1>8 DEF RecoverInv

\* A block is decoded, and the targets of its edges wait.
LEMMA DecodeBlockKeeps ==
  ASSUME RecoverInv, NEW start \in Addresses, DecodeBlock(start)
  PROVE  RecoverInv'
<1> DEFINE found == BlockEdges(start)
           targets == InOrder(Inside(found))
<1>1. /\ queue # <<>> /\ start = Head(queue) /\ cfgPhase = "loop" /\ Decodable(start)
      /\ seen' = seen \cup {start} /\ blocks' = blocks \cup {start} /\ edges' = edges \cup found
      /\ queue' = Tail(queue) \o targets
      /\ unresolved' \subseteq unresolved \cup {LastOf(start)}
      /\ UNCHANGED <<code, notes, cfgPhase>>
  BY DEF DecodeBlock
<1>2. queue \in Seq(Addresses) /\ code' = code /\ CodeTyped
  BY <1>1 DEF RecoverInv, SearchTyped
<1>3. /\ Tail(queue) \in Seq(Addresses)
      /\ \A a : Waits(a, queue) <=> a = start \/ Waits(a, Tail(queue))
  BY <1>1, <1>2, WaitsInTail
<1>4. /\ targets \in Seq(Addresses)
      /\ \A a : Waits(a, targets) <=> \E e \in Inside(found) : e.to = a
  BY <1>1, <1>2, TargetsWait
<1> HIDE DEF found, targets
<1>5. /\ queue' \in Seq(Addresses)
      /\ \A a : Waits(a, queue') <=> Waits(a, Tail(queue)) \/ Waits(a, targets)
  <2>1. ASSUME NEW s \in Seq(Addresses), NEW t \in Seq(Addresses), queue' = s \o t
        PROVE  /\ queue' \in Seq(Addresses)
               /\ \A a : Waits(a, queue') <=> Waits(a, s) \/ Waits(a, t)
    BY <2>1, WaitsInBoth
  <2>2. QED
    BY <1>1, <1>3, <1>4, <2>1, Zenon
<1>6. SearchTyped'
  <2>1. unresolved' \subseteq Addresses
    BY <1>1, <1>2, LastOfBlock DEF RecoverInv, SearchTyped
  <2>2. \A s \in blocks' : Decodable(s)
    BY <1>1 DEF RecoverInv, SearchTyped
  <2>3. QED
    BY <1>1, <1>2, <1>5, <2>1, <2>2, CodeStays DEF RecoverInv, SearchTyped, Addresses
<1>7. StartsReached'
  <2> DEFINE entries == {0} \cup Seams'
  <2> SUFFICES ASSUME NEW insns \in SUBSET Addresses, Closed(insns, entries, {}),
                      NEW a \in Addresses, Decodable(a), a \in blocks' \/ Waits(a, queue')
               PROVE  a \in insns
    BY <1>2, CodeStays DEF StartsReached, Addresses
  <2>1. \A b \in Addresses : Decodable(b) /\ (b \in blocks \/ Waits(b, queue)) => b \in insns
    <3>1. {0} \cup Seams \in SUBSET entries
      BY <1>1, <1>2, SeamsGrow
    <3>2. Closed(insns, {0} \cup Seams, {})
      BY <3>1, ClosedForFewer
    <3>3. QED
      BY <3>2 DEF RecoverInv, StartsReached
  <2>2. start \in insns
    BY <1>1, <1>3, <2>1
  <2>3. CASE Waits(a, targets)
    <3>1. PICK e \in found : InFunction(e.to) /\ e.to = a
      BY <1>4, <2>3 DEF Inside
    <3>2. CASE Torn(start)
      <4>1. a = BlockEnd(start)
        BY <1>1, <1>2, <3>1, <3>2, EdgesOfBlock DEF found
      <4>2. a \in entries
        BY <1>1, <1>2, <3>2, <4>1, SeamsGrow
      <4>3. QED
        BY <3>1, <4>2 DEF Closed
    <3>3. CASE ~Torn(start)
      <4>1. a \in Successors(LastOf(start))
        BY <1>1, <1>2, <3>1, <3>3, EdgesOfBlock DEF found
      <4>2. InstructionsAt(start) \subseteq insns
        BY <1>1, <1>2, <2>2, BlockStaysInside
      <4>3. LastOf(start) \in InstructionsAt(start)
        BY <1>1, <1>2, LastOfBlock DEF InstructionsAt
      <4>4. QED
        BY <3>1, <4>1, <4>2, <4>3 DEF Closed
    <3>4. QED
      BY <3>2, <3>3
  <2>4. CASE ~Waits(a, targets)
    BY <1>1, <1>3, <1>5, <2>1, <2>2, <2>4
  <2>5. QED
    BY <2>3, <2>4
<1>8. Accounted'
  <2> SUFFICES ASSUME Cardinality(seen') <= MaxTotal PROVE seen' \subseteq blocks' \cup notes
    BY <1>1 DEF Accounted
  <2>1. Cardinality(seen) <= MaxTotal
    <3>1. seen \in SUBSET Addresses /\ Cardinality(seen \cup {start}) <= MaxTotal
      BY <1>1 DEF RecoverInv, SearchTyped
    <3>2. QED
      BY <3>1, VisitCounts
  <2>2. QED
    BY <1>1, <2>1 DEF RecoverInv, Accounted
<1>9. EdgesKnown'
  <2>1. edges = UNION {BlockEdges(s) : s \in blocks}
    BY DEF RecoverInv, EdgesKnown
  <2>2. edges' = UNION {BlockEdges(s) : s \in blocks'}
    BY <1>1, <2>1 DEF found
  <2>3. QED
    BY <1>2, <2>2, CodeStays DEF EdgesKnown
<1>10. EdgesFollowed'
  <2>1. \A a : Met(a) => Met(a)'
    BY <1>1, <1>3, <1>5 DEF Met
  <2>2. ASSUME NEW e \in found, InFunction(e.to) PROVE Met(e.to)'
    BY <1>4, <1>5, <2>2 DEF Met, Inside
  <2>3. ASSUME NEW e \in edges', InFunction(e.to) PROVE Met(e.to)'
    BY <1>1, <2>1, <2>2, <2>3 DEF RecoverInv, EdgesFollowed
  <2>4. Met(0)'
    BY <2>1 DEF RecoverInv, EdgesFollowed
  <2>5. QED
    BY <2>3, <2>4 DEF EdgesFollowed, InFunction
<1>11. QED
  BY <1>6, <1>7, <1>8, <1>9, <1>10 DEF RecoverInv

LEMMA NextRecoverInv == RecoverInv /\ [RecoverNext]_cfgVars => RecoverInv'
<1> SUFFICES ASSUME RecoverInv, [RecoverNext]_cfgVars PROVE RecoverInv'
  OBVIOUS
<1>1. CASE SkipSeen
  BY <1>1, SkipSeenKeeps
<1>2. ASSUME NEW start \in Addresses, DropOverBudget(start) PROVE RecoverInv'
  BY <1>2, NoBlockKeeps DEF DropOverBudget
<1>3. ASSUME NEW start \in Addresses, NoteUndecodable(start) PROVE RecoverInv'
  BY <1>3, NoBlockKeeps DEF NoteUndecodable
<1>4. ASSUME NEW start \in Addresses, DecodeBlock(start) PROVE RecoverInv'
  BY <1>4, DecodeBlockKeeps
<1>5. CASE EndSearch
  <2>1. /\ UNCHANGED <<code, queue, seen, blocks, edges, unresolved, notes>>
        /\ queue = <<>> /\ cfgPhase' = "done"
    BY <1>5 DEF EndSearch
  <2>2. SearchTyped'
    BY <2>1, CodeStays DEF RecoverInv, SearchTyped, Addresses
  <2>3. StartsReached'
    BY <2>1, CodeStays, SeamsGrow DEF RecoverInv, StartsReached, Waits, Addresses
  <2>4. QED
    BY <2>1, <2>2, <2>3, CodeStays
       DEF RecoverInv, Accounted, EdgesKnown, EdgesFollowed, Met, Waits, InFunction, Addresses
<1>6. CASE UNCHANGED cfgVars
  <2>1. UNCHANGED <<code, queue, seen, blocks, edges, unresolved, notes, cfgPhase>>
    BY <1>6 DEF cfgVars
  <2>2. SearchTyped'
    BY <2>1, CodeStays DEF RecoverInv, SearchTyped, Addresses
  <2>3. StartsReached'
    BY <2>1, CodeStays, SeamsGrow DEF RecoverInv, StartsReached, Waits, Addresses
  <2>4. QED
    BY <2>1, <2>2, <2>3, CodeStays
       DEF RecoverInv, Accounted, EdgesKnown, EdgesFollowed, Met, Waits, InFunction, Addresses
<1>7. QED
  BY <1>1, <1>2, <1>3, <1>4, <1>5, <1>6 DEF RecoverNext

-----------------------------------------------------------------------------
(* The theorems.                                                            *)

\* The inductive invariant of the control flow search holds in every reachable state.
THEOREM RecoverInvariant == RecoverSpec => []RecoverInv
BY InitRecoverInv, NextRecoverInv, PTL DEF RecoverSpec

\* The search is type correct, for every code and all limits; a start is a block or a
\* note and never both (block_map and notes of recover_recursive_cfg).
THEOREM RecoverTypeCorrect == RecoverSpec => []RecoverTypeOK
<1>1. RecoverInv => RecoverTypeOK
  <2> SUFFICES ASSUME RecoverInv PROVE RecoverTypeOK
    OBVIOUS
  <2>1. \A i \in 1 .. Len(queue) : queue[i] \in Addresses
    BY DEF RecoverInv, SearchTyped
  <2>2. \A e \in edges : e.from \in blocks
    <3> SUFFICES ASSUME NEW s \in blocks, NEW e \in BlockEdges(s) PROVE e.from \in blocks
      BY DEF RecoverInv, EdgesKnown
    <3>1. s \in Addresses /\ Decodable(s) /\ CodeTyped
      BY DEF RecoverInv, SearchTyped
    <3>2. QED
      BY <3>1, EdgesOfBlock
  <2>3. QED
    BY <2>1, <2>2 DEF RecoverInv, SearchTyped, RecoverTypeOK
<1>2. QED
  BY <1>1, RecoverInvariant, PTL

\* Whatever the code, and however the limits split its blocks, the blocks hold only
\* instructions that control can reach, from the entry or from where the byte limit
\* tore one; when no budget stops the search they hold all that control can reach
\* without passing an instruction that every block tears or ends in as a system
\* call, and every edge into the function leads to a block or to a noted start
\* (recover_recursive_cfg).
THEOREM BlocksAreExact == RecoverSpec => []BlocksExact
<1>1. RecoverInv => Instructions \subseteq Reachable({0} \cup Seams, {})
  <2> SUFFICES ASSUME RecoverInv, NEW s \in blocks
               PROVE  InstructionsAt(s) \subseteq Reachable({0} \cup Seams, {})
    BY DEF Instructions
  <2>1. s \in Addresses /\ Decodable(s) /\ CodeTyped
    BY DEF RecoverInv, SearchTyped
  <2>2. InstructionsAt(s) \subseteq Addresses
    BY <2>1, BlockIsRun DEF InstructionsAt
  <2>3. ASSUME NEW insns \in SUBSET Addresses, Closed(insns, {0} \cup Seams, {})
        PROVE  InstructionsAt(s) \subseteq insns
    <3>1. s \in insns
      BY <2>1, <2>3 DEF RecoverInv, StartsReached
    <3>2. QED
      BY <2>1, <2>3, <3>1, BlockStaysInside
  <2>4. QED
    BY <2>2, <2>3 DEF Reachable
<1>2. ASSUME RecoverInv, cfgPhase = "done", Cardinality(seen) <= MaxTotal
      PROVE  /\ seen = blocks \cup notes
             /\ 0 \in blocks \cup notes
             /\ \A e \in edges : InFunction(e.to) => e.to \in blocks \cup notes
  <2>1. queue = <<>> /\ seen = blocks \cup notes
    BY <1>2 DEF RecoverInv, SearchTyped, Accounted
  <2>2. \A a : ~Waits(a, queue)
    <3>1. Len(queue) = 0
      BY <2>1
    <3>2. QED
      BY <3>1 DEF Waits
  <2>3. QED
    BY <1>2, <2>1, <2>2 DEF RecoverInv, EdgesFollowed, Met
<1>3. ASSUME RecoverInv, cfgPhase = "done", Cardinality(seen) <= MaxTotal
      PROVE  Closed(Instructions, {0}, DeadEnds)
  <2>1. ASSUME NEW s \in blocks
        PROVE  s \in Addresses /\ Decodable(s) /\ CodeTyped /\ s \in InstructionsAt(s)
    <3>1. s \in Addresses /\ Decodable(s) /\ CodeTyped
      BY <1>3 DEF RecoverInv, SearchTyped
    <3>2. BlockAt(s)[1] = s /\ 1 \in 1 .. Len(BlockAt(s))
      BY <3>1, BlockIsRun DEF RunsFrom
    <3>3. QED
      BY <3>1, <3>2 DEF InstructionsAt
  <2>2. ASSUME NEW a \in blocks \cup notes, Decodable(a) PROVE a \in Instructions
    <3>1. a \in blocks
      BY <1>3, <2>2 DEF RecoverInv, SearchTyped
    <3>2. QED
      BY <2>1, <3>1 DEF Instructions
  <2>3. Decodable(0) => 0 \in Instructions
    BY <1>2, <1>3, <2>2
  <2>4. ASSUME NEW a \in Instructions \ DeadEnds, NEW b \in Successors(a),
               InFunction(b), Decodable(b)
        PROVE  b \in Instructions
    <3>1. PICK s \in blocks : a \in FollowedAt(s) /\ a \in InstructionsAt(s)
      BY DEF DeadEnds, FollowedAt
    <3>2. PICK i \in 1 .. Len(BlockAt(s)) : a = BlockAt(s)[i]
      BY <3>1 DEF InstructionsAt
    <3>3. s \in Addresses /\ Decodable(s) /\ CodeTyped /\ Len(BlockAt(s)) \in Nat
      BY <2>1, BlockIsRun
    <3>4. CASE i \in 1 .. Len(BlockAt(s)) - 1
      <4>1. b = BlockAt(s)[i + 1] /\ i + 1 \in 1 .. Len(BlockAt(s))
        BY <2>4, <3>2, <3>3, <3>4, StepInBlock
      <4>2. b \in InstructionsAt(s)
        BY <4>1 DEF InstructionsAt
      <4>3. QED
        BY <4>2 DEF Instructions
    <3>5. CASE i = Len(BlockAt(s))
      <4>1. a = LastOf(s)
        BY <3>2, <3>5 DEF LastOf
      <4>2. ~Torn(s) /\ code[LastOf(s)].kind # "sys"
        BY <3>1, <4>1 DEF FollowedAt
      <4>3. PICK e \in BlockEdges(s) : e.to = b
        BY <2>4, <3>3, <4>1, <4>2, EdgesOfBlock
      <4>4. e \in edges
        BY <1>3 DEF RecoverInv, EdgesKnown
      <4>5. b \in blocks \cup notes
        BY <1>2, <1>3, <2>4, <4>3, <4>4
      <4>6. QED
        BY <2>2, <2>4, <4>5
    <3>6. QED
      BY <3>2, <3>3, <3>4, <3>5
  <2>5. QED
    BY <2>3, <2>4 DEF Closed
<1>4. ASSUME RecoverInv PROVE Instructions \in SUBSET Addresses
  BY <1>1, <1>4 DEF Reachable
<1>5. RecoverInv => ReachedExactly
  BY <1>1, <1>3, <1>4 DEF ReachedExactly, Reachable
<1>6. RecoverInv => EdgesClosed
  BY <1>2 DEF EdgesClosed
<1>7. QED
  BY <1>5, <1>6, RecoverInvariant, PTL DEF BlocksExact

-----------------------------------------------------------------------------
(* Types of the call map.                                                   *)

TreeNodes == [call : ApiCalls, image : Images, depth : Nat, unbuilt : Nat, above : BOOLEAN]
LevelTypes ==
  [image : Images, rva : Nat, depth : Nat, call : ApiCalls \cup {NoCall},
   todo : Seq(ApiCalls), unbuilt : Nat, nodes : Seq(TreeNodes)]

MapTyped ==
  /\ calls \in Programs
  /\ request \in [filter : BOOLEAN, depth : Nat, maxSubcalls : Nat]
  /\ stack \in Seq(LevelTypes) /\ stack # << >>
  /\ entered \subseteq Nat
  /\ \A rva \in DOMAIN expanded : expanded[rva] \in BOOLEAN
  /\ tree # << >> => tree = <<Top.nodes>> /\ Len(stack) = 1 /\ Top.todo = << >>

LEMMA LevelFields ==
  ASSUME NEW l \in LevelTypes
  PROVE  /\ l.image \in Images /\ l.rva \in Nat /\ l.depth \in Nat
         /\ l.depth + 1 \in Nat /\ l.call \in ApiCalls \cup {NoCall}
         /\ l.todo \in Seq(ApiCalls) /\ l.unbuilt \in Nat /\ l.nodes \in Seq(TreeNodes)
BY DEF LevelTypes

LEMMA CallFields ==
  ASSUME NEW c \in ApiCalls
  PROVE  c.to \in Nat /\ c.kind \in {"import", "internal", "syscall"}
         /\ c.match \in BOOLEAN /\ c.out \in BOOLEAN
BY DEF ApiCalls

LEMMA CallsTyped ==
  ASSUME calls \in Programs, NEW image \in Images, NEW rva
  PROVE  /\ CallsOf(image, rva) \in Seq(ApiCalls)
         /\ DOMAIN CodeOf(image) \subseteq Nat /\ IsFiniteSet(DOMAIN CodeOf(image))
<1>1. /\ DOMAIN CodeOf(image) \subseteq Nat /\ IsFiniteSet(DOMAIN CodeOf(image))
      /\ \A r \in DOMAIN CodeOf(image) : CodeOf(image)[r] \in Seq(ApiCalls)
  BY ProgramsAssumption DEF CodeOf
<1> QED
  BY <1>1 DEF CallsOf

LEMMA TargetTyped ==
  ASSUME calls \in Programs, NEW c \in ApiCalls, NEW rva \in KernelTarget(c)
  PROVE  rva \in Nat /\ c.kind = "syscall" /\ KernelTarget(c) = {rva}
<1>1. c.to \in Nat
  BY DEF ApiCalls
<1>2. rva = DispatchRva(c, c.to) /\ c.kind = "syscall" /\ KernelTarget(c) = {rva}
  BY DEF KernelTarget
<1> DEFINE handlers == calls.handlers[c.to]
           known == c.classes \cap DOMAIN handlers
<1>3. CASE c.to \notin DOMAIN calls.handlers \/ known = {}
  BY <1>1, <1>2, <1>3 DEF DispatchRva
<1>4. CASE c.to \in DOMAIN calls.handlers /\ known # {}
  <2>1. /\ DOMAIN handlers \subseteq Nat
        /\ \A class \in DOMAIN handlers : handlers[class] \in Nat
    BY <1>4, ProgramsAssumption
  <2>2. PICK least \in known : \A l \in known : least <= l
    <3>1. known \in SUBSET Nat /\ known # {}
      BY <1>4, <2>1
    <3> HIDE DEF known
    <3> QED
      BY <3>1, LeastNumber
  <2>3. (CHOOSE k \in known : \A l \in known : k <= l) \in known
    BY <2>2
  <2>4. rva = handlers[CHOOSE k \in known : \A l \in known : k <= l]
    BY <1>2, <1>4 DEF DispatchRva
  <2> QED
    BY <1>2, <2>1, <2>3, <2>4
<1> QED
  BY <1>3, <1>4

-----------------------------------------------------------------------------
(* Sequences.                                                               *)

LEMMA TopReplaced ==
  ASSUME NEW S, NEW s \in Seq(S), s # << >>, NEW x \in S, NEW t, t = <<x>> \o Tail(s)
  PROVE  /\ t \in Seq(S) /\ t # << >> /\ Len(t) = Len(s) /\ t[1] = x
         /\ \A i \in 2 .. Len(t) : t[i] = s[i]
OBVIOUS

LEMMA TopPushed ==
  ASSUME NEW S, NEW s \in Seq(S), s # << >>, NEW x \in S, NEW y \in S, NEW t,
         t = <<x, y>> \o Tail(s)
  PROVE  /\ t \in Seq(S) /\ t # << >> /\ Len(t) = Len(s) + 1 /\ t[1] = x /\ t[2] = y
         /\ \A i \in 3 .. Len(t) : t[i] = s[i - 1]
OBVIOUS

LEMMA Rest ==
  ASSUME NEW S, NEW s \in Seq(S), 1 < Len(s), NEW r, r = SubSeq(s, 3, Len(s))
  PROVE  /\ r \in Seq(S) /\ Len(r) = Len(s) - 2
         /\ \A i \in 1 .. Len(r) : r[i] = s[i + 2]
<1> PICK n \in Nat : n = Len(s) /\ 1 < n
  OBVIOUS
<1>1. 3 \in Int /\ n \in Int /\ \A i \in 3 .. n : s[i] \in S
  OBVIOUS
<1>2. /\ SubSeq(s, 3, n) \in Seq(S)
      /\ Len(SubSeq(s, 3, n)) = (IF 3 <= n THEN n - 3 + 1 ELSE 0)
      /\ \A i \in 1 .. n - 3 + 1 : SubSeq(s, 3, n)[i] = s[3 + i - 1]
  BY <1>1, SubSeqProperties
<1>3. /\ r \in Seq(S) /\ Len(r) = (IF 3 <= n THEN n - 3 + 1 ELSE 0)
      /\ \A i \in 1 .. n - 3 + 1 : r[i] = s[3 + i - 1]
  BY <1>2, Zenon
<1>4. Len(r) = n - 2
  BY <1>3
<1>5. ASSUME NEW i \in 1 .. n - 2 PROVE r[i] = s[i + 2]
  <2>1. i \in 1 .. n - 3 + 1 /\ 3 + i - 1 = i + 2
    OBVIOUS
  <2> QED
    BY <1>3, <2>1
<1> QED
  BY <1>3, <1>4, <1>5

LEMMA HeadTail ==
  ASSUME NEW S, NEW s \in Seq(S), s # << >>
  PROVE  /\ Head(s) \in S /\ Head(s) = s[1]
         /\ Tail(s) \in Seq(S) /\ Len(Tail(s)) = Len(s) - 1 /\ Len(s) \in Nat \ {0}
         /\ \A k \in 1 .. Len(s) - 1 : Tail(s)[k] = s[k + 1]
OBVIOUS

-----------------------------------------------------------------------------
(* The steps, by what they do to the stack.                                 *)

\* The nodes of a level before, after one of its calls.
NodeAdded(before, after, lvl, c, children, above) ==
  \/ after = before /\ children = << >> /\ ~ Matches(c)
  \/ /\ \E unbuilt \in Nat :
          after = before \o <<CallNode(c, lvl, unbuilt, above)>> \o children
     /\ Matches(c) \/ children # << >> \/ above

\* Two levels of the same function.
SameLevel(l, m) ==
  l.image = m.image /\ l.rva = m.rva /\ l.depth = m.depth /\ l.call = m.call

\* The innermost level is through with one call more.
Advances(nodes) ==
  /\ Busy
  /\ stack' \in Seq(LevelTypes) /\ stack' # << >> /\ Len(stack') = Len(stack)
  /\ SameLevel(stack'[1], stack[1])
  /\ stack'[1].todo = Tail(stack[1].todo) /\ stack'[1].nodes = nodes
  /\ \A i \in 2 .. Len(stack') : stack'[i] = stack[i]

\* A level is opened.
Opens(image, rva) ==
  /\ Busy /\ ~ Excludes(NextCall)
  /\ stack' \in Seq(LevelTypes) /\ stack' # << >> /\ Len(stack') = Len(stack) + 1
  /\ stack'[1] = Level(image, rva, Top.depth + 1, NextCall)
  /\ SameLevel(stack'[2], stack[1])
  /\ stack'[2].todo = Tail(stack[1].todo) /\ stack'[2].nodes = stack[1].nodes
  /\ \A i \in 3 .. Len(stack') : stack'[i] = stack[i - 1]

LEMMA TopTyped ==
  ASSUME MapTyped
  PROVE  /\ Top \in LevelTypes /\ Top = stack[1] /\ Len(stack) \in Nat \ {0}
         /\ Top.todo # << >> => NextCall \in ApiCalls /\ NextCall = Top.todo[1]
                                /\ Passed(Top) \in LevelTypes /\ SameLevel(Passed(Top), Top)
                                /\ Passed(Top).todo = Tail(Top.todo)
                                /\ Passed(Top).nodes = Top.nodes
<1>1. Top \in LevelTypes /\ Top = stack[1] /\ Len(stack) \in Nat \ {0}
  BY HeadTail DEF MapTyped, Top
<1>2. ASSUME Top.todo # << >>
      PROVE  /\ NextCall \in ApiCalls /\ NextCall = Top.todo[1]
             /\ Passed(Top) \in LevelTypes /\ SameLevel(Passed(Top), Top)
             /\ Passed(Top).todo = Tail(Top.todo) /\ Passed(Top).nodes = Top.nodes
  <2>1. Top.todo \in Seq(ApiCalls)
    BY <1>1 DEF LevelTypes
  <2>2. Tail(Top.todo) \in Seq(ApiCalls)
    BY <1>2, <2>1, HeadTail
  <2>3. /\ Passed(Top) \in LevelTypes /\ SameLevel(Passed(Top), Top)
        /\ Passed(Top).todo = Tail(Top.todo) /\ Passed(Top).nodes = Top.nodes
    BY <1>1, <2>2 DEF Passed, LevelTypes, SameLevel
  <2> QED
    BY <1>2, <2>1, <2>3, HeadTail DEF NextCall
<1> QED
  BY <1>1, <1>2

LEMMA LevelTyped ==
  ASSUME calls \in Programs, request \in [filter : BOOLEAN, depth : Nat, maxSubcalls : Nat],
         NEW image \in Images, NEW rva \in Nat, NEW depth \in Nat,
         NEW c \in ApiCalls \cup {NoCall}
  PROVE  /\ Level(image, rva, depth, c) \in LevelTypes
         /\ Level(image, rva, depth, c).image = image /\ Level(image, rva, depth, c).rva = rva
         /\ Level(image, rva, depth, c).depth = depth /\ Level(image, rva, depth, c).call = c
         /\ Level(image, rva, depth, c).nodes = << >>
         /\ request.filter => Level(image, rva, depth, c).todo = CallsOf(image, rva)
<1> DEFINE list == CallsOf(image, rva)
           some == SubSeq(list, 1, Budget(list))
<1>1. list \in Seq(ApiCalls)
  BY CallsTyped
<1>2. Budget(list) \in 0 .. Len(list) /\ (request.filter => Budget(list) = Len(list))
  BY <1>1 DEF Budget
<1>3. some \in Seq(ApiCalls) /\ (request.filter => some = list)
  BY <1>1, <1>2
<1>4. Len(list) - Budget(list) \in Nat
  BY <1>1, <1>2
<1>5. Level(image, rva, depth, c) =
        [image |-> image, rva |-> rva, depth |-> depth, call |-> c, todo |-> some,
         unbuilt |-> Len(list) - Budget(list), nodes |-> << >>]
  BY DEF Level
<1>6. << >> \in Seq(TreeNodes)
  OBVIOUS
<1> HIDE DEF list, some
<1>7. list = CallsOf(image, rva)
  BY DEF list
<1> QED
  BY <1>3, <1>4, <1>5, <1>6, <1>7 DEF LevelTypes

LEMMA AddTyped ==
  ASSUME NEW lvl \in LevelTypes, NEW c \in ApiCalls, NEW children \in Seq(TreeNodes),
         NEW unbuilt \in Nat, NEW above \in BOOLEAN
  PROVE  LET added == Add(lvl, c, children, unbuilt, above)
         IN  /\ added \in LevelTypes /\ SameLevel(added, lvl) /\ added.todo = lvl.todo
             /\ NodeAdded(lvl.nodes, added.nodes, lvl, c, children, above)
<1>1. lvl.nodes \in Seq(TreeNodes) /\ lvl.image \in Images /\ lvl.depth \in Nat
  BY LevelFields
<1> DEFINE node == CallNode(c, lvl, unbuilt, above)
           added == Add(lvl, c, children, unbuilt, above)
<1>2. node \in TreeNodes
  BY <1>1 DEF CallNode, TreeNodes
<1>3. CASE ~ KeptAs(c, children, above)
  <2>1. added = lvl
    BY <1>3 DEF Add
  <2>2. NodeAdded(lvl.nodes, lvl.nodes, lvl, c, children, above)
    BY <1>3 DEF NodeAdded, KeptAs
  <2> QED
    BY <2>1, <2>2 DEF SameLevel
<1>4. CASE KeptAs(c, children, above)
  <2> DEFINE nodes == lvl.nodes \o <<node>> \o children
  <2>1. nodes \in Seq(TreeNodes)
    BY <1>1, <1>2
  <2>2. added = [lvl EXCEPT !.nodes = nodes]
    BY <1>4 DEF Add
  <2>3. /\ added \in LevelTypes /\ SameLevel(added, lvl) /\ added.todo = lvl.todo
        /\ added.nodes = nodes
    BY <2>1, <2>2 DEF LevelTypes, SameLevel
  <2>4. NodeAdded(lvl.nodes, nodes, lvl, c, children, above)
    BY <1>4 DEF NodeAdded, KeptAs
  <2> QED
    BY <2>3, <2>4
<1> QED
  BY <1>3, <1>4

LEMMA SkipsOne ==
  ASSUME MapTyped, SkipExcluded PROVE Advances(stack[1].nodes)
<1>1. /\ Passed(Top) \in LevelTypes /\ Top = stack[1] /\ SameLevel(Passed(Top), Top)
      /\ Passed(Top).todo = Tail(Top.todo) /\ Passed(Top).nodes = Top.nodes
  BY TopTyped DEF SkipExcluded, Busy
<1>2. stack \in Seq(LevelTypes) /\ stack # << >> /\ stack' = <<Passed(Top)>> \o Tail(stack)
  BY DEF MapTyped, SkipExcluded
<1>3. /\ stack' \in Seq(LevelTypes) /\ stack' # << >> /\ Len(stack') = Len(stack)
      /\ stack'[1] = Passed(Top) /\ \A i \in 2 .. Len(stack') : stack'[i] = stack[i]
  BY <1>1, <1>2, TopReplaced
<1> QED
  BY <1>1, <1>3 DEF Advances, SkipExcluded

LEMMA LeafAdds ==
  ASSUME MapTyped, Leaf
  PROVE  \E nodes \in Seq(TreeNodes), above \in BOOLEAN :
           /\ Advances(nodes)
           /\ above => AboveOf(NextCall)
           /\ NodeAdded(stack[1].nodes, nodes, stack[1], NextCall, << >>, above)
<1>1. /\ Passed(Top) \in LevelTypes /\ Top = stack[1] /\ SameLevel(Passed(Top), Top)
      /\ Passed(Top).todo = Tail(Top.todo) /\ Passed(Top).nodes = Top.nodes
      /\ NextCall \in ApiCalls
  BY TopTyped DEF Leaf, Busy
<1>2. AboveOf(NextCall) \in BOOLEAN /\ << >> \in Seq(TreeNodes) /\ 0 \in Nat
  <2>1. ASSUME NextCall.to \in DOMAIN expanded PROVE expanded[NextCall.to] \in BOOLEAN
    BY <2>1 DEF MapTyped
  <2> QED
    BY <2>1 DEF AboveOf, MapTyped
<1>3. PICK none \in Seq(TreeNodes) : none = << >>
  BY <1>2
<1>4. PICK above \in BOOLEAN : above = AboveOf(NextCall)
  BY <1>2
<1>5. PICK lvl \in LevelTypes : lvl = Passed(Top)
  BY <1>1
<1>6. PICK c \in ApiCalls : c = NextCall
  BY <1>1
<1>7. above => AboveOf(NextCall)
  BY <1>4
<1> DEFINE added == Add(lvl, c, none, 0, above)
<1>8. /\ added \in LevelTypes /\ SameLevel(added, lvl) /\ added.todo = lvl.todo
      /\ NodeAdded(lvl.nodes, added.nodes, lvl, c, none, above)
  BY <1>2, AddTyped
<1>9. stack \in Seq(LevelTypes) /\ stack # << >> /\ stack' = <<added>> \o Tail(stack)
  BY <1>3, <1>4, <1>5, <1>6 DEF MapTyped, Leaf
<1> HIDE DEF added
<1>10. added.nodes \in Seq(TreeNodes)
  BY <1>8, LevelFields
<1>11. NodeAdded(stack[1].nodes, added.nodes, stack[1], NextCall, << >>, above)
  BY <1>1, <1>3, <1>5, <1>6, <1>8 DEF NodeAdded, CallNode, SameLevel
<1>12. /\ stack' \in Seq(LevelTypes) /\ stack' # << >> /\ Len(stack') = Len(stack)
      /\ stack'[1] = added /\ \A i \in 2 .. Len(stack') : stack'[i] = stack[i]
  BY <1>8, <1>9, TopReplaced
<1>13. Advances(added.nodes)
  BY <1>1, <1>5, <1>8, <1>12 DEF Advances, Leaf, SameLevel
<1> QED
  BY <1>7, <1>10, <1>11, <1>13

LEMMA ExpandOpens ==
  ASSUME MapTyped, Expand
  PROVE  Opens(Top.image, NextCall.to) /\ NextCall.to \in Nat /\ Top.image \in Images
<1>1. /\ Top \in LevelTypes /\ Passed(Top) \in LevelTypes /\ Top = stack[1]
      /\ NextCall \in ApiCalls /\ SameLevel(Passed(Top), Top)
      /\ Passed(Top).todo = Tail(Top.todo) /\ Passed(Top).nodes = Top.nodes
  BY TopTyped DEF Expand, Busy
<1>2. NextCall.to \in Nat /\ Top.image \in Images /\ Top.depth + 1 \in Nat
  BY <1>1, LevelFields, CallFields
<1> DEFINE opened == Level(Top.image, NextCall.to, Top.depth + 1, NextCall)
<1>3. opened \in LevelTypes
  BY <1>1, <1>2, LevelTyped DEF MapTyped
<1>4. /\ stack \in Seq(LevelTypes) /\ stack # << >>
      /\ stack' = <<opened, Passed(Top)>> \o Tail(stack)
  BY DEF MapTyped, Expand
<1> HIDE DEF opened
<1>5. /\ stack' \in Seq(LevelTypes) /\ stack' # << >> /\ Len(stack') = Len(stack) + 1
      /\ stack'[1] = opened /\ stack'[2] = Passed(Top)
      /\ \A i \in 3 .. Len(stack') : stack'[i] = stack[i - 1]
  BY <1>1, <1>3, <1>4, TopPushed
<1> QED
  BY <1>1, <1>2, <1>5 DEF Opens, Expand, opened

LEMMA KernelOpens ==
  ASSUME MapTyped, EnterKernel
  PROVE  \E rva \in KernelTarget(NextCall) :
           rva \in Nat /\ Opens("kernel", rva) /\ NextCall.kind = "syscall"
<1>1. /\ Top \in LevelTypes /\ Passed(Top) \in LevelTypes /\ Top = stack[1]
      /\ NextCall \in ApiCalls /\ SameLevel(Passed(Top), Top)
      /\ Passed(Top).todo = Tail(Top.todo) /\ Passed(Top).nodes = Top.nodes
  BY TopTyped DEF EnterKernel, Busy
<1>2. PICK rva \in KernelTarget(NextCall) :
        stack' = <<Level("kernel", rva, Top.depth + 1, NextCall), Passed(Top)>> \o Tail(stack)
  BY DEF EnterKernel
<1>3. /\ rva \in Nat /\ NextCall.kind = "syscall"
      /\ Top.depth + 1 \in Nat /\ "kernel" \in Images
  <2>1. calls \in Programs
    BY DEF MapTyped
  <2>2. rva \in Nat /\ NextCall.kind = "syscall"
    BY <1>1, <2>1, TargetTyped
  <2> QED
    BY <1>1, <2>2, LevelFields DEF Images
<1> DEFINE opened == Level("kernel", rva, Top.depth + 1, NextCall)
<1>4. opened \in LevelTypes
  BY <1>1, <1>3, LevelTyped DEF MapTyped
<1>5. /\ stack \in Seq(LevelTypes) /\ stack # << >>
      /\ stack' = <<opened, Passed(Top)>> \o Tail(stack)
  BY <1>2 DEF MapTyped
<1> HIDE DEF opened
<1>6. /\ stack' \in Seq(LevelTypes) /\ stack' # << >> /\ Len(stack') = Len(stack) + 1
      /\ stack'[1] = opened /\ stack'[2] = Passed(Top)
      /\ \A i \in 3 .. Len(stack') : stack'[i] = stack[i - 1]
  BY <1>1, <1>4, <1>5, TopPushed
<1> QED
  BY <1>1, <1>3, <1>6 DEF Opens, EnterKernel, opened

\* A level is closed, and its call adds a node to the one before.
Closes(nodes) ==
  /\ Unfinished /\ Top.todo = << >> /\ Len(stack) > 1
  /\ stack' \in Seq(LevelTypes) /\ stack' # << >> /\ Len(stack') = Len(stack) - 1
  /\ SameLevel(stack'[1], stack[2])
  /\ stack'[1].todo = stack[2].todo /\ stack'[1].nodes = nodes
  /\ \A i \in 2 .. Len(stack') : stack'[i] = stack[i + 1]

LEMMA ReturnCloses ==
  ASSUME MapTyped, Return, Top.call \in ApiCalls
  PROVE  \E nodes \in Seq(TreeNodes) :
           /\ Closes(nodes)
           /\ NodeAdded(stack[2].nodes, nodes, stack[2], Top.call, Top.nodes, FALSE)
<1>1. /\ Top \in LevelTypes /\ Top = stack[1] /\ stack[2] \in LevelTypes
  BY TopTyped DEF Return, MapTyped
<1>2. Top.nodes \in Seq(TreeNodes) /\ Top.unbuilt \in Nat
  BY <1>1, LevelFields
<1> PICK above \in BOOLEAN : above = FALSE
  OBVIOUS
<1> DEFINE added == Add(stack[2], Top.call, Top.nodes, Top.unbuilt, above)
<1>3. /\ added \in LevelTypes /\ SameLevel(added, stack[2]) /\ added.todo = stack[2].todo
      /\ NodeAdded(stack[2].nodes, added.nodes, stack[2], Top.call, Top.nodes, above)
  BY <1>1, <1>2, AddTyped
<1>4. /\ stack \in Seq(LevelTypes) /\ 1 < Len(stack)
      /\ stack' = <<added>> \o SubSeq(stack, 3, Len(stack))
  BY DEF MapTyped, Return
<1> HIDE DEF added
<1>5. added.nodes \in Seq(TreeNodes)
  BY <1>3, LevelFields
<1>6. /\ stack' \in Seq(LevelTypes) /\ stack' # << >> /\ Len(stack') = Len(stack) - 1
      /\ stack'[1] = added /\ \A i \in 2 .. Len(stack') : stack'[i] = stack[i + 1]
  <2> PICK rest : rest = SubSeq(stack, 3, Len(stack))
    OBVIOUS
  <2>1. /\ rest \in Seq(LevelTypes) /\ Len(rest) = Len(stack) - 2
        /\ \A i \in 1 .. Len(rest) : rest[i] = stack[i + 2]
    BY <1>4, Rest, Zenon
  <2>2. stack' = <<added>> \o rest
    BY <1>4
  <2>3. added \in LevelTypes /\ Len(stack) \in Nat
    BY <1>3, <1>4
  <2>4. /\ stack' \in Seq(LevelTypes) /\ stack' # << >> /\ Len(stack') = Len(stack) - 1
        /\ stack'[1] = added
    BY <2>1, <2>2, <2>3
  <2>5. \A i \in 2 .. Len(stack') : stack'[i] = rest[i - 1]
    BY <2>1, <2>2, <2>3
  <2> QED
    BY <2>1, <2>3, <2>4, <2>5
<1>7. Closes(added.nodes)
  BY <1>3, <1>6 DEF Closes, Return
<1> QED
  BY <1>3, <1>5, <1>7

-----------------------------------------------------------------------------
(* The inductive invariant of the call map.                                 *)

PlaceOf(l) == <<l.image, l.rva>>
Left(l) == {l.todo[k] : k \in 1 .. Len(l.todo)}

\* A call that is followed leads from a level to the next one.
Opened(l, m) ==
  /\ m.call \in ApiCalls /\ ~ Excludes(m.call)
  /\ \/ /\ m.call.kind = "internal" /\ m.rva = m.call.to /\ m.image = l.image
        /\ m.rva \in entered /\ m.rva \in DOMAIN CodeOf(m.image)
     \/ m.call.kind = "syscall" /\ m.image = "kernel" /\ m.rva \in KernelTarget(m.call)

Nested ==
  /\ stack[Len(stack)].image = "user" /\ stack[Len(stack)].rva = Start
  /\ \A i \in 1 .. Len(stack) : stack[i].depth + i = Len(stack)
  /\ \A i \in 2 .. Len(stack) : Opened(stack[i], stack[i - 1])

\* The calls of a level are the function's.
Made ==
  /\ \A i \in 1 .. Len(stack) : Left(stack[i]) \subseteq CallsAt(PlaceOf(stack[i]))
  /\ \A i \in 2 .. Len(stack) : stack[i - 1].call \in CallsAt(PlaceOf(stack[i]))

\* The levels of a path are functions entered, but for one that a system call opens.
Ledger ==
  /\ entered \subseteq Functions
  /\ Len(stack) <= Cardinality(entered) + (IF stack[1].image = "kernel" THEN 1 ELSE 0)

\* A list of nodes has the call of a function in that image.
Has(nodes, image, c) ==
  \E k \in 1 .. Len(nodes) : nodes[k].call = c /\ nodes[k].image = image
Kept(image, c) == \E i \in 1 .. Len(stack) : Has(stack[i].nodes, image, c)

\* A call has its node if it should have, and the function it calls is expanded.
Seen(f, c) ==
  \/ Excludes(c)
  \/ /\ Matches(c) => Kept(f[1], c)
     /\ c.kind = "internal" /\ c.to \in DOMAIN CodeOf(f[1]) => c.to \in entered
Served(f, c) ==
  /\ Seen(f, c)
  /\ ~ Excludes(c) =>
       \A rva \in KernelTarget(c) : \A d \in CallsAt(<<"kernel", rva>>) : Seen(<<"kernel", rva>>, d)

OnStack(f) == \E i \in 1 .. Len(stack) : PlaceOf(stack[i]) = f

\* What the levels have passed is in the tree, and so is what was entered.
Progress ==
  /\ \A i \in 1 .. Len(stack) : \A c \in CallsAt(PlaceOf(stack[i])) :
       \/ c \in Left(stack[i]) \/ (i > 1 /\ c = stack[i - 1].call)
       \/ Served(PlaceOf(stack[i]), c)
  /\ \A image \in Images : \A rva \in entered \cap DOMAIN CodeOf(image) :
       OnStack(<<image, rva>>) \/ \A c \in CallsAt(<<image, rva>>) : Served(<<image, rva>>, c)

\* The first n nodes have an internal call of that function, with its calls.
ShownIn(nodes, n, image, rva) ==
  \E k \in 1 .. n :
    /\ nodes[k].call.kind = "internal" /\ nodes[k].call.to = rva
    /\ nodes[k].image = image /\ HasChildren(nodes, k)

Fine(nodes, k) ==
  ~ nodes[k].call.out /\ (nodes[k].call.match \/ HasChildren(nodes, k) \/ nodes[k].above)

NodesFine ==
  \A i \in 1 .. Len(stack) :
    /\ stack[i].nodes # << >> => stack[i].nodes[1].depth = stack[i].depth
    /\ \A k \in 1 .. Len(stack[i].nodes) : Fine(stack[i].nodes, k)

\* Whether a function is shown before the nodes of level i end, the first n of them.
ShownBefore(i, n, image, rva) ==
  \/ ShownIn(stack[i].nodes, n, image, rva)
  \/ \E j \in i + 1 .. Len(stack) :
       ShownIn(stack[j].nodes, Len(stack[j].nodes), image, rva)

AboveShown ==
  \A i \in 1 .. Len(stack) : \A k \in 1 .. Len(stack[i].nodes) :
    stack[i].nodes[k].above =>
      ShownBefore(i, k - 1, stack[i].nodes[k].image, stack[i].nodes[k].call.to)

ExpandedShown ==
  \A rva \in DOMAIN expanded : expanded[rva] =>
    \E image \in Images :
      rva \in DOMAIN CodeOf(image) /\ ShownBefore(1, Len(stack[1].nodes), image, rva)

LEMMA Frame ==
  ASSUME calls' = calls, request' = request
  PROVE  /\ \A c : (Excludes(c)' <=> Excludes(c)) /\ (Matches(c)' <=> Matches(c))
         /\ \A c : KernelTarget(c)' = KernelTarget(c)
         /\ \A image : CodeOf(image)' = CodeOf(image)
         /\ \A f : CallsAt(f)' = CallsAt(f)
         /\ (ImagesApart' <=> ImagesApart) /\ Functions' = Functions
<1>1. \A c : (Excludes(c)' <=> Excludes(c)) /\ (Matches(c)' <=> Matches(c))
  BY DEF Excludes, Matches
<1>2. \A c : KernelTarget(c)' = KernelTarget(c)
  BY DEF KernelTarget, DispatchRva
<1>3. \A image : CodeOf(image)' = CodeOf(image)
  BY DEF CodeOf
<1>4. \A f : CallsAt(f)' = CallsAt(f)
  BY <1>3 DEF CallsAt, CallsOf
<1>5. Functions' = Functions /\ Places' = Places
  BY DEF Functions, Places
<1>6. ImagesApart' <=> ImagesApart
  BY <1>2, <1>3, <1>4, <1>5 DEF ImagesApart
<1> QED
  BY <1>1, <1>2, <1>3, <1>4, <1>5, <1>6

LEMMA OpenedTop ==
  ASSUME MapTyped, Nested, Len(stack) > 1
  PROVE  /\ Opened(stack[2], stack[1]) /\ Top.call \in ApiCalls /\ ~ Excludes(Top.call)
         /\ Top = stack[1] /\ stack[1] \in LevelTypes /\ stack[2] \in LevelTypes
<1>1. /\ stack \in Seq(LevelTypes) /\ Top = stack[1] /\ 2 \in 2 .. Len(stack) /\ 2 - 1 = 1
      /\ stack[1] \in LevelTypes /\ stack[2] \in LevelTypes
  BY TopTyped DEF MapTyped
<1>2. Opened(stack[2], stack[2 - 1])
  BY <1>1 DEF Nested
<1>3. Opened(stack[2], stack[1])
  BY <1>1, <1>2
<1> QED
  BY <1>1, <1>3 DEF Opened

LEMMA MapInitTyped == MapInit => MapTyped
<1> SUFFICES ASSUME MapInit PROVE MapTyped
  OBVIOUS
<1>1. calls \in Programs /\ request \in [filter : BOOLEAN, depth : Nat, maxSubcalls : Nat]
  BY RequestsAssumption DEF MapInit
<1> DEFINE first == Level("user", Start, 0, NoCall)
<1>2. "user" \in Images /\ Start \in Nat /\ 0 \in Nat /\ NoCall \in ApiCalls \cup {NoCall}
  BY DEF Images, Start
<1>3. first \in LevelTypes
  BY <1>1, <1>2, LevelTyped
<1>4. stack = <<first>> /\ entered = {Start} /\ expanded = << >> /\ tree = << >>
  BY DEF MapInit
<1> HIDE DEF first
<1>5. stack \in Seq(LevelTypes) /\ stack # << >>
  BY <1>3, <1>4
<1>6. \A rva \in DOMAIN expanded : expanded[rva] \in BOOLEAN
  BY <1>4
<1> QED
  BY <1>1, <1>2, <1>4, <1>5, <1>6 DEF MapTyped

LEMMA TypedKept ==
  ASSUME MapTyped, UNCHANGED <<calls, request>>,
         stack' \in Seq(LevelTypes), stack' # << >>, entered' \subseteq Nat,
         \A rva \in DOMAIN expanded' : expanded'[rva] \in BOOLEAN, tree' = << >>
  PROVE  MapTyped'
BY DEF MapTyped

LEMMA MapTypedStep == MapTyped /\ Nested /\ [MapNext]_mapVars => MapTyped'
<1> SUFFICES ASSUME MapTyped, Nested, [MapNext]_mapVars PROVE MapTyped'
  OBVIOUS
<1>0. /\ entered \subseteq Nat /\ \A rva \in DOMAIN expanded : expanded[rva] \in BOOLEAN
  BY DEF MapTyped
<1>1. CASE SkipExcluded
  <2>1. stack' \in Seq(LevelTypes) /\ stack' # << >>
    BY <1>1, SkipsOne DEF Advances
  <2>2. /\ UNCHANGED <<calls, request>> /\ entered' = entered /\ expanded' = expanded
        /\ tree' = << >>
    BY <1>1 DEF SkipExcluded, Busy, Unfinished
  <2> QED
    BY <1>0, <2>1, <2>2, TypedKept
<1>2. CASE Expand
  <2>1. stack' \in Seq(LevelTypes) /\ stack' # << >> /\ NextCall.to \in Nat
    BY <1>2, ExpandOpens DEF Opens
  <2>2. /\ UNCHANGED <<calls, request>> /\ entered' = entered \cup {NextCall.to}
        /\ expanded' = expanded /\ tree' = << >>
    BY <1>2 DEF Expand, Busy, Unfinished
  <2>3. entered' \subseteq Nat
    BY <1>0, <2>1, <2>2
  <2> QED
    BY <1>0, <2>1, <2>2, <2>3, TypedKept
<1>3. CASE EnterKernel
  <2>1. stack' \in Seq(LevelTypes) /\ stack' # << >>
    BY <1>3, KernelOpens DEF Opens
  <2>2. /\ UNCHANGED <<calls, request>> /\ entered' = entered /\ expanded' = expanded
        /\ tree' = << >>
    BY <1>3 DEF EnterKernel, Busy, Unfinished
  <2> QED
    BY <1>0, <2>1, <2>2, TypedKept
<1>4. CASE Leaf
  <2>1. stack' \in Seq(LevelTypes) /\ stack' # << >>
    <3>1. \E nodes \in Seq(TreeNodes) : Advances(nodes)
      BY <1>4, LeafAdds
    <3> QED
      BY <3>1 DEF Advances
  <2>2. /\ UNCHANGED <<calls, request>> /\ entered' = entered /\ expanded' = expanded
        /\ tree' = << >>
    BY <1>4 DEF Leaf, Busy, Unfinished
  <2> QED
    BY <1>0, <2>1, <2>2, TypedKept
<1>5. CASE Return
  <2>1. stack' \in Seq(LevelTypes) /\ stack' # << >>
    <3>1. Top.call \in ApiCalls
      BY <1>5, OpenedTop DEF Return
    <3>2. \E nodes \in Seq(TreeNodes) : Closes(nodes)
      BY <1>5, <3>1, ReturnCloses
    <3> QED
      BY <3>2 DEF Closes
  <2>2. /\ UNCHANGED <<calls, request>> /\ entered' = entered /\ tree' = << >>
    BY <1>5 DEF Return, Unfinished
  <2>3. /\ DOMAIN expanded' \subseteq DOMAIN expanded \cup {Top.call.to}
        /\ \A rva \in DOMAIN expanded' :
             expanded'[rva] = expanded[rva] \/ expanded'[rva] = (Top.nodes # << >>)
        /\ \A rva \in DOMAIN expanded' :
             rva \in DOMAIN expanded \/ expanded'[rva] = (Top.nodes # << >>)
    BY <1>5 DEF Return
  <2>4. \A rva \in DOMAIN expanded' : expanded'[rva] \in BOOLEAN
    BY <1>0, <2>3
  <2> QED
    BY <1>0, <2>1, <2>2, <2>4, TypedKept
<1>6. CASE FinishMap
  <2>1. /\ UNCHANGED <<calls, request, stack, entered, expanded>>
        /\ tree' = <<Top.nodes>> /\ Len(stack) = 1 /\ Top.todo = << >>
    BY <1>6 DEF FinishMap
  <2>2. Top' = Top
    BY <2>1 DEF Top
  <2> QED
    BY <2>1, <2>2 DEF MapTyped
<1>7. CASE UNCHANGED mapVars
  BY <1>7 DEF MapTyped, mapVars, Top
<1> QED
  BY <1>1, <1>2, <1>3, <1>4, <1>5, <1>6, <1>7 DEF MapNext

LEMMA LeftPassed ==
  ASSUME NEW l \in LevelTypes, NEW m \in LevelTypes, l.todo # << >>, m.todo = Tail(l.todo)
  PROVE  Left(l) = Left(m) \cup {l.todo[1]}
<1>1. l.todo \in Seq(ApiCalls) /\ m.todo \in Seq(ApiCalls)
  BY LevelFields
<1> PICK s \in Seq(ApiCalls), t \in Seq(ApiCalls) : s = l.todo /\ t = m.todo
  BY <1>1
<1>2. s # << >> /\ t = Tail(s)
  OBVIOUS
<1>3. /\ Len(s) \in Nat \ {0} /\ Len(t) = Len(s) - 1
      /\ \A k \in 1 .. Len(s) - 1 : t[k] = s[k + 1]
  BY <1>2, HeadTail
<1>4. ASSUME NEW k \in 1 .. Len(s) PROVE s[k] = s[1] \/ \E j \in 1 .. Len(t) : t[j] = s[k]
  <2>1. CASE k # 1
    <3>1. k - 1 \in 1 .. Len(s) - 1 /\ k - 1 + 1 = k
      BY <1>3, <2>1
    <3>2. t[k - 1] = s[k - 1 + 1]
      BY <1>3, <3>1
    <3> QED
      BY <1>3, <3>1, <3>2
  <2> QED
    BY <2>1
<1>5. ASSUME NEW j \in 1 .. Len(t) PROVE \E k \in 1 .. Len(s) : s[k] = t[j]
  BY <1>3
<1>6. 1 \in 1 .. Len(s)
  BY <1>3
<1>7. {s[k] : k \in 1 .. Len(s)} = {t[k] : k \in 1 .. Len(t)} \cup {s[1]}
  <2> DEFINE S == {s[k] : k \in 1 .. Len(s)}
             T == {t[k] : k \in 1 .. Len(t)}
  <2>1. ASSUME NEW x \in S PROVE x \in T \cup {s[1]}
    <3>1. PICK k \in 1 .. Len(s) : x = s[k]
      OBVIOUS
    <3> QED
      BY <1>4, <3>1
  <2>2. ASSUME NEW x \in T PROVE x \in S
    <3>1. PICK j \in 1 .. Len(t) : x = t[j]
      OBVIOUS
    <3> QED
      BY <1>5, <3>1
  <2>3. s[1] \in S
    BY <1>6
  <2> QED
    BY <2>1, <2>2, <2>3
<1> QED
  BY <1>7 DEF Left

LEMMA AdvanceLevels ==
  ASSUME MapTyped, NEW nodes, Advances(nodes)
  PROVE  /\ Len(stack) \in Nat \ {0} /\ Len(stack') = Len(stack)
         /\ \A i \in 1 .. Len(stack) : SameLevel(stack'[i], stack[i])
         /\ \A i \in 1 .. Len(stack) : PlaceOf(stack'[i]) = PlaceOf(stack[i])
         /\ \A i \in 2 .. Len(stack) : stack'[i] = stack[i]
         /\ stack'[1].nodes = nodes /\ NextCall \in ApiCalls
         /\ Left(stack[1]) = Left(stack'[1]) \cup {NextCall}
<1>1. /\ Len(stack) \in Nat \ {0} /\ Len(stack') = Len(stack) /\ stack'[1].nodes = nodes
      /\ \A i \in 2 .. Len(stack) : stack'[i] = stack[i]
      /\ stack[1].todo # << >> /\ stack'[1].todo = Tail(stack[1].todo)
      /\ NextCall \in ApiCalls /\ NextCall = stack[1].todo[1]
      /\ SameLevel(stack'[1], stack[1])
  BY TopTyped DEF Advances, Busy
<1>2. \A i \in 1 .. Len(stack) : SameLevel(stack'[i], stack[i])
  BY <1>1 DEF SameLevel
<1>3. stack[1] \in LevelTypes /\ stack'[1] \in LevelTypes
  BY <1>1 DEF MapTyped, Advances
<1>4. Left(stack[1]) = Left(stack'[1]) \cup {NextCall}
  BY <1>1, <1>3, LeftPassed
<1>5. \A i \in 1 .. Len(stack) : PlaceOf(stack'[i]) = PlaceOf(stack[i])
  BY <1>2 DEF SameLevel, PlaceOf
<1> QED
  BY <1>1, <1>2, <1>4, <1>5

LEMMA CloseLevels ==
  ASSUME MapTyped, NEW nodes, Closes(nodes)
  PROVE  /\ Len(stack) \in Nat \ {0, 1} /\ Len(stack') = Len(stack) - 1
         /\ \A i \in 1 .. Len(stack') : SameLevel(stack'[i], stack[i + 1])
         /\ \A i \in 1 .. Len(stack') : PlaceOf(stack'[i]) = PlaceOf(stack[i + 1])
         /\ \A i \in 1 .. Len(stack') : Left(stack'[i]) = Left(stack[i + 1])
         /\ \A i \in 2 .. Len(stack') : stack'[i] = stack[i + 1]
         /\ stack'[1].nodes = nodes /\ Left(stack[1]) = {}
<1>1. /\ Len(stack) \in Nat \ {0, 1} /\ Len(stack') = Len(stack) - 1 /\ stack'[1].nodes = nodes
      /\ stack[1].todo = << >> /\ \A i \in 2 .. Len(stack') : stack'[i] = stack[i + 1]
  BY TopTyped DEF Closes
<1>2. ASSUME NEW i \in 1 .. Len(stack')
      PROVE  /\ SameLevel(stack'[i], stack[i + 1]) /\ stack'[i].todo = stack[i + 1].todo
  <2>1. CASE i = 1
    BY <2>1 DEF Closes
  <2>2. CASE i # 1
    <3>1. i \in 2 .. Len(stack')
      BY <1>1, <2>2
    <3> QED
      BY <3>1 DEF Closes, SameLevel
  <2> QED
    BY <2>1, <2>2
<1>3. \A i \in 1 .. Len(stack') : PlaceOf(stack'[i]) = PlaceOf(stack[i + 1])
  BY <1>2 DEF SameLevel, PlaceOf
<1>4. \A i \in 1 .. Len(stack') : Left(stack'[i]) = Left(stack[i + 1])
  BY <1>2 DEF Left
<1>5. Left(stack[1]) = {}
  BY <1>1 DEF Left
<1> QED
  BY <1>1, <1>2, <1>3, <1>4, <1>5

LEMMA OpenLevels ==
  ASSUME MapTyped, NEW image \in Images, NEW rva \in Nat, Opens(image, rva)
  PROVE  /\ Len(stack) \in Nat \ {0} /\ Len(stack') = Len(stack) + 1
         /\ \A i \in 2 .. Len(stack') : SameLevel(stack'[i], stack[i - 1])
         /\ \A i \in 2 .. Len(stack') : PlaceOf(stack'[i]) = PlaceOf(stack[i - 1])
         /\ \A i \in 2 .. Len(stack') : stack'[i].nodes = stack[i - 1].nodes
         /\ \A i \in 3 .. Len(stack') : stack'[i] = stack[i - 1]
         /\ NextCall \in ApiCalls /\ ~ Excludes(NextCall)
         /\ Left(stack[1]) = Left(stack'[2]) \cup {NextCall}
         /\ stack'[1].image = image /\ stack'[1].rva = rva /\ stack'[1].call = NextCall
         /\ stack'[1].depth = stack[1].depth + 1 /\ stack'[1].nodes = << >>
         /\ PlaceOf(stack'[1]) = <<image, rva>>
         /\ request.filter => Left(stack'[1]) = CallsAt(<<image, rva>>)
<1>1. /\ Len(stack) \in Nat \ {0} /\ Len(stack') = Len(stack) + 1
      /\ \A i \in 3 .. Len(stack') : stack'[i] = stack[i - 1]
      /\ SameLevel(stack'[2], stack[1]) /\ stack'[2].nodes = stack[1].nodes
      /\ stack[1].todo # << >> /\ stack'[2].todo = Tail(stack[1].todo)
      /\ NextCall \in ApiCalls /\ NextCall = stack[1].todo[1] /\ ~ Excludes(NextCall)
      /\ Top = stack[1] /\ stack[1] \in LevelTypes
  BY TopTyped DEF Opens, Busy
<1>2. \A i \in 2 .. Len(stack') : SameLevel(stack'[i], stack[i - 1])
  BY <1>1 DEF SameLevel
<1>3. \A i \in 2 .. Len(stack') : stack'[i].nodes = stack[i - 1].nodes
  BY <1>1
<1>4. stack'[2] \in LevelTypes
  BY <1>1 DEF Opens
<1>5. Left(stack[1]) = Left(stack'[2]) \cup {NextCall}
  BY <1>1, <1>4, LeftPassed
<1>6. \A i \in 2 .. Len(stack') : PlaceOf(stack'[i]) = PlaceOf(stack[i - 1])
  BY <1>2 DEF SameLevel, PlaceOf
<1>7. /\ stack'[1].image = image /\ stack'[1].rva = rva /\ stack'[1].call = NextCall
      /\ stack'[1].depth = stack[1].depth + 1 /\ stack'[1].nodes = << >>
      /\ request.filter => stack'[1].todo = CallsOf(image, rva)
  <2>1. stack'[1] = Level(image, rva, stack[1].depth + 1, NextCall)
    BY <1>1 DEF Opens
  <2>2. stack[1].depth + 1 \in Nat
    BY <1>1, LevelFields
  <2> QED
    BY <1>1, <2>1, <2>2, LevelTyped DEF MapTyped
<1>8. ASSUME request.filter PROVE Left(stack'[1]) = CallsAt(<<image, rva>>)
  BY <1>7, <1>8 DEF Left, CallsAt
<1>9. PlaceOf(stack'[1]) = <<image, rva>>
  BY <1>7 DEF PlaceOf
<1> QED
  BY <1>1, <1>2, <1>3, <1>5, <1>6, <1>7, <1>8, <1>9

LEMMA OpenedKept ==
  ASSUME calls' = calls, request' = request, entered \subseteq entered',
         NEW l, NEW m, NEW l2, NEW m2, SameLevel(l2, l), SameLevel(m2, m), Opened(l, m)
  PROVE  Opened(l2, m2)'
<1>1. /\ m2.call = m.call /\ m2.rva = m.rva /\ m2.image = m.image /\ l2.image = l.image
  BY DEF SameLevel
<1>2. /\ ~ Excludes(m.call)' /\ KernelTarget(m.call)' = KernelTarget(m.call)
      /\ CodeOf(m.image)' = CodeOf(m.image)
  BY Frame DEF Opened
<1> QED
  BY <1>1, <1>2 DEF Opened

LEMMA NestedAdvance ==
  ASSUME MapTyped, Nested, NEW nodes, Advances(nodes), calls' = calls, request' = request,
         entered' = entered
  PROVE  Nested'
<1>1. /\ Len(stack) \in Nat \ {0} /\ Len(stack') = Len(stack)
      /\ \A i \in 1 .. Len(stack) : SameLevel(stack'[i], stack[i])
  BY AdvanceLevels
<1>2. /\ stack'[Len(stack')].image = "user" /\ stack'[Len(stack')].rva = Start
      /\ \A i \in 1 .. Len(stack') : stack'[i].depth + i = Len(stack')
  <2>1. Len(stack) \in 1 .. Len(stack)
    BY <1>1
  <2>2. SameLevel(stack'[Len(stack)], stack[Len(stack)])
    BY <1>1, <2>1
  <2>3. ASSUME NEW i \in 1 .. Len(stack) PROVE stack'[i].depth + i = Len(stack)
    BY <1>1 DEF Nested, SameLevel
  <2> QED
    BY <1>1, <2>2, <2>3 DEF Nested, SameLevel
<1>3. ASSUME NEW i \in 2 .. Len(stack') PROVE Opened(stack[i], stack[i - 1])'
  <2>1. i \in 1 .. Len(stack) /\ i - 1 \in 1 .. Len(stack) /\ i \in 2 .. Len(stack)
    BY <1>1
  <2>2. SameLevel(stack'[i], stack[i]) /\ SameLevel(stack'[i - 1], stack[i - 1])
    BY <1>1, <2>1
  <2>3. Opened(stack[i], stack[i - 1])
    BY <2>1 DEF Nested
  <2> QED
    BY <2>2, <2>3, OpenedKept
<1> QED
  BY <1>2, <1>3 DEF Nested

LEMMA NestedClose ==
  ASSUME MapTyped, Nested, NEW nodes, Closes(nodes), calls' = calls, request' = request,
         entered' = entered
  PROVE  Nested'
<1>1. /\ Len(stack) \in Nat \ {0, 1} /\ Len(stack') = Len(stack) - 1
      /\ \A i \in 1 .. Len(stack') : SameLevel(stack'[i], stack[i + 1])
  BY CloseLevels
<1>2. \A i \in 1 .. Len(stack) : stack[i].depth \in Nat /\ stack[i].depth + i = Len(stack)
  BY LevelFields DEF MapTyped, Nested
<1>3. /\ stack'[Len(stack')].image = "user" /\ stack'[Len(stack')].rva = Start
      /\ \A i \in 1 .. Len(stack') : stack'[i].depth + i = Len(stack')
  <2>1. Len(stack') \in 1 .. Len(stack') /\ Len(stack') + 1 = Len(stack)
    BY <1>1
  <2>2. SameLevel(stack'[Len(stack')], stack[Len(stack') + 1])
    BY <1>1, <2>1
  <2>3. stack'[Len(stack')].image = "user" /\ stack'[Len(stack')].rva = Start
    BY <2>1, <2>2 DEF Nested, SameLevel
  <2>4. ASSUME NEW i \in 1 .. Len(stack') PROVE stack'[i].depth + i = Len(stack')
    <3>1. i + 1 \in 1 .. Len(stack) /\ i \in Nat
      BY <1>1
    <3>2. /\ stack'[i].depth = stack[i + 1].depth /\ stack[i + 1].depth \in Nat
          /\ stack[i + 1].depth + (i + 1) = Len(stack)
      BY <1>1, <1>2, <3>1 DEF SameLevel
    <3>3. PICK d \in Nat : d = stack[i + 1].depth
      BY <3>2
    <3>4. d + (i + 1) = Len(stack)
      BY <3>2, <3>3
    <3>5. d + i = Len(stack) - 1
      BY <1>1, <3>1, <3>4
    <3> QED
      BY <1>1, <3>2, <3>3, <3>5
  <2> QED
    BY <2>3, <2>4
<1>4. ASSUME NEW i \in 2 .. Len(stack') PROVE Opened(stack[i], stack[i - 1])'
  <2>1. i + 1 \in 2 .. Len(stack) /\ i - 1 + 1 = i /\ i + 1 - 1 = i /\ i - 1 \in 1 .. Len(stack')
    BY <1>1
  <2>2. Opened(stack[i + 1], stack[i + 1 - 1])
    BY <2>1 DEF Nested
  <2>3. Opened(stack[i + 1], stack[i])
    BY <2>1, <2>2
  <2>4. SameLevel(stack'[i], stack[i + 1]) /\ SameLevel(stack'[i - 1], stack[i])
    <3>1. SameLevel(stack'[i - 1], stack[i - 1 + 1])
      BY <1>1, <2>1
    <3> QED
      BY <1>1, <2>1, <3>1
  <2> QED
    BY <2>3, <2>4, OpenedKept
<1> QED
  BY <1>3, <1>4 DEF Nested

LEMMA NestedOpen ==
  ASSUME MapTyped, Nested, NEW image \in Images, NEW rva \in Nat, Opens(image, rva),
         calls' = calls, request' = request, entered \subseteq entered',
         \/ /\ NextCall.kind = "internal" /\ rva = NextCall.to /\ image = stack[1].image
            /\ rva \in entered' /\ rva \in DOMAIN CodeOf(image)
         \/ NextCall.kind = "syscall" /\ image = "kernel" /\ rva \in KernelTarget(NextCall)
  PROVE  Nested'
<1>1. /\ Len(stack) \in Nat \ {0} /\ Len(stack') = Len(stack) + 1
      /\ \A i \in 2 .. Len(stack') : SameLevel(stack'[i], stack[i - 1])
  BY OpenLevels
<1>2. NextCall \in ApiCalls /\ ~ Excludes(NextCall)
  BY OpenLevels
<1>3. /\ stack'[1].image = image /\ stack'[1].rva = rva /\ stack'[1].call = NextCall
      /\ stack'[1].depth = stack[1].depth + 1
  BY OpenLevels
<1>4. \A i \in 1 .. Len(stack) : stack[i].depth \in Nat /\ stack[i].depth + i = Len(stack)
  BY LevelFields DEF MapTyped, Nested
<1>5. /\ stack'[Len(stack')].image = "user" /\ stack'[Len(stack')].rva = Start
  BY <1>1 DEF Nested, SameLevel
<1>6. ASSUME NEW i \in 1 .. Len(stack') PROVE stack'[i].depth + i = Len(stack')
  <2>1. CASE i = 1
    BY <1>1, <1>3, <1>4, <2>1
  <2>2. CASE i # 1
    <3>1. i - 1 \in 1 .. Len(stack) /\ i \in 2 .. Len(stack')
      BY <1>1, <2>2
    <3>2. /\ stack'[i].depth = stack[i - 1].depth /\ stack[i - 1].depth \in Nat
          /\ stack[i - 1].depth + (i - 1) = Len(stack)
      BY <1>1, <1>4, <3>1 DEF SameLevel
    <3>3. PICK d \in Nat : d = stack[i - 1].depth
      BY <3>2
    <3>4. d + (i - 1) = Len(stack)
      BY <3>2, <3>3
    <3>5. d + i = Len(stack) + 1
      BY <1>1, <3>1, <3>4
    <3> QED
      BY <1>1, <3>2, <3>3, <3>5
  <2> QED
    BY <2>1, <2>2
<1>7. ASSUME NEW i \in 2 .. Len(stack') PROVE Opened(stack[i], stack[i - 1])'
  <2>1. CASE i = 2
    <3>1. stack'[2].image = stack[1].image
      BY DEF Opens, SameLevel
    <3>2. PICK c \in ApiCalls : c = NextCall
      BY <1>2
    <3>3. ~ Excludes(c)' /\ KernelTarget(c)' = KernelTarget(c) /\ CodeOf(image)' = CodeOf(image)
      BY <1>2, <3>2, Frame
    <3>4. stack'[1].call = c
      BY <1>3, <3>2
    <3>5. \/ c.kind = "internal" /\ rva = c.to /\ image = stack[1].image
              /\ rva \in entered' /\ rva \in DOMAIN CodeOf(image)
          \/ c.kind = "syscall" /\ image = "kernel" /\ rva \in KernelTarget(c)
      BY <3>2
    <3>6. Opened(stack[2], stack[1])'
      BY <1>3, <3>1, <3>3, <3>4, <3>5 DEF Opened
    <3> QED
      BY <2>1, <3>6
  <2>2. CASE i > 2
    <3>1. i - 1 \in 2 .. Len(stack') /\ i - 1 \in 2 .. Len(stack)
      BY <1>1, <2>2
    <3>2. SameLevel(stack'[i], stack[i - 1]) /\ SameLevel(stack'[i - 1], stack[i - 1 - 1])
      BY <1>1, <3>1
    <3>3. Opened(stack[i - 1], stack[i - 1 - 1])
      BY <3>1 DEF Nested
    <3> QED
      BY <3>2, <3>3, OpenedKept
  <2> QED
    BY <2>1, <2>2
<1> QED
  BY <1>5, <1>6, <1>7 DEF Nested

LEMMA MadeAdvance ==
  ASSUME MapTyped, Made, NEW nodes, Advances(nodes), calls' = calls, request' = request
  PROVE  Made'
<1>1. /\ Len(stack) \in Nat \ {0} /\ Len(stack') = Len(stack)
      /\ \A i \in 1 .. Len(stack) : PlaceOf(stack'[i]) = PlaceOf(stack[i])
      /\ \A i \in 1 .. Len(stack) : stack'[i].call = stack[i].call
      /\ \A i \in 1 .. Len(stack) : Left(stack'[i]) \subseteq Left(stack[i])
  BY AdvanceLevels DEF SameLevel
<1>2. ASSUME NEW i \in 1 .. Len(stack')
      PROVE  Left(stack'[i]) \subseteq CallsAt(PlaceOf(stack'[i]))
  BY <1>1 DEF Made
<1>3. ASSUME NEW i \in 2 .. Len(stack')
      PROVE  stack'[i - 1].call \in CallsAt(PlaceOf(stack'[i]))
  <2>1. i \in 1 .. Len(stack) /\ i - 1 \in 1 .. Len(stack) /\ i \in 2 .. Len(stack)
    BY <1>1
  <2>2. stack[i - 1].call \in CallsAt(PlaceOf(stack[i]))
    BY <2>1 DEF Made
  <2> QED
    BY <1>1, <2>1, <2>2
<1>4. \A f : CallsAt(f)' = CallsAt(f)
  BY Frame
<1> QED
  BY <1>2, <1>3, <1>4 DEF Made

LEMMA MadeOpen ==
  ASSUME MapTyped, Made, NEW image \in Images, NEW rva \in Nat, Opens(image, rva),
         calls' = calls, request' = request, request.filter
  PROVE  Made'
<1>1. /\ Len(stack) \in Nat \ {0} /\ Len(stack') = Len(stack) + 1
      /\ \A i \in 2 .. Len(stack') : PlaceOf(stack'[i]) = PlaceOf(stack[i - 1])
      /\ \A i \in 2 .. Len(stack') : stack'[i].call = stack[i - 1].call
      /\ \A i \in 3 .. Len(stack') : stack'[i] = stack[i - 1]
  BY OpenLevels DEF SameLevel
<1>2. /\ Left(stack'[1]) = CallsAt(PlaceOf(stack'[1])) /\ stack'[1].call = NextCall
      /\ Left(stack'[2]) \subseteq Left(stack[1]) /\ NextCall \in Left(stack[1])
  <2>1. /\ request.filter => Left(stack'[1]) = CallsAt(<<image, rva>>)
        /\ PlaceOf(stack'[1]) = <<image, rva>> /\ stack'[1].call = NextCall
        /\ Left(stack[1]) = Left(stack'[2]) \cup {NextCall}
    BY OpenLevels
  <2> QED
    BY <2>1
<1>3. Left(stack[1]) \subseteq CallsAt(PlaceOf(stack[1]))
  BY <1>1 DEF Made
<1>4. ASSUME NEW i \in 1 .. Len(stack')
      PROVE  Left(stack'[i]) \subseteq CallsAt(PlaceOf(stack'[i]))
  <2>1. CASE i = 1
    BY <1>2, <2>1
  <2>2. CASE i = 2
    <3>0. 2 \in 2 .. Len(stack') /\ 2 - 1 = 1
      BY <1>1
    <3>1. PlaceOf(stack'[2]) = PlaceOf(stack[2 - 1])
      BY <1>1, <3>0
    <3>2. PlaceOf(stack'[2]) = PlaceOf(stack[1])
      BY <3>1
    <3> QED
      BY <1>2, <1>3, <2>2, <3>2
  <2>3. CASE i > 2
    <3>1. i \in 3 .. Len(stack') /\ i - 1 \in 1 .. Len(stack)
      BY <1>1, <2>3
    <3>2. Left(stack[i - 1]) \subseteq CallsAt(PlaceOf(stack[i - 1]))
      BY <3>1 DEF Made
    <3> QED
      BY <1>1, <3>1, <3>2
  <2> QED
    BY <2>1, <2>2, <2>3
<1>5. ASSUME NEW i \in 2 .. Len(stack')
      PROVE  stack'[i - 1].call \in CallsAt(PlaceOf(stack'[i]))
  <2>1. CASE i = 2
    <3>0. 2 \in 2 .. Len(stack') /\ 2 - 1 = 1
      BY <1>1
    <3>1. PlaceOf(stack'[2]) = PlaceOf(stack[2 - 1])
      BY <1>1, <3>0
    <3>2. PlaceOf(stack'[2]) = PlaceOf(stack[1]) /\ stack'[1].call \in CallsAt(PlaceOf(stack[1]))
      BY <1>2, <1>3, <3>1
    <3> QED
      BY <2>1, <3>2
  <2>2. CASE i > 2
    <3>1. i - 1 \in 2 .. Len(stack') /\ i - 1 \in 2 .. Len(stack) /\ i \in 2 .. Len(stack')
      BY <1>1, <2>2
    <3>2. stack[i - 1 - 1].call \in CallsAt(PlaceOf(stack[i - 1]))
      BY <3>1 DEF Made
    <3>3. stack'[i - 1].call = stack[i - 1 - 1].call /\ PlaceOf(stack'[i]) = PlaceOf(stack[i - 1])
      BY <1>1, <3>1
    <3> QED
      BY <3>2, <3>3
  <2> QED
    BY <2>1, <2>2
<1>6. \A f : CallsAt(f)' = CallsAt(f)
  BY Frame
<1> QED
  BY <1>4, <1>5, <1>6 DEF Made

LEMMA MadeClose ==
  ASSUME MapTyped, Made, NEW nodes, Closes(nodes), calls' = calls, request' = request
  PROVE  Made'
<1>1. /\ Len(stack) \in Nat \ {0, 1} /\ Len(stack') = Len(stack) - 1
      /\ \A i \in 1 .. Len(stack') : PlaceOf(stack'[i]) = PlaceOf(stack[i + 1])
      /\ \A i \in 1 .. Len(stack') : stack'[i].call = stack[i + 1].call
      /\ \A i \in 1 .. Len(stack') : Left(stack'[i]) = Left(stack[i + 1])
  BY CloseLevels DEF SameLevel
<1>2. ASSUME NEW i \in 1 .. Len(stack')
      PROVE  Left(stack'[i]) \subseteq CallsAt(PlaceOf(stack'[i]))
  <2>1. i + 1 \in 1 .. Len(stack)
    BY <1>1
  <2> QED
    BY <1>1, <2>1 DEF Made
<1>3. ASSUME NEW i \in 2 .. Len(stack')
      PROVE  stack'[i - 1].call \in CallsAt(PlaceOf(stack'[i]))
  <2>1. /\ i + 1 \in 2 .. Len(stack) /\ i + 1 - 1 = i /\ i - 1 + 1 = i
        /\ i - 1 \in 1 .. Len(stack') /\ i \in 1 .. Len(stack')
    BY <1>1
  <2>2. stack[i + 1 - 1].call \in CallsAt(PlaceOf(stack[i + 1]))
    BY <2>1 DEF Made
  <2>3. stack'[i - 1].call = stack[i - 1 + 1].call
    BY <1>1, <2>1
  <2> QED
    BY <1>1, <2>1, <2>2, <2>3
<1>4. \A f : CallsAt(f)' = CallsAt(f)
  BY Frame
<1> QED
  BY <1>2, <1>3, <1>4 DEF Made

-----------------------------------------------------------------------------
(* How deep the walk gets.                                                  *)

LEMMA MadeHere ==
  ASSUME MapTyped, Made, Busy
  PROVE  NextCall \in CallsAt(PlaceOf(stack[1])) /\ NextCall \in ApiCalls
<1>1. /\ NextCall \in ApiCalls /\ NextCall = stack[1].todo[1] /\ stack[1].todo # << >>
      /\ stack[1] \in LevelTypes /\ Len(stack) \in Nat \ {0}
  BY TopTyped DEF Busy
<1>2. stack[1].todo \in Seq(ApiCalls)
  BY <1>1, LevelFields
<1>3. 1 \in 1 .. Len(stack[1].todo)
  BY <1>1, <1>2
<1>4. NextCall \in Left(stack[1])
  BY <1>1, <1>3 DEF Left
<1> QED
  BY <1>1, <1>4 DEF Made

LEMMA MadeAPlace ==
  ASSUME NEW image \in Images, NEW rva, NEW c \in CallsAt(<<image, rva>>)
  PROVE  <<image, rva>> \in Places
<1>1. rva \in DOMAIN CodeOf(image)
  BY DEF CallsAt, CallsOf
<1> QED
  BY <1>1 DEF CodeOf, Images, Places

\* What an image's functions call is in that image, and the kernel calls no kernel.
LEMMA Apart ==
  ASSUME ImagesApart, NEW image \in Images, NEW rva, NEW c \in CallsAt(<<image, rva>>)
  PROVE  /\ c.kind = "internal" =>
              \A other \in Images : c.to \in DOMAIN CodeOf(other) => other = image
         /\ image = "kernel" => KernelTarget(c) = {}
<1> PICK f : f = <<image, rva>>
  OBVIOUS
<1>1. f \in Places /\ c \in CallsAt(f) /\ f[1] = image
  BY MadeAPlace
<1> QED
  BY <1>1 DEF ImagesApart

LEMMA FunctionsFinite ==
  ASSUME calls \in Programs PROVE IsFiniteSet(Functions) /\ Cardinality(Functions) \in Nat
<1>1. IsFiniteSet(DOMAIN calls.user) /\ IsFiniteSet(DOMAIN calls.kernel)
  BY ProgramsAssumption
<1>2. IsFiniteSet(Functions)
  BY <1>1, FS_Union DEF Functions
<1> QED
  BY <1>2, FS_CardinalityType

LEMMA EnteredFinite ==
  ASSUME calls \in Programs, entered \subseteq Functions
  PROVE  /\ IsFiniteSet(entered) /\ Cardinality(entered) \in Nat
         /\ Cardinality(entered) <= Cardinality(Functions)
         /\ entered # Functions => Cardinality(entered) < Cardinality(Functions)
<1>1. IsFiniteSet(Functions) /\ Cardinality(Functions) \in Nat
  BY FunctionsFinite
<1>2. IsFiniteSet(entered) /\ Cardinality(entered) <= Cardinality(Functions)
      /\ (Cardinality(entered) = Cardinality(Functions) => entered = Functions)
  BY <1>1, FS_Subset
<1>3. Cardinality(entered) \in Nat
  BY <1>2, FS_CardinalityType
<1> QED
  BY <1>1, <1>2, <1>3

\* Only functions of the user image are served by the kernel's.
LEMMA UserCalls ==
  ASSUME MapTyped, Made, ImagesApart, Busy, KernelTarget(NextCall) # {}
  PROVE  stack[1].image # "kernel"
<1>1. NextCall \in CallsAt(<<stack[1].image, stack[1].rva>>)
  BY MadeHere DEF PlaceOf
<1>2. stack[1].image \in Images
  BY TopTyped, LevelFields
<1> QED
  BY <1>1, <1>2, Apart

LEMMA LedgerAdvance ==
  ASSUME MapTyped, Ledger, NEW nodes, Advances(nodes), calls' = calls, request' = request,
         entered' = entered
  PROVE  Ledger'
<1>1. Len(stack') = Len(stack) /\ stack'[1].image = stack[1].image
  BY AdvanceLevels DEF SameLevel
<1>2. Functions' = Functions
  BY Frame
<1> QED
  BY <1>1, <1>2 DEF Ledger

LEMMA LedgerExpand ==
  ASSUME MapTyped, Ledger, NEW rva \in Nat, Opens(stack[1].image, rva), stack[1].image \in Images,
         calls' = calls, request' = request,
         rva \notin entered, entered' = entered \cup {rva}, rva \in DOMAIN CodeOf(stack[1].image)
  PROVE  Ledger'
<1>1. /\ Len(stack) \in Nat \ {0} /\ Len(stack') = Len(stack) + 1
      /\ stack'[1].image = stack[1].image
  BY OpenLevels
<1>2. Functions' = Functions
  BY Frame
<1>3. entered' \subseteq Functions
  BY DEF Ledger, Functions, CodeOf
<1>4. /\ Cardinality(entered) \in Nat /\ Cardinality(entered') = Cardinality(entered) + 1
  <2>1. IsFiniteSet(entered) /\ Cardinality(entered) \in Nat
    BY EnteredFinite DEF MapTyped, Ledger
  <2> QED
    BY <2>1, FS_AddElement
<1> QED
  BY <1>1, <1>2, <1>3, <1>4 DEF Ledger

LEMMA LedgerKernel ==
  ASSUME MapTyped, Made, Ledger, ImagesApart, NEW rva \in KernelTarget(NextCall),
         Opens("kernel", rva), rva \in Nat, calls' = calls, request' = request, entered' = entered
  PROVE  Ledger'
<1>0. "kernel" \in Images
  BY DEF Images
<1>1. /\ Len(stack) \in Nat \ {0} /\ Len(stack') = Len(stack) + 1
      /\ stack'[1].image = "kernel"
  BY <1>0, OpenLevels
<1>2. Functions' = Functions
  BY Frame
<1>3. stack[1].image # "kernel"
  BY UserCalls DEF Opens
<1>4. Cardinality(entered) \in Nat
  BY EnteredFinite DEF MapTyped, Ledger
<1> QED
  BY <1>1, <1>2, <1>3, <1>4 DEF Ledger

LEMMA LedgerClose ==
  ASSUME MapTyped, Ledger, NEW nodes, Closes(nodes), calls' = calls, request' = request,
         entered' = entered
  PROVE  Ledger'
<1>1. Len(stack) \in Nat \ {0, 1} /\ Len(stack') = Len(stack) - 1
  BY CloseLevels
<1>2. Functions' = Functions
  BY Frame
<1>3. Cardinality(entered) \in Nat
  BY EnteredFinite DEF MapTyped, Ledger
<1>4. Len(stack') <= Cardinality(entered)
  BY <1>1, <1>3 DEF Ledger
<1> QED
  BY <1>1, <1>2, <1>3, <1>4 DEF Ledger

\* A depth of more than the number of functions cuts nothing.
LEMMA NotCut ==
  ASSUME MapTyped, Nested, Made, Ledger, ImagesApart, Busy,
         request.depth > Cardinality(Functions),
         \/ NextCall.kind = "internal" /\ NextCall.to \notin entered
            /\ NextCall.to \in DOMAIN CodeOf(stack[1].image)
         \/ KernelTarget(NextCall) # {}
  PROVE  Descends
<1>1. /\ Top = stack[1] /\ Len(stack) \in Nat \ {0} /\ stack[1].depth \in Nat
      /\ stack[1].depth + 1 = Len(stack) /\ stack[1].image \in Images
  <2>1. Top = stack[1] /\ Len(stack) \in Nat \ {0} /\ stack[1] \in LevelTypes
    BY TopTyped
  <2> QED
    BY <2>1, LevelFields DEF Nested
<1>2. /\ Cardinality(entered) \in Nat /\ Cardinality(Functions) \in Nat
      /\ Cardinality(entered) <= Cardinality(Functions)
      /\ entered # Functions => Cardinality(entered) < Cardinality(Functions)
  BY EnteredFinite, FunctionsFinite DEF MapTyped, Ledger
<1>3. request.depth \in Nat
  BY DEF MapTyped
<1>4. CASE KernelTarget(NextCall) # {}
  <2>1. stack[1].image # "kernel"
    BY <1>4, UserCalls
  <2> QED
    BY <1>1, <1>2, <1>3, <2>1 DEF Ledger, Descends
<1>5. CASE NextCall.to \notin entered /\ NextCall.to \in DOMAIN CodeOf(stack[1].image)
  <2>1. NextCall.to \in Functions
    BY <1>5 DEF CodeOf, Functions
  <2>2. Cardinality(entered) < Cardinality(Functions)
    BY <1>2, <1>5, <2>1
  <2> QED
    BY <1>1, <1>2, <1>3, <2>2 DEF Ledger, Descends
<1> QED
  BY <1>4, <1>5

-----------------------------------------------------------------------------
(* What is in the tree stays in it.                                         *)

LEMMA HasAdded ==
  ASSUME NEW before \in Seq(TreeNodes), NEW after, NEW children \in Seq(TreeNodes),
         NEW lvl, NEW c, NEW above \in BOOLEAN,
         NodeAdded(before, after, lvl, c, children, above)
  PROVE  /\ \A image, d : Has(before, image, d) \/ Has(children, image, d) => Has(after, image, d)
         /\ Matches(c) => Has(after, lvl.image, c)
<1>1. CASE after = before /\ children = << >> /\ ~ Matches(c)
  BY <1>1 DEF Has
<1>2. ASSUME NEW unbuilt \in Nat,
             after = before \o <<CallNode(c, lvl, unbuilt, above)>> \o children
      PROVE  /\ \A image, d : Has(before, image, d) \/ Has(children, image, d) => Has(after, image, d)
             /\ Has(after, lvl.image, c)
  <2> PICK node : node = CallNode(c, lvl, unbuilt, above)
    OBVIOUS
  <2>1. node.call = c /\ node.image = lvl.image
    BY DEF CallNode
  <2>2. /\ Len(before) \in Nat /\ Len(children) \in Nat
        /\ Len(after) = Len(before) + 1 + Len(children)
        /\ \A k \in 1 .. Len(before) : after[k] = before[k]
        /\ after[Len(before) + 1] = node
        /\ \A k \in 1 .. Len(children) : after[Len(before) + 1 + k] = children[k]
    BY <1>2
  <2>3. ASSUME NEW image, NEW d, Has(before, image, d) PROVE Has(after, image, d)
    <3>1. PICK k \in 1 .. Len(before) : before[k].call = d /\ before[k].image = image
      BY <2>3 DEF Has
    <3>2. k \in 1 .. Len(after) /\ after[k] = before[k]
      BY <2>2
    <3> QED
      BY <3>1, <3>2 DEF Has
  <2>4. ASSUME NEW image, NEW d, Has(children, image, d) PROVE Has(after, image, d)
    <3>1. PICK k \in 1 .. Len(children) : children[k].call = d /\ children[k].image = image
      BY <2>4 DEF Has
    <3>2. PICK j \in Nat : j = Len(before) + 1 + k
      BY <2>2
    <3>3. j \in 1 .. Len(after) /\ after[j] = children[k]
      BY <2>2, <3>2
    <3> QED
      BY <3>1, <3>3 DEF Has
  <2>5. Has(after, lvl.image, c)
    <3>1. PICK j \in Nat : j = Len(before) + 1
      BY <2>2
    <3>2. j \in 1 .. Len(after) /\ after[j] = node
      BY <2>2, <3>1
    <3> QED
      BY <2>1, <3>2 DEF Has
  <2> QED
    BY <2>3, <2>4, <2>5
<1> QED
  BY <1>1, <1>2 DEF NodeAdded

LEMMA KeptAdvance ==
  ASSUME MapTyped, NEW nodes, Advances(nodes),
         \A image, d : Has(stack[1].nodes, image, d) => Has(nodes, image, d)
  PROVE  /\ \A image, d : Kept(image, d) => Kept(image, d)'
         /\ \A image, d : Has(nodes, image, d) => Kept(image, d)'
<1>1. /\ Len(stack) \in Nat \ {0} /\ Len(stack') = Len(stack) /\ stack'[1].nodes = nodes
      /\ \A i \in 2 .. Len(stack) : stack'[i] = stack[i]
  BY AdvanceLevels
<1>2. ASSUME NEW image, NEW d, NEW i \in 1 .. Len(stack), Has(stack[i].nodes, image, d)
      PROVE  Has(stack'[i].nodes, image, d)
  <2>1. CASE i = 1
    BY <1>1, <1>2, <2>1
  <2>2. CASE i # 1
    <3>1. stack'[i] = stack[i]
      BY <1>1, <2>2
    <3> QED
      BY <1>2, <3>1
  <2> QED
    BY <2>1, <2>2
<1>3. 1 \in 1 .. Len(stack')
  BY <1>1
<1> QED
  BY <1>1, <1>2, <1>3 DEF Kept

LEMMA KeptOpen ==
  ASSUME MapTyped, NEW image \in Images, NEW rva \in Nat, Opens(image, rva)
  PROVE  \A i, d : Kept(i, d) => Kept(i, d)'
<1>1. /\ Len(stack) \in Nat \ {0} /\ Len(stack') = Len(stack) + 1
      /\ \A i \in 2 .. Len(stack') : stack'[i].nodes = stack[i - 1].nodes
  BY OpenLevels
<1>2. ASSUME NEW other, NEW d, NEW i \in 1 .. Len(stack), Has(stack[i].nodes, other, d)
      PROVE  \E j \in 1 .. Len(stack') : Has(stack'[j].nodes, other, d)
  <2>1. i + 1 \in 2 .. Len(stack') /\ i + 1 - 1 = i /\ i + 1 \in 1 .. Len(stack')
    BY <1>1
  <2>2. stack'[i + 1].nodes = stack[i + 1 - 1].nodes
    BY <1>1, <2>1
  <2>3. stack'[i + 1].nodes = stack[i].nodes
    BY <2>1, <2>2
  <2> QED
    BY <1>2, <2>1, <2>3
<1> QED
  BY <1>2 DEF Kept

LEMMA KeptClose ==
  ASSUME MapTyped, NEW nodes, Closes(nodes),
         \A image, d : Has(stack[2].nodes, image, d) \/ Has(stack[1].nodes, image, d)
                         => Has(nodes, image, d)
  PROVE  /\ \A image, d : Kept(image, d) => Kept(image, d)'
         /\ \A image, d : Has(nodes, image, d) => Kept(image, d)'
<1>1. /\ Len(stack) \in Nat \ {0, 1} /\ Len(stack') = Len(stack) - 1 /\ stack'[1].nodes = nodes
      /\ \A i \in 2 .. Len(stack') : stack'[i] = stack[i + 1]
  BY CloseLevels
<1>2. 1 \in 1 .. Len(stack')
  BY <1>1
<1>3. ASSUME NEW image, NEW d, NEW i \in 1 .. Len(stack), Has(stack[i].nodes, image, d)
      PROVE  \E j \in 1 .. Len(stack') : Has(stack'[j].nodes, image, d)
  <2>1. CASE i \in {1, 2}
    BY <1>1, <1>2, <1>3, <2>1
  <2>2. CASE i \notin {1, 2}
    <3>1. /\ i - 1 \in 2 .. Len(stack') /\ i - 1 + 1 = i /\ i - 1 \in 1 .. Len(stack')
      BY <1>1, <2>2
    <3>2. stack'[i - 1] = stack[i - 1 + 1]
      BY <1>1, <3>1
    <3>3. stack'[i - 1] = stack[i]
      BY <3>1, <3>2
    <3> QED
      BY <1>3, <3>1, <3>3
  <2> QED
    BY <2>1, <2>2
<1> QED
  BY <1>1, <1>2, <1>3 DEF Kept

LEMMA SeenStays ==
  ASSUME calls' = calls, request' = request, entered \subseteq entered',
         \A image, d : Kept(image, d) => Kept(image, d)'
  PROVE  /\ \A f, c : Seen(f, c) => Seen(f, c)'
         /\ \A f, c : Served(f, c) => Served(f, c)'
<1>1. ASSUME NEW f, NEW c, Seen(f, c) PROVE Seen(f, c)'
  <2>1. /\ (Excludes(c)' <=> Excludes(c)) /\ (Matches(c)' <=> Matches(c))
        /\ CodeOf(f[1])' = CodeOf(f[1])
    BY Frame
  <2>2. Kept(f[1], c) => Kept(f[1], c)'
    OBVIOUS
  <2> QED
    BY <1>1, <2>1, <2>2 DEF Seen
<1>2. ASSUME NEW f, NEW c, Served(f, c) PROVE Served(f, c)'
  <2>1. /\ (Excludes(c)' <=> Excludes(c)) /\ KernelTarget(c)' = KernelTarget(c)
        /\ \A g : CallsAt(g)' = CallsAt(g)
    BY Frame
  <2> QED
    BY <1>1, <1>2, <2>1 DEF Served
<1> QED
  BY <1>1, <1>2

-----------------------------------------------------------------------------
(* What is passed is served.                                                *)

LEMMA ProgressAdvance ==
  ASSUME MapTyped, Progress, NEW nodes, Advances(nodes), calls' = calls, request' = request,
         entered' = entered, \A image, d : Kept(image, d) => Kept(image, d)',
         NEW f, f = PlaceOf(stack[1]), NEW c, c = NextCall, Served(f, c)'
  PROVE  Progress'
<1>1. /\ Len(stack) \in Nat \ {0} /\ Len(stack') = Len(stack)
      /\ \A i \in 1 .. Len(stack) : PlaceOf(stack'[i]) = PlaceOf(stack[i])
      /\ \A i \in 1 .. Len(stack) : stack'[i].call = stack[i].call
      /\ \A i \in 2 .. Len(stack) : Left(stack'[i]) = Left(stack[i])
      /\ Left(stack[1]) = Left(stack'[1]) \cup {c}
  BY AdvanceLevels DEF SameLevel
<1>2. \A g : CallsAt(g)' = CallsAt(g)
  BY Frame
<1>3. \A g, d : Served(g, d) => Served(g, d)'
  BY SeenStays
<1>4. ASSUME NEW i \in 1 .. Len(stack'), NEW d \in CallsAt(PlaceOf(stack[i]))'
      PROVE  \/ d \in Left(stack[i])' \/ (i > 1 /\ d = stack'[i - 1].call)
             \/ Served(PlaceOf(stack[i]), d)'
  <2> PICK g : g = PlaceOf(stack[i])
    OBVIOUS
  <2>1. g = PlaceOf(stack'[i]) /\ i \in 1 .. Len(stack)
    BY <1>1
  <2>2. d \in CallsAt(g)
    BY <1>2, <2>1
  <2>3. d \in Left(stack[i]) \/ (i > 1 /\ d = stack[i - 1].call) \/ Served(g, d)
    BY <2>1, <2>2 DEF Progress
  <2>4. CASE d \in Left(stack[i]) /\ i = 1 /\ d = c
    BY <2>1, <2>4
  <2>5. CASE d \in Left(stack[i]) /\ ~ (i = 1 /\ d = c)
    <3>1. d \in Left(stack'[i])
      BY <1>1, <2>1, <2>5
    <3> QED
      BY <3>1
  <2>6. CASE i > 1 /\ d = stack[i - 1].call
    <3>1. i - 1 \in 1 .. Len(stack)
      BY <1>1, <2>6
    <3> QED
      BY <1>1, <2>6, <3>1
  <2>7. CASE Served(g, d)
    BY <1>3, <2>1, <2>7
  <2> QED
    BY <2>3, <2>4, <2>5, <2>6, <2>7
<1>5. ASSUME NEW image \in Images, NEW rva \in entered' \cap DOMAIN CodeOf(image)'
      PROVE  \/ OnStack(<<image, rva>>)'
             \/ \A d \in CallsAt(<<image, rva>>)' : Served(<<image, rva>>, d)'
  <2>1. rva \in entered \cap DOMAIN CodeOf(image)
    BY Frame
  <2>2. CASE OnStack(<<image, rva>>)
    BY <1>1, <2>2 DEF OnStack
  <2>3. CASE \A d \in CallsAt(<<image, rva>>) : Served(<<image, rva>>, d)
    BY <1>2, <1>3, <2>3
  <2> QED
    BY <2>1, <2>2, <2>3 DEF Progress
<1> QED
  BY <1>4, <1>5 DEF Progress

LEMMA ProgressOpen ==
  ASSUME MapTyped, Progress, NEW image \in Images, NEW rva \in Nat, Opens(image, rva),
         calls' = calls, request' = request, request.filter,
         entered \subseteq entered', entered' \subseteq entered \cup {rva},
         rva \in entered \/ entered' = entered
           \/ \A other \in Images : rva \in DOMAIN CodeOf(other) => other = image
  PROVE  Progress'
<1>1. /\ Len(stack) \in Nat \ {0} /\ Len(stack') = Len(stack) + 1
      /\ \A i \in 2 .. Len(stack') : PlaceOf(stack'[i]) = PlaceOf(stack[i - 1])
      /\ \A i \in 2 .. Len(stack') : stack'[i].call = stack[i - 1].call
      /\ \A i \in 3 .. Len(stack') : Left(stack'[i]) = Left(stack[i - 1])
      /\ Left(stack[1]) = Left(stack'[2]) \cup {NextCall} /\ stack'[1].call = NextCall
      /\ Left(stack'[1]) = CallsAt(<<image, rva>>) /\ PlaceOf(stack'[1]) = <<image, rva>>
  BY OpenLevels DEF SameLevel
<1>2. /\ \A g : CallsAt(g)' = CallsAt(g)
      /\ \A other : CodeOf(other)' = CodeOf(other)
  BY Frame
<1>3. \A g, d : Served(g, d) => Served(g, d)'
  BY SeenStays, KeptOpen
<1>4. ASSUME NEW i \in 1 .. Len(stack'), NEW d \in CallsAt(PlaceOf(stack[i]))'
      PROVE  \/ d \in Left(stack[i])' \/ (i > 1 /\ d = stack'[i - 1].call)
             \/ Served(PlaceOf(stack[i]), d)'
  <2>1. PICK g : g = PlaceOf(stack'[i])
    OBVIOUS
  <2>2. d \in CallsAt(g)
    BY <1>2, <2>1
  <2>3. CASE i = 1
    BY <1>1, <2>1, <2>2, <2>3
  <2>4. CASE i # 1
    <3>1. /\ i - 1 \in 1 .. Len(stack) /\ i \in 2 .. Len(stack')
          /\ (i # 2 => i \in 3 .. Len(stack') /\ i - 1 \in 2 .. Len(stack'))
      BY <1>1, <2>4
    <3>2. g = PlaceOf(stack[i - 1])
      BY <1>1, <2>1, <3>1
    <3>3. \/ d \in Left(stack[i - 1]) \/ (i - 1 > 1 /\ d = stack[i - 1 - 1].call)
          \/ Served(g, d)
      BY <2>2, <3>1, <3>2 DEF Progress
    <3>4. CASE Served(g, d)
      BY <1>3, <2>1, <3>4
    <3>5. CASE i - 1 > 1 /\ d = stack[i - 1 - 1].call
      <4>1. stack'[i - 1].call = stack[i - 1 - 1].call
        BY <1>1, <3>1, <3>5
      <4> QED
        BY <2>4, <3>1, <3>5, <4>1
    <3>6. CASE d \in Left(stack[i - 1]) /\ i = 2
      <4>1. i - 1 = 1 /\ i > 1
        BY <3>6
      <4>2. d \in Left(stack'[2]) \/ d = stack'[1].call
        BY <1>1, <3>6, <4>1
      <4> QED
        BY <3>6, <4>1, <4>2
    <3>7. CASE d \in Left(stack[i - 1]) /\ i # 2
      <4>1. Left(stack'[i]) = Left(stack[i - 1])
        BY <1>1, <3>1, <3>7
      <4> QED
        BY <3>7, <4>1
    <3> QED
      BY <3>3, <3>4, <3>5, <3>6, <3>7
  <2> QED
    BY <2>3, <2>4
<1>5. ASSUME NEW other \in Images, NEW r \in entered' \cap DOMAIN CodeOf(other)'
      PROVE  \/ OnStack(<<other, r>>)'
             \/ \A d \in CallsAt(<<other, r>>)' : Served(<<other, r>>, d)'
  <2>0. r \in DOMAIN CodeOf(other)
    BY <1>2
  <2>1. CASE r \in entered /\ OnStack(<<other, r>>)
    <3>1. PICK i \in 1 .. Len(stack) : PlaceOf(stack[i]) = <<other, r>>
      BY <2>1 DEF OnStack
    <3>2. i + 1 \in 2 .. Len(stack') /\ i + 1 - 1 = i /\ i + 1 \in 1 .. Len(stack')
      BY <1>1
    <3>3. PlaceOf(stack'[i + 1]) = PlaceOf(stack[i + 1 - 1])
      BY <1>1, <3>2
    <3>4. PlaceOf(stack'[i + 1]) = <<other, r>>
      BY <3>1, <3>2, <3>3
    <3> QED
      BY <3>2, <3>4 DEF OnStack
  <2>2. CASE r \in entered /\ \A d \in CallsAt(<<other, r>>) : Served(<<other, r>>, d)
    BY <1>2, <1>3, <2>2
  <2>3. CASE r \notin entered
    <3>1. r = rva /\ other = image
      BY <2>0, <2>3
    <3>2. 1 \in 1 .. Len(stack') /\ PlaceOf(stack'[1]) = <<other, r>>
      BY <1>1, <3>1
    <3> QED
      BY <3>2 DEF OnStack
  <2> QED
    BY <2>0, <2>1, <2>2, <2>3 DEF Progress
<1> QED
  BY <1>4, <1>5 DEF Progress

LEMMA ProgressClose ==
  ASSUME MapTyped, Progress, NEW nodes, Closes(nodes), calls' = calls, request' = request,
         entered' = entered, \A image, d : Kept(image, d) => Kept(image, d)',
         NEW f, f = PlaceOf(stack[2]), NEW c, c = stack[1].call, Served(f, c)'
  PROVE  Progress'
<1>1. /\ Len(stack) \in Nat \ {0, 1} /\ Len(stack') = Len(stack) - 1
      /\ \A i \in 1 .. Len(stack') : PlaceOf(stack'[i]) = PlaceOf(stack[i + 1])
      /\ \A i \in 1 .. Len(stack') : stack'[i].call = stack[i + 1].call
      /\ \A i \in 1 .. Len(stack') : Left(stack'[i]) = Left(stack[i + 1])
      /\ Left(stack[1]) = {}
  BY CloseLevels DEF SameLevel
<1>2. /\ \A g : CallsAt(g)' = CallsAt(g)
      /\ \A other : CodeOf(other)' = CodeOf(other)
  BY Frame
<1>3. \A g, d : Served(g, d) => Served(g, d)'
  BY SeenStays
<1>4. ASSUME NEW i \in 1 .. Len(stack'), NEW d \in CallsAt(PlaceOf(stack[i]))'
      PROVE  \/ d \in Left(stack[i])' \/ (i > 1 /\ d = stack'[i - 1].call)
             \/ Served(PlaceOf(stack[i]), d)'
  <2>1. PICK g : g = PlaceOf(stack'[i])
    OBVIOUS
  <2>2. /\ i + 1 \in 1 .. Len(stack) /\ i + 1 > 1 /\ i + 1 - 1 = i
        /\ (i # 1 => i - 1 \in 1 .. Len(stack') /\ i - 1 + 1 = i /\ i > 1)
    BY <1>1
  <2>3. d \in CallsAt(g) /\ g = PlaceOf(stack[i + 1])
    BY <1>1, <1>2, <2>1
  <2>4. \/ d \in Left(stack[i + 1]) \/ d = stack[i + 1 - 1].call \/ Served(g, d)
    BY <2>2, <2>3 DEF Progress
  <2>5. CASE d \in Left(stack[i + 1])
    BY <1>1, <2>5
  <2>6. CASE d = stack[i + 1 - 1].call /\ i = 1
    <3>1. d = c /\ g = f
      BY <2>2, <2>3, <2>6
    <3> QED
      BY <2>1, <3>1
  <2>7. CASE d = stack[i + 1 - 1].call /\ i # 1
    <3>1. d = stack[i].call
      BY <2>2, <2>7
    <3>2. stack'[i - 1].call = stack[i - 1 + 1].call
      BY <1>1, <2>2, <2>7
    <3> QED
      BY <2>2, <2>7, <3>1, <3>2
  <2>8. CASE Served(g, d)
    BY <1>3, <2>1, <2>8
  <2> QED
    BY <2>4, <2>5, <2>6, <2>7, <2>8
<1>5. ASSUME NEW other \in Images, NEW r \in entered' \cap DOMAIN CodeOf(other)'
      PROVE  \/ OnStack(<<other, r>>)'
             \/ \A d \in CallsAt(<<other, r>>)' : Served(<<other, r>>, d)'
  <2>0. r \in entered /\ r \in DOMAIN CodeOf(other)
    BY <1>2
  <2>1. CASE \A d \in CallsAt(<<other, r>>) : Served(<<other, r>>, d)
    BY <1>2, <1>3, <2>1
  <2>2. CASE PlaceOf(stack[1]) = <<other, r>>
    <3>1. \A d \in CallsAt(PlaceOf(stack[1])) : Served(PlaceOf(stack[1]), d)
      <4>1. 1 \in 1 .. Len(stack) /\ ~ (1 > 1)
        BY <1>1
      <4> QED
        BY <1>1, <4>1 DEF Progress
    <3>2. \A d \in CallsAt(<<other, r>>) : Served(<<other, r>>, d)
      BY <2>2, <3>1
    <3> QED
      BY <2>1, <3>2
  <2>3. ASSUME NEW i \in 1 .. Len(stack), i # 1, PlaceOf(stack[i]) = <<other, r>>
        PROVE  OnStack(<<other, r>>)'
    <3>1. i - 1 \in 1 .. Len(stack') /\ i - 1 + 1 = i
      BY <1>1, <2>3
    <3>2. PlaceOf(stack'[i - 1]) = PlaceOf(stack[i - 1 + 1])
      BY <1>1, <3>1
    <3>3. PlaceOf(stack'[i - 1]) = <<other, r>>
      BY <2>3, <3>1, <3>2
    <3> QED
      BY <3>1, <3>3 DEF OnStack
  <2>4. OnStack(<<other, r>>) \/ \A d \in CallsAt(<<other, r>>) : Served(<<other, r>>, d)
    BY <2>0 DEF Progress
  <2> QED
    BY <2>1, <2>2, <2>3, <2>4 DEF OnStack
<1> QED
  BY <1>4, <1>5 DEF Progress

-----------------------------------------------------------------------------
(* What the nodes of a filtered tree are for.                               *)

LEMMA Joined ==
  ASSUME NEW before \in Seq(TreeNodes), NEW children \in Seq(TreeNodes),
         NEW node \in TreeNodes, NEW after, after = before \o <<node>> \o children
  PROVE  /\ after \in Seq(TreeNodes) /\ Len(before) \in Nat /\ Len(children) \in Nat
         /\ Len(after) = Len(before) + 1 + Len(children)
         /\ \A k \in 1 .. Len(before) : after[k] = before[k]
         /\ after[Len(before) + 1] = node
         /\ \A k \in 1 .. Len(children) : after[Len(before) + 1 + k] = children[k]
OBVIOUS

\* A node keeps its children when nodes are added after it.
LEMMA ChildrenStay ==
  ASSUME NEW before \in Seq(TreeNodes), NEW after \in Seq(TreeNodes), Len(before) <= Len(after),
         \A k \in 1 .. Len(before) : after[k] = before[k],
         NEW k \in 1 .. Len(before), HasChildren(before, k)
  PROVE  HasChildren(after, k)
<1>1. k < Len(before) /\ Len(before) \in Nat /\ Len(after) \in Nat /\ k \in Nat
  BY DEF HasChildren
<1>2. k + 1 \in 1 .. Len(before) /\ k < Len(after)
  BY <1>1
<1>3. after[k + 1] = before[k + 1] /\ after[k] = before[k]
  BY <1>2
<1> QED
  BY <1>2, <1>3 DEF HasChildren

\* And when nodes are put before it.
LEMMA ChildrenMove ==
  ASSUME NEW children \in Seq(TreeNodes), NEW after \in Seq(TreeNodes), NEW n \in Nat,
         Len(after) = n + Len(children),
         \A k \in 1 .. Len(children) : after[n + k] = children[k],
         NEW k \in 1 .. Len(children), HasChildren(children, k)
  PROVE  HasChildren(after, n + k)
<1>1. k < Len(children) /\ Len(children) \in Nat /\ k \in Nat
  BY DEF HasChildren
<1>2. k + 1 \in 1 .. Len(children) /\ n + k < Len(after) /\ n + (k + 1) = n + k + 1
  BY <1>1
<1>3. after[n + (k + 1)] = children[k + 1] /\ after[n + k] = children[k]
  BY <1>2
<1>4. after[n + k + 1] = children[k + 1]
  BY <1>2, <1>3
<1> QED
  BY <1>2, <1>3, <1>4 DEF HasChildren

\* The lists of a level before and after a call, index by index: n nodes come
\* before the children.
Grown(before, after, lvl, c, children, above, n) ==
  /\ after \in Seq(TreeNodes) /\ Len(before) <= Len(after)
  /\ \A k \in 1 .. Len(before) : after[k] = before[k]
  /\ Len(after) = n + Len(children) /\ Len(before) <= n
  /\ \A k \in 1 .. Len(children) : after[n + k] = children[k]
  /\ \/ n = Len(before) /\ children = << >>
     \/ /\ n = Len(before) + 1 /\ n \in 1 .. Len(after)
        /\ after[n].call = c /\ after[n].image = lvl.image
        /\ after[n].depth = lvl.depth
        /\ Matches(c) \/ HasChildren(after, n) \/ after[n].above
        /\ children # << >> => HasChildren(after, n)
        /\ after[n].above = above

LEMMA Added ==
  ASSUME NEW before \in Seq(TreeNodes), NEW children \in Seq(TreeNodes), NEW after,
         NEW lvl \in LevelTypes, NEW c \in ApiCalls, NEW above \in BOOLEAN,
         NodeAdded(before, after, lvl, c, children, above),
         children # << >> => children[1].depth > lvl.depth
  PROVE  \E n \in Nat : Grown(before, after, lvl, c, children, above, n)
<1>1. CASE after = before /\ children = << >> /\ ~ Matches(c)
  <2>1. Len(before) \in Nat /\ Len(children) = 0 /\ Len(after) = Len(before) + Len(children)
    BY <1>1
  <2>2. \A k \in 1 .. Len(children) : after[Len(before) + k] = children[k]
    BY <2>1
  <2>3. Grown(before, after, lvl, c, children, above, Len(before))
    BY <1>1, <2>1, <2>2 DEF Grown
  <2> QED
    BY <2>1, <2>3
<1>2. ASSUME NEW unbuilt \in Nat,
             after = before \o <<CallNode(c, lvl, unbuilt, above)>> \o children,
             Matches(c) \/ children # << >> \/ above
      PROVE  \E n \in Nat : Grown(before, after, lvl, c, children, above, n)
  <2>1. lvl.image \in Images /\ lvl.depth \in Nat
    BY LevelFields
  <2>2. PICK node \in TreeNodes : node = CallNode(c, lvl, unbuilt, above)
    BY <2>1 DEF CallNode, TreeNodes
  <2>3. /\ node.call = c /\ node.image = lvl.image /\ node.depth = lvl.depth
        /\ node.above = above
    BY <2>2 DEF CallNode
  <2>4. after = before \o <<node>> \o children
    BY <1>2, <2>2
  <2>5. /\ after \in Seq(TreeNodes) /\ Len(before) \in Nat /\ Len(children) \in Nat
        /\ Len(after) = Len(before) + 1 + Len(children)
        /\ \A k \in 1 .. Len(before) : after[k] = before[k]
        /\ after[Len(before) + 1] = node
        /\ \A k \in 1 .. Len(children) : after[Len(before) + 1 + k] = children[k]
    BY <2>4, Joined
  <2>6. PICK n \in Nat : n = Len(before) + 1
    BY <2>5
  <2>7. /\ Len(after) = n + Len(children) /\ Len(before) <= n /\ n \in 1 .. Len(after)
        /\ after[n] = node /\ \A k \in 1 .. Len(children) : after[n + k] = children[k]
        /\ Len(before) <= Len(after)
    BY <2>5, <2>6
  <2>8. ASSUME children # << >> PROVE HasChildren(after, n)
    <3>1. 1 \in 1 .. Len(children) /\ n < Len(after)
      BY <2>5, <2>7, <2>8
    <3>2. after[n + 1] = children[1]
      BY <2>7, <3>1
    <3>3. after[n + 1].depth > after[n].depth
      BY <2>3, <2>7, <2>8, <3>2
    <3> QED
      BY <3>1, <3>3 DEF HasChildren
  <2>9. /\ Matches(c) \/ HasChildren(after, n) \/ after[n].above
        /\ after[n].above = above
    BY <1>2, <2>3, <2>7, <2>8
  <2>10. after[n].call = c /\ after[n].image = lvl.image /\ after[n].depth = lvl.depth
    BY <2>3, <2>7
  <2>11. Grown(before, after, lvl, c, children, above, n)
    BY <2>5, <2>6, <2>7, <2>8, <2>9, <2>10 DEF Grown
  <2> QED
    BY <2>11
<1>3. CASE /\ \E unbuilt \in Nat :
                 after = before \o <<CallNode(c, lvl, unbuilt, above)>> \o children
           /\ Matches(c) \/ children # << >> \/ above
  BY <1>2, <1>3
<1> QED
  BY <1>1, <1>3 DEF NodeAdded

FineList(nodes, depth) ==
  /\ nodes # << >> => nodes[1].depth = depth
  /\ \A k \in 1 .. Len(nodes) : Fine(nodes, k)

LEMMA FineAdded ==
  ASSUME NEW before \in Seq(TreeNodes), NEW children \in Seq(TreeNodes), NEW after,
         NEW lvl \in LevelTypes, NEW c \in ApiCalls, NEW above \in BOOLEAN,
         NodeAdded(before, after, lvl, c, children, above),
         NEW depth, depth > lvl.depth, FineList(children, depth), FineList(before, lvl.depth),
         ~ c.out /\ (Matches(c) => c.match)
  PROVE  FineList(after, lvl.depth)
<1> USE DEF FineList
<1>0. PICK n \in Nat : Grown(before, after, lvl, c, children, above, n)
  BY Added
<1>1. /\ after \in Seq(TreeNodes) /\ Len(before) <= Len(after)
      /\ \A k \in 1 .. Len(before) : after[k] = before[k]
  BY <1>0 DEF Grown
<1>2. /\ Len(after) = n + Len(children) /\ Len(before) <= n
      /\ \A k \in 1 .. Len(children) : after[n + k] = children[k]
      /\ \/ n = Len(before) /\ children = << >>
         \/ /\ n = Len(before) + 1 /\ n \in 1 .. Len(after)
            /\ after[n].call = c /\ after[n].image = lvl.image
            /\ after[n].depth = lvl.depth
            /\ Matches(c) \/ HasChildren(after, n) \/ after[n].above
  BY <1>0 DEF Grown
<1>3. Len(before) \in Nat /\ Len(children) \in Nat /\ Len(after) \in Nat
  BY <1>1
<1>4. ASSUME NEW k \in 1 .. Len(before) PROVE Fine(after, k)
  <2>1. Fine(before, k) /\ after[k] = before[k]
    BY <1>1
  <2>2. HasChildren(before, k) => HasChildren(after, k)
    BY <1>1, ChildrenStay
  <2> QED
    BY <2>1, <2>2 DEF Fine
<1>5. ASSUME NEW k \in 1 .. Len(children) PROVE Fine(after, n + k)
  <2>1. Fine(children, k) /\ after[n + k] = children[k]
    BY <1>2
  <2>2. HasChildren(children, k) => HasChildren(after, n + k)
    <3>1. /\ Len(after) = n + Len(children)
          /\ \A j \in 1 .. Len(children) : after[n + j] = children[j]
      BY <1>2
    <3> QED
      BY <1>1, <3>1, ChildrenMove
  <2> QED
    BY <2>1, <2>2 DEF Fine
<1>6. ASSUME n # Len(before) PROVE Fine(after, n)
  <2>1. after[n].call = c /\ (Matches(c) \/ HasChildren(after, n) \/ after[n].above)
    BY <1>2, <1>6
  <2> QED
    BY <2>1 DEF Fine
<1>7. ASSUME NEW k \in 1 .. Len(after) PROVE Fine(after, k)
  <2>1. CASE k <= Len(before)
    BY <1>3, <1>4, <2>1
  <2>2. CASE k > n
    <3>1. PICK j \in Nat : j = k - n
      BY <2>2
    <3>2. j \in 1 .. Len(children) /\ k = n + j
      BY <1>2, <1>3, <2>2, <3>1
    <3> QED
      BY <1>5, <3>2
  <2>3. CASE k > Len(before) /\ k <= n
    <3>1. (n = Len(before) \/ n = Len(before) + 1) /\ Len(before) <= n
      BY <1>2
    <3>2. k = n /\ n # Len(before)
      BY <1>3, <2>3, <3>1
    <3> QED
      BY <1>6, <3>2
  <2> QED
    BY <1>3, <2>1, <2>2, <2>3
<1>8. ASSUME after # << >> PROVE after[1].depth = lvl.depth
  <2>1. CASE before # << >>
    <3>1. 1 \in 1 .. Len(before)
      BY <1>3, <2>1
    <3> QED
      BY <1>1, <2>1, <3>1
  <2>2. CASE before = << >>
    <3>1. Len(before) = 0 /\ Len(after) # 0
      BY <1>1, <1>8, <2>2
    <3>2. n # Len(before)
      BY <1>2, <1>3, <3>1
    <3>3. n = 1 /\ after[n].depth = lvl.depth
      BY <1>2, <3>1, <3>2
    <3> QED
      BY <3>3
  <2> QED
    BY <2>1, <2>2
<1> QED
  BY <1>7, <1>8

LEMMA ShownAdded ==
  ASSUME NEW before \in Seq(TreeNodes), NEW after \in Seq(TreeNodes), Len(before) <= Len(after),
         \A k \in 1 .. Len(before) : after[k] = before[k],
         NEW n \in 0 .. Len(before), NEW m \in Nat, n <= m, NEW image, NEW rva,
         ShownIn(before, n, image, rva)
  PROVE  ShownIn(after, m, image, rva)
<1>1. PICK k \in 1 .. n :
        /\ before[k].call.kind = "internal" /\ before[k].call.to = rva
        /\ before[k].image = image /\ HasChildren(before, k)
  BY DEF ShownIn
<1>2. k \in 1 .. Len(before) /\ k \in 1 .. m
  OBVIOUS
<1>3. HasChildren(after, k) /\ after[k] = before[k]
  BY <1>1, <1>2, ChildrenStay
<1> QED
  BY <1>1, <1>2, <1>3 DEF ShownIn

LEMMA ShownMoved ==
  ASSUME NEW children \in Seq(TreeNodes), NEW after \in Seq(TreeNodes), NEW n \in Nat,
         Len(after) = n + Len(children),
         \A k \in 1 .. Len(children) : after[n + k] = children[k],
         NEW m \in 0 .. Len(children), NEW image, NEW rva, ShownIn(children, m, image, rva)
  PROVE  ShownIn(after, n + m, image, rva)
<1>1. PICK k \in 1 .. m :
        /\ children[k].call.kind = "internal" /\ children[k].call.to = rva
        /\ children[k].image = image /\ HasChildren(children, k)
  BY DEF ShownIn
<1>2. k \in 1 .. Len(children) /\ n + k \in 1 .. n + m
  OBVIOUS
<1>3. HasChildren(after, n + k) /\ after[n + k] = children[k]
  BY <1>1, <1>2, ChildrenMove
<1> QED
  BY <1>1, <1>2, <1>3 DEF ShownIn

LEMMA FineAdvance ==
  ASSUME MapTyped, NodesFine, NEW nodes, Advances(nodes),
         nodes # << >> => nodes[1].depth = stack[1].depth,
         \A k \in 1 .. Len(nodes) : Fine(nodes, k)
  PROVE  NodesFine'
<1>1. /\ Len(stack) \in Nat \ {0} /\ Len(stack') = Len(stack) /\ stack'[1].nodes = nodes
      /\ stack'[1].depth = stack[1].depth
      /\ \A i \in 2 .. Len(stack) : stack'[i] = stack[i]
  BY AdvanceLevels DEF SameLevel
<1>2. ASSUME NEW i \in 1 .. Len(stack')
      PROVE  /\ stack'[i].nodes # << >> => stack'[i].nodes[1].depth = stack'[i].depth
             /\ \A k \in 1 .. Len(stack'[i].nodes) : Fine(stack'[i].nodes, k)
  <2>1. CASE i = 1
    BY <1>1, <2>1
  <2>2. CASE i # 1
    <3>1. stack'[i] = stack[i] /\ i \in 1 .. Len(stack)
      BY <1>1, <2>2
    <3> QED
      BY <3>1 DEF NodesFine
  <2> QED
    BY <2>1, <2>2
<1> QED
  BY <1>2 DEF NodesFine, Fine, HasChildren

LEMMA FineOpen ==
  ASSUME MapTyped, NodesFine, NEW image \in Images, NEW rva \in Nat, Opens(image, rva)
  PROVE  NodesFine'
<1>1. /\ Len(stack) \in Nat \ {0} /\ Len(stack') = Len(stack) + 1
      /\ \A i \in 2 .. Len(stack') : stack'[i].nodes = stack[i - 1].nodes
      /\ \A i \in 2 .. Len(stack') : stack'[i].depth = stack[i - 1].depth
      /\ stack'[1].nodes = << >>
  BY OpenLevels DEF SameLevel
<1>2. ASSUME NEW i \in 1 .. Len(stack')
      PROVE  /\ stack'[i].nodes # << >> => stack'[i].nodes[1].depth = stack'[i].depth
             /\ \A k \in 1 .. Len(stack'[i].nodes) : Fine(stack'[i].nodes, k)
  <2>1. CASE i = 1
    BY <1>1, <2>1
  <2>2. CASE i # 1
    <3>1. /\ i - 1 \in 1 .. Len(stack) /\ stack'[i].nodes = stack[i - 1].nodes
          /\ stack'[i].depth = stack[i - 1].depth
      BY <1>1, <2>2
    <3> QED
      BY <3>1 DEF NodesFine
  <2> QED
    BY <2>1, <2>2
<1> QED
  BY <1>2 DEF NodesFine, Fine, HasChildren

LEMMA FineClose ==
  ASSUME MapTyped, NodesFine, NEW nodes, Closes(nodes),
         nodes # << >> => nodes[1].depth = stack[2].depth,
         \A k \in 1 .. Len(nodes) : Fine(nodes, k)
  PROVE  NodesFine'
<1>1. /\ Len(stack) \in Nat \ {0, 1} /\ Len(stack') = Len(stack) - 1
      /\ \A i \in 1 .. Len(stack') : stack'[i].depth = stack[i + 1].depth
      /\ \A i \in 2 .. Len(stack') : stack'[i] = stack[i + 1]
      /\ stack'[1].nodes = nodes
  BY CloseLevels DEF SameLevel
<1>2. ASSUME NEW i \in 1 .. Len(stack')
      PROVE  /\ stack'[i].nodes # << >> => stack'[i].nodes[1].depth = stack'[i].depth
             /\ \A k \in 1 .. Len(stack'[i].nodes) : Fine(stack'[i].nodes, k)
  <2>1. CASE i = 1
    <3>1. stack'[i].depth = stack[i + 1].depth /\ i + 1 = 2
      BY <1>1, <2>1
    <3> QED
      BY <1>1, <2>1, <3>1
  <2>2. CASE i # 1
    <3>1. stack'[i] = stack[i + 1] /\ i + 1 \in 1 .. Len(stack)
      BY <1>1, <2>2
    <3> QED
      BY <3>1 DEF NodesFine
  <2> QED
    BY <2>1, <2>2
<1> QED
  BY <1>2 DEF NodesFine, Fine, HasChildren

LEMMA NodesTyped ==
  ASSUME MapTyped, NEW i \in 1 .. Len(stack)
  PROVE  stack[i].nodes \in Seq(TreeNodes) /\ Len(stack[i].nodes) \in Nat
<1>1. stack[i] \in LevelTypes
  BY DEF MapTyped
<1> QED
  BY <1>1, LevelFields

LEMMA ShownAdvance ==
  ASSUME MapTyped, NEW nodes \in Seq(TreeNodes), Advances(nodes), Len(stack[1].nodes) <= Len(nodes),
         \A k \in 1 .. Len(stack[1].nodes) : nodes[k] = stack[1].nodes[k],
         NEW i \in 1 .. Len(stack), NEW n \in 0 .. Len(stack[i].nodes), NEW m \in Nat, n <= m,
         NEW image, NEW rva, ShownBefore(i, n, image, rva)
  PROVE  ShownBefore(i, m, image, rva)'
<1>1. /\ Len(stack) \in Nat \ {0} /\ Len(stack') = Len(stack) /\ stack'[1].nodes = nodes
      /\ \A j \in 2 .. Len(stack) : stack'[j] = stack[j]
  BY AdvanceLevels
<1>2. CASE ShownIn(stack[i].nodes, n, image, rva)
  <2>1. CASE i = 1
    <3>1. stack[1].nodes \in Seq(TreeNodes) /\ n \in 0 .. Len(stack[1].nodes)
      BY <2>1, NodesTyped
    <3>2. ShownIn(nodes, m, image, rva)
      BY <1>2, <2>1, <3>1, ShownAdded
    <3> QED
      BY <1>1, <2>1, <3>2 DEF ShownBefore, ShownIn, HasChildren
  <2>2. CASE i # 1
    <3>1. stack'[i] = stack[i]
      BY <1>1, <2>2
    <3>2. stack[i].nodes \in Seq(TreeNodes)
      BY NodesTyped
    <3>3. \A k \in 1 .. n : k \in 1 .. m
      OBVIOUS
    <3>4. ShownIn(stack[i].nodes, m, image, rva)
      BY <1>2, <3>3 DEF ShownIn
    <3> QED
      BY <3>1, <3>4 DEF ShownBefore, ShownIn, HasChildren
  <2> QED
    BY <2>1, <2>2
<1>3. ASSUME NEW j \in i + 1 .. Len(stack), ShownIn(stack[j].nodes, Len(stack[j].nodes), image, rva)
      PROVE  ShownBefore(i, m, image, rva)'
  <2>1. j \in 2 .. Len(stack) /\ stack'[j] = stack[j] /\ j \in i + 1 .. Len(stack')
    BY <1>1
  <2> QED
    BY <1>3, <2>1 DEF ShownBefore, ShownIn, HasChildren
<1> QED
  BY <1>2, <1>3 DEF ShownBefore

LEMMA ShownOpen ==
  ASSUME MapTyped, NEW im \in Images, NEW r \in Nat, Opens(im, r),
         NEW i \in 1 .. Len(stack), NEW j, j = i + 1, NEW n \in Nat,
         NEW image, NEW rva, ShownBefore(i, n, image, rva)
  PROVE  ShownBefore(j, n, image, rva)' /\ j \in 2 .. Len(stack')
<1>1. /\ Len(stack) \in Nat \ {0} /\ Len(stack') = Len(stack) + 1
      /\ \A k \in 2 .. Len(stack') : stack'[k].nodes = stack[k - 1].nodes
  BY OpenLevels
<1>2. j \in 2 .. Len(stack') /\ j - 1 = i
  BY <1>1
<1>3. CASE ShownIn(stack[i].nodes, n, image, rva)
  <2>1. stack'[j].nodes = stack[i].nodes
    BY <1>1, <1>2
  <2> QED
    BY <1>2, <1>3, <2>1 DEF ShownBefore, ShownIn, HasChildren
<1>4. ASSUME NEW k \in i + 1 .. Len(stack), ShownIn(stack[k].nodes, Len(stack[k].nodes), image, rva)
      PROVE  ShownBefore(j, n, image, rva)'
  <2>1. k + 1 \in j + 1 .. Len(stack') /\ k + 1 \in 2 .. Len(stack') /\ k + 1 - 1 = k
    BY <1>1
  <2>2. PICK l \in j + 1 .. Len(stack') : l = k + 1
    BY <2>1
  <2>3. stack'[l].nodes = stack[k].nodes
    BY <1>1, <2>1, <2>2
  <2>4. l \in (j + 1 .. Len(stack))'
    BY <1>1, <2>2
  <2> QED
    BY <1>4, <2>3, <2>4 DEF ShownBefore, ShownIn, HasChildren
<1> QED
  BY <1>2, <1>3, <1>4 DEF ShownBefore

LEMMA ShownFurther ==
  ASSUME NEW nodes, NEW n \in Nat, NEW m \in Nat, n <= m, NEW image, NEW rva,
         ShownIn(nodes, n, image, rva)
  PROVE  ShownIn(nodes, m, image, rva)
<1>1. \A k \in 1 .. n : k \in 1 .. m
  OBVIOUS
<1> QED
  BY <1>1 DEF ShownIn

\* A function shown in a level further out than the two that become one.
LEMMA ShownOut ==
  ASSUME MapTyped, NEW nodes, Closes(nodes), NEW i \in 1 .. Len(stack'), NEW m,
         NEW k \in 3 .. Len(stack), k > i + 1, NEW image, NEW rva,
         ShownIn(stack[k].nodes, Len(stack[k].nodes), image, rva)
  PROVE  ShownBefore(i, m, image, rva)'
<1>1. /\ Len(stack) \in Nat \ {0, 1} /\ Len(stack') = Len(stack) - 1
      /\ \A j \in 2 .. Len(stack') : stack'[j] = stack[j + 1]
  BY CloseLevels
<1>2. k - 1 \in i + 1 .. Len(stack') /\ k - 1 \in 2 .. Len(stack') /\ k - 1 + 1 = k
  BY <1>1
<1>3. PICK l \in i + 1 .. Len(stack') : l = k - 1
  BY <1>2
<1>4. stack'[l] = stack[k]
  BY <1>1, <1>2, <1>3
<1> QED
  BY <1>3, <1>4 DEF ShownBefore, ShownIn, HasChildren

LEMMA ShownClose ==
  ASSUME MapTyped, NEW nodes, Closes(nodes), NEW i \in 3 .. Len(stack), NEW j, j = i - 1,
         NEW n, NEW image, NEW rva, ShownBefore(i, n, image, rva)
  PROVE  ShownBefore(j, n, image, rva)'
<1>1. /\ Len(stack) \in Nat \ {0, 1} /\ Len(stack') = Len(stack) - 1
      /\ \A k \in 2 .. Len(stack') : stack'[k] = stack[k + 1]
  BY CloseLevels
<1>2. CASE ShownIn(stack[i].nodes, n, image, rva)
  <2>1. j \in 2 .. Len(stack') /\ j + 1 = i
    BY <1>1
  <2>2. stack'[j] = stack[i]
    BY <1>1, <2>1
  <2> QED
    BY <1>2, <2>2 DEF ShownBefore, ShownIn, HasChildren
<1>3. ASSUME NEW k \in i + 1 .. Len(stack), ShownIn(stack[k].nodes, Len(stack[k].nodes), image, rva)
      PROVE  ShownBefore(j, n, image, rva)'
  <2>1. j \in 1 .. Len(stack') /\ k \in 3 .. Len(stack) /\ k > j + 1
    BY <1>1
  <2> QED
    BY <1>3, <2>1, ShownOut
<1> QED
  BY <1>2, <1>3 DEF ShownBefore

LEMMA ShownJoined ==
  ASSUME MapTyped, NEW nodes \in Seq(TreeNodes), Closes(nodes),
         Len(stack[2].nodes) <= Len(nodes),
         \A k \in 1 .. Len(stack[2].nodes) : nodes[k] = stack[2].nodes[k],
         NEW n \in 0 .. Len(stack[2].nodes), NEW m \in Nat, n <= m,
         NEW image, NEW rva, ShownBefore(2, n, image, rva)
  PROVE  ShownBefore(1, m, image, rva)'
<1>1. /\ Len(stack) \in Nat \ {0, 1} /\ Len(stack') = Len(stack) - 1
      /\ stack'[1].nodes = nodes
  BY CloseLevels
<1>2. CASE ShownIn(stack[2].nodes, n, image, rva)
  <2>1. stack[2].nodes \in Seq(TreeNodes)
    BY <1>1, NodesTyped
  <2>2. ShownIn(nodes, m, image, rva)
    BY <1>2, <2>1, ShownAdded
  <2> QED
    BY <1>1, <2>2 DEF ShownBefore, ShownIn, HasChildren
<1>3. ASSUME NEW k \in 3 .. Len(stack), ShownIn(stack[k].nodes, Len(stack[k].nodes), image, rva)
      PROVE  ShownBefore(1, m, image, rva)'
  <2>1. 1 \in 1 .. Len(stack') /\ k > 1 + 1
    BY <1>1
  <2> QED
    BY <1>3, <2>1, ShownOut
<1> QED
  BY <1>2, <1>3 DEF ShownBefore

LEMMA ShownInside ==
  ASSUME MapTyped, NEW nodes \in Seq(TreeNodes), Closes(nodes), NEW p \in Nat,
         Len(stack[2].nodes) <= p, Len(nodes) = p + Len(stack[1].nodes),
         \A k \in 1 .. Len(stack[2].nodes) : nodes[k] = stack[2].nodes[k],
         \A k \in 1 .. Len(stack[1].nodes) : nodes[p + k] = stack[1].nodes[k],
         NEW n \in 0 .. Len(stack[1].nodes), NEW m, m = p + n,
         NEW image, NEW rva, ShownBefore(1, n, image, rva)
  PROVE  ShownBefore(1, m, image, rva)'
<1>1. /\ Len(stack) \in Nat \ {0, 1} /\ Len(stack') = Len(stack) - 1
      /\ stack'[1].nodes = nodes
  BY CloseLevels
<1>2. /\ stack[1].nodes \in Seq(TreeNodes) /\ Len(stack[1].nodes) \in Nat
      /\ stack[2].nodes \in Seq(TreeNodes) /\ Len(stack[2].nodes) \in Nat
  BY <1>1, NodesTyped
<1>3. CASE ShownIn(stack[1].nodes, n, image, rva)
  <2>1. ShownIn(nodes, p + n, image, rva)
    BY <1>2, <1>3, ShownMoved
  <2> QED
    BY <1>1, <2>1 DEF ShownBefore, ShownIn, HasChildren
<1>4. CASE ShownIn(stack[2].nodes, Len(stack[2].nodes), image, rva)
  <2>1. ShownBefore(2, Len(stack[2].nodes), image, rva)
    BY <1>4 DEF ShownBefore
  <2>2. /\ Len(stack[2].nodes) <= Len(nodes) /\ Len(stack[2].nodes) \in 0 .. Len(stack[2].nodes)
        /\ m \in Nat /\ Len(stack[2].nodes) <= m
    BY <1>2
  <2> QED
    BY <2>1, <2>2, ShownJoined
<1>5. ASSUME NEW k \in 3 .. Len(stack), ShownIn(stack[k].nodes, Len(stack[k].nodes), image, rva)
      PROVE  ShownBefore(1, m, image, rva)'
  <2>1. 1 \in 1 .. Len(stack') /\ k > 1 + 1
    BY <1>1
  <2> QED
    BY <1>5, <2>1, ShownOut
<1>6. \A k \in 1 + 1 .. Len(stack) : k = 2 \/ k \in 3 .. Len(stack)
  BY <1>1
<1> QED
  BY <1>3, <1>4, <1>5, <1>6 DEF ShownBefore

\* The callee of a repeated call is shown before it.
LEMMA RepeatShown ==
  ASSUME MapTyped, ExpandedShown, ImagesApart, NEW image \in Images, NEW rva,
         NEW c \in CallsAt(<<image, rva>>), AboveOf(c)
  PROVE  ShownBefore(1, Len(stack[1].nodes), image, c.to)
<1>1. c.kind = "internal" /\ c.to \in DOMAIN expanded /\ expanded[c.to]
  BY DEF AboveOf
<1>2. PICK other \in Images :
        c.to \in DOMAIN CodeOf(other) /\ ShownBefore(1, Len(stack[1].nodes), other, c.to)
  BY <1>1 DEF ExpandedShown
<1>3. other = image
  BY <1>1, <1>2, Apart
<1> QED
  BY <1>2, <1>3

LEMMA AboveAdvance ==
  ASSUME MapTyped, AboveShown, ExpandedShown, Made, ImagesApart, NEW nodes, Advances(nodes),
         NEW above \in BOOLEAN, above => AboveOf(NextCall), NEW n \in Nat,
         Grown(stack[1].nodes, nodes, stack[1], NextCall, << >>, above, n)
  PROVE  AboveShown'
<1>1. /\ Len(stack) \in Nat \ {0} /\ Len(stack') = Len(stack) /\ stack'[1].nodes = nodes
      /\ \A i \in 2 .. Len(stack) : stack'[i] = stack[i]
  BY AdvanceLevels
<1>2. /\ nodes \in Seq(TreeNodes) /\ Len(stack[1].nodes) <= Len(nodes)
      /\ \A k \in 1 .. Len(stack[1].nodes) : nodes[k] = stack[1].nodes[k]
      /\ Len(nodes) = n
      /\ \/ n = Len(stack[1].nodes)
         \/ /\ n = Len(stack[1].nodes) + 1 /\ nodes[n].call = NextCall
            /\ nodes[n].image = stack[1].image /\ nodes[n].above = above
  BY DEF Grown
<1>3. ASSUME NEW i \in 1 .. Len(stack'), NEW k \in 1 .. Len(stack'[i].nodes),
             NEW node, node = stack'[i].nodes[k], node.above, NEW m, m = k - 1
      PROVE  ShownBefore(i, m, node.image, node.call.to)'
  <2>1. i \in 1 .. Len(stack) /\ Len(stack[i].nodes) \in Nat /\ Len(stack[1].nodes) \in Nat
    BY <1>1, NodesTyped
  <2>2. CASE k \in 1 .. Len(stack[i].nodes) /\ node = stack[i].nodes[k]
    <3>1. ShownBefore(i, k - 1, stack[i].nodes[k].image, stack[i].nodes[k].call.to)
      BY <1>3, <2>1, <2>2 DEF AboveShown
    <3>2. ShownBefore(i, m, node.image, node.call.to) /\ m \in 0 .. Len(stack[i].nodes) /\ m \in Nat
      BY <1>3, <2>1, <2>2, <3>1
    <3> QED
      BY <1>2, <2>1, <3>2, ShownAdvance
  <2>3. CASE i = 1 /\ k = n /\ n = Len(stack[1].nodes) + 1
    <3>1. node.call = NextCall /\ node.image = stack[1].image /\ above
      BY <1>1, <1>2, <1>3, <2>1, <2>3
    <3>2. /\ NextCall \in CallsAt(<<stack[1].image, stack[1].rva>>)
          /\ stack[1].image \in Images /\ AboveOf(NextCall)
      <4>1. Busy /\ Top = stack[1] /\ Top \in LevelTypes
        BY TopTyped DEF Advances
      <4> QED
        BY <3>1, <4>1, LevelFields, MadeHere DEF PlaceOf
    <3>3. ShownBefore(1, Len(stack[1].nodes), stack[1].image, NextCall.to)
      BY <3>2, RepeatShown
    <3>4. m = Len(stack[1].nodes)
      BY <1>3, <2>1, <2>3
    <3>5. ShownBefore(1, m, node.image, node.call.to) /\ m \in Nat /\ m \in 0 .. Len(stack[1].nodes)
      BY <2>1, <3>1, <3>3, <3>4
    <3> QED
      BY <1>2, <2>1, <2>3, <3>5, ShownAdvance
  <2>4. CASE i # 1
    <3>1. stack'[i] = stack[i]
      BY <1>1, <2>1, <2>4
    <3> QED
      BY <1>3, <2>2, <3>1
  <2>5. CASE i = 1
    <3>1. k \in 1 .. Len(stack[1].nodes) \/ (k = n /\ n = Len(stack[1].nodes) + 1)
      BY <1>1, <1>2, <2>1, <2>5
    <3> QED
      BY <1>1, <1>2, <1>3, <2>2, <2>3, <2>5, <3>1
  <2> QED
    BY <2>4, <2>5
<1> QED
  BY <1>3 DEF AboveShown

LEMMA ExpandedAdvance ==
  ASSUME MapTyped, ExpandedShown, NEW nodes \in Seq(TreeNodes), Advances(nodes),
         Len(stack[1].nodes) <= Len(nodes),
         \A k \in 1 .. Len(stack[1].nodes) : nodes[k] = stack[1].nodes[k],
         calls' = calls, request' = request, expanded' = expanded
  PROVE  ExpandedShown'
<1>1. /\ 1 \in 1 .. Len(stack) /\ stack'[1].nodes = nodes
      /\ Len(stack[1].nodes) \in 0 .. Len(stack[1].nodes) /\ Len(nodes) \in Nat
  <2>1. Len(stack) \in Nat \ {0} /\ stack'[1].nodes = nodes
    BY AdvanceLevels
  <2> QED
    BY <2>1, NodesTyped
<1>2. \A image : CodeOf(image)' = CodeOf(image)
  BY Frame
<1>3. ASSUME NEW rva \in DOMAIN expanded', expanded'[rva]
      PROVE  \E image \in Images :
               rva \in DOMAIN CodeOf(image)' /\ ShownBefore(1, Len(stack[1].nodes), image, rva)'
  <2>1. PICK image \in Images :
          rva \in DOMAIN CodeOf(image) /\ ShownBefore(1, Len(stack[1].nodes), image, rva)
    BY <1>3 DEF ExpandedShown
  <2>2. PICK m \in Nat : m = Len(nodes)
    BY <1>1
  <2>3. ShownBefore(1, m, image, rva)'
    BY <1>1, <2>1, <2>2, ShownAdvance
  <2>4. m = Len(stack'[1].nodes)
    BY <1>1, <2>2
  <2> QED
    BY <1>2, <2>1, <2>3, <2>4
<1> QED
  BY <1>3 DEF ExpandedShown

LEMMA AboveOpen ==
  ASSUME MapTyped, AboveShown, NEW im \in Images, NEW r \in Nat, Opens(im, r)
  PROVE  AboveShown'
<1>1. /\ Len(stack) \in Nat \ {0} /\ Len(stack') = Len(stack) + 1
      /\ \A i \in 2 .. Len(stack') : stack'[i].nodes = stack[i - 1].nodes
      /\ stack'[1].nodes = << >>
  BY OpenLevels
<1>2. ASSUME NEW i \in 1 .. Len(stack'), NEW k \in 1 .. Len(stack'[i].nodes),
             NEW node, node = stack'[i].nodes[k], node.above, NEW m, m = k - 1
      PROVE  ShownBefore(i, m, node.image, node.call.to)'
  <2>1. i # 1
    BY <1>1
  <2>2. PICK j \in 1 .. Len(stack) : i = j + 1 /\ j = i - 1
    BY <1>1, <2>1
  <2>3. stack'[i].nodes = stack[j].nodes
    BY <1>1, <2>2
  <2>4. ShownBefore(j, k - 1, stack[j].nodes[k].image, stack[j].nodes[k].call.to)
    BY <1>2, <2>2, <2>3 DEF AboveShown
  <2>5. ShownBefore(j, m, node.image, node.call.to) /\ m \in Nat
    BY <1>2, <2>3, <2>4
  <2> QED
    BY <2>2, <2>5, ShownOpen
<1> QED
  BY <1>2 DEF AboveShown

LEMMA ExpandedOpen ==
  ASSUME MapTyped, ExpandedShown, NEW im \in Images, NEW r \in Nat, Opens(im, r),
         calls' = calls, request' = request, expanded' = expanded
  PROVE  ExpandedShown'
<1>1. /\ Len(stack) \in Nat \ {0} /\ Len(stack') = Len(stack) + 1
      /\ \A i \in 2 .. Len(stack') : stack'[i].nodes = stack[i - 1].nodes
      /\ stack'[1].nodes = << >>
  BY OpenLevels
<1>2. /\ 1 \in 1 .. Len(stack) /\ Len(stack[1].nodes) \in Nat /\ 2 \in 2 .. Len(stack') /\ 2 - 1 = 1
  BY <1>1, NodesTyped
<1>3. stack'[2].nodes = stack[1].nodes
  <2>1. stack'[2].nodes = stack[2 - 1].nodes
    BY <1>1, <1>2
  <2> QED
    BY <1>2, <2>1
<1>4. \A image : CodeOf(image)' = CodeOf(image)
  BY Frame
<1>5. ASSUME NEW rva \in DOMAIN expanded', expanded'[rva]
      PROVE  \E image \in Images :
               rva \in DOMAIN CodeOf(image)' /\ ShownBefore(1, Len(stack[1].nodes), image, rva)'
  <2>1. PICK image \in Images :
          rva \in DOMAIN CodeOf(image) /\ ShownBefore(1, Len(stack[1].nodes), image, rva)
    BY <1>5 DEF ExpandedShown
  <2>2. PICK n \in Nat : n = Len(stack[1].nodes)
    BY <1>2
  <2>3. ShownBefore(2, n, image, rva)'
    <3>1. 2 = 1 + 1
      OBVIOUS
    <3> QED
      BY <1>2, <2>1, <2>2, <3>1, ShownOpen
  <2>4. \E l \in 2 .. Len(stack') : ShownIn(stack'[l].nodes, Len(stack'[l].nodes), image, rva)
    <3>1. CASE ShownIn(stack'[2].nodes, n, image, rva)
      BY <1>2, <1>3, <2>2, <3>1
    <3>2. CASE \E l \in 2 + 1 .. Len(stack') :
                 ShownIn(stack'[l].nodes, Len(stack'[l].nodes), image, rva)
      <4>1. \A l \in 2 + 1 .. Len(stack') : l \in 2 .. Len(stack')
        BY <1>1
      <4> QED
        BY <3>2, <4>1
    <3> QED
      BY <2>3, <3>1, <3>2 DEF ShownBefore, ShownIn, HasChildren
  <2>5. \A p : ShownBefore(1, p, image, rva)'
    BY <2>4 DEF ShownBefore, ShownIn, HasChildren
  <2> QED
    BY <1>4, <2>1, <2>5
<1> QED
  BY <1>5 DEF ExpandedShown

LEMMA AboveClose ==
  ASSUME MapTyped, AboveShown, NEW nodes, Closes(nodes), NEW c, NEW n \in Nat,
         Grown(stack[2].nodes, nodes, stack[2], c, stack[1].nodes, FALSE, n)
  PROVE  AboveShown'
<1>1. /\ Len(stack) \in Nat \ {0, 1} /\ Len(stack') = Len(stack) - 1
      /\ stack'[1].nodes = nodes /\ \A i \in 2 .. Len(stack') : stack'[i] = stack[i + 1]
  BY CloseLevels
<1>2. /\ nodes \in Seq(TreeNodes) /\ Len(stack[2].nodes) <= Len(nodes)
      /\ \A k \in 1 .. Len(stack[2].nodes) : nodes[k] = stack[2].nodes[k]
      /\ Len(nodes) = n + Len(stack[1].nodes) /\ Len(stack[2].nodes) <= n
      /\ \A k \in 1 .. Len(stack[1].nodes) : nodes[n + k] = stack[1].nodes[k]
      /\ n = Len(stack[2].nodes) \/ (n = Len(stack[2].nodes) + 1 /\ ~ nodes[n].above)
  BY DEF Grown
<1>3. /\ 1 \in 1 .. Len(stack) /\ 2 \in 1 .. Len(stack)
      /\ Len(stack[1].nodes) \in Nat /\ Len(stack[2].nodes) \in Nat
  BY <1>1, NodesTyped
<1>4. ASSUME NEW i \in 1 .. Len(stack'), NEW k \in 1 .. Len(stack'[i].nodes),
             NEW node, node = stack'[i].nodes[k], node.above, NEW m, m = k - 1
      PROVE  ShownBefore(i, m, node.image, node.call.to)'
  <2>1. CASE i # 1
    <3>1. PICK j \in 3 .. Len(stack) : j = i + 1 /\ i = j - 1
      BY <1>1, <2>1
    <3>2. stack'[i] = stack[j]
      BY <1>1, <2>1, <3>1
    <3>3. ShownBefore(j, m, node.image, node.call.to)
      BY <1>4, <3>1, <3>2 DEF AboveShown
    <3> QED
      BY <3>1, <3>3, ShownClose
  <2>2. CASE i = 1 /\ k <= Len(stack[2].nodes)
    <3>1. k \in 1 .. Len(stack[2].nodes) /\ m \in Nat
          /\ m \in 0 .. Len(stack[2].nodes) /\ m <= m
      <4>1. PICK l \in Nat : l = Len(stack[2].nodes)
        BY <1>3
      <4>2. PICK d \in Nat : d = Len(nodes)
        BY <1>2
      <4>3. k \in 1 .. d
        BY <1>1, <1>4, <2>2, <4>2
      <4>4. k \in 1 .. l /\ m \in Nat /\ m \in 0 .. l /\ m <= m
        BY <1>4, <2>2, <4>1, <4>3
      <4> QED
        BY <4>1, <4>4
    <3>0. node = stack[2].nodes[k]
      BY <1>1, <1>2, <1>4, <2>2, <3>1
    <3>2. ShownBefore(2, m, node.image, node.call.to)
      BY <1>3, <1>4, <3>0, <3>1 DEF AboveShown
    <3> QED
      BY <1>2, <2>2, <3>0, <3>1, <3>2, ShownJoined
  <2>3. CASE i = 1 /\ k > n
    <3>1. PICK j \in 1 .. Len(stack[1].nodes) : k = n + j
      <4>1. PICK l \in Nat : l = Len(stack[1].nodes)
        BY <1>3
      <4>2. Len(nodes) = n + l
        BY <1>2, <4>1
      <4>3. k \in 1 .. n + l
        BY <1>1, <2>3, <4>2
      <4>4. k - n \in 1 .. l /\ k = n + (k - n)
        BY <2>3, <4>3
      <4> QED
        BY <4>1, <4>4
    <3>2. node = stack[1].nodes[j]
      BY <1>1, <1>2, <1>4, <2>3, <3>1
    <3>3. ShownBefore(1, j - 1, node.image, node.call.to)
      BY <1>3, <1>4, <3>2 DEF AboveShown
    <3>4. PICK p \in 0 .. Len(stack[1].nodes) : p = j - 1
      BY <1>3
    <3>5. m = n + p /\ ShownBefore(1, p, node.image, node.call.to)
      BY <1>4, <3>1, <3>3, <3>4
    <3> QED
      BY <1>2, <2>3, <3>5, ShownInside
  <2>4. CASE i = 1 /\ k > Len(stack[2].nodes) /\ k <= n
    <3>1. k = n /\ n # Len(stack[2].nodes)
      BY <1>2, <1>3, <2>4
    <3> QED
      BY <1>1, <1>2, <1>4, <2>4, <3>1
  <2> QED
    BY <1>3, <2>1, <2>2, <2>3, <2>4
<1> QED
  BY <1>4 DEF AboveShown

LEMMA ExpandedClose ==
  ASSUME MapTyped, Nested, ExpandedShown, NEW nodes, Closes(nodes), NEW c, c = stack[1].call,
         NEW n \in Nat, Grown(stack[2].nodes, nodes, stack[2], c, stack[1].nodes, FALSE, n),
         calls' = calls, request' = request,
         \A rva \in DOMAIN expanded' :
           \/ rva \in DOMAIN expanded /\ expanded'[rva] = expanded[rva]
           \/ /\ c.kind = "internal" /\ rva = c.to
              /\ expanded'[rva] = (stack[1].nodes # << >>)
  PROVE  ExpandedShown'
<1>1. /\ Len(stack) \in Nat \ {0, 1} /\ Len(stack') = Len(stack) - 1
      /\ stack'[1].nodes = nodes
  BY CloseLevels
<1>2. /\ nodes \in Seq(TreeNodes) /\ Len(stack[2].nodes) <= Len(nodes)
      /\ \A k \in 1 .. Len(stack[2].nodes) : nodes[k] = stack[2].nodes[k]
      /\ Len(nodes) = n + Len(stack[1].nodes) /\ Len(stack[2].nodes) <= n
      /\ \A k \in 1 .. Len(stack[1].nodes) : nodes[n + k] = stack[1].nodes[k]
  BY DEF Grown
<1>3. /\ 1 \in 1 .. Len(stack) /\ 2 \in 1 .. Len(stack)
      /\ Len(stack[1].nodes) \in Nat /\ Len(stack[2].nodes) \in Nat
  BY <1>1, NodesTyped
<1>4. \A image : CodeOf(image)' = CodeOf(image)
  BY Frame
<1>5. ASSUME NEW rva \in DOMAIN expanded', expanded'[rva]
      PROVE  \E image \in Images :
               rva \in DOMAIN CodeOf(image)' /\ ShownBefore(1, Len(stack[1].nodes), image, rva)'
  <2>0. PICK m \in Nat : m = Len(nodes)
    BY <1>2
  <2>1. CASE rva \in DOMAIN expanded /\ expanded'[rva] = expanded[rva]
    <3>1. PICK image \in Images :
            rva \in DOMAIN CodeOf(image) /\ ShownBefore(1, Len(stack[1].nodes), image, rva)
      BY <1>5, <2>1 DEF ExpandedShown
    <3>2. PICK p \in 0 .. Len(stack[1].nodes) : p = Len(stack[1].nodes)
      BY <1>3
    <3>3. m = n + p /\ ShownBefore(1, p, image, rva)
      BY <1>2, <2>0, <3>1, <3>2
    <3>4. ShownBefore(1, m, image, rva)'
      BY <1>2, <3>3, ShownInside
    <3> QED
      BY <1>1, <1>4, <2>0, <3>1, <3>4
  <2>2. CASE /\ c.kind = "internal" /\ rva = c.to
             /\ expanded'[rva] = (stack[1].nodes # << >>)
    <3>1. /\ n \in 1 .. Len(nodes) /\ nodes[n].call = c /\ nodes[n].image = stack[2].image
          /\ HasChildren(nodes, n)
      BY <1>5, <2>2 DEF Grown
    <3>2. stack[2].image \in Images /\ rva \in DOMAIN CodeOf(stack[2].image)
      <4>1. Opened(stack[2], stack[1]) /\ stack[2] \in LevelTypes
        BY <1>1, OpenedTop
      <4> QED
        BY <2>2, <4>1, LevelFields DEF Opened
    <3>3. ShownIn(nodes, m, stack[2].image, rva)
      BY <2>0, <2>2, <3>1 DEF ShownIn
    <3>4. PICK image \in Images : image = stack[2].image
      BY <3>2
    <3>5. ShownBefore(1, m, image, rva)'
      BY <1>1, <3>3, <3>4 DEF ShownBefore, ShownIn, HasChildren
    <3> QED
      BY <1>1, <1>4, <2>0, <3>2, <3>4, <3>5
  <2> QED
    BY <2>1, <2>2
<1> QED
  BY <1>5 DEF ExpandedShown

-----------------------------------------------------------------------------
(* Every step keeps the invariant.                                          *)

\* What the invariant says when the filter is on and the images are apart.
Filtered == Made /\ Ledger /\ NodesFine /\ AboveShown /\ ExpandedShown

LEMMA FilteredSkip ==
  ASSUME MapTyped, Nested, request.filter, ImagesApart, Filtered, SkipExcluded
  PROVE  /\ Nested' /\ Filtered'
         /\ Progress => Progress'
<1>1. /\ UNCHANGED <<calls, request>> /\ entered' = entered /\ expanded' = expanded
      /\ Excludes(NextCall)
  BY DEF SkipExcluded
<1>2. Advances(stack[1].nodes)
  BY SkipsOne
<1>3. /\ 1 \in 1 .. Len(stack) /\ stack[1].nodes \in Seq(TreeNodes) /\ Len(stack[1].nodes) \in Nat
  <2>1. 1 \in 1 .. Len(stack)
    BY TopTyped
  <2> QED
    BY <2>1, NodesTyped
<1>4. PICK nodes \in Seq(TreeNodes) : nodes = stack[1].nodes
  BY <1>3
<1>5. /\ Advances(nodes) /\ Len(stack[1].nodes) <= Len(nodes)
      /\ \A k \in 1 .. Len(stack[1].nodes) : nodes[k] = stack[1].nodes[k]
      /\ \A image, d : Has(stack[1].nodes, image, d) => Has(nodes, image, d)
      /\ nodes # << >> => nodes[1].depth = stack[1].depth
      /\ \A k \in 1 .. Len(nodes) : Fine(nodes, k)
  BY <1>2, <1>3, <1>4 DEF Filtered, NodesFine
<1>6. Nested'
  BY <1>1, <1>5, NestedAdvance
<1>7. Made' /\ Ledger' /\ NodesFine'
  BY <1>1, <1>5, MadeAdvance, LedgerAdvance, FineAdvance DEF Filtered
<1>8. ExpandedShown'
  BY <1>1, <1>5, ExpandedAdvance DEF Filtered
<1>9. AboveShown'
  <2>1. PICK above \in BOOLEAN : above = FALSE
    OBVIOUS
  <2>2. PICK n \in Nat : n = Len(nodes)
    BY <1>3, <1>4
  <2>3. PICK none : none = << >>
    OBVIOUS
  <2>4. Len(none) = 0 /\ \A k \in 1 .. Len(none) : nodes[n + k] = none[k]
    BY <2>3
  <2>5. Grown(stack[1].nodes, nodes, stack[1], NextCall, none, above, n)
    BY <1>3, <1>4, <1>5, <2>2, <2>3, <2>4 DEF Grown
  <2>6. above => AboveOf(NextCall)
    BY <2>1
  <2> QED
    BY <1>5, <2>3, <2>5, <2>6, AboveAdvance DEF Filtered
<1>10. ASSUME Progress PROVE Progress'
  <2>1. PICK f : f = PlaceOf(stack[1])
    OBVIOUS
  <2>2. PICK c : c = NextCall
    OBVIOUS
  <2>3. Served(f, c)
    BY <1>1, <2>2 DEF Served, Seen
  <2>4. \A image, d : Kept(image, d) => Kept(image, d)'
    BY <1>5, KeptAdvance
  <2>5. Served(f, c)'
    BY <1>1, <2>3, <2>4, SeenStays
  <2> QED
    BY <1>1, <1>5, <1>10, <2>1, <2>2, <2>4, <2>5, ProgressAdvance
<1> QED
  BY <1>6, <1>7, <1>8, <1>9, <1>10 DEF Filtered

LEMMA FilteredLeaf ==
  ASSUME MapTyped, Nested, request.filter, ImagesApart, Filtered, Leaf
  PROVE  /\ Nested' /\ Filtered'
         /\ Progress /\ request.depth > Cardinality(Functions) => Progress'
<1>1. /\ UNCHANGED <<calls, request>> /\ entered' = entered /\ expanded' = expanded
      /\ ~ Excludes(NextCall) /\ Busy
  BY DEF Leaf
<1>2. /\ 1 \in 1 .. Len(stack) /\ stack[1].nodes \in Seq(TreeNodes) /\ Len(stack[1].nodes) \in Nat
      /\ stack[1] \in LevelTypes /\ NextCall \in ApiCalls /\ Top = stack[1]
      /\ NextCall \in CallsAt(PlaceOf(stack[1]))
  <2>1. 1 \in 1 .. Len(stack) /\ Top = stack[1] /\ Top \in LevelTypes
    BY TopTyped
  <2> QED
    BY <1>1, <2>1, NodesTyped, MadeHere DEF Filtered
<1>3. PICK nodes \in Seq(TreeNodes), above \in BOOLEAN :
        /\ Advances(nodes)
        /\ above => AboveOf(NextCall)
        /\ NodeAdded(stack[1].nodes, nodes, stack[1], NextCall, << >>, above)
  BY LeafAdds
<1>4. PICK none \in Seq(TreeNodes) : none = << >>
  <2>1. << >> \in Seq(TreeNodes)
    OBVIOUS
  <2> QED
    BY <2>1
<1>5. PICK c \in ApiCalls : c = NextCall
  BY <1>2
<1>6. NodeAdded(stack[1].nodes, nodes, stack[1], c, none, above)
  BY <1>3, <1>4, <1>5
<1>7. PICK n \in Nat : Grown(stack[1].nodes, nodes, stack[1], c, none, above, n)
  <2>1. none # << >> => none[1].depth > stack[1].depth
    BY <1>4
  <2>2. stack[1].nodes \in Seq(TreeNodes) /\ stack[1] \in LevelTypes
    BY <1>2
  <2> QED
    BY <1>6, <2>1, <2>2, Added
<1>8. /\ Len(stack[1].nodes) <= Len(nodes)
      /\ \A k \in 1 .. Len(stack[1].nodes) : nodes[k] = stack[1].nodes[k]
  BY <1>7 DEF Grown
<1>9. /\ nodes # << >> => nodes[1].depth = stack[1].depth
      /\ \A k \in 1 .. Len(nodes) : Fine(nodes, k)
  <2>1. ~ c.out /\ (Matches(c) => c.match)
    BY <1>1, <1>5 DEF Excludes, Matches
  <2>2. FineList(stack[1].nodes, stack[1].depth)
    BY <1>2 DEF Filtered, NodesFine, FineList
  <2>3. PICK depth \in Nat : depth > stack[1].depth
    <3>1. PICK d \in Nat : d = stack[1].depth
      BY <1>2, LevelFields
    <3>2. d + 1 \in Nat /\ d + 1 > d
      OBVIOUS
    <3> QED
      BY <3>1, <3>2
  <2>4. FineList(none, depth)
    BY <1>4 DEF FineList
  <2>5. stack[1].nodes \in Seq(TreeNodes) /\ stack[1] \in LevelTypes
    BY <1>2
  <2>6. FineList(nodes, stack[1].depth)
    BY <1>6, <2>1, <2>2, <2>3, <2>4, <2>5, FineAdded
  <2> QED
    BY <2>6 DEF FineList
<1>10. Nested'
  BY <1>1, <1>3, NestedAdvance
<1>11. Made' /\ Ledger' /\ NodesFine'
  BY <1>1, <1>3, <1>9, MadeAdvance, LedgerAdvance, FineAdvance DEF Filtered
<1>12. ExpandedShown'
  BY <1>1, <1>3, <1>8, ExpandedAdvance DEF Filtered
<1>13. AboveShown'
  BY <1>3, <1>4, <1>5, <1>7, AboveAdvance DEF Filtered
<1>14. ASSUME Progress, request.depth > Cardinality(Functions) PROVE Progress'
  <2>1. PICK f : f = PlaceOf(stack[1])
    OBVIOUS
  <2>2. /\ \A image, d : Has(stack[1].nodes, image, d) => Has(nodes, image, d)
        /\ Matches(c) => Has(nodes, stack[1].image, c)
    BY <1>2, <1>6, HasAdded
  <2>3. /\ \A image, d : Kept(image, d) => Kept(image, d)'
        /\ \A image, d : Has(nodes, image, d) => Kept(image, d)'
    BY <1>3, <2>2, KeptAdvance
  <2>4. f[1] = stack[1].image
    BY <2>1 DEF PlaceOf
  <2>5. Matches(c)' => Kept(f[1], c)'
    BY <1>1, <2>2, <2>3, <2>4, Frame
  <2>6. KernelTarget(c) = {}
    BY <1>1, <1>2, <1>5, <1>14, NotCut DEF Leaf, Filtered
  <2>7. c.kind = "internal" /\ c.to \in DOMAIN CodeOf(f[1]) => c.to \in entered
    BY <1>1, <1>2, <1>5, <1>14, <2>4, NotCut DEF Leaf, CanRecurse, Filtered
  <2>8. /\ KernelTarget(c)' = KernelTarget(c) /\ CodeOf(f[1])' = CodeOf(f[1])
    BY <1>1, Frame
  <2>9. Served(f, c)'
    BY <1>1, <2>5, <2>6, <2>7, <2>8 DEF Served, Seen
  <2> QED
    BY <1>1, <1>3, <1>5, <1>14, <2>1, <2>3, <2>9, ProgressAdvance
<1> QED
  BY <1>10, <1>11, <1>12, <1>13, <1>14 DEF Filtered

LEMMA FilteredOpen ==
  ASSUME MapTyped, Nested, request.filter, ImagesApart, Filtered, Expand \/ EnterKernel
  PROVE  /\ Nested' /\ Filtered'
         /\ Progress => Progress'
<1>1. /\ UNCHANGED <<calls, request>> /\ expanded' = expanded /\ Busy
  BY DEF Expand, EnterKernel
<1>2. \E image \in Images, rva \in Nat :
        /\ Opens(image, rva) /\ Nested' /\ Ledger'
        /\ entered \subseteq entered' /\ entered' \subseteq entered \cup {rva}
        /\ rva \in entered \/ entered' = entered
             \/ \A other \in Images : rva \in DOMAIN CodeOf(other) => other = image
  <2>1. CASE Expand
    <3>1. Opens(Top.image, NextCall.to) /\ NextCall.to \in Nat /\ Top.image \in Images /\ Top = stack[1]
      BY <2>1, ExpandOpens, TopTyped
    <3>2. PICK image \in Images, rva \in Nat : image = stack[1].image /\ rva = NextCall.to
      BY <3>1
    <3>3. /\ entered' = entered \cup {rva} /\ rva \notin entered /\ NextCall.kind = "internal"
          /\ rva \in DOMAIN CodeOf(image)
      BY <2>1, <3>1, <3>2 DEF Expand, CanRecurse
    <3>4. Opens(image, rva) /\ Opens(stack[1].image, rva)
      BY <3>1, <3>2
    <3>5. entered \subseteq entered' /\ rva \in entered' /\ entered' \subseteq entered \cup {rva}
      BY <3>3
    <3>6. Nested'
      BY <1>1, <3>2, <3>3, <3>4, <3>5, NestedOpen
    <3>7. Ledger'
      BY <1>1, <3>1, <3>2, <3>3, <3>4, LedgerExpand DEF Filtered
    <3>8. \A other \in Images : rva \in DOMAIN CodeOf(other) => other = image
      <4>1. NextCall \in CallsAt(<<image, stack[1].rva>>)
        BY <1>1, <3>2, MadeHere DEF Filtered, PlaceOf
      <4> QED
        BY <3>2, <3>3, <4>1, Apart
    <3> QED
      BY <3>4, <3>5, <3>6, <3>7, <3>8
  <2>2. CASE EnterKernel
    <3>1. PICK rva \in KernelTarget(NextCall) :
            rva \in Nat /\ Opens("kernel", rva) /\ NextCall.kind = "syscall"
      BY <2>2, KernelOpens
    <3>2. entered' = entered /\ "kernel" \in Images
      BY <2>2 DEF EnterKernel, Images
    <3>3. Nested'
      BY <1>1, <3>1, <3>2, NestedOpen
    <3>4. Ledger'
      BY <1>1, <3>1, <3>2, LedgerKernel DEF Filtered
    <3> QED
      BY <3>1, <3>2, <3>3, <3>4
  <2> QED
    BY <2>1, <2>2
<1>3. PICK image \in Images, rva \in Nat :
        /\ Opens(image, rva) /\ Nested' /\ Ledger'
        /\ entered \subseteq entered' /\ entered' \subseteq entered \cup {rva}
        /\ rva \in entered \/ entered' = entered
             \/ \A other \in Images : rva \in DOMAIN CodeOf(other) => other = image
  BY <1>2
<1>4. Made' /\ NodesFine'
  BY <1>1, <1>3, MadeOpen, FineOpen DEF Filtered
<1>5. AboveShown' /\ ExpandedShown'
  BY <1>1, <1>3, AboveOpen, ExpandedOpen DEF Filtered
<1>6. ASSUME Progress PROVE Progress'
  BY <1>1, <1>3, <1>6, ProgressOpen
<1> QED
  BY <1>3, <1>4, <1>5, <1>6 DEF Filtered

LEMMA FilteredReturn ==
  ASSUME MapTyped, Nested, request.filter, ImagesApart, Filtered, Return
  PROVE  /\ Nested' /\ Filtered'
         /\ Progress => Progress'
<1>1. /\ UNCHANGED <<calls, request>> /\ entered' = entered /\ Len(stack) > 1
  BY DEF Return
<1>2. /\ Opened(stack[2], stack[1]) /\ Top.call \in ApiCalls /\ ~ Excludes(Top.call)
      /\ Top = stack[1] /\ stack[1] \in LevelTypes /\ stack[2] \in LevelTypes
  BY <1>1, OpenedTop
<1>3. Len(stack) \in Nat /\ 1 \in 1 .. Len(stack) /\ 2 \in 1 .. Len(stack) /\ 2 \in 2 .. Len(stack)
  BY <1>1, TopTyped
<1>4. stack[1].nodes \in Seq(TreeNodes) /\ stack[2].nodes \in Seq(TreeNodes)
  BY <1>3, NodesTyped
<1>5. PICK c \in ApiCalls : c = stack[1].call
  BY <1>2
<1>6. PICK nodes \in Seq(TreeNodes), above \in BOOLEAN :
        /\ Closes(nodes) /\ above = FALSE
        /\ NodeAdded(stack[2].nodes, nodes, stack[2], c, stack[1].nodes, above)
  <2>1. \E nodes \in Seq(TreeNodes) :
          /\ Closes(nodes)
          /\ NodeAdded(stack[2].nodes, nodes, stack[2], Top.call, Top.nodes, FALSE)
    BY <1>2, ReturnCloses
  <2>2. FALSE \in BOOLEAN
    OBVIOUS
  <2> QED
    BY <1>2, <1>5, <2>1, <2>2
<1>7. /\ FineList(stack[1].nodes, stack[1].depth) /\ FineList(stack[2].nodes, stack[2].depth)
      /\ stack[1].depth > stack[2].depth
      /\ stack[1].nodes # << >> => stack[1].nodes[1].depth > stack[2].depth
  <2>1. FineList(stack[1].nodes, stack[1].depth) /\ FineList(stack[2].nodes, stack[2].depth)
    BY <1>3 DEF Filtered, NodesFine, FineList
  <2>2. stack[1].depth > stack[2].depth
    <3>1. stack[1].depth + 1 = Len(stack) /\ stack[2].depth + 2 = Len(stack)
      BY <1>3 DEF Nested
    <3>2. PICK d \in Nat, e \in Nat : d = stack[1].depth /\ e = stack[2].depth
      BY <1>2, LevelFields
    <3>3. d + 1 = e + 2
      BY <3>1, <3>2
    <3>4. d > e
      BY <3>3
    <3> QED
      BY <3>2, <3>4
  <2> QED
    BY <2>1, <2>2 DEF FineList
<1>8. PICK n \in Nat : Grown(stack[2].nodes, nodes, stack[2], c, stack[1].nodes, above, n)
  BY <1>2, <1>4, <1>6, <1>7, Added
<1>9. Grown(stack[2].nodes, nodes, stack[2], c, stack[1].nodes, FALSE, n)
  BY <1>6, <1>8
<1>10. Nested'
  BY <1>1, <1>6, NestedClose
<1>11. Made' /\ Ledger'
  BY <1>1, <1>6, MadeClose, LedgerClose DEF Filtered
<1>12. NodesFine'
  <2>1. ~ c.out /\ (Matches(c) => c.match)
    BY <1>2, <1>5 DEF Excludes, Matches
  <2>2. PICK lvl \in LevelTypes : lvl = stack[2]
    BY <1>2
  <2>3. PICK depth \in Nat, children \in Seq(TreeNodes), before \in Seq(TreeNodes) :
          depth = stack[1].depth /\ children = stack[1].nodes /\ before = stack[2].nodes
    BY <1>2, <1>4, LevelFields
  <2>4. /\ NodeAdded(before, nodes, lvl, c, children, above)
        /\ depth > lvl.depth /\ FineList(children, depth) /\ FineList(before, lvl.depth)
    BY <1>6, <1>7, <2>2, <2>3
  <2>5. FineList(nodes, lvl.depth)
    BY <2>1, <2>4, FineAdded
  <2> QED
    BY <1>6, <2>2, <2>5, FineClose DEF Filtered, FineList
<1>13. AboveShown'
  BY <1>6, <1>9, AboveClose DEF Filtered
<1>14. ExpandedShown'
  <2>1. \A rva \in DOMAIN expanded' :
          \/ rva \in DOMAIN expanded /\ expanded'[rva] = expanded[rva]
          \/ /\ c.kind = "internal" /\ rva = c.to
             /\ expanded'[rva] = (stack[1].nodes # << >>)
    <3>1. expanded' = IF c.kind # "internal" THEN expanded
                      ELSE [rva \in DOMAIN expanded \cup {c.to} |->
                              IF rva = c.to THEN stack[1].nodes # << >> ELSE expanded[rva]]
      BY <1>2, <1>5 DEF Return
    <3>2. CASE c.kind # "internal"
      BY <3>1, <3>2
    <3>3. CASE c.kind = "internal"
      BY <3>1, <3>3
    <3> QED
      BY <3>2, <3>3
  <2> QED
    BY <1>1, <1>5, <1>6, <1>9, <2>1, ExpandedClose DEF Filtered
<1>15. ASSUME Progress PROVE Progress'
  <2>1. PICK f : f = PlaceOf(stack[2])
    OBVIOUS
  <2>2. /\ \A image, d : Has(stack[2].nodes, image, d) \/ Has(stack[1].nodes, image, d)
                           => Has(nodes, image, d)
        /\ Matches(c) => Has(nodes, stack[2].image, c)
    BY <1>4, <1>6, HasAdded
  <2>3. /\ \A image, d : Kept(image, d) => Kept(image, d)'
        /\ \A image, d : Has(nodes, image, d) => Kept(image, d)'
    BY <1>6, <2>2, KeptClose
  <2>4. f[1] = stack[2].image
    BY <2>1 DEF PlaceOf
  <2>5. Matches(c)' => Kept(f[1], c)'
    BY <1>1, <2>2, <2>3, <2>4, Frame
  <2>6. c.kind = "internal" => c.to \in entered
    BY <1>2, <1>5 DEF Opened
  <2>7. /\ KernelTarget(c)' = KernelTarget(c) /\ CodeOf(f[1])' = CodeOf(f[1])
        /\ \A g : CallsAt(g)' = CallsAt(g)
    BY <1>1, Frame
  <2>8. ASSUME NEW rva \in KernelTarget(c), NEW d \in CallsAt(<<"kernel", rva>>)
        PROVE  Seen(<<"kernel", rva>>, d)'
    <3>1. PlaceOf(stack[1]) = <<"kernel", rva>>
      <4>1. c.kind = "syscall" /\ KernelTarget(c) = {rva}
        BY TargetTyped DEF MapTyped
      <4> QED
        BY <1>2, <1>5, <4>1 DEF Opened, PlaceOf
    <3>2. Left(stack[1]) = {}
      BY <1>6, CloseLevels
    <3>3. d \in Left(stack[1]) \/ Served(PlaceOf(stack[1]), d)
      <4>1. ~ (1 > 1)
        OBVIOUS
      <4> QED
        BY <1>3, <1>15, <3>1, <4>1 DEF Progress
    <3>4. Served(<<"kernel", rva>>, d)
      BY <3>1, <3>2, <3>3
    <3>5. Seen(<<"kernel", rva>>, d)
      BY <3>4 DEF Served
    <3> QED
      BY <1>1, <2>3, <3>5, SeenStays
  <2>9. Seen(f, c)'
    BY <1>1, <2>5, <2>6 DEF Seen
  <2>10. Served(f, c)'
    BY <2>7, <2>8, <2>9 DEF Served
  <2> QED
    BY <1>1, <1>5, <1>6, <1>15, <2>1, <2>3, <2>10, ProgressClose
<1> QED
  BY <1>10, <1>11, <1>12, <1>13, <1>14, <1>15 DEF Filtered

-----------------------------------------------------------------------------
(* The invariant, and what follows from it.                                 *)

LEMMA NestedStep ==
  ASSUME MapTyped, Nested, MapNext PROVE Nested'
<1>1. CASE SkipExcluded
  BY <1>1, SkipsOne, NestedAdvance DEF SkipExcluded
<1>2. CASE Expand
  <2>1. Opens(Top.image, NextCall.to) /\ NextCall.to \in Nat /\ Top.image \in Images /\ Top = stack[1]
    BY <1>2, ExpandOpens, TopTyped
  <2>2. PICK image \in Images, rva \in Nat : image = stack[1].image /\ rva = NextCall.to
    BY <2>1
  <2>3. /\ entered' = entered \cup {rva} /\ NextCall.kind = "internal"
        /\ rva \in DOMAIN CodeOf(image) /\ calls' = calls /\ request' = request
    BY <1>2, <2>1, <2>2 DEF Expand, CanRecurse
  <2>4. Opens(image, rva) /\ entered \subseteq entered' /\ rva \in entered'
    BY <2>1, <2>2, <2>3
  <2> QED
    BY <2>2, <2>3, <2>4, NestedOpen
<1>3. CASE EnterKernel
  <2>1. PICK rva \in KernelTarget(NextCall) :
          rva \in Nat /\ Opens("kernel", rva) /\ NextCall.kind = "syscall"
    BY <1>3, KernelOpens
  <2>2. entered' = entered /\ "kernel" \in Images /\ calls' = calls /\ request' = request
    BY <1>3 DEF EnterKernel, Images
  <2> QED
    BY <2>1, <2>2, NestedOpen
<1>4. CASE Leaf
  <2>1. \E nodes \in Seq(TreeNodes) : Advances(nodes)
    BY <1>4, LeafAdds
  <2>2. entered' = entered /\ calls' = calls /\ request' = request
    BY <1>4 DEF Leaf
  <2> QED
    BY <2>1, <2>2, NestedAdvance
<1>5. CASE Return
  <2>1. \E nodes \in Seq(TreeNodes) : Closes(nodes)
    BY <1>5, OpenedTop, ReturnCloses DEF Return
  <2>2. entered' = entered /\ calls' = calls /\ request' = request
    BY <1>5 DEF Return
  <2> QED
    BY <2>1, <2>2, NestedClose
<1>6. CASE FinishMap
  <2>1. UNCHANGED <<calls, request, stack, entered>>
    BY <1>6 DEF FinishMap
  <2> QED
    BY <2>1, Frame DEF Nested, Opened
<1> QED
  BY <1>1, <1>2, <1>3, <1>4, <1>5, <1>6 DEF MapNext

LEMMA MapUnchanged ==
  ASSUME UNCHANGED <<calls, request, stack, entered, expanded>>
  PROVE  /\ Nested => Nested'
         /\ Filtered => Filtered'
         /\ Progress => Progress'
<1>0. /\ \A c : (Excludes(c)' <=> Excludes(c)) /\ (Matches(c)' <=> Matches(c))
      /\ \A c : KernelTarget(c)' = KernelTarget(c)
      /\ \A image : CodeOf(image)' = CodeOf(image)
      /\ \A f : CallsAt(f)' = CallsAt(f)
      /\ Functions' = Functions
  BY Frame
<1>1. Nested => Nested'
  BY <1>0 DEF Nested, Opened
<1>2. Made => Made'
  BY <1>0 DEF Made
<1>3. Ledger => Ledger'
  BY <1>0 DEF Ledger
<1>4. (NodesFine => NodesFine') /\ (AboveShown => AboveShown')
  BY DEF NodesFine, AboveShown, ShownBefore, ShownIn, HasChildren, Fine
<1>5. ExpandedShown => ExpandedShown'
  <2>1. ASSUME NEW image, NEW rva, ShownBefore(1, Len(stack[1].nodes), image, rva)
        PROVE  ShownBefore(1, Len(stack[1].nodes), image, rva)'
    <3>1. stack' = stack
      OBVIOUS
    <3> QED
      BY <2>1, <3>1 DEF ShownBefore, ShownIn, HasChildren
  <2> QED
    BY <1>0, <2>1 DEF ExpandedShown
<1>6. Progress => Progress'
  <2>1. \A image, d : Kept(image, d) => Kept(image, d)'
    BY DEF Kept
  <2>2. \A f, c : Served(f, c) => Served(f, c)'
    BY <2>1, SeenStays
  <2>3. \A f : OnStack(f) => OnStack(f)'
    BY DEF OnStack
  <2> QED
    BY <1>0, <2>2, <2>3 DEF Progress
<1> QED
  BY <1>1, <1>2, <1>3, <1>4, <1>5, <1>6 DEF Filtered

MapIInv ==
  /\ MapTyped /\ Nested
  /\ request.filter /\ ImagesApart =>
       Filtered /\ (request.depth > Cardinality(Functions) => Progress)

\* The levels of the walk are nested, and in a filtered one each node is kept for
\* a reason and what is passed is in the tree (TreeBuilder::build_level).
THEOREM MapInvariant == MapSpec => []MapIInv
<1>1. MapInit => MapIInv
  <2> SUFFICES ASSUME MapInit PROVE MapIInv
    OBVIOUS
  <2>1. MapTyped
    BY MapInitTyped
  <2>2. /\ "user" \in Images /\ Start \in Nat /\ 0 \in Nat /\ NoCall \in ApiCalls \cup {NoCall}
        /\ calls \in Programs
        /\ request \in [filter : BOOLEAN, depth : Nat, maxSubcalls : Nat]
    BY <2>1 DEF Images, Start, MapTyped
  <2>3. PICK first \in LevelTypes : first = Level("user", Start, 0, NoCall)
    BY <2>2, LevelTyped
  <2>4. /\ first.image = "user" /\ first.rva = Start /\ first.depth = 0 /\ first.nodes = << >>
        /\ request.filter => first.todo = CallsOf("user", Start)
    BY <2>2, <2>3, LevelTyped
  <2>5. /\ stack = <<first>> /\ entered = {Start} /\ expanded = << >>
        /\ Len(stack) = 1 /\ stack[1] = first /\ stack[Len(stack)] = first
    BY <2>3 DEF MapInit
  <2>6. Nested
    BY <2>4, <2>5 DEF Nested
  <2>7. ASSUME request.filter PROVE Left(first) = CallsAt(PlaceOf(first))
    BY <2>4, <2>7 DEF Left, CallsAt, PlaceOf
  <2>8. ASSUME request.filter PROVE Made
    BY <2>5, <2>7, <2>8 DEF Made
  <2>9. ASSUME ImagesApart PROVE Ledger
    <3>1. Start \in Functions
      BY <2>9 DEF ImagesApart, Functions
    <3>2. Cardinality(entered) = 1
      BY <2>5, FS_Singleton
    <3> QED
      BY <2>4, <2>5, <3>1, <3>2 DEF Ledger
  <2>10. NodesFine /\ AboveShown
    BY <2>4, <2>5 DEF NodesFine, AboveShown
  <2>11. ExpandedShown
    BY <2>5 DEF ExpandedShown
  <2>12. ASSUME request.filter, ImagesApart PROVE Progress
    <3>1. \A i \in 1 .. Len(stack) : Left(stack[i]) = CallsAt(PlaceOf(stack[i]))
      BY <2>5, <2>7, <2>12
    <3>2. ASSUME NEW image \in Images, NEW rva \in entered \cap DOMAIN CodeOf(image)
          PROVE  OnStack(<<image, rva>>)
      <4>1. rva = Start /\ image = "user"
        BY <2>5, <2>12 DEF ImagesApart, Images, CodeOf
      <4>2. PlaceOf(stack[1]) = <<image, rva>> /\ 1 \in 1 .. Len(stack)
        BY <2>4, <2>5, <4>1 DEF PlaceOf
      <4> QED
        BY <4>2 DEF OnStack
    <3> QED
      BY <3>1, <3>2 DEF Progress
  <2> QED
    BY <2>1, <2>6, <2>8, <2>9, <2>10, <2>11, <2>12 DEF MapIInv, Filtered
<1>2. MapIInv /\ [MapNext]_mapVars => MapIInv'
  <2> SUFFICES ASSUME MapIInv, [MapNext]_mapVars PROVE MapIInv'
    OBVIOUS
  <2>1. MapTyped /\ Nested
    BY DEF MapIInv
  <2>2. MapTyped'
    BY <2>1, MapTypedStep
  <2>3. CASE UNCHANGED mapVars
    <3>1. UNCHANGED <<calls, request, stack, entered, expanded>>
      BY <2>3 DEF mapVars
    <3>2. (ImagesApart' <=> ImagesApart) /\ Functions' = Functions /\ request' = request
      BY <3>1, Frame
    <3> QED
      BY <2>2, <3>1, <3>2, MapUnchanged DEF MapIInv
  <2>4. CASE MapNext
    <3>1. Nested'
      BY <2>1, <2>4, NestedStep
    <3>2. calls' = calls /\ request' = request
      BY <2>4 DEF MapNext, SkipExcluded, Expand, EnterKernel, Leaf, Return, FinishMap
    <3>3. (ImagesApart' <=> ImagesApart) /\ Functions' = Functions
      BY <3>2, Frame
    <3>4. ASSUME request.filter, ImagesApart
          PROVE  /\ Filtered'
                 /\ request.depth > Cardinality(Functions) => Progress'
      <4>1. Filtered /\ (request.depth > Cardinality(Functions) => Progress)
        BY <3>4 DEF MapIInv
      <4>2. CASE SkipExcluded
        BY <2>1, <3>4, <4>1, <4>2, FilteredSkip
      <4>3. CASE Expand \/ EnterKernel
        BY <2>1, <3>4, <4>1, <4>3, FilteredOpen
      <4>4. CASE Leaf
        BY <2>1, <3>4, <4>1, <4>4, FilteredLeaf
      <4>5. CASE Return
        BY <2>1, <3>4, <4>1, <4>5, FilteredReturn
      <4>6. CASE FinishMap
        <5>1. UNCHANGED <<calls, request, stack, entered, expanded>>
          BY <4>6 DEF FinishMap
        <5> QED
          BY <4>1, <5>1, MapUnchanged
      <4> QED
        BY <2>4, <4>2, <4>3, <4>4, <4>5, <4>6 DEF MapNext
    <3> QED
      BY <2>2, <3>1, <3>2, <3>3, <3>4 DEF MapIInv
  <2> QED
    BY <2>3, <2>4
<1> QED
  BY <1>1, <1>2, PTL DEF MapSpec

\* Every level, node and request of the walk has its type, and a tree is handed
\* out only when all its levels are closed (build_api_call_tree).
THEOREM MapTypeCorrect == MapSpec => []MapTyped
<1>1. MapIInv => MapTyped
  BY DEF MapIInv
<1> QED
  BY <1>1, MapInvariant, PTL

LEMMA PathsFromInvariant ==
  ASSUME MapTyped, Nested, tree # << >>, request.filter, ImagesApart, Filtered
  PROVE  PathsToMatches
<1>1. /\ tree = <<Top.nodes>> /\ Len(stack) = 1 /\ Top = stack[1]
      /\ 1 \in 1 .. Len(stack)
  BY TopTyped DEF MapTyped
<1>2. PICK all : all = tree[1]
  OBVIOUS
<1>3. all = stack[1].nodes /\ all \in Seq(TreeNodes) /\ DOMAIN all = 1 .. Len(all)
  BY <1>1, <1>2, NodesTyped
<1>4. ASSUME NEW i \in DOMAIN all
      PROVE  /\ ~ all[i].call.out
             /\ all[i].call.match \/ HasChildren(all, i) \/ all[i].above
             /\ all[i].above =>
                  \E j \in 1 .. i - 1 :
                    /\ all[j].call.to = all[i].call.to /\ all[j].call.kind = "internal"
                    /\ all[j].image = all[i].image /\ HasChildren(all, j)
  <2>1. Fine(all, i)
    BY <1>1, <1>3 DEF Filtered, NodesFine
  <2>2. all[i].above => ShownBefore(1, i - 1, all[i].image, all[i].call.to)
    BY <1>1, <1>3 DEF Filtered, AboveShown
  <2>3. all[i].above => ShownIn(all, i - 1, all[i].image, all[i].call.to)
    BY <1>1, <1>3, <2>2 DEF ShownBefore
  <2> QED
    BY <2>1, <2>3 DEF Fine, ShownIn
<1> QED
  BY <1>2, <1>4 DEF PathsToMatches

LEMMA ReachedFromInvariant ==
  ASSUME MapTyped, Nested, tree # << >>, request.filter, ImagesApart, Filtered, Progress
  PROVE  \A f \in Called : Holds(f)
<1>1. /\ tree = <<Top.nodes>> /\ Len(stack) = 1 /\ Top = stack[1] /\ stack[1].todo = << >>
      /\ 1 \in 1 .. Len(stack)
  BY TopTyped DEF MapTyped
<1>2. PlaceOf(stack[1]) = <<"user", Start>>
  BY <1>1 DEF Nested, PlaceOf
<1>3. \A c \in CallsAt(<<"user", Start>>) : Served(<<"user", Start>>, c)
  <2>1. Left(stack[1]) = {}
    BY <1>1 DEF Left
  <2>2. ~ (1 > 1)
    OBVIOUS
  <2> QED
    BY <1>1, <1>2, <2>1, <2>2 DEF Progress
<1> DEFINE S == {f \in Places : \A c \in CallsAt(f) : Served(f, c)}
<1>4. <<"user", Start>> \in S
  BY <1>3 DEF ImagesApart, Places
<1>5. ClosedUnderCalls(S)
  <2> SUFFICES ASSUME NEW f \in S, NEW g \in Steps(f) \cap Places PROVE g \in S
    BY DEF ClosedUnderCalls
  <2>1. f \in Places /\ f[1] \in Images /\ \A c \in CallsAt(f) : Served(f, c)
    BY DEF Places, Images
  <2>2. ASSUME NEW c \in CallsAt(f), c.kind = "internal", ~ Excludes(c), g = <<f[1], c.to>>
        PROVE  \A d \in CallsAt(g) : Served(g, d)
    <3>1. c.to \in DOMAIN CodeOf(f[1])
      BY <2>1, <2>2 DEF Places, CodeOf
    <3>2. c.to \in entered
      BY <2>1, <2>2, <3>1 DEF Served, Seen
    <3>3. OnStack(g) \/ \A d \in CallsAt(g) : Served(g, d)
      BY <2>1, <2>2, <3>1, <3>2 DEF Progress
    <3>4. OnStack(g) => g = <<"user", Start>>
      BY <1>1, <1>2 DEF OnStack
    <3> QED
      BY <1>3, <3>3, <3>4
  <2>3. ASSUME NEW c \in CallsAt(f), ~ Excludes(c), NEW rva \in KernelTarget(c), g = <<"kernel", rva>>
        PROVE  \A d \in CallsAt(g) : Served(g, d)
    <3>1. \A d \in CallsAt(g) : Seen(g, d)
      BY <2>1, <2>3 DEF Served
    <3>2. \A d \in CallsAt(g) : KernelTarget(d) = {}
      BY <2>3, Apart DEF Images
    <3> QED
      BY <3>1, <3>2 DEF Served
  <2>4. \A d \in CallsAt(g) : Served(g, d)
    BY <2>2, <2>3 DEF Steps
  <2> QED
    BY <2>4
<1>6. S \in SUBSET Places
  OBVIOUS
<1> HIDE DEF S
<1>7. ASSUME NEW f \in Called PROVE Holds(f)
  <2>1. f \in S
    BY <1>4, <1>5, <1>6 DEF Called
  <2>2. ASSUME NEW c \in CallsAt(f), Matches(c), ~ Excludes(c)
        PROVE  \E k \in DOMAIN tree[1] : tree[1][k].call = c /\ tree[1][k].image = f[1]
    <3>1. Kept(f[1], c)
      BY <2>1, <2>2 DEF S, Served, Seen
    <3>2. Has(stack[1].nodes, f[1], c)
      BY <1>1, <3>1 DEF Kept
    <3>3. tree[1] = stack[1].nodes /\ DOMAIN tree[1] = 1 .. Len(tree[1])
      <4>1. tree[1] = stack[1].nodes
        BY <1>1
      <4>2. stack[1].nodes \in Seq(TreeNodes)
        BY <1>1, NodesTyped
      <4> QED
        BY <4>1, <4>2
    <3> QED
      BY <3>2, <3>3 DEF Has
  <2> QED
    BY <2>2 DEF Holds
<1> QED
  BY <1>7

\* When the images have RVAs of their own, a filtered call tree is exact: nothing
\* excluded is in it, each node matches or leads to a match or to a function expanded
\* above it, and, when the depth cuts nothing, every call that matches and can be
\* reached without an excluded call is in it, although each function is expanded once
\* (TreeBuilder::build_node).
THEOREM MatchesAreExact == MapSpec => []MatchesExact
<1>1. MapIInv => MatchesExact
  <2> SUFFICES ASSUME MapIInv PROVE MatchesExact
    OBVIOUS
  <2>1. MapTyped /\ Nested
    BY DEF MapIInv
  <2>2. PathsToMatches
    <3>1. CASE tree # << >> /\ request.filter /\ ImagesApart
      BY <2>1, <3>1, PathsFromInvariant DEF MapIInv
    <3>2. CASE ~ (tree # << >> /\ request.filter /\ ImagesApart)
      BY <3>2 DEF PathsToMatches, Unfinished
    <3> QED
      BY <3>1, <3>2
  <2>3. MatchesReached
    <3>1. CASE tree # << >> /\ request.filter /\ ImagesApart /\ request.depth > Cardinality(Functions)
      BY <2>1, <3>1, ReachedFromInvariant DEF MapIInv, MatchesReached
    <3>2. CASE ~ (tree # << >> /\ request.filter /\ ImagesApart /\ request.depth > Cardinality(Functions))
      BY <3>2 DEF MatchesReached, Unfinished
    <3> QED
      BY <3>1, <3>2
  <2> QED
    BY <2>2, <2>3 DEF MatchesExact
<1> QED
  BY <1>1, MapInvariant, PTL

=============================================================================
