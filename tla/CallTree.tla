------------------------------ MODULE CallTree ------------------------------
(***************************************************************************)
(* The breadth-first construction of the reverse call tree that            *)
(* `resx callers` prints (build_call_tree in                               *)
(* resx/src/analysis/follow/trace.rs), under its three bounds: --depth,    *)
(* --max-callers per node and --max-total over the tree.                   *)
(*                                                                         *)
(* A function is its key, a natural number: keys are ordered, and the      *)
(* callers of a function are expanded in that order.  The global call      *)
(* graph gives the callers of each function that --filter-dll keeps, as a  *)
(* sequence, because one caller may appear twice: as a direct caller and   *)
(* through a wrapper export (dedup_callers keeps the two apart).  The      *)
(* graph and the options are inputs: any of the given ones, fixed from     *)
(* the start.                                                              *)
(***************************************************************************)
EXTENDS Naturals, Sequences

CONSTANTS
  Funcs,    \* the function keys
  Root,     \* the function whose callers are wanted
  Graphs,   \* the call graphs considered: callers in key order
  Options   \* the options considered; zero means no bound for the last two

ASSUME FuncsAssumption == Funcs \subseteq Nat /\ Root \in Funcs
ASSUME GraphsAssumption == Graphs \subseteq [Funcs -> Seq(Funcs)]
ASSUME OptionsAssumption ==
  Options \subseteq [depth : Nat, maxCallers : Nat, maxTotal : Nat]

VARIABLES
  graph,     \* the call graph
  opt,       \* --depth, --max-callers and --max-total
  flat,      \* the nodes of the tree, in the order they are found
  level,     \* the depth being expanded
  frontier,  \* nodes of this level still to expand
  next,      \* nodes of the next level found so far
  parent,    \* the node being expanded
  pending,   \* its callers still to be added
  visited,   \* functions that have been found
  total,     \* nodes added to the tree
  phase      \* where the loops are

input == <<graph, opt>>
vars == <<graph, opt, flat, level, frontier, next, parent, pending, visited,
          total, phase>>

-----------------------------------------------------------------------------

\* FlatEntry: the parent replaces the list of children; 0 is no parent.
Node(func, from, depth, truncated) ==
  [func |-> func, parent |-> from, depth |-> depth, truncated |-> truncated]

\* callers_for, then the --filter-dll retain and the sort by key.
CallersFor(func) == graph[func]

\* check_total
AtTotal == opt.maxTotal > 0 /\ total >= opt.maxTotal

Truncate(node) == flat' = [flat EXCEPT ![node].truncated = TRUE]

Init ==
  /\ graph \in Graphs
  /\ opt \in Options
  /\ flat = <<Node(Root, 0, 0, FALSE)>>
  /\ level = 0
  /\ frontier = <<1>>
  /\ next = <<>>
  /\ parent = 0
  /\ pending = <<>>
  /\ visited = {Root}
  /\ total = 0
  /\ phase = "level"

\* The head of the loop over depths.
BeginLevel ==
  /\ phase = "level"
  /\ level < opt.depth
  /\ frontier # <<>>
  /\ ~AtTotal
  /\ next' = <<>>
  /\ phase' = "target"
  /\ UNCHANGED <<input, flat, level, frontier, parent, pending, visited, total>>

\* Mutant: the last level is not expanded.
FinishEarly ==
  /\ phase = "level"
  /\ level + 1 >= opt.depth \/ frontier = <<>> \/ AtTotal
  /\ phase' = "done"
  /\ UNCHANGED <<input, flat, level, frontier, next, parent, pending, visited,
                 total>>

Finish ==
  /\ phase = "level"
  /\ level = opt.depth \/ frontier = <<>> \/ AtTotal
  /\ phase' = "done"
  /\ UNCHANGED <<input, flat, level, frontier, next, parent, pending, visited,
                 total>>

\* Take the next target of the frontier and its callers, cut at --max-callers.
QueryCallers ==
  /\ phase = "target"
  /\ frontier # <<>>
  /\ LET node == Head(frontier)
         callers == CallersFor(flat[node].func)
         cut == opt.maxCallers > 0 /\ Len(callers) > opt.maxCallers
     IN /\ parent' = node
        /\ pending' = IF cut THEN SubSeq(callers, 1, opt.maxCallers)
                             ELSE callers
        /\ IF cut THEN Truncate(node) ELSE UNCHANGED flat
  /\ frontier' = Tail(frontier)
  /\ phase' = "callers"
  /\ UNCHANGED <<input, level, next, visited, total>>

\* Mutant: every caller is expanded, seen before or not.
AddCallerAlwaysNew ==
  /\ phase = "callers"
  /\ pending # <<>>
  /\ ~AtTotal
  /\ flat' = Append(flat, Node(Head(pending), parent, level + 1, FALSE))
  /\ next' = Append(next, Len(flat) + 1)
  /\ visited' = visited \cup {Head(pending)}
  /\ total' = total + 1
  /\ pending' = Tail(pending)
  /\ UNCHANGED <<input, level, frontier, parent, phase>>

\* Mutant: a new caller joins the frontier being expanded (depth first).
AddCallerSameLevel ==
  /\ phase = "callers"
  /\ pending # <<>>
  /\ ~AtTotal
  /\ LET caller == Head(pending)
         isNew == caller \notin visited
     IN /\ flat' = Append(flat, Node(caller, parent, flat[parent].depth + 1,
                                     ~isNew))
        /\ frontier' = IF isNew THEN <<Len(flat) + 1>> \o frontier
                                ELSE frontier
        /\ visited' = visited \cup {caller}
  /\ total' = total + 1
  /\ pending' = Tail(pending)
  /\ UNCHANGED <<input, level, next, parent, phase>>

\* Add the next caller; one that was found before becomes a truncated leaf.
AddCaller ==
  /\ phase = "callers"
  /\ pending # <<>>
  /\ ~AtTotal
  /\ LET caller == Head(pending)
         isNew == caller \notin visited
     IN /\ flat' = Append(flat, Node(caller, parent, level + 1, ~isNew))
        /\ next' = IF isNew THEN Append(next, Len(flat) + 1) ELSE next
        /\ visited' = visited \cup {caller}
  /\ total' = total + 1
  /\ pending' = Tail(pending)
  /\ UNCHANGED <<input, level, frontier, parent, phase>>

\* Mutant: the list that --max-total cuts does not say so.
CutAtTotalUnmarked ==
  /\ phase = "callers"
  /\ pending # <<>>
  /\ AtTotal
  /\ pending' = <<>>
  /\ UNCHANGED <<input, flat, level, frontier, next, parent, visited, total, phase>>

\* --max-total is used up: the rest of the callers of this target are cut.
CutAtTotal ==
  /\ phase = "callers"
  /\ pending # <<>>
  /\ AtTotal
  /\ Truncate(parent)
  /\ pending' = <<>>
  /\ UNCHANGED <<input, level, frontier, next, parent, visited, total, phase>>

EndTarget ==
  /\ phase = "callers"
  /\ pending = <<>>
  /\ phase' = "target"
  /\ UNCHANGED <<input, flat, level, frontier, next, parent, pending, visited,
                 total>>

EndLevel ==
  /\ phase = "target"
  /\ frontier = <<>>
  /\ frontier' = next
  /\ level' = level + 1
  /\ phase' = "level"
  /\ UNCHANGED <<input, flat, next, parent, pending, visited, total>>

Next ==
  \/ BeginLevel \/ Finish
  \/ QueryCallers \/ AddCaller \/ CutAtTotal \/ EndTarget \/ EndLevel

Spec == Init /\ [][Next]_vars

-----------------------------------------------------------------------------
(* Properties.                                                              *)

Nodes == 1 .. Len(flat)

FirstSighting(i) == \A j \in 1 .. i - 1 : flat[j].func # flat[i].func

\* The nodes under a node are its callers, in order.
ListsCallers(i) ==
  LET callers == CallersFor(flat[i].func)
  IN  \E b \in Nodes :
        /\ {j \in Nodes : flat[j].parent = i} = b + 1 .. b + Len(callers)
        /\ \A k \in 1 .. Len(callers) : flat[b + k].func = callers[k]

TypeOK ==
  /\ graph \in Graphs /\ opt \in Options
  /\ flat \in Seq([func : Funcs, parent : Nat, depth : Nat,
                   truncated : BOOLEAN])
  /\ level \in Nat /\ total \in Nat /\ parent \in 0 .. Len(flat)
  /\ frontier \in Seq(Nodes) /\ next \in Seq(Nodes)
  /\ pending \in Seq(Funcs)
  /\ visited \subseteq Funcs
  /\ phase \in {"level", "target", "callers", "done"}

\* --max-total bounds the nodes of the tree below the root, duplicates
\* included, however many callers one target has.
TotalBounded == opt.maxTotal > 0 => Len(flat) - 1 <= opt.maxTotal

\* No function is expanded twice, so recursion and shared callers do not
\* multiply the tree: nodes that have children are about different functions.
ExpandedOnce ==
  \A i, j \in 2 .. Len(flat) :
    flat[flat[i].parent].func = flat[flat[j].parent].func
      => flat[i].parent = flat[j].parent

\* The tree is breadth first: a node lies one below its parent, no node
\* lies above an earlier one, so the sighting that is expanded is a
\* shallowest one, and none lies below --depth.
BreadthFirst ==
  \A i \in 2 .. Len(flat) :
    /\ flat[i].parent \in 1 .. i - 1
    /\ flat[i].depth = flat[flat[i].parent].depth + 1
    /\ flat[i - 1].depth <= flat[i].depth
    /\ flat[i].depth <= opt.depth

\* A target whose callers were queried and not all listed says so.
QueriedCutsMarked ==
  phase = "done" =>
    \A i \in Nodes :
      FirstSighting(i) /\ flat[i].depth < level
        => flat[i].truncated \/ ListsCallers(i)

Calls(f, g) == \E k \in DOMAIN CallersFor(g) : CallersFor(g)[k] = f

\* f is at most d calls away from the root.
Within(f, d) ==
  \E n \in 0 .. d : \E path \in [0 .. n -> Funcs] :
    path[0] = Root /\ path[n] = f /\ \A k \in 1 .. n : Calls(path[k], path[k - 1])

\* What a tree shows of a function's callers is all of them, or its node says that
\* there are more, in whichever caller list a budget cut it (trace.rs:361).  When no
\* budget cuts the tree it is the whole answer: every function at a distance below
\* --depth appears, its first sighting lists exactly its callers, and nothing
\* farther than --depth appears.
TreeIsComplete ==
  /\ QueriedCutsMarked
  /\ phase = "done" /\ ~AtTotal /\ opt.maxCallers = 0 =>
       /\ {flat[i].func : i \in Nodes} = {f \in Funcs : Within(f, opt.depth)}
       /\ \A i \in Nodes :
            FirstSighting(i) /\ opt.depth > 0 /\ Within(flat[i].func, opt.depth - 1)
              => ListsCallers(i)

=============================================================================
