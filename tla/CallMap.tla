------------------------------- MODULE CallMap -------------------------------
(***************************************************************************)
(* The forward call tree of `resx calls` and `resx dump --calls`           *)
(* (resx/src/commands/dump/callmap.rs): a depth-first walk from one        *)
(* function through its internal calls, and through system calls into the  *)
(* kernel image that serves them, pruned by the call filter                *)
(* (callmap/filter.rs) and bounded by --depth and --max-subcalls.          *)
(*                                                                         *)
(* A function is its RVA.  A call is a record: how it is made, its target, *)
(* and whether the included and the excluded terms of the filter match it. *)
(* A tree is the sequence of its nodes in the order they are printed, each *)
(* with its depth.                                                         *)
(***************************************************************************)
EXTENDS Naturals, Sequences, FiniteSets

CONSTANTS
  Programs,  \* the code considered: the calls of each function of each image, and
             \* the handlers of the kernel functions that dispatch on a class
  Requests   \* filter (on or off), depth and maxSubcalls

ApiCalls ==
  [kind : {"import", "internal", "syscall"}, to : Nat, match : BOOLEAN, out : BOOLEAN,
   classes : SUBSET Nat]

\* Code is finite; RVAs are numbers.
ASSUME ProgramsAssumption ==
  \A p \in Programs :
    /\ \A code \in {p.user, p.kernel} :
         /\ DOMAIN code \subseteq Nat /\ IsFiniteSet(DOMAIN code)
         /\ \A rva \in DOMAIN code : code[rva] \in Seq(ApiCalls)
    /\ \A rva \in DOMAIN p.handlers :
         /\ DOMAIN p.handlers[rva] \subseteq Nat
         /\ \A class \in DOMAIN p.handlers[rva] : p.handlers[rva][class] \in Nat

ASSUME RequestsAssumption == Requests \subseteq [filter : BOOLEAN, depth : Nat, maxSubcalls : Nat]

VARIABLES
  calls,     \* the code: rva -> sequence of calls, for each image, and handlers
  request,   \* the options
  stack,     \* the levels being built, innermost first
  entered,   \* RVAs expanded, whatever their image
  expanded,  \* RVA -> whether its expansion kept a call
  tree       \* the finished tree, alone in a sequence

mapVars == <<calls, request, stack, entered, expanded, tree>>

NoCall == "none"
Start == 1

-----------------------------------------------------------------------------

\* ApiCall, with what the filter makes of it and, for a system call that
\* dispatches on a class, the classes that the code before it assigns.
ApiCall(kind, to, match, out) ==
  [kind |-> kind, to |-> to, match |-> match, out |-> out, classes |-> {}]

\* CallFilter: with no included term every call matches.
Excludes(c) == request.filter /\ c.out
Matches(c) == request.filter => c.match

\* resolve_dispatch_rva, over the classes that the code before the call assigns,
\* in order: the handler of the first that the dispatcher's tables have.
DispatchRva(c, rva) ==
  LET handlers == calls.handlers[rva]
      known == c.classes \cap DOMAIN handlers
  IN  IF rva \notin DOMAIN calls.handlers \/ known = {} THEN rva
      ELSE handlers[CHOOSE k \in known : \A l \in known : k <= l]

\* resolve_syscall_trace_target: the kernel function of that name, if a kernel
\* image that serves the stub is found and has it, or the handler it dispatches to.
KernelTarget(c) ==
  IF c.kind = "syscall" /\ c.to \in DOMAIN calls.kernel THEN {DispatchRva(c, c.to)} ELSE {}

\* The code of an image, and collect_api_calls of one of its functions, with the
\* call a system call stub itself makes; an RVA that has no bytes in the file has
\* none.
Images == {"user", "kernel"}
CodeOf(image) == IF image = "user" THEN calls.user ELSE calls.kernel
CallsOf(image, rva) ==
  IF rva \in DOMAIN CodeOf(image) THEN CodeOf(image)[rva] ELSE << >>

\* TreeBuilder::build_level: a filtered tree looks at every call.
Budget(list) ==
  IF request.filter \/ Len(list) <= request.maxSubcalls THEN Len(list) ELSE request.maxSubcalls

\* A level under construction: call is what opened it.
Level(image, rva, depth, call) ==
  LET list == CallsOf(image, rva)
  IN  [image |-> image, rva |-> rva, depth |-> depth, call |-> call,
       todo |-> SubSeq(list, 1, Budget(list)), unbuilt |-> Len(list) - Budget(list),
       nodes |-> << >>]

MapInit ==
  /\ calls \in Programs
  /\ request \in Requests
  /\ stack = <<Level("user", Start, 0, NoCall)>>
  /\ entered = {Start}
  /\ expanded = << >>
  /\ tree = << >>

-----------------------------------------------------------------------------
(* build_node.                                                              *)

Top == Head(stack)
NextCall == Head(Top.todo)
Unfinished == tree = << >>
Busy == Unfinished /\ Top.todo # << >>

\* A level without its next call.
Passed(level) == [level EXCEPT !.todo = Tail(@)]

CallNode(call, level, unbuilt, above) ==
  [call |-> call, image |-> level.image, depth |-> level.depth, unbuilt |-> unbuilt,
   above |-> above]

\* Mutant: a callee that was entered is taken for one that kept a call.
AboveOfVisited(c) == request.filter /\ c.kind = "internal" /\ c.to \in entered

\* Whether a node is kept: it matches, or leads to a node that is kept, or
\* repeats a function whose expansion kept something.
AboveOf(c) ==
  /\ request.filter /\ c.kind = "internal"
  /\ c.to \in DOMAIN expanded /\ expanded[c.to]

\* Mutant: a call whose callee keeps calls is not kept for them.
KeptAsMatching(c, children, above) == Matches(c) \/ above

KeptAs(c, children, above) == Matches(c) \/ children # << >> \/ above

\* A node that is kept comes before its children.
Add(level, c, children, unbuilt, above) ==
  IF KeptAs(c, children, above)
  THEN [level EXCEPT !.nodes = @ \o <<CallNode(c, level, unbuilt, above)>> \o children]
  ELSE level

Descends == Top.depth + 1 < request.depth

\* An internal call to a function that has not been expanded.
CanRecurse(c) ==
  c.kind = "internal" /\ Descends /\ c.to \notin entered /\ c.to \in DOMAIN CodeOf(Top.image)

SkipExcluded ==
  /\ Busy /\ Excludes(NextCall)
  /\ stack' = <<Passed(Top)>> \o Tail(stack)
  /\ UNCHANGED <<calls, request, entered, expanded, tree>>

Expand ==
  /\ Busy /\ ~ Excludes(NextCall) /\ CanRecurse(NextCall)
  /\ entered' = entered \cup {NextCall.to}
  /\ stack' = <<Level(Top.image, NextCall.to, Top.depth + 1, NextCall), Passed(Top)>> \o Tail(stack)
  /\ UNCHANGED <<calls, request, expanded, tree>>

\* A system call is followed each time, and is not marked.
EnterKernel ==
  /\ Busy /\ ~ Excludes(NextCall) /\ Descends
  /\ \E rva \in KernelTarget(NextCall) :
       stack' = <<Level("kernel", rva, Top.depth + 1, NextCall), Passed(Top)>> \o Tail(stack)
  /\ UNCHANGED <<calls, request, entered, expanded, tree>>

Leaf ==
  /\ Busy /\ ~ Excludes(NextCall)
  /\ ~ CanRecurse(NextCall) /\ (KernelTarget(NextCall) = {} \/ ~ Descends)
  /\ stack' = <<Add(Passed(Top), NextCall, << >>, 0, AboveOf(NextCall))>> \o Tail(stack)
  /\ UNCHANGED <<calls, request, entered, expanded, tree>>

\* The end of a level makes the node of the call that opened it.
Return ==
  /\ Unfinished /\ Top.todo = << >> /\ Len(stack) > 1
  /\ LET c == Top.call
     IN  /\ stack' = <<Add(stack[2], c, Top.nodes, Top.unbuilt, FALSE)>> \o SubSeq(stack, 3, Len(stack))
         /\ expanded' = IF c.kind # "internal" THEN expanded
                        ELSE [rva \in DOMAIN expanded \cup {c.to} |->
                                IF rva = c.to THEN Top.nodes # << >> ELSE expanded[rva]]
  /\ UNCHANGED <<calls, request, entered, tree>>

FinishMap ==
  /\ Unfinished /\ Top.todo = << >> /\ Len(stack) = 1
  /\ tree' = <<Top.nodes>>
  /\ UNCHANGED <<calls, request, stack, entered, expanded>>

MapNext == SkipExcluded \/ Expand \/ EnterKernel \/ Leaf \/ Return \/ FinishMap

MapSpec == MapInit /\ [][MapNext]_mapVars

-----------------------------------------------------------------------------
(* Properties.                                                              *)

\* The RVAs of the two images tell them apart, and kernel functions make no system
\* calls.
CallsAt(f) == {CallsOf(f[1], f[2])[k] : k \in 1 .. Len(CallsOf(f[1], f[2]))}
Places == {"user"} \X DOMAIN calls.user \cup {"kernel"} \X DOMAIN calls.kernel
ImagesApart ==
  /\ Start \in DOMAIN calls.user
  /\ DOMAIN calls.user \cap DOMAIN calls.kernel = {}
  /\ \A f \in Places : \A c \in CallsAt(f) :
       /\ c.kind = "internal" =>
            \A image \in Images \ {f[1]} : c.to \notin DOMAIN CodeOf(image)
       /\ f[1] = "kernel" => KernelTarget(c) = {}

Functions == DOMAIN calls.user \cup DOMAIN calls.kernel

HasChildren(nodes, k) == k < Len(nodes) /\ nodes[k + 1].depth > nodes[k].depth

\* A filtered tree holds only what it should: nothing that is excluded, and
\* every node that does not match leads to one that does, or says "expanded
\* above" and is right: the callee is expanded earlier in the tree.
PathsToMatches ==
  ~ Unfinished /\ request.filter /\ ImagesApart =>
    LET all == tree[1]
    IN  \A i \in DOMAIN all :
          /\ ~ all[i].call.out
          /\ all[i].call.match \/ HasChildren(all, i) \/ all[i].above
          /\ all[i].above =>
               \E j \in 1 .. i - 1 :
                 /\ all[j].call.to = all[i].call.to /\ all[j].call.kind = "internal"
                 /\ all[j].image = all[i].image /\ HasChildren(all, j)

\* The functions that one call leads to from f, but for excluded ones.
Steps(f) ==
  {<<f[1], c.to>> : c \in {x \in CallsAt(f) : x.kind = "internal" /\ ~ Excludes(x)}}
  \cup {<<"kernel", rva>> : rva \in
         UNION {KernelTarget(c) : c \in {x \in CallsAt(f) : ~ Excludes(x)}}}

\* The functions that calls lead to from the first one.
ClosedUnderCalls(S) == \A f \in S : Steps(f) \cap Places \subseteq S
Called ==
  {f \in Places :
     \A S \in SUBSET Places : <<"user", Start>> \in S /\ ClosedUnderCalls(S) => f \in S}

\* The tree has the calls of a function that match.
Holds(f) ==
  \A c \in {x \in CallsAt(f) : Matches(x) /\ ~ Excludes(x)} :
    \E k \in DOMAIN tree[1] : tree[1][k].call = c /\ tree[1][k].image = f[1]

\* When --depth is more than the number of functions, so that it cuts no path, a
\* filtered tree has every call that matches and that can be reached without an
\* excluded call, although each function is expanded once, and repeats,
\* recursion and pruned branches leave nothing to expand them for.
MatchesReached ==
  ~ Unfinished /\ request.filter /\ ImagesApart /\ request.depth > Cardinality(Functions) =>
    \A f \in Called : Holds(f)

\* With a filter, a call tree is the matching calls and the paths to them, and every
\* repeat that it cuts short is expanded above (TreeBuilder::build_node).
MatchesExact == PathsToMatches /\ MatchesReached

\* The functions that at most d calls lead to.
CalledWithin[d \in Nat] ==
  IF d = 0 THEN {<<"user", Start>>}
  ELSE CalledWithin[d - 1] \cup UNION {Steps(f) : f \in CalledWithin[d - 1]}

\* What the help of --only and --calls-only says ("Keep matching calls and the
\* path to them", resx/src/cli/args.rs), for the levels that --depth asks for.
MatchesKept ==
  ~ Unfinished /\ request.filter => \A f \in CalledWithin[request.depth - 1] : Holds(f)

=============================================================================
