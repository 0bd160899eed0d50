-------------------------- MODULE MCApiResolution --------------------------
(* Every image of three functions with two slots each, taken from two menus: *)
(* each function resolves, wraps, forwards to the next, stores and loads.    *)
EXTENDS ApiResolution, TLC

CONSTANTS g, h

Slot(op, name, fn, va, stores, ends) ==
  [op |-> op, name |-> name, fn |-> fn, va |-> va, stores |-> stores, ends |-> ends]

Succ(f) == (f % 3) + 1

Nop == Slot("nop", "text", 1, g, {}, {})

FirstSlot(f) ==
  {Nop, Slot("load", "text", f, g, {}, {"return"}), Slot("load", "text", f, h, {g}, {}),
   Slot("call", "text", Succ(f), g, {g}, {}), Slot("call", "param", Succ(f), g, {}, {"return"}),
   Slot("get", "param", f, g, {h}, {"return"})}

SecondSlot(f) ==
  {Slot("load", "text", f, g, {}, {"jump"}), Slot("call", "text", Succ(f), g, {h}, {"jump"}),
   Slot("call", "text", Succ(f), g, {}, {"return"}), Slot("get", "text", f, g, {h}, {}),
   Slot("get", "param", f, g, {g}, {"return"})}

MCPrograms ==
  {(<<1, 1>> :> a) @@ (<<2, 1>> :> b) @@ (<<3, 1>> :> c) @@ (<<1, 2>> :> d) @@ (<<2, 2>> :> e) @@ (<<3, 2>> :> i) :
     a \in FirstSlot(1), b \in FirstSlot(2), c \in FirstSlot(3), d \in SecondSlot(1), e \in SecondSlot(2), i \in SecondSlot(3)}

ASSUME HorizonSuffices == \A image \in Programs : Closed(image, Reach(image))

=============================================================================
