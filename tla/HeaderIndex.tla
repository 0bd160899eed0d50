------------------------------ MODULE HeaderIndex ------------------------------
(***************************************************************************)
(* The index of the SDK headers (resx/src/analysis/headers) and what is    *)
(* said with it of a call: the headers are parsed in the order of their    *)
(* directories and the first declaration of a name wins, the macros become *)
(* constants in the order in which a hash map yields them, then the        *)
(* enumerators; and each argument of a call is shown for its type.         *)
(*                                                                         *)
(* A byte has ByteBits bits here.  A slot of a call is an integer or       *)
(* Unknown.                                                                *)
(***************************************************************************)
EXTENDS HeaderParse

CONSTANTS
  Includes,     \* sequences of headers that may be installed
  Rules,        \* RULES: records of params, apis, names and kind, in order
  Twins,        \* from the Nt and Zw names to each other
  Questions,    \* the calls that may be asked about: api, ptr, args
  MaxDepth,     \* of names in the values of names, 32
  MaxTypedefs,  \* of a chain of typedefs, 16
  ByteBits,
  Unknown

VARIABLES
  headers,
  unread,   \* the next of them to be parsed
  parsed,
  pending,  \* the names of macros that build has still to look at
  values,   \* resolve's memo: a sequence of no or one value
  index,
  call      \* the question and its answer

vars == <<headers, unread, parsed, pending, values, index, call>>

NoIndex == [built |-> FALSE]
NoCall == [asked |-> FALSE]

-----------------------------------------------------------------------------
(* Constants.                                                               *)

\* or_insert: the first element of each name.
Names(list) == {list[i].name : i \in DOMAIN list}
FirstOf(list, name) == list[Min({i \in DOMAIN list : list[i].name = name})]

Value(memo, n) == IF n \in DOMAIN memo THEN memo[n] ELSE << >>
Known(memo) == [n \in {n \in DOMAIN memo : memo[n] # << >>} |-> memo[n][1]]

\* resolve: the memo after a name has been evaluated.  The names of its value
\* are looked up until one has none, unless that makes a cast.
RECURSIVE Resolve(_, _, _, _)
Resolve(name, raw, memo, depth) ==
  LET text == raw[name]
      lookup(s, i) ==
        LET next == [s EXCEPT !.memo = Resolve(text[i], raw, @, depth + 1)]
            c == [text |-> text, known |-> Known(next.memo)]
            cast == \E o \in 1 .. i - 1 : /\ text[o] = "(" /\ i < Matching(text, o)
                                          /\ IsCast(c, o, Matching(text, o))
        IN  IF s.stopped \/ ~ IsIdent(text[i]) THEN s
            ELSE [next EXCEPT !.stopped = text[i] \notin DOMAIN c.known /\ ~ cast]
      looked == FoldLeft(lookup, [memo |-> (name :> << >>) @@ memo, stopped |-> FALSE],
                         Indices(text)).memo
      r == Evaluate([text |-> text, known |-> Known(looked)])
  IN  IF name \in DOMAIN memo \/ depth > MaxDepth \/ name \notin DOMAIN raw THEN memo
      ELSE [looked EXCEPT ![name] = IF r.ok THEN <<r.value>> ELSE << >>]

\* The values of one enumeration: up to the first that has none.
Enumeration(list, constants) ==
  LET one(s, e) ==
        LET own == [n \in Names(s.out) |-> FirstOf(Reverse(s.out), n).value]
            r == IF e.value = << >> THEN Got(s.next, 1)
                 ELSE Evaluate([text |-> e.value, known |-> own @@ constants])
        IN  IF s.stopped \/ ~ r.ok THEN [s EXCEPT !.stopped = TRUE]
            ELSE [s EXCEPT !.next = r.value + 1,
                           !.out = Append(@, [name |-> e.name, value |-> r.value])]
  IN  FoldLeft(one, [out |-> << >>, next |-> 0, stopped |-> FALSE], list).out

-----------------------------------------------------------------------------
(* Types.                                                                   *)

Class(kind, bytes) == [kind |-> kind, bytes |-> bytes]

\* primitive
Primitive(t) ==
  CASE t \in {<<"void">>, <<"VOID">>} -> Class("void", 0)
    [] t = <<"BOOL">> -> Class("bool", 4)
    [] t = <<"BOOLEAN">> -> Class("bool", 1)
    [] t \in {<<"NTSTATUS">>, <<"HRESULT">>} -> Class("status", 4)
    [] t \in {<<"char">>, <<"unsigned", "char">>} -> Class("int", 1)
    [] t \in {<<"short">>, <<"wchar_t">>} -> Class("int", 2)
    [] t \in {<<"int">>, <<"long">>, <<"unsigned", "long">>} -> Class("int", 4)
    [] t \in {<<"unsigned", "__int64">>, <<"__int64">>} -> Class("int", 8)
    [] t = <<"double">> -> Class("float", 8)
    [] t \in {<<"size_t">>, <<"ULONG_PTR">>} -> Class("pointer sized", 0)
    [] OTHER -> Class("none", 0)

Qualifiers == {"const", "volatile", "struct", "enum"}
Unqualified(t) == SelectSeq(t, LAMBDA x : x \notin Qualifiers)

\* char_width: of what a text of that many bytes is made, or 0.
RECURSIVE CharWidth(_, _, _)
CharWidth(ix, t, n) ==
  LET base == IF t # << >> /\ t[1] = "const" THEN Tail(t) ELSE t IN
  IF n = 0 THEN 0
  ELSE IF base \in {<<"char">>, <<"unsigned", "char">>} THEN 1
  ELSE IF base = <<"wchar_t">> THEN 2
  ELSE IF Len(base) = 1 /\ base[1] \in DOMAIN ix.typedefs /\ ix.typedefs[base[1]].kind = "alias"
  THEN CharWidth(ix, ix.typedefs[base[1]].target, n - 1)
  ELSE 0

RECURSIVE ClassOf(_, _, _)
ClassOf(ix, ty, n) ==
  LET t == Unqualified(ty)
      def == ix.typedefs[t[1]]
  IN  IF n = 0 \/ t = << >> THEN Class("record", 0)
      ELSE IF Last(t) = "*" THEN Class("pointer", CharWidth(ix, Front(t), MaxTypedefs))
      ELSE IF Primitive(t).kind # "none" THEN Primitive(t)
      ELSE IF Len(t) > 1 \/ t[1] \notin DOMAIN ix.typedefs THEN Class("record", 0)
      ELSE CASE def.kind = "pointer" -> Class("pointer", CharWidth(ix, def.target, MaxTypedefs))
             [] def.kind = "function" -> Class("function pointer", 0)
             [] def.kind = "handle" -> Class("handle", 0)
             [] def.kind = "enum" -> Class("enum", 4)
             [] def.kind = "record" -> Class("record", 0)
             [] def.kind = "alias" /\ t[1] \in DOMAIN ix.enums -> Class("enum", 4)
             [] def.kind = "alias" /\ t[1] \notin DOMAIN ix.enums -> ClassOf(ix, def.target, n - 1)

\* classify
Classify(ix, ty) == ClassOf(ix, ty, MaxTypedefs)

\* Mutant: a 64-bit argument takes one slot of a 32-bit call.
SlotsAlwaysOne(class, ptr) == 1

\* Class::slots
ArgumentSlots(class, ptr) == IF ptr = 4 /\ class.bytes = 8 /\ class.kind \in {"int", "float"} THEN 2 ELSE 1

-----------------------------------------------------------------------------
(* Families of constants.                                                   *)

Bits(v) == {k \in 0 .. 15 : (v \div 2^k) % 2 = 1}
ValueOf(bits) == FoldSet(LAMBDA k, s : s + 2^k, 0, bits)

\* Candidates::build, for the constants that one rule draws from; among equal
\* values the first name is taken.
Candidates(ix, r) ==
  LET drawn == {n \in r.names : n \in DOMAIN ix.constants}
      names == SetToSortSeq(drawn, LAMBDA a, b :
                 \E i, j \in DOMAIN r.order : i < j /\ r.order[i] = a /\ r.order[j] = b)
  IN  [i \in DOMAIN names |-> [name |-> names[i], value |-> ix.constants[names[i]]]]

Exact(candidates, v) ==
  LET hits == SelectSeq(candidates, LAMBDA c : c.value = v) IN
  IF hits = << >> THEN << >> ELSE <<[names |-> {hits[1].name}, rest |-> 0]>>

\* flags: the widest first, and of those of equal width the greatest.
Flags(candidates, v) ==
  LET wider(a, b) == \/ Cardinality(Bits(a.value)) > Cardinality(Bits(b.value))
                     \/ Cardinality(Bits(a.value)) = Cardinality(Bits(b.value)) /\ a.value > b.value
      nonzero == {candidates[i] : i \in {i \in DOMAIN candidates : candidates[i].value # 0}}
      take(s, c) ==
        IF s.rest # {} /\ Bits(c.value) \subseteq s.rest
        THEN [names |-> s.names \cup {c.name}, rest |-> s.rest \ Bits(c.value)] ELSE s
      end == FoldLeft(take, [names |-> {}, rest |-> Bits(v)], SetToSortSeq(nonzero, wider))
  IN  IF end.names = {} THEN << >> ELSE <<[names |-> end.names, rest |-> ValueOf(end.rest)]>>

\* Candidates::decode, by the first rule that applies.
Decode(ix, api, param, v) ==
  LET rules == SelectSeq(Rules, LAMBDA r : param \in r.params /\ (r.apis = {} \/ api \in r.apis))
      c == Candidates(ix, rules[1])
  IN  IF rules = << >> THEN << >>
      ELSE IF rules[1].kind = "enum" \/ Exact(c, v) # << >> THEN Exact(c, v)
      ELSE Flags(c, v)

-----------------------------------------------------------------------------
(* A call.                                                                  *)

Mask(bytes) == 2^(ByteBits * bytes)

\* prototype: the name, its alias, or its twin.
PrototypeOf(ix, name) ==
  LET aliased == IF name \in DOMAIN ix.aliases THEN ix.aliases[name] ELSE name
      twin == IF name \in DOMAIN Twins THEN Twins[name] ELSE name
      found == SelectSeq(<<name, aliased, twin>>, LAMBDA n : n \in DOMAIN ix.prototypes)
  IN  IF found = << >> THEN << >> ELSE <<ix.prototypes[found[1]]>>

Shown(how, v) == [how |-> how, value |-> v]

\* render_value, of an integer
RenderInt(ix, api, param, class, raw, ptr) ==
  LET bytes == IF class.kind \in {"int", "bool", "status", "enum"} THEN class.bytes ELSE ptr
      v == raw % Mask(bytes)
      decoded == Decode(ix, api, param.name, v)
      handle == class.kind = "handle" \/ param.ty = <<"HANDLE">>
      enum == IF class.kind # "enum" \/ Unqualified(param.ty)[1] \notin DOMAIN ix.enums THEN << >>
              ELSE SelectSeq(ix.enums[Unqualified(param.ty)[1]], LAMBDA e : e.value = v)
  IN  IF decoded # << >> THEN Shown("names", decoded[1])
      ELSE IF handle /\ v \in {Mask(ptr) - 1, Mask(ptr) - 2} THEN Shown("pseudo handle", v)
      ELSE IF class.kind \in {"pointer", "function pointer", "handle"} /\ v = 0 THEN Shown("NULL", 0)
      ELSE IF class.kind = "bool" /\ v <= 1 THEN Shown("bool", v)
      ELSE IF enum # << >> THEN Shown("enumerator", enum[1].name)
      ELSE Shown("number", v)

\* render_call: what is shown of each parameter.
RenderCall(ix, prototype, args, ptr) ==
  LET one(s, p) ==
        LET class == Classify(ix, p.ty)
            n == ArgumentSlots(class, ptr)
            at(i) == IF i \in DOMAIN args THEN args[i] ELSE Unknown
            v == IF class.kind = "float" THEN Unknown
                 ELSE IF n = 2 /\ at(s.slot) # Unknown /\ at(s.slot + 1) # Unknown
                 THEN (at(s.slot) % Mask(4)) + at(s.slot + 1) * Mask(4)
                 ELSE at(s.slot)
        IN  [slot |-> s.slot + n,
             out |-> Append(s.out, IF v = Unknown THEN Shown("?", 0)
                                   ELSE RenderInt(ix, prototype.name, p, class, v, ptr))]
  IN  FoldLeft(one, [slot |-> 1, out |-> << >>], prototype.params).out

-----------------------------------------------------------------------------
(* Actions.                                                                 *)

Init ==
  /\ headers \in Includes /\ unread = 1
  /\ parsed = [prototypes |-> << >>, typedefs |-> << >>, enums |-> << >>, defines |-> << >>]
  /\ pending = {} /\ values = << >> /\ index = NoIndex /\ call = NoCall

ReadHeader ==
  /\ unread <= Len(headers)
  /\ parsed' = Parse(headers[unread], parsed)
  /\ unread' = unread + 1
  /\ pending' = Names(parsed'.defines)
  /\ UNCHANGED <<headers, values, index, call>>

Raw == [n \in Names(parsed.defines) |-> FirstOf(parsed.defines, n).value]

ResolveNext ==
  /\ unread > Len(headers)
  /\ \E n \in pending : /\ values' = Resolve(n, Raw, values, 0)
                        /\ pending' = pending \ {n}
  /\ UNCHANGED <<headers, unread, parsed, index, call>>

\* The rest of from_parsed.
FromParsed ==
  LET prototypes == [n \in Names(parsed.prototypes) |-> FirstOf(parsed.prototypes, n)]
      known == Known(values)
      enums == [n \in Names(parsed.enums) |-> Enumeration(FirstOf(parsed.enums, n).values, known)]
      inOrder == FlattenSeq([i \in DOMAIN parsed.enums |-> enums[parsed.enums[i].name]])
  IN  [built |-> TRUE, prototypes |-> prototypes, enums |-> enums,
       typedefs |-> [n \in Names(parsed.typedefs) |-> FirstOf(parsed.typedefs, n)],
       aliases |-> [n \in {n \in DOMAIN Raw \ DOMAIN known :
                             Len(Raw[n]) = 1 /\ Raw[n][1] \in DOMAIN prototypes} |-> Raw[n][1]],
       constants |-> known @@ [n \in Names(inOrder) |-> FirstOf(inOrder, n).value]]

FinishIndex ==
  /\ unread > Len(headers) /\ pending = {} /\ ~ index.built
  /\ index' = FromParsed
  /\ UNCHANGED <<headers, unread, parsed, pending, values, call>>

\* enrich_calls and the rendering, of one call whose API has a prototype
Ask ==
  /\ index.built /\ ~ call.asked
  /\ \E q \in Questions :
       LET p == PrototypeOf(index, q.api) IN
       /\ p # << >>
       /\ call' = [asked |-> TRUE, question |-> q, shown |-> RenderCall(index, p[1], q.args, q.ptr)]
  /\ UNCHANGED <<headers, unread, parsed, pending, values, index>>

Next == ReadHeader \/ ResolveNext \/ FinishIndex \/ Ask
Spec == Init /\ [][Next]_vars

-----------------------------------------------------------------------------
(* Properties.  A header carries what its author means by it (means): the   *)
(* declarations that C reads in it and the values of its macros; a question *)
(* carries the values that the caller passes (means), one for a parameter.  *)

\* Every declaration of the headers is read as it is meant, annotations of any
\* style included, and every macro has its value, whatever the order in which
\* they are looked at.  A prototype whose type is the macro STDAPI is the exception:
\* it is not read at all, as the macro is taken for a decoration (parse.rs:460) and
\* nothing is left of the type (parse.rs:585).
HeadersAreUnderstood ==
  index.built =>
    LET all(what(_)) == FlattenSeq([i \in DOMAIN headers |-> what(headers[i].means)])
        constants == all(LAMBDA m : m.constants)
        stdapi == UNION {headers[i].means.stdapi : i \in DOMAIN headers}
    IN  /\ parsed.prototypes = SelectSeq(all(LAMBDA m : m.prototypes), LAMBDA p : p.name \notin stdapi)
        /\ parsed.typedefs = all(LAMBDA m : m.typedefs)
        /\ parsed.enums = all(LAMBDA m : m.enums)
        /\ index.constants = [n \in Names(constants) |-> FirstOf(constants, n).value]

\* What is shown of an argument says the value that was passed for that
\* parameter: the slots are assigned as the compiler does, upper halves that the
\* type has not are dropped, and a decomposition into flags is that value again.
ArgumentsAreRight ==
  call.asked =>
    \A i \in DOMAIN call.shown :
      LET shown == call.shown[i]
          v == call.question.means[i]
          bits(n) == Bits(index.constants[n])
      IN  CASE shown.how = "?" -> v = Unknown
            [] shown.how = "enumerator" -> index.constants[shown.value] = v
            [] shown.how = "names" ->
                 /\ ValueOf(UNION {bits(n) : n \in shown.value.names}) + shown.value.rest = v
                 /\ \A n, m \in shown.value.names : n # m => bits(n) \cap bits(m) = {}
            [] OTHER -> shown.value = v

=============================================================================
