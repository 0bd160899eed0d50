------------------------------ MODULE HeaderParse ------------------------------
(***************************************************************************)
(* The declaration scanner of the SDK headers (parse.rs of                 *)
(* resx/src/analysis/headers), operators only: statements, prototypes with *)
(* their SAL, typedefs, enumerators and constant expressions.              *)
(*                                                                         *)
(* A header is a sequence of tokens and of object-like macros; comments,   *)
(* continuations and other directives are gone.  A token is a string, and  *)
(* the sets below say what each is; the type texts that join writes remain *)
(* sequences of tokens.                                                    *)
(***************************************************************************)
EXTENDS Integers, Sequences, FiniteSets, SequencesExt, FiniteSetsExt, TLC

CONSTANT MaxNesting  \* of an expression, 64

Closing == ("(" :> ")") @@ ("[" :> "]") @@ ("{" :> "}")
Puncts == {"(", ")", "[", "]", "{", "}", ",", ";", "*", "=", ".", "-", "~", "!", "+", "|", "<<"}
Numeral == [t \in {"0", "1", "2", "4", "8"} |->
              CASE t = "0" -> 0 [] t = "1" -> 1 [] t = "2" -> 2 [] t = "4" -> 4 [] t = "8" -> 8]
Literal == "literal"
IsIdent(t) == t \notin Puncts /\ t \notin DOMAIN Numeral /\ t # Literal

\* is_sal, and what strip takes from each annotation.
Says(direction, optional, sized) ==
  [direction |-> direction, optional |-> optional, sized |-> sized]
Sal == ("_In_" :> Says("in", FALSE, FALSE)) @@ ("_In_opt_" :> Says("in", TRUE, FALSE))
       @@ ("_In_reads_" :> Says("in", FALSE, TRUE)) @@ ("_Out_" :> Says("out", FALSE, FALSE))
       @@ ("_Out_writes_opt_" :> Says("out", TRUE, TRUE)) @@ ("_Inout_" :> Says("inout", FALSE, FALSE))
       @@ ("_Reserved_" :> Says("reserved", FALSE, FALSE)) @@ ("__in" :> Says("in", FALSE, FALSE))
       @@ ("_Success_" :> Says("none", FALSE, FALSE)) @@ ("_Post_opt_" :> Says("none", TRUE, FALSE))

\* is_api_decoration; STDAPI, which holds a type, looks like one.
Decorations == {"extern", "WINAPI", "CALLBACK", "FAR", "FORCEINLINE", "WINBASEAPI", "STDAPI"}
NotTypes == {"typedef", "struct", "enum", "class", "return"}
Trailing == {"const", "throw", "noexcept"}

-----------------------------------------------------------------------------
(* Tokens.                                                                  *)

Indices(t) == [i \in DOMAIN t |-> i]
First(t, S) == Min({i \in DOMAIN t : t[i] \in S})
LastIdent(t) == {i \in DOMAIN t : IsIdent(t[i]) /\ \A j \in i + 1 .. Len(t) : ~ IsIdent(t[j])}
Stars(t) == Cardinality({i \in DOMAIN t : t[i] = "*"})

\* matching: the last token closes what nothing else does.
Matching(t, open) ==
  LET count(x, i) == Cardinality({j \in open .. i : t[j] = x})
      closed == {i \in open .. Len(t) : count(t[open], i) = count(Closing[t[open]], i)}
  IN  IF closed = {} THEN Len(t) ELSE Min(closed)

Inner(t, open) == SubSeq(t, open + 1, Matching(t, open) - 1)

SplitCommas(t) ==
  LET step(s, i) ==
        IF t[i] \in DOMAIN Closing THEN [s EXCEPT !.depth = @ + 1]
        ELSE IF t[i] \in {")", "]", "}"} THEN [s EXCEPT !.depth = @ - 1]
        ELSE IF t[i] = "," /\ s.depth = 0
        THEN [s EXCEPT !.out = Append(@, SubSeq(t, s.start, i - 1)), !.start = i + 1]
        ELSE s
      end == FoldLeft(step, [depth |-> 0, start |-> 1, out |-> << >>], Indices(t))
  IN  IF end.start <= Len(t) THEN Append(end.out, SubSeq(t, end.start, Len(t))) ELSE end.out

\* Mutant: what precedes the body of a function waits for the next semicolon.
StatementsKeepingBodies(t) ==
  LET step(s, i) ==
        IF i < s.next THEN s
        ELSE CASE t[i] = ";" -> [s EXCEPT !.out = Append(@, SubSeq(t, s.start, i - 1)), !.start = i + 1]
               [] t[i] = "}" -> [s EXCEPT !.start = i + 1]
               [] t[i] = "{" /\ SubSeq(t, s.start, i - 1) = <<"extern", Literal>> ->
                    [s EXCEPT !.start = i + 1]
               [] t[i] = "{" /\ SubSeq(t, s.start, i - 1) # <<"extern", Literal>> ->
                    [s EXCEPT !.next = Matching(t, i) + 1]
               [] OTHER -> s
  IN  FoldLeft(step, [start |-> 1, next |-> 1, out |-> << >>], Indices(t)).out

\* statements: what ends with a semicolon, braces kept together; a block of
\* extern "C" is looked into, and a function with a body is none.
Statements(t) ==
  LET body(opener) == ")" \in Range(opener) /\ Range(opener) \cap (NotTypes \ {"return"}) = {}
      brace(s, i) ==
        LET opener == SubSeq(t, s.start, i - 1)
            end == Matching(t, i)
        IN  IF opener = <<"extern", Literal>> THEN [s EXCEPT !.start = i + 1]
            ELSE [s EXCEPT !.next = end + 1, !.start = IF body(opener) THEN end + 1 ELSE @]
      step(s, i) ==
        IF i < s.next THEN s
        ELSE CASE t[i] = ";" -> [s EXCEPT !.out = Append(@, SubSeq(t, s.start, i - 1)), !.start = i + 1]
               [] t[i] = "}" -> [s EXCEPT !.start = i + 1]
               [] t[i] = "{" -> brace(s, i)
               [] OTHER -> s
  IN  FoldLeft(step, [start |-> 1, next |-> 1, out |-> << >>], Indices(t)).out

\* strip: the tokens that are left, and what the annotations said.
Strip(t) ==
  LET sal(s, i) ==
        LET says == Sal[t[i]]
            has == i < Len(t) /\ t[i + 1] = "("
            end == IF has THEN Matching(t, i + 1) ELSE i
        IN  IF says.direction = "none" THEN [s EXCEPT !.next = end + 1]
            ELSE [s EXCEPT !.next = end + 1,
                           !.direction = IF @ = "none" THEN says.direction ELSE @,
                           !.optional = @ \/ says.optional,
                           !.size = IF has /\ says.sized /\ @ = << >>
                                    THEN SubSeq(t, i + 2, end - 1) ELSE @]
      step(s, i) ==
        IF i < s.next THEN s
        ELSE CASE t[i] \in DOMAIN Sal -> sal(s, i)
               [] t[i] = "IN" -> [s EXCEPT !.direction = IF @ = "out" THEN "inout" ELSE "in"]
               [] t[i] = "OUT" -> [s EXCEPT !.direction = IF @ = "in" THEN "inout" ELSE "out"]
               [] t[i] = "OPTIONAL" -> [s EXCEPT !.optional = TRUE]
               [] t[i] \in Decorations -> s
               [] t[i] = "CONST" -> [s EXCEPT !.out = Append(@, "const")]
               [] OTHER -> [s EXCEPT !.out = Append(@, t[i])]
  IN  FoldLeft(step, [out |-> << >>, direction |-> "none", optional |-> FALSE,
                      size |-> << >>, next |-> 1], Indices(t))

-----------------------------------------------------------------------------
(* Prototypes.                                                              *)

Place(i) == CASE i = 1 -> "arg1" [] i = 2 -> "arg2" [] OTHER -> "arg3"

\* param_name_and_type
NameAndType(t, index) ==
  LET within == IF "(" \in Range(t) THEN First(t, {"("}) .. Matching(t, First(t, {"("})) - 1 ELSE {}
      split(core, more) ==
        LET named == Len(core) >= 2 /\ IsIdent(Last(core))
        IN  <<IF named THEN Last(core) ELSE Place(index), (IF named THEN Front(core) ELSE core) \o more>>
      from(idents) ==
        IF idents # {}
        THEN <<t[Max(idents)], SubSeq(t, 1, First(t, {"("}) - 1) \o <<"(", "*", ")", "(", "...", ")">>>>
        ELSE IF "[" \in Range(t) THEN split(SubSeq(t, 1, First(t, {"["}) - 1), <<"*">>)
        ELSE split(t, << >>)
  IN  from({i \in within : IsIdent(t[i])})

\* params: each parameter, and whether there may be more.
Params(t) ==
  LET add(s, p) ==
        LET param(both) == [name |-> both[1], ty |-> both[2], direction |-> p.direction,
                            optional |-> p.optional, size |-> p.size]
        IN  IF p.out # << >> /\ Range(p.out) = {"."} THEN [s EXCEPT !.variadic = TRUE]
            ELSE IF p.out \in {<<"void">>, <<"VOID">>} THEN s
            ELSE IF p.out = << >> THEN [s EXCEPT !.ok = FALSE]
            ELSE [s EXCEPT !.out = Append(@, param(NameAndType(p.out, s.index)))]
      step(s, raw) == [add(s, Strip(raw)) EXCEPT !.index = @ + 1]
  IN  FoldLeft(step, [out |-> << >>, variadic |-> FALSE, ok |-> TRUE, index |-> 1], SplitCommas(t))

\* statement_params: the last group of parentheses outside others, annotations
\* included.
StatementParams(t) ==
  LET depth(i) == Cardinality({j \in 1 .. i - 1 : t[j] = "("})
                  - Cardinality({j \in 1 .. i - 1 : t[j] = ")"})
  IN  Inner(t, Max({i \in DOMAIN t : t[i] = "(" /\ depth(i) = 0}))

\* The tokens of a prototype without the macro that holds its type, and that type.
\* Strip has taken a leading STDAPI away before this looks for it.
Returning(t) ==
  IF Len(t) >= 2 /\ t[1] = "STDAPI_" /\ t[2] = "("
  THEN LET close == Matching(t, 2) IN
       [tokens |-> SubSeq(t, close + 1, Len(t)), macro |-> TRUE, returns |-> SubSeq(t, 3, close - 1)]
  ELSE IF t # << >> /\ t[1] = "STDAPI"
  THEN [tokens |-> Tail(t), macro |-> TRUE, returns |-> <<"HRESULT">>]
  ELSE [tokens |-> t, macro |-> FALSE, returns |-> << >>]

\* prototype: one, or none.
Prototype(statement, header) ==
  LET read(r, open, p) ==
        LET t == r.tokens
            returns == IF r.macro THEN r.returns ELSE SubSeq(t, 1, open - 2)
        IN  IF /\ open > 1 /\ IsIdent(t[open - 1])
               /\ Range(SubSeq(t, Matching(t, open) + 1, Len(t))) \subseteq Trailing \cup {"(", ")"}
               /\ r.macro => open = 2
               /\ returns # << >> /\ Range(returns) \cap {"(", ")", "["} = {}
               /\ p.ok
            THEN <<[name |-> t[open - 1], returns |-> returns, params |-> p.out,
                    variadic |-> p.variadic, header |-> header]>>
            ELSE << >>
      with(r) == IF "(" \notin Range(r.tokens) THEN << >>
                 ELSE read(r, First(r.tokens, {"("}), Params(StatementParams(statement)))
      plain(t) == IF Range(t) \cap ({"=", "{"} \cup NotTypes) # {} THEN << >> ELSE with(Returning(t))
  IN  IF Len(statement) < 3 THEN << >> ELSE plain(Strip(statement).out)

-----------------------------------------------------------------------------
(* Typedefs and enumerators.                                                *)

Nothing == [prototypes |-> << >>, typedefs |-> << >>, enums |-> << >>]
TypeDef(name, kind, target) == [name |-> name, kind |-> kind, target |-> target]

\* An enumerator without a value has an empty expression.
Enumerators(body) ==
  LET one(item) == IF Len(item) = 1 THEN <<[name |-> item[1], value |-> << >>]>>
                   ELSE IF Len(item) > 1 /\ item[2] = "="
                   THEN <<[name |-> item[1], value |-> SubSeq(item, 3, Len(item))]>>
                   ELSE << >>
  IN  FoldLeft(LAMBDA out, item : out \o one(item), << >>, SplitCommas(body))

NameIn(t) == t[Max(LastIdent(t))]
Declarators(t) == SelectSeq(SplitCommas(t), LAMBDA d : LastIdent(d) # {})

\* typedef struct/enum tag { ... } NAME, *PNAME;
BracedTypedef(t) ==
  LET enum == t[1] = "enum"
      from(open, declarators) ==
        LET tag == IF open = 3 THEN <<t[2]>> ELSE << >>
            \* the first name that is no pointer, of those up to the i-th
            primary(i) ==
              LET plain == {j \in 1 .. i : Stars(declarators[j]) = 0}
              IN  IF plain = {} THEN << >> ELSE <<NameIn(declarators[Min(plain)])>>
            one(i, name) ==
              IF Stars(declarators[i]) = 0
              THEN TypeDef(name, IF enum THEN "enum" ELSE "record", IF tag = << >> THEN <<name>> ELSE tag)
              ELSE TypeDef(name, "pointer", SubSeq(primary(i) \o tag \o <<"void">>, 1, 1))
            valued(values, named) == [i \in DOMAIN named |-> [name |-> named[i], values |-> values]]
        IN  [Nothing EXCEPT
               !.typedefs = [i \in DOMAIN declarators |-> one(i, NameIn(declarators[i]))],
               !.enums = IF ~ enum THEN << >>
                         ELSE valued(Enumerators(Inner(t, open)),
                                     SubSeq(primary(Len(declarators)) \o tag, 1, 1) \o tag)]
      at(open) == from(open, Declarators(SubSeq(t, Matching(t, open) + 1, Len(t))))
  IN  at(First(t, {"{"}))

\* typedef base NAME, *PNAME;
PlainTypedef(t) ==
  LET named(all, base, stars) ==
        LET one(i, n) ==
              TypeDef(NameIn(all[i]),
                      IF n > 0 THEN "pointer" ELSE IF "[" \in Range(all[i]) THEN "record" ELSE "alias",
                      base \o [k \in 1 .. Max({0, n - 1}) |-> "*"])
        IN  IF base = << >> THEN << >>
            ELSE [i \in DOMAIN all |-> one(i, IF i = 1 THEN stars ELSE Stars(all[i]))]
      cut(all, at, end) == named(all, SubSeq(all[1], 1, end), at - end - 1)
      first(all, at) == cut(all, at, Max({0} \cup {i \in 1 .. at - 1 : all[1][i] # "*"}))
      with(all) == first(all, Max(LastIdent(all[1])))
  IN  IF t = << >> \/ LastIdent(SplitCommas(t)[1]) = {} THEN << >> ELSE with(Declarators(t))

\* typedef returns (CALLBACK *NAME)(args);
FunctionTypedef(t) ==
  LET from(open, inner) ==
        IF "*" \notin Range(inner) \/ LastIdent(inner) = {} THEN << >>
        ELSE <<TypeDef(NameIn(inner), "function", SubSeq(t, 1, open - 1))>>
      at(open) == from(open, SubSeq(t, open, Matching(t, open) - 1))
  IN  at(First(t, {"("}))

Typedef(tokens) ==
  LET of(t) == IF t = << >> THEN Nothing
               ELSE IF "{" \in Range(t) THEN BracedTypedef(t)
               ELSE [Nothing EXCEPT !.typedefs = IF "(" \in Range(t) THEN FunctionTypedef(t)
                                                 ELSE PlainTypedef(t)]
  IN  of(Strip(tokens).out)

\* declaration
Declaration(statement, header) ==
  LET starts(word) == statement # << >> /\ statement[1] = word IN
  CASE starts("typedef") -> Typedef(Tail(statement))
    [] starts("DECLARE_HANDLE") ->
         IF Len(statement) # 4 THEN Nothing
         ELSE [Nothing EXCEPT !.typedefs = <<TypeDef(statement[3], "handle", <<"void", "*">>)>>]
    [] starts("enum") ->
         IF Len(statement) < 2 \/ "{" \notin Range(statement) \/ ~ IsIdent(statement[2]) THEN Nothing
         ELSE [Nothing EXCEPT !.enums = <<[name |-> statement[2],
                 values |-> Enumerators(Inner(statement, First(statement, {"{"})))]>>]
    [] OTHER -> [Nothing EXCEPT !.prototypes = Prototype(statement, header)]

\* parse: out with what a header adds to it.
Parse(header, out) ==
  LET add(o, d) == [o EXCEPT !.prototypes = @ \o d.prototypes, !.typedefs = @ \o d.typedefs,
                             !.enums = @ \o d.enums]
      one(o, statement) == add(o, Declaration(statement, header.path))
  IN  FoldLeft(one, [out EXCEPT !.defines = @ \o header.defines], Statements(header.tokens))

-----------------------------------------------------------------------------
(* Constant expressions.  c is the text and, for its names, a function of   *)
(* values; a name without one is not in its domain.  A result is a value    *)
(* and the place after it.                                                  *)

Fail == [ok |-> FALSE, value |-> 0, at |-> 1]
Got(value, at) == [ok |-> TRUE, value |-> value, at |-> at]
Peek(c, at) == IF at <= Len(c.text) THEN c.text[at] ELSE "end"

Precedence == ("|" :> 1) @@ ("<<" :> 4) @@ ("+" :> 5) @@ ("-" :> 5) @@ ("*" :> 6)

Apply(op, a, b) ==
  CASE op = "|" -> a + b - FoldLeft(LAMBDA s, k : s + ((a \div 2^k) % 2) * ((b \div 2^k) % 2) * 2^k,
                                    0, [k \in 1 .. 8 |-> k - 1])
    [] op = "<<" -> a * 2^b
    [] op = "+" -> a + b
    [] op = "-" -> a - b
    [] op = "*" -> a * b

\* is_cast: (TYPE) or (TYPE *) before an operand.
IsCast(c, open, close) ==
  LET inner == SubSeq(c.text, open + 1, close - 1)
      follows == Peek(c, close + 1)
  IN  /\ inner # << >> /\ \A t \in Range(inner) : IsIdent(t) \/ t = "*"
      /\ \E t \in Range(inner) : IsIdent(t) /\ t \notin DOMAIN c.known
      /\ follows \in {"(", "-", "~"} \/ (follows # "end" /\ follows \notin Puncts)

RECURSIVE Unary(_, _, _), Binary(_, _, _, _), More(_, _, _, _)

Unary(c, at, depth) ==
  LET t == Peek(c, at)
      sub == Unary(c, at + 1, depth)
      close == Matching(c.text, at)
      group == Binary(c, at + 1, 0, depth)
  IN  CASE t = "-" -> [sub EXCEPT !.value = -@]
        [] t = "+" -> sub
        [] t = "~" -> [sub EXCEPT !.value = -@ - 1]
        [] t = "!" -> [sub EXCEPT !.value = IF @ = 0 THEN 1 ELSE 0]
        [] t = "(" -> IF IsCast(c, at, close) THEN Unary(c, close + 1, depth)
                      ELSE IF group.ok /\ Peek(c, group.at) = ")" THEN Got(group.value, group.at + 1)
                      ELSE Fail
        [] t \in DOMAIN Numeral -> Got(Numeral[t], at + 1)
        [] t \in DOMAIN c.known -> Got(c.known[t], at + 1)
        [] OTHER -> Fail

\* Mutant: operators of equal precedence are taken from the right.
MoreFromRight(c, min, depth, left) ==
  LET op == Peek(c, left.at)
      right == Binary(c, left.at + 1, Precedence[op] - 1, depth)
  IN  IF ~ left.ok \/ op \notin DOMAIN Precedence THEN left
      ELSE IF Precedence[op] <= min THEN left
      ELSE IF ~ right.ok \/ (op = "<<" /\ right.value < 0) THEN Fail
      ELSE More(c, min, depth, Got(Apply(op, left.value, right.value), right.at))

\* The loop of binary: left, then operators that bind more than min.
More(c, min, depth, left) ==
  LET op == Peek(c, left.at)
      right == Binary(c, left.at + 1, Precedence[op], depth)
  IN  IF ~ left.ok \/ op \notin DOMAIN Precedence THEN left
      ELSE IF Precedence[op] <= min THEN left
      ELSE IF ~ right.ok \/ (op = "<<" /\ right.value < 0) THEN Fail
      ELSE More(c, min, depth, Got(Apply(op, left.value, right.value), right.at))

Binary(c, at, min, depth) ==
  IF depth >= MaxNesting THEN Fail ELSE More(c, min, depth + 1, Unary(c, at, depth + 1))

Evaluate(c) ==
  LET r == Binary(c, 1, 0, 0) IN
  IF r.ok /\ r.at = Len(c.text) + 1 THEN r ELSE Fail

=============================================================================
