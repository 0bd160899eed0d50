------------------------------- MODULE MCAnalysis -------------------------------
(***************************************************************************)
(* What RESX concludes about the APIs of an image, for TLC: the fixpoint   *)
(* of the API resolution and the index of the SDK headers.  They share no  *)
(* variable, so a behaviour moves one of them and leaves the other as it   *)
(* began.                                                                  *)
(***************************************************************************)
EXTENDS MCApiResolution, HeaderParse

CONSTANTS
  MaxDepth, MaxTypedefs, ByteBits, Unknown   \* see HeaderIndex

VARIABLES
  part,  \* the model that moves
  headers, unread, parsed, pending, values, index, call

-----------------------------------------------------------------------------
(* Headers, and calls of what they declare: each carries what its author   *)
(* means by it.                                                             *)

\* Parameters as they are written, and what they mean.
P(tokens, name, ty, direction, optional, size) ==
  [tokens |-> tokens,
   means |-> [name |-> name, ty |-> ty, direction |-> direction, optional |-> optional, size |-> size]]
Parameters == {
  P(<<"_In_", "DWORD", "a">>, "a", <<"DWORD">>, "in", FALSE, << >>),
  P(<<"_In_opt_", "FAR", "DWORD", "*", "p">>, "p", <<"DWORD", "*">>, "in", TRUE, << >>),
  P(<<"_Out_writes_opt_", "(", "a", "*", "2", ")", "char", "*", "s">>, "s", <<"char", "*">>, "out",
    TRUE, <<"a", "*", "2">>),
  P(<<"IN", "OUT", "PDWORD", "q", "OPTIONAL">>, "q", <<"PDWORD">>, "inout", TRUE, << >>),
  P(<<"CONST", "BYTES", "*", "b">>, "b", <<"const", "BYTES", "*">>, "none", FALSE, << >>),
  P(<<"_Inout_", "DWORD", "l", "[", "4", "]">>, "l", <<"DWORD", "*">>, "inout", FALSE, << >>),
  P(<<"DWORD", "(", "CALLBACK", "*", "f", ")", "(", "int", ",", "int", ")">>, "f",
    <<"DWORD", "(", "*", ")", "(", "...", ")">>, "none", FALSE, << >>)}
Unnamed(i) == P(<<"_In_", "HANDLE">>, IF i = 1 THEN "arg1" ELSE "arg2", <<"HANDLE">>, "in", FALSE, << >>)
Rest == <<"...">>
Lists ==
  {<< >>} \cup {<<p>> : p \in Parameters \cup {Unnamed(1)}}
  \cup {<<p, q>> : p \in Parameters, q \in Parameters \cup {Unnamed(2)}}

Comma(list) == FlattenSeq([i \in DOMAIN list |-> (IF i = 1 THEN << >> ELSE <<",">>) \o list[i]])

\* stdapi: the names of the prototypes that are declared with STDAPI.
NoMeans == [stdapi |-> {}, prototypes |-> << >>, typedefs |-> << >>, enums |-> << >>, constants |-> << >>]
Header(tokens, defines, means) ==
  [path |-> "um", tokens |-> tokens, defines |-> defines, means |-> means]

Ahead == {<< >>, <<"WINBASEAPI", "_Success_", "(", "return", "!", "=", "0", ")">>,
           <<"FORCEINLINE", "BOOL", "g", "(", "int", "a", ")", "{", "return", "a", ";", "}">>,
           <<"extern", Literal, "{">>}
ReturnTypes == {<<<<"BOOL">>, <<"BOOL", "WINAPI">>>>,
                <<<<"HRESULT">>, <<"STDAPI">>>>,
                <<<<"const", "char", "*">>, <<"STDAPI_", "(", "CONST", "char", "*", ")">>>>}
PrototypeHeader(before, returns, list, variadic) ==
  LET params == IF list = << >> /\ ~ variadic THEN <<<<"VOID">>>>
                ELSE [i \in DOMAIN list |-> list[i].tokens]
                     \o (IF variadic THEN <<<<".", ".", ".">>>> ELSE << >>)
  IN  Header(before \o returns[2] \o <<"F", "(">> \o Comma(params) \o <<")", ";">>
               \o (IF Last(<<";">> \o before) = "{" THEN <<"}">> ELSE << >>), << >>,
             [NoMeans EXCEPT !.stdapi = IF returns[2] = <<"STDAPI">> THEN {"F"} ELSE {}, !.prototypes =
                <<[name |-> "F", returns |-> returns[1], variadic |-> variadic, header |-> "um",
                   params |-> [i \in DOMAIN list |-> list[i].means]]>>])
Prototyped ==
  {<<PrototypeHeader(b, r, l, v)>> : b \in Ahead, r \in ReturnTypes, l \in Lists, v \in BOOLEAN}

\* Types.
T(tokens, typedefs, enums) ==
  Header(tokens, << >>, [NoMeans EXCEPT !.typedefs = typedefs, !.enums = enums])
Types == <<
  T(<<"typedef", "unsigned", "long", "DWORD", ",", "*", "PDWORD", ",", "FAR", "*", "*", "PPDWORD", ";">>,
    <<TypeDef("DWORD", "alias", <<"unsigned", "long">>),
      TypeDef("PDWORD", "pointer", <<"unsigned", "long">>),
      TypeDef("PPDWORD", "pointer", <<"unsigned", "long", "*">>)>>, << >>),
  T(<<"typedef", "unsigned", "__int64", "ULONGLONG", ";",
      "typedef", "CONST", "char", "*", "LPCSTR", ";", "DECLARE_HANDLE", "(", "HKEY", ")", ";">>,
    <<TypeDef("ULONGLONG", "alias", <<"unsigned", "__int64">>),
      TypeDef("LPCSTR", "pointer", <<"const", "char">>),
      TypeDef("HKEY", "handle", <<"void", "*">>)>>, << >>),
  T(<<"typedef", "struct", "_S", "{", "DWORD", "a", ";", "}", "S", ",", "*", "PS", ";",
      "typedef", "struct", "_U", "*", "PU", ";",
      "typedef", "BOOL", "(", "CALLBACK", "*", "PROC", ")", "(", "HKEY", ")", ";",
      "typedef", "void", "*", "HANDLE", ";", "typedef", "DWORD", "COLORREF", ";">>,
    <<TypeDef("S", "record", <<"_S">>), TypeDef("PS", "pointer", <<"S">>),
      TypeDef("PU", "pointer", <<"struct", "_U">>), TypeDef("PROC", "function", <<"BOOL">>),
      TypeDef("HANDLE", "pointer", <<"void">>), TypeDef("COLORREF", "alias", <<"DWORD">>)>>, << >>)>>

\* Expressions, with no more parentheses than C needs.
RECURSIVE Written(_, _), Meaning(_)
Written(e, min) ==
  CASE e.op = "number" -> <<e.text>>
    [] e.op = "neg" -> <<"-">> \o Written(e.l, 7)
    [] e.op = "cast" -> <<"(", "DWORD", ")">> \o Written(e.l, 7)
    [] e.op \in DOMAIN Precedence ->
         LET t == Written(e.l, Precedence[e.op] - 1) \o <<e.op>> \o Written(e.r, Precedence[e.op])
         IN  IF Precedence[e.op] <= min THEN <<"(">> \o t \o <<")">> ELSE t
Meaning(e) ==
  CASE e.op = "number" -> e.value
    [] e.op = "neg" -> -Meaning(e.l)
    [] e.op = "cast" -> Meaning(e.l)
    [] e.op \in DOMAIN Precedence -> Apply(e.op, Meaning(e.l), Meaning(e.r))
Num(t) == [op |-> "number", text |-> t, value |-> Numeral[t]]
NameOf(n, v) == [op |-> "number", text |-> n, value |-> v]
Bin(op, l, r) == [op |-> op, l |-> l, r |-> r]
Leaves == {Num("2"), Num("4"), NameOf("B", 8)}
Trees1 == {Bin(op, l, r) : op \in {"|", "<<", "-", "*"}, l \in Leaves, r \in Leaves}
Trees2 ==
  {Bin(op, l, r) : op \in {"|", "-", "*"}, l \in Trees1, r \in {Num("1")}}
  \cup {Bin(op, l, r) : op \in {"|", "-", "*"}, l \in {Num("1")}, r \in Trees1}
  \cup {[op |-> "cast", l |-> l] : l \in Trees1 \cup Leaves}
Def(name, value) == [name |-> name, value |-> value]
MacroHeader(e) ==
  Header(<<"enum", "E", "{", "X", "=", "A", ",", "Y", ",", "Z", "=", "NOWHERE", ",", "W", "}", ";">>,
         <<Def("A", Written(e, 0)), Def("B", <<"C", "<<", "2">>), Def("C", <<"2">>), Def("B", <<"1">>),
           Def("L", <<"M">>), Def("M", <<"L">>), Def("G", <<"F">>)>>,
         [NoMeans EXCEPT
            !.enums = <<[name |-> "E", values |-> <<Def("X", <<"A">>), Def("Y", << >>),
                                                   Def("Z", <<"NOWHERE">>), Def("W", << >>)>>]>>,
            !.constants = <<Def("A", Meaning(e)), Def("B", 8), Def("C", 2), Def("X", Meaning(e)),
                            Def("Y", Meaning(e) + 1)>>])
Macros == {<<MacroHeader(e)>> : e \in Trees1 \cup Trees2 \cup Leaves}

\* One index to ask.
Flagged == <<"READ", "WRITE", "ALL", "OLD_ALL", "ODD">>
FlagValues == <<1, 2, 7, 7, 12>>
Argument(name, ty) == [name |-> name, ty |-> ty, direction |-> "none", optional |-> FALSE, size |-> << >>]
Proto(name, params) ==
  [name |-> name, returns |-> <<"BOOL">>, params |-> params, variadic |-> FALSE, header |-> "km"]
ApiTokens(name, params) ==
  <<"BOOL", name, "(">> \o Comma([i \in DOMAIN params |-> Append(params[i].ty, params[i].name)]) \o <<")", ";">>
Apis == <<
  Proto("NtOpen", <<Argument("handle", <<"HANDLE">>), Argument("size", <<"ULONGLONG">>),
                    Argument("access", <<"DWORD">>)>>),
  Proto("SetW", <<Argument("mode", <<"MODE">>), Argument("flag", <<"BOOLEAN">>), Argument("rate", <<"double">>),
                  Argument("color", <<"COLORREF">>)>>)>>
AskedHeader ==
  Header(FlattenSeq([i \in DOMAIN Apis |-> ApiTokens(Apis[i].name, Apis[i].params)])
         \o <<"typedef", "enum", "_MODE", "{", "SLOW", ",", "FAST", "=", "2", "}", "MODE", ";">>,
         <<Def("READ", <<"1">>), Def("Set", <<"SetW">>), Def("WRITE", <<"2">>),
           Def("ALL", <<"4", "|", "WRITE", "|", "1">>), Def("OLD_ALL", <<"ALL">>),
           Def("ODD", <<"(", "8", "|", "4", ")">>)>>,
         [stdapi |-> {}, prototypes |-> [i \in DOMAIN Apis |-> [Apis[i] EXCEPT !.header = "um"]],
          typedefs |-> <<TypeDef("MODE", "enum", <<"_MODE">>)>>,
          enums |-> [k \in 1 .. 2 |-> [name |-> IF k = 1 THEN "MODE" ELSE "_MODE",
                      values |-> <<Def("SLOW", << >>), Def("FAST", <<"2">>)>>]],
          constants |-> [i \in DOMAIN Flagged |-> Def(Flagged[i], FlagValues[i])]
                        \o <<Def("SLOW", 0), Def("FAST", 2)>>])
TheRules == <<
  [params |-> {"access"}, apis |-> {"Other"}, names |-> {"ODD"}, order |-> <<"ODD">>, kind |-> "flags"],
  [params |-> {"access"}, apis |-> {}, names |-> Range(Flagged),
   order |-> <<"READ", "WRITE", "ALL", "OLD_ALL", "ODD">>, kind |-> "flags"],
  [params |-> {"color"}, apis |-> {}, names |-> {"WRITE", "ALL"}, order |-> <<"WRITE", "ALL">>,
   kind |-> "enum"]>>

\* What the compiler passes: an argument of n bytes with its slots.  The upper
\* part of a slot that is wider than the value is not defined.
PassedSlots(ptr, n, v, junk) ==
  IF v = Unknown THEN [i \in 1 .. (IF n = 8 /\ ptr = 4 THEN 2 ELSE 1) |-> Unknown]
  ELSE IF n = 8 /\ ptr = 4 THEN <<v % 16, v \div 16>>
  ELSE <<v + (IF ptr > n THEN junk * 2^n ELSE 0)>>
Passed(ptr, sizes, vs, junk) ==
  FlattenSeq([i \in DOMAIN sizes |-> PassedSlots(ptr, IF sizes[i] = 0 THEN ptr ELSE sizes[i], vs[i], junk)])
Question(api, ptr, sizes, vs, junk, floats) ==
  [api |-> api, ptr |-> ptr, args |-> Passed(ptr, sizes, vs, junk),
   means |-> [i \in DOMAIN vs |-> IF i \in floats THEN Unknown ELSE vs[i]]]
TheQuestions ==
  {Question(api, ptr, <<0, 8, 4>>, <<IF k = 0 THEN 0 ELSE 2^ptr - k, s, a>>, junk, {}) :
     api \in {"NtOpen", "ZwOpen"}, ptr \in {4, 8}, k \in {0, 1, 2}, s \in {3, 70}, a \in 0 .. 15,
     junk \in {0, 1}}
  \cup {Question(api, ptr, <<4, 1, 8, 4>>, <<m, b, 5, c>>, junk, {3}) :
          api \in {"Set", "SetW", "Nothing"}, ptr \in {4, 8}, m \in 0 .. 3, b \in {0, 1},
          c \in {0, 2, 7, 9, Unknown}, junk \in {0, 1}}
TheTwins == ("NtOpen" :> "ZwOpen") @@ ("ZwOpen" :> "NtOpen")

TheIncludes == Prototyped \cup {Types} \cup Macros \cup {Append(Types, AskedHeader)}

-----------------------------------------------------------------------------

Index == INSTANCE HeaderIndex
           WITH Includes <- TheIncludes, Rules <- TheRules, Twins <- TheTwins, Questions <- TheQuestions

apiVars == <<program, facts, summaries, table, dirty, round, phase, targets>>
headerVars == <<headers, unread, parsed, pending, values, index, call>>

\* A resolution that has not begun.
NoApis == program = (CHOOSE image \in Programs : TRUE) /\ Init
NoHeaders ==
  /\ headers = << >> /\ unread = 1 /\ parsed = << >> /\ pending = {} /\ values = << >>
  /\ index = [built |-> FALSE] /\ call = [asked |-> FALSE]

PartInit ==
  \/ part = "apis" /\ Init /\ NoHeaders
  \/ part = "headers" /\ NoApis /\ Index!Init

PartNext ==
  \/ part = "apis" /\ Next /\ UNCHANGED <<part, headerVars>>
  \/ part = "headers" /\ Index!Next /\ UNCHANGED <<part, apiVars>>

PartSpec == PartInit /\ [][PartNext]_<<part, apiVars, headerVars>>

-----------------------------------------------------------------------------
\* Headers are read as their authors mean them, but for declarations with STDAPI,
\* which are not read, and an argument is shown with the value that was passed
\* (parse, from_parsed, render_call).
HeadersAreUnderstood ==
  part = "headers" => Index!HeadersAreUnderstood /\ Index!ArgumentsAreRight
=================================================================================
