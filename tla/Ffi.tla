--------------------------------- MODULE Ffi ---------------------------------
(***************************************************************************)
(* The C ABI (resx/src/ffi.rs, resx/include/resx.h): typed exports, one per *)
(* analysis, and the two generic ones, which make a command line of their  *)
(* arguments and of an object of options and run it in the process of the  *)
(* caller, behind one boundary that turns errors and panics into a status  *)
(* and an envelope.                                                        *)
(*                                                                         *)
(* From the command line on, a call takes the steps of CommandLine, but    *)
(* for --example, which only main looks at.  A key of the object is the    *)
(* option name it is spelled after, or one of LegacyKeys; it holds TRUE, or *)
(* a value, or FALSE, which leaves the option out.                         *)
(***************************************************************************)
EXTENDS CommandLine

VARIABLES
  request,  \* what the caller passes
  outJson,  \* what the caller's pointer holds
  status    \* what the call returns, or Pending

ffiVars == <<request, outJson, status, vars>>

Pending == -1
OK == 0
NullArgument == 1
InvalidUtf8 == 2
InvalidJson == 3
InvalidOptions == 4
ExecutionError == 5
Panicked == 255

-----------------------------------------------------------------------------
(* Typed exports: their command, the operands and options they pass, and    *)
(* whether they ask for JSON.                                               *)

Export(command, operands, given, json) ==
  [command |-> command, operands |-> operands, given |-> given, json |-> json]

CodeExports ==
  {Export(c, <<"TARGET">>, << >>, c = "dump") : c \in {"dump", "cfg"}}
  \cup {Export(c, << >>, <<o>>, c = "dump") : c \in {"dump", "cfg"}, o \in {"at", "ordinal"}}
  \cup {Export("reconstruct-cfg", << >>, << >>, TRUE)}
  \cup {Export("intelli", operands, << >>, TRUE) : operands \in {<<"TARGET">>, << >>}}

ImageExports ==
  {Export(c, << >>, << >>, TRUE) : c \in {"peinfo", "sections", "pechk", "eat", "iat", "syms"}}
  \cup {Export("types", operands, << >>, TRUE) : operands \in {<<"QUERY">>, << >>}}
  \cup {Export(c, << >>, << >>, TRUE) : c \in {"callers", "locate", "locate-sym"}}

CorpusExports ==
  {Export("diff", << >>, given, TRUE) : given \in {<<"show-cfg", "cfg-diff-format">>, << >>}}
  \cup {Export(c, << >>, << >>, TRUE) : c \in {"index", "hunt", "scan"}}
  \cup {Export("yara", <<"RULES">>, << >>, TRUE)}
  \cup {Export(c, << >>, << >>, FALSE) : c \in {"priority", "update"}}

Exports == CodeExports \cup ImageExports \cup CorpusExports

-----------------------------------------------------------------------------
(* Options: an object, or absent.                                           *)

LegacyKeys ==
  ("at_rva" :> "at") @@ ("pdb_file" :> "pdb") @@ ("out_file" :> "out") @@
  ("show_xrefs" :> "xrefs") @@ ("show_strings" :> "strings") @@ ("cfg_view" :> "cfg") @@
  ("diff_max_functions" :> "max-functions") @@ ("left_pdb_file" :> "left-pdb") @@
  ("right_pdb_file" :> "right-pdb") @@ ("cfg_diff_target" :> "show-cfg") @@
  ("cfg_diff_out" :> "cfg-out") @@ ("corpus_db" :> "db") @@
  ("scan_extensions" :> "extensions") @@ ("scan_dirs" :> "include-dir") @@
  ("scan_dlls" :> "include-image") @@ ("max_dll_mb" :> "max-dll-size") @@
  ("follow_format" :> "format") @@ ("reconstruct_thread_filter" :> "thread-filter") @@
  ("reconstruct_api_filter" :> "api-filter") @@ ("no_follow_fwd" :> "no-follow-forward")

FlagName(key) == IF key \in DOMAIN LegacyKeys THEN LegacyKeys[key] ELSE key

MetaKeys == {"args", "argv", "cli_args", "extra_args", "command", "json", "color", "quiet"}

\* command_takes_option: Some(true), Some(false) or None.
TakesOption(c, flag) ==
  IF Grammar(c, flag) # {} THEN "yes"
  ELSE IF \E d \in Commands : Grammar(d, flag) # {} THEN "others" ELSE "nobody"

\* Mutant: a key is skipped when the bare image form does not take it.
SkipsImplicit(c, key) ==
  key \in MetaKeys \/ TakesOption("implicit", FlagName(key)) = "others"

\* The object serves several commands: what only others take is left out.
Skips(c, key) == key \in MetaKeys \/ TakesOption(c, FlagName(key)) = "others"

OptionBool(bag, key, default) == IF key \in DOMAIN bag THEN bag[key] ELSE default

\* append_options
Appended(c, bag, json) ==
  LET flag(o) == <<Token("dash", o)>>
      keys == {k \in DOMAIN bag : bag[k] /\ ~ Skips(c, k)}
  IN  (IF OptionBool(bag, "json", json) THEN flag("json") ELSE << >>)
      \o flag(IF OptionBool(bag, "color", FALSE) THEN "color" ELSE "no-color")
      \o (IF OptionBool(bag, "quiet", TRUE) THEN flag("quiet") ELSE << >>)
      \o FlattenSeq([i \in 1 .. Cardinality(keys) |-> flag(FlagName(SetToSeq(keys)[i]))])

SupportsJson ==
  {"dump", "reconstruct-cfg", "intelli", "patch", "peinfo", "sections", "eat", "iat", "syms",
   "pechk", "callers", "locate", "locate-sym", "scan", "diff", "index", "hunt", "types", "api",
   "yara"}

-----------------------------------------------------------------------------
(* Command lines.                                                           *)

Word(name) == Token("word", name)
Images(c) == [i \in 1 .. Required(c) |-> Word("IMAGE")]

IsKnownCommand ==
  {"dump", "cfg", "reconstruct-cfg", "intelli", "patch", "peinfo", "sections", "eat", "iat",
   "syms", "pechk", "priority", "callers", "locate", "locate-sym", "scan", "diff", "index",
   "hunt", "types", "api", "yara", "update", "config", "version"}

\* normalize_raw_argv: what follows the name of the program.  A first argument
\* that is neither that name nor known to be a command stands for it.
NormalizedRaw(named, args) ==
  IF \/ named \/ args = << >> \/ args[1].style = "dash"
     \/ args[1].style \in {"word", "slash"} /\ args[1].name \in IsKnownCommand
  THEN args ELSE Tail(args)

CommandOf(args) == IF args = << >> \/ ~ IsWord(args[1]) THEN "implicit" ELSE CommandSeen(args)

\* The line that each door makes of its request.
TypedLine(r) ==
  LET e == r.export
  IN  <<Word(e.command)>> \o Images(e.command) \o [i \in DOMAIN e.operands |-> Word(e.operands[i])]
      \o [i \in DOMAIN e.given |-> Token("dash", e.given[i])]
      \o Appended(e.command, r.bag, e.json)
CommandJsonLine(r) ==
  <<Word(r.command)>> \o Images(r.command)
  \o Appended(r.command, r.bag, r.command \in SupportsJson)
ArgvJsonLine(r) ==
  LET args == NormalizedRaw(r.named, r.argv)
      c == CommandOf(args)
  IN  IF r.bag = << >> THEN args ELSE args \o Appended(c, r.bag, c \in SupportsJson)

LineOf(r) ==
  IF r.door = "typed" THEN TypedLine(r)
  ELSE IF r.door = "command" THEN CommandJsonLine(r)
  ELSE IF r.door = "argv" THEN ArgvJsonLine(r)
  ELSE NormalizedRaw(r.named, r.argv)

-----------------------------------------------------------------------------
(* Requests: faults of the arguments on one export, every key that a        *)
(* command takes and a key of each other command, one or none at a time.    *)

Faults == {"none", "null out", "null string", "not UTF-8", "not JSON", "not an object"}
Request(door, export, command, named, words, bag, fault) ==
  [door |-> door, export |-> export, command |-> command, named |-> named, argv |-> words,
   bag |-> bag, fault |-> fault]

AnExport == Export("peinfo", << >>, << >>, TRUE)
ForeignKeys == {"db", "codec", "show-site", "out-dir", "in-place", "tag", "unknown"}
Shorts == {"o", "v", "q", "n"}  \* a key is a long name
Keys(c) ==
  (((DOMAIN Takes[c] \ Operands) \cup UNION {Takes[c][o] : o \in DOMAIN Takes[c]}) \ Shorts)
  \cup DOMAIN LegacyKeys \cup ForeignKeys
Bags(c) ==
  {<< >>} \cup {k :> TRUE : k \in Keys(c)}
  \cup {k :> FALSE : k \in {"json", "color", "quiet", "no-pdb"}}
ArgvOf(c, o) == <<Word(c)>> \o Images(c) \o (IF o = "none" THEN << >> ELSE <<Token("dash", o)>>)

Named == Commands \ {"implicit"}
Requests ==
  {Request("typed", AnExport, "none", FALSE, << >>, << >>, f) : f \in Faults}
  \cup UNION {{Request("typed", e, "none", FALSE, << >>, b, "none") :
                 b \in Bags(e.command)} : e \in Exports}
  \cup UNION {{Request("command", AnExport, c, FALSE, << >>, b, "none") : b \in Bags(c)} :
                c \in Named \ {e.command : e \in Exports}}
  \cup UNION {{Request(door, AnExport, c, named, ArgvOf(c, o), << >>, "none") :
                 door \in {"argv", "args"}, named \in BOOLEAN,
                 o \in {"none", "quiet"}} : c \in Named}
  \cup {Request("args", AnExport, w, TRUE, <<Word(w)>>, << >>, "none") : w \in {"help", "version"}}

FfiInit ==
  /\ request \in Requests
  /\ outJson = "unset" /\ status = Pending
  /\ line = << >> /\ argv = << >> /\ stage = "enter"
  /\ parse = NoParse /\ options = << >> /\ outcome = NoOutcome

-----------------------------------------------------------------------------
(* One call.                                                                *)

\* ffi_boundary and write_allocated: every way out writes a string that the
\* caller is to release, but for an out that cannot be written.
Return(s) ==
  /\ stage' = "returned" /\ status' = s
  /\ outJson' = IF s = OK THEN "result" ELSE "error"

RejectOut ==
  /\ stage = "enter" /\ request.fault = "null out"
  /\ stage' = "returned" /\ status' = NullArgument
  /\ UNCHANGED <<request, outJson, line, argv, parse, options, outcome>>

ArgumentStatus ==
  ("null string" :> NullArgument) @@ ("not UTF-8" :> InvalidUtf8) @@
  ("not JSON" :> InvalidJson) @@ ("not an object" :> InvalidOptions)

RejectArguments ==
  /\ stage = "enter" /\ request.fault \in DOMAIN ArgumentStatus
  /\ Return(ArgumentStatus[request.fault])
  /\ UNCHANGED <<request, line, argv, parse, options, outcome>>

MakeLine ==
  /\ stage = "enter" /\ request.fault = "none"
  /\ line' = LineOf(request) /\ argv' = line'
  /\ stage' = "normalize"
  /\ UNCHANGED <<request, outJson, status, parse, options, outcome>>

Prepare == (Normalize \/ Parse) /\ UNCHANGED <<request, outJson, status>>

ReturnText ==
  /\ stage \in {"help", "version"} /\ Return(OK)
  /\ UNCHANGED <<request, line, argv, parse, options, outcome>>

RejectLine ==
  /\ stage = "rejected" /\ Return(InvalidOptions)
  /\ UNCHANGED <<request, line, argv, parse, options, outcome>>

LowerAndConfigure ==
  /\ stage = "lower"
  /\ options' = Lower(parse.command, parse.given)
  /\ outcome' = [config |-> FromOptions(options'), runs |-> Dispatch(parse.command, options')]
  /\ stage' = "run"
  /\ UNCHANGED <<request, outJson, status, line, argv, parse>>

\* The command succeeds, fails, panics, or prints what is not UTF-8.
Run ==
  /\ stage = "run"
  /\ \E s \in {OK, ExecutionError, Panicked, InvalidUtf8} : Return(s)
  /\ UNCHANGED <<request, line, argv, parse, options, outcome>>

FfiNext ==
  \/ RejectOut \/ RejectArguments \/ MakeLine \/ Prepare \/ ReturnText \/ RejectLine
  \/ LowerAndConfigure \/ Run

FfiSpec == FfiInit /\ [][FfiNext]_ffiVars

-----------------------------------------------------------------------------
(* Properties.                                                              *)

\* The command that a request names.
Asked ==
  IF request.door = "typed" THEN request.export.command
  ELSE IF request.door = "command" THEN request.command ELSE request.argv[1].name

Passed == {k \in DOMAIN request.bag : request.bag[k]}
Wanted == UNION {Grammar(Asked, FlagName(k)) : k \in Passed}

\* The object of options, which callers share between commands, means what the
\* same flags mean on a command line: what the command takes is passed on
\* under any of its names, what only others take is not, what nobody takes is
\* an error, and so is an option that the boundary or the export passes itself
\* (--no-color, which cannot be repeated, cannot be asked for).
BagReaches ==
  request.fault = "none" /\ request.door \in {"typed", "command"} /\ "args" \notin Passed =>
    LET own == IF request.door = "typed" THEN Range(request.export.given) ELSE {}
        fixed == UNION {Grammar(Asked, o) : o \in own}
        unknown == {k \in Passed : TakesOption(Asked, FlagName(k)) = "nobody"}
    IN  /\ stage = "run" =>
             /\ parse.command = Asked /\ unknown = {}
             /\ Wanted \cup fixed \subseteq parse.given
             /\ parse.given \subseteq Wanted \cup fixed \cup {"json", "no-color", "quiet"}
                                      \cup Operands
        /\ stage = "rejected" =>
             \/ unknown # {} \/ Wanted \cap (fixed \cup {"no-color"}) # {}
             \/ \E r \in Requires : r[1] \in Wanted /\ r[2] \notin Wanted

\* "argv may include "resx" as argv[0], or may start with the command name"
\* (resx/include/resx.h): either way the command is the one that is named.
ArgvUnderstood ==
  request.door \in {"argv", "args"} /\ stage \in {"run", "rejected"} => parse.command = Asked

=============================================================================
