---------------------------- MODULE CommandLine ----------------------------
(***************************************************************************)
(* From arguments to a command's configuration: the slash spellings        *)
(* (normalize_cli_syntax, prepare_args in resx/src/cli/help.rs), the       *)
(* grammar of each command (resx/src/cli/args.rs), its lowering into one   *)
(* flat record (resx/src/cli/lower.rs), the configuration made of that     *)
(* record (resx/src/core/config.rs) and the choice of the function that    *)
(* runs (resx/src/cli/router.rs).                                          *)
(*                                                                         *)
(* An option is its long name and rides with its value; a field of the     *)
(* flat record is the set of the options whose values it holds, empty for  *)
(* its default.  Operands other than the image are the options in capitals.*)
(***************************************************************************)
EXTENDS Naturals, Sequences, FiniteSets, SequencesExt, TLC

CONSTANTS
  Companions,  \* options given besides the one under test
  Leaders      \* output options given before the command

-----------------------------------------------------------------------------
(* Option groups: each long name with its other spellings.                  *)

Plain(S) == [o \in S |-> {}]

GlobalArgs ==
  ("out" :> {"o"}) @@ ("verbose" :> {"v"}) @@ ("quiet" :> {"q"}) @@
  Plain({"json", "diagnostic", "diagnostic-trace", "disasm-context", "debug-report",
         "debug-report-include-target", "time", "color", "no-color", "example"})

LookupArgs == Plain({"path", "no-system", "no-cwd", "no-path", "arch", "rebase"})

SymbolArgs ==
  ("no-pdb" :> {"fast"}) @@
  Plain({"pdb", "sym-path", "sym-server", "reload", "no-headers", "args"})

TargetArgs == ("ordinal" :> {"n"}) @@ Plain({"TARGET", "at"})

AnalysisArgs ==
  ("max-insns" :> {"limit", "insns", "analysis-budget", "xref-budget"}) @@
  ("max-total" :> {"cfg-budget"}) @@ Plain({"hostile"})

ListingArgs ==
  ("max-bytes" :> {"byte-limit"}) @@ ("bytes" :> {"hex", "opcode", "opcodes"}) @@
  ("nodis" :> {"no-dis", "no-disassembly"}) @@ ("offset" :> {"show-offsets"}) @@
  ("rva" :> {"show-rva"}) @@
  Plain({"no-bytes", "ssa", "intel", "att", "follow-jmp", "no-follow-jmp",
         "no-follow-forward", "addr-width", "width"})

CallTreeArgs ==
  ("funcs-depth" :> {"call-depth"}) @@ ("funcs-filter" :> {"call-filter"}) @@
  Plain({"calls", "calls-only", "calls-exclude", "max-subcalls", "highlight", "funcs"})

ReportArgs ==
  ("xrefs" :> {"refs"}) @@ ("strings" :> {"strrefs"}) @@ ("c-out" :> {"decompile-out"}) @@
  Plain({"cfg", "recomp", "driver-flow", "intelli", "edrchk", "hookchk", "unsafe-map-image",
         "sections", "pechk", "show-eat", "show-iat", "show-syms", "yara"})

FlowArgs == Plain({"depth", "max-callers"})

ScopeArgs ==
  ("include-dir" :> {"scan-dir"}) @@ ("include-image" :> {"scan-dll"}) @@
  ("scope-file" :> {"include-file"}) @@
  Plain({"scan-exe", "include", "exclude", "filter-dll", "max-dll-size", "workers"})

MatchArgs ==
  ("mode" :> {"diff-mode"}) @@ ("threshold" :> {"diff-threshold"}) @@
  Plain({"include-weak", "max-functions", "max-candidates", "max-cfg-blocks"})

(* What each command takes of its own.                                      *)

ImageArgs == LookupArgs @@ SymbolArgs
DeviceArgs == Plain({"device-security", "device-security-worker"}) @@ ImageArgs
DumpArgs ==
  TargetArgs @@ ReportArgs @@ CallTreeArgs @@ ListingArgs @@ AnalysisArgs @@ ImageArgs
CallsArgs ==
  Plain({"depth", "only", "exclude", "max-subcalls", "highlight"}) @@
  ("rva" :> {"show-rva"}) @@ ("offset" :> {"show-offsets"}) @@
  TargetArgs @@ AnalysisArgs @@ ImageArgs
ReconstructArgs ==
  Plain({"thread-filter", "api-filter", "driver-flow", "max-subcalls", "funcs"}) @@
  ("funcs-depth" :> {"call-depth"}) @@ FlowArgs @@ AnalysisArgs @@ ImageArgs
CallersArgs ==
  Plain({"format", "show-site"}) @@ ("rva" :> {"show-rva"}) @@
  FlowArgs @@ ScopeArgs @@ AnalysisArgs @@ ImageArgs
StringsArgs ==
  ("min-len" :> {"strings-min-len"}) @@ ("limit" :> {"strings-limit"}) @@
  ("encoding" :> {"strings-encoding"}) @@ ("interesting" :> {"strings-interesting"}) @@
  ("match" :> {"strings-match"}) @@ ("tag" :> {"strings-tag"}) @@
  ("raw-wide" :> {"strings-raw-wide"}) @@ ImageArgs
EntropyArgs ==
  ("window" :> {"entropy-window"}) @@ ("stride" :> {"entropy-stride"}) @@
  ("all" :> {"entropy-all"}) @@ ImageArgs
YaraArgs == Plain({"RULES", "yara"}) @@ ImageArgs
FindArgs ==
  ("mode" :> {"find-mode"}) @@ ("encoded" :> {"find-encoded"}) @@
  ("budget" :> {"find-budget"}) @@ Plain({"QUERY", "find"}) @@ ImageArgs
ScanArgs ==
  Plain({"jsonl", "extensions", "max-files", "max-file-mb", "max-candidates"}) @@ SymbolArgs
DiffArgs ==
  ("show-cfg" :> {"show-cfg-diff"}) @@ ("cfg-format" :> {"cfg-diff-format"}) @@
  ("cfg-out" :> {"cfg-diff-out"}) @@ ("graph" :> {"diff-graph"}) @@
  ("graph-format" :> {"diff-graph-format"}) @@ ("graph-out" :> {"diff-graph-out"}) @@
  Plain({"left-pdb", "right-pdb"}) @@ MatchArgs @@ AnalysisArgs @@ ImageArgs
IndexArgs ==
  Plain({"db", "extensions", "max-files", "max-file-mb"}) @@
  MatchArgs @@ AnalysisArgs @@ ImageArgs
HuntArgs == Plain({"db"}) @@ MatchArgs @@ AnalysisArgs @@ ImageArgs
LocateArgs == ScopeArgs @@ ImageArgs
PayloadArgs ==
  ("out-dir" :> {"payload-dir"}) @@ ("offset" :> {"payload-offset"}) @@
  ("length" :> {"payload-length"}) @@ Plain({"codec", "key-file", "iv-hex", "pkcs7"})
PatchArgs ==
  ("bytes" :> {"patch-bytes"}) @@ ("expect" :> {"expected"}) @@
  Plain({"ADDR", "HEX", "at", "patch-out", "dry-run", "in-place", "overwrite",
         "update-checksum"}) @@ ImageArgs
ConfigArgs == Plain({"command-style", "entry-macro", "rentry-macro", "headers"})
ImplicitArgs == DumpArgs @@ ScopeArgs

Command ==
  [c \in {"sections", "pechk", "eat", "iat", "syms", "contracts", "ipc", "network", "crypto"}
     |-> ImageArgs] @@
  [c \in {"dump", "xrefs", "cfg", "intelli"} |-> DumpArgs] @@
  [c \in {"driver", "ioctl"} |-> DeviceArgs] @@
  [c \in {"locate", "locate-sym"} |-> LocateArgs] @@
  [c \in {"priority", "update", "api"} |-> Plain({})] @@
  ("peinfo" :> (Plain({"file-metadata"}) @@ ImageArgs)) @@
  ("types" :> (Plain({"QUERY"}) @@ ImageArgs)) @@ ("calls" :> CallsArgs) @@
  ("reconstruct-cfg" :> ReconstructArgs) @@ ("callers" :> CallersArgs) @@
  ("behavior" :> (AnalysisArgs @@ ImageArgs)) @@ ("strings" :> StringsArgs) @@
  ("entropy" :> EntropyArgs) @@ ("yara" :> YaraArgs) @@ ("find" :> FindArgs) @@
  ("scan" :> ScanArgs) @@ ("diff" :> DiffArgs) @@ ("index" :> IndexArgs) @@
  ("hunt" :> HuntArgs) @@ ("payload" :> PayloadArgs) @@ ("patch" :> PatchArgs) @@
  ("config" :> ConfigArgs) @@ ("implicit" :> ImplicitArgs)

Commands == DOMAIN Command
Takes == [c \in Commands |-> Command[c] @@ GlobalArgs]

\* Hidden second names of commands, and the topics of help.
CommandAliases == ("refs" :> "xrefs") @@ ("follow" :> "callers")
Sections == {"inspect", "code", "evidence", "recovery", "compare", "options"}

-----------------------------------------------------------------------------
(* Lowering: the fields each group assigns, with the options they take.     *)

Own(S) == [f \in S |-> {f}]
FirstGiven(g, a, b) == IF a \in g THEN {a} ELSE {b}

GlobalApply == Own(DOMAIN GlobalArgs)
LookupApply == Own({"path", "no-system", "no-cwd", "no-path", "arch", "rebase"})
SymbolApply ==
  Own({"pdb", "sym-path", "sym-server", "reload", "no-pdb", "no-headers", "args"})
TargetApply == ("function" :> {"TARGET"}) @@ Own({"at", "ordinal"})
AnalysisApply == Own({"max-insns", "max-total", "hostile"})
ListingApply ==
  Own({"max-bytes", "bytes", "no-bytes", "nodis", "ssa", "intel", "att", "follow-jmp",
       "no-follow-jmp", "no-follow-forward", "offset", "rva", "addr-width", "width"})
CallTreeApply(g) ==
  ("funcs-depth" :> FirstGiven(g, "calls", "funcs-depth")) @@
  ("funcs-filter" :> {"calls-only", "calls-exclude", "funcs-filter"}) @@
  Own({"funcs", "max-subcalls", "highlight"})
ReportApply ==
  Own({"xrefs", "strings", "cfg", "recomp", "c-out", "driver-flow", "intelli", "edrchk",
       "hookchk", "unsafe-map-image", "sections", "pechk", "show-eat", "show-iat",
       "show-syms", "yara"})
FlowApply == Own({"depth", "max-callers"})
ScopeApply ==
  Own({"include-dir", "include-image", "scan-exe", "include", "scope-file", "exclude",
       "filter-dll", "max-dll-size", "workers"})
MatchApply ==
  ("diff-mode" :> {"mode"}) @@ ("diff-threshold" :> {"threshold"}) @@
  Own({"include-weak", "max-functions", "max-candidates", "max-cfg-blocks"})

ImageApply == <<LookupApply, SymbolApply>>
DumpApply(g) ==
  <<TargetApply, ReportApply, CallTreeApply(g), ListingApply, AnalysisApply>> \o ImageApply
CallsApply ==
  <<TargetApply,
    ("funcs-depth" :> {"depth"}) @@ ("funcs-filter" :> {"only", "exclude"}) @@
    Own({"max-subcalls", "highlight", "rva", "offset"}),
    AnalysisApply>> \o ImageApply
ReconstructApply ==
  <<Own({"thread-filter", "api-filter", "driver-flow", "max-subcalls", "funcs",
         "funcs-depth"}), FlowApply, AnalysisApply>> \o ImageApply
CallersApply ==
  <<Own({"format", "show-site", "rva"}), FlowApply, ScopeApply, AnalysisApply>> \o ImageApply
StringsApply ==
  <<("strings-min-len" :> {"min-len"}) @@ ("strings-limit" :> {"limit"}) @@
    ("strings-encoding" :> {"encoding"}) @@ ("strings-interesting" :> {"interesting"}) @@
    ("strings-match" :> {"match"}) @@ ("strings-tag" :> {"tag"}) @@
    ("strings-raw-wide" :> {"raw-wide"})>> \o ImageApply
DiffApply ==
  <<Own({"left-pdb", "right-pdb", "show-cfg", "cfg-format", "cfg-out", "graph",
         "graph-format", "graph-out"}), MatchApply, AnalysisApply>> \o ImageApply
\* Without --at the first operand is the address; the others are bytes.
PatchApply(g) ==
  <<("at" :> FirstGiven(g, "at", "ADDR")) @@
    ("patch-bytes" :> {"bytes", "HEX"} \cup (IF "at" \in g THEN {"ADDR"} ELSE {})) @@
    Own({"expect", "patch-out", "dry-run", "in-place", "overwrite", "update-checksum"})>>
  \o ImageApply

\* Mutant: a device command keeps only the options of its image.
CommandApplyNoScope(c, g) ==
  IF c \in {"locate", "locate-sym"} THEN ImageApply
  ELSE IF c \in {"dump", "xrefs", "cfg", "intelli"} THEN DumpApply(g)
  ELSE <<Own(DOMAIN Command[c])>>

CommandApply(c, g) ==
  CASE c \in {"sections", "pechk", "eat", "iat", "syms", "contracts", "ipc", "network",
              "crypto"} -> ImageApply
    [] c \in {"dump", "xrefs", "cfg", "intelli"} -> DumpApply(g)
    [] c \in {"driver", "ioctl"} ->
         ImageApply \o <<Own({"device-security", "device-security-worker"})>>
    [] c \in {"locate", "locate-sym"} -> <<ScopeApply>> \o ImageApply
    [] c = "implicit" -> DumpApply(g) \o <<ScopeApply>>
    [] c = "peinfo" -> <<Own({"file-metadata"})>> \o ImageApply
    [] c = "types" -> <<"function" :> {"QUERY"}>> \o ImageApply
    [] c = "calls" -> CallsApply
    [] c = "reconstruct-cfg" -> ReconstructApply
    [] c = "callers" -> CallersApply
    [] c = "behavior" -> <<AnalysisApply>> \o ImageApply
    [] c = "strings" -> StringsApply
    [] c = "entropy" ->
         <<("entropy-window" :> {"window"}) @@ ("entropy-stride" :> {"stride"}) @@
           ("entropy-all" :> {"all"})>> \o ImageApply
    [] c = "yara" -> <<"yara" :> {"RULES", "yara"}>> \o ImageApply
    [] c = "find" ->
         <<("find-pattern" :> FirstGiven(g, "QUERY", "find")) @@ ("find-mode" :> {"mode"}) @@
           ("find-encoded" :> {"encoded"}) @@ ("find-budget" :> {"budget"})>> \o ImageApply
    [] c = "scan" ->
         <<Own({"jsonl", "extensions", "max-files", "max-file-mb", "max-candidates"}),
           SymbolApply>>
    [] c = "diff" -> DiffApply
    [] c = "index" ->
         <<Own({"db", "extensions", "max-files", "max-file-mb"}), MatchApply, AnalysisApply>>
         \o ImageApply
    [] c = "hunt" -> <<Own({"db"}), MatchApply, AnalysisApply>> \o ImageApply
    [] c = "payload" ->
         <<Own({"out-dir", "codec", "key-file", "iv-hex", "pkcs7"}) @@
           ("payload-offset" :> {"offset"}) @@ ("payload-length" :> {"length"})>>
    [] c = "patch" -> PatchApply(g)
    [] c = "config" -> <<Own({"command-style", "entry-macro", "rentry-macro", "headers"})>>
    [] OTHER -> <<>>

\* The mode fields a command sets itself, after its groups.
Forced ==
  ("sections" :> {"sections"}) @@ ("pechk" :> {"pechk"}) @@ ("eat" :> {"show-eat"}) @@
  ("iat" :> {"show-iat"}) @@ ("syms" :> {"show-syms"}) @@ ("xrefs" :> {"xrefs"}) @@
  ("cfg" :> {"cfg"}) @@ ("intelli" :> {"intelli"}) @@ ("calls" :> {"nodis"}) @@
  ("peinfo" :> {"peinfo"}) @@ ("reconstruct-cfg" :> {"reconstruct-cfg"}) @@
  ("callers" :> {"follow-callers"}) @@ ("behavior" :> {"behavior"}) @@
  ("entropy" :> {"entropy"}) @@ ("find" :> {"resx-find"}) @@ ("scan" :> {"resx-scan"}) @@
  ("diff" :> {"resx-diff"}) @@ ("index" :> {"resx-index"}) @@ ("hunt" :> {"resx-hunt"}) @@
  ("locate" :> {"locate"}) @@ ("locate-sym" :> {"locate-deep"}) @@ ("patch" :> {"patch"}) @@
  ("priority" :> {"priority"}) @@ ("config" :> {"resx-config"}) @@ ("update" :> {"update"})

Lower(c, g) ==
  LET assign(o, apply) == [f \in DOMAIN apply |-> apply[f] \cap g] @@ o
      groups == FoldLeft(assign, << >>, <<GlobalApply>> \o CommandApply(c, g))
      forced == IF c \in DOMAIN Forced THEN Forced[c] ELSE {}
  IN  [f \in forced |-> {"forced"}] @@ groups

\* A field of the flat record; one that no group of the command assigns keeps
\* its default.
Options(o, f) == IF f \in DOMAIN o THEN o[f] ELSE {}

-----------------------------------------------------------------------------
(* The configuration.                                                       *)

\* Flags on the command line, and flags that combine with others.
On(o, f) == Options(o, f) # {}

\* The fields the configuration computes instead of copying.
Computed(o) ==
  ("max-bytes" :> IF On(o, "bytes") THEN o["bytes"] ELSE Options(o, "max-bytes")) @@
  ("bytes" :> (On(o, "bytes") /\ ~ On(o, "no-bytes"))) @@
  \* intel defaults to true and a flag can only set it to true
  ("intel-syntax" :> (~ On(o, "att") \/ TRUE)) @@
  ("follow-jmp" :> ~ On(o, "no-follow-jmp")) @@
  ("json" :> \/ On(o, "json") \/ On(o, "jsonl") \/ On(o, "resx-scan")
             \/ On(o, "resx-diff") /\ On(o, "cfg-format")) @@
  ("verbose" :> /\ \E f \in {"verbose", "diagnostic", "diagnostic-trace"} : On(o, f)
                /\ ~ On(o, "quiet")) @@
  ("diagnostic" :> /\ \E f \in {"diagnostic", "diagnostic-trace"} : On(o, f)
                   /\ ~ On(o, "quiet")) @@
  ("diagnostic-trace" :> (On(o, "diagnostic-trace") /\ ~ On(o, "quiet"))) @@
  ("time" :> (On(o, "time") /\ ~ On(o, "quiet"))) @@
  ("funcs-depth" :> IF On(o, "funcs-depth") THEN o["funcs-depth"]
                    ELSE IF On(o, "funcs-filter") THEN {"implied by a filter"}
                    ELSE Options(o, "funcs")) @@
  ("locate" :> (On(o, "locate") \/ On(o, "locate-deep"))) @@
  ("headers" :> ~ On(o, "no-headers"))

NotCopied ==
  {"max-bytes", "bytes", "no-bytes", "intel", "att", "follow-jmp", "no-follow-jmp", "json",
   "jsonl", "resx-scan", "verbose", "diagnostic", "diagnostic-trace", "time", "funcs-depth",
   "funcs", "locate", "headers", "no-headers", "priority", "update", "color", "no-color",
   "example", "debug-report", "debug-report-include-target"}

\* from_options with saved SDK headers, and the fields of the flat record that
\* main and the scan, payload and config commands read themselves.
ReadFromOptions ==
  {"color", "no-color", "example", "debug-report", "debug-report-include-target", "jsonl",
   "headers", "out-dir", "codec", "payload-offset", "payload-length", "key-file", "iv-hex",
   "pkcs7", "diagnostic", "diagnostic-trace", "command-style", "entry-macro", "rentry-macro"}

FromOptions(o) ==
  [copied |-> [f \in DOMAIN o \ NotCopied |-> o[f]],
   computed |-> Computed(o),
   direct |-> [f \in ReadFromOptions |-> Options(o, f)]]

-----------------------------------------------------------------------------
(* The function that runs.                                                  *)

HasTarget(o) == \E f \in {"function", "at", "ordinal"} : On(o, f)

DispatchImplicit(o) ==
  IF HasTarget(o) THEN "dump"
  ELSE IF On(o, "show-eat") THEN "show_eat"
  ELSE IF On(o, "show-iat") THEN "show_iat"
  ELSE IF On(o, "show-syms") THEN "show_syms"
  ELSE IF \E f \in {"sections", "pechk", "hookchk", "intelli", "cfg", "yara"} : On(o, f)
       THEN "dump"
  ELSE "locate"

Dispatch(c, o) ==
  CASE c \in {"sections", "dump", "calls", "xrefs"} -> "dump"
    [] c = "cfg" -> IF Computed(o)["json"] THEN "dump" ELSE "cfg"
    [] c = "callers" -> "follow"
    [] c \in {"contracts", "ipc", "network", "crypto", "strings"} -> "contracts"
    [] c \in {"driver", "ioctl"} -> "driver"
    [] c \in {"locate", "locate-sym"} -> "locate"
    [] c = "config" -> "settings"
    [] c = "eat" -> "show_eat"
    [] c = "iat" -> "show_iat"
    [] c = "syms" -> "show_syms"
    [] c = "implicit" -> DispatchImplicit(o)
    [] OTHER -> c

-----------------------------------------------------------------------------
(* Arguments.  A token is a word, a dash option or a slash option; an option *)
(* is spelled by any of its names.                                          *)

Operands == {"TARGET", "QUERY", "RULES", "ADDR", "HEX"}
Words == Commands \cup DOMAIN CommandAliases \cup Operands \cup Sections \cup
         {"IMAGE", "dumpp", "help", "version"}

Token(style, name) == [style |-> style, name |-> name]
IsWord(t) == t.style = "word"

CanonicalCommand(name) ==
  IF name \in DOMAIN CommandAliases THEN {CommandAliases[name]}
  ELSE {name} \cap Commands

\* Mutant: slash options are looked up as those of the bare image form.
GrammarOfImplicit(c, key) ==
  {o \in DOMAIN Takes["implicit"] \ Operands : key = o \/ key \in Takes["implicit"][o]}

\* Every spelling of an option that a command takes, to its long name.
Grammar(c, key) ==
  {o \in DOMAIN Takes[c] \ Operands : key = o \/ key \in Takes[c][o]}

\* The command that normalize_cli_syntax takes options of: only the first
\* argument can name it.
CommandSeen(args) ==
  LET named == IF args = << >> \/ args[1].style = "dash" THEN {}
               ELSE CanonicalCommand(args[1].name)
  IN  IF named = {} THEN "implicit" ELSE CHOOSE c \in named : TRUE

\* normalize_cli_syntax: a slash option that the grammar does not know stays a
\* word, as a path would.
Normalized(args) ==
  LET c == CommandSeen(args)
      topics == Sections \cup {"help", "version"}
      known(t) == IF t.name \in {"h", "help"} THEN {"help"} ELSE Grammar(c, t.name)
      one(i) ==
        LET t == args[i]
        IN  IF t.style # "slash" THEN t
            ELSE IF i = 1 /\ (CanonicalCommand(t.name) # {} \/ t.name \in topics)
                 THEN Token("word", t.name)
            ELSE IF known(t) # {} THEN Token("dash", CHOOSE o \in known(t) : TRUE)
            ELSE Token("word", t.name)
  IN  [i \in DOMAIN args |-> one(i)]

IsHelpRequest(args) ==
  \/ args # << >> /\ args[1] = Token("word", "help")
  \/ Len(args) = 1 /\ IsWord(args[1]) /\ args[1].name \in Sections
  \/ \E i \in DOMAIN args : args[i].style = "dash" /\ args[i].name \in {"help", "h"}

IsVersionRequest(args) ==
  \/ args # << >> /\ args[1] = Token("word", "version")
  \/ \E i \in DOMAIN args : args[i] = Token("dash", "version")

\* prepare_args: a first word that is no command, nor close to one, is an image.
Prepared(args) ==
  IF \/ args = << >> \/ ~ IsWord(args[1])
     \/ CanonicalCommand(args[1].name) # {} \/ args[1].name = "dumpp"
  THEN args
  ELSE <<Token("word", "implicit")>> \o args

\* How many operands a command needs, and those it accepts after them.
Required(c) ==
  CASE c \in {"priority", "config", "update"} -> 0
    [] c \in {"callers", "diff"} -> 2
    [] OTHER -> 1

Accepted(c) ==
  CASE c \in {"dump", "calls", "xrefs", "cfg", "intelli", "implicit"} -> <<"TARGET">>
    [] c \in {"types", "find"} -> <<"QUERY">>
    [] c = "yara" -> <<"RULES">>
    [] c = "patch" -> <<"ADDR", "HEX">>
    [] OTHER -> << >>

\* clap: the options before the command are global ones, its own follow, every
\* word is an operand, an option may require another, and only one that makes a
\* list may be repeated.
Lists == {"path", "calls-only", "calls-exclude", "only", "yara", "include-dir", "include-image"}
Requires == {<<"debug-report-include-target", "debug-report">>,
             <<"device-security-worker", "device-security">>}

Parsed(args) ==
  LET first == SelectInSeq(args, IsWord)
      words == SelectSeq(args, IsWord)
      c == IF first = 0 THEN {} ELSE CanonicalCommand(args[first].name)
      cmd == CHOOSE x \in c : TRUE
      key(i) == args[i].name
      before == {i \in DOMAIN args : i < first}
      after == {i \in DOMAIN args : i > first /\ ~ IsWord(args[i])}
      options == {CHOOSE o \in Grammar(cmd, key(i)) : TRUE : i \in before \cup after}
      extra == Len(words) - 1 - Required(cmd)
      operands == {Accepted(cmd)[k] : k \in 1 .. extra}
      accepted == /\ c # {}
                  /\ \A i \in before : key(i) \in DOMAIN GlobalArgs
                  /\ \A i \in after : Grammar(cmd, key(i)) # {}
                  /\ \A i, j \in after : i # j /\ Grammar(cmd, key(i)) = Grammar(cmd, key(j))
                                         => Grammar(cmd, key(i)) \subseteq Lists
                  /\ extra \in 0 .. Len(Accepted(cmd))
                  /\ \A r \in Requires : r[1] \in options => r[2] \in options
  IN  IF accepted THEN [command |-> cmd, given |-> options \cup operands]
      ELSE [command |-> "rejected", given |-> {}]

-----------------------------------------------------------------------------
(* One run of main up to the command.                                       *)

VARIABLES
  line,     \* the arguments as typed
  argv,     \* the arguments so far rewritten
  stage,    \* where main is
  parse,    \* the command and the options given
  options,  \* the flat record
  outcome   \* the configuration and the function that runs

vars == <<line, argv, stage, parse, options, outcome>>

NoParse == [command |-> "none", given |-> {}]
NoOutcome == [config |-> << >>, runs |-> "none"]

\* Lines: an output option, the command and its image, and up to two options.
Options1(c) == {<< >>} \cup {<<o>> : o \in DOMAIN Takes[c]}
Line(c, leader, style, opts) ==
  LET command == IF c = "implicit" THEN << >> ELSE <<Token("word", c)>>
      images == [i \in 1 .. Required(c) |-> Token("word", "IMAGE")]
      token(o) == Token(IF o \in Operands THEN "word" ELSE style, o)
  IN  leader \o command \o images \o [i \in DOMAIN opts |-> token(opts[i])]

Companions1(c) == {<< >>} \cup {<<o>> : o \in Companions \cap DOMAIN Takes[c]}
Lines ==
  UNION {{Line(c, << >>, style, first \o second) :
            style \in {"dash", "slash"}, first \in Options1(c), second \in Companions1(c)} :
         c \in Commands}
  \cup UNION {{Line(c, <<Token("dash", o)>>, "dash", first) :
                 o \in Leaders, first \in Options1(c)} : c \in Commands}
  \cup {<<Token(style, w)>> : style \in {"word", "slash"},
                              w \in Sections \cup {"help", "version", "dumpp", "refs"}}

Init ==
  /\ line \in Lines
  /\ argv = line
  /\ stage = "normalize"
  /\ parse = NoParse
  /\ options = << >>
  /\ outcome = NoOutcome

Normalize ==
  /\ stage = "normalize"
  /\ argv' = Normalized(argv)
  /\ stage' = IF IsHelpRequest(argv') THEN "help"
              ELSE IF IsVersionRequest(argv') THEN "version" ELSE "parse"
  /\ UNCHANGED <<line, parse, options, outcome>>

Parse ==
  /\ stage = "parse"
  /\ argv' = Prepared(argv)
  /\ parse' = Parsed(argv')
  /\ stage' = IF parse'.command = "rejected" THEN "rejected" ELSE "lower"
  /\ UNCHANGED <<line, options, outcome>>

LowerOptions ==
  /\ stage = "lower"
  /\ options' = Lower(parse.command, parse.given)
  /\ stage' = IF On(options', "example") THEN "example" ELSE "configure"
  /\ UNCHANGED <<line, argv, parse, outcome>>

Configure ==
  /\ stage = "configure"
  /\ outcome' = [config |-> FromOptions(options), runs |-> Dispatch(parse.command, options)]
  /\ stage' = "run"
  /\ UNCHANGED <<line, argv, parse, options>>

Next == Normalize \/ Parse \/ LowerOptions \/ Configure

Spec == Init /\ [][Next]_vars

-----------------------------------------------------------------------------
(* Properties.                                                              *)

Stages ==
  {"normalize", "parse", "lower", "configure", "run", "help", "version", "example", "rejected"}

\* Every stage has what the one before it made, and only a parsed line is run.
TypeOK ==
  /\ stage \in Stages
  /\ parse.command \in Commands \cup {"none", "rejected"}
  /\ stage \in {"lower", "configure", "run", "example"} =>
       parse.command \in Commands /\ parse.given \subseteq DOMAIN Takes[parse.command]
  /\ (stage = "run") <=> (outcome # NoOutcome)

\* Options that another one overrides, which is what their help says.
Overrides ==
  {<<"bytes", "max-bytes">>, <<"calls", "funcs-depth">>, <<"QUERY", "find">>,
   <<"quiet", "verbose">>, <<"quiet", "time">>, <<"diagnostic", "verbose">>,
   <<"diagnostic-trace", "verbose">>}
  \cup ({"calls", "calls-only", "calls-exclude", "funcs-filter", "funcs-depth"} \X {"funcs"})

\* Options that cannot change anything on their own, or at all in a command
\* that fixes what they say.  --att cannot turn --intel off, which is on by default.
Inert(c, g) ==
  {"intel", "follow-jmp", "att"}
  \cup (IF c \in {"xrefs", "cfg", "intelli"} THEN {c} ELSE {})
  \cup (IF "bytes" \in g THEN {} ELSE {"no-bytes"})
  \cup (IF c = "scan" \/ (c = "diff" /\ "cfg-format" \in g) THEN {"json"} ELSE {})
  \cup {o \in g : \E p \in Overrides : p[2] = o /\ p[1] \in g}

\* An option a command accepts changes what the command is configured to do,
\* unless another option on the line overrides it: the tables of args.rs,
\* lower.rs and config.rs, kept by hand in three files, agree on all commands.
OptionsHonoured ==
  stage = "run" =>
    \A o \in parse.given \ Inert(parse.command, parse.given) :
      LET without == Lower(parse.command, parse.given \ {o})
      IN  outcome # [config |-> FromOptions(without), runs |-> Dispatch(parse.command, without)]

Dashed(args) ==
  [i \in DOMAIN args |->
     IF args[i].style = "slash" /\ i > 1 THEN Token("dash", args[i].name) ELSE args[i]]

\* After a leading command, a slash option means what the dash option means,
\* although it is looked up before anything is parsed, in a table built from
\* the grammar, with short and legacy spellings in one name space.
SlashMeansDash ==
  stage \in {"lower", "rejected"} /\ line[1].style # "dash" =>
    parse = Parsed(Prepared(Normalized(Dashed(line))))

=============================================================================
