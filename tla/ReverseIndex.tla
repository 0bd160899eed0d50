----------------------------- MODULE ReverseIndex ------------------------------
(***************************************************************************)
(* The callers of one function over many images (commands/follow.rs and    *)
(* analysis/follow): find the image, resolve the function in it, list the  *)
(* images to scan, index each of them in any order, merge the indexes into *)
(* one graph and look the function up.  CallTree takes the walk from here. *)
(*                                                                         *)
(* An index is a set of calls: the callee, by place or by import, the      *)
(* function that calls it and the RVA of the call.  The order of a list    *)
(* of callers and the text of a site are left out.                         *)
(***************************************************************************)
EXTENDS Integers, Sequences, FiniteSets

CONSTANTS
  Folders,   \* folder -> file names it holds -> path once links are resolved
  Stored,    \* path -> image
  Questions, \* what is asked, with the options that matter here
  WdfNames,  \* the functions of the KMDF table
  Undecorate \* name -> the name without case, underscores and @n, when it has some

VARIABLES
  question,
  progress, \* "locate", "resolve", "list", "index", "merge", "done" or "failed"
  found,   \* the path of the image that was asked for
  goal,    \* the function: the base name of its image, its name and RVA
  scan,    \* the paths to scan
  indexed, \* path -> its index, NoIndex for an image that cannot be read
  graph    \* the calls of all of them

callersVars == <<question, progress, found, goal, scan, indexed, graph>>

NoIndex == [calls |-> {}, wrappers |-> {}]
NoGoal == [base |-> "", name |-> "", rva |-> 0]

-----------------------------------------------------------------------------
(* Names.  A file name is [name, stem, ext, cased]: cased when its          *)
(* extension is written neither ".dll" nor ".DLL".                          *)

\* normalize_dll_base and FuncRef::new: the extension is stripped, then folded.
BaseOf(file) == IF file.ext = "dll" /\ ~ file.cased THEN file.stem ELSE file.name
\* import_slot_map_by_va: folded, then stripped.
ImportBase(file) == IF file.ext = "dll" THEN file.stem ELSE file.name

Place(base, rva) == <<"place", base, rva>>
Import(base, name) == <<"import", base, name>>

\* normalize_symbol_name
CoreName(name) == IF name \in DOMAIN Undecorate THEN Undecorate[name] ELSE name

Candidates(wanted) ==
  LET Order == IF wanted.stem = "ntoskrnl" THEN <<"exe", "sys", "dll">>
               ELSE IF wanted.stem = "win32k" THEN <<"sys", "dll", "exe">>
               ELSE <<"dll", "exe", "sys">>
  IN IF wanted.ext # "" THEN <<wanted.ext>> ELSE Order

-----------------------------------------------------------------------------
(* Which images.                                                            *)

\* Folders looked into for a bare name, in order, and the ones that are scanned.
SystemFolders(cfg) == cfg.priority \o (IF cfg.system THEN <<"system">> ELSE << >>)
LookupFolders(cfg) ==
  cfg.extra \o (IF cfg.cwd THEN <<"cwd">> ELSE << >>) \o SystemFolders(cfg)
  \o (IF cfg.env THEN <<"env">> ELSE << >>)

\* The files a bare name may be, the first wins.
Located(wanted, cfg) ==
  LET At(folder, ext) ==
        {p \in DOMAIN Folders[folder] :
           LET f == Folders[folder][p] IN f.stem = wanted.stem /\ f.ext = ext}
      folders == LookupFolders(cfg)
      exts == Candidates(wanted)
      hits == {h \in (1 .. Len(folders)) \X (1 .. Len(exts)) : At(folders[h[1]], exts[h[2]]) # {}}
      first == CHOOSE h \in hits : \A g \in hits : h[1] < g[1] \/ (h[1] = g[1] /\ h[2] <= g[2])
  IN IF hits = {} THEN {} ELSE At(folders[first[1]], exts[first[2]])

ExternalDriver(path) == Stored[path].file.ext = "sys" /\ path \notin DOMAIN Folders["system"]

Scanned(folder, cfg, priorityOnly, scoped) ==
  {p \in DOMAIN Folders[folder] :
     LET image == Stored[p]
     IN /\ image.file.ext \in {"dll", "sys"} \cup (IF cfg.exe THEN {"exe"} ELSE {})
        /\ ~ (cfg.small /\ image.big)
        /\ (cfg.include # {} => p \in cfg.include)
        /\ (scoped /\ cfg.scope # {} => p \in cfg.scope)
        /\ p \notin cfg.exclude
        /\ (priorityOnly => image.priority)}

Members(s) == {s[i] : i \in 1 .. Len(s)}

ScanList(path, cfg) ==
  {path} \cup
  IF ExternalDriver(path) /\ cfg.folders = << >> /\ cfg.dlls = {} THEN {}
  ELSE UNION {Scanned(f, cfg, TRUE, FALSE) : f \in Members(SystemFolders(cfg))}
       \cup UNION {Scanned(f, cfg, FALSE, TRUE) : f \in Members(cfg.folders)}
       \cup UNION {Located(d, cfg) : d \in cfg.dlls}

-----------------------------------------------------------------------------
(* The index of one image.  Its code maps RVAs to [op, to, real]: what the  *)
(* bytes there look like, and whether they are an instruction.              *)

RuntimeAt(image, r) == {f \in image.runtime : f.begin <= r /\ r < f.end}

\* Bytes inside an immediate or between functions taken for a call.
IsBoundaryAnywhere(image, r) == TRUE

IsBoundary(image, r) ==
  image.bits = 64 => image.code[r].real /\ RuntimeAt(image, r) # {}

\* The function a site is in: the name of an export at its start or the lowest
\* inside, without unwind data that of the nearest export before, or none at all.
Owner(path, begin, exports) ==
  [path |-> path, begin |-> begin,
   name |-> IF exports = {} THEN "" ELSE (CHOOSE e \in exports : \A o \in exports : e.rva <= o.rva).name]

OwnerOf(image, path, r) ==
  LET f == CHOOSE g \in RuntimeAt(image, r) : TRUE
      before == {e \in image.exports : e.rva # 0 /\ e.rva <= r}
      last == {e \in before : \A o \in before : o.rva <= e.rva}
  IN IF RuntimeAt(image, r) # {}
     THEN Owner(path, f.begin, {e \in image.exports : f.begin <= e.rva /\ e.rva < f.end})
     ELSE IF last = {} THEN Owner(path, r, {})
     ELSE Owner(path, (CHOOSE e \in last : TRUE).rva, last)

Call(image, path, callee, r) ==
  [to |-> callee, by |-> OwnerOf(image, path, r), via |-> "", site |-> r]

SlotCalls(image, path) ==
  {Call(image, path,
        Import(ImportBase(image.slots[image.code[r].to].file), image.slots[image.code[r].to].name), r) :
     r \in {s \in DOMAIN image.code :
              /\ image.code[s].op \in {"call slot", "jmp slot"} /\ IsBoundary(image, s)
              /\ image.code[s].to \in DOMAIN image.slots}}

NearCalls(image, path) ==
  {Call(image, path, Place(BaseOf(image.file), image.code[r].to), r) :
     r \in {s \in DOMAIN image.code :
              /\ image.code[s].op \in {"call", "jmp"} /\ IsBoundary(image, s)
              /\ image.code[s].to \in image.mapped}}

\* Calls through the KMDF function table, in an image that imports from it.
TableCalls(image, path) ==
  {Call(image, path, Import("wdf", image.code[r].to), r) :
     r \in {s \in DOMAIN image.code :
              /\ image.code[s].op = "table" /\ image.bits = 64
              /\ \E a \in DOMAIN image.slots : image.slots[a].wdf}}

IsJump(image, r) == r \in DOMAIN image.code /\ image.code[r].op \in {"jmp", "jmp slot"}

\* What a jump comes to, if no more than one further jump is between: an import
\* that is known, or a place that is not another jump.
JumpsTo(image, r) ==
  LET to == image.code[r].to
  IN IF image.code[r].op = "jmp slot"
     THEN {Import(BaseOf(image.slots[a].file), image.slots[a].name) : a \in {to} \cap DOMAIN image.slots}
     ELSE {Place(BaseOf(image.file), to)}
\* Only the first jump is followed.
LeadsToNext(image, r) == JumpsTo(image, r)

LeadsTo(image, r) ==
  LET to == image.code[r].to
  IN IF image.code[r].op = "jmp slot" \/ to = r \/ ~ IsJump(image, to) THEN JumpsTo(image, r)
     ELSE IF image.code[to].op = "jmp" /\ image.code[to].to \notin {r, to} /\ IsJump(image, image.code[to].to)
     THEN {}
     ELSE JumpsTo(image, to)

\* The exports that are nothing but a jump to something else.
Wrappers(image) ==
  UNION {{[name |-> e.name, rva |-> e.rva, to |-> t] : t \in LeadsTo(image, e.rva)} :
           e \in {x \in image.exports : x.rva # 0 /\ IsJump(image, x.rva)}}
OwnWrappers(image) == {w \in Wrappers(image) : w.to # Place(BaseOf(image.file), w.rva)}

IndexOf(image, path) ==
  [calls |-> NearCalls(image, path) \cup SlotCalls(image, path) \cup TableCalls(image, path),
   wrappers |-> OwnWrappers(image)]

-----------------------------------------------------------------------------
(* The graph.                                                               *)

ArchWanted(bits, cfg, targetBits) ==
  CASE cfg.arch = "x86" -> bits = 32
    [] cfg.arch = "x64" -> bits = 64
    [] OTHER -> bits = targetBits

\* The callers of a wrapper also call what it leads to, through it.
Expanded(calls, path, wrapper) ==
  {[c EXCEPT !.to = wrapper.to, !.via = wrapper.name] :
     c \in {k \in calls : k.to = Place(BaseOf(Stored[path].file), wrapper.rva)}}

Graph(indexes, cfg, targetBits) ==
  LET read == {p \in DOMAIN indexes : indexes[p] # NoIndex}
      calls == UNION {indexes[p].calls : p \in {q \in read : ArchWanted(Stored[q].bits, cfg, targetBits)}}
  IN calls \cup UNION {UNION {Expanded(calls, p, w) : w \in indexes[p].wrappers} : p \in read}

\* One entry for each function and each way it takes, with all its sites.
CallersFor(target) ==
  LET calls == {c \in graph : c.to \in {Place(target.base, target.rva), Import(target.base, target.name)}}
  IN {[by |-> c.by, via |-> c.via, sites |-> {d.site : d \in {e \in calls : e.by = c.by /\ e.via = c.via}}] :
        c \in calls}

-----------------------------------------------------------------------------

CallersInit ==
  /\ question \in Questions /\ progress = "locate" /\ found = "" /\ goal = NoGoal
  /\ scan = {} /\ indexed = << >> /\ graph = {}

Locate ==
  /\ progress = "locate"
  /\ LET hits == IF question.path # "" THEN {question.path} \cap DOMAIN Stored
                 ELSE Located(question.dll, question.cfg)
     IN IF \E p \in hits : Stored[p].readable
        THEN found' \in hits /\ progress' = "resolve"
        ELSE progress' = "failed" /\ UNCHANGED found
  /\ UNCHANGED <<question, goal, scan, indexed, graph>>

\* An export by name or ordinal, a symbol, an import or a function of the KMDF table.
Goals(image, func, symbols) ==
  LET exports == {e \in image.exports : e.name = func \/ e.ordinal = func}
      imports == {a \in DOMAIN image.slots : CoreName(image.slots[a].name) = CoreName(func)}
      Own(name, rva) == [base |-> BaseOf(image.file), name |-> name, rva |-> rva]
  IN IF exports # {} THEN {Own(e.name, e.rva) : e \in exports}
     ELSE IF symbols /\ func \in DOMAIN image.symbols THEN {Own(func, image.symbols[func])}
     ELSE IF imports # {}
     THEN {[base |-> BaseOf(image.slots[a].file), name |-> image.slots[a].name, rva |-> 0] : a \in imports}
     ELSE {[base |-> "wdf", name |-> func, rva |-> 0] : f \in {func} \cap WdfNames}

Resolve ==
  /\ progress = "resolve"
  /\ LET goals == Goals(Stored[found], question.func, question.cfg.pdb)
     IN IF goals = {} THEN progress' = "failed" /\ UNCHANGED goal
        ELSE progress' = "list" /\ goal' \in goals
  /\ UNCHANGED <<question, found, scan, indexed, graph>>

List ==
  /\ progress = "list"
  /\ scan' = ScanList(found, question.cfg)
  /\ progress' = "index"
  /\ UNCHANGED <<question, found, goal, indexed, graph>>

\* Workers take the images in any order.
IndexImage(p) ==
  /\ progress = "index"
  /\ p \in scan \ DOMAIN indexed
  /\ indexed' = [q \in DOMAIN indexed \cup {p} |->
                   IF q # p THEN indexed[q]
                   ELSE IF Stored[p].readable THEN IndexOf(Stored[p], p) ELSE NoIndex]
  /\ UNCHANGED <<question, progress, found, goal, scan, graph>>

Merge ==
  /\ progress = "index"
  /\ DOMAIN indexed = scan
  /\ graph' = Graph(indexed, question.cfg, Stored[found].bits)
  /\ progress' = "done"
  /\ UNCHANGED <<question, found, goal, scan, indexed>>

CallersNext == Locate \/ Resolve \/ List \/ (\E p \in DOMAIN Stored : IndexImage(p)) \/ Merge

CallersSpec == CallersInit /\ [][CallersNext]_callersVars

-----------------------------------------------------------------------------
(* What the callers should be.                                              *)

\* An image as compilers and linkers make it: its code is calls and jumps, none of
\* them to RVA 0 or to itself, a call through the KMDF table is in a function of an
\* image that imports from its loader, exports have names and are mapped, functions
\* do not overlap, and no import names a file with a cased extension.
SoundImage(image) ==
  /\ DOMAIN image.code \subseteq Nat /\ image.runtime \subseteq [begin : Nat, end : Nat]
  /\ \A r \in DOMAIN image.code :
       LET i == image.code[r]
       IN /\ i.op \in {"call", "jmp", "call slot", "jmp slot", "table"}
          /\ i.op \in {"call", "jmp"} => i.to # 0
          /\ i.op = "jmp" => i.to # r
          /\ i.op = "table" /\ image.bits = 64 =>
               i.real /\ RuntimeAt(image, r) # {} /\ \E a \in DOMAIN image.slots : image.slots[a].wdf
  /\ \A e \in image.exports : e.name # "" /\ e.rva \in image.mapped \cup {0}
  /\ \A s \in DOMAIN image.symbols : image.symbols[s] \in image.mapped \cup {0}
  /\ \A f, g \in image.runtime : f.begin <= g.begin /\ g.begin < f.end => f = g
  /\ \A a \in DOMAIN image.slots : ~ image.slots[a].file.cased

\* No two images have one name.
SoundImages ==
  /\ \A p \in DOMAIN Stored : SoundImage(Stored[p])
  /\ \A p, q \in DOMAIN Stored : BaseOf(Stored[p].file) = BaseOf(Stored[q].file) => p = q

\* An instruction the unwind data covers, in a scanned image of the architecture.
Instructions ==
  {i \in UNION {{p} \X DOMAIN Stored[p].code : p \in scan} :
     LET image == Stored[i[1]]
     IN /\ image.readable /\ ArchWanted(image.bits, question.cfg, Stored[found].bits)
        /\ image.code[i[2]].real /\ RuntimeAt(image, i[2]) # {}}

\* The functions, by path and RVA or by image and name, that control reaches from r
\* when it calls or jumps there.
Enters(p, r) ==
  LET i == Stored[p].code[r]
  IN IF i.op \in {"call", "jmp"} THEN {<<"in", p, i.to>>}
     ELSE IF i.op = "table" THEN {<<"by", "wdf", i.to>>}
     ELSE {<<"by", ImportBase(Stored[p].slots[a].file), Stored[p].slots[a].name>> :
             a \in {i.to} \cap DOMAIN Stored[p].slots}

WantedCallees ==
  {<<"in", found, goal.rva>>, <<"by", goal.base, goal.name>>}

\* What a jump at r enters, what jumps there enter next, and which of it is no jump.
Passes(p, r) == IF IsJump(Stored[p], r) THEN Enters(p, r) ELSE {}
Through(p, e) == UNION {Passes(p, g[3]) : g \in {h \in e : h[1] = "in"}}
Ends(p, e) == {g \in e : g[1] = "by" \/ ~ IsJump(Stored[p], g[3])}

\* The way to the goal from r: nothing, or the wrapper that one or two jumps leave.
Ways(p, r) ==
  (IF Enters(p, r) \cap WantedCallees # {} THEN {""} ELSE {})
  \cup {e.name : e \in {x \in Stored[p].exports :
          /\ <<"in", p, x.rva>> \in Enters(p, r)
          /\ (Ends(p, Passes(p, x.rva)) \cup Ends(p, Through(p, Passes(p, x.rva)))) \cap WantedCallees # {}}}

\* The calls of the goal, each with its function and its way.
CallsMeant ==
  UNION {{[path |-> i[1], begin |-> f.begin, via |-> w, site |-> i[2]] :
            f \in RuntimeAt(Stored[i[1]], i[2]), w \in Ways(i[1], i[2])} : i \in Instructions}

\* For an x64 image, every function with a call of the goal, directly or through a
\* wrapper, is listed with exactly those calls, and no other function: whatever
\* images could not be read.  (Names with a cased extension do not match imports.)
CallersExact ==
  progress = "done" =>
    /\ found \in scan
    /\ ~ Stored[found].file.cased /\ Stored[found].bits = 64 /\ question.cfg.arch # "x86" =>
         {[path |-> c.by.path, begin |-> c.by.begin, via |-> c.via, sites |-> c.sites] : c \in CallersFor(goal)}
         = {[path |-> m.path, begin |-> m.begin, via |-> m.via,
             sites |-> {o.site : o \in {n \in CallsMeant :
                          n.path = m.path /\ n.begin = m.begin /\ n.via = m.via}}] : m \in CallsMeant}

=============================================================================
