---------------------------- MODULE ImageSamples -----------------------------
(***************************************************************************)
(* What the searches look through.  For ReverseIndex: a library with       *)
(* internal, aliased and wrapped functions and bytes that look like calls, *)
(* a tool that imports from it and wraps it, a program, a driver that uses *)
(* the KMDF table, an old x86 library, an image that cannot be read and    *)
(* one with a cased extension.  For SymbolLocation, InstructionFinder and  *)
(* CorpusScan: folders, an image and a tree of files.  For DumpCommand:    *)
(* two images.  The code of "a" begins at RVA 1 and holds thunks of every  *)
(* kind, the slots of its imports begin at 20; "b" exports other functions *)
(* at the same RVAs and ordinals, imports from "a", and has a virtual tail *)
(* that the file does not hold.  "A" is "a" in capitals.                   *)
(***************************************************************************)
EXTENDS Integers, Sequences, TLC

LOCAL FileOf(stem, ext, cased) ==
  [name |-> stem \o "." \o ext, stem |-> stem, ext |-> ext, cased |-> cased]
LOCAL Exp(name, ordinal, rva) == [name |-> name, ordinal |-> ordinal, rva |-> rva]
LOCAL Fn(begin, end) == [begin |-> begin, end |-> end]
LOCAL Ins(op, to) == [op |-> op, to |-> to, real |-> TRUE]
LOCAL Bytes(op, to) == [op |-> op, to |-> to, real |-> FALSE]
LOCAL Imported(file, name) == [file |-> file, name |-> name, wdf |-> file.stem = "wdfldr"]
LOCAL AnImage(file, bits, exports, runtime, code, slots) ==
  [file |-> file, bits |-> bits, exports |-> exports, runtime |-> runtime, code |-> code,
   slots |-> slots, mapped |-> 1 .. 99, symbols |-> IF file.stem = "core" THEN ("inner" :> 40) ELSE << >>,
   big |-> file.stem = "app", priority |-> file.stem # "side", readable |-> file.stem # "bad"]

LOCAL Core == FileOf("core", "dll", FALSE)
LOCAL Odd == FileOf("odd", "Dll", TRUE)

\* 20 is a wrapper of 10, 30 of the wrapper 20, 35 of an import of the library itself,
\* 60 jumps three times.
LOCAL CoreImage == AnImage(Core, 64,
  {Exp("Open", "#1", 10), Exp("Shut", "#2", 20), Exp("Twice", "#3", 30), Exp("Self", "#4", 35),
   Exp("Late", "#5", 52), Exp("Far", "#6", 60)},
  {Fn(10, 15), Fn(20, 22), Fn(40, 50), Fn(50, 56)},
  (11 :> Ins("call", 40)) @@ (20 :> Ins("jmp", 10)) @@ (30 :> Ins("jmp", 20)) @@ (35 :> Ins("jmp slot", 90))
    @@ (41 :> Ins("call", 10)) @@ (42 :> Bytes("call", 10)) @@ (43 :> Ins("call", 30)) @@ (44 :> Ins("call slot", 90))
    @@ (45 :> Ins("call", 20)) @@ (51 :> Ins("call", 35)) @@ (54 :> Ins("call", 10)) @@ (57 :> Bytes("jmp", 10))
    @@ (53 :> Ins("call", 60)) @@ (60 :> Ins("jmp", 30)),
  (90 :> Imported(Core, "Open")))

LOCAL ToolImage == AnImage(FileOf("tool", "dll", FALSE), 64,
  {Exp("Go", "#1", 60)}, {Fn(10, 20), Fn(30, 40)},
  (11 :> Ins("call slot", 90)) @@ (12 :> Ins("call", 60)) @@ (13 :> Ins("call slot", 95)) @@ (31 :> Ins("call slot", 91))
    @@ (32 :> Bytes("call slot", 90)) @@ (33 :> Ins("call slot", 92)) @@ (60 :> Ins("jmp slot", 90)),
  (90 :> Imported(Core, "Open")) @@ (91 :> Imported(Core, "#2")) @@ (92 :> Imported(FileOf("odd", "dll", FALSE), "Peep")))

LOCAL AppImage == AnImage(FileOf("app", "exe", FALSE), 64, {}, {Fn(10, 20)},
  (12 :> Ins("jmp slot", 90)) @@ (14 :> Ins("call slot", 91)),
  (90 :> Imported(Core, "Open")) @@ (91 :> Imported(Core, "Shut")))

LOCAL DriverImage == AnImage(FileOf("drv", "sys", FALSE), 64, {}, {Fn(10, 20)},
  (12 :> Ins("table", "WdfDeviceCreate")) @@ (13 :> Ins("call", 10)),
  (90 :> Imported(FileOf("wdfldr", "sys", FALSE), "WdfVersionBind")))

LOCAL OldImage == AnImage(FileOf("old", "dll", FALSE), 32, {Exp("Ago", "#1", 10)}, {},
  (12 :> Ins("call slot", 90)) @@ (13 :> Ins("call", 10)), (90 :> Imported(Core, "Open")))

LOCAL OddImage == AnImage(Odd, 64, {Exp("Peep", "#1", 10)}, {Fn(10, 20)}, (11 :> Ins("call", 10)), << >>)
LOCAL BadImage == AnImage(FileOf("bad", "dll", FALSE), 64, {}, {}, << >>, << >>)
LOCAL SideImage == AnImage(FileOf("side", "dll", FALSE), 64, {}, {Fn(10, 20)},
  (11 :> Ins("call slot", 90)), (90 :> Imported(Core, "Shut")))

TheFiles ==
  ("s/core" :> CoreImage) @@ ("s/tool" :> ToolImage) @@ ("x/app" :> AppImage) @@ ("x/drv" :> DriverImage)
  @@ ("s/old" :> OldImage) @@ ("x/odd" :> OddImage) @@ ("s/bad" :> BadImage) @@ ("s/side" :> SideImage)

TheCores == ("Open" :> "open") @@ ("_open@8" :> "open")

LOCAL Folder(paths) == [p \in paths |-> TheFiles[p].file]
TheFolders ==
  [system |-> Folder({"s/core", "s/tool", "s/old", "s/bad", "s/side"}), extra |-> Folder({"x/app", "x/drv"}),
   cwd |-> Folder({"x/odd"}), env |-> Folder({"x/app", "s/tool"})]

LOCAL Plain ==
  [extra |-> << >>, cwd |-> TRUE, priority |-> << >>, system |-> TRUE, env |-> TRUE, folders |-> << >>,
   dlls |-> {}, exe |-> FALSE, small |-> FALSE, include |-> {}, scope |-> {}, exclude |-> {}, arch |-> "",
   pdb |-> TRUE]
LOCAL Dll(stem, ext) == [stem |-> stem, ext |-> ext]
LOCAL Configs ==
  {Plain, [Plain EXCEPT !.exe = TRUE, !.folders = <<"extra">>],
   [Plain EXCEPT !.exe = TRUE, !.folders = <<"extra">>, !.small = TRUE, !.exclude = {"s/tool"}],
   [Plain EXCEPT !.folders = <<"system", "extra">>, !.scope = {"s/side", "x/drv"}, !.pdb = FALSE],
   [Plain EXCEPT !.system = FALSE, !.extra = <<"extra">>, !.dlls = {Dll("app", ""), Dll("odd", "Dll")}, !.arch = "x64"],
   [Plain EXCEPT !.priority = <<"cwd">>, !.include = {"s/old", "x/odd"}, !.arch = "x86"],
   [Plain EXCEPT !.cwd = FALSE, !.env = FALSE, !.priority = <<"env">>]}
LOCAL Asked(path, dll, func) ==
  {[path |-> path, dll |-> dll, func |-> func, cfg |-> c] : c \in Configs}

SomeQuestions ==
  UNION {Asked(p, Dll("", ""), f) : p \in {"s/core"}, f \in {"Open", "#2", "Twice", "inner", "Gone", "Far", "Self"}}
  \cup UNION {Asked("", d, "Open") : d \in {Dll("core", ""), Dll("core", "dll"), Dll("core", "exe"), Dll("tool", ""),
                                            Dll("bad", ""), Dll("app", ""), Dll("ntoskrnl", "")}}
  \cup Asked("s/tool", Dll("", ""), "_open@8") \cup Asked("", Dll("odd", "Dll"), "Peep") \cup Asked("x/drv", Dll("", ""), "WdfDeviceCreate")
  \cup Asked("s/old", Dll("", ""), "Ago") \cup Asked("x/none", Dll("", ""), "Open")

-----------------------------------------------------------------------------
(* SymbolLocation: 9 is 4 with its links resolved.                          *)

LOCAL Bin(name, ext, place, exports, symbols) ==
  [name |-> name, ext |-> ext, place |-> place, exports |-> exports, symbols |-> symbols,
   readable |-> name # "bad", kernel |-> ext = "sys" \/ name = "ntoskrnl"]
LOCAL Ex(name, rva, syscall) == [name |-> name, rva |-> rva, syscall |-> syscall]
LOCAL Other == Bin("other", "dll", "system32", <<Ex("NtOpen", 3, FALSE)>>, << >>)

TheBinaries ==
  <<Bin("bad", "dll", "system32", <<Ex("NtOpen", 1, FALSE)>>, << >>),
    Bin("ntdll", "dll", "system32", <<Ex("NtOpen", 1, TRUE), Ex("Help", 2, FALSE)>>, ("NtOpen" :> 1)),
    Bin("ntoskrnl", "exe", "system32", <<Ex("NtOpen", 2, FALSE)>>, << >>),
    Other,
    Bin("win32k", "sys", "system32", << >>, ("NtOpen" :> 9)),
    Bin("user", "dll", "other", <<Ex("Help", 1, FALSE), Ex("Help", 4, TRUE)>>, ("Help" :> 4)),
    Bin("ntdll", "dll", "syswow64", <<Ex("NtOpen", 5, TRUE)>>, << >>),
    Bin("readme", "txt", "other", << >>, << >>),
    Other>>
TheListing == [system |-> 1 .. 5, wow |-> {7}, more |-> {4, 6, 8}]
TheLists == [names |-> <<"ntdll", "ntoskrnl">>, patterns |-> <<{"bad", "user"}, {"win32k", "user"}>>]

LOCAL Root(folder, priorityOnly) == [folder |-> folder, priorityOnly |-> priorityOnly]
SomeLookups ==
  [func : {"NtOpen", "Help", "None"}, deep : BOOLEAN, pdb : BOOLEAN,
   roots : {<<Root("system", TRUE), Root("wow", TRUE)>>,
            <<Root("none", TRUE), Root("wow", TRUE), Root("system", TRUE), Root("more", FALSE), Root("system", FALSE)>>},
   given : {<< >>, <<4, 9, 4>>, <<1, 2, 20>>, <<9, 9, 6>>}]

-----------------------------------------------------------------------------
(* InstructionFinder: bytes of two bits.                                    *)

LOCAL At(place, text, kind) == [place |-> place, text |-> text, kind |-> kind, valid |-> TRUE]
LOCAL Invalid(place) == [place |-> place, text |-> "", kind |-> "", valid |-> FALSE]
TheSections ==
  <<[bytes |-> <<0, 1, 2, 1, 0, 1>>,
     instructions |-> <<At(1, "mov r10", ""), At(2, "mov eax", ""), Invalid(3), At(4, "test", ""),
                        At(5, "syscall", "syscall"), At(6, "ret", "")>>],
    [bytes |-> <<3, 1, 2>>,
     instructions |-> <<At(1, "mov r10", ""), At(2, "mov eax", ""), At(3, "ret", ""), Invalid(4)>>]>>

SomeQueries ==
  [requested : {"auto", "raw"}, needle : {<<1>>, <<0, 1>>, <<1, 2, 1>>, <<2, 3>>, << >>}, kind : {""},
   texts : {<<"ret">>}, encoded : BOOLEAN, budget : {0, 3}]
  \cup [requested : {"auto", "decoded", "semantic"}, needle : {<< >>}, kind : {"", "stub", "syscall"},
        texts : {<<"ret">>, <<"mov eax", "test">>, <<"mov r10", "mov eax">>}, encoded : {FALSE}, budget : 0 .. 9]

-----------------------------------------------------------------------------
(* CorpusScan: "up" and "round" lead back, "gone" leads nowhere.            *)

LOCAL Entry(name, node) == [name |-> name, node |-> node]
TheNodes ==
  ("top" :> <<Entry("one", "f1"), Entry("up", "top"), Entry("sub", "sub"), Entry("gone", "gone")>>)
  @@ ("sub" :> <<Entry("two", "f2"), Entry("three", "f3"), Entry("round", "sub"), Entry("four", "f4"), Entry("five", "f5")>>)

LOCAL Named(name, rank, score) == [name |-> name, rank |-> rank, score |-> score]
LOCAL AFile(ext, size, entry, exports) ==
  [ext |-> ext, size |-> size, parses |-> size # 7, entry |-> entry, driver |-> ext = "sys", exports |-> exports,
   deviceIo |-> size = 3, risky |-> size * 8, oddSections |-> 1, corrupt |-> size = 2]
TheTreeFiles ==
  ("f1" :> AFile("dll", 1, TRUE, <<Named("copy", 1, 8), Named("ioctl", 2, 35), Named("parse", 3, 18)>>))
  @@ ("f2" :> AFile("sys", 3, TRUE, <<Named("a", 1, 0), Named("b", 2, 0)>>))
  @@ ("f3" :> AFile("txt", 1, TRUE, << >>))
  @@ ("f4" :> AFile("dll", 7, TRUE, << >>))
  @@ ("f5" :> AFile("dll", 2, FALSE, <<Named("a", 1, 0), Named("read", 2, 8), Named("write", 3, 8)>>))

SomeScans ==
  [root : {"top", "f1", "gone"}, files : {1, 3, 1000}, size : {2, 9}, candidates : {0, 1, 2, 9},
   extensions : {{"dll", "sys"}, {"dll"}}]

-----------------------------------------------------------------------------
LOCAL NameOf(n) == [k |-> "name", n |-> n]
LOCAL To(dll, f) == [dll |-> dll, func |-> NameOf(f)]
LOCAL Export(name, ordinal, rva, forward) ==
  [name |-> name, ordinal |-> ordinal, rva |-> rva, forward |-> forward]
LOCAL Jmp(to) == [k |-> "jmp", to |-> to]
LOCAL Slot(to) == [k |-> "slot", to |-> to]

\* VAs are RVAs plus 40; the file holds the sections at RVAs less 1.
LOCAL Dumped(folded, exports, symbols, jumps, slots, code, data) ==
  [folded |-> folded, exports |-> exports, symbols |-> symbols, jumps |-> jumps, slots |-> slots,
   code |-> code, mapped |-> code \cup data, backed |-> (code \cup data) \ {15},
   va |-> [v \in {r + 40 : r \in code \cup data} |-> v - 40],
   file |-> [o \in {r - 1 : r \in (code \cup data) \ {15}} |-> o + 1],
   begin |-> (8 :> 7), entry |-> 2, main |-> IF folded = "a" THEN 3 ELSE 0]

LOCAL ImageA == Dumped("a",
  <<Export("body", 1, 7, FALSE), Export("far", 2, 1, FALSE), Export("near", 3, 2, FALSE),
    Export("loop", 4, 5, FALSE), Export("round", 5, 10, FALSE), Export("fwd", 6, 30, TRUE)>>,
  <<[name |-> "deep", rva |-> 3], [name |-> "hook", rva |-> 9]>>,
  (1 :> Slot(20)) @@ (2 :> Jmp(7)) @@ (3 :> Jmp(4)) @@ (4 :> Jmp(2)) @@ (5 :> Jmp(6)) @@ (6 :> Jmp(5))
    @@ (9 :> Jmp(1)) @@ (10 :> Slot(21)) @@ (11 :> Slot(23)) @@ (12 :> Jmp(15)),
  (20 :> To("b", "open")) @@ (21 :> To("b", "back")) @@ (22 :> To("b", "gone")),
  1 .. 12, 20 .. 30)

LOCAL ImageB == Dumped("b",
  <<Export("open", 9, 3, FALSE), Export("back", 2, 4, FALSE), Export("other", 1, 1, FALSE)>>,
  << >>,
  (3 :> Jmp(5)) @@ (4 :> Slot(20)),
  (20 :> To("A", "round")),
  (1 .. 12) \cup {15}, 20 .. 22)

TheImages == ("a" :> ImageA) @@ ("A" :> ImageA) @@ ("b" :> ImageB)

LOCAL Dump(source, value) == [source |-> source, value |-> value]
LOCAL Default ==
  [dll |-> "a", func |-> [k |-> "none"], behind |-> [k |-> "none"], at |-> Dump("none", 0), ordinal |-> 0,
   json |-> FALSE, eat |-> FALSE, sections |-> FALSE, xrefs |-> FALSE, pdb |-> TRUE, follow |-> TRUE,
   noForward |-> FALSE, fails |-> FALSE]

LOCAL DumpNamed ==
  {NameOf(n) : n \in {"body", "far", "near", "loop", "round", "fwd", "deep", "hook", "gone", "none",
                      "WdfDeviceCreate"}}
  \cup {[k |-> "entry"], [k |-> "rentry"]}
  \cup {[k |-> k, at |-> Dump("rva", v)] : k \in {"address", "sub"}, v \in {1, 4, 8, 25}}
LOCAL Targets ==
  {[Default EXCEPT !.func = f] : f \in DumpNamed}
  \cup {[Default EXCEPT !.behind = f] : f \in {NameOf("far"), [k |-> "missing"], [k |-> "none"]}}
  \cup {[Default EXCEPT !.ordinal = n] : n \in {1, 2, 7}}
  \cup {[Default EXCEPT !.at = Dump(s, v)] : s \in {"auto", "va", "rva", "file"}, v \in {1, 8, 11, 12, 41, 48, 99}}

SomeRequests ==
  {[t EXCEPT !.dll = d, !.json = j, !.follow = f, ![o] = ~ t[o]] :
     t \in Targets, d \in {"a", "b", "c"}, j \in BOOLEAN, f \in BOOLEAN,
     o \in {"eat", "sections", "xrefs", "pdb", "noForward", "fails"}}

=============================================================================
