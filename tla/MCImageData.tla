------------------------------ MODULE MCImageData ------------------------------
(***************************************************************************)
(* What RESX learns of images, for TLC: the layout and the directories of  *)
(* a PE file, the PDB loaders, and the comparison of two images.  They     *)
(* share no variable, so a behaviour moves one of them and leaves the      *)
(* others as they began.  Two threads and one image with an exported and a *)
(* private symbol; two images of up to three functions among which are     *)
(* clones, rebuilt code, hints and functions of equal name; files of up to *)
(* nine cells and two sections, with a directory of each kind at every     *)
(* place; and directories of up to two records of every kind.              *)
(***************************************************************************)
EXTENDS PdbSession, PeImage, Comparison, TLC

CONSTANTS
  c1, c2, img, exported, private,
  CheckEntries, CheckStrings, UnwindBudget, ReadEntries,  \* see PeDirectories
  ReadStrings, MaxDepth, MaxNodes, MaxChain, MaxCallbacks

VARIABLES
  part,  \* the model that moves
  image, found, read

TheCallers == {c1, c2}
TheImages == {img}
TheNames == {exported, private}
TheExports == [i \in TheImages |-> {exported}]
TheSymbols == [i \in TheImages |-> TheNames]

TheRequests ==
  {[op |-> "lookup", image |-> i, name |-> n, reload |-> r] :
     i \in TheImages, n \in TheNames, r \in BOOLEAN}
  \cup {[op |-> o, image |-> i, name |-> exported, reload |-> r] :
     o \in {"symbols", "types"}, i \in TheImages, r \in BOOLEAN}

Kind(code, shape, api, fuzzy, size, blocks, name, source, confidence, strings) ==
  [code |-> code, shape |-> shape, api |-> api, fuzzy |-> fuzzy, size |-> size,
   blocks |-> blocks, name |-> name, source |-> source, confidence |-> confidence,
   strings |-> strings]

Exported == Kind(1, 1, "named", 20, 80, 2, "f", "export", 90, TRUE)
Clone == Kind(1, 1, "named", 20, 64, 2, "none", "call", 60, TRUE)
Rebuilt == Kind(2, 1, "runtime", 30, 80, 3, "g", "export", 90, TRUE)
Large == Kind(3, 3, "none", 60, 300, 24, "none", "pdata", 80, FALSE)
Hint == Kind(2, 1, "none", 0, 16, 1, "none", "prologue", 30, FALSE)

At(rva, kind) == [rva |-> rva] @@ kind
Two(k, m) == {At(4096, k), At(4112, m)}
PairsOfKinds ==
  {Two(Exported, Hint), Two(Exported, Clone), Two(Hint, Rebuilt), Two(Hint, Large),
   Two(Rebuilt, Clone), Two(Clone, Large)}
Triples == {{At(4096, Exported), At(4112, Hint), At(8192, Clone)},
            {At(4096, Clone), At(4112, Rebuilt), At(8192, Clone)},
            {At(4096, Rebuilt), At(4112, Rebuilt), At(8192, Exported)},
            {At(4096, Large), At(4112, Hint), At(8192, Rebuilt)}}
TheBinaries == PairsOfKinds \cup Triples \cup {{At(4096, Hint)}}
TheThresholds ==
  {[threshold |-> 65, includeWeak |-> FALSE], [threshold |-> 90, includeWeak |-> TRUE]}

Sec(va, vsize, raw, rsize) == [va |-> va, vsize |-> vsize, raw |-> raw, rsize |-> rsize]
Shapes == {Sec(2, 2, 2, 2), Sec(2, 3, 2, 1), Sec(4, 2, 4, 2), Sec(3, 2, 4, 2), Sec(5, 0, 3, 2),
           Sec(4, 0, 4, 0), Sec(8, 2, 4, 1)}
Layouts == {<< >>} \cup {<<s>> : s \in Shapes} \cup {<<s, t>> : s, t \in Shapes}
NoDirectories == [i \in {0, 3, 4, 8} |-> [rva |-> 0, size |-> 0]]
OneDirectory ==
  {NoDirectories} \cup {[NoDirectories EXCEPT ![i] = [rva |-> a, size |-> n]] :
                         i \in {0, 3, 4, 8}, a \in {0, 1, 2, 3, 4, 6}, n \in 0 .. 3}
TheFiles ==
  [size : {5, 7}, header : {"good"}, tableEnd : {2}, headers : {2, 4}, image : {7},
   sections : Layouts, machine : {"x64"}, dirs : OneDirectory, declared : {16}, room : {16},
   odd : {{}}, damaged : {{}}, entry : {0}]
  \cup
  [size : {1, 7, 9}, header : {"good", "bad"}, tableEnd : {2}, headers : {0, 2}, image : {1, 7},
   sections : {<<Sec(2, 2, 2, 2)>>}, machine : {"x64", "other"},
   dirs : {NoDirectories, [NoDirectories EXCEPT ![3] = [rva |-> 3, size |-> 3]],
           [NoDirectories EXCEPT ![0] = [rva |-> 2, size |-> 1]]},
   declared : {3, 16, 17}, room : {2, 16}, odd : {{}, {"high"}}, damaged : {{}, {0}},
   entry : {0, 3, 5}]

UpTo(S, n) == UNION {[1 .. k -> S] : k \in 0 .. n}
TheExportTables ==
  [header : {TRUE}, module : {"none", "text"},
   functions : UpTo({"none", "code", "forwarder", "dotless", "cut"}, 2),
   names : UpTo([function : 1 .. 3, name : {"text", "empty"}], 2)]
Library ==
  [attributes : {TRUE}, name : {"text", "empty"}, iat : {TRUE}, lookup : BOOLEAN,
   bound : {TRUE}, backed : {TRUE}, slots : {1, 3}, terminated : BOOLEAN,
   thunks : UpTo({"ordinal", "reserved", "text", "cut"}, 2)]
Good == [attributes |-> TRUE, name |-> "text", iat |-> TRUE, lookup |-> TRUE, bound |-> FALSE,
         backed |-> TRUE, slots |-> 3, thunks |-> <<"text">>, terminated |-> TRUE]
Imported == [descriptors |-> <<Good>>, terminated |-> TRUE]
TheImportTables ==
  [descriptors : UpTo(Library, 1), terminated : BOOLEAN]
  \cup [descriptors : {<<Good, x>> : x \in Library}, terminated : {TRUE}]
Plain == [name : {"none"}, to : {"data", "a", "b"}]
Entries == [name : {"none", "text"}, to : {"data", "root", "a", "b", "nowhere"}]
TheResources ==
  {("root" :> r) @@ ("a" :> x) @@ ("b" :> y) :
     r \in UpTo(Plain, 2), x \in UpTo(Plain, 2), y \in UpTo(Entries, 1)}
TheTls ==
  [table : {"none", "unmapped", "backed"}, fields : BOOLEAN,
   callbacks : UpTo({"code", "data"}, 3), terminated : BOOLEAN]
Infos == [state : {"good", "odd", "absent", "bad version", "bad codes"}, codes : {0, 2},
          next : {"none", "u", "v"}, range : {"mapped"}]
TheUnwindTables ==
  [records : UpTo([range : {"mapped", "at zero", "reversed"}, unwind : {"u", "w"}], 2),
   infos : {("u" :> x) @@ ("v" :> [state |-> v, codes |-> 2, next |-> "none", range |-> "mapped"]) :
              x \in Infos, v \in {"good", "absent"}},
   partial : {FALSE}]
Debugged(agrees) == <<[size |-> 1, inFile |-> TRUE, agrees |-> agrees, codeView |-> TRUE, name |-> "text"]>>
TheOthers == {
  "certificates" :> [size |-> 24, at |-> (0 :> 9 @@ 8 :> 8 @@ 16 :> 8)],
  "certificates" :> [size |-> 20, at |-> (0 :> 9 @@ 16 :> 4)],
  "relocations" :> <<[sized |-> TRUE, entries |-> <<"pad", "fits">>]>>,
  "relocations" :> <<[sized |-> TRUE, entries |-> <<"fits", "fits">>], [sized |-> FALSE, entries |-> << >>]>>,
  ("debug" :> Debugged(TRUE)) @@ ("iat" :> 3), ("debug" :> Debugged(FALSE)) @@ ("iat" :> 2),
  ("load config" :> <<<<1, 2>>, <<3, 2>>>>) @@ ("reserved" :> 1),
  "bound imports" :> [entries |-> <<[name |-> "text", forwarders |-> <<"text">>]>>, terminated |-> TRUE],
  "clr" :> [size |-> 9, headers |-> 2, signed |-> TRUE,
            streams |-> <<[name |-> 1, from |-> 2, size |-> 3], [name |-> 2, from |-> 4, size |-> 4]>>]}
TheContents ==
  {"exports" :> x : x \in TheExportTables} \cup {"imports" :> x : x \in TheImportTables}
  \cup {"resources" :> x : x \in TheResources} \cup {"tls" :> x : x \in TheTls}
  \cup {"exceptions" :> x : x \in TheUnwindTables}
  \cup {o @@ ("imports" :> Imported) @@ ("delayed imports" :> Imported) : o \in TheOthers}

Contents == INSTANCE PeDirectories WITH Images <- TheContents

contentVars == <<image, found, read>>

NoPair == left = {} /\ right = {} /\ mean = << >> /\ options = << >> /\ report = NoReport
AFile == CHOOSE f \in Files : TRUE
NoLayout == file = AFile /\ pe = NotParsed
NoContents == image = << >> /\ found = {} /\ read = << >>

PartInit ==
  /\ Init
  /\ \/ part = "pdb" /\ NoPair /\ NoLayout /\ NoContents
     \/ part = "diff" /\ CompareInit /\ NoLayout /\ NoContents
     \/ part = "layout" /\ NoPair /\ LayoutInit /\ NoContents
     \/ part = "contents" /\ NoPair /\ NoLayout /\ Contents!Init

PartNext ==
  \/ part = "pdb" /\ Next /\ UNCHANGED <<part, comparisonVars, layoutVars, contentVars>>
  \/ part = "diff" /\ Compare /\ UNCHANGED <<part, vars, layoutVars, contentVars>>
  \/ part = "layout" /\ ParsePe /\ UNCHANGED <<part, vars, comparisonVars, contentVars>>
  \/ part = "contents" /\ Contents!Next /\ UNCHANGED <<part, vars, comparisonVars, layoutVars>>

PartSpec ==
  PartInit /\ [][PartNext]_<<part, vars, comparisonVars, layoutVars, contentVars>>

-----------------------------------------------------------------------------
(* The properties of the directories; those of the other models are their own. *)

\* A directory in which nothing was found is read in full, and resources in
\* which nothing was found are a tree.
AcceptedIsRead == part = "contents" => Contents!AcceptedIsRead /\ Contents!AcceptedIsTree

=============================================================================
