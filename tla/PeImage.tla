-------------------------------- MODULE PeImage --------------------------------
(***************************************************************************)
(* The layout of a PE file (resx/src/formats/pe): parse_pe, which accepts  *)
(* or rejects the headers, notes anomalies and takes away the directories  *)
(* that the file does not hold, and the four mappings between addresses    *)
(* and file offsets that everything else reads the image through.          *)
(*                                                                         *)
(* Addresses, offsets and sizes count cells of four bytes; MaxAddress is   *)
(* the largest 32-bit number.  A file tells of its signatures and optional *)
(* header only whether they are good (header), of its alignments and of    *)
(* e_lfanew the severities of what is noted about them (odd), and of the   *)
(* contents of its directories which of them validation::check and         *)
(* metadata_anomalies refuse (damaged), which PeDirectories is about.      *)
(***************************************************************************)
EXTENDS Integers, Sequences, FiniteSets, SequencesExt, FiniteSetsExt

CONSTANTS
  Files,        \* the files that may be parsed
  MaxFile,      \* MAX_PE_BYTES
  MaxSections,  \* most sections of an image, 96
  MaxAddress,
  MaxEntries    \* MAX_PE_ENTRIES

SectionHeaders == [va : Nat, vsize : Nat, raw : Nat, rsize : Nat]
Ranges == [rva : Nat, size : Nat]

\* A file states numbers.
ASSUME FilesAssumption ==
  /\ MaxAddress \in Nat
  /\ \A f \in Files :
       /\ {f.size, f.headers, f.declared, f.room} \subseteq Nat
       /\ f.sections \in Seq(SectionHeaders)
       /\ DOMAIN f.dirs \subseteq 0 .. 15
       /\ \A i \in DOMAIN f.dirs : f.dirs[i] \in Ranges

VARIABLES
  file,
  pe    \* the parsed image; NotParsed before, Rejected if there is none

layoutVars == <<file, pe>>

NotParsed == [status |-> "none"]
Rejected == [status |-> "rejected"]

Exception == 3
Certificate == 4
GlobalPtr == 8

-----------------------------------------------------------------------------
(* Mappings.                                                                *)

Span(s) == Max({s.vsize, s.rsize})
\* contains_rva, whose sum saturates
ContainsRva(s, rva) == rva >= s.va /\ rva < Min({s.va + Span(s), MaxAddress})
Owners(im, rva) == {i \in DOMAIN im.sections : ContainsRva(im.sections[i], rva)}

None == -1

\* rva_to_section: the index of the only section at an address.
RvaToSection(im, rva) ==
  IF Cardinality(Owners(im, rva)) = 1 THEN CHOOSE i \in Owners(im, rva) : TRUE ELSE None

RvaToOffset(im, rva) ==
  LET i == RvaToSection(im, rva)
      s == im.sections[i]
  IN  IF rva < im.headers THEN (IF Owners(im, rva) = {} THEN rva ELSE None)
      ELSE IF i = None \/ rva - s.va >= s.rsize THEN None
      ELSE s.raw + (rva - s.va)

\* Mutant: the next section does not end the bytes of the one before it.
RvaBytesUncut(im, rva) ==
  LET off == RvaToOffset(im, rva)
      s == im.sections[RvaToSection(im, rva)]
      available == IF rva < im.headers THEN im.headers - rva ELSE s.rsize - (rva - s.va)
  IN  IF off = None THEN None
      ELSE IF off > im.size THEN None
      ELSE Min({off + available, im.size}) - off

\* rva_bytes: how many cells the file holds from an address to the end of its
\* region.
RvaBytes(im, rva) ==
  LET off == RvaToOffset(im, rva)
      s == im.sections[RvaToSection(im, rva)]
      available == IF rva < im.headers THEN im.headers - rva ELSE s.rsize - (rva - s.va)
      next == {t.va - rva : t \in {t \in Range(im.sections) : t.va > rva /\ Span(t) # 0}}
  IN  IF off = None THEN None
      ELSE IF off > im.size THEN None
      ELSE Min({off + Min({available} \cup next), im.size}) - off

\* rva_slice finds the cells.
RvaSlice(im, rva, size) == RvaBytes(im, rva) >= size

FileOffsetToRva(im, off) ==
  LET holders == {s \in Range(im.sections) : s.raw <= off /\ off < s.raw + s.rsize}
      rva == (CHOOSE s \in holders : TRUE).va + off - (CHOOSE s \in holders : TRUE).raw
  IN  IF Cardinality({i \in DOMAIN im.sections : im.sections[i] \in holders}) # 1 THEN None
      ELSE IF RvaToOffset(im, rva) # off THEN None ELSE rva

\* validation::mapped: the loader maps the range, in one region.
Mapped(im, rva, size) ==
  LET end == rva + size
      touched == {i \in DOMAIN im.sections :
                    im.sections[i].va < end /\ im.sections[i].va + Span(im.sections[i]) > rva}
      i == RvaToSection(im, rva)
  IN  \/ size = 0
      \/ /\ end <= im.image
         /\ IF rva < im.headers THEN end <= im.headers /\ touched = {}
            ELSE i # None /\ end <= im.sections[i].va + Span(im.sections[i])
                 /\ Cardinality(touched) = 1

-----------------------------------------------------------------------------
(* parse_pe.                                                                *)

Note(severity, kind) == [severity |-> severity, kind |-> kind]

Acceptable(f) ==
  /\ f.size <= MaxFile /\ f.header = "good"
  /\ Len(f.sections) \in 1 .. MaxSections
  /\ f.tableEnd <= f.size
  /\ \A s \in Range(f.sections) : s.va + Span(s) <= MaxAddress /\ s.raw + s.rsize <= MaxAddress

HeaderNotes(f) ==
  {Note(severity, "header") : severity \in f.odd}
  \cup (IF f.headers = 0 \/ f.headers > f.size THEN {Note("warn", "headers")} ELSE {})
  \cup (IF f.image < f.headers THEN {Note("warn", "image-size")} ELSE {})

\* The directories that the optional header has room for; the rest are zero.
Nothing == [rva |-> 0, size |-> 0]
Declared(f) == [i \in DOMAIN f.dirs |-> IF i < Min({f.declared, f.room, 16}) THEN f.dirs[i] ELSE Nothing]
TableNotes(f) ==
  (IF f.room < Min({f.declared, 16}) THEN {Note("warn", "data-directory")} ELSE {})
  \cup (IF f.declared > 16 THEN {Note("warn", "data-directory")} ELSE {})

\* The code sorts the ranges and compares neighbours.
Overlapping(ranges) ==
  \E i, j \in DOMAIN ranges :
    i # j /\ ranges[i].from < ranges[j].to /\ ranges[j].from < ranges[i].to

\* All but what is only noted as information.
SectionNotes(f) ==
  LET InFile(s) == s.rsize # 0 /\ s.raw + s.rsize <= f.size
      raws == [i \in {j \in DOMAIN f.sections : InFile(f.sections[j])} |->
                 [from |-> f.sections[i].raw, to |-> f.sections[i].raw + f.sections[i].rsize]]
      spans == [i \in DOMAIN f.sections |->
                  [from |-> f.sections[i].va, to |-> f.sections[i].va + Span(f.sections[i])]]
      budget(left, s) == IF s.rsize <= left THEN left - s.rsize ELSE -1
  IN  (IF \E s \in Range(f.sections) : s.rsize # 0 /\ ~ InFile(s)
       THEN {Note("warn", "section-bounds")} ELSE {})
      \cup (IF FoldLeft(budget, f.size, f.sections) = -1
            THEN {Note("warn", "entropy-budget")} ELSE {})
      \cup (IF Overlapping(raws) THEN {Note("warn", "section-overlap")} ELSE {})
      \cup (IF Overlapping(spans) THEN {Note("high", "virtual-overlap")} ELSE {})

\* What becomes of a directory.
Kept(im, i, d) ==
  \/ d = Nothing
  \/ i = GlobalPtr /\ d.rva # 0 /\ d.size = 0 /\ RvaSlice(im, d.rva, 1)
  \/ /\ d.rva # 0 /\ d.size # 0
     /\ IF i = Certificate THEN d.rva % 2 = 0 /\ d.rva + d.size <= im.size
        ELSE d.rva + d.size <= MaxAddress /\ RvaSlice(im, d.rva, d.size)
Unavailable(im, i, d) ==
  i # Certificate /\ d.rva # 0 /\ d.size # 0 /\ Mapped(im, d.rva, d.size)
Deferred(im, i, d) ==
  /\ Unavailable(im, i, d) /\ i = Exception /\ im.machine = "x64"
  /\ d.size % 3 = 0 /\ d.size \div 3 <= MaxEntries

\* Mutant: contents that the loader would supply are never a concern.
DirectoryNoteLenient(im, i, d) ==
  IF Kept(im, i, d) THEN {}
  ELSE IF Unavailable(im, i, d) THEN {Note("info", "data-directory-unavailable")}
  ELSE {Note("high", "data-directory")}

DirectoryNote(im, i, d) ==
  IF Kept(im, i, d) THEN {}
  ELSE IF Deferred(im, i, d) THEN {Note("info", "data-directory-unavailable")}
  ELSE IF Unavailable(im, i, d) THEN {Note("high", "data-directory-unavailable")}
  ELSE {Note("high", "data-directory")}

Parsed(f) ==
  LET im == [size |-> f.size, headers |-> f.headers, image |-> f.image,
             sections |-> f.sections, machine |-> f.machine]
      dirs == Declared(f)
      kept == [i \in DOMAIN dirs |-> IF Kept(im, i, dirs[i]) THEN dirs[i] ELSE Nothing]
      checked == {i \in f.damaged : kept[i] # Nothing}
      entry == f.entry # 0 /\ RvaToSection(im, f.entry) = None
  IN  [status |-> "parsed", im |-> im, dirs |-> kept, entry |-> f.entry,
       anomalies |-> HeaderNotes(f) \cup TableNotes(f) \cup SectionNotes(f)
         \cup UNION {DirectoryNote(im, i, dirs[i]) : i \in DOMAIN dirs}
         \cup (IF checked # {} THEN {Note("warn", "directory-validation")} ELSE {})
         \cup (IF entry THEN {Note("warn", "entry-point")} ELSE {})]

LayoutInit == file \in Files /\ pe = NotParsed

ParsePe ==
  /\ pe = NotParsed
  /\ pe' = IF Acceptable(file) THEN Parsed(file) ELSE Rejected
  /\ UNCHANGED file

LayoutSpec == LayoutInit /\ [][ParsePe]_layoutVars

-----------------------------------------------------------------------------
(* Properties.                                                              *)

\* header_corruption_detected
Corrupt == \E a \in pe.anomalies : a.severity \in {"high", "warn"}

IsParsed == pe.status = "parsed"

\* A directory that is kept lies in the file from its first cell to its last,
\* in one region that no other shares, so no reader of it crosses into bytes
\* that belong to something else.
KeptAreBacked ==
  IsParsed =>
    \A i \in DOMAIN pe.dirs \ {Certificate} :
      LET d == pe.dirs[i] IN
      \A k \in 0 .. d.size - 1 :
        /\ RvaToOffset(pe.im, d.rva + k) = RvaToOffset(pe.im, d.rva) + k
        /\ RvaToOffset(pe.im, d.rva + k) < pe.im.size
        /\ RvaToSection(pe.im, d.rva + k) = RvaToSection(pe.im, d.rva)

\* An image without a warning is whole: it has every directory its file
\* declares but an exception table that start-up code fills, no address has two
\* owners, and addresses and file offsets beyond the headers determine each
\* other.
QuietMeansWhole ==
  IsParsed /\ ~ Corrupt =>
    /\ \A i \in DOMAIN file.dirs :
         i < file.declared => pe.dirs[i] = file.dirs[i] \/ i = Exception
    /\ \A rva \in 0 .. MaxAddress : Cardinality(Owners(pe.im, rva)) <= 1
    /\ \A s \in Range(file.sections) : \A k \in 0 .. s.rsize - 1 :
         s.va + k >= file.headers =>
           /\ RvaToOffset(pe.im, s.va + k) = s.raw + k
           /\ FileOffsetToRva(pe.im, s.raw + k) = s.va + k

\* A directory that parse_pe keeps lies in the file, in one region; an image
\* without a warning is whole, and its addresses and file offsets determine each
\* other.
LayoutIsSound == KeptAreBacked /\ QuietMeansWhole

=============================================================================
