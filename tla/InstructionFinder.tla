-------------------------- MODULE InstructionFinder ---------------------------
(***************************************************************************)
(* The search of one image for bytes or instructions (commands/find.rs):   *)
(* section by section, bytes as they are or encoded in one of a few ways,  *)
(* instructions by text or by kind, within a budget of instructions and    *)
(* one of matches.                                                         *)
(*                                                                         *)
(* A section is its bytes, of Bits bits, and its instructions in order,    *)
(* each with its place, its text and whether it could be decoded.          *)
(***************************************************************************)
EXTENDS Integers, Sequences, SequencesExt, FiniteSetsExt

CONSTANTS
  Sections,    \* the executable sections of the image
  Queries,     \* what is looked for
  Bits,        \* the width of a byte: 8 in the code
  MatchBudget  \* matches kept: 65536 in the code

VARIABLES
  query,
  section,   \* the next section, past the last when the search is over
  decoded,   \* instructions decoded
  found,     \* the matches: section, place and transform
  truncated, \* whether the report says that it was cut short
  failed

vars == <<query, section, decoded, found, truncated, failed>>

\* How a query is meant: bytes when it can be read so, then a kind, then text.
Mode ==
  IF query.requested # "auto"
  THEN IF query.requested \in {"raw", "decoded"} THEN query.requested ELSE "semantic"
  ELSE IF query.needle # << >> THEN "raw" ELSE IF query.kind # "" THEN "semantic" ELSE "decoded"

FirstOf(s, n) == [i \in 1 .. Min({n, Len(s)}) |-> s[i]]

-----------------------------------------------------------------------------
(* Bytes.                                                                   *)

Xor(a, b) == MapThenSumSet(LAMBDA i : 2 ^ i * (((a \div 2 ^ i) + (b \div 2 ^ i)) % 2), 0 .. Bits - 1)
RotateRight(a, n) == (a \div 2 ^ n) + (a % 2 ^ n) * 2 ^ (Bits - n)

\* The transforms in the order they are tried, and the bytes that each would leave.
Transforms ==
  FlattenSeq([k \in 1 .. 2 ^ Bits - 1 |-> <<<<"xor", k>>, <<"add", k>>, <<"sub", k>>>>])
  \o <<<<"not", 0>>>> \o [n \in 1 .. Bits - 1 |-> <<"rol", n>>] \o <<<<"reverse", 0>>>>

Encoded(needle, transform) ==
  LET k == transform[2]
      Each(F(_)) == [i \in DOMAIN needle |-> F(needle[i])]
  IN CASE transform[1] = "xor" -> Each(LAMBDA b : Xor(b, k))
       [] transform[1] = "add" -> Each(LAMBDA b : (b - k) % 2 ^ Bits)
       [] transform[1] = "sub" -> Each(LAMBDA b : (b + k) % 2 ^ Bits)
       [] transform[1] = "not" -> Each(LAMBDA b : 2 ^ Bits - 1 - b)
       [] transform[1] = "rol" -> Each(LAMBDA b : RotateRight(b, k))
       [] transform[1] = "reverse" -> Reverse(needle)

Found(s, place, transform) == [section |-> s, place |-> place, transform |-> transform]

OccursAt(needle, bytes, o) ==
  o + Len(needle) - 1 <= Len(bytes) /\ SubSeq(bytes, o, o + Len(needle) - 1) = needle

\* The matches of one form of the needle after those there are, until the budget is full.
RawMatches(s, needle, transform, matches) ==
  LET bytes == Sections[s].bytes
      hits == SetToSortSeq({o \in 1 .. Len(bytes) : OccursAt(needle, bytes, o)}, <)
      room == IF Len(matches) >= MatchBudget THEN 1 ELSE MatchBudget - Len(matches)
  IN matches \o [i \in DOMAIN FirstOf(hits, room) |-> Found(s, hits[i], transform)]

\* A full budget ends the keyed transforms, and the others after one match each.
EncodedMatches(s, needle, matches) ==
  LET Tried(acc, t) ==
        IF acc.stop \/ (t[1] = "reverse" /\ Len(needle) = 1) THEN acc
        ELSE LET more == RawMatches(s, Encoded(needle, t), t, acc.matches)
             IN [matches |-> more,
                 stop |-> Len(more) >= MatchBudget /\ t[1] \in {"xor", "add", "sub"}]
  IN FoldLeft(Tried, [matches |-> matches, stop |-> FALSE], Transforms).matches

-----------------------------------------------------------------------------
(* Instructions.                                                            *)

\* Those that are decoded before the budget is used up, without the invalid ones.
Taken(instructions, left) ==
  LET valid == SelectSeq(instructions, LAMBDA i : i.valid)
  IN IF query.budget = 0 THEN valid ELSE FirstOf(valid, left)
\* Whether the decoder stopped before the end of the section: what comes after the
\* last instruction taken, invalid bytes included.
CutIn(instructions, left) ==
  /\ query.budget # 0
  /\ \E n \in DOMAIN instructions :
       Len(SelectSeq(SubSeq(instructions, 1, n - 1), LAMBDA i : i.valid)) >= left

IsStub(taken, n) ==
  /\ n + 2 <= Len(taken)
  /\ taken[n].text = "mov r10" /\ taken[n + 1].text = "mov eax"
  /\ \E m \in n + 2 .. Len(taken) : m <= n + 9 /\ taken[m].text = "syscall"

Hits(taken, n) ==
  CASE Mode = "decoded" ->
         n + Len(query.texts) - 1 <= Len(taken)
         /\ \A k \in DOMAIN query.texts : taken[n + k - 1].text = query.texts[k]
    [] Mode = "semantic" /\ query.kind = "stub" -> IsStub(taken, n)
    [] Mode = "semantic" /\ query.kind # "stub" -> taken[n].kind = query.kind /\ query.kind # ""

DecodedMatches(s, taken) ==
  LET hits == SetToSortSeq({n \in DOMAIN taken : Hits(taken, n)}, <)
  IN [i \in DOMAIN hits |-> Found(s, taken[hits[i]].place, << >>)]

-----------------------------------------------------------------------------

Init ==
  /\ query \in Queries /\ section = 1 /\ decoded = 0 /\ found = << >> /\ truncated = FALSE
  /\ failed = FALSE

Over == Len(Sections) + 1

\* A report full of matches looks complete.
EndSectionQuietly(matches, total, cut) ==
  LET full == Len(matches) >= MatchBudget
      spent == query.budget > 0 /\ total >= query.budget
  IN /\ found' = FirstOf(matches, MatchBudget)
     /\ decoded' = total
     /\ truncated' = (truncated \/ cut \/ spent)
     /\ section' = IF full \/ spent THEN Over ELSE section + 1
     /\ UNCHANGED <<query, failed>>

\* The end of a section: a full budget ends the search and is reported.
EndSection(matches, total, cut) ==
  LET full == Len(matches) >= MatchBudget
      spent == query.budget > 0 /\ total >= query.budget
  IN /\ found' = FirstOf(matches, MatchBudget)
     /\ decoded' = total
     /\ truncated' = (truncated \/ cut \/ full \/ spent)
     /\ section' = IF full \/ spent THEN Over ELSE section + 1
     /\ UNCHANGED <<query, failed>>

FindRaw ==
  /\ section < Over
  /\ Mode = "raw"
  /\ query.needle # << >>
  /\ LET plain == RawMatches(section, query.needle, << >>, found)
     IN EndSection(IF query.encoded THEN EncodedMatches(section, query.needle, plain) ELSE plain, decoded, FALSE)

\* Bytes were asked for, and the query is not hexadecimal.
FindFails ==
  /\ section < Over
  /\ Mode = "raw" /\ query.needle = << >>
  /\ failed' = TRUE
  /\ section' = Over
  /\ UNCHANGED <<query, decoded, found, truncated>>

FindInstructions ==
  /\ section < Over
  /\ Mode # "raw"
  /\ LET all == Sections[section].instructions
         left == query.budget - decoded
         taken == Taken(all, left)
     IN EndSection(found \o DecodedMatches(section, taken), decoded + Len(taken), CutIn(all, left))

Next == FindRaw \/ FindFails \/ FindInstructions

Spec == Init /\ [][Next]_vars

-----------------------------------------------------------------------------

\* The places where the query occurs: bytes in some form, or instructions with at
\* most undecodable bytes between them.
RawPlaces ==
  LET Forms == {<<query.needle, << >>>>} \cup
               (IF query.encoded THEN {<<Encoded(query.needle, t), t>> : t \in ToSet(Transforms)} ELSE {})
  IN UNION {{Found(s, o, f[2]) : o \in {x \in 1 .. Len(Sections[s].bytes) : OccursAt(f[1], Sections[s].bytes, x)}} :
              s \in 1 .. Len(Sections), f \in Forms}
OneByteReversal == {f \in RawPlaces : f.transform # << >> /\ f.transform[1] = "reverse" /\ Len(query.needle) = 1}
InstructionPlaces ==
  UNION {{Found(s, i.place, << >>) :
            i \in {Sections[s].instructions[n] : n \in {m \in DOMAIN Sections[s].instructions :
                     LET rest == SelectSeq(SubSeq(Sections[s].instructions, m, Len(Sections[s].instructions)),
                                           LAMBDA x : x.valid)
                     IN Sections[s].instructions[m].valid /\ Hits(rest, 1)}}} :
         s \in 1 .. Len(Sections)}

\* A report that does not say it was cut short has every match, and every match it has
\* is one; a search never reports more than the budget, nor anything twice.
CutsAreReported ==
  section = Over /\ ~ failed =>
    LET places == IF Mode = "raw" THEN RawPlaces \ OneByteReversal ELSE InstructionPlaces
    IN /\ ToSet(found) \subseteq places
       /\ IsInjective(found)
       /\ Len(found) <= MatchBudget
       /\ ~ truncated => places \subseteq ToSet(found)

=============================================================================
