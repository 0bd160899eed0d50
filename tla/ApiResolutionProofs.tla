------------------------ MODULE ApiResolutionProofs ------------------------
(***************************************************************************)
(* Proofs for ApiResolution, for every image, whatever its functions, its  *)
(* globals and the number of rounds.                                       *)
(***************************************************************************)
EXTENDS ApiResolution, WellFoundedInduction, TLAPS

-----------------------------------------------------------------------------
(* Types.                                                                  *)

\* The records of a function, component by component.
FactsOK ==
  \A f \in Functions :
    /\ facts[f].ran \in BOOLEAN
    /\ facts[f].api \in [Slots -> ResIds]
    /\ facts[f].res \in [Slots -> {"none", "named", "param"}]
    /\ facts[f].loads \in SUBSET Globals

\* The code of a slot.
LEMMA SlotTypes ==
  ASSUME NEW image \in [Sites -> Instructions], NEW f \in Functions, NEW k \in Slots
  PROVE  /\ <<f, k>> \in Sites
         /\ image[<<f, k>>].op \in {"nop", "get", "call", "load"}
         /\ image[<<f, k>>].fn \in Functions /\ image[<<f, k>>].va \in Globals
         /\ image[<<f, k>>].name \in {"text", "param"}
         /\ image[<<f, k>>].stores \in SUBSET Globals
  BY DEF Sites, Instructions

\* What an interpretation finds has the type of facts.
LEMMA RunType ==
  ASSUME TypeOK, NEW f \in Functions
  PROVE  Run(f) \in FactsType
  <1>1. ASSUME NEW k \in Slots PROVE Pointer(f, k) \in ResIds
    <2>1. Fn(f, k) \in Functions /\ Va(f, k) \in Globals /\ <<f, k>> \in Sites
      BY SlotTypes DEF TypeOK, Fn, Va
    <2>2. CASE Resolves(f, k)  BY <2>1, <2>2 DEF Pointer, ResIds
    <2>3. CASE ~Resolves(f, k) /\ Op(f, k) = "call"
      <3>1. summaries[Fn(f, k)] \in ResIds
        BY <2>1, <2>3 DEF Resolves, CallsResolver, TypeOK
      <3> QED  BY <2>3, <3>1 DEF Pointer
    <2>4. CASE ~Resolves(f, k) /\ Op(f, k) = "load"  BY <2>1, <2>4 DEF Pointer, TypeOK
    <2>5. CASE ~Resolves(f, k) /\ Op(f, k) \notin {"call", "load"}  BY <2>5 DEF Pointer, ResIds
    <2> QED  BY <2>2, <2>3, <2>4, <2>5
  <1>2. UnknownLoads(f) \in SUBSET Globals  BY DEF UnknownLoads
  <1> QED  BY <1>1, <1>2 DEF Run, FactsType

LEMMA ProfileType ==
  ASSUME NEW f \in Functions
  PROVE  Profile(f) \in FactsType
  BY DEF Profile, FactsType, ResIds

LEMMA FactsTypes ==
  ASSUME TypeOK
  PROVE  FactsOK
  BY DEF TypeOK, FactsOK, FactsType

\* The summary of a function: none, or of the pointer of a slot it returns.
LEMMA SummaryCases ==
  ASSUME NEW f \in Functions, Summarize(f) # None
  PROVE  \E k \in Returned(f) :
           LET id == facts[f].api[k]
           IN  Summarize(f) = (IF OnBehalf(f, id) THEN Param ELSE id)
  <1>1. FirstReturned(f) # {}  BY DEF Summarize
  <1>2. (CHOOSE k \in FirstReturned(f) : TRUE) \in Returned(f)  BY <1>1 DEF FirstReturned
  <1> QED  BY <1>1, <1>2 DEF Summarize

\* The entry of a global: none, or the pointer of a slot stored in it.
LEMMA EntryCases ==
  ASSUME NEW g \in Globals, Entry(g) # None
  PROVE  \E s \in Writers(g) : Entry(g) = facts[s[1]].api[s[2]]
  <1>1. FirstWriters(g) # {}  BY DEF Entry
  <1>2. (CHOOSE s \in FirstWriters(g) : TRUE) \in Writers(g)  BY <1>1 DEF FirstWriters
  <1> QED  BY <1>1, <1>2 DEF Entry

LEMMA TablesType ==
  ASSUME TypeOK
  PROVE  /\ \A f \in Functions : Summarize(f) \in ResIds \cup {Param}
         /\ \A g \in Globals : Entry(g) \in ResIds
  <1>1. FactsOK  BY FactsTypes
  <1>2. ASSUME NEW f \in Functions PROVE Summarize(f) \in ResIds \cup {Param}
    <2>1. CASE Summarize(f) = None  BY <2>1 DEF ResIds
    <2>2. CASE Summarize(f) # None
      <3>1. PICK k \in Returned(f) :
              Summarize(f) = (IF OnBehalf(f, facts[f].api[k]) THEN Param ELSE facts[f].api[k])
        BY <2>2, SummaryCases
      <3>2. facts[f].api[k] \in ResIds  BY <1>1, <3>1 DEF FactsOK, Returned
      <3> QED  BY <3>1, <3>2
    <2> QED  BY <2>1, <2>2
  <1>3. ASSUME NEW g \in Globals PROVE Entry(g) \in ResIds
    <2>1. CASE Entry(g) = None  BY <2>1 DEF ResIds
    <2>2. CASE Entry(g) # None
      <3>1. PICK s \in Writers(g) : Entry(g) = facts[s[1]].api[s[2]]
        BY <2>2, EntryCases
      <3>2. s[1] \in Functions /\ s[2] \in Slots  BY <3>1 DEF Writers, Sites
      <3> QED  BY <1>1, <3>1, <3>2 DEF FactsOK
    <2> QED  BY <2>1, <2>2
  <1> QED  BY <1>2, <1>3

LEMMA TypeInit == Init => TypeOK
  BY ProgramAssumption, ProfileType DEF Init, TypeOK, ResIds

LEMMA TypeStep == TypeOK /\ [Next]_vars => TypeOK'
  <1> SUFFICES ASSUME TypeOK, [Next]_vars PROVE TypeOK'
    OBVIOUS
  <1>1. CASE FirstPass  BY <1>1, RunType, ProfileType DEF FirstPass, TypeOK
  <1>2. CASE UpdateTables
    <2>1. round' \in 0 .. MaxRounds  BY <1>2, ProgramAssumption DEF UpdateTables, TypeOK
    <2> QED  BY <1>2, <2>1, TablesType DEF UpdateTables, TypeOK
  <1>3. CASE Revisit  BY <1>3, RunType DEF Revisit, TypeOK
  <1>4. CASE Settle  BY <1>4 DEF Settle, TypeOK
  <1>5. CASE CutShort  BY <1>5 DEF CutShort, TypeOK
  <1>6. CASE Report
    <2>1. ASSUME NEW s \in Sites PROVE Target(s[1], s[2]) \in ResIds
      <3>1. s[1] \in Functions /\ s[2] \in Slots  BY DEF Sites
      <3>2. Va(s[1], s[2]) \in Globals  BY <3>1, SlotTypes DEF Va, TypeOK
      <3>3. facts[s[1]].api[s[2]] \in ResIds  BY <3>1, FactsTypes DEF FactsOK
      <3> QED  BY <3>2, <3>3 DEF Target, Through, TypeOK, ResIds
    <2> QED  BY <1>6, <2>1 DEF Report, TypeOK
  <1>7. CASE UNCHANGED vars  BY <1>7 DEF vars, TypeOK
  <1> QED  BY <1>1, <1>2, <1>3, <1>4, <1>5, <1>6, <1>7 DEF Next

\* TypeOK is an invariant of every image's analysis.
THEOREM TypeCorrect == Spec => []TypeOK
  BY TypeInit, TypeStep, PTL DEF Spec

-----------------------------------------------------------------------------
(* Nothing is missed.                                                      *)

\* Functions that are only profiled have no pointers and no summary.
Profiled ==
  \A f \in Functions : ~facts[f].ran =>
    summaries[f] = None /\ \A k \in Slots : facts[f].api[k] = None

\* Every load that found nothing is remembered.
LoadsKept ==
  \A f \in Functions : \A k \in Slots :
    Op(f, k) = "load" /\ facts[f].api[k] = None => Va(f, k) \in facts[f].loads

\* A function that is not dirty has all the pointers it could find.
CleanFound ==
  \A f \in Functions \ dirty : \A k \in Slots :
    Pointer(f, k) # None => facts[f].ran /\ facts[f].api[k] # None

\* Before the first pass the tables are empty; only "revisit" has dirty functions.
Phases ==
  /\ phase = "start" => /\ \A f \in Functions : ~facts[f].ran /\ summaries[f] = None
                        /\ \A g \in Globals : table[g] = None
  /\ phase # "revisit" => dirty = {}
  /\ phase # "start" => CleanFound

MissInv == TypeOK /\ Profiled /\ LoadsKept /\ Phases

LEMMA ProfileKeepsLoads ==
  ASSUME TypeOK, NEW f \in Functions, NEW k \in Slots, Op(f, k) = "load"
  PROVE  Va(f, k) \in Profile(f).loads
  BY SlotTypes DEF Profile, TypeOK, Va

LEMMA RunKeepsLoads ==
  ASSUME TypeOK, NEW f \in Functions, NEW k \in Slots, Op(f, k) = "load",
         Run(f).api[k] = None
  PROVE  Va(f, k) \in Run(f).loads
  <1>1. Pointer(f, k) = table[Va(f, k)]
    BY DEF Pointer, Resolves, CallsResolver
  <1>2. Va(f, k) \in Globals  BY SlotTypes DEF TypeOK, Va
  <1> QED  BY <1>1, <1>2 DEF Run, UnknownLoads

LEMMA RunFields ==
  ASSUME NEW f \in Functions
  PROVE  Run(f).ran = TRUE /\ \A k \in Slots : Run(f).api[k] = Pointer(f, k)
  BY DEF Run

LEMMA ProfileFields ==
  ASSUME NEW f \in Functions
  PROVE  /\ Profile(f).ran = FALSE
         /\ \A k \in Slots : Profile(f).api[k] = None /\ Profile(f).res[k] = "none"
  BY DEF Profile

\* A function without pointers has no summary.
LEMMA NoPointerNoSummary ==
  ASSUME NEW f \in Functions, \A k \in Slots : facts[f].api[k] = None
  PROVE  Summarize(f) = None
  BY DEF Summarize, FirstReturned, Returned

\* A function that finds more under the new tables is dirty.
LEMMA NewPointersAreDirty ==
  ASSUME MissInv, UpdateTables, NEW f \in Functions, NEW k \in Slots,
         Pointer(f, k)' # None, f \notin dirty'
  PROVE  facts[f].ran /\ facts[f].api[k] # None
  <1> USE DEF MissInv
  <1>0. Fn(f, k) \in Functions /\ Va(f, k) \in Globals /\ program' = program
    BY SlotTypes DEF TypeOK, Fn, Va, UpdateTables
  <1>1. Pointer(f, k) # None => facts[f].ran /\ facts[f].api[k] # None
    BY DEF Phases, CleanFound, UpdateTables
  <1>2. CASE Op(f, k) = "get"
    BY <1>1, <1>2, SlotTypes, ProgramAssumption DEF Pointer, Resolves, TypeOK
  <1>3. CASE Op(f, k) = "call"
    <2>1. summaries'[Fn(f, k)] # None
      BY <1>0, <1>3, ProgramAssumption DEF Pointer, Resolves, CallsResolver, Op, Fn
    <2>2. CASE summaries[Fn(f, k)] # None
      <3>1. Pointer(f, k) # None
        BY <1>0, <1>3, <2>2, SlotTypes, ProgramAssumption, SMTT(20)
        DEF Pointer, Resolves, CallsResolver, TypeOK
      <3> QED  BY <1>1, <3>1
    <2>3. CASE summaries[Fn(f, k)] = None
      <3>1. Summarize(Fn(f, k)) # None  BY <1>0, <2>1 DEF UpdateTables
      <3>2. Fn(f, k) \in ChangedFunctions  BY <1>0, <2>3, <3>1 DEF ChangedFunctions
      <3>3. Fn(f, k) \notin Callees(f)  BY <3>2 DEF UpdateTables
      <3>4. ~facts[f].ran /\ Fn(f, k) = f  BY <1>0, <1>3, <3>3 DEF Callees
      <3>5. Summarize(f) = None  BY <3>4, NoPointerNoSummary DEF Profiled
      <3> QED  BY <3>1, <3>4, <3>5
    <2> QED  BY <2>2, <2>3
  <1>4. CASE Op(f, k) = "load"
    <2>1. table'[Va(f, k)] # None
      BY <1>0, <1>4 DEF Pointer, Resolves, CallsResolver, Op, Va
    <2>2. CASE table[Va(f, k)] # None
      <3>1. Pointer(f, k) # None
        BY <1>4, <2>2 DEF Pointer, Resolves, CallsResolver
      <3> QED  BY <1>1, <3>1
    <2>3. CASE table[Va(f, k)] = None
      <3>1. Entry(Va(f, k)) # None  BY <1>0, <2>1 DEF UpdateTables
      <3>2. Va(f, k) \in ChangedGlobals  BY <1>0, <2>3, <3>1 DEF ChangedGlobals
      <3>3. Va(f, k) \notin facts[f].loads  BY <3>2 DEF UpdateTables
      <3>4. facts[f].api[k] # None  BY <1>4, <3>3 DEF LoadsKept
      <3> QED  BY <3>4 DEF Profiled
    <2> QED  BY <2>2, <2>3
  <1>5. CASE Op(f, k) \notin {"get", "call", "load"}
    BY <1>0, <1>5 DEF Pointer, Resolves, CallsResolver, Op
  <1> QED  BY <1>2, <1>3, <1>4, <1>5

\* Pointers found without tables are resolver calls.
LEMMA EmptyTablesPointer ==
  ASSUME TypeOK, NEW f \in Functions, NEW k \in Slots,
         \A c \in Functions : summaries[c] = None, \A g \in Globals : table[g] = None,
         Pointer(f, k) # None
  PROVE  Op(f, k) = "get"
  <1>1. Fn(f, k) \in Functions /\ Va(f, k) \in Globals
    BY SlotTypes DEF TypeOK, Fn, Va
  <1> QED  BY <1>1, ProgramAssumption DEF Pointer, Resolves, CallsResolver

LEMMA MissInductive == MissInv /\ [Next]_vars => MissInv'
  <1> SUFFICES ASSUME MissInv, [Next]_vars PROVE MissInv'
    OBVIOUS
  <1> USE DEF MissInv
  <1>0. TypeOK'  BY TypeStep
  <1>1. CASE FirstPass
    <2>1. /\ \A c \in Functions : summaries[c] = None
          /\ \A g \in Globals : table[g] = None
      BY <1>1 DEF FirstPass, Phases
    <2>2. program' = program /\ summaries' = summaries /\ table' = table /\ dirty' = {}
      BY <1>1 DEF FirstPass, Phases
    <2>3. ASSUME NEW f \in Functions
          PROVE  facts'[f] = IF Candidate(f) THEN Run(f) ELSE Profile(f)
      BY <1>1 DEF FirstPass
    <2>4. Profiled'
      <3> SUFFICES ASSUME NEW f \in Functions, ~facts'[f].ran
                   PROVE  summaries'[f] = None /\ \A k \in Slots : facts'[f].api[k] = None
        BY DEF Profiled
      <3>1. facts'[f] = Profile(f)  BY <2>3, RunFields
      <3> QED  BY <2>1, <2>2, <3>1, ProfileFields
    <2>5. LoadsKept'
      <3> SUFFICES ASSUME NEW f \in Functions, NEW k \in Slots, Op(f, k) = "load",
                          facts'[f].api[k] = None
                   PROVE  Va(f, k) \in facts'[f].loads
        BY <2>2 DEF LoadsKept, Op, Va
      <3> QED  BY <2>3, ProfileKeepsLoads, RunKeepsLoads
    <2>6. CleanFound'
      <3> SUFFICES ASSUME NEW f \in Functions, NEW k \in Slots, Pointer(f, k) # None
                   PROVE  facts'[f].ran /\ facts'[f].api[k] # None
        BY <2>2 DEF CleanFound, Pointer, Resolves, CallsResolver, Op, Va, Fn
      <3>1. Op(f, k) = "get"  BY <2>1, EmptyTablesPointer
      <3>2. facts'[f] = Run(f)  BY <2>3, <3>1 DEF Candidate
      <3> QED  BY <3>2 DEF Run
    <2> QED  BY <1>0, <1>1, <2>2, <2>4, <2>5, <2>6 DEF Phases, FirstPass
  <1>2. CASE UpdateTables
    <2>1. program' = program /\ facts' = facts /\ phase' = "revisit"
      BY <1>2 DEF UpdateTables
    <2>2. Profiled'
      <3>1. ASSUME NEW f \in Functions, ~facts[f].ran PROVE summaries'[f] = None
        BY <1>2, <3>1, NoPointerNoSummary DEF Profiled, UpdateTables
      <3> QED  BY <2>1, <3>1 DEF Profiled
    <2>3. LoadsKept'  BY <2>1 DEF LoadsKept, Op, Va
    <2>4. CleanFound'
      BY <1>2, <2>1, NewPointersAreDirty DEF CleanFound
    <2> QED  BY <1>0, <2>1, <2>2, <2>3, <2>4 DEF Phases
  <1>3. CASE Revisit
    <2>1. /\ program' = program /\ summaries' = summaries /\ table' = table
          /\ dirty' = {} /\ phase' = "tables" /\ phase = "revisit"
      BY <1>3 DEF Revisit
    <2>2. ASSUME NEW f \in Functions
          PROVE  facts'[f] = IF f \in dirty THEN Run(f) ELSE facts[f]
      BY <1>3 DEF Revisit
    <2>3. Profiled'
      <3> SUFFICES ASSUME NEW f \in Functions, ~facts'[f].ran
                   PROVE  summaries'[f] = None /\ \A k \in Slots : facts'[f].api[k] = None
        BY DEF Profiled
      <3>1. facts'[f] = facts[f]  BY <2>2, RunFields
      <3> QED  BY <2>1, <3>1 DEF Profiled
    <2>4. LoadsKept'
      <3> SUFFICES ASSUME NEW f \in Functions, NEW k \in Slots, Op(f, k) = "load",
                          facts'[f].api[k] = None
                   PROVE  Va(f, k) \in facts'[f].loads
        BY <2>1 DEF LoadsKept, Op, Va
      <3> QED  BY <2>2, RunKeepsLoads DEF LoadsKept
    <2>5. CleanFound'
      <3> SUFFICES ASSUME NEW f \in Functions, NEW k \in Slots, Pointer(f, k) # None
                   PROVE  facts'[f].ran /\ facts'[f].api[k] # None
        BY <2>1 DEF CleanFound, Pointer, Resolves, CallsResolver, Op, Va, Fn
      <3>1. CASE f \in dirty  BY <2>2, <3>1, RunFields
      <3>2. CASE f \notin dirty  BY <2>1, <2>2, <3>2 DEF Phases, CleanFound
      <3> QED  BY <3>1, <3>2
    <2> QED  BY <1>0, <2>1, <2>3, <2>4, <2>5 DEF Phases
  <1>4. ASSUME UNCHANGED <<program, facts, summaries, table, dirty>>,
               phase \notin {"start", "revisit"} \/ phase' = phase,
               phase' \notin {"start", "revisit"} \/ phase' = phase
        PROVE  MissInv'
    <2>1. Profiled' /\ LoadsKept'  BY <1>4 DEF Profiled, LoadsKept, Op, Va
    <2>2. CleanFound => CleanFound'
      BY <1>4 DEF CleanFound, Pointer, Resolves, CallsResolver, Op, Va, Fn
    <2> QED  BY <1>0, <1>4, <2>1, <2>2 DEF Phases
  <1>5. CASE Settle  BY <1>4, <1>5 DEF Settle
  <1>6. CASE CutShort  BY <1>4, <1>6 DEF CutShort
  <1>7. CASE Report  BY <1>4, <1>7 DEF Report
  <1>8. CASE UNCHANGED vars  BY <1>4, <1>8 DEF vars
  <1> QED  BY <1>1, <1>2, <1>3, <1>5, <1>6, <1>7, <1>8 DEF Next

LEMMA MissInit == Init => MissInv
  <1> SUFFICES ASSUME Init PROVE MissInv
    OBVIOUS
  <1>1. TypeOK  BY TypeInit
  <1>2. \A f \in Functions : facts[f] = Profile(f)  BY DEF Init
  <1>3. Profiled  BY <1>2 DEF Init, Profiled, Profile
  <1>4. LoadsKept  BY <1>1, <1>2, ProfileKeepsLoads DEF LoadsKept
  <1>5. Phases  BY <1>2 DEF Init, Phases, Profile
  <1> QED  BY <1>1, <1>3, <1>4, <1>5 DEF MissInv

\* Revisiting only the functions whose callees or unknown globals have changed
\* misses no pointer, in any image.
THEOREM NothingIsMissed == Spec => []NothingMissed
  <1>1. Init => MissInv  BY MissInit
  <1>2. MissInv => NothingMissed
    <2> SUFFICES ASSUME MissInv, phase \in {"settled", "cut", "reported"},
                        NEW s \in Sites, Pointer(s[1], s[2]) # None
                 PROVE  facts[s[1]].ran /\ facts[s[1]].api[s[2]] # None
      BY DEF NothingMissed
    <2>1. s[1] \in Functions /\ s[2] \in Slots  BY DEF Sites
    <2> QED  BY <2>1 DEF MissInv, Phases, CleanFound
  <1> QED  BY <1>1, <1>2, MissInductive, PTL DEF Spec

-----------------------------------------------------------------------------
(* Nothing is forgotten.                                                    *)

LEMMA LeastNumber ==
  ASSUME NEW T \in SUBSET Nat, T # {}
  PROVE  \E x \in T : \A y \in T : x <= y
  <1> DEFINE R == {p \in Nat \X Nat : p[1] < p[2]}
  <1>1. IsWellFoundedOn(R, Nat)  BY NatLessThanWellFounded DEF OpToRel
  <1> HIDE DEF R
  <1>2. PICK x \in T : \A y \in T : ~ (<<y, x>> \in R)  BY <1>1, WFMin
  <1>3. ASSUME NEW y \in T PROVE x <= y
    <2>1. x \in Nat /\ y \in Nat  OBVIOUS
    <2>2. ~ (y < x)  BY <1>2, <2>1 DEF R
    <2> QED  BY <2>1, <2>2
  <1> QED  BY <1>3

\* A function that returns a pointer has a summary: there is a first return.
LEMMA ReturnsAreSummarized ==
  ASSUME TypeOK, NEW f \in Functions, Returned(f) # {}
  PROVE  Summarize(f) # None
  <1>1. Returned(f) \in SUBSET Nat  BY ProgramAssumption DEF Returned
  <1>2. FirstReturned(f) # {}  BY <1>1, LeastNumber DEF FirstReturned
  <1>3. (CHOOSE k \in FirstReturned(f) : TRUE) \in Returned(f)  BY <1>2 DEF FirstReturned
  <1>4. facts[f].api[CHOOSE k \in FirstReturned(f) : TRUE] # None  BY <1>3 DEF Returned
  <1> QED  BY <1>2, <1>4, ProgramAssumption DEF Summarize

\* A global that a slot writes has an entry: there is a first writer.
LEMMA WritersMakeEntries ==
  ASSUME TypeOK, NEW g \in Globals, Writers(g) # {}
  PROVE  Entry(g) # None
  <1> DEFINE Fs == {s[1] : s \in Writers(g)}
  <1>1. Writers(g) \subseteq Functions \X Slots  BY DEF Writers, Sites
  <1>2. Fs \in SUBSET Nat /\ Fs # {}  BY <1>1, ProgramAssumption
  <1> HIDE DEF Fs
  <1>3. PICK f \in Fs : \A x \in Fs : f <= x  BY <1>2, LeastNumber
  <1> DEFINE Ks == {s[2] : s \in {t \in Writers(g) : t[1] = f}}
  <1>4. Ks \in SUBSET Nat /\ Ks # {}
    <2>1. Ks \subseteq Slots  BY <1>1
    <2>2. PICK s \in Writers(g) : s[1] = f  BY <1>3 DEF Fs
    <2>3. s[2] \in Ks  BY <2>2
    <2> QED  BY <2>1, <2>3, ProgramAssumption
  <1> HIDE DEF Ks
  <1>5. PICK k \in Ks : \A x \in Ks : k <= x  BY <1>4, LeastNumber
  <1>6. PICK w \in Writers(g) : w[1] = f /\ w[2] = k  BY <1>5 DEF Ks
  <1>7. ASSUME NEW t \in Writers(g) PROVE Before(w, t)
    <2>1. f \in Nat /\ k \in Nat /\ t[1] \in Nat /\ t[2] \in Nat
      BY <1>1, <1>2, <1>4, ProgramAssumption
    <2>2. f <= t[1]  BY <1>3 DEF Fs
    <2>3. t[1] = f => k <= t[2]  BY <1>5 DEF Ks
    <2> QED  BY <1>6, <2>1, <2>2, <2>3 DEF Before
  <1>8. FirstWriters(g) # {}  BY <1>6, <1>7 DEF FirstWriters
  <1>9. (CHOOSE s \in FirstWriters(g) : TRUE) \in Writers(g)  BY <1>8 DEF FirstWriters
  <1> QED  BY <1>8, <1>9 DEF Entry, Writers

\* What was found would be found again: every pointer under the tables, and every
\* entry of the tables from the facts.
PointersLast ==
  \A f \in Functions : \A k \in Slots : facts[f].api[k] # None => Pointer(f, k) # None
SummariesLast == \A f \in Functions : summaries[f] # None => Returned(f) # {}
EntriesLast == \A g \in Globals : table[g] # None => Writers(g) # {}

LastInv == TypeOK /\ Phases /\ PointersLast /\ SummariesLast /\ EntriesLast

\* Facts with more pointers give at least the summaries and entries there were.
LEMMA MorePointersLast ==
  ASSUME TypeOK, SummariesLast, EntriesLast,
         program' = program, summaries' = summaries, table' = table,
         \A f \in Functions : \A k \in Slots : facts[f].api[k] # None => facts'[f].api[k] # None
  PROVE  SummariesLast' /\ EntriesLast'
  <1>1. ASSUME NEW f \in Functions, Returned(f) # {} PROVE Returned(f)' # {}
    BY <1>1 DEF Returned
  <1>2. ASSUME NEW g \in Globals, Writers(g) # {} PROVE Writers(g)' # {}
    <2>1. PICK s \in Writers(g) : TRUE  BY <1>2
    <2>2. s \in Sites /\ s[1] \in Functions /\ s[2] \in Slots  BY <2>1 DEF Writers, Sites
    <2>3. s \in Writers(g)'  BY <2>1, <2>2 DEF Writers
    <2> QED  BY <2>3
  <1> QED  BY <1>1, <1>2 DEF SummariesLast, EntriesLast

LEMMA LastInductive == LastInv /\ MissInv /\ [Next]_vars => LastInv'
  <1> SUFFICES ASSUME LastInv, MissInv, [Next]_vars PROVE LastInv'
    OBVIOUS
  <1> USE DEF LastInv
  <1>0. TypeOK' /\ Phases'  BY TypeStep, MissInductive DEF MissInv
  <1>1. CASE FirstPass
    <2>1. program' = program /\ summaries' = summaries /\ table' = table
      BY <1>1 DEF FirstPass
    <2>2. ASSUME NEW f \in Functions
          PROVE  facts'[f] = IF Candidate(f) THEN Run(f) ELSE Profile(f)
      BY <1>1 DEF FirstPass
    <2>3. PointersLast'
      <3> SUFFICES ASSUME NEW f \in Functions, NEW k \in Slots, facts'[f].api[k] # None
                   PROVE  Pointer(f, k) # None
        BY <2>1 DEF PointersLast, Pointer, Resolves, CallsResolver, Op, Va, Fn
      <3>1. CASE Candidate(f)  BY <2>2, <3>1, RunFields
      <3>2. CASE ~Candidate(f)  BY <2>2, <3>2, ProfileFields
      <3> QED  BY <3>1, <3>2
    <2>4. ASSUME NEW f \in Functions, NEW k \in Slots PROVE facts[f].api[k] = None
      BY <1>1 DEF FirstPass, Phases, MissInv, Profiled
    <2>5. SummariesLast' /\ EntriesLast'  BY <2>1, <2>4, MorePointersLast
    <2> QED  BY <1>0, <2>3, <2>5
  <1>2. CASE UpdateTables
    <2>1. /\ program' = program /\ facts' = facts
          /\ \A f \in Functions : summaries'[f] = Summarize(f)
          /\ \A g \in Globals : table'[g] = Entry(g)
      BY <1>2 DEF UpdateTables
    <2>2. SummariesLast'
      <3>1. ASSUME NEW f \in Functions, Summarize(f) # None PROVE Returned(f) # {}
        BY <3>1, SummaryCases
      <3> QED  BY <2>1, <3>1 DEF SummariesLast, Returned
    <2>3. EntriesLast'
      <3>1. ASSUME NEW g \in Globals, Entry(g) # None PROVE Writers(g) # {}
        BY <3>1, EntryCases
      <3> QED  BY <2>1, <3>1 DEF EntriesLast, Writers
    <2>4. PointersLast'
      <3> SUFFICES ASSUME NEW f \in Functions, NEW k \in Slots, facts[f].api[k] # None
                   PROVE  Pointer(f, k)' # None
        BY <2>1 DEF PointersLast
      <3>1. Pointer(f, k) # None  BY DEF PointersLast
      <3>2. Fn(f, k) \in Functions /\ Va(f, k) \in Globals /\ <<f, k>> \in Sites
        BY SlotTypes DEF TypeOK, Fn, Va
      <3>3. Op(f, k)' = Op(f, k) /\ Fn(f, k)' = Fn(f, k) /\ Va(f, k)' = Va(f, k)
        BY <2>1 DEF Op, Fn, Va
      <3>4. <<f, k>> # None  BY <3>2, ProgramAssumption
      <3>5. CASE Op(f, k) = "get"  BY <3>3, <3>4, <3>5 DEF Pointer, Resolves
      <3>6. CASE Op(f, k) = "call"
        <4>1. summaries[Fn(f, k)] # None
          BY <3>1, <3>6, ProgramAssumption DEF Pointer, Resolves, CallsResolver
        <4>2. summaries'[Fn(f, k)] # None
          BY <2>1, <3>2, <4>1, ReturnsAreSummarized DEF SummariesLast
        <4> QED  BY <3>3, <3>4, <3>6, <4>2 DEF Pointer
      <3>7. CASE Op(f, k) = "load"
        <4>1. table[Va(f, k)] # None  BY <3>1, <3>7 DEF Pointer, Resolves, CallsResolver
        <4>2. table'[Va(f, k)] # None
          BY <2>1, <3>2, <4>1, WritersMakeEntries DEF EntriesLast
        <4> QED  BY <3>3, <3>4, <3>7, <4>2 DEF Pointer
      <3>8. CASE Op(f, k) \notin {"get", "call", "load"}
        BY <3>1, <3>8 DEF Pointer, Resolves, CallsResolver
      <3> QED  BY <3>5, <3>6, <3>7, <3>8
    <2> QED  BY <1>0, <2>2, <2>3, <2>4
  <1>3. CASE Revisit
    <2>1. program' = program /\ summaries' = summaries /\ table' = table
      BY <1>3 DEF Revisit
    <2>2. ASSUME NEW f \in Functions
          PROVE  facts'[f] = IF f \in dirty THEN Run(f) ELSE facts[f]
      BY <1>3 DEF Revisit
    <2>3. PointersLast'
      <3> SUFFICES ASSUME NEW f \in Functions, NEW k \in Slots, facts'[f].api[k] # None
                   PROVE  Pointer(f, k) # None
        BY <2>1 DEF PointersLast, Pointer, Resolves, CallsResolver, Op, Va, Fn
      <3> QED  BY <2>2, RunFields DEF PointersLast
    <2>4. ASSUME NEW f \in Functions, NEW k \in Slots, facts[f].api[k] # None
          PROVE  facts'[f].api[k] # None
      BY <2>2, <2>4, RunFields DEF PointersLast
    <2>5. SummariesLast' /\ EntriesLast'  BY <2>1, <2>4, MorePointersLast
    <2> QED  BY <1>0, <2>3, <2>5
  <1>4. ASSUME UNCHANGED <<program, facts, summaries, table>> PROVE LastInv'
    BY <1>0, <1>4 DEF PointersLast, SummariesLast, EntriesLast, Pointer, Resolves, CallsResolver,
       Op, Va, Fn, Returned, Writers
  <1>5. CASE Settle  BY <1>4, <1>5 DEF Settle
  <1>6. CASE CutShort  BY <1>4, <1>6 DEF CutShort
  <1>7. CASE Report  BY <1>4, <1>7 DEF Report
  <1>8. CASE UNCHANGED vars  BY <1>4, <1>8 DEF vars
  <1> QED  BY <1>1, <1>2, <1>3, <1>5, <1>6, <1>7, <1>8 DEF Next

\* A step keeps every summary and every entry that there is.
KeepsFound ==
  /\ \A f \in Functions : summaries[f] # None => summaries'[f] # None
  /\ \A g \in Globals : table[g] # None => table'[g] # None

LEMMA StepsKeepFound == LastInv /\ [Next]_vars => KeepsFound
  <1> SUFFICES ASSUME LastInv, [Next]_vars PROVE KeepsFound
    OBVIOUS
  <1>1. CASE UpdateTables
    <2>1. /\ \A f \in Functions : summaries'[f] = Summarize(f)
          /\ \A g \in Globals : table'[g] = Entry(g)
      BY <1>1 DEF UpdateTables
    <2> QED  BY <2>1, ReturnsAreSummarized, WritersMakeEntries
             DEF LastInv, SummariesLast, EntriesLast, KeepsFound
  <1>2. CASE UNCHANGED <<summaries, table>>  BY <1>2 DEF KeepsFound
  <1> QED  BY <1>1, <1>2 DEF Next, FirstPass, Revisit, Settle, CutShort, Report, vars

\* No round loses a summary or a global that an earlier one had found, in any image:
\* the tables only grow, so what would have to be undone never comes up.
THEOREM FoundStaysFound == Spec => NothingForgotten
  <1>1. Init => LastInv /\ MissInv
    <2> SUFFICES ASSUME Init PROVE LastInv /\ MissInv
      OBVIOUS
    <2>1. MissInv  BY MissInit
    <2>2. ASSUME NEW f \in Functions, NEW k \in Slots PROVE facts[f].api[k] = None
      BY ProfileFields DEF Init
    <2> QED  BY <2>1, <2>2 DEF MissInv, LastInv, PointersLast, SummariesLast, EntriesLast, Init
  <1>2. LastInv /\ MissInv /\ [Next]_vars => (LastInv /\ MissInv)'
    BY LastInductive, MissInductive
  <1>3. LastInv /\ [Next]_vars => [KeepsFound]_vars  BY StepsKeepFound
  <1>4. NothingForgotten <=> [][KeepsFound]_vars  BY DEF NothingForgotten, KeepsFound
  <1> QED  BY <1>1, <1>2, <1>3, <1>4, PTL DEF Spec

-----------------------------------------------------------------------------
(* Every pointer is reachable.                                             *)

Ends(f, k) == program[<<f, k>>].ends
Name(s) == program[s].name

\* The pairs <<site, resolution>> of the pointers at hand are all in P.
FactsIn(P) ==
  \A f \in Functions : \A k \in Slots :
    /\ facts[f].api[k] # None => <<<<f, k>>, facts[f].api[k]>> \in P
    /\ facts[f].res[k] = "param" => Name(<<f, k>>) = "param"

\* A summary comes from a pointer in P that the function returns, and one of
\* resolving for callers from one of the function's own such resolutions.
SummariesIn(P) ==
  \A f \in Functions : summaries[f] # None =>
    \E k \in Slots : \E id \in Sites :
      /\ "return" \in Ends(f, k) /\ <<<<f, k>>, id>> \in P
      /\ summaries[f] \in {id, Param}
      /\ summaries[f] = Param => id[1] = f /\ Name(id) = "param"

\* A table entry is a pointer in P that is stored in the global.
TableIn(P) ==
  \A g \in Globals : table[g] # None =>
    \E t \in Sites : g \in program[t].stores /\ <<t, table[g]>> \in P

TargetsIn(P) == \A s \in Sites : targets[s] # None => <<s, targets[s]>> \in P

In(P) == FactsIn(P) /\ SummariesIn(P) /\ TableIn(P) /\ TargetsIn(P)

ReachInv == TypeOK /\ \A P : Closed(program, P) => In(P)

\* What Closed says of each kind of slot.
LEMMA ClosedCases ==
  ASSUME NEW image, NEW P, Closed(image, P), NEW s \in Sites
  PROVE  /\ image[s].op = "get" => <<s, s>> \in P
         /\ \A t, id : <<t, id>> \in P /\ Feeds(image, t, s) => <<s, id>> \in P
         /\ \A t, id : /\ image[s].op = "call"
                       /\ <<t, id>> \in P /\ Feeds(image, t, s)
                       /\ id[1] = t[1] /\ image[id].name = "param"
                       => <<s, s>> \in P
  <1>1. Flow(image, P) \subseteq P  BY DEF Closed
  <1>2. image[s].op = "get" => <<s, s>> \in Flow(image, P)  BY DEF Flow
  <1>3. ASSUME NEW t, NEW id, <<t, id>> \in P, Feeds(image, t, s)
        PROVE  <<s, id>> \in Flow(image, P)
    <2> DEFINE x == <<s, <<t, id>>>>
    <2>1. x \in Sites \X P /\ Feeds(image, x[2][1], x[1]) /\ <<x[1], x[2][2]>> = <<s, id>>
      BY <1>3
    <2> QED  BY <2>1 DEF Flow
  <1>4. ASSUME NEW t, NEW id, image[s].op = "call", <<t, id>> \in P, Feeds(image, t, s),
               id[1] = t[1], image[id].name = "param"
        PROVE  <<s, s>> \in Flow(image, P)
    <2> DEFINE p == <<t, id>>
    <2>1. p \in P /\ Feeds(image, p[1], s) /\ p[2][1] = p[1][1] /\ image[p[2]].name = "param"
      BY <1>4
    <2> QED  BY <1>4, <2>1 DEF Flow
  <1> QED  BY <1>1, <1>2, <1>3, <1>4

\* An interpretation under tables in P finds pointers in P.
LEMMA PointerIn ==
  ASSUME TypeOK, NEW P, Closed(program, P), SummariesIn(P), TableIn(P),
         NEW f \in Functions, NEW k \in Slots, Pointer(f, k) # None
  PROVE  <<<<f, k>>, Pointer(f, k)>> \in P
  <1> DEFINE s == <<f, k>>
  <1>0. s \in Sites /\ Fn(f, k) \in Functions /\ Va(f, k) \in Globals
    BY SlotTypes DEF TypeOK, Fn, Va
  <1>1. CASE Op(f, k) = "get"
    BY <1>0, <1>1, ClosedCases DEF Pointer, Resolves, Op
  <1>2. CASE Op(f, k) = "call"
    <2>1. summaries[Fn(f, k)] # None
      BY <1>2, ProgramAssumption DEF Pointer, Resolves, CallsResolver
    <2>2. PICK j \in Slots, id \in Sites :
            /\ "return" \in Ends(Fn(f, k), j) /\ <<<<Fn(f, k), j>>, id>> \in P
            /\ summaries[Fn(f, k)] \in {id, Param}
            /\ summaries[Fn(f, k)] = Param => id[1] = Fn(f, k) /\ Name(id) = "param"
      BY <1>0, <2>1 DEF SummariesIn
    <2>3. Feeds(program, <<Fn(f, k), j>>, s)
      BY <1>2, <2>2 DEF Feeds, Op, Fn, Ends
    <2>4. CASE summaries[Fn(f, k)] = Param
      <3>1. Pointer(f, k) = s
        BY <1>2, <2>4 DEF Pointer, Resolves, CallsResolver
      <3> QED  BY <1>0, <1>2, <2>2, <2>3, <2>4, <3>1, ClosedCases DEF Op, Name
    <2>5. CASE summaries[Fn(f, k)] # Param
      <3>1. Pointer(f, k) = id
        BY <1>2, <2>2, <2>5 DEF Pointer, Resolves, CallsResolver
      <3> QED  BY <1>0, <2>2, <2>3, <3>1, ClosedCases
    <2> QED  BY <2>4, <2>5
  <1>3. CASE Op(f, k) = "load"
    <2>1. Pointer(f, k) = table[Va(f, k)]
      BY <1>3 DEF Pointer, Resolves, CallsResolver
    <2>2. PICK t \in Sites : Va(f, k) \in program[t].stores /\ <<t, table[Va(f, k)]>> \in P
      BY <1>0, <2>1 DEF TableIn
    <2>3. Feeds(program, t, s)  BY <1>3, <2>2 DEF Feeds, Op, Va
    <2> QED  BY <1>0, <2>1, <2>2, <2>3, ClosedCases
  <1>4. CASE Op(f, k) \notin {"get", "call", "load"}
    BY <1>4 DEF Pointer, Resolves, CallsResolver
  <1> QED  BY <1>1, <1>2, <1>3, <1>4

LEMMA RunIn ==
  ASSUME TypeOK, NEW P, Closed(program, P), SummariesIn(P), TableIn(P),
         NEW f \in Functions, NEW k \in Slots
  PROVE  /\ Run(f).api[k] # None => <<<<f, k>>, Run(f).api[k]>> \in P
         /\ Run(f).res[k] = "param" => Name(<<f, k>>) = "param"
  <1>1. Run(f).api[k] # None => <<<<f, k>>, Run(f).api[k]>> \in P
    BY RunFields, PointerIn
  <1>2. Run(f).res[k] = "param" => Name(<<f, k>>) = "param"
    BY DEF Run, Name
  <1> QED  BY <1>1, <1>2

\* The tables made of facts in P are in P.
LEMMA TablesIn ==
  ASSUME TypeOK, NEW P, FactsIn(P), UpdateTables
  PROVE  SummariesIn(P)' /\ TableIn(P)'
  <1>0. FactsOK /\ program' = program  BY FactsTypes DEF UpdateTables
  <1>1. SummariesIn(P)'
    <2> SUFFICES ASSUME NEW f \in Functions, summaries'[f] # None
                 PROVE  \E k \in Slots : \E id \in Sites :
                          /\ "return" \in program[<<f, k>>].ends /\ <<<<f, k>>, id>> \in P
                          /\ summaries'[f] \in {id, Param}
                          /\ summaries'[f] = Param => id[1] = f /\ program[id].name = "param"
      BY <1>0 DEF SummariesIn, Ends, Name
    <2>0. summaries'[f] = Summarize(f)  BY DEF UpdateTables
    <2>1. PICK k \in Returned(f) :
            Summarize(f) = (IF OnBehalf(f, facts[f].api[k]) THEN Param ELSE facts[f].api[k])
      BY <2>0, SummaryCases
    <2> DEFINE id == facts[f].api[k]
    <2>2. k \in Slots /\ "return" \in program[<<f, k>>].ends /\ id # None
      BY <2>1 DEF Returned
    <2>3. id \in Sites  BY <1>0, <2>2 DEF FactsOK, ResIds
    <2>4. <<<<f, k>>, id>> \in P  BY <2>2 DEF FactsIn
    <2>5. OnBehalf(f, id) => id[1] = f /\ program[id].name = "param"
      <3>1. id[2] \in Slots /\ id = <<id[1], id[2]>>  BY <2>3 DEF Sites
      <3> QED  BY <3>1 DEF OnBehalf, FactsIn, Name
    <2>6. ~OnBehalf(f, id) => Summarize(f) # Param
      BY <2>1, <2>3, ProgramAssumption
    <2> QED  BY <2>0, <2>1, <2>2, <2>3, <2>4, <2>5, <2>6
  <1>2. TableIn(P)'
    <2> SUFFICES ASSUME NEW g \in Globals, Entry(g) # None
                 PROVE  \E t \in Sites : g \in program[t].stores /\ <<t, Entry(g)>> \in P
      BY <1>0 DEF TableIn, UpdateTables
    <2>1. PICK t \in Writers(g) : Entry(g) = facts[t[1]].api[t[2]]
      BY EntryCases
    <2>2. t \in Sites /\ g \in program[t].stores  BY <2>1 DEF Writers
    <2>3. t[1] \in Functions /\ t[2] \in Slots /\ t = <<t[1], t[2]>>  BY <2>2 DEF Sites
    <2> QED  BY <2>1, <2>2, <2>3 DEF FactsIn
  <1> QED  BY <1>1, <1>2

\* The report of facts and tables in P is in P.
LEMMA TargetIn ==
  ASSUME TypeOK, NEW P, Closed(program, P), FactsIn(P), TableIn(P),
         NEW s \in Sites, Target(s[1], s[2]) # None
  PROVE  <<s, Target(s[1], s[2])>> \in P
  <1> DEFINE f == s[1]
             k == s[2]
  <1>1. f \in Functions /\ k \in Slots /\ s = <<f, k>>  BY DEF Sites
  <1>2. Target(f, k) = Through(f, k) /\ Through(f, k) # None
    BY ProgramAssumption DEF Target, IsReported
  <1>3. CASE Op(f, k) = "load" /\ facts[f].api[k] = None
    <2>1. Va(f, k) \in Globals  BY <1>1, SlotTypes DEF TypeOK, Va
    <2>2. PICK t \in Sites : Va(f, k) \in program[t].stores /\ <<t, table[Va(f, k)]>> \in P
      BY <1>2, <1>3, <2>1 DEF Through, TableIn
    <2>3. Feeds(program, t, s)  BY <1>1, <1>3, <2>2 DEF Feeds, Op, Va
    <2> QED  BY <1>2, <1>3, <2>2, <2>3, ClosedCases DEF Through
  <1>4. CASE ~(Op(f, k) = "load" /\ facts[f].api[k] = None)
    <2>1. Through(f, k) = facts[f].api[k]  BY <1>4 DEF Through
    <2> QED  BY <1>1, <1>2, <2>1 DEF FactsIn
  <1> QED  BY <1>3, <1>4

LEMMA ReachInductive == ReachInv /\ [Next]_vars => ReachInv'
  <1>1. ReachInv /\ [Next]_vars => program' = program
    BY DEF Next, FirstPass, UpdateTables, Revisit, Settle, CutShort, Report, vars
  <1> SUFFICES ASSUME ReachInv, [Next]_vars, NEW P, Closed(program, P)
               PROVE  In(P)'
    BY <1>1, TypeStep DEF ReachInv, Closed, Flow, Feeds
  <1>2. TypeOK /\ In(P) /\ program' = program  BY <1>1 DEF ReachInv
  <1>3. FactsIn(P) /\ SummariesIn(P) /\ TableIn(P) /\ TargetsIn(P)  BY <1>2 DEF In
  <1>4. facts' = facts => FactsIn(P)'  BY <1>2, <1>3 DEF FactsIn, Name
  <1>5. summaries' = summaries /\ table' = table => SummariesIn(P)' /\ TableIn(P)'
    BY <1>2, <1>3 DEF SummariesIn, TableIn, Ends, Name
  <1>6. targets' = targets => TargetsIn(P)'  BY <1>3 DEF TargetsIn
  <1>7. (\A f \in Functions : facts'[f] \in {facts[f], Run(f), Profile(f)}) => FactsIn(P)'
    <2> SUFFICES ASSUME NEW f \in Functions, NEW k \in Slots,
                        facts'[f] \in {facts[f], Run(f), Profile(f)}
                 PROVE  /\ facts'[f].api[k] # None => <<<<f, k>>, facts'[f].api[k]>> \in P
                        /\ facts'[f].res[k] = "param" => Name(<<f, k>>) = "param"
      BY <1>2 DEF FactsIn, Name
    <2>1. CASE facts'[f] = facts[f]  BY <1>3, <2>1 DEF FactsIn
    <2>2. CASE facts'[f] = Run(f)  BY <1>2, <1>3, <2>2, RunIn
    <2>3. CASE facts'[f] = Profile(f)  BY <2>3 DEF Profile
    <2> QED  BY <2>1, <2>2, <2>3
  <1>8. CASE FirstPass
    <2>1. \A f \in Functions : facts'[f] \in {Run(f), Profile(f)}  BY <1>8 DEF FirstPass
    <2> QED  BY <1>5, <1>6, <1>7, <1>8, <2>1 DEF In, FirstPass
  <1>9. CASE UpdateTables
    <2>1. SummariesIn(P)' /\ TableIn(P)'  BY <1>2, <1>3, <1>9, TablesIn
    <2> QED  BY <1>4, <1>6, <1>9, <2>1 DEF In, UpdateTables
  <1>10. CASE Revisit
    <2>1. \A f \in Functions : facts'[f] \in {facts[f], Run(f)}  BY <1>10 DEF Revisit
    <2> QED  BY <1>5, <1>6, <1>7, <1>10, <2>1 DEF In, Revisit
  <1>11. CASE Settle  BY <1>4, <1>5, <1>6, <1>11 DEF In, Settle
  <1>12. CASE CutShort  BY <1>4, <1>5, <1>6, <1>12 DEF In, CutShort
  <1>13. CASE Report
    <2>1. \A s \in Sites : targets'[s] = Target(s[1], s[2])  BY <1>13 DEF Report
    <2>2. TargetsIn(P)'  BY <1>2, <1>3, <2>1, TargetIn DEF TargetsIn
    <2> QED  BY <1>4, <1>5, <1>13, <2>2 DEF In, Report
  <1>14. CASE UNCHANGED vars  BY <1>4, <1>5, <1>6, <1>14 DEF In, vars
  <1> QED  BY <1>8, <1>9, <1>10, <1>11, <1>12, <1>13, <1>14 DEF Next

\* Whatever the image, no call is labelled with an API its pointer cannot hold.
THEOREM TargetsAreReachable == Spec => []TargetsReachable
  <1>1. Init => ReachInv
    <2> SUFFICES ASSUME Init, NEW P, Closed(program, P) PROVE In(P)
      BY TypeInit DEF ReachInv
    <2>1. FactsIn(P)
      <3>1. \A f \in Functions : facts[f] = Profile(f)  BY DEF Init
      <3> QED  BY <3>1, ProfileFields DEF FactsIn
    <2>2. SummariesIn(P) /\ TableIn(P) /\ TargetsIn(P)
      BY DEF Init, SummariesIn, TableIn, TargetsIn
    <2> QED  BY <2>1, <2>2 DEF In
  <1>2. ReachInv => TargetsReachable
    BY DEF ReachInv, In, TargetsIn, TargetsReachable
  <1> QED  BY <1>1, <1>2, ReachInductive, PTL DEF Spec

=============================================================================
