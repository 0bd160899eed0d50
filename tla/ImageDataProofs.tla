--------------------------- MODULE ImageDataProofs ---------------------------
(***************************************************************************)
(* What RESX learns of images.  For any number of threads, images and      *)
(* symbols, the DbgHelp session has at most one owner and is never left    *)
(* open, and no call that failed or met another in the session makes a     *)
(* cache forget an export (PdbSession).  For any file, what parse_pe keeps *)
(* is backed by the file, and what it does not warn of is whole (PeImage). *)
(* For any images and any similarity of codes, a comparison is fair        *)
(* (Comparison).                                                           *)
(***************************************************************************)
EXTENDS PdbSession, PeImage, Comparison, FiniteSetTheorems, WellFoundedInduction, TLAPS

-----------------------------------------------------------------------------
(* Numbers.                                                                 *)

\* The larger and the smaller of two numbers.
LEMMA TwoNumbers ==
  ASSUME NEW a \in Int, NEW b \in Int
  PROVE  /\ Max({a, b}) \in {a, b} /\ Max({a, b}) >= a /\ Max({a, b}) >= b
         /\ Min({a, b}) \in {a, b} /\ Min({a, b}) <= a /\ Min({a, b}) <= b
<1>1. \E x \in {a, b} : \A y \in {a, b} : x >= y
  OBVIOUS
<1>2. \E x \in {a, b} : \A y \in {a, b} : x <= y
  OBVIOUS
<1>3. Max({a, b}) \in {a, b} /\ \A y \in {a, b} : Max({a, b}) >= y
  BY <1>1 DEF Max
<1>4. Min({a, b}) \in {a, b} /\ \A y \in {a, b} : Min({a, b}) <= y
  BY <1>2 DEF Min
<1>5. QED
  BY <1>3, <1>4

\* Division that rounds down.
LEMMA Quotient ==
  ASSUME NEW a \in Nat, NEW b \in Nat \ {0}
  PROVE  /\ a \div b \in Nat
         /\ b * (a \div b) <= a
         /\ a < b * (a \div b) + b
<1> DEFINE q == a \div b
<1>1. q \in Int /\ a % b \in 0 .. b - 1 /\ a = b * q + (a % b)
  BY SMTT(30)
<1>2. q \in Nat
  <2>1. SUFFICES ASSUME q < 0 PROVE FALSE
    BY <1>1
  <2>2. b * q <= b * (-1)
    BY <2>1, <1>1, SMTT(30)
  <2>3. QED
    BY <2>2, <1>1
<1>3. QED
  BY <1>1, <1>2

\* A share of at most 100 percent rounds to one, and 100 percent to itself.
LEMMA RoundedBound ==
  ASSUME NEW a \in Nat, NEW b \in Nat \ {0}, a <= 100 * b
  PROVE  Rounded(a, b) \in 0 .. 100 /\ (a = 100 * b => Rounded(a, b) = 100)
<1> DEFINE q == Rounded(a, b)
<1>1. 2 * a + b \in Nat /\ 2 * b \in Nat \ {0}
  OBVIOUS
<1>2. q \in Nat /\ (2 * b) * q <= 2 * a + b /\ 2 * a + b < (2 * b) * q + 2 * b
  BY <1>1, Quotient DEF Rounded
<1> HIDE DEF q
<1>3. q <= 100
  <2>1. SUFFICES ASSUME q >= 101 PROVE FALSE
    BY <1>2
  <2>2. b * q >= b * 101
    BY <2>1, <1>2, SMTT(30)
  <2>3. QED
    BY <2>2, <1>2
<1>4. ASSUME a = 100 * b PROVE q = 100
  <2>1. SUFFICES ASSUME q <= 99 PROVE FALSE
    BY <1>2, <1>3
  <2>2. b * q <= b * 99
    BY <2>1, <1>2, SMTT(30)
  <2>3. QED
    BY <2>2, <1>2, <1>4
<1>5. QED
  BY <1>2, <1>3, <1>4 DEF q

\* A set of numbers has a least.
LEMMA LeastNumber ==
  ASSUME NEW S \in SUBSET Nat, S # {}
  PROVE  \E x \in S : \A y \in S : x <= y
<1> DEFINE R == {p \in Nat \X Nat : p[1] < p[2]}
<1>1. IsWellFoundedOn(R, Nat)
  BY NatLessThanWellFounded DEF OpToRel
<1> HIDE DEF R
<1>2. PICK x \in S : \A y \in S : ~ (<<y, x>> \in R)
  BY <1>1, WFMin
<1>3. ASSUME NEW y \in S PROVE x <= y
  <2>1. x \in Nat /\ y \in Nat
    OBVIOUS
  <2>2. ~ (y < x)
    BY <1>2, <2>1 DEF R
  <2>3. QED
    BY <2>1, <2>2
<1>4. QED
  BY <1>3

\* A set with 0 and every successor has every number.
LEMMA AllNumbers ==
  ASSUME NEW S \in SUBSET Nat, 0 \in S, \A n \in S : n + 1 \in S
  PROVE  S = Nat
<1>1. SUFFICES ASSUME Nat \ S # {} PROVE FALSE
  OBVIOUS
<1>2. Nat \ S \in SUBSET Nat
  OBVIOUS
<1>3. PICK n \in Nat \ S : \A m \in Nat \ S : n <= m
  BY <1>1, <1>2, LeastNumber
<1>4. n # 0 /\ n - 1 \in Nat
  BY <1>3
<1>5. n - 1 \in S
  BY <1>3, <1>4
<1>6. (n - 1) + 1 = n
  BY <1>3
<1>7. QED
  BY <1>3, <1>5, <1>6

-----------------------------------------------------------------------------
(* The PDB loaders: the inductive invariant.                                *)

\* A call under way is one of the requests, and asks llvm-pdbutil for types
\* only.
Requested ==
  \A c \in Callers :
    /\ pc[c] # "idle" => req[c] \in Requests
    /\ pc[c] \in {"check_types", "prefer"} => stage[c] = "types"

\* What DbgHelp has for a module includes what its image exports.
LoadedComplete ==
  \A c \in Callers : pc[c] = "query" => Exports[Image(c)] \subseteq loaded

\* So does what a thread is about to store.
OutComplete ==
  \A c \in Callers : pc[c] = "store" =>
    /\ stage[c] = "symbols" => Exports[Image(c)] \subseteq out[c]
    /\ stage[c] = "lookup" => /\ out[c] \subseteq {Name(c)}
                              /\ Name(c) \in Exports[Image(c)] => Name(c) \in out[c]

IInv == TypeOK /\ SessionOwned /\ CachesComplete /\ Requested
        /\ LoadedComplete /\ OutComplete

-----------------------------------------------------------------------------

LEMMA RequestFields ==
  ASSUME NEW r \in Requests
  PROVE  /\ r.op \in Ops /\ r.image \in Images /\ r.name \in Names
         /\ r # Nobody
  BY RequestsAssumption, NoValueAssumption

LEMMA FirstStepIsStep ==
  ASSUME NEW r \in Requests
  PROVE  /\ FirstStep(r) \in
              {"check_lookup", "check_symbols", "check_types", "prefer", "resolve"}
         /\ FirstStep(r) \in {"check_types", "prefer"} => r.op = "types"
  BY RequestFields DEF FirstStep, Ops

LEMMA ExportsAreSymbols ==
  ASSUME NEW i \in Images
  PROVE  /\ Exports[i] \subseteq Symbols[i]
         /\ Exports[i] \subseteq Names /\ Symbols[i] \subseteq Names
  BY ImagesAssumption

LEMMA SameCaches ==
  ASSUME CachesTyped, UNCHANGED <<lookupCache, symbolCache, typeCache>>
  PROVE  CachesTyped'
BY DEF CachesTyped

LEMMA InitEstablishes == Init => IInv
<1> SUFFICES ASSUME Init PROVE IInv
  OBVIOUS
<1>1. TypeOK
  BY MaxCallsAssumption DEF Init, TypeOK, CachesTyped, Steps, Ops
<1>2. SessionOwned
  BY NoValueAssumption DEF Init, SessionOwned
<1>3. CachesComplete
  BY ImagesAssumption DEF Init, CachesComplete
<1>4. Requested /\ LoadedComplete /\ OutComplete
  BY DEF Init, Requested, LoadedComplete, OutComplete
<1> QED
  BY <1>1, <1>2, <1>3, <1>4 DEF IInv

-----------------------------------------------------------------------------
(* One lemma per action.                                                    *)

LEMMA StartKeeps ==
  ASSUME IInv, NEW c \in Callers, NEW r \in Requests, Start(c, r)
  PROVE  IInv'
<1> USE DEF IInv
<1>1. FirstStep(r) \notin {"idle", "load", "query", "store"} /\ FirstStep(r) \in Steps
  BY FirstStepIsStep DEF Steps
<1>2. TypeOK'
  BY SameCaches, <1>1, RequestFields, MaxCallsAssumption DEF Start, Goto, TypeOK, caches
<1>3. SessionOwned'
  BY <1>1 DEF Start, Goto, SessionOwned, TypeOK
<1>4. CachesComplete'
  BY DEF Start, CachesComplete, caches
<1>5. Requested' /\ LoadedComplete' /\ OutComplete'
  BY <1>1, FirstStepIsStep
     DEF Start, Goto, TypeOK, Requested, LoadedComplete, OutComplete, Image, Name
<1> QED
  BY <1>2, <1>3, <1>4, <1>5

LEMMA CheckLookupKeeps ==
  ASSUME IInv, NEW c \in Callers, CheckLookup(c)
  PROVE  IInv'
<1> USE DEF IInv
<1>1. req[c] \in Requests /\ Image(c) \in Images /\ Name(c) \in Names
  BY RequestFields DEF CheckLookup, Requested, Image, Name
<1>2. TypeOK'
  <2>1. lookupCache[Image(c)][Name(c)] # NotCached =>
          lookupCache[Image(c)][Name(c)] \in SUBSET Names
    BY <1>1 DEF TypeOK, CachesTyped
  <2> QED
    BY <2>1, SameCaches DEF CheckLookup, Return, Goto, TypeOK, caches, Steps
<1>3. SessionOwned'
  BY DEF CheckLookup, Return, Goto, SessionOwned, TypeOK
<1>4. CachesComplete'
  BY DEF CheckLookup, CachesComplete, caches
<1>5. Requested' /\ LoadedComplete' /\ OutComplete'
  BY DEF CheckLookup, Return, Goto, TypeOK, Requested, LoadedComplete,
         OutComplete, Image, Name
<1> QED
  BY <1>2, <1>3, <1>4, <1>5

LEMMA CheckTypesKeeps ==
  ASSUME IInv, NEW c \in Callers, CheckTypes(c)
  PROVE  IInv'
<1> USE DEF IInv
<1>1. req[c] \in Requests /\ Image(c) \in Images
  BY RequestFields DEF CheckTypes, Requested, Image
<1>2. TypeOK'
  <2>1. typeCache[Image(c)] # NotCached => typeCache[Image(c)] \in SUBSET Names
    BY <1>1 DEF TypeOK, CachesTyped
  <2> QED
    BY <2>1, SameCaches DEF CheckTypes, Return, Goto, TypeOK, caches, Steps
<1>3. SessionOwned'
  BY DEF CheckTypes, Return, Goto, SessionOwned, TypeOK
<1>4. CachesComplete'
  BY DEF CheckTypes, CachesComplete, caches
<1>5. Requested' /\ LoadedComplete' /\ OutComplete'
  BY DEF CheckTypes, Return, Goto, TypeOK, Requested, LoadedComplete,
         OutComplete, Image, Name
<1> QED
  BY <1>2, <1>3, <1>4, <1>5

LEMMA CheckSymbolsKeeps ==
  ASSUME IInv, NEW c \in Callers, CheckSymbols(c)
  PROVE  IInv'
<1> USE DEF IInv
<1>1. req[c] \in Requests /\ Image(c) \in Images /\ Name(c) \in Names
  BY RequestFields DEF CheckSymbols, Requested, Image, Name
<1> DEFINE list == symbolCache[Image(c)]
<1>2. list # NotCached => list \in SUBSET Names /\ Exports[Image(c)] \subseteq list
  BY <1>1 DEF TypeOK, CachesTyped, CachesComplete
<1>3. UNCHANGED <<caches, pdbs, session, loaded, req, calls>>
  BY DEF CheckSymbols
<1>4. CASE list = NotCached
  <2>1. pc' = [pc EXCEPT ![c] = "resolve"] /\ UNCHANGED <<out, stage>>
    BY <1>4 DEF CheckSymbols, Goto
  <2> QED
    BY SameCaches, <1>3, <2>1 DEF TypeOK, SessionOwned, CachesComplete, Requested,
      LoadedComplete, OutComplete, Image, Name, Steps, caches, CheckSymbols
<1>5. CASE list # NotCached /\ stage[c] = "lookup"
  <2>1. /\ pc' = [pc EXCEPT ![c] = "store"] /\ UNCHANGED stage
        /\ out' = [out EXCEPT ![c] = list \cap {Name(c)}]
    BY <1>5 DEF CheckSymbols, Goto
  <2>2. TypeOK'
    BY SameCaches, <1>2, <1>3, <1>5, <2>1 DEF TypeOK, Steps, caches
  <2>3. SessionOwned' /\ CachesComplete' /\ Requested' /\ LoadedComplete'
    BY <1>3, <2>1 DEF TypeOK, SessionOwned, CachesComplete, Requested,
      LoadedComplete, Image, caches, CheckSymbols
  <2>4. OutComplete'
    BY <1>2, <1>3, <1>5, <2>1 DEF TypeOK, OutComplete, Image, Name
  <2> QED
    BY <2>2, <2>3, <2>4
<1>6. CASE list # NotCached /\ stage[c] # "lookup"
  <2>1. Continue(c, list)
    BY <1>6 DEF CheckSymbols
  <2>2. PICK step \in {"resolve", "idle"} : pc' = [pc EXCEPT ![c] = step]
    BY <2>1 DEF Continue, Return, Goto
  <2>3. TypeOK'
    BY SameCaches, <1>2, <1>3, <1>6, <2>1, <2>2 DEF TypeOK, Steps, Ops, caches, Continue, Return
  <2>4. SessionOwned' /\ CachesComplete' /\ Requested' /\ LoadedComplete'
    BY <1>3, <2>1, <2>2 DEF TypeOK, SessionOwned, CachesComplete, Requested,
      LoadedComplete, Image, caches, CheckSymbols, Continue, Return
  <2>5. OutComplete'
    BY <1>3, <2>1, <2>2 DEF TypeOK, OutComplete, Image, Name, Continue, Return
  <2> QED
    BY <2>3, <2>4, <2>5
<1> QED
  BY <1>4, <1>5, <1>6

LEMMA PreferLlvmKeeps ==
  ASSUME IInv, NEW c \in Callers, PreferLlvm(c)
  PROVE  IInv'
<1> USE DEF IInv
<1>1. req[c] \in Requests /\ Image(c) \in Images
  BY RequestFields DEF PreferLlvm, Requested, Image
<1>2. /\ UNCHANGED <<lookupCache, symbolCache, typeCache, session, loaded, req,
                     calls>>
      /\ pdbs' \subseteq Images /\ pc[c] = "prefer"
  BY <1>1 DEF PreferLlvm, Fetch, TypeOK, caches
<1>3. CASE /\ out' = [out EXCEPT ![c] = Symbols[Image(c)] \ Exports[Image(c)]]
           /\ pc' = [pc EXCEPT ![c] = "store"] /\ UNCHANGED stage
           /\ stage[c] = "types"
  <2>1. TypeOK'
    BY SameCaches, <1>1, <1>2, <1>3, ExportsAreSymbols DEF TypeOK, Steps
  <2>2. SessionOwned' /\ CachesComplete' /\ Requested' /\ LoadedComplete'
    BY <1>2, <1>3, <1>1 DEF TypeOK, SessionOwned, CachesComplete, Requested,
      LoadedComplete, Image
  <2>3. OutComplete'
    BY <1>2, <1>3 DEF TypeOK, OutComplete, Image, Name
  <2> QED
    BY <2>1, <2>2, <2>3
<1>4. ASSUME NEW step \in {"resolve", "check_symbols"},
             stage' = [stage EXCEPT ![c] = "symbols"],
             pc' = [pc EXCEPT ![c] = step], UNCHANGED out
      PROVE  IInv'
  <2>1. TypeOK'
    BY SameCaches, <1>2, <1>4 DEF TypeOK, Steps, Ops
  <2>2. SessionOwned' /\ CachesComplete' /\ Requested' /\ LoadedComplete'
    BY <1>2, <1>4, <1>1 DEF TypeOK, SessionOwned, CachesComplete, Requested,
      LoadedComplete, Image
  <2>3. OutComplete'
    BY <1>2, <1>4 DEF TypeOK, OutComplete, Image, Name
  <2> QED
    BY <2>1, <2>2, <2>3
<1> QED
  <2>1. stage[c] = "types"
    BY <1>2 DEF Requested
  <2> QED
    BY <2>1, <1>3, <1>4 DEF PreferLlvm, Goto

LEMMA ResolvePdbKeeps ==
  ASSUME IInv, NEW c \in Callers, ResolvePdb(c)
  PROVE  IInv'
<1> USE DEF IInv
<1>1. Image(c) \in Images
  BY RequestFields DEF ResolvePdb, Requested, Image
<1>2. TypeOK'
  BY SameCaches, <1>1 DEF ResolvePdb, Fetch, Goto, TypeOK, Steps, caches
<1>3. SessionOwned' /\ CachesComplete' /\ Requested' /\ LoadedComplete' /\ OutComplete'
  BY DEF ResolvePdb, Goto, TypeOK, SessionOwned, CachesComplete, Requested,
         LoadedComplete, OutComplete, Image, Name, caches
<1> QED
  BY <1>2, <1>3

LEMMA OpenSessionKeeps ==
  ASSUME IInv, NEW c \in Callers, OpenSession(c)
  PROVE  IInv'
<1> USE DEF IInv
<1>1. UNCHANGED <<lookupCache, symbolCache, typeCache, pdbs, loaded, req, stage,
                  calls>> /\ pc[c] = "open"
  BY DEF OpenSession, caches
<1>2. CASE session = Nobody
  <2>1. session' = c /\ pc' = [pc EXCEPT ![c] = "load"] /\ UNCHANGED out
    BY <1>2 DEF OpenSession, Goto
  <2>2. TypeOK'
    BY SameCaches, <1>1, <2>1 DEF TypeOK, Steps
  <2>3. SessionOwned'
    BY <1>1, <1>2, <2>1, NoValueAssumption DEF TypeOK, SessionOwned
  <2>4. CachesComplete' /\ Requested' /\ LoadedComplete' /\ OutComplete'
    BY <1>1, <2>1 DEF TypeOK, CachesComplete, Requested, LoadedComplete,
      OutComplete, Image, Name
  <2> QED
    BY <2>2, <2>3, <2>4
<1>3. CASE session # Nobody
  <2>1. UNCHANGED session /\ pc' = [pc EXCEPT ![c] = "idle"]
        /\ out' = [out EXCEPT ![c] = {}]
    BY <1>3 DEF OpenSession, Return, Goto
  <2>2. TypeOK'
    BY SameCaches, <1>1, <2>1 DEF TypeOK, Steps
  <2>3. SessionOwned' /\ CachesComplete' /\ Requested' /\ LoadedComplete' /\ OutComplete'
    BY <1>1, <2>1 DEF TypeOK, SessionOwned, CachesComplete, Requested,
      LoadedComplete, OutComplete, Image, Name
  <2> QED
    BY <2>2, <2>3
<1> QED
  BY <1>2, <1>3

LEMMA LoadModuleKeeps ==
  ASSUME IInv, NEW c \in Callers, LoadModule(c)
  PROVE  IInv'
<1> USE DEF IInv
<1>1. Image(c) \in Images
  BY RequestFields DEF LoadModule, Requested, Image
<1>2. Exports[Image(c)] \subseteq loaded' /\ loaded' \subseteq Names
  BY <1>1, ExportsAreSymbols DEF LoadModule
<1>3. /\ UNCHANGED <<lookupCache, symbolCache, typeCache, session, req, stage,
                     out, calls>>
      /\ pc[c] = "load" /\ pc' = [pc EXCEPT ![c] = "query"]
      /\ pdbs' \subseteq Images
  BY <1>1 DEF LoadModule, Goto, Fetch, TypeOK, caches
<1>4. TypeOK'
  BY SameCaches, <1>2, <1>3 DEF TypeOK, Steps
<1>5. SessionOwned' /\ CachesComplete' /\ Requested' /\ OutComplete'
  BY <1>3 DEF TypeOK, SessionOwned, CachesComplete, Requested, OutComplete, Image, Name
\* No other thread is at its query, since this one has the session.
<1>6. LoadedComplete'
  BY <1>2, <1>3 DEF TypeOK, SessionOwned, LoadedComplete, Image
<1> QED
  BY <1>4, <1>5, <1>6

\* A thread that leaves its session, or never had it, leaves no other inside.
LEMMA NobodyElse ==
  ASSUME IInv, NEW c \in Callers, session = c, NEW d \in Callers, d # c
  PROVE  pc[d] \notin {"load", "query"}
BY DEF IInv, SessionOwned

LEMMA QueryKeeps ==
  ASSUME IInv, NEW c \in Callers, Query(c)
  PROVE  IInv'
<1> USE DEF IInv
<1>1. req[c] \in Requests /\ Image(c) \in Images /\ Name(c) \in Names
  BY RequestFields DEF Query, Requested, Image, Name
<1>2. /\ UNCHANGED <<lookupCache, symbolCache, typeCache, pdbs, req, stage,
                     calls>>
      /\ session = c /\ session' = Nobody /\ loaded' = {} /\ pc[c] = "query"
  BY DEF Query, SessionOwned, caches
<1>3. Exports[Image(c)] \subseteq loaded /\ loaded \subseteq Names
  BY <1>2 DEF LoadedComplete, TypeOK
<1>4. /\ Answer(c) \in SUBSET Names
      /\ stage[c] = "lookup" => Answer(c) = loaded \cap {Name(c)}
      /\ stage[c] = "symbols" => Answer(c) = loaded
  BY <1>3 DEF Answer, TypeOK, Ops
<1>5. PICK step \in {"idle", "store"}, names \in SUBSET Names :
        /\ pc' = [pc EXCEPT ![c] = step] /\ out' = [out EXCEPT ![c] = names]
        /\ step = "store" => names = Answer(c)
  <2>1. CASE stage[c] = "lookup" /\ Answer(c) = {}
    BY <2>1 DEF Query, Return, Goto
  <2>2. CASE ~(stage[c] = "lookup" /\ Answer(c) = {})
    BY <2>2, <1>4 DEF Query, Goto
  <2> QED
    BY <2>1, <2>2
<1>6. TypeOK'
  BY SameCaches, <1>2, <1>5 DEF TypeOK, Steps
<1>7. SessionOwned'
  BY <1>2, <1>5, NobodyElse, NoValueAssumption DEF TypeOK, SessionOwned
<1>8. LoadedComplete'
  BY <1>2, <1>5, NobodyElse DEF TypeOK, LoadedComplete
<1>9. CachesComplete' /\ Requested'
  BY <1>1, <1>2, <1>5 DEF TypeOK, CachesComplete, Requested
<1>10. OutComplete'
  BY <1>2, <1>3, <1>4, <1>5 DEF TypeOK, OutComplete, Image, Name
<1> QED
  BY <1>6, <1>7, <1>8, <1>9, <1>10

LEMMA DbgHelpFailsKeeps ==
  ASSUME IInv, NEW c \in Callers, DbgHelpFails(c)
  PROVE  IInv'
<1> USE DEF IInv
<1>1. /\ UNCHANGED <<lookupCache, symbolCache, typeCache, pdbs, req, stage, calls>>
      /\ pc' = [pc EXCEPT ![c] = "idle"] /\ out' = [out EXCEPT ![c] = {}]
      /\ pc[c] \in {"open", "load", "query"}
  BY DEF DbgHelpFails, Return, Goto, caches
<1>2. CachesComplete' /\ Requested' /\ OutComplete'
  BY <1>1 DEF TypeOK, CachesComplete, Requested, OutComplete, Image, Name
<1>3. CASE pc[c] = "open"
  <2>1. UNCHANGED <<session, loaded>>
    BY <1>3 DEF DbgHelpFails
  <2>2. TypeOK'
    BY SameCaches, <1>1, <2>1 DEF TypeOK, Steps
  <2>3. SessionOwned' /\ LoadedComplete'
    BY <1>1, <1>3, <2>1 DEF TypeOK, SessionOwned, LoadedComplete, Image
  <2> QED
    BY <1>2, <2>2, <2>3
<1>4. CASE pc[c] \in {"load", "query"}
  <2>1. session = c /\ session' = Nobody /\ loaded' = {}
    BY <1>4 DEF DbgHelpFails, SessionOwned
  <2>2. TypeOK'
    BY SameCaches, <1>1, <2>1 DEF TypeOK, Steps
  <2>3. SessionOwned' /\ LoadedComplete'
    BY <1>1, <2>1, NobodyElse, NoValueAssumption DEF TypeOK, SessionOwned, LoadedComplete
  <2> QED
    BY <1>2, <2>2, <2>3
<1> QED
  BY <1>1, <1>3, <1>4

LEMMA StoreKeeps ==
  ASSUME IInv, NEW c \in Callers, Store(c)
  PROVE  IInv'
<1> USE DEF IInv
<1>1. req[c] \in Requests /\ Image(c) \in Images /\ Name(c) \in Names
  BY RequestFields DEF Store, Requested, Image, Name
<1>2. UNCHANGED <<pdbs, session, loaded, req, calls>> /\ pc[c] = "store"
  BY DEF Store
<1>3. /\ out[c] \in SUBSET Names
      /\ stage[c] = "symbols" => Exports[Image(c)] \subseteq out[c]
      /\ stage[c] = "lookup" => /\ out[c] \subseteq {Name(c)}
                                /\ Name(c) \in Exports[Image(c)] => Name(c) \in out[c]
  BY <1>2 DEF TypeOK, OutComplete
<1>4. PICK step \in {"resolve", "idle"} : pc' = [pc EXCEPT ![c] = step]
  BY DEF Store, Continue, Return, Goto
<1>5. stage' \in [Callers -> Ops] /\ out' \in [Callers -> SUBSET Names]
      /\ \A d \in Callers \ {c} : stage'[d] = stage[d] /\ out'[d] = out[d]
  BY <1>3 DEF Store, Continue, Return, TypeOK, Ops
<1>6. /\ \A i \in Images : \A n \in Names :
           lookupCache'[i][n] \in {NotCached, {}, {n}}
      /\ \A i \in Images : \A n \in Exports[i] :
           lookupCache'[i][n] \in {NotCached, {n}}
  <2>1. CASE stage[c] = "lookup"
    <3>1. lookupCache' = [lookupCache EXCEPT ![Image(c)][Name(c)] = out[c]]
      BY <2>1 DEF Store
    <3>2. out[c] \in {{}, {Name(c)}} /\ (Name(c) \in Exports[Image(c)] => out[c] = {Name(c)})
      BY <1>3, <2>1
    <3>3. ASSUME NEW i \in Images, NEW n \in Names
          PROVE  lookupCache'[i][n] =
                   IF i = Image(c) /\ n = Name(c) THEN out[c] ELSE lookupCache[i][n]
      BY <3>1, <1>1 DEF TypeOK, CachesTyped
    <3>4. \A i \in Images : \A n \in Names : lookupCache'[i][n] \in {NotCached, {}, {n}}
      BY <3>2, <3>3 DEF TypeOK, CachesTyped
    <3>5. ASSUME NEW i \in Images, NEW n \in Exports[i]
          PROVE  lookupCache'[i][n] \in {NotCached, {n}}
      <4>1. n \in Names
        BY ImagesAssumption
      <4>2. lookupCache[i][n] \in {NotCached, {n}}
        BY DEF CachesComplete
      <4> QED
        BY <3>2, <3>3, <4>1, <4>2
    <3> QED
      BY <3>4, <3>5
  <2>2. CASE stage[c] # "lookup"
    BY <2>2 DEF Store, TypeOK, CachesTyped, CachesComplete
  <2> QED
    BY <2>1, <2>2
<1>7. /\ symbolCache' \in [Images -> {NotCached} \cup SUBSET Names]
      /\ \A i \in Images :
           symbolCache'[i] # NotCached => Exports[i] \subseteq symbolCache'[i]
  BY <1>1, <1>3 DEF Store, TypeOK, CachesTyped, CachesComplete
<1>8. CachesTyped'
  <2>1. typeCache' \in [Images -> {NotCached} \cup SUBSET Names]
    BY <1>1, <1>3 DEF Store, TypeOK, CachesTyped
  <2>2. lookupCache' \in [Images -> [Names -> {NotCached} \cup SUBSET Names]]
    BY <1>1, <1>3 DEF Store, TypeOK, CachesTyped
  <2> QED
    BY <2>1, <2>2, <1>6, <1>7 DEF CachesTyped
<1>9. TypeOK'
  BY <1>2, <1>4, <1>5, <1>8 DEF TypeOK, Steps
<1>10. SessionOwned' /\ Requested' /\ LoadedComplete' /\ OutComplete'
  BY <1>1, <1>2, <1>4, <1>5
     DEF TypeOK, SessionOwned, Requested, LoadedComplete, OutComplete, Image, Name
<1>11. CachesComplete'
  BY <1>6, <1>7 DEF CachesComplete
<1> QED
  BY <1>9, <1>10, <1>11

-----------------------------------------------------------------------------

LEMMA StepKeeps == IInv /\ [Next]_vars => IInv'
<1> SUFFICES ASSUME IInv, [Next]_vars PROVE IInv'
  OBVIOUS
<1>1. CASE UNCHANGED vars
  BY <1>1, SameCaches DEF IInv, vars, TypeOK, SessionOwned, CachesComplete, Requested,
              LoadedComplete, OutComplete, Image, Name
<1>2. CASE Next
  <2>1. PICK c \in Callers : Step(c)
    BY <1>2 DEF Next
  <2> QED
    BY <2>1, StartKeeps, CheckLookupKeeps, CheckSymbolsKeeps, CheckTypesKeeps,
       PreferLlvmKeeps, ResolvePdbKeeps, OpenSessionKeeps, LoadModuleKeeps,
       QueryKeeps, DbgHelpFailsKeeps, StoreKeeps DEF Step
<1> QED
  BY <1>1, <1>2

LEMMA Invariant == Spec => []IInv
  BY InitEstablishes, StepKeeps, PTL DEF Spec

\* The loaders and their caches are type correct: a cached lookup is the name
\* that was looked up, or nothing.
THEOREM TypeCorrect == Spec => []TypeOK
<1>1. IInv => TypeOK
  BY DEF IInv
<1> QED
  BY <1>1, Invariant, PTL

\* A thread is inside DbgHelp exactly while it owns the session, for any number
\* of threads: no path out of a loader leaves the session open.
THEOREM SessionIsOwned == Spec => []SessionOwned
<1>1. IInv => SessionOwned
  BY DEF IInv
<1> QED
  BY <1>1, Invariant, PTL

\* A cached list holds the exports of its image and a cached lookup of an
\* export is not a miss, whatever calls failed or met another in the session.
THEOREM CachesAreComplete == Spec => []CachesComplete
<1>1. IInv => CachesComplete
  BY DEF IInv
<1> QED
  BY <1>1, Invariant, PTL

-----------------------------------------------------------------------------
(* Mappings.                                                                *)

\* What the mappings need of an image.
Layout(im) ==
  /\ MaxAddress \in Nat
  /\ im.size \in Nat /\ im.headers \in Nat
  /\ im.sections \in Seq(SectionHeaders)
  /\ \A i \in DOMAIN im.sections :
       im.sections[i].va + Span(im.sections[i]) <= MaxAddress

\* The extremes of a few numbers.
LEMMA LeastOf ==
  ASSUME NEW S \in SUBSET Nat, S # {}
  PROVE  Min(S) \in S /\ \A x \in S : Min(S) <= x
<1>1. \E x \in S : \A y \in S : x <= y
  BY LeastNumber
<1>2. QED
  BY <1>1 DEF Min

LEMMA SpanOf ==
  ASSUME NEW s \in SectionHeaders
  PROVE  /\ Span(s) \in Nat /\ s.vsize <= Span(s) /\ s.rsize <= Span(s)
         /\ s.va \in Nat /\ s.raw \in Nat /\ s.rsize \in Nat
<1>1. s.va \in Nat /\ s.raw \in Nat /\ s.rsize \in Nat /\ s.vsize \in Nat
  BY DEF SectionHeaders
<1>2. \E x \in {s.vsize, s.rsize} : \A y \in {s.vsize, s.rsize} : x >= y
  BY <1>1
<1>3. Span(s) \in {s.vsize, s.rsize} /\ \A y \in {s.vsize, s.rsize} : Span(s) >= y
  BY <1>2 DEF Span, Max
<1>4. QED
  BY <1>1, <1>3

LEMMA ContainsIf ==
  ASSUME NEW s \in SectionHeaders, MaxAddress \in Nat, s.va + Span(s) <= MaxAddress, NEW rva \in Nat
  PROVE  ContainsRva(s, rva) <=> rva >= s.va /\ rva < s.va + Span(s)
<1>1. s.va + Span(s) \in Nat
  BY SpanOf
<1>2. /\ Min({s.va + Span(s), MaxAddress}) \in {s.va + Span(s), MaxAddress}
      /\ Min({s.va + Span(s), MaxAddress}) <= s.va + Span(s)
      /\ Min({s.va + Span(s), MaxAddress}) <= MaxAddress
  BY <1>1, LeastOf
<1>3. Min({s.va + Span(s), MaxAddress}) = s.va + Span(s)
  BY <1>1, <1>2
<1>4. QED
  BY <1>3 DEF ContainsRva

\* The sections that hold an address.
LEMMA OwnersAre ==
  ASSUME NEW im, Layout(im), NEW rva \in Nat
  PROVE  /\ IsFiniteSet(Owners(im, rva)) /\ IsFiniteSet(DOMAIN im.sections)
         /\ Owners(im, rva) \subseteq DOMAIN im.sections
         /\ \A i \in DOMAIN im.sections :
              /\ im.sections[i] \in SectionHeaders /\ i \in Nat \ {0}
              /\ i \in Owners(im, rva) <=>
                   rva >= im.sections[i].va /\ rva < im.sections[i].va + Span(im.sections[i])
<1>1. /\ DOMAIN im.sections = 1 .. Len(im.sections) /\ Len(im.sections) \in Nat
      /\ \A i \in DOMAIN im.sections : im.sections[i] \in SectionHeaders /\ i \in Nat \ {0}
  BY DEF Layout
<1>2. IsFiniteSet(DOMAIN im.sections)
  BY <1>1, FS_Interval
<1>3. Owners(im, rva) \subseteq DOMAIN im.sections
  BY DEF Owners
<1>4. IsFiniteSet(Owners(im, rva))
  BY <1>2, <1>3, FS_Subset
<1>5. ASSUME NEW i \in DOMAIN im.sections
      PROVE  i \in Owners(im, rva) <=>
               rva >= im.sections[i].va /\ rva < im.sections[i].va + Span(im.sections[i])
  BY <1>1, ContainsIf DEF Owners, Layout
<1>6. QED
  BY <1>1, <1>2, <1>3, <1>4, <1>5

\* An address has the section that alone holds it.
LEMMA SectionOf ==
  ASSUME NEW im, Layout(im), NEW rva \in Nat
  PROVE  /\ \A i : Owners(im, rva) = {i} => RvaToSection(im, rva) = i
         /\ Owners(im, rva) = {} => RvaToSection(im, rva) = None
         /\ RvaToSection(im, rva) # None => Owners(im, rva) = {RvaToSection(im, rva)}
<1>1. Cardinality(Owners(im, rva)) = 1 <=> \E i : Owners(im, rva) = {i}
  BY OwnersAre, FS_Singleton
<1>2. QED
  BY <1>1 DEF RvaToSection


\* The bytes at an address: where they are, and how far they go.
LEMMA BytesAt ==
  ASSUME NEW im, Layout(im), NEW rva \in Nat, NEW size \in Nat \ {0},
         RvaSlice(im, rva, size)
  PROVE  /\ RvaToOffset(im, rva) \in Nat
         /\ RvaToOffset(im, rva) + size <= im.size
         /\ \A i \in DOMAIN im.sections :
              im.sections[i].va > rva /\ Span(im.sections[i]) # 0 =>
                im.sections[i].va >= rva + size
         /\ \/ /\ rva < im.headers /\ rva + size <= im.headers
               /\ Owners(im, rva) = {} /\ RvaToOffset(im, rva) = rva
            \/ \E i \in DOMAIN im.sections :
                 /\ rva >= im.headers
                 /\ Owners(im, rva) = {i} /\ rva >= im.sections[i].va
                 /\ rva + size <= im.sections[i].va + im.sections[i].rsize
                 /\ RvaToOffset(im, rva) = im.sections[i].raw + (rva - im.sections[i].va)
<1> DEFINE off == RvaToOffset(im, rva)
           sec == im.sections[RvaToSection(im, rva)]
           available == IF rva < im.headers THEN im.headers - rva ELSE sec.rsize - (rva - sec.va)
           next == {t.va - rva : t \in {t \in Range(im.sections) : t.va > rva /\ Span(t) # 0}}
           room == Min({available} \cup next)
<1>1. im.headers \in Nat /\ im.size \in Nat
  BY DEF Layout
<1>2. off # None /\ Min({off + room, im.size}) - off >= size
  <2>1. RvaBytes(im, rva) >= size
    BY DEF RvaSlice
  <2>2. ~ (None >= size)
    BY DEF None
  <2>3. RvaBytes(im, rva) # None
    BY <2>1, <2>2
  <2>4. off # None /\ ~ (off > im.size)
    BY <2>3 DEF RvaBytes
  <2>5. RvaBytes(im, rva) = Min({off + room, im.size}) - off
    BY <2>4 DEF RvaBytes
  <2>6. QED
    BY <2>1, <2>4, <2>5
<1>3. /\ off \in Nat /\ available \in Nat
      /\ \/ /\ rva < im.headers /\ available = im.headers - rva
            /\ Owners(im, rva) = {} /\ off = rva
         \/ \E i \in DOMAIN im.sections :
              /\ rva >= im.headers /\ available = im.sections[i].rsize - (rva - im.sections[i].va)
              /\ Owners(im, rva) = {i} /\ rva >= im.sections[i].va
              /\ off = im.sections[i].raw + (rva - im.sections[i].va)
  <2>1. CASE rva < im.headers
    <3>1. Owners(im, rva) = {} /\ off = rva
      BY <1>2, <2>1 DEF RvaToOffset
    <3>2. available = im.headers - rva /\ available \in Nat
      BY <1>1, <2>1
    <3>3. QED
      BY <2>1, <3>1, <3>2
  <2>2. CASE ~ (rva < im.headers)
    <3> DEFINE i == RvaToSection(im, rva)
    <3>1. i # None /\ ~ (rva - sec.va >= sec.rsize) /\ off = sec.raw + (rva - sec.va)
      BY <1>2, <2>2 DEF RvaToOffset
    <3>2. Owners(im, rva) = {i}
      BY <3>1, SectionOf
    <3>3. i \in DOMAIN im.sections /\ rva >= sec.va /\ sec \in SectionHeaders
      BY <3>2, OwnersAre
    <3>4. sec.va \in Nat /\ sec.raw \in Nat /\ sec.rsize \in Nat
      BY <3>3, SpanOf
    <3>5. available = sec.rsize - (rva - sec.va)
      BY <2>2
    <3>6. available \in Nat /\ off \in Nat /\ rva >= im.headers
      BY <1>1, <2>2, <3>1, <3>3, <3>4, <3>5
    <3>7. QED
      BY <3>1, <3>2, <3>3, <3>5, <3>6
  <2>3. QED
    BY <2>1, <2>2
<1>4. \A i \in DOMAIN im.sections :
        /\ im.sections[i] \in SectionHeaders /\ im.sections[i].va \in Nat
        /\ im.sections[i].va > rva /\ Span(im.sections[i]) # 0 => im.sections[i].va - rva \in next
  BY OwnersAre, SpanOf DEF Range
<1>5. {available} \cup next \in SUBSET Nat
  <2> SUFFICES ASSUME NEW t \in Range(im.sections), t.va > rva PROVE t.va - rva \in Nat
    BY <1>3
  <2>1. t.va \in Nat
    BY <1>4 DEF Range
  <2>2. QED
    BY <2>1
<1> HIDE DEF available, next
<1>6. room \in Nat /\ room <= available /\ \A n \in next : room <= n
  BY <1>5, LeastOf
<1> HIDE DEF room, off
<1>7. size <= room /\ off + size <= im.size
  <2>1. {off + room, im.size} \in SUBSET Nat
    BY <1>1, <1>3, <1>6
  <2>2. /\ Min({off + room, im.size}) \in Nat /\ Min({off + room, im.size}) <= off + room
        /\ Min({off + room, im.size}) <= im.size
    BY <2>1, LeastOf
  <2>3. QED
    BY <1>1, <1>2, <1>3, <1>6, <2>2
<1>8. \A i \in DOMAIN im.sections :
        im.sections[i].va > rva /\ Span(im.sections[i]) # 0 => im.sections[i].va >= rva + size
  BY <1>4, <1>5, <1>6, <1>7
<1>9. CASE /\ rva < im.headers /\ available = im.headers - rva
           /\ Owners(im, rva) = {} /\ off = rva
  <2>1. rva + size <= im.headers
    BY <1>1, <1>6, <1>7, <1>9
  <2>2. QED
    BY <1>3, <1>7, <1>8, <1>9, <2>1 DEF off
<1>10. CASE \E i \in DOMAIN im.sections :
              /\ rva >= im.headers /\ available = im.sections[i].rsize - (rva - im.sections[i].va)
              /\ Owners(im, rva) = {i} /\ rva >= im.sections[i].va
              /\ off = im.sections[i].raw + (rva - im.sections[i].va)
  <2>1. PICK i \in DOMAIN im.sections :
              /\ rva >= im.headers /\ available = im.sections[i].rsize - (rva - im.sections[i].va)
              /\ Owners(im, rva) = {i} /\ rva >= im.sections[i].va
              /\ off = im.sections[i].raw + (rva - im.sections[i].va)
    BY <1>10
  <2>2. im.sections[i].va \in Nat /\ im.sections[i].rsize \in Nat
    BY OwnersAre, SpanOf
  <2>3. rva + size <= im.sections[i].va + im.sections[i].rsize
    BY <1>6, <1>7, <2>1, <2>2
  <2>4. QED
    BY <1>3, <1>7, <1>8, <2>1, <2>3 DEF off
<1>11. QED
  BY <1>3, <1>9, <1>10


\* All of a slice is in the region of its first byte.
LEMMA SliceIsBacked ==
  ASSUME NEW im, Layout(im), NEW rva \in Nat, NEW size \in Nat \ {0},
         RvaSlice(im, rva, size), NEW k \in 0 .. size - 1
  PROVE  /\ RvaToOffset(im, rva + k) = RvaToOffset(im, rva) + k
         /\ RvaToOffset(im, rva + k) < im.size
         /\ RvaToSection(im, rva + k) = RvaToSection(im, rva)
<1> DEFINE off == RvaToOffset(im, rva)
           at == rva + k
<1>1. /\ k \in Nat /\ k < size /\ at \in Nat /\ at >= rva /\ at < rva + size
      /\ im.headers \in Nat /\ im.size \in Nat
  BY DEF Layout
<1>2. /\ off \in Nat /\ off + size <= im.size
      /\ \A i \in DOMAIN im.sections :
           im.sections[i].va > rva /\ Span(im.sections[i]) # 0 => im.sections[i].va >= rva + size
  BY BytesAt
<1> HIDE DEF at
<1>3. Owners(im, at) \subseteq Owners(im, rva)
  <2> SUFFICES ASSUME NEW i \in DOMAIN im.sections, i \in Owners(im, at)
               PROVE  i \in Owners(im, rva)
    BY <1>1, OwnersAre
  <2> DEFINE s == im.sections[i]
  <2>1. s.va \in Nat /\ Span(s) \in Nat
    BY OwnersAre, SpanOf
  <2>2. at >= s.va /\ at < s.va + Span(s)
    BY <1>1, OwnersAre
  <2>3. Span(s) # 0
    BY <1>1, <2>1, <2>2
  <2>4. ~ (s.va > rva)
    BY <1>1, <1>2, <2>1, <2>2, <2>3
  <2>5. rva >= s.va /\ rva < s.va + Span(s)
    BY <1>1, <2>1, <2>2, <2>4
  <2>6. QED
    BY <2>5, OwnersAre
<1>4. ASSUME rva < im.headers, rva + size <= im.headers, Owners(im, rva) = {}, off = rva
      PROVE  /\ RvaToOffset(im, at) = off + k /\ off + k < im.size
             /\ RvaToSection(im, at) = RvaToSection(im, rva)
  <2>1. Owners(im, at) = {} /\ at < im.headers
    BY <1>1, <1>3, <1>4
  <2>2. RvaToOffset(im, at) = at
    BY <2>1 DEF RvaToOffset
  <2>3. RvaToSection(im, at) = None /\ RvaToSection(im, rva) = None
    BY <1>1, <1>4, <2>1, SectionOf
  <2>4. at = off + k /\ off + k < im.size
    BY <1>1, <1>2, <1>4 DEF at
  <2>5. QED
    BY <2>2, <2>3, <2>4
<1>5. ASSUME NEW i \in DOMAIN im.sections,
             rva >= im.headers, Owners(im, rva) = {i}, rva >= im.sections[i].va,
             rva + size <= im.sections[i].va + im.sections[i].rsize,
             off = im.sections[i].raw + (rva - im.sections[i].va)
      PROVE  /\ RvaToOffset(im, at) = off + k /\ off + k < im.size
             /\ RvaToSection(im, at) = RvaToSection(im, rva)
  <2> DEFINE s == im.sections[i]
  <2>1. /\ s.va \in Nat /\ s.raw \in Nat /\ s.rsize \in Nat /\ Span(s) \in Nat
        /\ s.rsize <= Span(s)
    BY OwnersAre, SpanOf
  <2>2. at >= s.va /\ at < s.va + s.rsize /\ at < s.va + Span(s) /\ ~ (at < im.headers)
    BY <1>1, <1>5, <2>1
  <2>3. i \in Owners(im, at)
    BY <1>1, <2>2, OwnersAre
  <2>4. Owners(im, at) = {i}
    BY <1>3, <1>5, <2>3
  <2>5. RvaToSection(im, at) = i /\ RvaToSection(im, rva) = i
    BY <1>1, <1>5, <2>4, SectionOf
  <2>6. i # None
    BY OwnersAre DEF None
  <2>7. ~ (at - s.va >= s.rsize)
    BY <1>1, <2>1, <2>2
  <2>8. RvaToOffset(im, at) = s.raw + (at - s.va)
    BY <2>2, <2>5, <2>6, <2>7 DEF RvaToOffset
  <2>9. s.raw + (at - s.va) = off + k /\ off + k < im.size
    BY <1>1, <1>2, <1>5, <2>1 DEF at
  <2>10. QED
    BY <2>5, <2>8, <2>9
<1>6. \/ /\ rva < im.headers /\ rva + size <= im.headers
         /\ Owners(im, rva) = {} /\ off = rva
      \/ \E i \in DOMAIN im.sections :
           /\ rva >= im.headers
           /\ Owners(im, rva) = {i} /\ rva >= im.sections[i].va
           /\ rva + size <= im.sections[i].va + im.sections[i].rsize
           /\ off = im.sections[i].raw + (rva - im.sections[i].va)
  BY BytesAt
<1>7. /\ RvaToOffset(im, at) = off + k /\ off + k < im.size
      /\ RvaToSection(im, at) = RvaToSection(im, rva)
  BY <1>4, <1>5, <1>6
<1>8. QED
  BY <1>7 DEF at

-----------------------------------------------------------------------------
(* parse_pe.                                                                *)

\* What is known of a file whose headers are accepted.
LEMMA ParsedImage ==
  ASSUME NEW f \in Files, Acceptable(f)
  PROVE  /\ Layout(Parsed(f).im) /\ Parsed(f).status = "parsed"
         /\ Parsed(f).im.sections = f.sections /\ Parsed(f).im.headers = f.headers
         /\ Parsed(f).im.size = f.size
         /\ f.sections \in Seq(SectionHeaders) /\ f.headers \in Nat /\ f.size \in Nat
<1> DEFINE im == Parsed(f).im
<1>1. /\ im.sections = f.sections /\ im.headers = f.headers /\ im.size = f.size
      /\ Parsed(f).status = "parsed"
  BY DEF Parsed
<1>2. /\ f.sections \in Seq(SectionHeaders) /\ f.headers \in Nat /\ f.size \in Nat
      /\ MaxAddress \in Nat
  BY FilesAssumption
<1>3. \A i \in DOMAIN f.sections : f.sections[i].va + Span(f.sections[i]) <= MaxAddress
  BY DEF Acceptable, Range
<1>4. QED
  BY <1>1, <1>2, <1>3 DEF Layout

LEMMA DeclaredAre ==
  ASSUME NEW f \in Files
  PROVE  /\ DOMAIN Declared(f) = DOMAIN f.dirs
         /\ \A i \in DOMAIN f.dirs :
              /\ i \in 0 .. 15 /\ Declared(f)[i] \in Ranges
              /\ i < f.declared /\ f.declared <= f.room /\ f.declared <= 16 =>
                   Declared(f)[i] = f.dirs[i]
<1>1. f.declared \in Nat /\ f.room \in Nat
  BY FilesAssumption
<1>2. Nothing \in Ranges
  BY DEF Nothing, Ranges
<1>3. ASSUME NEW i \in DOMAIN f.dirs, i < f.declared, f.declared <= f.room, f.declared <= 16
      PROVE  i < Min({f.declared, f.room, 16})
  <2>1. {f.declared, f.room, 16} \in SUBSET Nat
    BY <1>1
  <2>2. Min({f.declared, f.room, 16}) \in {f.declared, f.room, 16}
    BY <2>1, LeastOf
  <2>3. i \in 0 .. 15
    BY FilesAssumption
  <2>4. QED
    BY <1>1, <1>3, <2>2, <2>3
<1>4. QED
  BY <1>2, <1>3, FilesAssumption DEF Declared

LEMMA BackedWhenKept ==
  ASSUME NEW f \in Files, Acceptable(f), pe = Parsed(f)
  PROVE  KeptAreBacked
<1> DEFINE im == Parsed(f).im
<1>1. Layout(im)
  BY ParsedImage
<1>2. /\ DOMAIN pe.dirs = DOMAIN Declared(f)
      /\ \A i \in DOMAIN pe.dirs :
           pe.dirs[i] = IF Kept(im, i, Declared(f)[i]) THEN Declared(f)[i] ELSE Nothing
  BY DEF Parsed
<1> SUFFICES ASSUME NEW i \in DOMAIN pe.dirs \ {Certificate}, NEW k \in 0 .. pe.dirs[i].size - 1
             PROVE  /\ RvaToOffset(im, pe.dirs[i].rva + k) = RvaToOffset(im, pe.dirs[i].rva) + k
                    /\ RvaToOffset(im, pe.dirs[i].rva + k) < im.size
                    /\ RvaToSection(im, pe.dirs[i].rva + k) = RvaToSection(im, pe.dirs[i].rva)
  BY Zenon DEF KeptAreBacked
<1> DEFINE d == Declared(f)[i]
<1>3. d \in Ranges
  BY <1>2, DeclaredAre
<1>4. d.rva \in Nat /\ d.size \in Nat
  BY <1>3 DEF Ranges
<1>5. pe.dirs[i] = d /\ Kept(im, i, d) /\ d.size # 0
  <2>1. Nothing.size = 0
    BY DEF Nothing
  <2>2. ~ (\E j \in 0 .. 0 - 1 : TRUE)
    OBVIOUS
  <2>3. pe.dirs[i].size # 0
    BY <2>2
  <2>4. QED
    BY <1>2, <2>1, <2>3
<1>6. RvaSlice(im, d.rva, d.size)
  BY <1>5 DEF Kept, Nothing
<1>7. QED
  BY <1>1, <1>4, <1>5, <1>6, SliceIsBacked


\* The notes that an image without a warning has not got.
LEMMA QuietNotes ==
  ASSUME NEW f \in Files, pe = Parsed(f), ~ Corrupt
  PROVE  /\ \A a \in TableNotes(f) \cup SectionNotes(f) : a.severity \notin {"high", "warn"}
         /\ \A i \in DOMAIN Declared(f) :
              \A a \in DirectoryNote(Parsed(f).im, i, Declared(f)[i]) :
                a.severity \notin {"high", "warn"}
<1>1. TableNotes(f) \subseteq pe.anomalies /\ SectionNotes(f) \subseteq pe.anomalies
  BY DEF Parsed
<1>2. \A i \in DOMAIN Declared(f) :
        DirectoryNote(Parsed(f).im, i, Declared(f)[i]) \subseteq pe.anomalies
  BY DEF Parsed
<1>3. QED
  BY <1>1, <1>2 DEF Corrupt

\* The sections of such an image are in the file, and neither their addresses
\* nor their bytes overlap.
LEMMA QuietSections ==
  ASSUME NEW f \in Files, Acceptable(f), pe = Parsed(f), ~ Corrupt
  PROVE  /\ \A i \in DOMAIN f.sections :
              f.sections[i].rsize # 0 => f.sections[i].raw + f.sections[i].rsize <= f.size
         /\ \A i, j \in DOMAIN f.sections :
              i # j => ~ (/\ f.sections[i].va < f.sections[j].va + Span(f.sections[j])
                          /\ f.sections[j].va < f.sections[i].va + Span(f.sections[i]))
         /\ \A i, j \in DOMAIN f.sections :
              /\ i # j /\ f.sections[i].rsize # 0 /\ f.sections[j].rsize # 0
              => ~ (/\ f.sections[i].raw < f.sections[j].raw + f.sections[j].rsize
                    /\ f.sections[j].raw < f.sections[i].raw + f.sections[i].rsize)
<1> DEFINE InFile(s) == s.rsize # 0 /\ s.raw + s.rsize <= f.size
           raws == [i \in {j \in DOMAIN f.sections : InFile(f.sections[j])} |->
                      [from |-> f.sections[i].raw, to |-> f.sections[i].raw + f.sections[i].rsize]]
           spans == [i \in DOMAIN f.sections |->
                       [from |-> f.sections[i].va, to |-> f.sections[i].va + Span(f.sections[i])]]
<1>1. \A a \in SectionNotes(f) : a.severity \notin {"high", "warn"}
  BY QuietNotes
<1>2. /\ Note("warn", "section-bounds").severity = "warn"
      /\ Note("warn", "section-overlap").severity = "warn"
      /\ Note("high", "virtual-overlap").severity = "high"
  BY DEF Note
<1>3. /\ (\E s \in Range(f.sections) : s.rsize # 0 /\ ~ InFile(s)) =>
           Note("warn", "section-bounds") \in SectionNotes(f)
      /\ Overlapping(raws) => Note("warn", "section-overlap") \in SectionNotes(f)
      /\ Overlapping(spans) => Note("high", "virtual-overlap") \in SectionNotes(f)
  BY Zenon DEF SectionNotes
<1>4. /\ ~ \E s \in Range(f.sections) : s.rsize # 0 /\ ~ InFile(s)
      /\ ~ Overlapping(raws) /\ ~ Overlapping(spans)
  BY <1>1, <1>2, <1>3
<1>5. \A i \in DOMAIN f.sections : f.sections[i].rsize # 0 => InFile(f.sections[i])
  BY <1>4 DEF Range
<1>6. QED
  BY <1>4, <1>5 DEF Overlapping

LEMMA OneOwner ==
  ASSUME NEW f \in Files, Acceptable(f), pe = Parsed(f), ~ Corrupt, NEW rva \in Nat
  PROVE  /\ Cardinality(Owners(pe.im, rva)) <= 1
         /\ \A i \in Owners(pe.im, rva) : Owners(pe.im, rva) = {i}
<1> DEFINE im == pe.im
<1>1. Layout(im) /\ im.sections = f.sections
  BY ParsedImage
<1>2. ASSUME NEW i \in Owners(im, rva), NEW j \in Owners(im, rva) PROVE i = j
  <2> DEFINE s == f.sections[i]
             t == f.sections[j]
  <2>1. /\ i \in DOMAIN f.sections /\ j \in DOMAIN f.sections
        /\ s \in SectionHeaders /\ t \in SectionHeaders
        /\ rva >= s.va /\ rva < s.va + Span(s) /\ rva >= t.va /\ rva < t.va + Span(t)
    BY <1>1, OwnersAre
  <2>2. s.va \in Nat /\ t.va \in Nat /\ Span(s) \in Nat /\ Span(t) \in Nat
    BY <2>1, SpanOf
  <2>3. s.va < t.va + Span(t) /\ t.va < s.va + Span(s)
    BY <2>1, <2>2
  <2>4. QED
    BY <2>1, <2>3, QuietSections
<1>3. IsFiniteSet(Owners(im, rva))
  BY <1>1, OwnersAre
<1>4. CASE Owners(im, rva) = {}
  BY <1>4, FS_EmptySet
<1>5. CASE \E i : i \in Owners(im, rva)
  <2>1. PICK i : Owners(im, rva) = {i}
    BY <1>2, <1>5
  <2>2. Cardinality(Owners(im, rva)) = 1
    BY <2>1, FS_Singleton
  <2>3. QED
    BY <2>1, <2>2
<1>6. QED
  BY <1>4, <1>5


\* In such an image the bytes of a section are at their addresses, and only there.
LEMMA OffsetOfByte ==
  ASSUME NEW f \in Files, Acceptable(f), pe = Parsed(f), ~ Corrupt,
         NEW i \in DOMAIN f.sections, NEW k \in 0 .. f.sections[i].rsize - 1,
         f.sections[i].va + k >= f.headers
  PROVE  RvaToOffset(pe.im, f.sections[i].va + k) = f.sections[i].raw + k
<1> DEFINE im == pe.im
           s == f.sections[i]
           rva == s.va + k
<1>1. Layout(im) /\ im.sections = f.sections /\ im.headers = f.headers /\ f.headers \in Nat
  BY ParsedImage
<1>2. s.va \in Nat /\ s.raw \in Nat /\ s.rsize \in Nat /\ Span(s) \in Nat /\ s.rsize <= Span(s)
  BY <1>1, OwnersAre, SpanOf
<1>3. rva \in Nat /\ rva >= s.va /\ rva < s.va + Span(s) /\ rva - s.va = k /\ ~ (k >= s.rsize)
  BY <1>2
<1>4. ~ (rva < im.headers)
  BY <1>1, <1>3
<1> HIDE DEF rva
<1>5. i \in Owners(im, rva)
  BY <1>1, <1>3, OwnersAre
<1>6. Owners(im, rva) = {i}
  BY <1>3, <1>5, OneOwner
<1>7. RvaToSection(im, rva) = i /\ i # None
  <2>1. RvaToSection(im, rva) = i
    BY <1>1, <1>3, <1>6, SectionOf
  <2>2. i \in Nat
    BY <1>1, <1>3, OwnersAre
  <2>3. QED
    BY <2>1, <2>2 DEF None
<1>8. RvaToOffset(im, rva) = s.raw + k
  BY <1>1, <1>3, <1>4, <1>7 DEF RvaToOffset
<1>9. QED
  BY <1>8 DEF rva

LEMMA AddressOfByte ==
  ASSUME NEW f \in Files, Acceptable(f), pe = Parsed(f), ~ Corrupt,
         NEW i \in DOMAIN f.sections, NEW k \in 0 .. f.sections[i].rsize - 1,
         f.sections[i].va + k >= f.headers
  PROVE  FileOffsetToRva(pe.im, f.sections[i].raw + k) = f.sections[i].va + k
<1> DEFINE im == pe.im
           s == f.sections[i]
           off == s.raw + k
           holders == {t \in Range(im.sections) : t.raw <= off /\ off < t.raw + t.rsize}
           rva == (CHOOSE t \in holders : TRUE).va + off - (CHOOSE t \in holders : TRUE).raw
<1>1. Layout(im) /\ im.sections = f.sections
  BY ParsedImage
<1>2. \A j \in DOMAIN f.sections :
        /\ f.sections[j].va \in Nat /\ f.sections[j].raw \in Nat /\ f.sections[j].rsize \in Nat
  BY <1>1, OwnersAre, SpanOf
<1>3. off \in Nat /\ s.raw <= off /\ off < s.raw + s.rsize /\ off - s.raw = k
  BY <1>2
<1>4. ASSUME NEW j \in DOMAIN f.sections,
             f.sections[j].raw <= off, off < f.sections[j].raw + f.sections[j].rsize
      PROVE  j = i
  <2> DEFINE t == f.sections[j]
  <2>1. t.raw \in Nat /\ t.rsize \in Nat /\ s.raw \in Nat /\ s.rsize \in Nat
    BY <1>2
  <2>2. t.rsize # 0 /\ s.rsize # 0 /\ t.raw < s.raw + s.rsize /\ s.raw < t.raw + t.rsize
    BY <1>3, <1>4, <2>1
  <2>3. QED
    BY <2>2, QuietSections
<1>5. {j \in DOMAIN im.sections : im.sections[j] \in holders} = {i}
  BY <1>1, <1>3, <1>4 DEF Range
<1>6. holders = {s}
  BY <1>1, <1>3, <1>4 DEF Range
<1>7. Cardinality({j \in DOMAIN im.sections : im.sections[j] \in holders}) = 1
  BY <1>5, FS_Singleton
<1>8. rva = s.va + k
  <2>1. (CHOOSE t \in holders : TRUE) = s
    BY <1>6
  <2>2. s.va + off - s.raw = s.va + k
    BY <1>2, <1>3
  <2>3. QED
    BY <2>1, <2>2
<1>9. RvaToOffset(im, rva) = off
  BY <1>8, OffsetOfByte
<1>10. FileOffsetToRva(im, off) = rva
  <2> HIDE DEF rva
  <2>1. FileOffsetToRva(im, off) =
          IF Cardinality({j \in DOMAIN im.sections : im.sections[j] \in holders}) # 1 THEN None
          ELSE IF RvaToOffset(im, rva) # off THEN None ELSE rva
    BY Zenon DEF FileOffsetToRva, rva
  <2>2. QED
    BY <1>7, <1>9, <2>1
<1>11. QED
  BY <1>8, <1>10

LEMMA DirectoriesWhole ==
  ASSUME NEW f \in Files, Acceptable(f), pe = Parsed(f), ~ Corrupt,
         NEW i \in DOMAIN f.dirs, i < f.declared
  PROVE  pe.dirs[i] = f.dirs[i] \/ i = Exception
<1> DEFINE im == Parsed(f).im
           d == Declared(f)[i]
<1>1. i \in DOMAIN Declared(f)
  BY DeclaredAre
<1>2. \A a \in TableNotes(f) \cup DirectoryNote(im, i, d) : a.severity \notin {"high", "warn"}
  BY <1>1, QuietNotes
<1>3. /\ Note("warn", "data-directory").severity = "warn"
      /\ Note("high", "data-directory").severity = "high"
      /\ Note("high", "data-directory-unavailable").severity = "high"
  BY DEF Note
<1>4. f.declared <= f.room /\ f.declared <= 16
  <2>1. f.declared \in Nat /\ f.room \in Nat
    BY FilesAssumption
  <2>2. ~ (f.room < Min({f.declared, 16})) /\ ~ (f.declared > 16)
    BY <1>2, <1>3 DEF TableNotes
  <2>3. /\ {f.declared, 16} \in SUBSET Nat
        /\ f.declared <= 16
    BY <2>1, <2>2
  <2>4. Min({f.declared, 16}) = f.declared
    BY <2>1, <2>3, LeastOf
  <2>5. QED
    BY <2>1, <2>2, <2>3, <2>4
<1>5. d = f.dirs[i]
  BY <1>4, DeclaredAre
<1>6. Kept(im, i, d) \/ Deferred(im, i, d)
  BY <1>2, <1>3, Zenon DEF DirectoryNote
<1>7. CASE Kept(im, i, d)
  BY <1>1, <1>5, <1>7 DEF Parsed
<1>8. CASE Deferred(im, i, d)
  BY <1>8 DEF Deferred
<1>9. QED
  BY <1>6, <1>7, <1>8

-----------------------------------------------------------------------------

\* Whatever the file, a directory that is kept is backed by bytes of one region, and an
\* image without a warning has its directories, one owner of each address, and offsets
\* and addresses that determine each other (parse_pe and the mappings of PeFile).
THEOREM LayoutStaysSound == LayoutSpec => []LayoutIsSound
<1> DEFINE Inv == /\ file \in Files
                  /\ pe \in {NotParsed, Rejected} \/ (Acceptable(file) /\ pe = Parsed(file))
<1>1. LayoutInit => Inv
  BY DEF LayoutInit
<1>2. Inv /\ [ParsePe]_layoutVars => Inv'
  BY DEF ParsePe, layoutVars
<1>3. Inv => LayoutIsSound
  <2>1. CASE pe \in {NotParsed, Rejected}
    BY <2>1 DEF LayoutIsSound, KeptAreBacked, QuietMeansWhole, IsParsed, NotParsed, Rejected
  <2>2. ASSUME file \in Files, Acceptable(file), pe = Parsed(file) PROVE LayoutIsSound
    <3>1. KeptAreBacked
      BY <2>2, BackedWhenKept
    <3>2. ASSUME ~ Corrupt PROVE QuietMeansWhole
      <4>1. pe.im.sections = file.sections
        BY <2>2, ParsedImage
      <4>2. \A i \in DOMAIN file.dirs : i < file.declared => pe.dirs[i] = file.dirs[i] \/ i = Exception
        BY <2>2, <3>2, DirectoriesWhole
      <4>3. \A rva \in 0 .. MaxAddress : Cardinality(Owners(pe.im, rva)) <= 1
        BY <2>2, <3>2, OneOwner
      <4>4. \A s \in Range(file.sections) : \A k \in 0 .. s.rsize - 1 :
              s.va + k >= file.headers =>
                /\ RvaToOffset(pe.im, s.va + k) = s.raw + k
                /\ FileOffsetToRva(pe.im, s.raw + k) = s.va + k
        BY <2>2, <3>2, OffsetOfByte, AddressOfByte DEF Range
      <4>5. QED
        BY <4>2, <4>3, <4>4 DEF QuietMeansWhole
    <3>3. QED
      BY <3>1, <3>2 DEF LayoutIsSound, QuietMeansWhole
  <2>3. QED
    BY <2>1, <2>2
<1>4. QED
  BY <1>1, <1>2, <1>3, PTL DEF LayoutSpec

-----------------------------------------------------------------------------
(* Sums.                                                                    *)

\* What sum says of T follows from what it says of T without a member.
SumRule(sum, w, T) ==
  sum[T] = IF T = {} THEN 0
           ELSE w[CHOOSE x \in T : TRUE] + sum[T \ {CHOOSE x \in T : TRUE}]

\* What is left of a set without one of its members is smaller.
LEMMA OneLess ==
  ASSUME NEW S, IsFiniteSet(S), NEW T \in SUBSET S, T # {}
  PROVE  LET x == CHOOSE x \in T : TRUE
         IN  /\ x \in T /\ x \in S /\ T \ {x} \in SUBSET S
             /\ Cardinality(T) \in Nat /\ Cardinality(T \ {x}) \in Nat
             /\ Cardinality(T \ {x}) + 1 = Cardinality(T)
<1> DEFINE x == CHOOSE x \in T : TRUE
<1>1. x \in T
  OBVIOUS
<1>2. IsFiniteSet(T)
  BY FS_Subset
<1> HIDE DEF x
<1>3. /\ IsFiniteSet(T \ {x}) /\ Cardinality(T) \in Nat /\ Cardinality(T \ {x}) \in Nat
  BY <1>2, FS_RemoveElement, FS_CardinalityType
<1>4. Cardinality(T \ {x}) = Cardinality(T) - 1
  BY <1>1, <1>2, FS_RemoveElement
<1>5. Cardinality(T \ {x}) + 1 = Cardinality(T)
  BY <1>3, <1>4
<1>6. QED
  BY <1>1, <1>3, <1>5 DEF x

\* A part of a finite set has a size.
LEMMA NoneIffZero ==
  ASSUME NEW S, IsFiniteSet(S), NEW T \in SUBSET S
  PROVE  /\ IsFiniteSet(T) /\ Cardinality(T) \in Nat
         /\ Cardinality(T) = 0 <=> T = {}
<1>1. IsFiniteSet(T)
  BY FS_Subset
<1>2. Cardinality(T) \in Nat
  BY <1>1, FS_CardinalityType
<1>3. Cardinality(T) = 0 <=> T = {}
  BY <1>1, FS_EmptySet, Zenon
<1>4. QED
  BY <1>1, <1>2, <1>3

\* There are sums over all parts of a finite set.
LEMMA SumExists ==
  ASSUME NEW S, IsFiniteSet(S), NEW w \in [S -> Nat]
  PROVE  \E sum \in [SUBSET S -> Nat] : \A T \in SUBSET S : SumRule(sum, w, T)
<1> DEFINE Parts(n) == {T \in SUBSET S : Cardinality(T) <= n}
           Sums(n) == {sum \in [Parts(n) -> Nat] : \A T \in Parts(n) : SumRule(sum, w, T)}
           E == {n \in Nat : Sums(n) # {}}
           One(T) == CHOOSE x \in T : TRUE
<1>1. \A T \in SUBSET S : Cardinality(T) \in Nat /\ (Cardinality(T) = 0 <=> T = {})
  BY NoneIffZero
<1>2. 0 \in E
  <2>1. \A T \in Parts(0) : T = {}
    BY <1>1
  <2>2. [T \in Parts(0) |-> 0] \in Sums(0)
    BY <2>1 DEF SumRule
  <2>3. QED
    BY <2>2
<1>3. ASSUME NEW n \in E PROVE n + 1 \in E
  <2>1. PICK sum \in Sums(n) : TRUE
    OBVIOUS
  <2> DEFINE next == [T \in Parts(n + 1) |->
                        IF T \in Parts(n) THEN sum[T] ELSE w[One(T)] + sum[T \ {One(T)}]]
  <2>2. n \in Nat
    OBVIOUS
  <2>3. ASSUME NEW T \in Parts(n + 1), T # {}
        PROVE  One(T) \in S /\ T \ {One(T)} \in Parts(n)
    BY <2>2, <2>3, <1>1, OneLess
  <2>4. ASSUME NEW T \in Parts(n + 1) PROVE next[T] \in Nat /\ SumRule(next, w, T)
    <3>1. CASE T \in Parts(n)
      <4>1. SumRule(sum, w, T) /\ next[T] = sum[T] /\ sum[T] \in Nat
        BY <2>1, <3>1
      <4>2. T # {} => T \ {One(T)} \in Parts(n) /\ T \ {One(T)} \in Parts(n + 1)
        BY <2>2, <2>3, <1>1
      <4>3. T # {} => next[T \ {One(T)}] = sum[T \ {One(T)}]
        BY <4>2
      <4>4. QED
        BY <4>1, <4>3 DEF SumRule
    <3>2. CASE T \notin Parts(n)
      <4>1. T # {}
        BY <2>2, <3>2, <1>1
      <4>2. One(T) \in S /\ T \ {One(T)} \in Parts(n) /\ T \ {One(T)} \in Parts(n + 1)
        BY <2>2, <2>3, <4>1, <1>1
      <4>3. next[T] = w[One(T)] + sum[T \ {One(T)}] /\ next[T \ {One(T)}] = sum[T \ {One(T)}]
        BY <3>2, <4>2
      <4>4. w[One(T)] \in Nat /\ sum[T \ {One(T)}] \in Nat
        BY <4>2, <2>1
      <4>5. QED
        BY <4>1, <4>3, <4>4 DEF SumRule
    <3>3. QED
      BY <3>1, <3>2
  <2>5. next \in Sums(n + 1)
    BY <2>4
  <2> HIDE DEF next, Sums
  <2>6. n + 1 \in Nat /\ Sums(n + 1) # {}
    BY <2>2, <2>5
  <2>7. QED
    BY <2>6
<1>4. E = Nat
  <2> HIDE DEF E
  <2> E \in SUBSET Nat
    BY DEF E
  <2> QED
    BY <1>2, <1>3, AllNumbers
<1>5. Cardinality(S) \in Nat /\ Parts(Cardinality(S)) = SUBSET S
  <2>1. Cardinality(S) \in Nat
    BY <1>1
  <2>2. \A T \in SUBSET S : Cardinality(T) <= Cardinality(S)
    BY FS_Subset
  <2>3. QED
    BY <2>1, <2>2
<1>6. Sums(Cardinality(S)) # {}
  <2> HIDE DEF Sums
  <2>1. Cardinality(S) \in E
    BY <1>4, <1>5
  <2>2. QED
    BY <2>1
<1>7. QED
  BY <1>5, <1>6

\* SumFunction adds what a function says of one member after another.
LEMMA SumIs ==
  ASSUME NEW S, IsFiniteSet(S), NEW w \in [S -> Nat]
  PROVE  \E sum \in [SUBSET S -> Nat] :
           /\ SumFunction(w) = sum[S]
           /\ \A T \in SUBSET S : SumRule(sum, w, T)
<1> DEFINE Def(sum) == sum = [T \in SUBSET S |->
             IF T = {} THEN 0 ELSE LET x == CHOOSE x \in T : TRUE IN w[x] + sum[T \ {x}]]
<1>1. SumFunction(w) = (CHOOSE sum : Def(sum))[S]
  BY DEF SumFunction, SumFunctionOnSet, FoldFunctionOnSet, MapThenFoldSet
<1>2. PICK sum \in [SUBSET S -> Nat] : \A T \in SUBSET S : SumRule(sum, w, T)
  BY SumExists
<1>3. Def(sum)
  BY <1>2 DEF SumRule
<1> DEFINE chosen == CHOOSE s : Def(s)
<1> HIDE DEF Def
<1>4. Def(chosen)
  BY <1>3, Zenon
<1> HIDE DEF chosen
<1> USE DEF Def
<1>5. \A T \in SUBSET S : SumRule(chosen, w, T)
  BY <1>4 DEF SumRule
<1>6. DOMAIN chosen = SUBSET S /\ chosen = [T \in SUBSET S |-> chosen[T]]
  BY <1>4
<1>7. \A T \in SUBSET S : chosen[T] \in Nat
  <2> DEFINE E == {n \in Nat : \A T \in SUBSET S : Cardinality(T) = n => chosen[T] \in Nat}
  <2>1. 0 \in E
    <3>1. \A T \in SUBSET S : Cardinality(T) = 0 => T = {}
      BY NoneIffZero
    <3>2. QED
      BY <3>1, <1>5 DEF SumRule
  <2>2. ASSUME NEW n \in E PROVE n + 1 \in E
    <3>1. SUFFICES ASSUME NEW T \in SUBSET S, Cardinality(T) = n + 1 PROVE chosen[T] \in Nat
      OBVIOUS
    <3> DEFINE x == CHOOSE x \in T : TRUE
    <3>2. n \in Nat /\ T # {}
      BY <3>1, NoneIffZero
    <3>3. x \in S /\ T \ {x} \in SUBSET S /\ Cardinality(T \ {x}) = n
      BY <3>1, <3>2, OneLess
    <3>4. chosen[T \ {x}] \in Nat /\ w[x] \in Nat
      BY <3>3
    <3>5. chosen[T] = w[x] + chosen[T \ {x}]
      BY <1>5, <3>2 DEF SumRule
    <3>6. QED
      BY <3>4, <3>5
  <2>3. E = Nat
    <3> HIDE DEF E
    <3> E \in SUBSET Nat
      BY DEF E
    <3> QED
      BY <2>1, <2>2, AllNumbers
  <2>4. \A T \in SUBSET S : Cardinality(T) \in Nat
    BY FS_Subset, FS_CardinalityType
  <2>5. QED
    BY <2>3, <2>4
<1>8. chosen \in [SUBSET S -> Nat]
  BY <1>6, <1>7
<1>9. QED
  BY <1>1, <1>5, <1>8 DEF chosen

\* A sum of numbers is a number, positive if they are.
LEMMA SumIsNumber ==
  ASSUME NEW S, IsFiniteSet(S), NEW w \in [S -> Nat]
  PROVE  /\ SumFunction(w) \in Nat
         /\ S # {} /\ (\A x \in S : w[x] > 0) => SumFunction(w) > 0
<1>1. PICK sum \in [SUBSET S -> Nat] :
           /\ SumFunction(w) = sum[S]
           /\ \A T \in SUBSET S : SumRule(sum, w, T)
  BY SumIs
<1>2. SumFunction(w) \in Nat
  BY <1>1
<1>3. ASSUME S # {}, \A x \in S : w[x] > 0 PROVE SumFunction(w) > 0
  <2> DEFINE x == CHOOSE x \in S : TRUE
  <2>1. x \in S /\ S \ {x} \in SUBSET S
    BY <1>3
  <2>2. sum[S] = w[x] + sum[S \ {x}]
    BY <1>1, <1>3 DEF SumRule
  <2>3. w[x] > 0 /\ w[x] \in Nat /\ sum[S \ {x}] \in Nat
    BY <1>1, <1>3, <2>1
  <2>4. QED
    BY <1>1, <2>2, <2>3
<1>4. QED
  BY <1>2, <1>3

\* A bound, or a factor, of every term is one of the sum.
LEMMA SumsCompare ==
  ASSUME NEW S, IsFiniteSet(S), NEW w \in [S -> Nat], NEW v \in [S -> Nat],
         \A x \in S : v[x] <= 100 * w[x]
  PROVE  /\ SumFunction(v) <= 100 * SumFunction(w)
         /\ (\A x \in S : v[x] = 100 * w[x]) => SumFunction(v) = 100 * SumFunction(w)
<1>1. PICK sum \in [SUBSET S -> Nat] :
           SumFunction(w) = sum[S] /\ \A T \in SUBSET S : SumRule(sum, w, T)
  BY SumIs
<1>2. PICK tot \in [SUBSET S -> Nat] :
           SumFunction(v) = tot[S] /\ \A T \in SUBSET S : SumRule(tot, v, T)
  BY SumIs
<1> DEFINE Fits(T) == /\ tot[T] <= 100 * sum[T]
                      /\ (\A x \in S : v[x] = 100 * w[x]) => tot[T] = 100 * sum[T]
           E == {n \in Nat : \A T \in SUBSET S : Cardinality(T) = n => Fits(T)}
<1>3. 0 \in E
  <2>1. \A T \in SUBSET S : Cardinality(T) = 0 => T = {}
    BY NoneIffZero
  <2>2. tot[{}] = 0 /\ sum[{}] = 0
    BY <1>1, <1>2 DEF SumRule
  <2>3. Fits({})
    BY <2>2
  <2> HIDE DEF Fits
  <2>4. QED
    BY <2>1, <2>3
<1>4. ASSUME NEW n \in E PROVE n + 1 \in E
  <2>1. SUFFICES ASSUME NEW T \in SUBSET S, Cardinality(T) = n + 1 PROVE Fits(T)
    OBVIOUS
  <2> DEFINE x == CHOOSE x \in T : TRUE
  <2>2. n \in Nat /\ T # {}
    BY <2>1, NoneIffZero
  <2>3. x \in S /\ T \ {x} \in SUBSET S /\ Cardinality(T \ {x}) = n
    BY <2>1, <2>2, OneLess
  <2>4. Fits(T \ {x})
    BY <2>3
  <2>5. sum[T] = w[x] + sum[T \ {x}] /\ tot[T] = v[x] + tot[T \ {x}]
    BY <1>1, <1>2, <2>2 DEF SumRule
  <2>6. /\ sum[T \ {x}] \in Nat /\ tot[T \ {x}] \in Nat /\ w[x] \in Nat /\ v[x] \in Nat
        /\ v[x] <= 100 * w[x]
    BY <1>1, <1>2, <2>3
  <2> HIDE DEF x
  <2>7. QED
    BY <2>3, <2>4, <2>5, <2>6
<1>5. E = Nat
  <2> HIDE DEF E
  <2> E \in SUBSET Nat
    BY DEF E
  <2> QED
    BY <1>3, <1>4, AllNumbers
<1>6. Cardinality(S) \in Nat /\ S \in SUBSET S
  BY FS_CardinalityType
<1>7. Fits(S)
  BY <1>5, <1>6
<1>8. QED
  BY <1>1, <1>2, <1>7

-----------------------------------------------------------------------------
(* What is taken.                                                           *)

\* K holds whoever has no rival in it.
Settled(K, S, rivals) == \A x \in S : x \in K <=> \A y \in rivals[x] : y \notin K

\* Where rivals come before, there is such a set.
LEMMA SettledExists ==
  ASSUME NEW S, NEW rivals \in [S -> SUBSET S], NEW N \in Nat, NEW rank \in [S -> 0 .. N],
         \A x \in S : \A y \in rivals[x] : rank[y] < rank[x]
  PROVE  \E K \in SUBSET S : Settled(K, S, rivals)
<1> DEFINE Low(n) == {x \in S : rank[x] < n}
           E == {n \in Nat : \E K \in SUBSET Low(n) : Settled(K, Low(n), rivals)}
<1>1. \A x \in S : rank[x] \in Nat /\ rank[x] <= N /\ rivals[x] \in SUBSET S
  OBVIOUS
<1>2. 0 \in E
  <2>1. Low(0) = {}
    BY <1>1
  <2>2. Settled({}, {}, rivals)
    BY DEF Settled
  <2>3. QED
    BY <2>1, <2>2
<1>3. ASSUME NEW n \in E PROVE n + 1 \in E
  <2>1. PICK K \in SUBSET Low(n) : Settled(K, Low(n), rivals)
    OBVIOUS
  <2> DEFINE M == K \cup {x \in Low(n + 1) \ Low(n) : \A y \in rivals[x] : y \notin K}
  <2>2. n \in Nat /\ K \subseteq Low(n) /\ Low(n) \subseteq Low(n + 1)
    BY <1>1
  <2>3. ASSUME NEW x \in Low(n + 1) PROVE rivals[x] \subseteq Low(n)
    BY <1>1, <2>2
  <2>4. ASSUME NEW x \in Low(n) PROVE x \in M <=> x \in K
    BY <2>4
  <2>5. ASSUME NEW x \in Low(n + 1) PROVE (\A y \in rivals[x] : y \notin M) <=> \A y \in rivals[x] : y \notin K
    BY <2>3, <2>4
  <2>6. ASSUME NEW x \in Low(n + 1) PROVE x \in M <=> \A y \in rivals[x] : y \notin M
    <3>1. CASE x \in Low(n)
      <4>1. x \in K <=> \A y \in rivals[x] : y \notin K
        BY <2>1, <3>1 DEF Settled
      <4>2. QED
        BY <2>4, <2>5, <3>1, <4>1
    <3>2. CASE x \notin Low(n)
      <4>1. x \notin K
        BY <2>2, <3>2
      <4>2. QED
        BY <2>5, <3>2, <4>1
    <3>3. QED
      BY <3>1, <3>2
  <2>7. M \in SUBSET Low(n + 1)
    BY <2>2
  <2> HIDE DEF M, Low
  <2>8. Settled(M, Low(n + 1), rivals)
    BY <2>6 DEF Settled
  <2>9. n + 1 \in Nat
    BY <2>2
  <2>10. QED
    BY <2>7, <2>8, <2>9
<1>4. E = Nat
  <2> HIDE DEF E
  <2> E \in SUBSET Nat
    BY DEF E
  <2> QED
    BY <1>2, <1>3, AllNumbers
<1>5. Low(N + 1) = S
  BY <1>1
<1> HIDE DEF Low
<1>6. N + 1 \in E
  BY <1>4
<1>7. QED
  BY <1>5, <1>6

\* It is what Taken is.
LEMMA TakenIsSettled ==
  ASSUME NEW S, NEW rivals \in [S -> SUBSET S], NEW N \in Nat, NEW rank \in [S -> 0 .. N],
         \A x \in S : \A y \in rivals[x] : rank[y] < rank[x]
  PROVE  Taken(S, rivals) \in SUBSET S /\ Settled(Taken(S, rivals), S, rivals)
<1> DEFINE Def(taken) == taken = [x \in S |-> \A y \in rivals[x] : ~ taken[y]]
           taken == CHOOSE t : Def(t)
<1>1. PICK K \in SUBSET S : Settled(K, S, rivals)
  BY SettledExists
<1>2. \A x \in S : rivals[x] \subseteq S
  OBVIOUS
<1>3. Def([x \in S |-> x \in K])
  <2> DEFINE t == [x \in S |-> x \in K]
  <2>1. ASSUME NEW x \in S PROVE x \in K <=> \A y \in rivals[x] : ~ t[y]
    <3>1. x \in K <=> \A y \in rivals[x] : y \notin K
      BY <1>1 DEF Settled
    <3>2. \A y \in rivals[x] : t[y] = (y \in K)
      BY <1>2
    <3>3. QED
      BY <3>1, <3>2
  <2>2. t = [x \in S |-> x \in K]
    OBVIOUS
  <2> HIDE DEF t
  <2> DEFINE u == [x \in S |-> \A y \in rivals[x] : ~ t[y]]
  <2>3. ASSUME NEW x \in S PROVE u[x] = t[x]
    <3>1. t[x] \in BOOLEAN
      BY <2>2
    <3>2. t[x] <=> x \in K
      BY <2>2, Zenon
    <3>3. u[x] \in BOOLEAN
      OBVIOUS
    <3>4. u[x] <=> \A y \in rivals[x] : ~ t[y]
      BY Zenon
    <3> HIDE DEF u
    <3>5. u[x] <=> t[x]
      BY <2>1, <3>2, <3>4
    <3>6. QED
      BY <3>1, <3>3, <3>5
  <2>4. t = u
    <3>1. u = [x \in S |-> u[x]] /\ t = [x \in S |-> t[x]]
      BY <2>2
    <3> HIDE DEF u
    <3>2. QED
      BY <2>3, <3>1
  <2>5. QED
    BY <2>2, <2>4
<1> HIDE DEF Def
<1>4. Def(taken)
  BY <1>3, Zenon
<1>5. Taken(S, rivals) = {x \in S : taken[x]}
  BY DEF Taken, Def
<1> HIDE DEF taken
<1>6. ASSUME NEW x \in S PROVE taken[x] <=> \A y \in rivals[x] : ~ taken[y]
  BY <1>4, Zenon DEF Def
<1>7. ASSUME NEW x \in S PROVE x \in Taken(S, rivals) <=> \A y \in rivals[x] : y \notin Taken(S, rivals)
  BY <1>2, <1>5, <1>6, Zenon
<1>8. QED
  BY <1>5, <1>7 DEF Settled

-----------------------------------------------------------------------------
(* The greedy matching.                                                     *)

\* Functions of one image.
Discovered(L) ==
  /\ IsFiniteSet(L)
  /\ \A f \in L : f.rva \in Nat /\ f.size \in Nat /\ f.fuzzy \in Nat
  /\ \A f, g \in L : f.rva = g.rva => f = g

\* Pairs of a function of one image with one of another.
Pairing(C, L, R) ==
  /\ IsFiniteSet(C)
  /\ \A c \in C : /\ c.left \in L /\ c.right \in R /\ c.score \in 0 .. 100
                  /\ c = [left |-> c.left, right |-> c.right, score |-> c.score]
  /\ \A c, d \in C : c.left = d.left /\ c.right = d.right => c = d

Shares(c, d) == c.left = d.left \/ c.right = d.right

\* Best orders the pairs.
LEMMA BestOrders ==
  ASSUME NEW L, NEW R, Discovered(L), Discovered(R), NEW C, Pairing(C, L, R)
  PROVE  /\ \A c \in C : ~ Best(c, c)
         /\ \A c, d, e \in C : Best(c, d) /\ Best(d, e) => Best(c, e)
         /\ \A c, d \in C : c = d \/ Best(c, d) \/ Best(d, c)
<1>1. \A c \in C : /\ c.score \in Int /\ c.left.rva \in Nat /\ c.right.rva \in Nat
                   /\ c.left \in L /\ c.right \in R
  BY DEF Discovered, Pairing
<1>2. \A c \in C : ~ Best(c, c)
  BY <1>1 DEF Best
<1>3. \A c, d, e \in C : Best(c, d) /\ Best(d, e) => Best(c, e)
  BY <1>1 DEF Best
<1>4. ASSUME NEW c \in C, NEW d \in C, ~ Best(c, d), ~ Best(d, c) PROVE c = d
  <2>1. c.score = d.score /\ c.left.rva = d.left.rva /\ c.right.rva = d.right.rva
    BY <1>1, <1>4 DEF Best
  <2>2. c.left = d.left /\ c.right = d.right
    BY <1>1, <2>1 DEF Discovered
  <2>3. QED
    BY <2>2 DEF Pairing
<1>5. QED
  BY <1>2, <1>3, <1>4

\* How many pairs are better than a pair.
Rank(C) == [c \in C |-> Cardinality({d \in C : Best(d, c)})]

\* A better pair has a lower rank.
LEMMA RankFollowsBest ==
  ASSUME NEW L, NEW R, Discovered(L), Discovered(R), NEW C, Pairing(C, L, R)
  PROVE  /\ Cardinality(C) \in Nat /\ Rank(C) \in [C -> 0 .. Cardinality(C)]
         /\ \A c, d \in C : Best(d, c) => Rank(C)[d] < Rank(C)[c]
<1> DEFINE Better(c) == {d \in C : Best(d, c)}
<1>1. IsFiniteSet(C) /\ Cardinality(C) \in Nat
  BY FS_CardinalityType DEF Pairing
<1>2. \A c \in C : /\ IsFiniteSet(Better(c)) /\ Cardinality(Better(c)) \in Nat
                   /\ Cardinality(Better(c)) <= Cardinality(C)
  <2>1. SUFFICES ASSUME NEW c \in C
                 PROVE  /\ IsFiniteSet(Better(c)) /\ Cardinality(Better(c)) \in Nat
                        /\ Cardinality(Better(c)) <= Cardinality(C)
    OBVIOUS
  <2>2. Better(c) \in SUBSET C
    OBVIOUS
  <2> HIDE DEF Better
  <2>3. QED
    BY <1>1, <2>2, FS_Subset, FS_CardinalityType
<1>3. ASSUME NEW c \in C, NEW d \in C, Best(d, c)
      PROVE  Cardinality(Better(d)) < Cardinality(Better(c))
  <2>1. Better(d) \in SUBSET Better(c) /\ d \in Better(c) /\ d \notin Better(d)
    BY <1>3, BestOrders
  <2>2. Better(d) # Better(c)
    BY <2>1
  <2> HIDE DEF Better
  <2>3. /\ Cardinality(Better(d)) <= Cardinality(Better(c))
        /\ Cardinality(Better(d)) # Cardinality(Better(c))
    BY <1>2, <2>1, <2>2, FS_Subset
  <2>4. QED
    BY <1>2, <2>3
<1>4. \A c \in C : Rank(C)[c] = Cardinality(Better(c))
  BY DEF Rank
<1>5. Rank(C) \in [C -> 0 .. Cardinality(C)]
  BY <1>1, <1>2 DEF Rank
<1> HIDE DEF Better
<1>6. QED
  BY <1>1, <1>3, <1>4, <1>5

\* A pair is matched unless a better pair that shares a function is.
LEMMA GreedyRule ==
  ASSUME NEW L, NEW R, Discovered(L), Discovered(R), NEW C, Pairing(C, L, R)
  PROVE  /\ Greedy(C) \in SUBSET C
         /\ \A c \in C :
              c \in Greedy(C) <=> \A d \in C : Best(d, c) /\ Shares(d, c) => d \notin Greedy(C)
<1> DEFINE rivals == [c \in C |-> {d \in C : Best(d, c) /\ (d.left = c.left \/ d.right = c.right)}]
<1>1. rivals \in [C -> SUBSET C]
  OBVIOUS
<1>2. \A c \in C : \A d \in rivals[c] : Rank(C)[d] < Rank(C)[c]
  BY RankFollowsBest
<1>3. \A c, d \in C : d \in rivals[c] <=> Best(d, c) /\ Shares(d, c)
  BY DEF Shares
<1>4. Greedy(C) = Taken(C, rivals)
  BY DEF Greedy
<1> HIDE DEF rivals
<1>5. Greedy(C) \in SUBSET C /\ Settled(Greedy(C), C, rivals)
  BY <1>1, <1>2, <1>4, RankFollowsBest, TakenIsSettled
<1>6. ASSUME NEW c \in C
      PROVE  c \in Greedy(C) <=> \A d \in C : Best(d, c) /\ Shares(d, c) => d \notin Greedy(C)
  <2>1. c \in Greedy(C) <=> \A d \in rivals[c] : d \notin Greedy(C)
    BY <1>5 DEF Settled
  <2>2. rivals[c] \in SUBSET C
    BY <1>1
  <2>3. QED
    BY <1>3, <2>1, <2>2
<1>7. QED
  BY <1>5, <1>6

\* So each function is matched once.
LEMMA MatchedOnce ==
  ASSUME NEW L, NEW R, Discovered(L), Discovered(R), NEW C, Pairing(C, L, R),
         NEW c \in Greedy(C), NEW d \in Greedy(C), Shares(c, d)
  PROVE  c = d
<1>1. c \in C /\ d \in C
  BY GreedyRule
<1>2. Shares(d, c)
  BY DEF Shares
<1>3. ~ Best(c, d) /\ ~ Best(d, c)
  BY <1>1, <1>2, GreedyRule
<1>4. QED
  BY <1>1, <1>3, BestOrders

\* There are no more matches than functions.
LEMMA NoMoreThanFunctions ==
  ASSUME NEW L, NEW R, Discovered(L), Discovered(R), NEW C, Pairing(C, L, R)
  PROVE  Cardinality(Greedy(C)) \in 0 .. Cardinality(L)
<1> DEFINE M == Greedy(C)
           f == [m \in M |-> m.left]
<1>1. IsFiniteSet(L) /\ Cardinality(L) \in Nat
  BY FS_CardinalityType DEF Discovered
<1>2. \A m \in M : m.left \in L
  BY GreedyRule DEF Pairing
<1>3. \A m, n \in M : m.left = n.left => m = n
  BY MatchedOnce DEF Shares
<1> HIDE DEF M
<1>4. f \in [M -> L] /\ \A m, n \in M : f[m] = f[n] => m = n
  BY <1>2, <1>3
<1>5. f \in Injection(M, L)
  BY <1>4 DEF Injection, IsInjective
<1>6. IsFiniteSet(M) /\ Cardinality(M) <= Cardinality(L)
  BY <1>1, <1>5, FS_Injection
<1>7. QED
  BY <1>1, <1>6, FS_CardinalityType DEF M

-----------------------------------------------------------------------------
(* An image and itself.                                                     *)

\* If every function can be paired with itself, and this is worth 100, it is.
LEMMA OwnPairsWin ==
  ASSUME NEW L, Discovered(L), NEW C, Pairing(C, L, L), \A f \in L : Own(f) \in C
  PROVE  Greedy(C) = {Own(f) : f \in L}
<1>1. \A f \in L : /\ Own(f) \in C /\ Own(f).left = f /\ Own(f).right = f
                   /\ Own(f).score = 100 /\ f.rva \in Nat
  BY DEF Own, Discovered
<1>2. \A f \in L : Own(f) \in Greedy(C)
  <2> DEFINE Bad == {f \in L : Own(f) \notin Greedy(C)}
             Rvas == {f.rva : f \in Bad}
  <2>1. SUFFICES ASSUME Bad # {} PROVE FALSE
    OBVIOUS
  <2>2. Rvas \in SUBSET Nat /\ Rvas # {}
    BY <1>1, <2>1
  <2>3. PICK a \in Rvas : \A b \in Rvas : a <= b
    BY <2>2, LeastNumber
  <2>4. PICK f \in Bad : f.rva = a
    OBVIOUS
  <2>5. \A g \in L : g.rva < f.rva => Own(g) \in Greedy(C)
    <3>1. SUFFICES ASSUME NEW g \in Bad, g.rva < f.rva PROVE FALSE
      OBVIOUS
    <3>2. a <= g.rva /\ a \in Nat /\ g.rva \in Nat
      BY <2>2, <2>3, <1>1
    <3>3. QED
      BY <2>4, <3>1, <3>2
  <2>6. PICK d \in C : Best(d, Own(f)) /\ Shares(d, Own(f)) /\ d \in Greedy(C)
    BY <1>1, GreedyRule
  <2>7. d.left \in L /\ d.right \in L /\ d.score \in 0 .. 100
    BY DEF Pairing
  <2>8. /\ d.left.rva < f.rva \/ (d.left.rva = f.rva /\ d.right.rva < f.rva)
        /\ d.left = f \/ d.right = f
    BY <1>1, <2>6, <2>7 DEF Best, Shares
  <2>9. PICK g \in L : (d.left = g \/ d.right = g) /\ g.rva < f.rva
    BY <2>7, <2>8
  <2>10. Own(g) \in Greedy(C) /\ Shares(d, Own(g))
    BY <1>1, <2>5, <2>9 DEF Shares
  <2>11. d = Own(g)
    BY <2>6, <2>10, MatchedOnce
  <2>12. d.left = g /\ d.right = g
    BY <1>1, <2>11
  <2>13. QED
    BY <1>1, <2>8, <2>9, <2>12
<1>3. ASSUME NEW c \in Greedy(C) PROVE \E f \in L : c = Own(f)
  <2>1. c.left \in L
    BY GreedyRule DEF Pairing
  <2>2. Shares(c, Own(c.left))
    BY <1>1, <2>1 DEF Shares
  <2>3. QED
    BY <1>2, <2>1, <2>2, MatchedOnce
<1>4. QED
  BY <1>2, <1>3

-----------------------------------------------------------------------------
(* Two images in either order.                                              *)

Swapped(c) == [left |-> c.right, right |-> c.left, score |-> c.score]

\* Of two pairs that share a function, the same is better in either order.
LEMMA BestSwaps ==
  ASSUME NEW L, NEW R, Discovered(L), Discovered(R), NEW C, Pairing(C, L, R),
         NEW c \in C, NEW d \in C, Shares(c, d)
  PROVE  (Best(c, d) <=> Best(Swapped(c), Swapped(d))) /\ Shares(Swapped(c), Swapped(d))
<1>1. /\ c.score \in Int /\ c.left.rva \in Nat /\ c.right.rva \in Nat
      /\ d.score \in Int /\ d.left.rva \in Nat /\ d.right.rva \in Nat
  BY DEF Discovered, Pairing
<1>2. /\ Swapped(c).left = c.right /\ Swapped(c).right = c.left /\ Swapped(c).score = c.score
      /\ Swapped(d).left = d.right /\ Swapped(d).right = d.left /\ Swapped(d).score = d.score
  BY DEF Swapped
<1>3. CASE c.left = d.left
  BY <1>1, <1>2, <1>3 DEF Best, Shares
<1>4. CASE c.right = d.right
  BY <1>1, <1>2, <1>4 DEF Best, Shares
<1>5. QED
  BY <1>3, <1>4 DEF Shares

\* If the candidates are the same in either order, so are the matches.
LEMMA GreedySwaps ==
  ASSUME NEW L, NEW R, Discovered(L), Discovered(R), NEW C, NEW D, Pairing(C, L, R), Pairing(D, R, L),
         \A c \in C : Swapped(c) \in D, \A d \in D : Swapped(d) \in C
  PROVE  \A c \in C : c \in Greedy(C) <=> Swapped(c) \in Greedy(D)
<1> DEFINE Bad == {c \in C : ~ (c \in Greedy(C) <=> Swapped(c) \in Greedy(D))}
           Ranks == {Rank(C)[c] : c \in Bad}
<1>1. SUFFICES ASSUME Bad # {} PROVE FALSE
  OBVIOUS
<1>2. \A c \in C : Rank(C)[c] \in Nat
  BY RankFollowsBest
<1>3. Ranks \in SUBSET Nat /\ Ranks # {}
  BY <1>1, <1>2
<1>4. PICK n \in Ranks : \A m \in Ranks : n <= m
  BY <1>3, LeastNumber
<1>5. PICK c \in Bad : Rank(C)[c] = n
  OBVIOUS
<1>6. ASSUME NEW e \in C, Best(e, c) PROVE e \in Greedy(C) <=> Swapped(e) \in Greedy(D)
  <2>1. SUFFICES ASSUME e \in Bad PROVE FALSE
    OBVIOUS
  <2>2. n <= Rank(C)[e]
    BY <1>4, <2>1
  <2>3. Rank(C)[e] < Rank(C)[c]
    BY <1>6, RankFollowsBest
  <2>4. Rank(C)[e] \in Nat /\ Rank(C)[c] \in Nat
    BY <1>2
  <2>5. QED
    BY <1>5, <2>2, <2>3, <2>4
<1>7. c \in C /\ Swapped(c) \in D
  OBVIOUS
<1>8. CASE c \in Greedy(C) /\ Swapped(c) \notin Greedy(D)
  <2>1. PICK d \in D : Best(d, Swapped(c)) /\ Shares(d, Swapped(c)) /\ d \in Greedy(D)
    BY <1>7, <1>8, GreedyRule
  <2>2. Swapped(d) \in C /\ Swapped(Swapped(d)) = d /\ Swapped(Swapped(c)) = c
    BY <1>7 DEF Swapped, Pairing
  <2>3. Best(Swapped(d), c) /\ Shares(Swapped(d), c)
    BY <1>7, <2>1, <2>2, BestSwaps
  <2>4. Swapped(d) \in Greedy(C)
    BY <1>6, <2>1, <2>2, <2>3
  <2>5. QED
    BY <1>7, <1>8, <2>2, <2>3, <2>4, GreedyRule
<1>9. CASE c \notin Greedy(C) /\ Swapped(c) \in Greedy(D)
  <2>1. PICK e \in C : Best(e, c) /\ Shares(e, c) /\ e \in Greedy(C)
    BY <1>7, <1>9, GreedyRule
  <2>2. Swapped(e) \in D /\ Swapped(e) \in Greedy(D)
    BY <1>6, <2>1
  <2>3. Best(Swapped(e), Swapped(c)) /\ Shares(Swapped(e), Swapped(c))
    BY <1>7, <2>1, BestSwaps
  <2>4. QED
    BY <1>7, <1>9, <2>2, <2>3, GreedyRule
<1>10. QED
  BY <1>8, <1>9

-----------------------------------------------------------------------------
(* Candidates.                                                              *)

\* What a comparison is of.
ComparisonTyped ==
  /\ left \in Binaries /\ right \in Binaries
  /\ mean \in [{{f.code, g.code} : f, g \in left \cup right} -> Means]
  /\ options \in Thresholds

\* Some functions of one of the images.
Part(L) == L \in SUBSET left \/ L \in SUBSET right

LEMMA PartsAreDiscovered ==
  ASSUME ComparisonTyped, NEW L, Part(L)
  PROVE  Discovered(L) /\ L \subseteq left \cup right
<1>1. ASSUME NEW B \in Binaries, L \in SUBSET B PROVE Discovered(L)
  <2>1. IsFiniteSet(L)
    BY <1>1, BinariesAssumption, FS_Subset
  <2>2. \A f \in L : f.rva \in Nat /\ f.size \in Nat /\ f.fuzzy \in Nat
    BY <1>1, BinariesAssumption
  <2>3. \A f, g \in L : f.rva = g.rva => f = g
    BY <1>1, BinariesAssumption
  <2>4. QED
    BY <2>1, <2>2, <2>3 DEF Discovered
<1>2. QED
  BY <1>1 DEF ComparisonTyped, Part

LEMMA ProfilesAreParts == Part(Profile(left)) /\ Part(Profile(right))
<1>1. \A fs : Profile(fs) \subseteq fs
  BY DEF Profile, Pruned, Taken, Truncated
<1>2. QED
  BY <1>1 DEF Part

LEMMA MinScoreIs ==
  ASSUME ComparisonTyped
  PROVE  MinScore \in 0 .. 100
<1>1. options.threshold \in 0 .. 100
  BY LimitsAssumption DEF ComparisonTyped
<1>2. options.threshold \in Int /\ 50 \in Int
  BY <1>1
<1>3. Min({options.threshold, 50}) \in {options.threshold, 50}
  BY <1>2, TwoNumbers
<1>4. QED
  BY <1>1, <1>3 DEF MinScore

LEMMA AbsIs ==
  ASSUME NEW m \in Int, NEW n \in Int
  PROVE  Abs(m - n) \in Nat /\ Abs(m - n) = Abs(n - m)
  BY DEF Abs

\* The score of a pair does not depend on its order, and that of a function with
\* itself is the highest.
LEMMA ScoreIs ==
  ASSUME ComparisonTyped, NEW l \in left \cup right, NEW r \in left \cup right, NEW data
  PROVE  /\ Score(l, r, data) \in 0 .. 100
         /\ Score(l, l, data) = 100
         /\ Score(l, r, "image") = Score(r, l, "image")
<1>1. mean[{l.code, r.code}] \in 0 .. 100 /\ {l.code, r.code} = {r.code, l.code}
  <2>1. \E f, g \in left \cup right : {l.code, r.code} = {f.code, g.code}
    OBVIOUS
  <2>2. mean[{l.code, r.code}] \in Means
    BY <2>1 DEF ComparisonTyped
  <2>3. QED
    BY <2>2, LimitsAssumption
<1>2. l.fuzzy \in Nat /\ r.fuzzy \in Nat
  BY PartsAreDiscovered DEF Part, Discovered
<1> DEFINE near == (5 * (64 - Abs(l.fuzzy - r.fuzzy)) + 2) \div 4
           fuzzy == Min({79, near})
<1>3. near \in Int /\ 79 \in Int
  BY <1>2, AbsIs
<1> HIDE DEF near
<1>4. fuzzy \in Int /\ fuzzy <= 79
  BY <1>3, TwoNumbers
<1> DEFINE base == mean[{l.code, r.code}]
           raised ==
             IF l.code = r.code THEN (IF l.size = r.size THEN 100 ELSE Max({base, 98}))
             ELSE IF l.shape = r.shape /\ l.api = r.api THEN Max({base, 86})
             ELSE IF l.shape = r.shape THEN Max({base, 80})
             ELSE IF data = "index" THEN Max({base, fuzzy}) ELSE base
<1>5. Score(l, r, data) \in 0 .. 100
  <2>1. Score(l, r, data) \in {raised, Min({raised, 72})}
    BY DEF Score, near
  <2> HIDE DEF fuzzy, base
  <2>2. base \in 0 .. 100 /\ base \in Int /\ 98 \in Int /\ 86 \in Int /\ 80 \in Int /\ 72 \in Int
    BY <1>1 DEF base
  <2>3. /\ Max({base, 98}) \in {base, 98} /\ Max({base, 86}) \in {base, 86}
        /\ Max({base, 80}) \in {base, 80}
        /\ Max({base, fuzzy}) \in {base, fuzzy} /\ Max({base, fuzzy}) >= base
    BY <1>4, <2>2, TwoNumbers
  <2>4. raised \in 0 .. 100
    BY <1>4, <2>2, <2>3
  <2> HIDE DEF raised
  <2>5. raised \in Int
    BY <2>4
  <2>6. Min({raised, 72}) \in {raised, 72}
    BY <2>2, <2>5, TwoNumbers
  <2>7. QED
    BY <2>1, <2>4, <2>6
<1>6. Score(l, l, data) = 100
  BY DEF Score
<1>7. Score(l, r, "image") = Score(r, l, "image")
  BY <1>1 DEF Score
<1>8. QED
  BY <1>5, <1>6, <1>7

\* The pairs of two images with their scores.
LEMMA PairsArePairing ==
  ASSUME ComparisonTyped, NEW L, NEW R, Part(L), Part(R), NEW data,
         NEW C \in SUBSET Pairs(L, R, data)
  PROVE  Pairing(C, L, R)
<1>1. L \subseteq left \cup right /\ R \subseteq left \cup right /\ IsFiniteSet(L) /\ IsFiniteSet(R)
  BY PartsAreDiscovered DEF Discovered
<1>2. ASSUME NEW c \in C
      PROVE  \E l \in L, r \in R : /\ c = [left |-> l, right |-> r, score |-> Score(l, r, data)]
                                   /\ Score(l, r, data) \in 0 .. 100
  <2>1. PICK l \in L, r \in R : c = Pair(l, r, data)
    BY DEF Pairs
  <2>2. Score(l, r, data) \in 0 .. 100
    BY <1>1, ScoreIs
  <2>3. QED
    BY <2>1, <2>2 DEF Pair
<1>3. \A c \in C : /\ c.left \in L /\ c.right \in R /\ c.score \in 0 .. 100
                   /\ c = [left |-> c.left, right |-> c.right, score |-> c.score]
                   /\ c.score = Score(c.left, c.right, data)
  BY <1>2
<1>4. ASSUME NEW c \in C, NEW d \in C, c.left = d.left, c.right = d.right PROVE c = d
  <2>1. c.score = d.score
    BY <1>3, <1>4
  <2>2. QED
    BY <1>3, <1>4, <2>1
<1>5. IsFiniteSet(C)
  <2> DEFINE at == [c \in C |-> <<c.left, c.right>>]
  <2>1. at \in [C -> L \X R]
    BY <1>3
  <2>2. \A c, d \in C : at[c] = at[d] => c = d
    BY <1>4
  <2>3. at \in Injection(C, L \X R)
    BY <2>1, <2>2 DEF Injection, IsInjective
  <2>4. IsFiniteSet(L \X R)
    BY <1>1, FS_Product
  <2>5. QED
    BY <2>3, <2>4, FS_Injection
<1>6. QED
  BY <1>3, <1>4, <1>5 DEF Pairing

LEMMA CandidatesArePairing ==
  ASSUME ComparisonTyped, NEW L, NEW R, Part(L), Part(R), NEW minScore
  PROVE  Pairing(Candidates(L, R, minScore), L, R) /\ Pairing(IndexedCandidates(L, R), L, R)
<1>1. Candidates(L, R, minScore) \in SUBSET Pairs(L, R, "image")
  BY DEF Candidates
<1>2. IndexedCandidates(L, R) \in SUBSET Pairs(L, R, "index")
  BY DEF IndexedCandidates
<1>3. QED
  BY <1>1, <1>2, PairsArePairing

\* A function is always a candidate for itself.
LEMMA OwnAreCandidates ==
  ASSUME ComparisonTyped, NEW L, Part(L), NEW f \in L, NEW minScore \in 0 .. 100
  PROVE  Own(f) \in Candidates(L, L, minScore) /\ Own(f) \in IndexedCandidates(L, L)
<1>1. f \in left \cup right
  BY PartsAreDiscovered
<1>2. Own(f) = Pair(f, f, "image") /\ Own(f) = Pair(f, f, "index")
  BY <1>1, ScoreIs DEF Own, Pair
<1>3. Own(f).left = f /\ Own(f).right = f /\ Own(f).score = 100
  BY DEF Own
<1>4. Plausible(f, f)
  BY DEF Plausible
<1>5. f \in Considered(f, L, L)
  BY DEF Considered, Bucketed
<1>6. 100 >= minScore /\ 100 >= MinScore
  BY MinScoreIs
<1>7. Own(f) \in Pairs(L, L, "image") /\ Own(f) \in Pairs(L, L, "index")
  BY <1>2 DEF Pairs
<1>8. QED
  BY <1>3, <1>4, <1>5, <1>6, <1>7 DEF Candidates, IndexedCandidates

\* An image matched with itself.
LEMMA OwnMatches ==
  ASSUME ComparisonTyped, NEW L, Part(L), NEW minScore \in 0 .. 100
  PROVE  /\ Greedy(Candidates(L, L, minScore)) = {Own(f) : f \in L}
         /\ Greedy(IndexedCandidates(L, L)) = {Own(f) : f \in L}
<1>1. Discovered(L)
  BY PartsAreDiscovered
<1>2. Pairing(Candidates(L, L, minScore), L, L) /\ Pairing(IndexedCandidates(L, L), L, L)
  BY CandidatesArePairing
<1>3. \A f \in L : Own(f) \in Candidates(L, L, minScore) /\ Own(f) \in IndexedCandidates(L, L)
  BY OwnAreCandidates
<1>4. QED
  BY <1>1, <1>2, <1>3, OwnPairsWin

\* A pair is a candidate in either order, unless the buckets admit it in one.
LEMMA CandidatesSwap ==
  ASSUME ComparisonTyped, NEW L, NEW R, Part(L), Part(R), NEW minScore, ~ OneSided(L, R),
         NEW c \in Candidates(L, R, minScore)
  PROVE  Swapped(c) \in Candidates(R, L, minScore)
<1>1. PICK l \in L, r \in R : c = Pair(l, r, "image")
  BY DEF Candidates, Pairs
<1>2. l \in left \cup right /\ r \in left \cup right
  BY PartsAreDiscovered
<1>3. c.left = l /\ c.right = r /\ c.score = Score(l, r, "image")
  BY <1>1 DEF Pair
<1>4. r \in Considered(l, L, R) /\ Plausible(l, r) /\ c.score >= minScore
  BY <1>3 DEF Candidates
<1>5. Swapped(c) = Pair(r, l, "image")
  BY <1>2, <1>3, ScoreIs DEF Swapped, Pair
<1>6. l \in Considered(r, R, L)
  BY <1>4 DEF OneSided
<1>7. Plausible(r, l)
  <2>1. SameName(l, r) <=> SameName(r, l)
    BY DEF SameName, Named
  <2>2. {l.size, r.size} = {r.size, l.size}
    OBVIOUS
  <2>3. \A p : SizeRatio(l, r, p) <=> SizeRatio(r, l, p)
    BY <2>2 DEF SizeRatio
  <2>4. Abs(l.fuzzy - r.fuzzy) = Abs(r.fuzzy - l.fuzzy)
    BY <1>2, PartsAreDiscovered, AbsIs DEF Part, Discovered
  <2>5. QED
    BY <1>4, <2>1, <2>3, <2>4 DEF Plausible
<1>8. Swapped(c).left = r /\ Swapped(c).right = l /\ Swapped(c).score = c.score
  BY <1>3 DEF Swapped
<1>9. Swapped(c) \in Pairs(R, L, "image")
  BY <1>5 DEF Pairs
<1>10. QED
  BY <1>4, <1>6, <1>7, <1>8, <1>9 DEF Candidates

\* So the matches are the same pairs in either order.
LEMMA MatchesSwap ==
  ASSUME ComparisonTyped, NEW L, NEW R, Part(L), Part(R), NEW minScore, ~ OneSided(L, R)
  PROVE  {<<m.right, m.left>> : m \in Greedy(Candidates(L, R, minScore))}
           = {<<m.left, m.right>> : m \in Greedy(Candidates(R, L, minScore))}
<1> DEFINE C == Candidates(L, R, minScore)
           D == Candidates(R, L, minScore)
<1>1. Discovered(L) /\ Discovered(R) /\ Pairing(C, L, R) /\ Pairing(D, R, L)
  BY PartsAreDiscovered, CandidatesArePairing
<1>2. ~ OneSided(R, L)
  BY DEF OneSided
<1>3. (\A c \in C : Swapped(c) \in D) /\ (\A d \in D : Swapped(d) \in C)
  BY <1>2, CandidatesSwap
<1>4. Greedy(C) \in SUBSET C /\ Greedy(D) \in SUBSET D
  BY <1>1, GreedyRule
<1>5. \A c \in C : c \in Greedy(C) <=> Swapped(c) \in Greedy(D)
  BY <1>1, <1>3, GreedySwaps
<1>6. \A d \in D : d \in Greedy(D) <=> Swapped(d) \in Greedy(C)
  BY <1>1, <1>3, GreedySwaps
<1>7. \A c : Swapped(c).left = c.right /\ Swapped(c).right = c.left
  BY DEF Swapped
<1> HIDE DEF C, D
<1>8. \A c \in Greedy(C) : \E d \in Greedy(D) : <<c.right, c.left>> = <<d.left, d.right>>
  BY <1>4, <1>5, <1>7
<1>9. \A d \in Greedy(D) : \E c \in Greedy(C) : <<c.right, c.left>> = <<d.left, d.right>>
  BY <1>4, <1>6, <1>7
<1>10. {<<m.right, m.left>> : m \in Greedy(C)} = {<<m.left, m.right>> : m \in Greedy(D)}
  BY <1>8, <1>9
<1>11. QED
  BY <1>10 DEF C, D

-----------------------------------------------------------------------------
(* Summaries.                                                               *)

LEMMA WeightIs ==
  ASSUME NEW L, Discovered(L), NEW f \in L
  PROVE  Weight(f) \in Nat /\ Weight(f) > 0
<1>1. f.size \in Nat /\ f.size \in Int /\ 1 \in Int
  BY DEF Discovered
<1>2. Max({f.size, 1}) \in {f.size, 1} /\ Max({f.size, 1}) >= 1
  BY <1>1, TwoNumbers
<1>3. QED
  BY <1>1, <1>2 DEF Weight

LEMMA BytesAre ==
  ASSUME NEW L, Discovered(L)
  PROVE  Bytes(L) \in Nat /\ (L # {} => Bytes(L) > 0)
<1> DEFINE w == [f \in L |-> Weight(f)]
<1>1. w \in [L -> Nat] /\ IsFiniteSet(L) /\ \A f \in L : w[f] > 0
  BY WeightIs DEF Discovered
<1>2. Bytes(L) = SumFunction(w)
  BY DEF Bytes
<1> HIDE DEF w
<1>3. QED
  BY <1>1, <1>2, SumIsNumber

LEMMA PairingPart ==
  ASSUME NEW C, NEW L, NEW R, Pairing(C, L, R), NEW D \in SUBSET C
  PROVE  Pairing(D, L, R)
<1>1. IsFiniteSet(D)
  BY FS_Subset DEF Pairing
<1>2. QED
  BY <1>1 DEF Pairing

LEMMA DiscoveredPart ==
  ASSUME NEW L, Discovered(L), NEW S \in SUBSET L
  PROVE  Discovered(S)
<1>1. IsFiniteSet(S)
  BY FS_Subset DEF Discovered
<1>2. QED
  BY <1>1 DEF Discovered

\* An average score is a score, the highest if nothing scores less.
LEMMA AverageIs ==
  ASSUME NEW L, NEW R, Discovered(L), Discovered(R), NEW M, Pairing(M, L, R), NEW rest \in Nat
  PROVE  /\ Average(M, rest) \in 0 .. 100
         /\ M # {} /\ rest = 0 /\ (\A m \in M : m.score = 100) => Average(M, rest) = 100
<1> DEFINE w == [m \in M |-> PairWeight(m)]
           v == [m \in M |-> PairWeight(m) * m.score]
           total == SumFunction(w) + rest
<1>1. \A m \in M : PairWeight(m) \in Nat /\ PairWeight(m) > 0 /\ m.score \in 0 .. 100
  BY WeightIs DEF Pairing, PairWeight
<1>2. \A p \in Nat, s \in 0 .. 100 : /\ p * s \in Nat /\ p * s <= 100 * p
                                     /\ s = 100 => p * s = 100 * p
  BY SMTT(30)
<1>3. \A m \in M : /\ PairWeight(m) * m.score \in Nat
                   /\ PairWeight(m) * m.score <= 100 * PairWeight(m)
                   /\ m.score = 100 => PairWeight(m) * m.score = 100 * PairWeight(m)
  BY <1>1, <1>2
<1>4. /\ w \in [M -> Nat] /\ v \in [M -> Nat] /\ IsFiniteSet(M)
      /\ \A m \in M : w[m] > 0 /\ v[m] <= 100 * w[m] /\ (m.score = 100 => v[m] = 100 * w[m])
  BY <1>1, <1>3 DEF Pairing
<1>5. Average(M, rest) = IF total = 0 THEN 0 ELSE Rounded(SumFunction(v), total)
  BY DEF Average
<1> HIDE DEF w, v
<1>6. /\ SumFunction(w) \in Nat /\ SumFunction(v) \in Nat
      /\ M # {} => SumFunction(w) > 0
      /\ SumFunction(v) <= 100 * SumFunction(w)
      /\ (\A m \in M : m.score = 100) => SumFunction(v) = 100 * SumFunction(w)
  BY <1>4, SumIsNumber, SumsCompare
<1>7. total \in Nat /\ SumFunction(v) <= 100 * total
  BY <1>6
<1>8. CASE total = 0
  <2>1. SumFunction(w) = 0
    <3>1. SumFunction(w) \in Nat /\ SumFunction(w) + rest = 0
      BY <1>6, <1>8
    <3>2. QED
      BY <3>1
  <2>2. M = {}
    BY <1>6, <2>1
  <2>3. Average(M, rest) = 0
    BY <1>5, <1>8
  <2>4. QED
    BY <2>2, <2>3
<1>9. CASE total # 0
  <2>1. total \in Nat \ {0}
    BY <1>7, <1>9
  <2>2. Rounded(SumFunction(v), total) \in 0 .. 100
    BY <1>6, <1>7, <2>1, RoundedBound
  <2>3. ASSUME rest = 0, \A m \in M : m.score = 100 PROVE Rounded(SumFunction(v), total) = 100
    <3>1. SumFunction(v) = 100 * total
      BY <1>6, <2>3
    <3>2. QED
      BY <1>6, <1>7, <2>1, <3>1, RoundedBound
  <2>4. QED
    BY <1>5, <1>9, <2>2, <2>3
<1>10. QED
  BY <1>8, <1>9

\* The scores of a summary are scores.
LEMMA SummaryScores ==
  ASSUME NEW L, NEW R, Discovered(L), Discovered(R), NEW M, Pairing(M, L, R)
  PROVE  UniqueScore(L, R, M) \in 0 .. 100 /\ Similarity(L, R, M) \in 0 .. 100
<1>1. Discovered(Unique(L \ Lefts(M))) /\ Discovered(Unique(R \ Rights(M)))
  BY DiscoveredPart DEF Unique
<1>2. Bytes(Unique(L \ Lefts(M))) + Bytes(Unique(R \ Rights(M))) \in Nat
  BY <1>1, BytesAre
<1>3. Pairing(M \ Noisy(M), L, R)
  BY PairingPart
<1>4. UniqueScore(L, R, M) \in 0 .. 100
  BY <1>2, <1>3, AverageIs DEF UniqueScore
<1>5. Raw(M) \in 0 .. 100
  BY AverageIs DEF Raw
<1>6. /\ 3 * UniqueScore(L, R, M) + Raw(M) \in Nat /\ 4 \in Nat \ {0}
      /\ 3 * UniqueScore(L, R, M) + Raw(M) <= 100 * 4
  BY <1>4, <1>5
<1>7. Rounded(3 * UniqueScore(L, R, M) + Raw(M), 4) \in 0 .. 100
  BY <1>6, RoundedBound
<1>8. QED
  BY <1>4, <1>5, <1>7 DEF Similarity

\* And there are as many of them as functions.
LEMMA OwnAreAsMany ==
  ASSUME NEW L, Discovered(L)
  PROVE  Cardinality({Own(f) : f \in L}) = Cardinality(L)
<1> DEFINE M == {Own(f) : f \in L}
           own == [f \in L |-> Own(f)]
<1>1. IsFiniteSet(L)
  BY DEF Discovered
<1>2. own \in [L -> M] /\ \A f, g \in L : own[f] = own[g] => f = g
  BY DEF Own
<1>3. \A m \in M : \E f \in L : own[f] = m
  OBVIOUS
<1>4. ExistsBijection(L, M)
  BY <1>2, <1>3 DEF ExistsBijection, Bijection, Injection, Surjection, IsInjective
<1>5. QED
  BY <1>1, <1>4, FS_Bijection

\* An image and itself are alike.
LEMMA OwnSummary ==
  ASSUME NEW L, Discovered(L), NEW M, Pairing(M, L, L), M = {Own(f) : f \in L}
  PROVE  /\ Lefts(M) = L /\ Rights(M) = L
         /\ L # {} => Similarity(L, L, M) = 100 /\ Coverage(Bytes(L), Bytes(L)) = 100
         /\ Unique(L) # {} => UniqueScore(L, L, M) = 100
<1>1. \A f \in L : Own(f).left = f /\ Own(f).right = f /\ Own(f).score = 100
  BY DEF Own
<1>2. Lefts(M) = L /\ Rights(M) = L
  BY <1>1 DEF Lefts, Rights
<1>3. \A m \in M : m.score = 100
  BY <1>1
<1>4. Bytes(Unique(L \ Lefts(M))) + Bytes(Unique(L \ Rights(M))) = 0
  <2>1. Unique(L \ Lefts(M)) = {} /\ Unique(L \ Rights(M)) = {}
    BY <1>2 DEF Unique
  <2>2. Bytes({}) = 0
    <3> DEFINE w == [f \in {} |-> Weight(f)]
    <3>1. w \in [{} -> Nat] /\ IsFiniteSet({})
      BY FS_EmptySet
    <3>2. PICK sum \in [SUBSET {} -> Nat] : SumFunction(w) = sum[{}] /\ SumRule(sum, w, {})
      BY <3>1, SumIs
    <3>3. QED
      BY <3>2 DEF Bytes, SumRule
  <2>3. Bytes(Unique(L \ Lefts(M))) = 0 /\ Bytes(Unique(L \ Rights(M))) = 0
    BY <2>1, <2>2, Zenon
  <2>4. QED
    BY <2>3
<1>5. Pairing(M \ Noisy(M), L, L)
  BY PairingPart
<1>6. UniqueScore(L, L, M) = Average(M \ Noisy(M), 0)
  BY <1>4 DEF UniqueScore
<1>7. M \ Noisy(M) # {} => UniqueScore(L, L, M) = 100
  BY <1>3, <1>5, <1>6, AverageIs
<1>8. M \ Noisy(M) = {} => UniqueScore(L, L, M) = 0
  <2>1. SUFFICES ASSUME M \ Noisy(M) = {} PROVE Average({}, 0) = 0
    BY <1>6
  <2> DEFINE w == [m \in {} |-> PairWeight(m)]
  <2>2. w \in [{} -> Nat] /\ IsFiniteSet({})
    BY FS_EmptySet
  <2>3. PICK sum \in [SUBSET {} -> Nat] : SumFunction(w) = sum[{}] /\ SumRule(sum, w, {})
    BY <2>2, SumIs
  <2>4. SumFunction(w) = 0
    BY <2>3 DEF SumRule
  <2>5. QED
    BY <2>4 DEF Average
<1>9. Unique(L) # {} => M \ Noisy(M) # {}
  <2>1. SUFFICES ASSUME NEW f \in L, ~ Noise(f) PROVE Own(f) \in M \ Noisy(M)
    BY DEF Unique
  <2>2. QED
    BY <1>1, <2>1 DEF Noisy
<1>10. ASSUME L # {} PROVE Similarity(L, L, M) = 100 /\ Coverage(Bytes(L), Bytes(L)) = 100
  <2>1. M # {}
    BY <1>10
  <2>2. Raw(M) = 100
    BY <1>3, <2>1, AverageIs DEF Raw
  <2>3. Rounded(3 * 100 + 100, 4) = 100
    <3>1. 3 * 100 + 100 \in Nat /\ 4 \in Nat \ {0} /\ 3 * 100 + 100 = 100 * 4
      OBVIOUS
    <3>2. QED
      BY <3>1, RoundedBound
  <2>4. Similarity(L, L, M) = 100
    <3>1. UniqueScore(L, L, M) \in {0, 100}
      BY <1>7, <1>8
    <3>2. QED
      BY <2>2, <2>3, <3>1 DEF Similarity
  <2>5. Bytes(L) \in Nat \ {0}
    BY <1>10, BytesAre
  <2>6. 100 * Bytes(L) \in Nat
    BY <2>5
  <2>7. Rounded(100 * Bytes(L), Bytes(L)) = 100
    BY <2>5, <2>6, RoundedBound
  <2>8. QED
    BY <2>4, <2>5, <2>7 DEF Coverage
<1>11. QED
  BY <1>2, <1>7, <1>9, <1>10

\* The values of a function on a finite set.
LEMMA ValuesAreFinite ==
  ASSUME NEW S, IsFiniteSet(S), NEW f, DOMAIN f = S
  PROVE  IsFiniteSet({f[x] : x \in S})
<1> DEFINE T == {f[x] : x \in S}
           g == [x \in S |-> f[x]]
<1>1. g \in Surjection(S, T)
  BY DEF Surjection
<1>2. QED
  BY <1>1, FS_Surjection

LEMMA MetadataIsFinite ==
  ASSUME NEW L, Discovered(L)
  PROVE  IsFiniteSet(ImportsOf(L)) /\ IsFiniteSet(ExportsOf(L)) /\ IsFiniteSet(StringsOf(L))
<1>1. IsFiniteSet(L)
  BY DEF Discovered
<1>2. IsFiniteSet(ImportsOf(L))
  <2> DEFINE api == [f \in L |-> f.api]
  <2>1. IsFiniteSet({api[f] : f \in L})
    BY <1>1, ValuesAreFinite
  <2>2. ImportsOf(L) \in SUBSET {api[f] : f \in L}
    BY DEF ImportsOf
  <2>3. QED
    BY <2>1, <2>2, FS_Subset
<1>3. IsFiniteSet(ExportsOf(L))
  <2> DEFINE name == [f \in L |-> f.name]
  <2>1. IsFiniteSet({name[f] : f \in L})
    BY <1>1, ValuesAreFinite
  <2>2. ExportsOf(L) \in SUBSET {name[f] : f \in L}
    BY DEF ExportsOf
  <2>3. QED
    BY <2>1, <2>2, FS_Subset
<1>4. IsFiniteSet(StringsOf(L))
  <2> DEFINE code == [f \in L |-> f.code]
  <2>1. IsFiniteSet({code[f] : f \in L})
    BY <1>1, ValuesAreFinite
  <2>2. StringsOf(L) \in SUBSET {code[f] : f \in L}
    BY DEF StringsOf
  <2>3. QED
    BY <2>1, <2>2, FS_Subset
<1>5. QED
  BY <1>2, <1>3, <1>4

\* The similarity of two sets is a score, the highest for equal sets.
LEMMA JaccardIs ==
  ASSUME NEW A, NEW B, IsFiniteSet(A), IsFiniteSet(B)
  PROVE  Jaccard(A, B) \in 0 .. 100 /\ Jaccard(A, A) = 100
<1>1. ASSUME NEW S, NEW T, IsFiniteSet(S), IsFiniteSet(T), S \cup T # {}
      PROVE  /\ Cardinality(S \cap T) \in Nat /\ Cardinality(S \cup T) \in Nat \ {0}
             /\ Cardinality(S \cap T) <= Cardinality(S \cup T)
  <2>1. IsFiniteSet(S \cup T) /\ S \cap T \in SUBSET (S \cup T)
    BY <1>1, FS_Union
  <2>2. IsFiniteSet(S \cap T) /\ Cardinality(S \cap T) <= Cardinality(S \cup T)
    BY <2>1, FS_Subset
  <2>3. Cardinality(S \cap T) \in Nat /\ Cardinality(S \cup T) \in Nat
    BY <2>1, <2>2, FS_CardinalityType
  <2>4. Cardinality(S \cup T) # 0
    BY <1>1, <2>1, FS_EmptySet, Zenon
  <2>5. QED
    BY <2>2, <2>3, <2>4
<1>2. Jaccard(A, B) \in 0 .. 100
  <2>1. CASE A \cup B = {}
    BY <2>1 DEF Jaccard
  <2>2. CASE A \cup B # {}
    <3> DEFINE m == Cardinality(A \cap B)
               n == Cardinality(A \cup B)
    <3>1. m \in Nat /\ n \in Nat \ {0} /\ m <= n
      BY <1>1, <2>2
    <3>2. Jaccard(A, B) = Rounded(100 * m, n)
      BY <2>2 DEF Jaccard
    <3> HIDE DEF m, n
    <3>3. 100 * m \in Nat /\ 100 * m <= 100 * n
      BY <3>1
    <3>4. QED
      BY <3>1, <3>2, <3>3, RoundedBound
  <2>3. QED
    BY <2>1, <2>2
<1>3. Jaccard(A, A) = 100
  <2>1. CASE A = {}
    BY <2>1 DEF Jaccard
  <2>2. CASE A # {}
    <3> DEFINE n == Cardinality(A)
    <3>1. A \cup A = A /\ A \cap A = A
      OBVIOUS
    <3>2. n \in Nat \ {0}
      BY <1>1, <2>2, <3>1
    <3>3. Jaccard(A, A) = Rounded(100 * n, n)
      BY <2>2, <3>1 DEF Jaccard
    <3> HIDE DEF n
    <3>4. 100 * n \in Nat
      BY <3>2
    <3>5. QED
      BY <3>2, <3>3, <3>4, RoundedBound
  <2>3. QED
    BY <2>1, <2>2
<1>4. QED
  BY <1>2, <1>3

LEMMA MetadataIs ==
  ASSUME NEW L, NEW R, Discovered(L), Discovered(R)
  PROVE  Metadata(L, R) \in 0 .. 100 /\ Metadata(L, L) = 100
<1>1. ASSUME NEW a \in 0 .. 100, NEW b \in 0 .. 100, NEW c \in 0 .. 100
      PROVE  /\ Rounded(45 * a + 35 * b + 20 * c, 100) \in 0 .. 100
             /\ a = 100 /\ b = 100 /\ c = 100 => Rounded(45 * a + 35 * b + 20 * c, 100) = 100
  <2> DEFINE n == 45 * a + 35 * b + 20 * c
  <2>1. n \in Nat /\ n <= 100 * 100 /\ 100 \in Nat \ {0}
        /\ (a = 100 /\ b = 100 /\ c = 100 => n = 100 * 100)
    OBVIOUS
  <2> HIDE DEF n
  <2>2. Rounded(n, 100) \in 0 .. 100 /\ (a = 100 /\ b = 100 /\ c = 100 => Rounded(n, 100) = 100)
    BY <2>1, RoundedBound
  <2>3. QED
    BY <2>2 DEF n
<1>2. /\ Jaccard(ImportsOf(L), ImportsOf(R)) \in 0 .. 100
      /\ Jaccard(ExportsOf(L), ExportsOf(R)) \in 0 .. 100
      /\ Jaccard(StringsOf(L), StringsOf(R)) \in 0 .. 100
      /\ Jaccard(ImportsOf(L), ImportsOf(L)) = 100
      /\ Jaccard(ExportsOf(L), ExportsOf(L)) = 100
      /\ Jaccard(StringsOf(L), StringsOf(L)) = 100
  BY MetadataIsFinite, JaccardIs
<1>3. Metadata(L, R) \in 0 .. 100
  BY <1>1, <1>2, Zenon DEF Metadata
<1>4. Metadata(L, L) = 100
  <2>1. Rounded(45 * 100 + 35 * 100 + 20 * 100, 100) = 100
    <3>1. /\ 45 * 100 + 35 * 100 + 20 * 100 = 100 * 100 /\ 100 * 100 \in Nat
          /\ 100 \in Nat \ {0} /\ 100 * 100 <= 100 * 100
      OBVIOUS
    <3>2. QED
      BY <3>1, RoundedBound
  <2>2. QED
    BY <1>2, <2>1, Zenon DEF Metadata
<1>5. QED
  BY <1>3, <1>4

-----------------------------------------------------------------------------
(* The corpus.                                                              *)

\* What hunt makes of an image that it lists.
LEMMA HuntedIs ==
  ASSUME ComparisonTyped, NEW L, NEW R, Part(L), Part(R), NEW path \in Nat,
         NEW c \in Hunted(L, path, R)
  PROVE  /\ Hunted(L, path, R) = {c} /\ c.path = path
         /\ c.score \in 0 .. 100 /\ c.unique \in 0 .. 100 /\ c.matched \in 0 .. Cardinality(L)
<1> DEFINE M == Greedy(IndexedCandidates(L, R))
           u == UniqueScore(L, R, M)
           s == Similarity(L, R, M)
           n == 70 * s + 20 * u + 10 * Metadata(L, R)
           hit == [path |-> path, score |-> Rounded(n, 100), unique |-> u,
                   matched |-> Cardinality(M), matches |-> M]
<1>1. Discovered(L) /\ Discovered(R) /\ Pairing(IndexedCandidates(L, R), L, R)
  BY PartsAreDiscovered, CandidatesArePairing
<1>2. Pairing(M, L, R)
  BY <1>1, GreedyRule, PairingPart
<1>3. u \in 0 .. 100 /\ s \in 0 .. 100 /\ Metadata(L, R) \in 0 .. 100 /\ Cardinality(M) \in 0 .. Cardinality(L)
  <2>1. u \in 0 .. 100 /\ s \in 0 .. 100
    BY <1>1, <1>2, SummaryScores
  <2>2. Metadata(L, R) \in 0 .. 100
    BY <1>1, MetadataIs
  <2>3. Cardinality(M) \in 0 .. Cardinality(L)
    BY <1>1, NoMoreThanFunctions
  <2>4. QED
    BY <2>1, <2>2, <2>3
<1>4. Hunted(L, path, R) \in SUBSET {hit}
  BY DEF Hunted, Summary
<1> HIDE DEF M, u, s
<1>5. n \in Nat /\ n <= 100 * 100 /\ 100 \in Nat \ {0}
  BY <1>3
<1> HIDE DEF n
<1>6. Rounded(n, 100) \in 0 .. 100
  BY <1>5, RoundedBound
<1>7. c = hit
  BY <1>4
<1>8. Hunted(L, path, R) = {c}
  BY <1>4, <1>7
<1>9. QED
  BY <1>3, <1>6, <1>7, <1>8

\* The image itself is listed, with every score at its most, unless it is noise.
LEMMA SelfIsHunted ==
  ASSUME ComparisonTyped, NEW L, Part(L), Unique(L) # {}, NEW path \in Nat
  PROVE  Hunted(L, path, L) = {OwnHit(L, path)}
<1> DEFINE M == Greedy(IndexedCandidates(L, L))
           u == UniqueScore(L, L, M)
           s == Similarity(L, L, M)
           n == 70 * s + 20 * u + 10 * Metadata(L, L)
           hit == [path |-> path, score |-> Rounded(n, 100), unique |-> u,
                   matched |-> Cardinality(M), matches |-> M]
<1>1. Discovered(L) /\ Pairing(IndexedCandidates(L, L), L, L)
  BY PartsAreDiscovered, CandidatesArePairing
<1>2. Pairing(M, L, L)
  BY <1>1, GreedyRule, PairingPart
<1>3. M = {Own(f) : f \in L}
  <2>1. 0 \in 0 .. 100
    OBVIOUS
  <2>2. QED
    BY <2>1, OwnMatches
<1>4. L # {} /\ M # {}
  BY <1>3 DEF Unique
<1>5. u = 100 /\ s = 100 /\ Metadata(L, L) = 100
  BY <1>1, <1>2, <1>3, <1>4, OwnSummary, MetadataIs
<1>6. ~ (M = {} \/ (Rounded(n, 100) < MinScore /\ u < MinScore)) => Hunted(L, path, L) = {hit}
  BY DEF Hunted, Summary
<1> HIDE DEF M, u, s
<1>7. n \in Nat /\ n = 100 * 100 /\ 100 \in Nat \ {0} /\ n <= 100 * 100
  BY <1>5
<1> HIDE DEF n
<1>8. Rounded(n, 100) = 100
  BY <1>7, RoundedBound
<1>9. ~ (u < MinScore)
  BY <1>5, MinScoreIs
<1>10. Hunted(L, path, L) = {hit}
  BY <1>4, <1>6, <1>9
<1>11. Cardinality(M) = Cardinality(L)
  BY <1>1, <1>3, OwnAreAsMany DEF M
<1>12. hit = OwnHit(L, path)
  BY <1>3, <1>5, <1>8, <1>11 DEF OwnHit
<1>13. QED
  BY <1>10, <1>12

\* The images that hunt lists.
Listed(found) == {c \in found : Cardinality({d \in found : Ranked(d, c)}) < MaxCandidates}

\* Nothing ranks above the image itself but images that tie with it, and only those
\* can take its place in the list.
LEMMA SelfIsListed ==
  ASSUME ComparisonTyped, NEW L, NEW R, Part(L), Part(R), Unique(L) # {}
  PROVE  LET own == OwnHit(L, 2) IN
         /\ \A c \in Listed(Found(L, R)) : Ranked(c, own) => Ties(c, own)
         /\ \/ own \in Listed(Found(L, R))
            \/ /\ Cardinality(Listed(Found(L, R))) = MaxCandidates
               /\ \A c \in Listed(Found(L, R)) : Ranked(c, own)
<1> DEFINE F == Found(L, R)
           own == OwnHit(L, 2)
           above == {d \in F : Ranked(d, own)}
<1>1. Hunted(L, 2, L) = {own} /\ own \in F
  BY SelfIsHunted DEF Found
<1>2. own.path = 2 /\ own.score = 100 /\ own.unique = 100 /\ own.matched = Cardinality(L)
  BY DEF OwnHit
<1>3. Cardinality(L) \in Nat
  BY PartsAreDiscovered, FS_CardinalityType DEF Discovered
<1>4. ASSUME NEW d \in F, d # own
      PROVE  /\ Hunted(L, 1, R) = {d} /\ d.path = 1
             /\ d.score \in 0 .. 100 /\ d.unique \in 0 .. 100 /\ d.matched \in 0 .. Cardinality(L)
  <2>1. d \in Hunted(L, 1, R)
    BY <1>1, <1>4 DEF Found
  <2>2. QED
    BY <2>1, HuntedIs
<1> HIDE DEF F, own
<1>5. ASSUME NEW d \in F, Ranked(d, own) PROVE d # own /\ Ties(d, own)
  <2>1. d # own
    BY <1>2, <1>3, <1>5 DEF Ranked
  <2>2. QED
    BY <1>2, <1>3, <1>4, <1>5, <2>1 DEF Ranked, Ties
<1>6. CASE above = {}
  <2>1. Cardinality(above) = 0
    BY <1>6, FS_EmptySet, Zenon
  <2>2. own \in Listed(F)
    BY <1>1, <2>1, LimitsAssumption DEF Listed
  <2>3. QED
    BY <1>5, <2>2 DEF Listed, F, own
<1>7. CASE above # {}
  <2>1. PICK e \in F : Ranked(e, own)
    BY <1>7
  <2>2. e # own /\ Hunted(L, 1, R) = {e} /\ Ties(e, own) /\ e.path = 1
    BY <1>4, <1>5, <2>1
  <2>3. F = {e, own}
    BY <1>1, <1>4, <2>2
  <2>4. ~ Ranked(own, e) /\ ~ Ranked(own, own) /\ ~ Ranked(e, e)
    BY <1>2, <1>3, <2>2 DEF Ranked, Ties
  <2>5. above = {e} /\ {d \in F : Ranked(d, e)} = {}
    BY <2>1, <2>3, <2>4
  <2>6. Cardinality({e}) = 1 /\ Cardinality({}) = 0
    BY FS_Singleton, FS_EmptySet, Zenon
  <2>7. Cardinality(above) = 1 /\ Cardinality({d \in F : Ranked(d, e)}) = 0
    BY <2>5, <2>6, Zenon
  <2>8. e \in Listed(F)
    BY <2>7, LimitsAssumption DEF Listed
  <2>9. own \in Listed(F) \/ (MaxCandidates = 1 /\ Listed(F) = {e})
    BY <2>3, <2>7, <2>8, LimitsAssumption DEF Listed
  <2>10. QED
    BY <1>5, <2>1, <2>6, <2>9 DEF Listed, F, own
<1>8. QED
  BY <1>6, <1>7

-----------------------------------------------------------------------------
(* The pair of a CFG diff.                                                  *)

\* Of an image and itself, a function is compared with itself.
LEMMA OwnIsSelected ==
  ASSUME ComparisonTyped, NEW L, Part(L), NEW target, NEW m \in Selected(L, L, target)
  PROVE  m.left = m.right
<1> DEFINE pairs == Greedy(Candidates(L, L, 0))
           hits == {p \in pairs : Hits(p.left, target) \/ Hits(p.right, target)}
           found == {Pair(l, r, "image") : l \in FirstHit(L, target), r \in FirstHit(L, target)}
<1>1. pairs = {Own(f) : f \in L}
  <2>1. 0 \in 0 .. 100
    OBVIOUS
  <2>2. QED
    BY <2>1, OwnMatches
<1>2. \A p \in pairs : p.left = p.right
  BY <1>1 DEF Own
<1>3. \A p \in found : p.left = p.right
  <2>1. SUFFICES ASSUME NEW l \in FirstHit(L, target), NEW r \in FirstHit(L, target)
                 PROVE  Pair(l, r, "image").left = Pair(l, r, "image").right
    OBVIOUS
  <2>2. Discovered(L)
    BY PartsAreDiscovered
  <2>3. l \in L /\ r \in L /\ l.rva <= r.rva /\ r.rva <= l.rva
    BY DEF FirstHit
  <2>4. l.rva \in Nat /\ r.rva \in Nat
    BY <2>2, <2>3 DEF Discovered
  <2>5. l = r
    BY <2>2, <2>3, <2>4 DEF Discovered
  <2>6. QED
    BY <2>5 DEF Pair
<1>4. Selected(L, L, target) \in {{}, Automatic(pairs), FirstOf(hits), found}
  BY DEF Selected
<1>5. \A S : FirstOf(S) \subseteq S
  BY DEF FirstOf
<1> HIDE DEF pairs
<1>6. Automatic(pairs) \subseteq pairs
  <2> DEFINE changed == {p \in pairs : /\ ~ Noise(p.left) /\ ~ Noise(p.right)
                                       /\ Tier(p.score) \in {"changed", "weak"}}
             clean == {p \in pairs : ~ Noise(p.left)}
  <2>1. CASE changed # {}
    BY <2>1 DEF Automatic
  <2>2. CASE changed = {}
    <3>1. Automatic(pairs) = FirstOf(IF clean # {} THEN clean ELSE pairs)
      BY <2>2 DEF Automatic
    <3>2. (IF clean # {} THEN clean ELSE pairs) \subseteq pairs
      OBVIOUS
    <3>3. QED
      BY <1>5, <3>1, <3>2
  <2>3. QED
    BY <2>1, <2>2
<1>7. hits \subseteq pairs
  OBVIOUS
<1> HIDE DEF hits, found
<1>8. QED
  BY <1>2, <1>3, <1>4, <1>5, <1>6, <1>7

-----------------------------------------------------------------------------

\* The inductive invariant: a report is what its command makes of the images.
CompareInv ==
  /\ ComparisonTyped
  /\ \E L, R :
       /\ L = Profile(left) /\ R = Profile(right)
       /\ \/ report = NoReport
          \/ report = Diffed(L, R)
          \/ \E target : report = [kind |-> "cfg", target |-> target, pair |-> Selected(L, R, target)]
          \/ report = [kind |-> "hunt", candidates |-> Listed(Found(L, R))]

\* What is compared does not change with the report.
LEMMA ComparisonStays ==
  ASSUME UNCHANGED <<mean, options>>, NEW L, NEW R
  PROVE  /\ Diffed(L, R)' = Diffed(L, R) /\ Found(L, R)' = Found(L, R)
         /\ \A target : Selected(L, R, target)' = Selected(L, R, target)
<1>1. MinScore' = MinScore
  BY DEF MinScore
<1>2. \A l, r, data : Pair(l, r, data)' = Pair(l, r, data)
  BY DEF Pair, Score
<1>3. \A A, B, data : Pairs(A, B, data)' = Pairs(A, B, data)
  BY <1>2 DEF Pairs
<1>4. \A A, B, least : Candidates(A, B, least)' = Candidates(A, B, least)
  BY <1>3 DEF Candidates
<1>5. \A A, B : IndexedCandidates(A, B)' = IndexedCandidates(A, B)
  BY <1>1, <1>3 DEF IndexedCandidates
<1>6. Diffed(L, R)' = Diffed(L, R)
  BY <1>1, <1>4 DEF Diffed
<1>7. \A path, A, B : Hunted(A, path, B)' = Hunted(A, path, B)
  BY <1>1, <1>5 DEF Hunted
<1>8. Found(L, R)' = Found(L, R)
  BY <1>7 DEF Found
<1>9. ASSUME NEW target PROVE Selected(L, R, target)' = Selected(L, R, target)
  <2>1. Candidates(L, R, 0)' = Candidates(L, R, 0)
    BY <1>4
  <2>2. {Pair(l, r, "image") : l \in FirstHit(L, target), r \in FirstHit(R, target)}'
          = {Pair(l, r, "image") : l \in FirstHit(L, target), r \in FirstHit(R, target)}
    BY <1>2
  <2> DEFINE P == Greedy(Candidates(L, R, 0))
             S == {Pair(l, r, "image") : l \in FirstHit(L, target), r \in FirstHit(R, target)}
             Of(p, s) ==
               LET hits == {m \in p : Hits(m.left, target) \/ Hits(m.right, target)}
               IN  IF p = {} THEN {} ELSE IF target = AutoTarget THEN Automatic(p)
                   ELSE IF hits # {} THEN FirstOf(hits) ELSE s
  <2>3. Selected(L, R, target) = Of(P, S) /\ Selected(L, R, target)' = Of(P', S')
    BY DEF Selected
  <2>4. P' = P /\ S' = S
    BY <2>1, <2>2
  <2> HIDE DEF P, S, Of
  <2>5. QED
    BY <2>3, <2>4
<1>10. QED
  BY <1>6, <1>8, <1>9

\* The report of a diff.
LEMMA DiffIsFair ==
  ASSUME ComparisonTyped, report = Diffed(Profile(left), Profile(right))
  PROVE  ComparisonIsFair
<1> DEFINE L == Profile(left)
           R == Profile(right)
           M == Greedy(Candidates(L, R, MinScore))
<1>1. /\ report.kind = "diff" /\ report.matches = M
      /\ report.leftOnly = L \ Lefts(M) /\ report.rightOnly = R \ Rights(M)
      /\ report.summary = Summary(L, R, M)
  BY DEF Diffed
<1>2. Part(L) /\ Part(R) /\ MinScore \in 0 .. 100
  BY ProfilesAreParts, MinScoreIs
<1>3. SidesSwap
  <2>1. Diffed(R, L).matches = Greedy(Candidates(R, L, MinScore))
    BY DEF Diffed
  <2>2. ~ OneSided(L, R) => {<<m.right, m.left>> : m \in M} = {<<m.left, m.right>> : m \in Diffed(R, L).matches}
    BY <1>2, <2>1, MatchesSwap
  <2>3. QED
    BY <1>1, <2>2 DEF SidesSwap
<1>4. SelfIsIdentical
  <2>1. SUFFICES ASSUME left = right
                 PROVE  /\ M = {Own(f) : f \in L} /\ L \ Lefts(M) = {} /\ R \ Rights(M) = {}
                        /\ L # {} => report.summary.leftCoverage = 100 /\ report.summary.similarity = 100
    BY <1>1 DEF SelfIsIdentical
  <2>2. L = R
    BY <2>1
  <2> HIDE DEF L, R
  <2>3. M = {Own(f) : f \in L}
    BY <1>2, <2>2, OwnMatches
  <2>4. Discovered(L) /\ Pairing(Candidates(L, L, MinScore), L, L)
    BY <1>2, PartsAreDiscovered, CandidatesArePairing
  <2>5. Pairing(M, L, L)
    BY <2>2, <2>4, GreedyRule, PairingPart
  <2> HIDE DEF M
  <2>6. Lefts(M) = L /\ Rights(M) = L
        /\ (L # {} => Similarity(L, L, M) = 100 /\ Coverage(Bytes(L), Bytes(L)) = 100)
    BY <2>3, <2>4, <2>5, OwnSummary
  <2>7. report.summary.leftCoverage = Coverage(Bytes(Lefts(M)), Bytes(L))
        /\ report.summary.similarity = Similarity(L, R, M)
    BY <1>1 DEF Summary
  <2>8. QED
    BY <2>2, <2>3, <2>6, <2>7
<1>5. IndexedImageFound
  BY <1>1 DEF IndexedImageFound
<1>6. QED
  BY <1>3, <1>4, <1>5 DEF ComparisonIsFair

\* And those of the other commands.
LEMMA ReportsAreFair == CompareInv => ComparisonIsFair
<1>1. CASE ComparisonTyped /\ report = NoReport
  BY <1>1 DEF NoReport, ComparisonIsFair, SelfIsIdentical, IndexedImageFound, SidesSwap
<1>2. CASE ComparisonTyped /\ report = Diffed(Profile(left), Profile(right))
  BY <1>2, DiffIsFair
<1>3. ASSUME ComparisonTyped, NEW target,
             report = [kind |-> "cfg", target |-> target,
                       pair |-> Selected(Profile(left), Profile(right), target)]
      PROVE  ComparisonIsFair
  <2>1. report.kind = "cfg" /\ report.pair = Selected(Profile(left), Profile(right), target)
    BY <1>3
  <2>2. left = right => \A m \in report.pair : m.left = m.right
    BY <1>3, <2>1, ProfilesAreParts, OwnIsSelected
  <2>3. QED
    BY <2>1, <2>2 DEF ComparisonIsFair, SelfIsIdentical, IndexedImageFound, SidesSwap
<1>4. ASSUME ComparisonTyped,
             report = [kind |-> "hunt", candidates |-> Listed(Found(Profile(left), Profile(right)))]
      PROVE  ComparisonIsFair
  <2>1. report.kind = "hunt" /\ report.candidates = Listed(Found(Profile(left), Profile(right)))
    BY <1>4
  <2>2. IndexedImageFound
    BY <1>4, <2>1, ProfilesAreParts, SelfIsListed DEF IndexedImageFound
  <2>3. QED
    BY <2>1, <2>2 DEF ComparisonIsFair, SelfIsIdentical, SidesSwap
<1>5. QED
  BY <1>1, <1>2, <1>3, <1>4, Zenon DEF CompareInv

\* Whatever the images, and whatever the similarity of two codes, an image compared
\* with itself has no difference; hunt lists one that was indexed with every score at
\* its most, below nothing but images that tie with it, and leaves it out only for
\* those; and which image is called left makes no difference (the candidates, the
\* greedy matching, the summaries and the ranking of comparison).
THEOREM ComparedFairly == ComparisonSpec => []ComparisonIsFair
<1>1. CompareInit => CompareInv
  BY DEF CompareInit, CompareInv, ComparisonTyped
<1>2. CompareInv /\ [Compare]_comparisonVars => CompareInv'
  <2>1. SUFFICES ASSUME CompareInv, [Compare]_comparisonVars PROVE CompareInv'
    OBVIOUS
  <2>2. UNCHANGED <<left, right, mean, options>>
    BY <2>1 DEF Compare, Diff, CfgDiff, Hunt, comparisonVars
  <2>3. ComparisonTyped'
    BY <2>1, <2>2 DEF CompareInv, ComparisonTyped
  <2> DEFINE L == Profile(left)
             R == Profile(right)
  <2>4. Profile(left') = L /\ Profile(right') = R
    BY <2>2
  <2>5. \/ UNCHANGED report
        \/ report' = Diffed(L, R)
        \/ \E target : report' = [kind |-> "cfg", target |-> target, pair |-> Selected(L, R, target)]
        \/ report' = [kind |-> "hunt", candidates |-> Listed(Found(L, R))]
    BY <2>1 DEF Compare, Diff, CfgDiff, Hunt, comparisonVars, Listed
  <2>6. QED
    BY <2>1, <2>2, <2>3, <2>4, <2>5, ComparisonStays DEF CompareInv
<1>3. CompareInv => ComparisonIsFair
  BY ReportsAreFair
<1>4. QED
  BY <1>1, <1>2, <1>3, PTL DEF ComparisonSpec

=============================================================================
