----------------------------- MODULE BoundaryProofs -----------------------------
(***************************************************************************)
(* Proofs about the models that MCBoundary composes: the Dump tab of the   *)
(* viewer, its panel and run trace, its symbol reloads and the header      *)
(* index, and last the capture of an external analyzer.  Each has an       *)
(* inductive invariant of its own, which the steps of the others leave     *)
(* alone.                                                                  *)
(***************************************************************************)
EXTENDS MCBoundary, SequenceTheorems, TLAPS

CrowdProofs == INSTANCE HeaderCacheProofs
                 WITH Processes <- {p1, p2}, Threads <- {t1, t2}, Headers <- {1},
                      MaxVersion <- MaxStamp
PairProofs == INSTANCE HeaderCacheProofs
                WITH Processes <- {p1}, Threads <- {t1, t2}, Headers <- {1, 2},
                     MaxVersion <- MaxStamp

-----------------------------------------------------------------------------
(* Composition.                                                             *)

LEMMA InitOfParts ==
  PartInit => /\ Dump!Init /\ Panel!Init /\ Symbols!Init
              /\ part = "crowd" => Crowd!Init
              /\ part = "pair" => Pair!Init
BY DEF PartInit

LEMMA StepsOfParts ==
  [PartNext]_allVars =>
    /\ [Dump!Next]_dumpVars /\ [Panel!Next]_panelVars /\ [Symbols!Next]_symbolVars
    /\ part' = part
    /\ part = "crowd" => [Crowd!Next]_headerVars
    /\ part = "pair" => [Pair!Next]_headerVars
BY DEF PartNext, allVars

-----------------------------------------------------------------------------
(* The header index.                                                        *)

IndexInv ==
  /\ part = "crowd" => CrowdProofs!IInv
  /\ part = "pair" => PairProofs!IInv

LEMMA InitIndexInv == PartInit => IndexInv
BY InitOfParts, CrowdProofs!InitIInv, PairProofs!InitIInv
   DEF IndexInv, Crowd!Init, Pair!Init, CrowdProofs!Init, PairProofs!Init,
       Crowd!NoLoad, Pair!NoLoad, CrowdProofs!NoLoad, PairProofs!NoLoad

LEMMA CrowdSteps == [Crowd!Next]_headerVars => [CrowdProofs!Next]_(CrowdProofs!vars)
<1>1. ASSUME NEW h PROVE Crowd!Install(h) <=> CrowdProofs!Install(h)
  BY DEF Crowd!Install, CrowdProofs!Install
<1>2. ASSUME NEW p, NEW t PROVE Crowd!Configured(p, t) <=> CrowdProofs!Configured(p, t)
  BY DEF Crowd!Configured, CrowdProofs!Configured, Crowd!NoLoad, CrowdProofs!NoLoad
<1>3. ASSUME NEW p, NEW h PROVE Crowd!TakeFingerprint(p, h) <=> CrowdProofs!TakeFingerprint(p, h)
  BY DEF Crowd!TakeFingerprint, CrowdProofs!TakeFingerprint, Crowd!NextHeader, CrowdProofs!NextHeader, Crowd!Fingerprint, CrowdProofs!Fingerprint
<1>4. ASSUME NEW p, NEW h PROVE Crowd!ReadHeader(p, h) <=> CrowdProofs!ReadHeader(p, h)
  BY DEF Crowd!ReadHeader, CrowdProofs!ReadHeader, Crowd!NextHeader, CrowdProofs!NextHeader
<1>5. ASSUME NEW p PROVE Crowd!ReadCache(p) <=> CrowdProofs!ReadCache(p)
  BY DEF Crowd!ReadCache, CrowdProofs!ReadCache, Crowd!HalfWritten, CrowdProofs!HalfWritten
<1>6. ASSUME NEW p PROVE Crowd!StartWrite(p) <=> CrowdProofs!StartWrite(p)
  BY DEF Crowd!StartWrite, CrowdProofs!StartWrite, Crowd!Store, CrowdProofs!Store, Crowd!HalfWritten, CrowdProofs!HalfWritten
<1>7. ASSUME NEW p PROVE Crowd!EndWrite(p) <=> CrowdProofs!EndWrite(p)
  BY DEF Crowd!EndWrite, CrowdProofs!EndWrite, Crowd!Store, CrowdProofs!Store
<1>8. ASSUME NEW p PROVE Crowd!Return(p) <=> CrowdProofs!Return(p)
  BY DEF Crowd!Return, CrowdProofs!Return, Crowd!NoLoad, CrowdProofs!NoLoad
<1>9. ASSUME NEW p PROVE Crowd!Restart(p) <=> CrowdProofs!Restart(p)
  BY DEF Crowd!Restart, CrowdProofs!Restart, Crowd!NoLoad, CrowdProofs!NoLoad
<1>10. UNCHANGED headerVars => UNCHANGED CrowdProofs!vars
  BY DEF headerVars, CrowdProofs!vars
<1>11. Crowd!Next => CrowdProofs!Next
  <2>1. CASE \E h \in {1} : Crowd!Install(h)
    BY <2>1, <1>1 DEF CrowdProofs!Next
  <2>2. ASSUME NEW p \in {p1, p2},
               \/ \E t \in {t1, t2} : Crowd!Configured(p, t)
               \/ \E h \in {1} : Crowd!TakeFingerprint(p, h) \/ Crowd!ReadHeader(p, h)
               \/ Crowd!ReadCache(p) \/ Crowd!StartWrite(p) \/ Crowd!EndWrite(p) \/ Crowd!Return(p)
               \/ Crowd!Restart(p)
        PROVE  CrowdProofs!Next
    BY <2>2, <1>2, <1>3, <1>4, <1>5, <1>6, <1>7, <1>8, <1>9 DEF CrowdProofs!Next
  <2>3. QED
    BY <2>1, <2>2 DEF Crowd!Next
<1>12. SUFFICES ASSUME Crowd!Next \/ UNCHANGED headerVars
                PROVE  CrowdProofs!Next \/ UNCHANGED CrowdProofs!vars
  OBVIOUS
<1>13. QED
  BY <1>10, <1>11, <1>12

LEMMA PairSteps == [Pair!Next]_headerVars => [PairProofs!Next]_(PairProofs!vars)
<1>1. ASSUME NEW h PROVE Pair!Install(h) <=> PairProofs!Install(h)
  BY DEF Pair!Install, PairProofs!Install
<1>2. ASSUME NEW p, NEW t PROVE Pair!Configured(p, t) <=> PairProofs!Configured(p, t)
  BY DEF Pair!Configured, PairProofs!Configured, Pair!NoLoad, PairProofs!NoLoad
<1>3. ASSUME NEW p, NEW h PROVE Pair!TakeFingerprint(p, h) <=> PairProofs!TakeFingerprint(p, h)
  BY DEF Pair!TakeFingerprint, PairProofs!TakeFingerprint, Pair!NextHeader, PairProofs!NextHeader, Pair!Fingerprint, PairProofs!Fingerprint
<1>4. ASSUME NEW p, NEW h PROVE Pair!ReadHeader(p, h) <=> PairProofs!ReadHeader(p, h)
  BY DEF Pair!ReadHeader, PairProofs!ReadHeader, Pair!NextHeader, PairProofs!NextHeader
<1>5. ASSUME NEW p PROVE Pair!ReadCache(p) <=> PairProofs!ReadCache(p)
  BY DEF Pair!ReadCache, PairProofs!ReadCache, Pair!HalfWritten, PairProofs!HalfWritten
<1>6. ASSUME NEW p PROVE Pair!StartWrite(p) <=> PairProofs!StartWrite(p)
  BY DEF Pair!StartWrite, PairProofs!StartWrite, Pair!Store, PairProofs!Store, Pair!HalfWritten, PairProofs!HalfWritten
<1>7. ASSUME NEW p PROVE Pair!EndWrite(p) <=> PairProofs!EndWrite(p)
  BY DEF Pair!EndWrite, PairProofs!EndWrite, Pair!Store, PairProofs!Store
<1>8. ASSUME NEW p PROVE Pair!Return(p) <=> PairProofs!Return(p)
  BY DEF Pair!Return, PairProofs!Return, Pair!NoLoad, PairProofs!NoLoad
<1>9. ASSUME NEW p PROVE Pair!Restart(p) <=> PairProofs!Restart(p)
  BY DEF Pair!Restart, PairProofs!Restart, Pair!NoLoad, PairProofs!NoLoad
<1>10. UNCHANGED headerVars => UNCHANGED PairProofs!vars
  BY DEF headerVars, PairProofs!vars
<1>11. Pair!Next => PairProofs!Next
  <2>1. CASE \E h \in {1, 2} : Pair!Install(h)
    BY <2>1, <1>1 DEF PairProofs!Next
  <2>2. ASSUME NEW p \in {p1},
               \/ \E t \in {t1, t2} : Pair!Configured(p, t)
               \/ \E h \in {1, 2} : Pair!TakeFingerprint(p, h) \/ Pair!ReadHeader(p, h)
               \/ Pair!ReadCache(p) \/ Pair!StartWrite(p) \/ Pair!EndWrite(p) \/ Pair!Return(p)
               \/ Pair!Restart(p)
        PROVE  PairProofs!Next
    BY <2>2, <1>2, <1>3, <1>4, <1>5, <1>6, <1>7, <1>8, <1>9 DEF PairProofs!Next
  <2>3. QED
    BY <2>1, <2>2 DEF Pair!Next
<1>12. SUFFICES ASSUME Pair!Next \/ UNCHANGED headerVars
                PROVE  PairProofs!Next \/ UNCHANGED PairProofs!vars
  OBVIOUS
<1>13. QED
  BY <1>10, <1>11, <1>12

LEMMA NextIndexInv == IndexInv /\ [PartNext]_allVars => IndexInv'
BY StepsOfParts, CrowdSteps, PairSteps, CrowdProofs!NextIInv, PairProofs!NextIInv DEF IndexInv

LEMMA IndexInvServes == IndexInv => IndexIsCurrent
BY CrowdProofs!IInvServes, PairProofs!IInvServes
   DEF IndexInv, IndexIsCurrent, Crowd!ServedIsCurrent, Pair!ServedIsCurrent,
       CrowdProofs!ServedIsCurrent, PairProofs!ServedIsCurrent

\* Every header index that a process serves says of each header a version that
\* was on disk between the process's request and now, or that the header could
\* not be read (configured and load of headers/mod.rs).
THEOREM IndexStaysCurrent == BoundarySpec => []IndexIsCurrent
BY InitIndexInv, NextIndexInv, IndexInvServes, PTL DEF BoundarySpec

-----------------------------------------------------------------------------
(* Symbol reloads.                                                          *)

LEMMA SymbolsStep == [Symbols!Next]_symbolVars => [Symbols!LatestReloadWrites]_symbolVars
<1> SUFFICES ASSUME Symbols!Next PROVE Symbols!LatestReloadWrites
  OBVIOUS
<1> USE DEF Symbols!LatestReloadWrites, Symbols!Loading, Symbols!ByReload, Symbols!ByAnalysis
<1>1. CASE Symbols!RequestReload \/ Symbols!Refresh
  BY <1>1 DEF Symbols!RequestReload, Symbols!Refresh
<1>2. CASE Symbols!HostTakes
  BY <1>2 DEF Symbols!HostTakes, Symbols!BeginAnalysis, Symbols!BeginReload
<1>3. ASSUME NEW k, Symbols!AnalysisSymbols(k) \/ Symbols!AnalysisTypes(k)
      PROVE  Symbols!LatestReloadWrites
  BY <1>3 DEF Symbols!AnalysisSymbols, Symbols!AnalysisTypes
<1>4. ASSUME NEW k, Symbols!ReloadSymbols(k) \/ Symbols!ReloadTypes(k)
      PROVE  Symbols!LatestReloadWrites
  BY <1>4 DEF Symbols!ReloadSymbols, Symbols!ReloadTypes
<1>5. QED
  BY <1>1, <1>2, <1>3, <1>4 DEF Symbols!Next, Symbols!CommandEnds

\* A reload that another one has overtaken writes nothing into the Symbols and
\* Types panels, however its two commands end (the token in editor.ts).
THEOREM ReloadsInOrder == BoundarySpec => OlderReloadsSilent
<1>1. [PartNext]_allVars => [Symbols!LatestReloadWrites]_(Symbols!vars)
  BY StepsOfParts, SymbolsStep DEF symbolVars, Symbols!vars
<1>2. QED
  BY <1>1, PTL DEF BoundarySpec, OlderReloadsSilent, Symbols!OlderReloadsSilent

-----------------------------------------------------------------------------
(* The Dump tab.  The request that is awaited is the only one with its      *)
(* number that is no prefetch, and it asks for the current entry.           *)

AwaitedAsksForCurrent ==
  active # 0 =>
    \A r \in inFlight :
      r.id = active /\ ~r.prefetch =>
        r.target = history[pos].target /\ r.depth = history[pos].depth /\ r.hostile = hostile

NothingBeforeNavigation == pos = 0 => inFlight = {} /\ active = 0 /\ ~controls

DumpInv ==
  /\ Dump!TypeOK
  /\ NothingBeforeNavigation
  /\ AwaitedAsksForCurrent
  /\ AwaitedPageMatches

LEMMA InitDumpInv == PartInit => DumpInv
<1> SUFFICES ASSUME Dump!Init PROVE DumpInv
  BY InitOfParts
<1>1. Dump!TypeOK
  <2>1. shown \in {Dump!Blank(k) : k \in {"empty", "loading", "error"}}
    BY DEF Dump!Init
  <2>2. history \in Seq(Dump!Entry) /\ pos \in 0 .. Len(history) /\ (pos = 0) = (history = <<>>)
    BY DEF Dump!Init
  <2>3. pages \in [Dump!Key -> Dump!PageType \cup {None}]
    BY DEF Dump!Init
  <2>4. /\ active \in 0 .. lastId /\ lastId \in Nat /\ clicks \in 0 .. MaxClicks
        /\ apiDepth \in Depths
    BY DumpAssumption DEF Dump!Init
  <2>5. inFlight = {} /\ hostile \in BOOLEAN /\ controls \in BOOLEAN
    BY Zenon DEF Dump!Init
  <2>6. QED
    BY <2>1, <2>2, <2>3, <2>4, <2>5, Zenon DEF Dump!TypeOK
<1>2. QED
  BY <1>1 DEF Dump!Init, DumpInv, NothingBeforeNavigation, AwaitedAsksForCurrent,
              AwaitedPageMatches, Dump!AwaitedPageMatches

\* The types of the parts that a request touches, with ids up to n.
PagesTo(n) == [kind : {"page"}, target : Targets, depth : Depths, hostile : BOOLEAN, request : 1 .. n]
RequestsTo(n) == [id : 1 .. n, key : Dump!Key, target : Targets, depth : Depths,
                  hostile : BOOLEAN, prefetch : BOOLEAN]

LEMMA TypesGrow ==
  ASSUME NEW n \in Nat
  PROVE  PagesTo(n) \subseteq PagesTo(n + 1) /\ RequestsTo(n) \subseteq RequestsTo(n + 1)
BY DEF PagesTo, RequestsTo

\* What prefetchCallTargets asks for.
LEMMA PrefetchesTyped ==
  ASSUME NEW n \in Nat, NEW page \in PagesTo(n), NEW depth \in Depths, NEW flag \in BOOLEAN
  PROVE  /\ Dump!Prefetches(page, depth, flag, n + 1) \subseteq RequestsTo(n + 1)
         /\ \A r \in Dump!Prefetches(page, depth, flag, n + 1) : r.prefetch
<1> SUFFICES ASSUME NEW r \in Dump!Prefetches(page, depth, flag, n + 1)
             PROVE  r \in RequestsTo(n + 1) /\ r.prefetch
  OBVIOUS
<1>1. PICK t \in Calls[page.target] :
        r = Dump!Request(n + 1, Dump!dumpCacheKey([target |-> t, depth |-> 1], flag), depth, flag, TRUE)
  BY DEF Dump!Prefetches
<1>2. page.target \in Targets
  BY DEF PagesTo
<1>3. t \in Targets
  BY <1>1, <1>2, DumpAssumption
<1>4. Dump!dumpCacheKey([target |-> t, depth |-> 1], flag) \in Dump!Key
  BY <1>3, DumpAssumption DEF Dump!dumpCacheKey, Dump!Key
<1>5. QED
  BY <1>1, <1>3, <1>4 DEF RequestsTo, Dump!Request, Dump!dumpCacheKey

\* What _requestDump and renderDump leave, from the cache or not.
LEMMA RequestDumpTyped ==
  ASSUME DumpInv, NEW entry \in Dump!Entry, NEW flag \in BOOLEAN, NEW depth \in Depths,
         NEW store \in [Dump!Key -> Dump!PageType \cup {None}],
         Dump!RequestDump(entry, flag, depth, store)
  PROVE  /\ lastId' = lastId + 1
         /\ apiDepth' \in Depths
         /\ controls' \in BOOLEAN
         /\ active' \in 0 .. lastId'
         /\ shown' \in PagesTo(lastId') \cup {Dump!Blank(k) : k \in {"empty", "loading", "error"}}
         /\ inFlight' \subseteq RequestsTo(lastId')
         /\ active' # 0 => shown'.kind # "page"
         /\ active' # 0 => \A r \in inFlight' : r.id = active' /\ ~r.prefetch =>
              r.target = entry.target /\ r.depth = entry.depth /\ r.hostile = flag
<1> DEFINE key == Dump!dumpCacheKey(entry, flag)
<1>1. key \in Dump!Key
  BY DEF Dump!dumpCacheKey, Dump!Key, Dump!Entry
<1>2. lastId \in Nat /\ inFlight \subseteq RequestsTo(lastId) /\ Dump!PageType = PagesTo(lastId)
  BY DEF DumpInv, Dump!TypeOK, RequestsTo, PagesTo, Dump!PageType
<1>3. entry.target \in Targets /\ entry.depth \in Depths
  BY DEF Dump!Entry
<1>4. CASE store[key] # None
  <2>1. /\ active' = 0 /\ shown' = store[key] /\ controls' = TRUE /\ apiDepth' = entry.depth
        /\ inFlight' = inFlight \cup Dump!Prefetches(store[key], entry.depth, flag, lastId + 1)
        /\ lastId' = lastId + 1
    BY <1>4 DEF Dump!RequestDump, Dump!Render
  <2>2. store[key] \in PagesTo(lastId)
    BY <1>1, <1>2, <1>4
  <2>3. Dump!Prefetches(store[key], entry.depth, flag, lastId + 1) \subseteq RequestsTo(lastId + 1)
    BY <1>2, <1>3, <2>2, PrefetchesTyped
  <2>4. shown' \in PagesTo(lastId') /\ inFlight' \subseteq RequestsTo(lastId')
    BY <1>2, <2>1, <2>2, <2>3, TypesGrow
  <2>5. QED
    BY <1>2, <1>3, <2>1, <2>4
<1>5. CASE store[key] = None
  <2> DEFINE r0 == Dump!Request(lastId + 1, key, entry.depth, flag, FALSE)
  <2>1. /\ active' = lastId + 1 /\ shown' = Dump!Blank("loading") /\ apiDepth' = depth
        /\ inFlight' = inFlight \cup {r0} /\ lastId' = lastId + 1
    BY <1>5 DEF Dump!RequestDump
  <2>2. controls' \in BOOLEAN
    BY <1>5, Zenon DEF Dump!RequestDump
  <2>3. /\ r0 \in RequestsTo(lastId + 1)
        /\ r0.target = entry.target /\ r0.depth = entry.depth /\ r0.hostile = flag
    BY <1>1, <1>2, <1>3 DEF Dump!Request, RequestsTo, Dump!dumpCacheKey
  <2>4. inFlight' \subseteq RequestsTo(lastId')
    BY <1>2, <2>1, <2>3, TypesGrow
  <2>5. \A r \in inFlight : r.id # lastId + 1
    BY <1>2 DEF RequestsTo
  <2>6. Dump!Blank("loading") \in {Dump!Blank(k) : k \in {"empty", "loading", "error"}}
    OBVIOUS
  <2>7. shown'.kind # "page"
    BY <2>1 DEF Dump!Blank
  <2>8. active' \in 0 .. lastId'
    BY <1>2, <2>1
  <2>9. \A r \in inFlight' : r.id = active' /\ ~r.prefetch =>
          r.target = entry.target /\ r.depth = entry.depth /\ r.hostile = flag
    BY <2>1, <2>3, <2>5
  <2>10. QED
    BY <2>1, <2>2, <2>4, <2>6, <2>7, <2>8, <2>9
<1>6. QED
  BY <1>4, <1>5

\* A request for the entry that becomes the current one keeps the invariant.
LEMMA RequestKeepsInv ==
  ASSUME DumpInv, NEW entry \in Dump!Entry, NEW flag \in BOOLEAN, NEW depth \in Depths,
         NEW store \in [Dump!Key -> Dump!PageType \cup {None}],
         Dump!RequestDump(entry, flag, depth, store),
         history' \in Seq(Dump!Entry), pos' \in 1 .. Len(history'), history'[pos'] = entry,
         hostile' = flag, pages' = store, clicks' \in 0 .. MaxClicks
  PROVE  DumpInv'
<1>1. /\ lastId' = lastId + 1 /\ apiDepth' \in Depths /\ controls' \in BOOLEAN
      /\ active' \in 0 .. lastId'
      /\ shown' \in PagesTo(lastId') \cup {Dump!Blank(k) : k \in {"empty", "loading", "error"}}
      /\ inFlight' \subseteq RequestsTo(lastId')
  BY RequestDumpTyped
<1>2. lastId \in Nat /\ Dump!PageType = PagesTo(lastId)
  BY DEF DumpInv, Dump!TypeOK, PagesTo, Dump!PageType
<1>3. pages' \in [Dump!Key -> PagesTo(lastId') \cup {None}]
  BY <1>1, <1>2, TypesGrow
<1>4. pos' \in 0 .. Len(history') /\ pos' # 0 /\ history' # << >> /\ lastId' \in Nat
  BY <1>1, <1>2
<1>5. hostile' \in BOOLEAN
  OBVIOUS
<1>6. Dump!TypeOK'
  BY <1>1, <1>3, <1>4, <1>5, Zenon DEF Dump!TypeOK, PagesTo, RequestsTo, Dump!PageType
<1>7. NothingBeforeNavigation'
  BY <1>4 DEF NothingBeforeNavigation
<1>8. active' # 0 => shown'.kind # "page"
  BY RequestDumpTyped
<1>9. active' # 0 => \A r \in inFlight' : r.id = active' /\ ~r.prefetch =>
        r.target = entry.target /\ r.depth = entry.depth /\ r.hostile = flag
  BY RequestDumpTyped
<1>10. AwaitedAsksForCurrent'
  BY <1>9 DEF AwaitedAsksForCurrent
<1>11. AwaitedPageMatches'
  BY <1>8 DEF AwaitedPageMatches, Dump!AwaitedPageMatches
<1>12. QED
  BY <1>6, <1>7, <1>10, <1>11 DEF DumpInv

LEMMA Clicked == ASSUME DumpInv, Dump!Click PROVE clicks' \in 0 .. MaxClicks
BY DumpAssumption DEF DumpInv, Dump!TypeOK, Dump!Click

LEMMA UserKeepsInv ==
  ASSUME DumpInv,
         \/ \E t \in Targets : Dump!Navigate(t)
         \/ Dump!navBack \/ Dump!navFwd
         \/ \E d \in Depths : Dump!setCurrentDepth(d)
         \/ Dump!ToggleHostile
  PROVE  DumpInv'
<1>1. /\ history \in Seq(Dump!Entry) /\ pos \in 0 .. Len(history) /\ Len(history) \in Nat
      /\ apiDepth \in Depths /\ hostile \in BOOLEAN
      /\ pages \in [Dump!Key -> Dump!PageType \cup {None}]
      /\ controls => pos # 0
  BY DEF DumpInv, Dump!TypeOK, NothingBeforeNavigation
<1>2. CASE \E t \in Targets : Dump!Navigate(t)
  <2> PICK t \in Targets : Dump!Navigate(t)
    BY <1>2
  <2> DEFINE entry == [target |-> t, depth |-> apiDepth]
             ahead == SubSeq(history, 1, pos)
  <2>1. /\ Dump!Click /\ history' = Append(ahead, entry) /\ pos' = pos + 1
        /\ Dump!RequestDump(entry, hostile, apiDepth, pages)
        /\ hostile' = hostile /\ pages' = pages
    BY DEF Dump!Navigate
  <2>2. entry \in Dump!Entry
    BY <1>1 DEF Dump!Entry
  <2>3. ahead \in Seq(Dump!Entry) /\ Len(ahead) = pos
    BY <1>1
  <2>4. history' \in Seq(Dump!Entry) /\ pos' \in 1 .. Len(history') /\ history'[pos'] = entry
    BY <1>1, <2>1, <2>2, <2>3
  <2>5. QED
    BY <1>1, <2>1, <2>2, <2>4, Clicked, RequestKeepsInv
<1>3. CASE Dump!navBack
  <2>1. /\ Dump!Click /\ pos > 1 /\ pos' = pos - 1 /\ history' = history
        /\ Dump!RequestDump(history[pos - 1], hostile, apiDepth, pages)
        /\ hostile' = hostile /\ pages' = pages
    BY <1>3 DEF Dump!navBack
  <2>2. pos' \in 1 .. Len(history') /\ history[pos - 1] \in Dump!Entry
    BY <1>1, <2>1
  <2>3. QED
    BY <1>1, <2>1, <2>2, Clicked, RequestKeepsInv
<1>4. CASE Dump!navFwd
  <2>1. /\ Dump!Click /\ pos < Len(history) /\ pos' = pos + 1 /\ history' = history
        /\ Dump!RequestDump(history[pos + 1], hostile, apiDepth, pages)
        /\ hostile' = hostile /\ pages' = pages
    BY <1>4 DEF Dump!navFwd
  <2>2. pos' \in 1 .. Len(history') /\ history[pos + 1] \in Dump!Entry
    BY <1>1, <2>1
  <2>3. QED
    BY <1>1, <2>1, <2>2, Clicked, RequestKeepsInv
<1>5. CASE \E d \in Depths : Dump!setCurrentDepth(d)
  <2> PICK d \in Depths : Dump!setCurrentDepth(d)
    BY <1>5
  <2>1. /\ Dump!Click /\ controls /\ history' = [history EXCEPT ![pos].depth = d] /\ pos' = pos
        /\ Dump!RequestDump(history'[pos], hostile, d, pages)
        /\ hostile' = hostile /\ pages' = pages
    BY DEF Dump!setCurrentDepth
  <2>2. pos \in 1 .. Len(history) /\ history[pos] \in Dump!Entry
    BY <1>1, <2>1
  <2>3. [history[pos] EXCEPT !.depth = d] \in Dump!Entry
    BY <2>2 DEF Dump!Entry
  <2>4. history' = [history EXCEPT ![pos] = [history[pos] EXCEPT !.depth = d]]
    BY <2>1
  <2>5. history' \in Seq(Dump!Entry) /\ Len(history') = Len(history)
    BY <1>1, <2>2, <2>3, <2>4
  <2>6. pos' \in 1 .. Len(history') /\ history'[pos] \in Dump!Entry
    BY <2>1, <2>2, <2>5
  <2>7. QED
    BY <1>1, <2>1, <2>5, <2>6, Clicked, RequestKeepsInv
<1>6. CASE Dump!ToggleHostile
  <2>1. /\ Dump!Click /\ controls /\ history' = history /\ pos' = pos
        /\ pages' = [k \in Dump!Key |-> None]
        /\ Dump!RequestDump(history[pos], ~hostile, apiDepth, pages')
    BY <1>6 DEF Dump!ToggleHostile
  <2>2. hostile' = ~hostile /\ (~hostile) \in BOOLEAN
    BY <1>6, Zenon DEF Dump!ToggleHostile
  <2>3. pages' \in [Dump!Key -> Dump!PageType \cup {None}]
    BY <2>1
  <2>4. pos' \in 1 .. Len(history') /\ history[pos] \in Dump!Entry
    BY <1>1, <2>1
  <2>5. DumpInv'
    BY <1>1, <2>1, <2>2, <2>3, <2>4, Clicked, RequestKeepsInv
  <2>6. QED
    BY <2>5
<1>7. QED
  BY <1>2, <1>3, <1>4, <1>5, <1>6

LEMMA RefreshKeepsInv == ASSUME DumpInv, Dump!Refresh PROVE DumpInv'
<1>1. /\ pages' = [k \in Dump!Key |-> None] /\ clicks' \in 0 .. MaxClicks
      /\ UNCHANGED <<history, pos, apiDepth, hostile, inFlight, active, shown, controls, lastId>>
  BY Clicked DEF Dump!Refresh
<1>2. pages' \in [Dump!Key -> Dump!PageType \cup {None}]'
  BY <1>1
<1>3. Dump!TypeOK'
  BY <1>1, <1>2 DEF DumpInv, Dump!TypeOK, Dump!PageType
<1>4. QED
  BY <1>1, <1>3 DEF DumpInv, NothingBeforeNavigation, AwaitedAsksForCurrent,
                    AwaitedPageMatches, Dump!AwaitedPageMatches

LEMMA PageTyped ==
  ASSUME DumpInv, NEW r \in inFlight
  PROVE  Dump!Page(r) \in Dump!PageType /\ r.key \in Dump!Key
BY DEF DumpInv, Dump!TypeOK, Dump!Page, Dump!PageType

\* An answer that is stored, or that failed, only takes a request away.
LEMMA StoreOnlyKeepsInv == ASSUME DumpInv, NEW r \in inFlight, Dump!StoreOnly(r) PROVE DumpInv'
<1>1. /\ pages' = [pages EXCEPT ![r.key] = Dump!Page(r)] /\ inFlight' = inFlight \ {r}
      /\ UNCHANGED <<history, pos, apiDepth, hostile, active, shown, controls, lastId, clicks>>
  BY DEF Dump!StoreOnly, Dump!Store
<1>2. pages' \in [Dump!Key -> Dump!PageType \cup {None}]'
  BY <1>1, PageTyped DEF DumpInv, Dump!TypeOK, Dump!PageType
<1>3. Dump!TypeOK'
  BY <1>1, <1>2 DEF DumpInv, Dump!TypeOK, Dump!PageType
<1>4. QED
  BY <1>1, <1>3 DEF DumpInv, NothingBeforeNavigation, AwaitedAsksForCurrent,
                    AwaitedPageMatches, Dump!AwaitedPageMatches

LEMMA FailKeepsInv == ASSUME DumpInv, NEW r \in inFlight, Dump!Fail(r) PROVE DumpInv'
<1>1. /\ inFlight' = inFlight \ {r} /\ shown' \in {shown, Dump!Blank("error")}
      /\ UNCHANGED <<history, pos, apiDepth, hostile, pages, active, controls, lastId, clicks>>
  BY DEF Dump!Fail
<1>2. Dump!TypeOK'
  <2>1. shown' \in Dump!PageType' \cup {Dump!Blank(k) : k \in {"empty", "loading", "error"}}
    BY <1>1 DEF DumpInv, Dump!TypeOK, Dump!PageType
  <2>2. QED
    BY <1>1, <2>1 DEF DumpInv, Dump!TypeOK, Dump!PageType
<1>3. AwaitedPageMatches'
  BY <1>1 DEF DumpInv, AwaitedPageMatches, Dump!AwaitedPageMatches, Dump!Blank
<1>4. QED
  BY <1>1, <1>2, <1>3 DEF DumpInv, NothingBeforeNavigation, AwaitedAsksForCurrent

\* An answer that is rendered is the awaited one, or no request is awaited.
LEMMA RenderKeepsInv == ASSUME DumpInv, NEW r \in inFlight, Dump!StoreAndRender(r) PROVE DumpInv'
<1> DEFINE new == Dump!Prefetches(Dump!Page(r), history[pos].depth, hostile, lastId + 1)
<1>1. /\ pages' = [pages EXCEPT ![r.key] = Dump!Page(r)]
      /\ shown' = Dump!Page(r) /\ apiDepth' = history[pos].depth
      /\ inFlight' = (inFlight \ {r}) \cup new /\ lastId' = lastId + 1
      /\ UNCHANGED <<history, pos, hostile, active, clicks>>
  BY DEF Dump!StoreAndRender, Dump!Store, Dump!Render
<1>2. controls' \in BOOLEAN
  BY Zenon DEF Dump!StoreAndRender, Dump!Render
<1>3. ~ r.prefetch /\ (active = 0 \/ r.id = active)
  BY DEF Dump!StoreAndRender, Dump!Unawaited
<1>4. /\ lastId \in Nat /\ Dump!PageType = PagesTo(lastId) /\ inFlight \subseteq RequestsTo(lastId)
      /\ history \in Seq(Dump!Entry) /\ pos \in 0 .. Len(history) /\ Len(history) \in Nat
      /\ hostile \in BOOLEAN /\ active \in 0 .. lastId /\ (pos = 0) = (history = <<>>)
      /\ clicks \in 0 .. MaxClicks
  BY DEF DumpInv, Dump!TypeOK, PagesTo, RequestsTo, Dump!PageType
<1>5. pos # 0 /\ history[pos] \in Dump!Entry /\ history[pos].depth \in Depths
  <2>1. pos # 0
    BY DEF DumpInv, NothingBeforeNavigation
  <2>2. history[pos] \in Dump!Entry
    BY <1>4, <2>1
  <2>3. QED
    BY <2>1, <2>2 DEF Dump!Entry
<1>6. Dump!Page(r) \in PagesTo(lastId)
  BY <1>4, PageTyped
<1>7. new \subseteq RequestsTo(lastId + 1) /\ \A x \in new : x.prefetch
  BY <1>4, <1>5, <1>6, PrefetchesTyped
<1>8. inFlight' \subseteq RequestsTo(lastId')
  BY <1>1, <1>4, <1>7, TypesGrow
<1>9. /\ shown' \in PagesTo(lastId') \cup {Dump!Blank(k) : k \in {"empty", "loading", "error"}}
      /\ pages' \in [Dump!Key -> PagesTo(lastId') \cup {None}]
  <2>1. PagesTo(lastId) \subseteq PagesTo(lastId')
    BY <1>1, <1>4, TypesGrow
  <2>2. pages \in [Dump!Key -> PagesTo(lastId) \cup {None}]
    BY <1>4 DEF DumpInv, Dump!TypeOK
  <2>3. QED
    BY <1>1, <1>6, <2>1, <2>2, PageTyped
<1>10. /\ history' \in Seq(Dump!Entry) /\ pos' \in 0 .. Len(history') /\ (pos' = 0) = (history' = <<>>)
       /\ apiDepth' \in Depths /\ active' \in 0 .. lastId' /\ lastId' \in Nat
       /\ clicks' \in 0 .. MaxClicks
  BY <1>1, <1>4, <1>5
<1>11. hostile' \in BOOLEAN
  BY <1>1, <1>4
<1>12. Dump!TypeOK'
  BY <1>2, <1>8, <1>9, <1>10, <1>11, Zenon DEF Dump!TypeOK, PagesTo, RequestsTo, Dump!PageType
<1>13. NothingBeforeNavigation'
  BY <1>1, <1>5 DEF NothingBeforeNavigation
<1>14. AwaitedAsksForCurrent'
  BY <1>1, <1>7 DEF DumpInv, AwaitedAsksForCurrent
<1>15. AwaitedPageMatches'
  <2>1. active # 0 => /\ r.target = history[pos].target /\ r.depth = history[pos].depth
                      /\ r.hostile = hostile
    BY <1>3 DEF DumpInv, AwaitedAsksForCurrent
  <2>2. QED
    BY <1>1, <2>1 DEF AwaitedPageMatches, Dump!AwaitedPageMatches, Dump!Page
<1>16. QED
  BY <1>12, <1>13, <1>14, <1>15 DEF DumpInv

LEMMA NextDumpInv == DumpInv /\ [PartNext]_allVars => DumpInv'
<1>1. ASSUME DumpInv, UNCHANGED dumpVars PROVE DumpInv'
  <2>1. Dump!TypeOK'
    BY <1>1 DEF dumpVars, DumpInv, Dump!TypeOK, Dump!PageType
  <2>2. QED
    BY <1>1, <2>1 DEF dumpVars, DumpInv, NothingBeforeNavigation, AwaitedAsksForCurrent,
                      AwaitedPageMatches, Dump!AwaitedPageMatches
<1>2. ASSUME DumpInv, Dump!HostAnswers PROVE DumpInv'
  BY <1>2, StoreOnlyKeepsInv, RenderKeepsInv, FailKeepsInv DEF Dump!HostAnswers, Dump!Answer
<1>3. ASSUME DumpInv, Dump!Next PROVE DumpInv'
  BY <1>2, <1>3, UserKeepsInv, RefreshKeepsInv DEF Dump!Next
<1>4. QED
  BY <1>1, <1>3, StepsOfParts

\* While an answer of the analyzer is awaited in the Dump tab, or has come, the
\* page is that of the current history entry, at its depth and with the hostile
\* checkbox as it stands (_requestDump and the dump message of main.ts).
THEOREM PageStaysMatched == BoundarySpec => []AwaitedPageMatches
<1>1. DumpInv => AwaitedPageMatches
  BY DEF DumpInv
<1>2. QED
  BY <1>1, InitDumpInv, NextDumpInv, PTL DEF BoundarySpec

-----------------------------------------------------------------------------
(* The run trace.  What the viewer's copy becomes when it has handled the   *)
(* messages on their way is the recorded trace, once its 'ready' message    *)
(* was answered: a mirror lists the copies it goes through.                 *)

Messages ==
  [type : {"external_navigate"}, command : Commands]
    \cup [type : {"dev_log_history"}, entries : Seq(Nat)]
    \cup [type : {"dev_log_append"}, entry : Nat]

\* The viewer's copy of the trace after it has handled a message.
Handled(m, log) ==
  IF m.type = "dev_log_history" THEN m.entries
  ELSE IF m.type = "dev_log_append" THEN Panel!LastOf(Append(log, m.entry), Cap)
  ELSE log

Copies(messages) == [1 .. Len(messages) + 1 -> Seq(Nat)]

IsMirror(copies, log, messages) ==
  /\ copies[1] = log
  /\ \A i \in 1 .. Len(messages) : copies[i + 1] = Handled(messages[i], copies[i])

\* Handling the messages in order makes end of log.
Leads(log, messages, end) ==
  \E copies \in Copies(messages) :
    IsMirror(copies, log, messages) /\ copies[Len(messages) + 1] = end

TraceTyped ==
  /\ channel \in Seq(Messages)
  /\ runTrace \in Seq(Nat) /\ devLogs \in Seq(Nat) /\ traces \in Nat
  /\ pending \in Commands \cup {None}
  /\ ~panel => ready = "unsent" /\ channel = <<>>

\* Once the history was sent, the copy is on its way to the recorded trace.
TraceMirrored ==
  \E end \in Seq(Nat) :
    Leads(devLogs, channel, end) /\ (ready = "handled" => end = runTrace)

TraceInv == TraceTyped /\ TraceMirrored

LEMMA LastOfTyped ==
  ASSUME NEW log \in Seq(Nat), NEW n \in Nat
  PROVE  Panel!LastOf(log, n) \in Seq(Nat)
<1>1. CASE Len(log) > n
  <2>1. Panel!LastOf(log, n) = SubSeq(log, Len(log) - n + 1, Len(log))
    BY <1>1 DEF Panel!LastOf
  <2>2. QED
    BY <1>1, <2>1
<1>2. CASE ~ (Len(log) > n)
  <2>1. Panel!LastOf(log, n) = SubSeq(log, 1, Len(log))
    BY <1>2 DEF Panel!LastOf
  <2>2. QED
    BY <2>1
<1>3. QED
  BY <1>1, <1>2

LEMMA HandledTyped ==
  ASSUME NEW m \in Messages, NEW log \in Seq(Nat)
  PROVE  Handled(m, log) \in Seq(Nat)
<1>1. CASE m.type = "external_navigate"
  BY <1>1 DEF Handled
<1>2. CASE m.type = "dev_log_history"
  BY <1>2 DEF Handled, Messages
<1>3. CASE m.type = "dev_log_append"
  <2>1. m.entry \in Nat
    BY <1>3 DEF Messages
  <2>2. Append(log, m.entry) \in Seq(Nat)
    BY <2>1
  <2>3. Handled(m, log) = Panel!LastOf(Append(log, m.entry), Cap)
    BY <1>3 DEF Handled
  <2>4. QED
    BY <2>2, <2>3, LastOfTyped, PanelAssumption
<1>4. QED
  BY <1>1, <1>2, <1>3 DEF Messages

LEMMA LeadsNowhere ==
  ASSUME NEW log \in Seq(Nat)
  PROVE  /\ Leads(log, <<>>, log)
         /\ \A end : Leads(log, <<>>, end) => end = log
<1>1. Leads(log, <<>>, log)
  <2> DEFINE copies == [i \in 1 .. 1 |-> log]
  <2>1. copies \in Copies(<<>>) /\ copies[1] = log
    BY DEF Copies
  <2>2. IsMirror(copies, log, <<>>)
    BY <2>1 DEF IsMirror
  <2>3. QED
    BY <2>1, <2>2 DEF Leads
<1>2. ASSUME NEW end, Leads(log, <<>>, end) PROVE end = log
  BY <1>2 DEF Leads, IsMirror
<1>3. QED
  BY <1>1, <1>2

\* A message that is sent adds one copy.
LEMMA MirrorGrows ==
  ASSUME NEW m \in Messages, NEW messages \in Seq(Messages), NEW log,
         NEW copies \in Copies(messages), IsMirror(copies, log, messages)
  PROVE  Leads(log, Append(messages, m), Handled(m, copies[Len(messages) + 1]))
<1> DEFINE n == Len(messages)
           more == [i \in 1 .. n + 2 |-> IF i = n + 2 THEN Handled(m, copies[n + 1]) ELSE copies[i]]
           longer == Append(messages, m)
<1> USE DEF Copies
<1>1. n \in Nat /\ Len(longer) = n + 1
  OBVIOUS
<1>2. Handled(m, copies[n + 1]) \in Seq(Nat)
  BY <1>1, HandledTyped
<1>3. more \in [1 .. Len(longer) + 1 -> Seq(Nat)]
  BY <1>1, <1>2
<1>4. ASSUME NEW i \in 1 .. Len(longer)
      PROVE  more[i + 1] = Handled(longer[i], more[i])
  <2>1. CASE i = n + 1
    <3>1. longer[i] = m /\ more[i + 1] = Handled(m, copies[n + 1]) /\ more[i] = copies[n + 1]
      BY <1>1, <2>1
    <3>2. QED
      BY <3>1
  <2>2. CASE i # n + 1
    <3>1. i \in 1 .. n
      BY <1>1, <2>2
    <3>2. longer[i] = messages[i] /\ more[i + 1] = copies[i + 1] /\ more[i] = copies[i]
      BY <1>1, <3>1
    <3>3. copies[i + 1] = Handled(messages[i], copies[i])
      BY <3>1 DEF IsMirror
    <3>4. QED
      BY <3>2, <3>3
  <2>3. QED
    BY <2>1, <2>2
<1>5. more[1] = log
  BY <1>1 DEF IsMirror
<1>6. more[n + 2] = Handled(m, copies[n + 1])
  BY <1>1
<1>7. \A i \in 1 .. Len(longer) : more[i + 1] = Handled(longer[i], more[i])
  BY <1>4
<1> HIDE DEF more, longer
<1>8. IsMirror(more, log, longer)
  BY <1>5, <1>7 DEF IsMirror
<1>9. more[Len(longer) + 1] = Handled(m, copies[n + 1])
  BY <1>1, <1>6
<1>10. QED
  BY <1>3, <1>8, <1>9 DEF longer, Leads

\* A message that is handled takes the first copy away.
LEMMA MirrorShrinks ==
  ASSUME NEW messages \in Seq(Messages), messages # <<>>, NEW log,
         NEW copies \in Copies(messages), IsMirror(copies, log, messages)
  PROVE  Leads(Handled(Head(messages), log), Tail(messages), copies[Len(messages) + 1])
<1> DEFINE n == Len(messages)
           less == [i \in 1 .. n |-> copies[i + 1]]
           shorter == Tail(messages)
<1> USE DEF Copies
<1>1. n \in Nat /\ n > 0 /\ Len(shorter) = n - 1
  OBVIOUS
<1>2. less \in [1 .. Len(shorter) + 1 -> Seq(Nat)]
  BY <1>1
<1>3. ASSUME NEW i \in 1 .. Len(shorter)
      PROVE  less[i + 1] = Handled(shorter[i], less[i])
  <2>1. i + 1 \in 1 .. n /\ i \in 1 .. n /\ shorter[i] = messages[i + 1]
    BY <1>1
  <2>2. copies[(i + 1) + 1] = Handled(messages[i + 1], copies[i + 1])
    BY <2>1 DEF IsMirror
  <2>3. QED
    BY <2>1, <2>2
<1>4. less[1] = Handled(Head(messages), log)
  <2>1. copies[1 + 1] = Handled(messages[1], copies[1]) /\ copies[1] = log
    BY <1>1 DEF IsMirror
  <2>2. QED
    BY <1>1, <2>1
<1>5. less[Len(shorter) + 1] = copies[n + 1]
  BY <1>1
<1>6. \A i \in 1 .. Len(shorter) : less[i + 1] = Handled(shorter[i], less[i])
  BY <1>3
<1> HIDE DEF less, shorter
<1>7. IsMirror(less, Handled(Head(messages), log), shorter)
  BY <1>4, <1>6 DEF IsMirror
<1>8. QED
  BY <1>2, <1>5, <1>7 DEF shorter, Leads

LEMMA LeadsFarther ==
  ASSUME NEW m \in Messages, NEW messages \in Seq(Messages), NEW log, NEW end \in Seq(Nat),
         Leads(log, messages, end)
  PROVE  Leads(log, Append(messages, m), Handled(m, end)) /\ Handled(m, end) \in Seq(Nat)
BY MirrorGrows, HandledTyped DEF Leads

LEMMA LeadsFromNext ==
  ASSUME NEW messages \in Seq(Messages), messages # <<>>, NEW log, NEW end,
         Leads(log, messages, end)
  PROVE  Leads(Handled(Head(messages), log), Tail(messages), end)
BY MirrorShrinks DEF Leads

LEMMA InitTraceInv == PartInit => TraceInv
<1> SUFFICES ASSUME Panel!Init PROVE TraceInv
  BY InitOfParts
<1>1. TraceTyped
  <2>1. <<>> \in Seq(Messages) /\ <<>> \in Seq(Nat)
    OBVIOUS
  <2>2. QED
    BY <2>1 DEF Panel!Init, TraceTyped
<1>2. TraceMirrored
  <2>1. <<>> \in Seq(Nat)
    OBVIOUS
  <2>2. Leads(<<>>, <<>>, <<>>)
    BY <2>1, LeadsNowhere, Zenon
  <2>3. QED
    BY <2>1, <2>2 DEF Panel!Init, TraceMirrored
<1>3. QED
  BY <1>1, <1>2 DEF TraceInv

\* Messages of the three kinds, and what the viewer makes of them.
LEMMA MessagesTyped ==
  /\ \A c \in Commands : /\ Panel!NavMessage(c) \in Messages
                         /\ \A log : Handled(Panel!NavMessage(c), log) = log
  /\ \A log \in Seq(Nat) : /\ Panel!HistoryMessage(log) \in Messages
                           /\ \A old : Handled(Panel!HistoryMessage(log), old) = log
  /\ \A n \in Nat : /\ Panel!AppendMessage(n) \in Messages
                    /\ \A log : Handled(Panel!AppendMessage(n), log) =
                                  Panel!LastOf(Append(log, n), Cap)
BY DEF Messages, Handled, Panel!NavMessage, Panel!HistoryMessage, Panel!AppendMessage

LEMMA CommandsKeepTraceInv ==
  ASSUME TraceInv, NEW c \in Commands, Panel!CommandStep(c)
  PROVE  TraceInv'
<1>1. CASE Panel!OpenWith(c) \/ Panel!OpenReturns(c)
  BY <1>1 DEF Panel!OpenWith, Panel!OpenReturns, TraceInv, TraceTyped, TraceMirrored
<1>2. CASE Panel!NavigateTo(c)
  <2>1. UNCHANGED <<panel, ready, runTrace, devLogs, traces>>
    BY <1>2 DEF Panel!NavigateTo
  <2>2. CASE panel
    <3>1. channel' = Append(channel, Panel!NavMessage(c)) /\ pending' = pending
      BY <1>2, <2>2 DEF Panel!NavigateTo
    <3>2. TraceTyped'
      BY <2>1, <2>2, <3>1, MessagesTyped DEF TraceInv, TraceTyped
    <3>3. TraceMirrored'
      BY <2>1, <3>1, MessagesTyped, LeadsFarther DEF TraceInv, TraceTyped, TraceMirrored
    <3>4. QED
      BY <3>2, <3>3 DEF TraceInv
  <2>3. CASE ~ panel
    BY <1>2, <2>1, <2>3 DEF Panel!NavigateTo, TraceInv, TraceTyped, TraceMirrored
  <2>4. QED
    BY <2>2, <2>3
<1>3. QED
  BY <1>1, <1>2 DEF Panel!CommandStep

\* A panel that opens or closes starts from nothing.
LEMMA FreshKeepsTraceInv ==
  ASSUME TraceInv, Panel!ResolveEditor \/ Panel!Close
  PROVE  TraceInv'
<1>1. /\ channel' = <<>> /\ devLogs' = <<>> /\ ready' = "unsent"
      /\ UNCHANGED <<runTrace, traces, pending>>
  BY DEF Panel!ResolveEditor, Panel!Close
<1>2. TraceMirrored'
  <2>1. <<>> \in Seq(Nat)
    OBVIOUS
  <2>2. Leads(<<>>, <<>>, <<>>)
    BY <2>1, LeadsNowhere, Zenon
  <2>3. QED
    BY <1>1, <2>1, <2>2 DEF TraceMirrored
<1>3. TraceTyped'
  <2>1. <<>> \in Seq(Messages) /\ <<>> \in Seq(Nat)
    OBVIOUS
  <2>2. QED
    BY <1>1, <2>1 DEF TraceInv, TraceTyped
<1>4. QED
  BY <1>2, <1>3 DEF TraceInv

LEMMA ReadyKeepsTraceInv ==
  ASSUME TraceInv, Panel!LoadScript \/ Panel!ReceiveReady
  PROVE  TraceInv'
BY DEF TraceInv, TraceTyped, TraceMirrored, Panel!LoadScript, Panel!ReceiveReady

LEMMA AnswerReadyKeepsTraceInv == ASSUME TraceInv, Panel!AnswerReady PROVE TraceInv'
<1> DEFINE history0 == Panel!HistoryMessage(runTrace)
           sent == Append(channel, history0)
<1>1. /\ panel /\ panel' = panel /\ ready' = "handled" /\ pending' = None
      /\ UNCHANGED <<runTrace, devLogs, traces>>
      /\ channel' = channel \o <<history0>> \o
           (IF pending = None THEN <<>> ELSE <<Panel!NavMessage(pending)>>)
  BY DEF Panel!AnswerReady
<1>2. /\ channel \in Seq(Messages) /\ runTrace \in Seq(Nat) /\ history0 \in Messages
      /\ pending \in Commands \cup {None}
  BY MessagesTyped DEF TraceInv, TraceTyped
<1>3. sent \in Seq(Messages) /\ Leads(devLogs, sent, runTrace)
  BY <1>2, MessagesTyped, LeadsFarther DEF TraceInv, TraceMirrored
<1>4. channel \o <<history0>> = sent
  BY <1>2
<1> HIDE DEF sent, history0
<1>5. CASE pending = None
  <2>1. channel' = sent
    BY <1>1, <1>3, <1>4, <1>5
  <2>2. TraceMirrored'
    BY <1>1, <1>2, <1>3, <2>1 DEF TraceMirrored
  <2>3. QED
    BY <1>1, <1>3, <2>1, <2>2 DEF TraceInv, TraceTyped
<1>6. CASE pending # None
  <2>1. Panel!NavMessage(pending) \in Messages
    BY <1>2, <1>6, MessagesTyped
  <2>2. channel' = Append(sent, Panel!NavMessage(pending))
    BY <1>1, <1>3, <1>4, <1>6, <2>1
  <2>3. Leads(devLogs, channel', runTrace) /\ channel' \in Seq(Messages)
    BY <1>2, <1>3, <1>6, <2>1, <2>2, MessagesTyped, LeadsFarther
  <2>4. TraceMirrored'
    BY <1>1, <1>2, <2>3 DEF TraceMirrored
  <2>5. QED
    BY <1>1, <2>3, <2>4 DEF TraceInv, TraceTyped
<1>7. QED
  BY <1>5, <1>6

LEMMA ReceiveKeepsTraceInv == ASSUME TraceInv, Panel!Receive PROVE TraceInv'
<1>1. /\ channel # <<>> /\ channel' = Tail(channel)
      /\ UNCHANGED <<panel, ready, pending, runTrace, traces>>
  BY DEF Panel!Receive
<1>2. devLogs' = Handled(Head(channel), devLogs)
  BY DEF Panel!Receive, Handled
<1>3. channel \in Seq(Messages) /\ Head(channel) \in Messages /\ devLogs \in Seq(Nat)
  BY <1>1 DEF TraceInv, TraceTyped
<1>4. channel' \in Seq(Messages) /\ devLogs' \in Seq(Nat)
  BY <1>1, <1>2, <1>3, HandledTyped
<1>5. TraceMirrored'
  BY <1>1, <1>2, <1>3, LeadsFromNext DEF TraceInv, TraceMirrored
<1>6. TraceTyped'
  BY <1>1, <1>4 DEF TraceInv, TraceTyped
<1>7. QED
  BY <1>5, <1>6 DEF TraceInv

LEMMA EmitKeepsTraceInv == ASSUME TraceInv, Panel!EmitRunTrace PROVE TraceInv'
<1>1. /\ traces' = traces + 1 /\ runTrace' = Panel!LastOf(Append(runTrace, traces), Cap)
      /\ channel' = IF panel THEN Append(channel, Panel!AppendMessage(traces)) ELSE channel
      /\ UNCHANGED <<panel, ready, pending, devLogs>>
  BY DEF Panel!EmitRunTrace
<1>2. /\ channel \in Seq(Messages) /\ runTrace \in Seq(Nat) /\ devLogs \in Seq(Nat)
      /\ traces \in Nat
  BY DEF TraceInv, TraceTyped
<1>3. runTrace' \in Seq(Nat)
  <2>1. Append(runTrace, traces) \in Seq(Nat)
    BY <1>2
  <2>2. QED
    BY <1>1, <2>1, LastOfTyped, PanelAssumption
<1>4. Panel!AppendMessage(traces) \in Messages
  BY <1>2, MessagesTyped
<1>5. TraceTyped'
  BY <1>1, <1>2, <1>3, <1>4 DEF TraceInv, TraceTyped
<1>6. TraceMirrored'
  <2>1. CASE panel
    <3>1. channel' = Append(channel, Panel!AppendMessage(traces))
      BY <1>1, <2>1
    <3>2. QED
      BY <1>1, <1>2, <1>4, <3>1, MessagesTyped, LeadsFarther DEF TraceInv, TraceMirrored
  <2>2. CASE ~ panel
    BY <1>1, <2>2 DEF TraceInv, TraceTyped, TraceMirrored
  <2>3. QED
    BY <2>1, <2>2
<1>7. QED
  BY <1>5, <1>6 DEF TraceInv

LEMMA NextTraceInv == TraceInv /\ [PartNext]_allVars => TraceInv'
<1>1. ASSUME TraceInv, UNCHANGED panelVars PROVE TraceInv'
  BY <1>1 DEF panelVars, TraceInv, TraceTyped, TraceMirrored
<1>2. ASSUME TraceInv, Panel!Next PROVE TraceInv'
  BY <1>2, CommandsKeepTraceInv, FreshKeepsTraceInv, ReadyKeepsTraceInv,
     AnswerReadyKeepsTraceInv, ReceiveKeepsTraceInv, EmitKeepsTraceInv
     DEF Panel!Next, Panel!PanelStep
<1>3. QED
  BY <1>1, <1>2, StepsOfParts

\* Once the viewer's 'ready' message is answered and its messages are handled,
\* its Dev tab shows the recorded runs, each once (resolveCustomEditor of
\* editor.ts, emitRunTrace of runner.ts).
THEOREM TraceStaysMirrored == BoundarySpec => []LogMirrored
<1>1. TraceInv => LogMirrored
  BY LeadsNowhere DEF TraceInv, TraceTyped, TraceMirrored, LogMirrored, Panel!LogMirrored
<1>2. QED
  BY <1>1, InitTraceInv, NextTraceInv, PTL DEF BoundarySpec

-----------------------------------------------------------------------------
(* Navigation.  A command whose navigation was handed over is in one place: *)
(* pending, on its way, carried out, or dropped.                            *)

Navigates(m) == m.type = "external_navigate"
Visited(c) == \E i \in 1 .. Len(visited) : visited[i] = c

\* A navigation on its way is there once, was handed over, and is nowhere else.
SentOnce ==
  /\ \A i \in 1 .. Len(channel) : Navigates(channel[i]) =>
       LET c == channel[i].command
       IN  cmd[c] = "done" /\ c # pending /\ ~ Visited(c)
  /\ \A i, j \in 1 .. Len(channel) :
       Navigates(channel[i]) /\ Navigates(channel[j]) /\ channel[i].command = channel[j].command
         => i = j

PendingOnce == pending # None => cmd[pending] = "done" /\ ~ Visited(pending)

NavInv ==
  /\ TraceInv
  /\ DOMAIN cmd = Commands
  /\ visited \in Seq(Commands)
  /\ SentOnce
  /\ PendingOnce
  /\ \A i \in 1 .. Len(visited) : cmd[visited[i]] = "done"
  /\ NavigatedOnce

LEMMA CommandOfNavigation ==
  ASSUME TraceInv, NEW i \in 1 .. Len(channel), Navigates(channel[i])
  PROVE  channel[i].command \in Commands
<1>1. channel[i] \in Messages
  BY DEF TraceInv, TraceTyped
<1>2. QED
  BY <1>1 DEF Messages, Navigates

LEMMA InitNavInv == PartInit => NavInv
<1> SUFFICES ASSUME Panel!Init, TraceInv PROVE NavInv
  BY InitOfParts, InitTraceInv
<1>1. visited = <<>> /\ channel = <<>> /\ pending = None /\ DOMAIN cmd = Commands
  BY DEF Panel!Init
<1>2. QED
  BY <1>1 DEF NavInv, SentOnce, PendingOnce, NavigatedOnce, Panel!NavigatedOnce

\* Messages that carry no navigation change nothing.
LEMMA OtherMessages ==
  ASSUME NavInv, TraceInv', UNCHANGED visited, pending' = pending,
         DOMAIN cmd' = Commands, \A d \in Commands : cmd[d] = "done" => cmd'[d] = "done",
         \A i \in 1 .. Len(channel') : Navigates(channel'[i]) =>
           i \in 1 .. Len(channel) /\ channel'[i] = channel[i]
  PROVE  NavInv'
<1>1. \A i \in 1 .. Len(channel) : Navigates(channel[i]) => channel[i].command \in Commands
  BY CommandOfNavigation DEF NavInv
<1>2. SentOnce'
  BY <1>1 DEF NavInv, SentOnce, Visited
<1>3. visited \in Seq(Commands) /\ pending \in Commands \cup {None}
  BY DEF NavInv, TraceInv, TraceTyped
<1>4. QED
  BY <1>2, <1>3 DEF NavInv, PendingOnce, Visited, NavigatedOnce, Panel!NavigatedOnce

\* A navigation that was pending, or is handed over just now, is sent.
LEMMA NavigationSent ==
  ASSUME NavInv, TraceInv', NEW c \in Commands,
         NEW k \in 1 .. Len(channel'), k \notin 1 .. Len(channel),
         channel'[k] = Panel!NavMessage(c),
         \A i \in 1 .. Len(channel') : Navigates(channel'[i]) =>
           i = k \/ (i \in 1 .. Len(channel) /\ channel'[i] = channel[i]),
         visited' = visited, DOMAIN cmd' = Commands, cmd'[c] = "done",
         \A d \in Commands : cmd[d] = "done" => cmd'[d] = "done",
         pending' # c, pending' # None => pending' = pending,
         c = pending \/ cmd[c] # "done"
  PROVE  NavInv'
<1> DEFINE n == Len(channel)
<1>1. visited \in Seq(Commands) /\ pending \in Commands \cup {None} /\ None \notin Commands
  BY PanelAssumption DEF NavInv, TraceInv, TraceTyped
<1>2. Panel!NavMessage(c).command = c
  BY DEF Panel!NavMessage
<1>3. \A i \in 1 .. n : Navigates(channel[i]) => channel[i].command \in Commands
  BY CommandOfNavigation DEF NavInv
<1>4. ~ Visited(c) /\ \A i \in 1 .. n : Navigates(channel[i]) => channel[i].command # c
  BY DEF NavInv, SentOnce, PendingOnce, Visited
<1>5. ASSUME NEW i \in 1 .. Len(channel'), Navigates(channel'[i])
      PROVE  /\ cmd'[channel'[i].command] = "done" /\ channel'[i].command # pending'
             /\ ~ Visited(channel'[i].command)
  <2>1. CASE i = k
    BY <1>2, <1>4, <2>1
  <2>2. CASE i # k
    <3>1. i \in 1 .. n /\ channel'[i] = channel[i]
      BY <1>5, <2>2
    <3>2. QED
      BY <1>1, <1>3, <1>5, <3>1 DEF NavInv, SentOnce
  <2>3. QED
    BY <2>1, <2>2
<1>6. ASSUME NEW i \in 1 .. Len(channel'), NEW j \in 1 .. Len(channel'),
             Navigates(channel'[i]), Navigates(channel'[j]),
             channel'[i].command = channel'[j].command
      PROVE  i = j
  BY <1>2, <1>4, <1>6 DEF NavInv, SentOnce
<1>7. SentOnce'
  BY <1>5, <1>6 DEF SentOnce, Visited
<1>8. PendingOnce'
  BY <1>1 DEF NavInv, PendingOnce, Visited
<1>9. QED
  BY <1>1, <1>7, <1>8 DEF NavInv, NavigatedOnce, Panel!NavigatedOnce

LEMMA CommandsKeepNavInv ==
  ASSUME NavInv, NEW c \in Commands, Panel!CommandStep(c)
  PROVE  NavInv'
<1> USE DEF NavInv
<1>1. TraceInv'
  BY CommandsKeepTraceInv
<1>2. CASE Panel!OpenWith(c) \/ Panel!OpenReturns(c)
  BY <1>1, <1>2, OtherMessages DEF Panel!OpenWith, Panel!OpenReturns
<1>3. CASE Panel!NavigateTo(c)
  <2>1. /\ cmd[c] = "opened" /\ cmd' = [cmd EXCEPT ![c] = "done"] /\ visited' = visited
        /\ cmd'[c] = "done" /\ DOMAIN cmd' = Commands
    BY <1>3 DEF Panel!NavigateTo
  <2>2. ~ Visited(c) /\ pending # c
        /\ \A i \in 1 .. Len(channel) : Navigates(channel[i]) => channel[i].command # c
    BY <2>1, PanelAssumption DEF SentOnce, PendingOnce, Visited
  <2>3. CASE panel
    <3>1. channel' = Append(channel, Panel!NavMessage(c)) /\ pending' = pending
      BY <1>3, <2>3 DEF Panel!NavigateTo
    <3>2. channel \in Seq(Messages)
      BY DEF TraceInv, TraceTyped
    <3> DEFINE k == Len(channel) + 1
    <3>3. /\ k \in 1 .. Len(channel') /\ k \notin 1 .. Len(channel)
          /\ channel'[k] = Panel!NavMessage(c)
          /\ \A i \in 1 .. Len(channel') : i = k \/ (i \in 1 .. Len(channel) /\ channel'[i] = channel[i])
      BY <3>1, <3>2
    <3> HIDE DEF k
    <3>4. QED
      BY <1>1, <2>1, <2>2, <3>1, <3>3, NavigationSent
  <2>4. CASE ~ panel
    <3>1. channel' = channel /\ pending' = c
      BY <1>3, <2>4 DEF Panel!NavigateTo
    <3>2. SentOnce'
      BY <2>1, <2>2, <3>1, CommandOfNavigation DEF SentOnce, Visited
    <3>3. PendingOnce'
      BY <2>1, <2>2, <3>1 DEF PendingOnce, Visited
    <3>4. QED
      BY <1>1, <2>1, <3>2, <3>3 DEF NavigatedOnce, Panel!NavigatedOnce
  <2>5. QED
    BY <2>3, <2>4
<1>4. QED
  BY <1>2, <1>3 DEF Panel!CommandStep

LEMMA PanelKeepsNavInv ==
  ASSUME NavInv,
         \/ Panel!ResolveEditor \/ Panel!LoadScript \/ Panel!ReceiveReady
         \/ Panel!Close \/ Panel!EmitRunTrace
  PROVE  NavInv'
<1> USE DEF NavInv
<1>1. TraceInv'
  BY FreshKeepsTraceInv, ReadyKeepsTraceInv, EmitKeepsTraceInv
<1>2. UNCHANGED <<cmd, visited, pending>>
  BY DEF Panel!ResolveEditor, Panel!LoadScript, Panel!ReceiveReady, Panel!Close,
         Panel!EmitRunTrace
<1>3. channel' \in {channel, <<>>, Append(channel, Panel!AppendMessage(traces))}
  BY DEF Panel!ResolveEditor, Panel!LoadScript, Panel!ReceiveReady, Panel!Close,
         Panel!EmitRunTrace
<1>4. ~ Navigates(Panel!AppendMessage(traces))
  BY DEF Navigates, Panel!AppendMessage
<1>5. channel \in Seq(Messages)
  BY DEF TraceInv, TraceTyped
<1>6. \A i \in 1 .. Len(channel') : Navigates(channel'[i]) =>
        i \in 1 .. Len(channel) /\ channel'[i] = channel[i]
  BY <1>3, <1>4, <1>5
<1>7. QED
  BY <1>1, <1>2, <1>6, OtherMessages

LEMMA AnswerReadyKeepsNavInv == ASSUME NavInv, Panel!AnswerReady PROVE NavInv'
<1> USE DEF NavInv
<1> DEFINE n == Len(channel)
           history0 == Panel!HistoryMessage(runTrace)
<1>1. TraceInv'
  BY AnswerReadyKeepsTraceInv
<1>2. /\ UNCHANGED <<cmd, visited>> /\ pending' = None
      /\ channel' = channel \o <<history0>> \o
           (IF pending = None THEN <<>> ELSE <<Panel!NavMessage(pending)>>)
  BY DEF Panel!AnswerReady
<1>3. /\ channel \in Seq(Messages) /\ n \in Nat /\ history0 \in Messages
      /\ pending \in Commands \cup {None}
  BY MessagesTyped DEF TraceInv, TraceTyped
<1>4. ~ Navigates(history0)
  BY DEF Navigates, Panel!HistoryMessage
<1> HIDE DEF history0
<1>5. CASE pending = None
  <2>1. channel' = Append(channel, history0)
    BY <1>2, <1>3, <1>5
  <2>2. \A i \in 1 .. Len(channel') : Navigates(channel'[i]) =>
          i \in 1 .. n /\ channel'[i] = channel[i]
    BY <1>3, <1>4, <2>1
  <2>3. QED
    BY <1>1, <1>2, <1>5, <2>2, OtherMessages
<1>6. CASE pending # None
  <2>1. Panel!NavMessage(pending) \in Messages /\ pending \in Commands
    BY <1>3, <1>6, MessagesTyped
  <2>2. channel' = Append(Append(channel, history0), Panel!NavMessage(pending))
    BY <1>2, <1>3, <1>6, <2>1
  <2> DEFINE k == n + 2
  <2>3. /\ k \in 1 .. Len(channel') /\ k \notin 1 .. n /\ channel'[k] = Panel!NavMessage(pending)
        /\ \A i \in 1 .. Len(channel') : Navigates(channel'[i]) =>
             i = k \/ (i \in 1 .. n /\ channel'[i] = channel[i])
    BY <1>3, <1>4, <2>1, <2>2
  <2>4. cmd'[pending] = "done" /\ pending' # pending
    BY <1>2, <1>6 DEF PendingOnce
  <2> HIDE DEF k
  <2>5. QED
    BY <1>1, <1>2, <2>1, <2>3, <2>4, NavigationSent
<1>7. QED
  BY <1>5, <1>6

LEMMA ReceiveKeepsNavInv == ASSUME NavInv, Panel!Receive PROVE NavInv'
<1> USE DEF NavInv
<1> DEFINE m == Head(channel)
<1>1. TraceInv'
  BY ReceiveKeepsTraceInv
<1>2. channel # <<>> /\ channel' = Tail(channel) /\ UNCHANGED <<cmd, pending>>
  BY DEF Panel!Receive
<1>3. visited' = IF Navigates(m) THEN Append(visited, m.command) ELSE visited
  BY DEF Panel!Receive, Navigates
<1>4. /\ channel \in Seq(Messages) /\ Len(channel) \in Nat /\ Len(channel) > 0 /\ m = channel[1]
      /\ visited \in Seq(Commands)
  BY <1>2 DEF TraceInv, TraceTyped
<1>5. /\ Len(channel') = Len(channel) - 1
      /\ \A i \in 1 .. Len(channel') : i + 1 \in 1 .. Len(channel) /\ channel'[i] = channel[i + 1]
  BY <1>2, <1>4
<1>6. CASE ~ Navigates(m)
  <2>1. visited' = visited
    BY <1>3, <1>6
  <2>2. SentOnce'
    BY <1>2, <1>4, <1>5, <2>1 DEF SentOnce, Visited
  <2>3. QED
    BY <1>1, <1>2, <2>1, <2>2 DEF PendingOnce, Visited, NavigatedOnce, Panel!NavigatedOnce
<1>7. CASE Navigates(m)
  <2> DEFINE c == m.command
  <2>1. c \in Commands /\ cmd[c] = "done" /\ c # pending /\ ~ Visited(c)
    BY <1>4, <1>7, CommandOfNavigation DEF SentOnce
  <2>2. /\ visited' = Append(visited, c) /\ Len(visited') = Len(visited) + 1
        /\ visited' \in Seq(Commands) /\ Len(visited) \in Nat
        /\ \A i \in 1 .. Len(visited') :
             \/ i = Len(visited) + 1 /\ visited'[i] = c
             \/ i \in 1 .. Len(visited) /\ visited'[i] = visited[i]
    BY <1>3, <1>4, <1>7, <2>1
  <2>3. \A i \in 1 .. Len(channel') : Navigates(channel'[i]) => channel'[i].command # c
    BY <1>4, <1>5, <1>7 DEF SentOnce
  <2> HIDE DEF c
  <2>4. \A d : d # c /\ ~ Visited(d) => ~ Visited(d)'
    BY <2>2 DEF Visited
  <2>5. SentOnce'
    BY <1>2, <1>5, <2>3, <2>4 DEF SentOnce
  <2>6. PendingOnce'
    BY <1>2, <2>1, <2>4 DEF PendingOnce
  <2>7. NavigatedOnce'
    BY <2>1, <2>2 DEF NavigatedOnce, Panel!NavigatedOnce, Visited
  <2>8. \A i \in 1 .. Len(visited') : cmd'[visited'[i]] = "done"
    BY <1>2, <2>1, <2>2
  <2>9. QED
    BY <1>1, <1>2, <2>2, <2>5, <2>6, <2>7, <2>8
<1>8. QED
  BY <1>6, <1>7

LEMMA NextNavInv == NavInv /\ [PartNext]_allVars => NavInv'
<1>1. ASSUME NavInv, UNCHANGED panelVars PROVE NavInv'
  BY <1>1 DEF panelVars, NavInv, TraceInv, TraceTyped, TraceMirrored, SentOnce, PendingOnce,
              Visited, NavigatedOnce, Panel!NavigatedOnce
<1>2. ASSUME NavInv, Panel!Next PROVE NavInv'
  BY <1>2, CommandsKeepNavInv, PanelKeepsNavInv, AnswerReadyKeepsNavInv, ReceiveKeepsNavInv
     DEF Panel!Next, Panel!PanelStep
<1>3. QED
  BY <1>1, <1>2, StepsOfParts

\* A navigation command is carried out by the viewer at most once, whether it
\* was sent to an open panel or kept for one, and however often the panel is
\* closed and opened (navigateTo, pendingNavigation and 'ready' of editor.ts).
THEOREM NavigationStaysOnce == BoundarySpec => []NavigatedOnce
<1>1. NavInv => NavigatedOnce
  BY DEF NavInv
<1>2. QED
  BY <1>1, InitNavInv, NextNavInv, PTL DEF BoundarySpec

-----------------------------------------------------------------------------
(* capture, for every budget, pipe capacity and volume of output.           *)

USE LimitAssumption, CapacityAssumption, VolumeAssumption

LEMMA TwoPipes ==
  /\ "stdout" \in Pipes /\ "stderr" \in Pipes
  /\ \A p \in Pipes : p = "stdout" \/ p = "stderr"
  BY DEF Pipes

CaptureTypes ==
  /\ child \in {"running", "exited", "dying", "killed"}
  /\ inherited \in BOOLEAN /\ expired \in BOOLEAN /\ final \in BOOLEAN
  /\ written \in [Pipes -> Nat] /\ atExit \in [Pipes -> Nat]
  /\ got \in [Pipes -> Nat]
  /\ pc \in Steps
  /\ available \in Nat /\ remaining \in Nat

\* The ledger: what was collected is what left the budget, and what was
\* reported can still be read and paid for.
PipeLedger(p) ==
  /\ got[p] <= written[p] /\ written[p] <= Volume
  /\ atExit[p] <= written[p]
  /\ pc = ReadOf(p) => available <= written[p] - got[p]

BudgetLedger ==
  /\ remaining + got["stdout"] + got["stderr"] = Limit
  /\ pc \in {"read_stdout", "read_stderr"} => available <= remaining
  /\ available <= Volume

\* The final drains begin after the child's exit and each covers its pipe.
FinalDrains ==
  /\ final => Gone
  /\ pc = "ok" => final
  /\ final => pc \notin {"try_wait", "deadline", "wait"}
  /\ final /\ pc = "read_stdout" => got["stdout"] + available >= atExit["stdout"]
  /\ final /\ pc \in {"peek_stderr", "read_stderr", "ok"}
       => got["stdout"] >= atExit["stdout"]
  /\ final /\ pc = "read_stderr" => got["stderr"] + available >= atExit["stderr"]
  /\ final /\ pc = "ok" => got["stderr"] >= atExit["stderr"]

CaptureInv ==
  /\ CaptureTypes
  /\ PipeLedger("stdout") /\ PipeLedger("stderr") /\ BudgetLedger
  /\ FinalDrains /\ (pc = "err" => Gone)

LEMMA InitCaptureInv == Init => CaptureInv
<1> SUFFICES ASSUME Init PROVE CaptureInv
  OBVIOUS
<1>1. CaptureTypes
  BY DEF Init, CaptureTypes, Steps
<1>2. PipeLedger("stdout") /\ PipeLedger("stderr")
  BY TwoPipes DEF Init, PipeLedger, ReadOf
<1>3. BudgetLedger
  BY TwoPipes DEF Init, BudgetLedger
<1>4. FinalDrains /\ (pc = "err" => Gone)
  BY DEF Init, FinalDrains
<1> QED
  BY <1>1, <1>2, <1>3, <1>4 DEF CaptureInv

LEMMA StepCaptureInv == CaptureInv /\ [Next]_vars => CaptureInv'
<1> SUFFICES ASSUME CaptureInv, [Next]_vars PROVE CaptureInv'
  OBVIOUS
<1> USE TwoPipes DEF CaptureInv, CaptureTypes, PipeLedger, BudgetLedger, FinalDrains, Gone,
                     Steps, ReadOf
<1>1. ASSUME NEW p \in Pipes, Write(p) PROVE CaptureInv'
  <2>1. /\ written' \in [Pipes -> Nat]
        /\ written'[p] = written[p] + 1 /\ written'[p] <= Volume
        /\ \A q \in Pipes : q # p => written'[q] = written[q]
    BY <1>1 DEF Write
  <2>2. CASE p = "stdout"
    BY <1>1, <2>1, <2>2 DEF Write, capture
  <2>3. CASE p = "stderr"
    BY <1>1, <2>1, <2>3 DEF Write, capture
  <2> QED
    BY <2>2, <2>3
<1>2. CASE StartDescendant
  BY <1>2 DEF StartDescendant, capture
<1>3. CASE DescendantExits
  <2>1. inherited' = FALSE /\ UNCHANGED <<child, written, atExit, expired>>
        /\ UNCHANGED <<pc, final, available, got, remaining>>
    BY <1>3 DEF DescendantExits, capture
  <2>2. CaptureTypes'
    BY <2>1
  <2>3. PipeLedger("stdout")' /\ PipeLedger("stderr")'
    BY <2>1
  <2>4. BudgetLedger'
    BY <2>1
  <2>5. FinalDrains' /\ (pc' = "err" => Gone')
    BY <2>1
  <2> QED
    BY <2>2, <2>3, <2>4, <2>5
<1>4. CASE ChildExits
  BY <1>4 DEF ChildExits, capture
<1>5. CASE ChildDies
  BY <1>5 DEF ChildDies, capture
<1>6. CASE Expire
  BY <1>6 DEF Expire, capture
<1>7. ASSUME NEW p \in Pipes, Peek(p) PROVE CaptureInv'
  <2>1. /\ available' = written[p] - got[p] /\ available' \in Nat
        /\ got[p] \in Nat /\ written[p] \in Nat /\ written[p] <= Volume
    BY <1>7 DEF Peek, InPipe
  <2>2. CASE p = "stdout"
    BY <1>7, <2>1, <2>2 DEF Peek, InPipe, PeekOf, procs
  <2>3. CASE p = "stderr"
    BY <1>7, <2>1, <2>3 DEF Peek, InPipe, PeekOf, procs
  <2> QED
    BY <2>2, <2>3
<1>8. ASSUME NEW p \in Pipes, Read(p) PROVE CaptureInv'
  <2>1. /\ got' \in [Pipes -> Nat]
        /\ got'[p] = got[p] + available
        /\ \A q \in Pipes : q # p => got'[q] = got[q]
    BY <1>8 DEF Read
  <2>2. CASE p = "stdout"
    BY <1>8, <2>1, <2>2 DEF Read, AfterDrain, procs
  <2>3. CASE p = "stderr"
    BY <1>8, <2>1, <2>3 DEF Read, AfterDrain, procs
  <2> QED
    BY <2>2, <2>3
<1>9. CASE TryWait
  BY <1>9 DEF TryWait, procs
<1>10. CASE CheckDeadline
  BY <1>10 DEF CheckDeadline, procs
<1>11. CASE Wait
  BY <1>11 DEF Wait, procs
<1>12. CASE SystemError
  BY <1>12 DEF SystemError, procs
<1>13. CASE Kill
  BY <1>13 DEF Kill
<1>14. CASE Reap
  BY <1>14 DEF Reap, procs
<1>15. CASE UNCHANGED vars
  BY <1>15 DEF vars
<1> QED
  BY <1>1, <1>2, <1>3, <1>4, <1>5, <1>6, <1>7, <1>8, <1>9, <1>10, <1>11,
     <1>12, <1>13, <1>14, <1>15
     DEF Next, CaptureStep, ChildWrites

LEMMA CaptureInvariance == Spec => []CaptureInv
  BY InitCaptureInv, StepCaptureInv, PTL DEF Spec

\* capture is type correct: in particular the budget left, an unsigned number
\* in the code, never goes below zero.
THEOREM CaptureTypeCorrect == Spec => []TypeOK
<1>1. ASSUME CaptureInv PROVE TypeOK
  <2> USE <1>1 DEF CaptureInv, CaptureTypes, PipeLedger, BudgetLedger
  <2>1. \A p \in Pipes : /\ written[p] \in 0 .. Volume
                         /\ atExit[p] \in 0 .. Volume
                         /\ got[p] \in 0 .. Volume
    BY TwoPipes
  <2>2. available \in 0 .. Volume
    OBVIOUS
  <2>3. remaining \in 0 .. Limit
    BY TwoPipes
  <2> QED
    BY <2>1, <2>2, <2>3 DEF TypeOK
<1> QED
  BY <1>1, CaptureInvariance, PTL

\* Both pipes together never exceed the output budget (drain).
THEOREM BudgetIsKept == Spec => []BudgetKept
<1>1. CaptureInv => BudgetKept
  BY TwoPipes DEF CaptureInv, CaptureTypes, BudgetLedger, BudgetKept
<1> QED
  BY <1>1, CaptureInvariance, PTL

\* A successful capture holds all the child wrote before it exited.
THEOREM NothingIsLost == Spec => []NothingLost
<1>1. CaptureInv => NothingLost
  BY TwoPipes DEF CaptureInv, CaptureTypes, FinalDrains, NothingLost
<1> QED
  BY <1>1, CaptureInvariance, PTL

\* When capture returns, the child it launched is gone.
THEOREM NoOrphanIsLeft == Spec => []NoOrphan
<1>1. CaptureInv => NoOrphan
  BY DEF CaptureInv, FinalDrains, NoOrphan
<1> QED
  BY <1>1, CaptureInvariance, PTL
=============================================================================
