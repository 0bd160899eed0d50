----------------------- MODULE FollowIndexCacheProofs -----------------------
(***************************************************************************)
(* FollowIndexCache for any number of runs, any choice of --reload and     *)
(* --hostile runs and any number of replacements of the image.             *)
(***************************************************************************)
EXTENDS FollowIndexCache, TLAPS

\* What a run holds while it works: metadata no newer than the image and,
\* once it has an index, the stamp it read and content from then or later.
RunsCoherent ==
  \A r \in Runs :
    /\ meta[r] <= image
    /\ progress[r] \in {"create", "write", "done"} =>
         /\ index[r].schema
         /\ index[r].stamp = meta[r]
         /\ meta[r] <= index[r].content
         /\ index[r].content <= image

IInv == IndexTypeOK /\ CacheNeverBackdated /\ RunsCoherent

LEMMA InitIInv == IndexInit => IInv
<1> SUFFICES ASSUME IndexInit PROVE IInv
  OBVIOUS
<1>1. 0 \in Versions /\ NoIndex \in Index /\ ~NoIndex.schema
  BY MaxVersionAssumption DEF Versions, Index, NoIndex
<1>2. IndexTypeOK
  <2>1. image \in Versions /\ parses \subseteq Versions
    BY <1>1 DEF IndexInit
  <2>2. cache \in Index \cup {Absent, Torn}
    BY <1>1 DEF IndexInit
  <2>3. progress \in [Runs -> IndexSteps]
    BY DEF IndexInit, IndexSteps
  <2>4. meta \in [Runs -> Versions] /\ index \in [Runs -> Index]
    BY <1>1 DEF IndexInit
  <2>5. QED
    BY <2>1, <2>2, <2>3, <2>4 DEF IndexTypeOK
<1>3. CacheNeverBackdated
  BY <1>1 DEF IndexInit, CacheNeverBackdated, IsDocument
<1>4. RunsCoherent
  <2> SUFFICES ASSUME NEW r \in Runs
               PROVE  meta[r] <= image /\ progress[r] = "start"
    BY DEF RunsCoherent
  <2>1. QED
    BY DEF IndexInit
<1>5. QED
  BY <1>2, <1>3, <1>4 DEF IInv

\* The documents that may be in the cache or in a run's hands.
LEMMA BuiltIndexType ==
  ASSUME IInv, NEW r \in Runs
  PROVE  BuiltIndex(r) \in Index
BY DEF IInv, IndexTypeOK, BuiltIndex, Index

LEMMA NextIInv == IInv /\ [IndexNext]_indexVars => IInv'
<1> SUFFICES ASSUME IInv, [IndexNext]_indexVars PROVE IInv'
  OBVIOUS
<1> USE MaxVersionAssumption, MarkersAssumption
        DEF IInv, IndexTypeOK, CacheNeverBackdated, RunsCoherent, IsDocument,
            Versions, IndexSteps, MoveOn
<1>1. CASE ReplaceImage
  <2>1. image' \in Versions /\ image < image'
    BY <1>1 DEF ReplaceImage
  <2>2. IndexTypeOK'
    BY <1>1, <2>1 DEF ReplaceImage
  <2>3. CacheNeverBackdated'
    BY <1>1, <2>1 DEF ReplaceImage, Index
  <2>4. RunsCoherent'
    BY <1>1, <2>1 DEF ReplaceImage, Index
  <2>5. QED
    BY <2>2, <2>3, <2>4
<1>2. ASSUME NEW r \in Runs, ReadMeta(r) PROVE IInv'
  BY <1>2 DEF ReadMeta
<1>3. ASSUME NEW r \in Runs, CacheHit(r) PROVE IInv'
  <2>1. /\ cache \in Index /\ cache.schema /\ cache.stamp = meta[r]
        /\ cache.stamp <= cache.content /\ cache.content <= image
    BY <1>3 DEF CacheHit, Usable
  <2>2. IndexTypeOK'
    BY <1>3, <2>1 DEF CacheHit
  <2>3. CacheNeverBackdated'
    BY <1>3 DEF CacheHit
  <2>4. RunsCoherent'
    BY <1>3, <2>1 DEF CacheHit
  <2>5. QED
    BY <2>2, <2>3, <2>4
<1>4. ASSUME NEW r \in Runs, CacheMiss(r) PROVE IInv'
  BY <1>4 DEF CacheMiss
<1>5. ASSUME NEW r \in Runs, ReadImage(r) PROVE IInv'
  <2>1. BuiltIndex(r) \in Index
    BY BuiltIndexType
  <2>2. IndexTypeOK'
    BY <1>5, <2>1 DEF ReadImage
  <2>3. CacheNeverBackdated'
    BY <1>5 DEF ReadImage
  <2>4. RunsCoherent'
    BY <1>5 DEF ReadImage, BuiltIndex
  <2>5. QED
    BY <2>2, <2>3, <2>4
<1>6. ASSUME NEW r \in Runs, RejectImage(r) PROVE IInv'
  BY <1>6 DEF RejectImage
<1>7. ASSUME NEW r \in Runs, TruncateCache(r) PROVE IInv'
  BY <1>7 DEF TruncateCache
<1>8. ASSUME NEW r \in Runs, CreateFails(r) PROVE IInv'
  BY <1>8 DEF CreateFails
<1>9. ASSUME NEW r \in Runs, WriteCache(r) PROVE IInv'
  BY <1>9 DEF WriteCache
<1>10. ASSUME NEW r \in Runs, Crash(r) PROVE IInv'
  BY <1>10 DEF Crash
<1>11. CASE UNCHANGED indexVars
  BY <1>11 DEF indexVars
<1>12. QED
  BY <1>1, <1>2, <1>3, <1>4, <1>5, <1>6, <1>7, <1>8, <1>9, <1>10, <1>11
     DEF IndexNext, LoadOrBuild

\* The inductive invariant holds in every reachable state.
THEOREM IndexCacheInvariant == IndexSpec => []IInv
<1>1. QED
  BY InitIInv, NextIInv, PTL DEF IndexSpec

\* Type correctness of the cache protocol.
THEOREM TypeCorrect == IndexSpec => []IndexTypeOK
<1>1. IInv => IndexTypeOK
  BY DEF IInv
<1>2. QED
  BY <1>1, IndexCacheInvariant, PTL

\* An index answered by load_or_build_index was built, by this build of RESX,
\* from content the image held between the metadata read and the answer.
THEOREM ServedIndexIsCurrent == IndexSpec => []ServedWasCurrent
<1>1. IInv => ServedWasCurrent
  BY DEF IInv, RunsCoherent, ServedWasCurrent
<1>2. QED
  BY <1>1, IndexCacheInvariant, PTL

\* The cache file never claims to describe a newer image than it does.
THEOREM CacheIsNeverBackdated == IndexSpec => []CacheNeverBackdated
<1>1. IInv => CacheNeverBackdated
  BY DEF IInv
<1>2. QED
  BY <1>1, IndexCacheInvariant, PTL

-----------------------------------------------------------------------------
(* The refinement.                                                          *)

asks == [r \in Runs |-> Asking(r)]
answers == [r \in Runs |-> IF progress[r] = "done" THEN index[r].content ELSE 0]

\* What the ideal index sees of a step that moves one run to another place.
LEMMA OneRunMoves ==
  ASSUME IInv, NEW r \in Runs, NEW step \in IndexSteps, MoveOn(r, step),
         index' \in [Runs -> Index],
         \A s \in Runs \ {r} : index'[s] = index[s],
         progress[r] \notin {"done", "none", "crashed"}
  PROVE  /\ asks' = [asks EXCEPT ![r] = IF step = "start" THEN "not yet"
                                        ELSE IF step = "done" THEN "answered"
                                        ELSE IF step \in {"none", "crashed"} THEN "refused"
                                        ELSE "asked"]
         /\ answers' = [answers EXCEPT ![r] = IF step = "done" THEN index'[r].content ELSE 0]
<1>1. progress \in [Runs -> IndexSteps] /\ progress' = [progress EXCEPT ![r] = step]
  BY DEF IInv, IndexTypeOK, MoveOn
<1>2. \A s \in Runs : progress'[s] = IF s = r THEN step ELSE progress[s]
  BY <1>1
<1>3. answers[r] = 0
  BY DEF answers
<1>4. QED
  BY <1>2, <1>3 DEF asks, answers, Asking

\* A step that leaves the caller of a run as ignorant as it was.
LEMMA HiddenStep ==
  ASSUME IInv, NEW r \in Runs, NEW step \in {"lookup", "read", "create", "write"},
         MoveOn(r, step), index' \in [Runs -> Index],
         \A s \in Runs \ {r} : index'[s] = index[s],
         progress[r] \in {"lookup", "read", "create", "write"},
         UNCHANGED <<image, meta>>
  PROVE  UNCHANGED OnDemand!vars
<1>1. asks[r] = "asked" /\ answers[r] = 0
  BY DEF asks, answers, Asking
<1>2. step \in IndexSteps
  BY DEF IndexSteps
<1>3. asks' = [asks EXCEPT ![r] = "asked"] /\ answers' = [answers EXCEPT ![r] = 0]
  BY <1>2, OneRunMoves
<1>4. asks' = asks /\ answers' = answers
  BY <1>1, <1>3 DEF asks, answers
<1>5. QED
  BY <1>4 DEF OnDemand!vars, asks, answers

\* A step after which the run has its index.
LEMMA AnsweringStep ==
  ASSUME IInv, IInv', NEW r \in Runs, MoveOn(r, "done"), index' \in [Runs -> Index],
         \A s \in Runs \ {r} : index'[s] = index[s],
         progress[r] \in {"lookup", "read", "create", "write"},
         UNCHANGED <<image, meta>>
  PROVE  OnDemand!Answer(r)
<1>1. asks[r] = "asked"
  BY DEF asks, Asking
<1>2. "done" \in IndexSteps
  BY DEF IndexSteps
<1>3. /\ asks' = [asks EXCEPT ![r] = "answered"]
      /\ answers' = [answers EXCEPT ![r] = index'[r].content]
  BY <1>2, OneRunMoves
<1>4. progress'[r] = "done"
  BY DEF MoveOn, IInv, IndexTypeOK
<1>5. meta'[r] <= index'[r].content /\ index'[r].content <= image'
  BY <1>4 DEF IInv, RunsCoherent
<1>6. index'[r].content \in Versions /\ meta[r] \in Versions /\ image \in Versions
  BY DEF IInv, IndexTypeOK, Index
<1>7. index'[r].content \in meta[r] .. image
  BY <1>5, <1>6, MaxVersionAssumption DEF Versions
<1>8. QED
  BY <1>1, <1>3, <1>7 DEF OnDemand!Answer, asks, answers

\* A step that ends the run without an index.
LEMMA RefusingStep ==
  ASSUME IInv, NEW r \in Runs, NEW step \in {"none", "crashed"}, MoveOn(r, step),
         progress[r] \in {"lookup", "read", "create", "write"},
         UNCHANGED <<image, meta, index>>
  PROVE  OnDemand!Refuse(r)
<1>1. asks[r] = "asked" /\ answers[r] = 0
  BY DEF asks, answers, Asking
<1>2. step \in IndexSteps /\ index \in [Runs -> Index]
  BY DEF IndexSteps, IInv, IndexTypeOK
<1>3. asks' = [asks EXCEPT ![r] = "refused"] /\ answers' = [answers EXCEPT ![r] = 0]
  BY <1>2, OneRunMoves
<1>4. answers' = answers
  BY <1>1, <1>3 DEF answers
<1>5. QED
  BY <1>1, <1>3, <1>4 DEF OnDemand!Refuse, asks, answers

LEMMA StepRefines == IInv /\ IInv' /\ [IndexNext]_indexVars => [OnDemand!Next]_OnDemand!vars
<1> SUFFICES ASSUME IInv, IInv', [IndexNext]_indexVars PROVE OnDemand!Next \/ UNCHANGED OnDemand!vars
  BY DEF OnDemand!Next
<1>t. index' \in [Runs -> Index] /\ index \in [Runs -> Index] /\ meta \in [Runs -> Versions]
  BY DEF IInv, IndexTypeOK
<1>1. CASE UNCHANGED indexVars
  BY <1>1 DEF indexVars, OnDemand!vars, Asking
<1>2. CASE ReplaceImage
  BY <1>2 DEF ReplaceImage, OnDemand!Next, OnDemand!ReplaceImage, Asking
<1>3. ASSUME NEW r \in Runs, ReadMeta(r) PROVE OnDemand!Next
  <2>1. \E step \in {"read", "lookup"} : MoveOn(r, step)
    BY <1>3 DEF ReadMeta
  <2>2. PICK step \in {"read", "lookup"} : MoveOn(r, step)
    BY <2>1
  <2>3. step \in IndexSteps /\ progress[r] = "start" /\ UNCHANGED index
    BY <1>3 DEF IndexSteps, ReadMeta
  <2>4. asks' = [asks EXCEPT ![r] = "asked"] /\ answers' = [answers EXCEPT ![r] = 0]
    BY <2>2, <2>3, <1>t, OneRunMoves
  <2>5. asks[r] = "not yet" /\ answers[r] = 0
    BY <2>3 DEF asks, answers, Asking
  <2>6. answers' = answers
    BY <2>4, <2>5 DEF answers
  <2>7. OnDemand!Ask(r)
    BY <1>3, <2>4, <2>5, <2>6 DEF OnDemand!Ask, ReadMeta, asks, answers
  <2>8. QED
    BY <2>7 DEF OnDemand!Next
<1>4. ASSUME NEW r \in Runs, CacheHit(r) PROVE OnDemand!Next
  <2>1. OnDemand!Answer(r)
    BY <1>4, <1>t, AnsweringStep DEF CacheHit
  <2>2. QED
    BY <2>1 DEF OnDemand!Next
<1>5. ASSUME NEW r \in Runs, CacheMiss(r) PROVE UNCHANGED OnDemand!vars
  BY <1>5, <1>t, HiddenStep DEF CacheMiss
<1>6. ASSUME NEW r \in Runs, ReadImage(r) PROVE OnDemand!Next \/ UNCHANGED OnDemand!vars
  <2>1. CASE r \in Reload
    <3>1. OnDemand!Answer(r)
      BY <1>6, <2>1, <1>t, AnsweringStep DEF ReadImage
    <3>2. QED
      BY <3>1 DEF OnDemand!Next
  <2>2. CASE r \notin Reload
    BY <1>6, <2>2, <1>t, HiddenStep DEF ReadImage
  <2>3. QED
    BY <2>1, <2>2
<1>7. ASSUME NEW r \in Runs, RejectImage(r) PROVE OnDemand!Next
  <2>1. OnDemand!Refuse(r)
    BY <1>7, RefusingStep DEF RejectImage
  <2>2. QED
    BY <2>1 DEF OnDemand!Next
<1>8. ASSUME NEW r \in Runs, TruncateCache(r) PROVE UNCHANGED OnDemand!vars
  BY <1>8, <1>t, HiddenStep DEF TruncateCache
<1>9. ASSUME NEW r \in Runs, CreateFails(r) \/ WriteCache(r) PROVE OnDemand!Next
  <2>1. OnDemand!Answer(r)
    BY <1>9, <1>t, AnsweringStep DEF CreateFails, WriteCache
  <2>2. QED
    BY <2>1 DEF OnDemand!Next
<1>10. ASSUME NEW r \in Runs, Crash(r) PROVE OnDemand!Next
  <2>1. OnDemand!Refuse(r)
    BY <1>10, RefusingStep DEF Crash
  <2>2. QED
    BY <2>1 DEF OnDemand!Next
<1>11. QED
  BY <1>1, <1>2, <1>3, <1>4, <1>5, <1>6, <1>7, <1>8, <1>9, <1>10 DEF IndexNext, LoadOrBuild

\* The cache protocol implements the ideal index (the safety half of
\* ImplementsOnDemand; that every run ends is a matter of fairness).
THEOREM CacheImplementsOnDemand == IndexSpec => OnDemand!Spec
<1>1. IndexInit => OnDemand!Init
  BY DEF IndexInit, OnDemand!Init, Asking
<1>2. QED
  BY <1>1, StepRefines, IndexCacheInvariant, PTL DEF IndexSpec, OnDemand!Spec

=============================================================================
