--------------------------- MODULE HeaderCacheProofs ---------------------------
(***************************************************************************)
(* Proofs about HeaderCache: whatever the processes, threads and headers,  *)
(* and whatever the installer does, a served index is whole and not older  *)
(* than the question.  No assumption on the constants is needed.           *)
(***************************************************************************)
EXTENDS HeaderCache, TLAPS

-----------------------------------------------------------------------------
(* The inductive invariant.                                                 *)

Fingerprints == [Headers -> Int]
Indices == UNION {[D -> Int \cup {Missing}] : D \in SUBSET Headers}

Stages == {"none", "fingerprint", "cache", "build", "write", "done"}
Loads == [at : Stages, fingerprint : Fingerprints \cup {<< >>}, index : Indices]

Types ==
  /\ disk \in Fingerprints
  /\ DOMAIN files \subseteq Fingerprints
  /\ \A f \in DOMAIN files : files[f] \in Indices \cup {HalfWritten}
  /\ loaded \in [Processes -> SUBSET Indices]
  /\ lock \in [Processes -> SUBSET Threads]
  /\ load \in [Processes -> Loads]
  /\ answers \in [Processes -> [Threads -> SUBSET Indices]]
  /\ since \in [Processes -> Fingerprints \cup {<< >>}]

\* Versions that were on the disk at some time from then to now.
SeenSince(versions, then) ==
  \A h \in DOMAIN versions : versions[h] \in then[h] .. disk[h]

\* An index, or a part of one, built from then on.
BuiltSince(index, then) ==
  \A h \in DOMAIN index : index[h] = Missing \/ index[h] \in then[h] .. disk[h]

\* A whole index is newer than the fingerprint under which it is stored.
FilesSound ==
  \A f \in DOMAIN files :
    /\ \A h \in Headers : f[h] <= disk[h]
    /\ files[f] # HalfWritten => DOMAIN files[f] = Headers /\ BuiltSince(files[f], f)

LoadSound(p) ==
  /\ lock[p] = {} => load[p] = NoLoad
  /\ load[p].at # "none" =>
       /\ loaded[p] = {}
       /\ since[p] \in Fingerprints
       /\ \A h \in Headers : since[p][h] <= disk[h]
  /\ load[p].at = "fingerprint" => SeenSince(load[p].index, since[p])
  /\ load[p].at \in {"cache", "build", "write"} =>
       load[p].fingerprint \in Fingerprints /\ SeenSince(load[p].fingerprint, since[p])
  /\ load[p].at \in {"build", "write"} => BuiltSince(load[p].index, load[p].fingerprint)
  /\ load[p].at = "done" => BuiltSince(load[p].index, since[p])
  /\ load[p].at \in {"write", "done"} => DOMAIN load[p].index = Headers

AnswersSound(p) ==
  /\ loaded[p] # {} =>
       /\ since[p] \in Fingerprints
       /\ \E index \in Indices : /\ loaded[p] = {index} /\ DOMAIN index = Headers
                                 /\ BuiltSince(index, since[p])
  /\ \A t \in Threads : answers[p][t] = {} \/ answers[p][t] = loaded[p]

IInv ==
  /\ Types
  /\ FilesSound
  /\ \A p \in Processes : LoadSound(p) /\ AnswersSound(p)

-----------------------------------------------------------------------------
(* Lemmas.                                                                  *)

\* A load that has not begun, and the empty index it starts from.
LEMMA NoLoadTyped == << >> \in Indices /\ NoLoad \in Loads
<1>1. << >> \in [{} -> Int \cup {Missing}]
  OBVIOUS
<1>2. << >> \in Indices
  BY <1>1 DEF Indices
<1>3. QED
  BY <1>2 DEF NoLoad, Loads, Stages

\* A typed index is a function on headers.
LEMMA IndexTyped ==
  ASSUME NEW index \in Indices
  PROVE  /\ DOMAIN index \subseteq Headers
         /\ index = [h \in DOMAIN index |-> index[h]]
         /\ \A h \in DOMAIN index : index[h] \in Int \cup {Missing}
BY DEF Indices

\* An index with one more header is an index.
LEMMA IndexGrows ==
  ASSUME NEW index \in Indices, NEW h \in Headers, NEW v \in Int \cup {Missing}
  PROVE  [x \in DOMAIN index \cup {h} |-> IF x = h THEN v ELSE index[x]] \in Indices
<1> DEFINE D == DOMAIN index \cup {h}
<1>1. D \in SUBSET Headers
  BY IndexTyped
<1>2. [x \in D |-> IF x = h THEN v ELSE index[x]] \in [D -> Int \cup {Missing}]
  BY IndexTyped
<1>3. QED
  BY <1>1, <1>2 DEF Indices

\* A whole set of versions is an index as well.
LEMMA FingerprintIsIndex == Fingerprints \subseteq Indices
BY DEF Fingerprints, Indices

\* What a process knows is untouched by the steps of others.
LEMMA Frame ==
  ASSUME NEW p \in Processes, LoadSound(p), AnswersSound(p),
         load'[p] = load[p], lock'[p] = lock[p], loaded'[p] = loaded[p],
         answers'[p] = answers[p], since'[p] = since[p], disk' = disk
  PROVE  LoadSound(p)' /\ AnswersSound(p)'
BY DEF LoadSound, AnswersSound, SeenSince, BuiltSince

-----------------------------------------------------------------------------
(* The invariant holds initially and is preserved by every step.            *)

LEMMA InitIInv == Init => IInv
<1> SUFFICES ASSUME Init PROVE IInv
  OBVIOUS
<1>1. Types
  BY NoLoadTyped DEF Init, Types, Fingerprints, NoLoad
<1>2. FilesSound
  BY DEF Init, FilesSound
<1>3. ASSUME NEW p \in Processes PROVE LoadSound(p) /\ AnswersSound(p)
  BY DEF Init, LoadSound, AnswersSound, NoLoad
<1>4. QED
  BY <1>1, <1>2, <1>3 DEF IInv

LEMMA InstallStep ==
  ASSUME IInv, NEW h \in Headers, Install(h)
  PROVE  IInv'
<1>1. /\ disk' \in Fingerprints
      /\ \A x \in Headers : disk[x] \in Int /\ disk'[x] \in Int /\ disk[x] <= disk'[x]
  BY DEF IInv, Types, Install, Fingerprints
<1>2. ASSUME NEW index \in Indices, NEW then \in Fingerprints, BuiltSince(index, then)
      PROVE  BuiltSince(index, then)'
  BY <1>1, <1>2, IndexTyped DEF BuiltSince, Fingerprints
<1>3. ASSUME NEW versions \in Indices, NEW then \in Fingerprints, SeenSince(versions, then)
      PROVE  SeenSince(versions, then)'
  BY <1>1, <1>3, IndexTyped DEF SeenSince, Fingerprints
<1>4. Types'
  BY <1>1 DEF IInv, Types, Install
<1>5. FilesSound'
  <2> SUFFICES ASSUME NEW f \in DOMAIN files
               PROVE  /\ \A x \in Headers : f[x] <= disk'[x]
                      /\ files[f] # HalfWritten => DOMAIN files[f] = Headers /\ BuiltSince(files[f], f)'
    BY DEF FilesSound, Install
  <2>1. f \in Fingerprints /\ files[f] \in Indices \cup {HalfWritten}
    BY DEF IInv, Types
  <2>2. \A x \in Headers : f[x] \in Int /\ f[x] <= disk[x]
    BY <2>1 DEF IInv, FilesSound, Fingerprints
  <2>3. \A x \in Headers : f[x] <= disk'[x]
    BY <1>1, <2>2
  <2>4. files[f] # HalfWritten => DOMAIN files[f] = Headers /\ BuiltSince(files[f], f)
    BY DEF IInv, FilesSound
  <2>5. files[f] # HalfWritten => BuiltSince(files[f], f)'
    <3> SUFFICES ASSUME files[f] # HalfWritten PROVE BuiltSince(files[f], f)'
      OBVIOUS
    <3> DEFINE index == files[f]
    <3>1. files' = files /\ index \in Indices /\ BuiltSince(index, f)
      BY <2>1, <2>4 DEF Install
    <3>2. \A x \in DOMAIN index : /\ disk[x] \in Int /\ disk'[x] \in Int /\ f[x] \in Int
                                  /\ disk[x] <= disk'[x]
      BY <1>1, <2>2, <3>1, IndexTyped
    <3>3. \A x \in DOMAIN index : index[x] = Missing \/ index[x] \in f[x] .. disk'[x]
      BY <3>1, <3>2 DEF BuiltSince
    <3>4. QED
      BY <3>1, <3>3 DEF BuiltSince
  <2>6. QED
    BY <2>3, <2>4, <2>5
<1>6. ASSUME NEW p \in Processes PROVE LoadSound(p)'
  <2>1. load[p] \in Loads /\ load[p].index \in Indices
    BY DEF IInv, Types, Loads
  <2>2. LoadSound(p)
    BY DEF IInv
  <2>3. since[p] \in Fingerprints => \A x \in Headers : since[p][x] \in Int
    BY DEF Fingerprints
  <2>4. /\ load' = load /\ lock' = lock /\ loaded' = loaded /\ since' = since
    BY DEF Install
  <2> HIDE DEF Fingerprints
  <2>5. load[p].at # "none" => \A x \in Headers : since[p][x] <= disk'[x]
    BY <1>1, <2>2, <2>3 DEF LoadSound
  <2>6. load[p].at = "fingerprint" => SeenSince(load[p].index, since[p])'
    BY <1>3, <2>1, <2>2, <2>4 DEF LoadSound
  <2>7. load[p].at \in {"cache", "build", "write"} => SeenSince(load[p].fingerprint, since[p])'
    BY <1>3, <2>2, <2>4, FingerprintIsIndex DEF LoadSound
  <2>8. load[p].at \in {"build", "write"} => BuiltSince(load[p].index, load[p].fingerprint)'
    BY <1>2, <2>1, <2>2, <2>4 DEF LoadSound
  <2>9. load[p].at = "done" => BuiltSince(load[p].index, since[p])'
    BY <1>2, <2>1, <2>2, <2>4 DEF LoadSound
  <2>10. QED
    BY <2>2, <2>4, <2>5, <2>6, <2>7, <2>8, <2>9 DEF LoadSound
<1>7. ASSUME NEW p \in Processes PROVE AnswersSound(p)'
  BY <1>2 DEF IInv, AnswersSound, Install
<1>8. QED
  BY <1>4, <1>5, <1>6, <1>7 DEF IInv

LEMMA ConfiguredStep ==
  ASSUME IInv, NEW p \in Processes, NEW t \in Threads, Configured(p, t)
  PROVE  IInv'
<1>1. LoadSound(p) /\ AnswersSound(p) /\ load[p] = NoLoad /\ disk' = disk
  BY DEF IInv, LoadSound, Configured
<1>2. FilesSound'
  BY DEF IInv, FilesSound, BuiltSince, Configured
<1>3. ASSUME NEW q \in Processes \ {p} PROVE LoadSound(q)' /\ AnswersSound(q)'
  <2>1. /\ load'[q] = load[q] /\ lock'[q] = lock[q] /\ loaded'[q] = loaded[q]
        /\ answers'[q] = answers[q] /\ since'[q] = since[q]
    BY DEF Configured, IInv, Types
  <2>2. QED
    BY <1>1, <2>1, Frame DEF IInv
<1>4. CASE loaded[p] # {}
  <2>1. /\ answers' = [answers EXCEPT ![p][t] = loaded[p]]
        /\ UNCHANGED <<disk, files, loaded, lock, load, since>>
    BY <1>4 DEF Configured
  <2>2. Types'
    BY <2>1 DEF IInv, Types
  <2>3. LoadSound(p)'
    BY <1>1, <2>1 DEF LoadSound, SeenSince, BuiltSince
  <2>4. AnswersSound(p)'
    <3>1. \A u \in Threads : answers'[p][u] = {} \/ answers'[p][u] = loaded[p]
      BY <1>1, <2>1 DEF IInv, Types, AnswersSound
    <3>2. QED
      BY <1>1, <2>1, <3>1 DEF AnswersSound, BuiltSince
  <2>5. QED
    BY <1>2, <1>3, <2>2, <2>3, <2>4 DEF IInv
<1>5. CASE loaded[p] = {}
  <2>1. /\ lock' = [lock EXCEPT ![p] = {t}]
        /\ load' = [load EXCEPT ![p].at = "fingerprint"]
        /\ since' = [since EXCEPT ![p] = disk]
        /\ UNCHANGED <<disk, files, loaded, answers>>
    BY <1>5 DEF Configured
  <2>2. load'[p] = [NoLoad EXCEPT !.at = "fingerprint"] /\ lock'[p] = {t} /\ since'[p] = disk
    BY <1>1, <2>1 DEF IInv, Types
  <2>3. load'[p] \in Loads
    BY <2>2, NoLoadTyped DEF Loads, Stages, NoLoad
  <2>4. Types'
    BY <2>1, <2>3 DEF IInv, Types
  <2>5. LoadSound(p)'
    <3>1. disk \in Fingerprints /\ \A h \in Headers : disk[h] <= disk[h]
      BY DEF IInv, Types, Fingerprints
    <3>2. load'[p].at = "fingerprint" /\ load'[p].index = << >>
      BY <2>2 DEF NoLoad
    <3>3. QED
      BY <1>5, <2>1, <2>2, <3>1, <3>2 DEF LoadSound, SeenSince
  <2>6. AnswersSound(p)'
    BY <1>1, <1>5, <2>1 DEF AnswersSound
  <2>7. QED
    BY <1>2, <1>3, <2>4, <2>5, <2>6 DEF IInv
<1>6. QED
  BY <1>4, <1>5

LEMMA TakeFingerprintStep ==
  ASSUME IInv, NEW p \in Processes, NEW h \in Headers, TakeFingerprint(p, h)
  PROVE  IInv'
<1> DEFINE seen == [x \in DOMAIN load[p].index \cup {h} |->
                      IF x = h THEN disk[h] ELSE load[p].index[x]]
           whole == [at |-> "cache", fingerprint |-> seen, index |-> << >>]
<1>1. /\ load[p] \in Loads /\ load[p].index \in Indices /\ load[p].at = "fingerprint"
      /\ LoadSound(p) /\ AnswersSound(p) /\ disk \in Fingerprints
  BY DEF IInv, Types, Loads, TakeFingerprint
<1>2. /\ UNCHANGED <<disk, files, loaded, lock, answers, since>>
      /\ load' = IF DOMAIN seen # Headers THEN [load EXCEPT ![p].index = seen]
                                          ELSE [load EXCEPT ![p] = whole]
  BY DEF TakeFingerprint, Fingerprint
<1>3. seen \in Indices
  BY <1>1, IndexGrows DEF Fingerprints
<1>4. since[p] \in Fingerprints /\ \A x \in Headers : since[p][x] <= disk[x]
  BY <1>1 DEF LoadSound
<1>5. SeenSince(seen, since[p]) /\ \A x \in DOMAIN seen : seen[x] \in Int
  <2>1. disk[h] \in since[p][h] .. disk[h]
    BY <1>1, <1>4 DEF Fingerprints
  <2>2. \A x \in DOMAIN load[p].index : load[p].index[x] \in since[p][x] .. disk[x]
    BY <1>1 DEF LoadSound, SeenSince
  <2>3. \A x \in DOMAIN load[p].index : x \in Headers
    BY <1>1, IndexTyped
  <2>4. \A x \in DOMAIN seen : seen[x] \in since[p][x] .. disk[x] /\ x \in Headers
    BY <2>1, <2>2, <2>3
  <2>5. \A x \in Headers : since[p][x] \in Int /\ disk[x] \in Int
    BY <1>1, <1>4 DEF Fingerprints
  <2>6. QED
    BY <2>4, <2>5 DEF SeenSince
<1>6. DOMAIN seen = Headers => seen \in Fingerprints
  BY <1>5 DEF Fingerprints
<1>7. \A q \in Processes \ {p} : load'[q] = load[q]
  BY <1>2 DEF IInv, Types
<1>8. \/ DOMAIN seen # Headers /\ load'[p] = [load[p] EXCEPT !.index = seen]
      \/ DOMAIN seen = Headers /\ load'[p] = whole
  BY <1>2 DEF IInv, Types
<1> HIDE DEF seen
<1>9. Types'
  <2>1. load'[p] \in Loads
    BY <1>1, <1>3, <1>6, <1>8, NoLoadTyped DEF Loads, Stages
  <2>2. QED
    BY <1>2, <2>1 DEF IInv, Types
<1>10. FilesSound'
  BY <1>2 DEF IInv, FilesSound, BuiltSince
<1>11. LoadSound(p)'
  <2>1. lock[p] # {} /\ loaded[p] = {}
    BY <1>1 DEF LoadSound, NoLoad
  <2>2. CASE DOMAIN seen # Headers
    <3>1. load'[p].at = "fingerprint" /\ load'[p].index = seen
      BY <1>1, <1>8, <2>2 DEF Loads
    <3>2. QED
      BY <1>2, <1>4, <1>5, <2>1, <3>1 DEF LoadSound, SeenSince
  <2>3. CASE DOMAIN seen = Headers
    <3>1. /\ load'[p].at = "cache" /\ load'[p].index = << >>
          /\ load'[p].fingerprint = seen
      BY <1>8, <2>3
    <3>2. QED
      BY <1>2, <1>4, <1>5, <1>6, <2>1, <2>3, <3>1 DEF LoadSound, SeenSince
  <2>4. QED
    BY <2>2, <2>3
<1>12. AnswersSound(p)'
  BY <1>1, <1>2 DEF AnswersSound, BuiltSince
<1>13. \A q \in Processes \ {p} : LoadSound(q)' /\ AnswersSound(q)'
  BY <1>2, <1>7, Frame DEF IInv
<1>14. QED
  BY <1>9, <1>10, <1>11, <1>12, <1>13 DEF IInv

LEMMA ReadCacheStep ==
  ASSUME IInv, NEW p \in Processes, ReadCache(p)
  PROVE  IInv'
<1> DEFINE f == load[p].fingerprint
           stored == f \in DOMAIN files /\ files[f] # HalfWritten
           next == [load[p] EXCEPT !.at = IF stored THEN "done" ELSE "build",
                                   !.index = IF stored THEN files[f] ELSE << >>]
<1>1. /\ load[p] \in Loads /\ load[p].at = "cache" /\ LoadSound(p) /\ AnswersSound(p)
  BY DEF IInv, Types, ReadCache
<1>2. /\ UNCHANGED <<disk, files, loaded, lock, answers, since>>
      /\ load' = [load EXCEPT ![p] = next]
  BY DEF ReadCache, IInv, Types
<1>3. load'[p] = next /\ \A q \in Processes \ {p} : load'[q] = load[q]
  BY <1>2 DEF IInv, Types
<1>4. /\ f \in Fingerprints /\ SeenSince(f, since[p]) /\ since[p] \in Fingerprints
      /\ loaded[p] = {} /\ disk \in Fingerprints
      /\ \A x \in Headers : since[p][x] <= disk[x]
  BY <1>1 DEF LoadSound, IInv, Types
<1>5. stored => files[f] \in Indices /\ DOMAIN files[f] = Headers /\ BuiltSince(files[f], since[p])
  <2> SUFFICES ASSUME stored
               PROVE  files[f] \in Indices /\ DOMAIN files[f] = Headers /\ BuiltSince(files[f], since[p])
    OBVIOUS
  <2>1. files[f] \in Indices /\ DOMAIN files[f] = Headers /\ BuiltSince(files[f], f)
    BY DEF IInv, Types, FilesSound
  <2>2. \A h \in Headers : /\ since[p][h] \in Int /\ f[h] \in Int /\ disk[h] \in Int
                           /\ since[p][h] <= f[h]
    BY <1>4 DEF Fingerprints, SeenSince
  <2>3. QED
    BY <2>1, <2>2 DEF BuiltSince
<1>6. Types'
  <2>1. next \in Loads
    BY <1>1, <1>5, NoLoadTyped DEF Loads, Stages
  <2>2. QED
    BY <1>2, <2>1 DEF IInv, Types
<1>7. FilesSound'
  BY <1>2 DEF IInv, FilesSound, BuiltSince
<1>8. LoadSound(p)'
  <2>1. \/ /\ stored /\ load'[p].at = "done" /\ load'[p].index = files[f]
           /\ load'[p].fingerprint = f
        \/ /\ ~ stored /\ load'[p].at = "build" /\ load'[p].index = << >>
           /\ load'[p].fingerprint = f
    BY <1>1, <1>3 DEF Loads
  <2>2. lock[p] # {}
    BY <1>1 DEF LoadSound, NoLoad
  <2> HIDE DEF stored, f
  <2>3. QED
    BY <1>2, <1>4, <1>5, <2>1, <2>2 DEF LoadSound, BuiltSince, SeenSince
<1>9. AnswersSound(p)'
  BY <1>1, <1>2 DEF AnswersSound, BuiltSince
<1>10. \A q \in Processes \ {p} : LoadSound(q)' /\ AnswersSound(q)'
  BY <1>2, <1>3, Frame DEF IInv
<1>11. QED
  BY <1>6, <1>7, <1>8, <1>9, <1>10 DEF IInv

LEMMA ReadHeaderStep ==
  ASSUME IInv, NEW p \in Processes, NEW h \in Headers, ReadHeader(p, h)
  PROVE  IInv'
<1>1. /\ load[p] \in Loads /\ load[p].index \in Indices /\ load[p].at = "build"
      /\ LoadSound(p) /\ AnswersSound(p) /\ disk \in Fingerprints
  BY DEF IInv, Types, Loads, ReadHeader
<1>2. PICK v \in {disk[h], Missing} :
        /\ UNCHANGED <<disk, files, loaded, lock, answers, since>>
        /\ load' = [load EXCEPT ![p].index =
                      [x \in DOMAIN @ \cup {h} |-> IF x = h THEN v ELSE @[x]]]
  BY DEF ReadHeader
<1> DEFINE grown == [x \in DOMAIN load[p].index \cup {h} |-> IF x = h THEN v ELSE load[p].index[x]]
<1>3. load'[p] = [load[p] EXCEPT !.index = grown] /\ \A q \in Processes \ {p} : load'[q] = load[q]
  BY <1>2 DEF IInv, Types
<1>4. grown \in Indices
  BY <1>1, IndexGrows DEF Fingerprints
<1>5. BuiltSince(grown, load[p].fingerprint)
  <2>1. /\ load[p].fingerprint \in Fingerprints /\ SeenSince(load[p].fingerprint, since[p])
        /\ BuiltSince(load[p].index, load[p].fingerprint)
    BY <1>1 DEF LoadSound
  <2>2. disk[h] \in load[p].fingerprint[h] .. disk[h]
    BY <1>1, <2>1 DEF Fingerprints, SeenSince
  <2>3. QED
    BY <2>1, <2>2 DEF BuiltSince
<1>6. Types'
  <2>1. load'[p] \in Loads
    BY <1>1, <1>3, <1>4 DEF Loads
  <2>2. QED
    BY <1>2, <2>1 DEF IInv, Types
<1>7. FilesSound'
  BY <1>2 DEF IInv, FilesSound, BuiltSince
<1>8. LoadSound(p)'
  <2>1. /\ load'[p].at = "build" /\ load'[p].index = grown
        /\ load'[p].fingerprint = load[p].fingerprint
    BY <1>1, <1>3 DEF Loads
  <2>2. lock[p] # {}
    BY <1>1 DEF LoadSound, NoLoad
  <2> HIDE DEF grown
  <2>3. QED
    BY <1>1, <1>2, <1>5, <2>1, <2>2 DEF LoadSound, BuiltSince, SeenSince
<1>9. AnswersSound(p)'
  BY <1>1, <1>2 DEF AnswersSound, BuiltSince
<1>10. \A q \in Processes \ {p} : LoadSound(q)' /\ AnswersSound(q)'
  BY <1>2, <1>3, Frame DEF IInv
<1>11. QED
  BY <1>6, <1>7, <1>8, <1>9, <1>10 DEF IInv

LEMMA StartWriteStep ==
  ASSUME IInv, NEW p \in Processes, StartWrite(p)
  PROVE  IInv'
<1> DEFINE f == load[p].fingerprint
<1>1. /\ load[p] \in Loads /\ load[p].at = "build" /\ DOMAIN load[p].index = Headers
      /\ LoadSound(p) /\ AnswersSound(p) /\ disk \in Fingerprints
  BY DEF IInv, Types, StartWrite
<1>2. /\ UNCHANGED <<disk, loaded, lock, answers, since>>
      /\ load' = [load EXCEPT ![p].at = "write"]
      /\ files' = [x \in DOMAIN files \cup {f} |-> IF x = f THEN HalfWritten ELSE files[x]]
  BY DEF StartWrite, Store
<1>3. load'[p] = [load[p] EXCEPT !.at = "write"] /\ \A q \in Processes \ {p} : load'[q] = load[q]
  BY <1>2 DEF IInv, Types
<1>4. f \in Fingerprints /\ \A h \in Headers : f[h] <= disk[h]
  BY <1>1 DEF LoadSound, SeenSince, Fingerprints
<1>5. Types'
  <2>1. load'[p] \in Loads
    BY <1>1, <1>3 DEF Loads, Stages
  <2>2. QED
    BY <1>2, <1>4, <2>1 DEF IInv, Types
<1>6. FilesSound'
  BY <1>2, <1>4 DEF IInv, FilesSound, BuiltSince
<1>7. LoadSound(p)'
  <2>1. /\ load'[p].at = "write" /\ load'[p].index = load[p].index
        /\ load'[p].fingerprint = f
    BY <1>1, <1>3 DEF Loads
  <2>2. lock[p] # {}
    BY <1>1 DEF LoadSound, NoLoad
  <2>3. QED
    BY <1>1, <1>2, <2>1, <2>2 DEF LoadSound, BuiltSince, SeenSince
<1>8. AnswersSound(p)'
  BY <1>1, <1>2 DEF AnswersSound, BuiltSince
<1>9. \A q \in Processes \ {p} : LoadSound(q)' /\ AnswersSound(q)'
  BY <1>2, <1>3, Frame DEF IInv
<1>10. QED
  BY <1>5, <1>6, <1>7, <1>8, <1>9 DEF IInv

LEMMA EndWriteStep ==
  ASSUME IInv, NEW p \in Processes, EndWrite(p)
  PROVE  IInv'
<1> DEFINE f == load[p].fingerprint
           index == load[p].index
<1>1. /\ load[p] \in Loads /\ load[p].at \in {"build", "write"} /\ DOMAIN index = Headers
      /\ LoadSound(p) /\ AnswersSound(p) /\ disk \in Fingerprints /\ index \in Indices
  BY DEF IInv, Types, EndWrite, LoadSound, Loads
<1>2. /\ UNCHANGED <<disk, loaded, lock, answers, since>>
      /\ load' = [load EXCEPT ![p].at = "done"]
      /\ \/ files' = files
         \/ files' = [x \in DOMAIN files \cup {f} |-> IF x = f THEN index ELSE files[x]]
  BY DEF EndWrite, Store
<1>3. load'[p] = [load[p] EXCEPT !.at = "done"] /\ \A q \in Processes \ {p} : load'[q] = load[q]
  BY <1>2 DEF IInv, Types
<1>4. /\ f \in Fingerprints /\ SeenSince(f, since[p]) /\ BuiltSince(index, f)
      /\ since[p] \in Fingerprints
  BY <1>1 DEF LoadSound
<1>5. \A h \in Headers : /\ since[p][h] \in Int /\ f[h] \in Int /\ disk[h] \in Int
                         /\ since[p][h] <= f[h] /\ f[h] <= disk[h]
  BY <1>1, <1>4 DEF SeenSince, Fingerprints
<1>6. BuiltSince(index, since[p])
  BY <1>1, <1>4, <1>5 DEF BuiltSince
<1>7. Types'
  <2>1. load'[p] \in Loads
    BY <1>1, <1>3 DEF Loads, Stages
  <2>2. QED
    BY <1>1, <1>2, <1>4, <2>1 DEF IInv, Types
<1>8. FilesSound'
  <2>1. CASE files' = files
    BY <1>2, <2>1 DEF IInv, FilesSound, BuiltSince
  <2>2. CASE files' = [x \in DOMAIN files \cup {f} |-> IF x = f THEN index ELSE files[x]]
    BY <1>1, <1>2, <1>4, <1>5, <2>2 DEF IInv, FilesSound, BuiltSince
  <2>3. QED
    BY <1>2, <2>1, <2>2
<1>9. LoadSound(p)'
  <2>1. load'[p].at = "done" /\ load'[p].index = index
    BY <1>1, <1>3 DEF Loads
  <2>2. lock[p] # {}
    BY <1>1 DEF LoadSound, NoLoad
  <2>3. QED
    BY <1>1, <1>2, <1>6, <2>1, <2>2 DEF LoadSound, BuiltSince, SeenSince
<1>10. AnswersSound(p)'
  BY <1>1, <1>2 DEF AnswersSound, BuiltSince
<1>11. \A q \in Processes \ {p} : LoadSound(q)' /\ AnswersSound(q)'
  BY <1>2, <1>3, Frame DEF IInv
<1>12. QED
  BY <1>7, <1>8, <1>9, <1>10, <1>11 DEF IInv

LEMMA ReturnStep ==
  ASSUME IInv, NEW p \in Processes, Return(p)
  PROVE  IInv'
<1> DEFINE index == load[p].index
<1>1. /\ load[p] \in Loads /\ load[p].at = "done" /\ index \in Indices
      /\ LoadSound(p) /\ AnswersSound(p)
  BY DEF IInv, Types, Loads, Return
<1>2. /\ loaded' = [loaded EXCEPT ![p] = {index}]
      /\ answers' = [answers EXCEPT ![p] = [t \in Threads |-> IF t \in lock[p] THEN {index} ELSE @[t]]]
      /\ lock' = [lock EXCEPT ![p] = {}]
      /\ load' = [load EXCEPT ![p] = NoLoad]
      /\ UNCHANGED <<disk, files, since>>
  BY DEF Return
<1>3. /\ loaded'[p] = {index} /\ lock'[p] = {} /\ load'[p] = NoLoad
      /\ answers'[p] = [t \in Threads |-> IF t \in lock[p] THEN {index} ELSE answers[p][t]]
      /\ \A q \in Processes \ {p} : /\ loaded'[q] = loaded[q] /\ answers'[q] = answers[q]
                                    /\ lock'[q] = lock[q] /\ load'[q] = load[q]
  BY <1>2 DEF IInv, Types
<1>4. loaded[p] = {} /\ since[p] \in Fingerprints /\ DOMAIN index = Headers /\ BuiltSince(index, since[p])
  BY <1>1 DEF LoadSound
<1>5. Types'
  <2>1. answers'[p] \in [Threads -> SUBSET Indices]
    BY <1>1, <1>3 DEF IInv, Types
  <2>2. QED
    BY <1>1, <1>2, <2>1, NoLoadTyped DEF IInv, Types
<1>6. FilesSound'
  BY <1>2 DEF IInv, FilesSound, BuiltSince
<1>7. LoadSound(p)'
  BY <1>3 DEF LoadSound, NoLoad
<1>8. AnswersSound(p)'
  <2>1. \A t \in Threads : answers'[p][t] = {} \/ answers'[p][t] = loaded'[p]
    BY <1>1, <1>3, <1>4 DEF AnswersSound
  <2>2. \A h \in DOMAIN index : index[h] = Missing \/ index[h] \in since'[p][h] .. disk'[h]
    BY <1>2, <1>4 DEF BuiltSince
  <2>3. QED
    BY <1>1, <1>2, <1>3, <1>4, <2>1, <2>2 DEF AnswersSound, BuiltSince
<1>9. \A q \in Processes \ {p} : LoadSound(q)' /\ AnswersSound(q)'
  BY <1>2, <1>3, Frame DEF IInv
<1>10. QED
  BY <1>5, <1>6, <1>7, <1>8, <1>9 DEF IInv

LEMMA RestartStep ==
  ASSUME IInv, NEW p \in Processes, Restart(p)
  PROVE  IInv'
<1>1. /\ loaded' = [loaded EXCEPT ![p] = {}]
      /\ lock' = [lock EXCEPT ![p] = {}]
      /\ load' = [load EXCEPT ![p] = NoLoad]
      /\ answers' = [answers EXCEPT ![p] = [t \in Threads |-> {}]]
      /\ since' = [since EXCEPT ![p] = << >>]
      /\ UNCHANGED <<disk, files>>
  BY DEF Restart
<1>2. /\ loaded'[p] = {} /\ lock'[p] = {} /\ load'[p] = NoLoad
      /\ answers'[p] = [t \in Threads |-> {}]
      /\ \A q \in Processes \ {p} :
           /\ loaded'[q] = loaded[q] /\ answers'[q] = answers[q] /\ since'[q] = since[q]
           /\ lock'[q] = lock[q] /\ load'[q] = load[q]
  BY <1>1 DEF IInv, Types
<1>3. Types'
  <2>1. answers'[p] \in [Threads -> SUBSET Indices]
    BY <1>2
  <2>2. QED
    BY <1>1, <2>1, NoLoadTyped DEF IInv, Types
<1>4. FilesSound'
  BY <1>1 DEF IInv, FilesSound, BuiltSince
<1>5. LoadSound(p)' /\ AnswersSound(p)'
  BY <1>2 DEF LoadSound, AnswersSound, NoLoad
<1>6. \A q \in Processes \ {p} : LoadSound(q)' /\ AnswersSound(q)'
  BY <1>1, <1>2, Frame DEF IInv
<1>7. QED
  BY <1>3, <1>4, <1>5, <1>6 DEF IInv

LEMMA StutterStep == IInv /\ UNCHANGED vars => IInv'
<1> SUFFICES ASSUME IInv, UNCHANGED vars PROVE IInv'
  OBVIOUS
<1>1. Types' /\ FilesSound'
  BY DEF IInv, Types, FilesSound, BuiltSince, vars
<1>2. \A p \in Processes : LoadSound(p)' /\ AnswersSound(p)'
  BY Frame DEF IInv, vars
<1>3. QED
  BY <1>1, <1>2 DEF IInv

LEMMA NextIInv == IInv /\ [Next]_vars => IInv'
BY InstallStep, ConfiguredStep, TakeFingerprintStep, ReadCacheStep, ReadHeaderStep,
   StartWriteStep, EndWriteStep, ReturnStep, RestartStep, StutterStep DEF Next

\* The invariant says what is served: one index for a process, as new as its question.
LEMMA IInvServes == IInv => ServedIsCurrent
<1> SUFFICES ASSUME IInv, NEW p \in Processes, NEW t \in Threads, NEW u \in Threads,
                    NEW index \in answers[p][t]
             PROVE  /\ answers[p][u] \subseteq {index}
                    /\ \A h \in Headers : index[h] = Missing \/ index[h] \in since[p][h] .. disk[h]
  BY DEF ServedIsCurrent
<1>1. AnswersSound(p)
  BY DEF IInv
<1>2. loaded[p] = {index} /\ DOMAIN index = Headers /\ BuiltSince(index, since[p])
  BY <1>1 DEF AnswersSound
<1>3. answers[p][u] \subseteq {index}
  BY <1>1, <1>2 DEF AnswersSound
<1>4. QED
  BY <1>2, <1>3 DEF BuiltSince

-----------------------------------------------------------------------------
(* The theorems.                                                            *)

\* The inductive invariant holds in every reachable state.
THEOREM HeaderCacheInvariant == Spec => []IInv
BY InitIInv, NextIInv, PTL DEF Spec

\* Type correctness of the cache protocol.
THEOREM TypeCorrect == Spec => []Types
<1>1. IInv => Types
  BY DEF IInv
<1>2. QED
  BY <1>1, HeaderCacheInvariant, PTL

\* Whatever the number of processes, threads and headers: what a process is
\* served is one index, and of no header does it say what was replaced before
\* the process asked (configured, load).
THEOREM ServedIndexIsCurrent == Spec => []ServedIsCurrent
BY IInvServes, HeaderCacheInvariant, PTL

=============================================================================
