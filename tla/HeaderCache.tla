------------------------------- MODULE HeaderCache -------------------------------
(***************************************************************************)
(* The header index on disk and in the process (configured and load of     *)
(* resx/src/analysis/headers/mod.rs).  Threads of several processes ask    *)
(* for the index of one SDK.  A process keeps its first answer under a     *)
(* lock; an index is stored under the fingerprint of the headers, which    *)
(* are read one by one after the fingerprint is taken, while an installer  *)
(* may replace them; the file is written in place.                         *)
(*                                                                         *)
(* A header is its version: the installer brings newer files, with other   *)
(* lengths or times, and never an old one back.                            *)
(***************************************************************************)
EXTENDS Integers

CONSTANTS
  Processes,
  Threads,      \* of every process
  Headers,      \* 1 .. their number, in the order in which they are read
  MaxVersion,   \* the installer's last
  Missing       \* a header that could not be read

VARIABLES
  disk,     \* the version of each header
  files,    \* the cache: from fingerprints to an index, or to HalfWritten
  loaded,   \* LOADED: no or one answer of each process
  lock,     \* who holds its mutex: a set of at most one thread
  load,     \* the load that is under way in a process, by its holder
  answers,  \* what each thread was answered
  since     \* the headers when the process began its load

vars == <<disk, files, loaded, lock, load, answers, since>>

HalfWritten == [h \in Headers |-> -1]
NoLoad == [at |-> "none", fingerprint |-> << >>, index |-> << >>]

Init ==
  /\ disk = [h \in Headers |-> 1]
  /\ files = << >>
  /\ loaded = [p \in Processes |-> {}]
  /\ lock = [p \in Processes |-> {}]
  /\ load = [p \in Processes |-> NoLoad]
  /\ answers = [p \in Processes |-> [t \in Threads |-> {}]]
  /\ since = [p \in Processes |-> << >>]

\* External: a file of the SDK is replaced.
Install(h) ==
  /\ disk[h] < MaxVersion
  /\ disk' = [disk EXCEPT ![h] = @ + 1]
  /\ UNCHANGED <<files, loaded, lock, load, answers, since>>

\* configured: the mutex is taken, and an answer that is there is returned.
Configured(p, t) ==
  /\ lock[p] = {} /\ answers[p][t] = {}
  /\ IF loaded[p] # {}
     THEN /\ answers' = [answers EXCEPT ![p][t] = loaded[p]]
          /\ UNCHANGED <<lock, load, since>>
     ELSE /\ lock' = [lock EXCEPT ![p] = {t}]
          /\ load' = [load EXCEPT ![p].at = "fingerprint"]
          /\ since' = [since EXCEPT ![p] = disk]
          /\ UNCHANGED answers
  /\ UNCHANGED <<disk, files, loaded>>

\* Mutant: the fingerprint says which headers there are and not their versions.
FingerprintOfNames(versions) == [h \in DOMAIN versions |-> 1]

\* fingerprint of the lengths and times
Fingerprint(versions) == versions

\* header_files is sorted.
NextHeader(p, h) ==
  /\ h \notin DOMAIN load[p].index
  /\ \A x \in Headers : x < h => x \in DOMAIN load[p].index

\* The last of them completes the fingerprint.
TakeFingerprint(p, h) ==
  /\ load[p].at = "fingerprint" /\ NextHeader(p, h)
  /\ LET seen == [x \in DOMAIN load[p].index \cup {h} |-> IF x = h THEN disk[h] ELSE load[p].index[x]]
     IN  load' = IF DOMAIN seen # Headers THEN [load EXCEPT ![p].index = seen]
                 ELSE [load EXCEPT ![p] = [at |-> "cache", fingerprint |-> Fingerprint(seen),
                                           index |-> << >>]]
  /\ UNCHANGED <<disk, files, loaded, lock, answers, since>>

\* The stored index, unless there is none or it does not parse.
ReadCache(p) ==
  /\ load[p].at = "cache"
  /\ LET f == load[p].fingerprint
         stored == f \in DOMAIN files /\ files[f] # HalfWritten
     IN  load' = [load EXCEPT ![p].at = IF stored THEN "done" ELSE "build",
                              ![p].index = IF stored THEN files[f] ELSE << >>]
  /\ UNCHANGED <<disk, files, loaded, lock, answers, since>>

\* build: the next header in order; one that cannot be read is left out.
ReadHeader(p, h) ==
  /\ load[p].at = "build" /\ NextHeader(p, h)
  /\ \E v \in {disk[h], Missing} :
       load' = [load EXCEPT ![p].index =
                  [x \in DOMAIN @ \cup {h} |-> IF x = h THEN v ELSE @[x]]]
  /\ UNCHANGED <<disk, files, loaded, lock, answers, since>>

\* write creates or empties the file, then fills it; it may fail at either, and a
\* process may end in between.
Store(index, p) == [x \in DOMAIN files \cup {load[p].fingerprint} |->
                      IF x = load[p].fingerprint THEN index ELSE files[x]]

StartWrite(p) ==
  /\ load[p].at = "build" /\ DOMAIN load[p].index = Headers
  /\ load' = [load EXCEPT ![p].at = "write"]
  /\ files' = Store(HalfWritten, p)
  /\ UNCHANGED <<disk, loaded, lock, answers, since>>

EndWrite(p) ==
  /\ \/ load[p].at = "write" /\ files' \in {files, Store(load[p].index, p)}
     \/ load[p].at = "build" /\ DOMAIN load[p].index = Headers /\ files' = files
  /\ load' = [load EXCEPT ![p].at = "done"]
  /\ UNCHANGED <<disk, loaded, lock, answers, since>>

\* The answer is kept and the mutex released.
Return(p) ==
  /\ load[p].at = "done"
  /\ loaded' = [loaded EXCEPT ![p] = {load[p].index}]
  /\ answers' = [answers EXCEPT ![p] =
                   [t \in Threads |-> IF t \in lock[p] THEN {load[p].index} ELSE @[t]]]
  /\ lock' = [lock EXCEPT ![p] = {}]
  /\ load' = [load EXCEPT ![p] = NoLoad]
  /\ UNCHANGED <<disk, files, since>>

\* External: the process is ended and started again.
Restart(p) ==
  /\ loaded[p] # {} \/ load[p] # NoLoad
  /\ loaded' = [loaded EXCEPT ![p] = {}]
  /\ lock' = [lock EXCEPT ![p] = {}]
  /\ load' = [load EXCEPT ![p] = NoLoad]
  /\ answers' = [answers EXCEPT ![p] = [t \in Threads |-> {}]]
  /\ since' = [since EXCEPT ![p] = << >>]
  /\ UNCHANGED <<disk, files>>

Next ==
  \/ \E h \in Headers : Install(h)
  \/ \E p \in Processes :
       \/ \E t \in Threads : Configured(p, t)
       \/ \E h \in Headers : TakeFingerprint(p, h) \/ ReadHeader(p, h)
       \/ ReadCache(p) \/ StartWrite(p) \/ EndWrite(p) \/ Return(p)
       \/ Restart(p)

Spec == Init /\ [][Next]_vars

-----------------------------------------------------------------------------
\* No index is served that says of a header what was already replaced when the
\* process asked, nor half of one, and all threads of a process have the same.
\* (That headers are of one installation, or all there, is not promised.)
ServedIsCurrent ==
  \A p \in Processes :
    \A t, u \in Threads : \A index \in answers[p][t] :
      /\ answers[p][u] \subseteq {index}
      /\ \A h \in Headers : index[h] = Missing \/ index[h] \in since[p][h] .. disk[h]
=============================================================================
