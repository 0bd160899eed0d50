----------------------------- MODULE ProcessProofs -----------------------------
(***************************************************************************)
(* Proofs about the models that MCProcess composes: the files that         *)
(* commands write, the callers of a function, and the dump of one.  What   *)
(* processes that exit well claim of their files is true, and what was     *)
(* there before is replaced only by right; the callers told are those      *)
(* whose code comes to the function; a dump ends where its thunks lead.    *)
(***************************************************************************)
EXTENDS OutputFiles, ReverseIndex, DumpCommand, SequenceTheorems, FiniteSetTheorems,
        WellFoundedInduction, TLAPS

-----------------------------------------------------------------------------
(* The shapes of scripts.                                                   *)

Writes == {"write", "create", "fill"}

\* What the script of each kind of command is.
LEMMA WorkOfKind ==
  ASSUME NEW j
  PROVE  /\ j.kind = "patch" => Work(j) = PatchScript(j)
         /\ j.kind = "payload" => Work(j) = PayloadScript
         /\ j.kind = "config" => Work(j) = ConfigScript
         /\ j.kind = "index" => Work(j) = <<Op("write", j.to)>>
         /\ j.kind = "priority" => Work(j) = <<Op("fill", j.to)>>
         /\ j.kind = "dump" /\ j.to # None => Work(j) = <<Op("parse", "image"), Op("write", j.to)>>
         /\ \/ j.kind \in {"patch", "payload", "config", "index", "priority"}
            \/ j.kind = "dump" /\ j.to # None
            \/ Work(j) = <<Op("parse", "image")>>
<1>1. CASE j.kind = "patch"
  BY <1>1, Zenon DEF Work
<1>2. CASE j.kind = "payload"
  BY <1>2, Zenon DEF Work
<1>3. CASE j.kind = "config"
  BY <1>3, Zenon DEF Work
<1>4. CASE j.kind = "index"
  BY <1>4, Zenon DEF Work
<1>5. CASE j.kind = "priority"
  BY <1>5, Zenon DEF Work
<1>6. CASE j.kind = "dump" /\ j.to # None
  BY <1>6, Zenon DEF Work
<1>7. CASE j.kind \notin {"patch", "payload", "config", "index", "priority"} /\ ~ (j.kind = "dump" /\ j.to # None)
  <2>1. Work(j) = <<Op("parse", "image")>>
    BY <1>7, Zenon DEF Work
  <2>2. QED
    BY <1>7, <2>1
<1>8. QED
  BY <1>1, <1>2, <1>3, <1>4, <1>5, <1>6, <1>7

LEMMA Concatenations ==
  ASSUME NEW a, NEW b, NEW c
  PROVE  /\ <<a>> \o << >> \o <<b>> = <<a, b>>
         /\ <<a>> \o <<c>> \o <<b>> = <<a, c, b>>
<1> DEFINE S == {a, b, c}
<1>1. <<a>> \in Seq(S) /\ <<b>> \in Seq(S) /\ <<c>> \in Seq(S)
  OBVIOUS
<1>2. <<a>> \o << >> = <<a>>
  BY <1>1, ConcatEmptySeq
<1>3. ASSUME NEW s \in Seq(S), NEW t \in Seq(S), NEW x \in S,
             Len(t) = Len(s) + 1, t[Len(t)] = x, \A i \in 1 .. Len(s) : t[i] = s[i]
      PROVE  s \o <<x>> = t
  <2>1. s \o <<x>> \in Seq(S) /\ Len(s \o <<x>>) = Len(t)
    BY <1>3
  <2>2. \A i \in 1 .. Len(t) : (s \o <<x>>)[i] = t[i]
    BY <1>3
  <2>3. QED
    BY <2>1, <2>2, SeqEqual
<1>4. <<a, b>> \in Seq(S) /\ <<a, c>> \in Seq(S) /\ <<a, c, b>> \in Seq(S)
  OBVIOUS
<1>5. <<a>> \o <<b>> = <<a, b>> /\ <<a>> \o <<c>> = <<a, c>>
  <2>1. \A x \in S : /\ <<a, x>> \in Seq(S) /\ Len(<<a, x>>) = Len(<<a>>) + 1
                      /\ <<a, x>>[Len(<<a, x>>)] = x
                      /\ \A i \in 1 .. Len(<<a>>) : <<a, x>>[i] = <<a>>[i]
    OBVIOUS
  <2>2. QED
    BY <1>1, <1>3, <2>1
<1>6. <<a, c>> \o <<b>> = <<a, c, b>>
  <2>1. /\ Len(<<a, c, b>>) = Len(<<a, c>>) + 1 /\ <<a, c, b>>[Len(<<a, c, b>>)] = b
        /\ \A i \in 1 .. Len(<<a, c>>) : <<a, c, b>>[i] = <<a, c>>[i]
    OBVIOUS
  <2>2. QED
    BY <1>3, <1>4, <2>1
<1>7. QED
  BY <1>2, <1>5, <1>6

Guarded(j) == ~ (InPlace(j) \/ j.overwrite)

\* What a command may do as its k-th operation.
IsWork(j, k, op) ==
  \/ j.kind = "patch" /\ k = 1 /\ op = Op("parse", "image")
  \/ j.kind = "patch" /\ Guarded(j) /\ k = 2 /\ op = Op("vacant", j.to)
  \/ j.kind = "patch" /\ k = (IF Guarded(j) THEN 3 ELSE 2) /\ op = Op("write", j.to)
  \/ j.kind = "payload" /\ k = 1 /\ op = Op("vacant", "dir")
  \/ j.kind = "payload" /\ k = 2 /\ op = Op("read", "image")
  \/ j.kind = "payload" /\ k = 3 /\ op = Op("mkdir", "dir")
  \/ j.kind = "payload" /\ k = 4 /\ op = Op("create", "layer1")
  \/ j.kind = "payload" /\ k = 5 /\ op = Op("create", "layer2")
  \/ j.kind = "payload" /\ k = 6 /\ op = Op("create", "manifest")
  \/ j.kind = "config" /\ k = 1 /\ op = Op("size", None)
  \/ j.kind = "config" /\ k = 2 /\ op = Op("value", None)
  \/ j.kind = "config" /\ k = 3 /\ op = Op("set", None)
  \/ j.kind = "index" /\ k = 1 /\ op = Op("write", j.to)
  \/ j.kind = "priority" /\ k = 1 /\ op = Op("fill", j.to)
  \/ j.kind = "dump" /\ j.to # None /\ k = 2 /\ op = Op("write", j.to)
  \/ j.kind \notin {"patch", "payload", "config", "index", "priority"} /\ k = 1
       /\ op = Op("parse", "image")

WorkLength(j) ==
  IF j.kind = "patch" THEN IF Guarded(j) THEN 3 ELSE 2
  ELSE IF j.kind = "payload" THEN 6
  ELSE IF j.kind = "config" THEN 3
  ELSE IF j.kind = "dump" /\ j.to # None THEN 2
  ELSE 1

LEMMA WorkShape ==
  ASSUME NEW j
  PROVE  /\ Len(Work(j)) = WorkLength(j) /\ Work(j) \in Seq(Range(Work(j)))
         /\ \A k \in 1 .. WorkLength(j) : IsWork(j, k, Work(j)[k])
<1> DEFINE w == Work(j)
           Shape == Len(w) = WorkLength(j) /\ w \in Seq(Range(w))
                    /\ \A k \in 1 .. WorkLength(j) : IsWork(j, k, w[k])
<1>1. CASE j.kind = "patch"
  <2>1. CASE Guarded(j)
    <3>1. w = <<Op("parse", "image"), Op("vacant", j.to), Op("write", j.to)>>
      <4>1. w = <<Op("parse", "image")>> \o <<Op("vacant", j.to)>> \o <<Op("write", j.to)>>
        BY <1>1, <2>1, WorkOfKind, Zenon DEF PatchScript, Guarded
      <4>2. QED
        BY <4>1, Concatenations
    <3>2. QED
      BY <1>1, <2>1, <3>1 DEF WorkLength, IsWork, Range
  <2>2. CASE ~ Guarded(j)
    <3>1. w = <<Op("parse", "image"), Op("write", j.to)>>
      <4>1. w = <<Op("parse", "image")>> \o << >> \o <<Op("write", j.to)>>
        BY <1>1, <2>2, WorkOfKind, Zenon DEF PatchScript, Guarded
      <4>2. QED
        BY <4>1, Concatenations
    <3>2. QED
      BY <1>1, <2>2, <3>1 DEF WorkLength, IsWork, Range
  <2>3. QED
    BY <2>1, <2>2
<1>2. CASE j.kind = "payload"
  <2>1. w = PayloadScript
    BY <1>2, WorkOfKind
  <2>2. QED
    BY <1>2, <2>1 DEF PayloadScript, WorkLength, IsWork, Range
<1>3. CASE j.kind = "config"
  <2>1. w = ConfigScript
    BY <1>3, WorkOfKind
  <2>2. QED
    BY <1>3, <2>1 DEF ConfigScript, WorkLength, IsWork, Range
<1>4. CASE j.kind \in {"index", "priority"}
  <2>1. w \in {<<Op("write", j.to)>>, <<Op("fill", j.to)>>}
    BY <1>4, WorkOfKind
  <2>2. j.kind = "index" => w = <<Op("write", j.to)>>
    BY WorkOfKind
  <2>3. j.kind = "priority" => w = <<Op("fill", j.to)>>
    BY WorkOfKind
  <2>4. QED
    BY <1>4, <2>1, <2>2, <2>3 DEF WorkLength, IsWork, Range
<1>5. CASE j.kind = "dump" /\ j.to # None
  <2>1. w = <<Op("parse", "image"), Op("write", j.to)>>
    BY <1>5, WorkOfKind
  <2>2. QED
    BY <1>5, <2>1 DEF WorkLength, IsWork, Range
<1>6. CASE /\ j.kind \notin {"patch", "payload", "config", "index", "priority"}
           /\ ~ (j.kind = "dump" /\ j.to # None)
  <2>1. w = <<Op("parse", "image")>>
    BY <1>6, WorkOfKind
  <2>2. QED
    BY <1>6, <2>1 DEF WorkLength, IsWork, Range
<1>7. QED
  BY <1>1, <1>2, <1>3, <1>4, <1>5, <1>6

\* A script is the command's work, then the debug report.
LEMMA ScriptShape ==
  ASSUME NEW j \in Jobs
  PROVE  /\ WorkLength(j) \in Nat /\ Len(Script(j)) \in WorkLength(j) .. WorkLength(j) + 1
         /\ \A k \in 1 .. Len(Script(j)) :
              \/ IsWork(j, k, Script(j)[k]) /\ k <= WorkLength(j)
              \/ k = WorkLength(j) + 1 /\ Script(j)[k] = Op("create", j.zip) /\ j.zip \in Paths
         /\ \A k \in 1 .. WorkLength(j) : IsWork(j, k, Script(j)[k])
         /\ DOMAIN Script(j) = 1 .. Len(Script(j))
<1> DEFINE w == Work(j)
           n == WorkLength(j)
<1>1. n \in Nat
  BY DEF WorkLength
<1>2. Len(w) = n /\ w \in Seq(Range(w)) /\ \A k \in 1 .. n : IsWork(j, k, w[k])
  BY WorkShape
<1> HIDE DEF w, n
<1>3. CASE j.zip = None
  <2>1. Script(j) = w
    BY <1>2, <1>3 DEF Script, w
  <2>2. QED
    BY <1>1, <1>2, <2>1 DEF n
<1>4. CASE j.zip # None
  <2>1. Script(j) = w \o <<Op("create", j.zip)>>
    BY <1>4 DEF Script, w
  <2>2. j.zip \in Paths
    BY <1>4, JobsAssumption
  <2>3. /\ Len(Script(j)) = n + 1 /\ Script(j)[n + 1] = Op("create", j.zip)
        /\ \A k \in 1 .. n : Script(j)[k] = w[k]
    <3>1. w \in Seq(Range(w) \cup {Op("create", j.zip)})
      BY <1>2
    <3>2. Script(j) = Append(w, Op("create", j.zip))
      BY <2>1, <3>1
    <3>3. QED
      BY <1>1, <1>2, <3>1, <3>2
  <2>4. QED
    BY <1>1, <1>2, <2>2, <2>3 DEF n
<1>5. QED
  BY <1>3, <1>4

\* What the operations of a script are about, and where they stand in it.
LEMMA Operations ==
  ASSUME NEW j \in Jobs, NEW k \in 1 .. Len(Script(j))
  PROVE  LET op == Script(j)[k]
         IN  /\ op[1] \in Writes \cup {"mkdir"} => op[2] \in Paths
             /\ op[1] = "write" => /\ op[2] = j.to
                                   /\ MayReplace(j, j.to) \/ (j.kind = "patch" /\ Guarded(j) /\ k = 3)
                                   /\ \A i \in 1 .. k - 1 : Script(j)[i][1] \notin Writes
             /\ op[1] = "mkdir" => j.kind = "payload" /\ k = 3 /\ op[2] = "dir"
             /\ op[1] = "size" <=> j.kind = "config" /\ k = 1
             /\ op[1] = "value" <=> j.kind = "config" /\ k = 2
             /\ op[1] = "set" <=> j.kind = "config" /\ k = 3
             /\ op[1] \in Writes /\ op[2] \in Payload =>
                  \/ op[2] \in {j.to, j.zip}
                  \/ j.kind = "payload" /\ op[1] = "create" /\
                       \/ k = 4 /\ op[2] = "layer1"
                       \/ k = 5 /\ op[2] = "layer2"
                       \/ k = 6 /\ op[2] = "manifest"
<1> DEFINE op == Script(j)[k]
<1>1. /\ WorkLength(j) \in Nat /\ Len(Script(j)) \in Nat
      /\ \/ IsWork(j, k, op) /\ k <= WorkLength(j)
         \/ k = WorkLength(j) + 1 /\ op = Op("create", j.zip) /\ j.zip \in Paths
      /\ \A i \in 1 .. WorkLength(j) : IsWork(j, i, Script(j)[i])
  BY ScriptShape
<1>2. \A i \in 1 .. Len(Script(j)) : i < k => i <= WorkLength(j) /\ IsWork(j, i, Script(j)[i])
  BY <1>1, ScriptShape
<1> HIDE DEF op
<1>3. op[1] \in Writes \cup {"mkdir"} => op[2] \in Paths
  BY <1>1, JobsAssumption DEF IsWork, Op, Writes, Paths
<1>4. op[1] = "write" =>
        /\ op[2] = j.to /\ IsWork(j, k, op)
        /\ MayReplace(j, j.to) \/ (j.kind = "patch" /\ Guarded(j) /\ k = 3)
  BY <1>1 DEF IsWork, Op, MayReplace, Guarded
<1>5. op[1] = "write" => \A i \in 1 .. k - 1 : Script(j)[i][1] \notin Writes
  <2> SUFFICES ASSUME op[1] = "write", NEW i \in 1 .. k - 1 PROVE Script(j)[i][1] \notin Writes
    OBVIOUS
  <2>1. IsWork(j, k, op) /\ IsWork(j, i, Script(j)[i]) /\ i < k /\ i \in Nat /\ k \in Nat
    BY <1>1, <1>2, <1>4
  <2> DEFINE before == Script(j)[i]
  <2>2. IsWork(j, i, before)
    BY <2>1
  <2> HIDE DEF before
  <2>3. before[1] \notin Writes
    BY <2>1, <2>2 DEF IsWork, Op, Writes
  <2>4. QED
    BY <2>3 DEF before
<1>6. op[1] = "mkdir" => j.kind = "payload" /\ k = 3 /\ op[2] = "dir"
  BY <1>1 DEF IsWork, Op
<1>7. /\ op[1] = "size" => j.kind = "config" /\ k = 1
      /\ op[1] = "value" => j.kind = "config" /\ k = 2
      /\ op[1] = "set" => j.kind = "config" /\ k = 3
  BY <1>1 DEF IsWork, Op
<1>8. ASSUME j.kind = "config", k \in 1 .. 3
      PROVE  op = Op(IF k = 1 THEN "size" ELSE IF k = 2 THEN "value" ELSE "set", None)
  <2>1. IsWork(j, k, op)
    BY <1>1, <1>8 DEF WorkLength
  <2>2. QED
    BY <1>8, <2>1 DEF IsWork
<1>9. ASSUME j.kind = "config"
      PROVE  /\ k = 1 => op[1] = "size"
             /\ k = 2 => op[1] = "value"
             /\ k = 3 => op[1] = "set"
  BY <1>8, <1>9 DEF Op
<1>10. op[1] \in Writes /\ op[2] \in Payload =>
         \/ op[2] \in {j.to, j.zip}
         \/ j.kind = "payload" /\ op[1] = "create" /\
              \/ k = 4 /\ op[2] = "layer1"
              \/ k = 5 /\ op[2] = "layer2"
              \/ k = 6 /\ op[2] = "manifest"
  BY <1>1 DEF IsWork, Op, Writes, Payload
<1>11. QED
  BY <1>3, <1>4, <1>5, <1>6, <1>7, <1>9, <1>10 DEF op

-----------------------------------------------------------------------------
(* Types, and what a step does to the files.                                *)

FilesTyped ==
  /\ job \in [Procs -> Jobs] /\ DOMAIN disk = Paths
  /\ at \in [Procs -> Nat] /\ half \in [Procs -> BOOLEAN]
  /\ ended \in [Procs -> {"no", "well", "failed", "killed"}]
  /\ \A p \in Procs :
       /\ half[p] => at[p] \in 1 .. Len(Script(job[p])) /\ Now(p)[1] \in Writes
       /\ ended[p] = "well" => at[p] = Len(Script(job[p])) + 1

Goes(p) == at' = [at EXCEPT ![p] = @ + 1] /\ UNCHANGED ended
Puts(x, f) == disk' = [disk EXCEPT ![x] = f]

\* A process fails, is killed, or does what changes no file.
Stops(p) ==
  /\ \E how \in {"failed", "killed"} : ended' = [ended EXCEPT ![p] = how]
  /\ UNCHANGED <<disk, half, at>>
PassesAt(p) ==
  /\ ~ half[p] /\ Goes(p) /\ UNCHANGED <<disk, half>>
  /\ \/ at[p] = 0 /\ job[p].out = None
     \/ at[p] \in 1 .. Len(Script(job[p])) /\ Now(p)[1] \notin {"write", "create", "mkdir"}
\* It opens --out, makes a directory, begins or ends a write, or finishes.
Opens(p) ==
  /\ at[p] = 0 /\ job[p].out \in Paths
  /\ KeepsOut(job[p]) => disk[job[p].out] = Absent
  /\ Puts(job[p].out, Part(p)) /\ Goes(p) /\ UNCHANGED half
Makes(p) ==
  /\ at[p] = 3 /\ job[p].kind = "payload" /\ ~ half[p] /\ disk["dir"] = Absent
  /\ Puts("dir", Whole(p)) /\ Goes(p) /\ UNCHANGED half
  /\ at[p] \in 1 .. Len(Script(job[p])) /\ Now(p)[1] = "mkdir"
Begins(p) ==
  /\ at[p] \in 1 .. Len(Script(job[p])) /\ Now(p)[1] \in Writes /\ ~ half[p]
  /\ Now(p)[1] # "write" => disk[Now(p)[2]] = Absent
  /\ Puts(Now(p)[2], Part(p)) /\ half' = [half EXCEPT ![p] = TRUE] /\ UNCHANGED <<at, ended>>
EndsAt(p) ==
  /\ at[p] \in 1 .. Len(Script(job[p])) /\ Now(p)[1] \in Writes /\ half[p]
  /\ \/ Puts(Now(p)[2], Whole(p))
     \/ disk[Now(p)[2]] # Part(p) /\ Puts(Now(p)[2], Part(p))
  /\ half' = [half EXCEPT ![p] = FALSE] /\ Goes(p)
Finishes(p) ==
  /\ at[p] = Len(Script(job[p])) + 1
  /\ \/ UNCHANGED disk
     \/ job[p].out \in Paths /\ \E f \in {Whole(p), Part(p)} : Puts(job[p].out, f)
  /\ ended' = [ended EXCEPT ![p] = "well"] /\ UNCHANGED <<half, at>>

Effect(p) ==
  \/ Stops(p) \/ PassesAt(p) \/ Opens(p) \/ Makes(p) \/ Begins(p) \/ EndsAt(p) \/ Finishes(p)

LEMMA OutTyped ==
  ASSUME FilesTyped, NEW p \in Procs
  PROVE  job[p] \in Jobs /\ job[p].out \in Paths \cup {None} /\ Len(Script(job[p])) \in Nat
         /\ at[p] \in Nat
<1>1. job[p] \in Jobs /\ at[p] \in Nat
  BY DEF FilesTyped
<1>2. QED
  BY <1>1, JobsAssumption, ScriptShape

LEMMA StepEffects ==
  ASSUME FilesTyped, NEW p \in Procs, Step(p) \/ Kill(p)
  PROVE  job' = job /\ Running(p) /\ Effect(p)
<1> DEFINE j == job[p]
           op == Now(p)
<1>1. j \in Jobs /\ j.out \in Paths \cup {None} /\ Len(Script(j)) \in Nat /\ at[p] \in Nat
  BY OutTyped
<1>2. half[p] => at[p] \in 1 .. Len(Script(j)) /\ op[1] \in Writes
  BY DEF FilesTyped
<1> USE DEF Effect
<1>3. CASE OpenOutput(p)
  <2>1. CASE j.out = None
    BY <1>2, <1>3, <2>1 DEF OpenOutput, Advance, PassesAt, Goes
  <2>2. CASE j.out # None /\ KeepsOut(j) /\ disk[j.out] # Absent
    BY <1>3, <2>2 DEF OpenOutput, Fail, Exit, Stops
  <2>3. CASE j.out # None /\ ~ (KeepsOut(j) /\ disk[j.out] # Absent)
    BY <1>1, <1>3, <2>3 DEF OpenOutput, Advance, Opens, Goes, Puts
  <2>4. QED
    BY <2>1, <2>2, <2>3
<1>4. CASE Look(p)
  <2>1. op[1] \in {"parse", "read", "vacant"} /\ at[p] \in 1 .. Len(Script(j)) /\ ~ half[p]
    BY <1>2, <1>4 DEF Look, Doing, Writes
  <2>2. Fail(p) \/ (Advance(p) /\ UNCHANGED <<disk, half, ended>>)
    BY <1>4 DEF Look
  <2>3. QED
    BY <1>4, <2>1, <2>2 DEF Look, Doing, Fail, Exit, Stops, Advance, PassesAt, Goes
<1>5. CASE MakeDirectory(p)
  <2>1. op[1] = "mkdir" /\ at[p] \in 1 .. Len(Script(j)) /\ ~ half[p]
    BY <1>2, <1>5 DEF MakeDirectory, Doing, Writes
  <2>2. op[2] = "dir" /\ j.kind = "payload" /\ at[p] = 3
    BY <1>1, <2>1, Operations DEF Now
  <2>3. QED
    BY <1>5, <2>1, <2>2 DEF MakeDirectory, Doing, Fail, Exit, Stops, Advance, Makes, Goes, Puts
<1>6. CASE BeginWrite(p)
  BY <1>6 DEF BeginWrite, Doing, Fail, Exit, Stops, Advance, PassesAt, Begins, Goes, Puts, Writes
<1>7. CASE EndWrite(p)
  <2>1. \/ disk' = [disk EXCEPT ![op[2]] = Whole(p)]
        \/ disk[op[2]] # Part(p) /\ disk' = [disk EXCEPT ![op[2]] = Part(p)]
    BY <1>7 DEF EndWrite
  <2>2. QED
    BY <1>2, <1>7, <2>1 DEF EndWrite, Advance, EndsAt, Goes, Puts
<1>8. CASE WriteFails(p) \/ SetFails(p)
  BY <1>8 DEF WriteFails, SetFails, Doing, Fail, Exit, Stops
<1>9. CASE Flush(p)
  <2>1. UNCHANGED disk \/ (j.out # None /\ \E f \in {Whole(p), Part(p)} : disk' = [disk EXCEPT ![j.out] = f])
    BY <1>9 DEF Flush
  <2>2. QED
    BY <1>1, <1>9, <2>1 DEF Flush, Exit, Finishes, Puts
<1>10. CASE QuerySize(p) \/ QueryValue(p) \/ SetValue(p)
  <2>1. op[1] \in {"size", "value", "set"} /\ at[p] \in 1 .. Len(Script(j)) /\ ~ half[p]
    BY <1>2, <1>10 DEF QuerySize, QueryValue, SetValue, Doing, Writes
  <2>2. QED
    BY <1>10, <2>1 DEF QuerySize, QueryValue, SetValue, Doing, Advance, PassesAt, Goes
<1>11. CASE Kill(p)
  BY <1>11 DEF Kill, Exit, Stops
<1>12. QED
  BY <1>3, <1>4, <1>5, <1>6, <1>7, <1>8, <1>9, <1>10, <1>11 DEF Step

LEMMA InitFilesTyped == FilesInit => FilesTyped
BY DEF FilesInit, FilesTyped, Paths

\* The operation of a process that does not move stays what it is, and so does
\* everything that is known of the other processes.
LEMMA Others ==
  ASSUME FilesTyped, NEW p \in Procs, Effect(p), job' = job, Running(p), NEW q \in Procs \ {p}
  PROVE  at'[q] = at[q] /\ half'[q] = half[q] /\ ended'[q] = ended[q] /\ job'[q] = job[q]
BY DEF FilesTyped, Effect, Stops, PassesAt, Opens, Makes, Begins, EndsAt, Finishes, Goes

LEMMA StepFilesTyped ==
  ASSUME FilesTyped, NEW p \in Procs, Effect(p), job' = job, Running(p)
  PROVE  FilesTyped'
<1>1. DOMAIN disk' = Paths
  BY DEF FilesTyped, Effect, Stops, PassesAt, Opens, Makes, Begins, EndsAt, Finishes, Puts
<1>2. at' \in [Procs -> Nat]
  BY SMTT(20) DEF FilesTyped, Effect, Stops, PassesAt, Opens, Makes, Begins, EndsAt, Finishes, Goes
<1>3. half' \in [Procs -> BOOLEAN]
  BY DEF FilesTyped, Effect, Stops, PassesAt, Opens, Makes, Begins, EndsAt, Finishes
<1>4. ended' \in [Procs -> {"no", "well", "failed", "killed"}]
  BY DEF FilesTyped, Effect, Stops, PassesAt, Opens, Makes, Begins, EndsAt, Finishes, Goes
<1>5. /\ half'[p] => at'[p] = at[p] /\ at[p] \in 1 .. Len(Script(job[p])) /\ Now(p)[1] \in Writes
      /\ ended'[p] = "well" => at'[p] = Len(Script(job[p])) + 1
  <2>1. /\ half[p] => at[p] \in 1 .. Len(Script(job[p])) /\ Now(p)[1] \in Writes
        /\ ended[p] = "no" /\ at[p] \in Nat /\ DOMAIN at = Procs /\ DOMAIN half = Procs
        /\ DOMAIN ended = Procs /\ Len(Script(job[p])) \in Nat
    BY OutTyped DEF FilesTyped, Running
  <2>2. CASE Stops(p)
    BY <2>1, <2>2 DEF Stops
  <2>3. CASE PassesAt(p) \/ Makes(p)
    BY <2>1, <2>3 DEF PassesAt, Makes, Goes
  <2>4. CASE Opens(p)
    BY <2>1, <2>4 DEF Opens, Goes
  <2>5. CASE Begins(p)
    BY <2>1, <2>5 DEF Begins
  <2>6. CASE EndsAt(p)
    BY <2>1, <2>6 DEF EndsAt, Goes
  <2>7. CASE Finishes(p)
    BY <2>1, <2>7 DEF Finishes
  <2>8. QED
    BY <2>2, <2>3, <2>4, <2>5, <2>6, <2>7 DEF Effect
<1>6. ASSUME NEW q \in Procs
      PROVE  /\ half'[q] => at'[q] \in 1 .. Len(Script(job'[q])) /\ Now(q)'[1] \in Writes
             /\ ended'[q] = "well" => at'[q] = Len(Script(job'[q])) + 1
  <2>1. CASE q = p
    BY <1>5, <2>1 DEF Now
  <2>2. CASE q # p
    BY <2>2, Others DEF FilesTyped, Now
  <2>3. QED
    BY <2>1, <2>2
<1>7. job' \in [Procs -> Jobs]
  BY DEF FilesTyped
<1>8. QED
  BY <1>1, <1>2, <1>3, <1>4, <1>6, <1>7 DEF FilesTyped

\* What a step makes of a file: it is the process's own.
LEMMA FilesChange ==
  ASSUME FilesTyped, NEW p \in Procs, Effect(p), NEW x \in Paths, disk'[x] # disk[x]
  PROVE  /\ disk'[x] \in {Whole(p), Part(p)}
         /\ \/ x = job[p].out
            \/ /\ at[p] \in 1 .. Len(Script(job[p])) /\ x = Now(p)[2]
               /\ Now(p)[1] \in Writes
            \/ x = "dir" /\ disk[x] = Absent
<1>1. DOMAIN disk = Paths
  BY DEF FilesTyped
<1>2. QED
  BY <1>1 DEF Effect, Stops, PassesAt, Opens, Makes, Begins, EndsAt, Finishes, Puts

LEMMA FilesDiffer ==
  ASSUME NEW p \in Procs, NEW q \in Procs
  PROVE  /\ Whole(p) # Whole(Before) /\ Part(p) # Whole(Before)
         /\ Whole(p) # Absent /\ Part(p) # Absent /\ Whole(Before) # Absent
         /\ Whole(p) # Part(q)
         /\ Whole(p) = Whole(q) => p = q
         /\ Part(p).by = p /\ Whole(p).by = p /\ Absent.by = Before /\ p # Before
BY ProcsAssumption DEF Whole, Part, Absent, File

-----------------------------------------------------------------------------
(* What was there before.  A process writes on in a file only when it has   *)
(* opened it or seen that it was not there, and neither is undone.          *)

Replaced(x) == disk[x] # Whole(Before)

OldInv ==
  \A p \in Procs :
    /\ half[p] => Replaced(Now(p)[2])
    /\ at[p] >= 1 /\ job[p].out # None => Replaced(job[p].out)
    /\ at[p] >= 3 /\ job[p].kind = "patch" /\ Guarded(job[p]) => Replaced(job[p].to)

LEMMA ReplacedForGood ==
  ASSUME FilesTyped, NEW p \in Procs, Effect(p), NEW x \in Paths, Replaced(x)
  PROVE  Replaced(x)'
BY FilesChange, FilesDiffer DEF Replaced

LEMMA PathsOfJobs ==
  ASSUME FilesTyped, NEW p \in Procs
  PROVE  /\ job[p] \in Jobs
         /\ job[p].out # None => job[p].out \in Paths
         /\ job[p].kind = "patch" => job[p].to \in Paths
         /\ at[p] \in 1 .. Len(Script(job[p])) /\ Now(p)[1] \in Writes => Now(p)[2] \in Paths
         /\ half[p] => Now(p)[2] \in Paths
<1>1. job[p] \in Jobs
  BY DEF FilesTyped
<1>2. at[p] \in 1 .. Len(Script(job[p])) /\ Now(p)[1] \in Writes => Now(p)[2] \in Paths
  BY <1>1, Operations DEF Now
<1>3. QED
  BY <1>1, <1>2, JobsAssumption DEF FilesTyped

LEMMA InitOldInv == FilesInit => OldInv
BY DEF FilesInit, OldInv

\* A guarded patch that goes on to its write has seen that its copy is not there.
LEMMA VacantSeen ==
  ASSUME FilesTyped, NEW p \in Procs, Step(p), at[p] = 2, at'[p] = 3,
         job[p].kind = "patch", Guarded(job[p])
  PROVE  disk[job[p].to].state = "absent"
<1> DEFINE j == job[p]
<1>1. j \in Jobs /\ WorkLength(j) = 3 /\ Len(Script(j)) \in 3 .. 4
  <2>1. j \in Jobs /\ WorkLength(j) = 3
    BY PathsOfJobs DEF WorkLength
  <2>2. Len(Script(j)) \in WorkLength(j) .. WorkLength(j) + 1
    BY <2>1, ScriptShape
  <2>3. QED
    BY <2>1, <2>2
<1>2. IsWork(j, 2, Script(j)[2])
  BY <1>1, ScriptShape
<1>3. Now(p) = Op("vacant", j.to)
  BY <1>2 DEF IsWork, Now
<1>4. Now(p)[1] = "vacant" /\ Now(p)[2] = j.to /\ ~ half[p] /\ DOMAIN at = Procs
  BY <1>3 DEF Op, FilesTyped, Writes
<1>5. ~ UNCHANGED at
  OBVIOUS
<1>6. Look(p)
  BY <1>1, <1>4, <1>5 DEF Step, OpenOutput, MakeDirectory, BeginWrite, EndWrite, WriteFails, Flush,
                         QuerySize, QueryValue, SetValue, SetFails, Doing, Fail
<1>7. QED
  BY <1>4, <1>5, <1>6 DEF Look, Fail

LEMMA StepOldInv ==
  ASSUME FilesTyped, OldInv, NEW p \in Procs, Step(p) \/ Kill(p)
  PROVE  OldInv'
<1>1. job' = job /\ Running(p) /\ Effect(p)
  BY StepEffects
<1>2. ASSUME NEW q \in Procs \ {p}
      PROVE  /\ half'[q] => Replaced(Now(q)[2])'
             /\ at'[q] >= 1 /\ job'[q].out # None => Replaced(job[q].out)'
             /\ at'[q] >= 3 /\ job'[q].kind = "patch" /\ Guarded(job'[q]) => Replaced(job[q].to)'
  <2>1. at'[q] = at[q] /\ half'[q] = half[q] /\ Now(q)' = Now(q)
    BY <1>1, Others DEF Now
  <2>2. /\ half[q] => Replaced(Now(q)[2])
        /\ at[q] >= 1 /\ job[q].out # None => Replaced(job[q].out)
        /\ at[q] >= 3 /\ job[q].kind = "patch" /\ Guarded(job[q]) => Replaced(job[q].to)
    BY DEF OldInv
  <2>3. \A x \in Paths : Replaced(x) => disk'[x] # Whole(Before)
    BY <1>1, ReplacedForGood DEF Replaced
  <2>4. QED
    BY <1>1, <2>1, <2>2, <2>3, PathsOfJobs DEF Replaced
<1>3. half'[p] => Replaced(Now(p)[2])'
  <2> SUFFICES ASSUME half'[p] PROVE disk'[Now(p)'[2]] # Whole(Before)
    BY DEF Replaced
  <2>1. CASE half[p]
    <3>1. at'[p] = at[p] /\ at[p] \in 1 .. Len(Script(job[p])) /\ Now(p)[1] \in Writes
      BY <1>1, <2>1 DEF Effect, Stops, PassesAt, Opens, Makes, Begins, EndsAt, Finishes, FilesTyped
    <3>2. Now(p)' = Now(p) /\ Now(p)[2] \in Paths /\ Replaced(Now(p)[2])
      BY <1>1, <2>1, <3>1, PathsOfJobs DEF Now, OldInv
    <3>3. QED
      BY <1>1, <3>2, ReplacedForGood DEF Replaced
  <2>2. CASE ~ half[p]
    <3>1. Begins(p)
      BY <1>1, <2>2 DEF Effect, Stops, PassesAt, Opens, Makes, EndsAt, Finishes, FilesTyped
    <3>2. Now(p)' = Now(p) /\ Now(p)[2] \in Paths
      BY <1>1, <3>1, PathsOfJobs DEF Now, Begins
    <3>3. QED
      BY <3>1, <3>2, FilesDiffer DEF Begins, Puts, FilesTyped
  <2>3. QED
    BY <2>1, <2>2
<1>4. at'[p] >= 1 /\ job'[p].out # None => Replaced(job[p].out)'
  <2> SUFFICES ASSUME at'[p] >= 1, job[p].out # None PROVE disk'[job[p].out] # Whole(Before)
    BY <1>1 DEF Replaced
  <2>1. CASE at[p] >= 1
    BY <1>1, <2>1, ReplacedForGood, PathsOfJobs DEF OldInv, Replaced
  <2>2. CASE ~ (at[p] >= 1)
    <3>1. at[p] = 0 /\ Len(Script(job[p])) \in Nat
      BY <2>2, OutTyped DEF FilesTyped
    <3>2. Opens(p)
      BY <1>1, <3>1 DEF Effect, Stops, PassesAt, Makes, Begins, EndsAt, Finishes
    <3>3. QED
      BY <3>2, FilesDiffer DEF Opens, Puts, FilesTyped
  <2>3. QED
    BY <2>1, <2>2
<1>5. at'[p] >= 3 /\ job'[p].kind = "patch" /\ Guarded(job'[p]) => Replaced(job[p].to)'
  <2> SUFFICES ASSUME at'[p] >= 3, job[p].kind = "patch", Guarded(job[p])
               PROVE  disk'[job[p].to] # Whole(Before)
    BY <1>1 DEF Replaced
  <2>1. job[p].to \in Paths
    BY PathsOfJobs
  <2>2. CASE at[p] >= 3
    BY <1>1, <2>1, <2>2, ReplacedForGood DEF OldInv, Replaced
  <2>3. CASE ~ (at[p] >= 3)
    <3>1. at[p] = 2 /\ at'[p] = 3
      <4>1. at[p] \in Nat /\ at'[p] \in {at[p], at[p] + 1}
        BY <1>1 DEF Effect, Stops, PassesAt, Opens, Makes, Begins, EndsAt, Finishes, Goes, FilesTyped
      <4>2. QED
        BY <2>3, <4>1
    <3>2. Step(p)
      BY <3>1 DEF Kill
    <3>3. disk[job[p].to].state = "absent"
      BY <3>1, <3>2, VacantSeen
    <3>4. Replaced(job[p].to)
      BY <3>3 DEF Replaced, Whole, File
    <3>5. QED
      BY <1>1, <2>1, <3>4, ReplacedForGood DEF Replaced
  <2>4. QED
    BY <2>2, <2>3
<1>6. QED
  BY <1>2, <1>3, <1>4, <1>5 DEF OldInv

\* A file that was there is changed only by a process whose job may.
LEMMA StepReplacesByRight ==
  ASSUME FilesTyped, OldInv, NEW p \in Procs, Step(p) \/ Kill(p)
  PROVE  ReplacedByRight
<1> SUFFICES ASSUME NEW x \in Paths, disk[x] = Whole(Before), disk'[x] # disk[x]
             PROVE  Running(p) /\ MayReplace(job[p], x)
  BY DEF ReplacedByRight
<1>1. job' = job /\ Running(p) /\ Effect(p)
  BY StepEffects
<1>2. DOMAIN disk = Paths /\ disk[x] # Absent /\ job[p] \in Jobs /\ at[p] \in Nat
      /\ Len(Script(job[p])) \in Nat
  BY FilesDiffer, OutTyped DEF FilesTyped
<1>3. CASE Opens(p)
  BY <1>1, <1>2, <1>3 DEF Opens, Puts, MayReplace
<1>4. CASE Begins(p)
  <2>1. x = Now(p)[2] /\ Now(p)[1] = "write" /\ at[p] \in 1 .. Len(Script(job[p]))
    BY <1>2, <1>4 DEF Begins, Puts
  <2>2. x = job[p].to /\ (MayReplace(job[p], x) \/ (job[p].kind = "patch" /\ Guarded(job[p]) /\ at[p] = 3))
    BY <1>2, <2>1, Operations DEF Now
  <2>3. QED
    BY <1>1, <2>2 DEF OldInv, Replaced
<1>5. CASE EndsAt(p)
  BY <1>2, <1>5 DEF EndsAt, Puts, OldInv, Replaced
<1>6. CASE Finishes(p)
  <2>1. at[p] >= 1 /\ job[p].out \in Paths /\ x = job[p].out
    BY <1>2, <1>6 DEF Finishes, Puts
  <2>2. Replaced(x)
    BY <2>1, JobsAssumption DEF OldInv
  <2>3. QED
    BY <2>2 DEF Replaced
<1>7. QED
  BY <1>1, <1>2, <1>3, <1>4, <1>5, <1>6 DEF Effect, Stops, PassesAt, Makes, Puts

-----------------------------------------------------------------------------
(* The preferences.  A process that was alone so far between the query of   *)
(* the value's size and its own save knows what the registry holds.         *)

Storing(p) == Running(p) /\ job[p].kind = "config" /\ at[p] \in {2, 3}

SavedInv ==
  /\ prefs \subseteq Settings /\ loaded \in [Procs -> SUBSET Settings] /\ DOMAIN size = Procs
  /\ \A p \in Procs : Storing(p) /\ p \notin met =>
       /\ \A q \in Procs : Storing(q) => q = p
       /\ at[p] = 2 => size[p] = Cardinality(prefs)
       /\ at[p] = 3 => loaded[p] = prefs

LEMMA InitSavedInv == FilesInit => SavedInv
BY DEF FilesInit, SavedInv, Storing

LEMMA RegistryOperations ==
  ASSUME FilesTyped, NEW p \in Procs
  PROVE  /\ Doing(p, {"size"}) <=> Running(p) /\ job[p].kind = "config" /\ at[p] = 1
         /\ Doing(p, {"value"}) <=> Running(p) /\ job[p].kind = "config" /\ at[p] = 2
         /\ Doing(p, {"set"}) <=> Running(p) /\ job[p].kind = "config" /\ at[p] = 3
         /\ Doing(p, {"value", "set"}) <=> Storing(p)
<1> DEFINE j == job[p]
<1>1. j \in Jobs /\ at[p] \in Nat /\ Len(Script(j)) \in Nat
  BY OutTyped
<1>2. j.kind = "config" => Len(Script(j)) >= 3
  <2>1. j.kind = "config" => WorkLength(j) = 3
    BY DEF WorkLength
  <2>2. Len(Script(j)) \in WorkLength(j) .. WorkLength(j) + 1 /\ WorkLength(j) \in Nat
    BY <1>1, ScriptShape
  <2>3. QED
    BY <1>1, <2>1, <2>2
<1>3. \A k \in 1 .. Len(Script(j)) :
        /\ Script(j)[k][1] = "size" <=> j.kind = "config" /\ k = 1
        /\ Script(j)[k][1] = "value" <=> j.kind = "config" /\ k = 2
        /\ Script(j)[k][1] = "set" <=> j.kind = "config" /\ k = 3
  BY <1>1, Operations
<1>4. QED
  BY <1>1, <1>2, <1>3 DEF Doing, Now, Storing

LEMMA QuerySizeSaved == ASSUME FilesTyped, SavedInv, NEW p \in Procs, QuerySize(p) PROVE SavedInv'
<1> DEFINE others == {q \in Procs : Storing(q)}
<1>1. /\ at[p] = 1 /\ job[p].kind = "config" /\ Running(p)
      /\ size' = [size EXCEPT ![p] = Cardinality(prefs)]
      /\ at' = [at EXCEPT ![p] = @ + 1]
      /\ UNCHANGED <<job, ended, prefs, loaded>>
  BY RegistryOperations DEF QuerySize, Advance, Doing
<1>2. met' = met \cup others \cup (IF others = {} THEN {} ELSE {p})
  <2>1. others = {q \in Procs : Doing(q, {"value", "set"})}
    BY RegistryOperations
  <2>2. QED
    BY <2>1 DEF QuerySize
<1>3. \A q \in Procs : Storing(q)' <=> q = p \/ Storing(q)
  BY <1>1 DEF Storing, Running, FilesTyped
<1>4. ASSUME NEW q \in Procs, Storing(q)', q \notin met'
      PROVE  /\ \A r \in Procs : Storing(r)' => r = q
             /\ at'[q] = 2 => size'[q] = Cardinality(prefs')
             /\ at'[q] = 3 => loaded'[q] = prefs'
  <2>1. q = p
    BY <1>2, <1>3, <1>4
  <2>2. others = {}
    BY <1>2, <1>4, <2>1
  <2>3. QED
    BY <1>1, <1>3, <2>1, <2>2 DEF SavedInv, FilesTyped
<1>5. prefs' \subseteq Settings /\ loaded' \in [Procs -> SUBSET Settings] /\ DOMAIN size' = Procs
  BY <1>1 DEF SavedInv
<1>6. QED
  BY <1>4, <1>5 DEF SavedInv

LEMMA QueryValueSaved == ASSUME FilesTyped, SavedInv, NEW p \in Procs, QueryValue(p) PROVE SavedInv'
<1>1. /\ at[p] = 2 /\ Storing(p)
      /\ loaded' = [loaded EXCEPT ![p] = IF Cardinality(prefs) > size[p] THEN {} ELSE prefs]
      /\ at' = [at EXCEPT ![p] = @ + 1]
      /\ UNCHANGED <<job, ended, prefs, size, met>>
  BY RegistryOperations DEF QueryValue, Advance, Storing
<1>2. \A q \in Procs : Storing(q)' <=> Storing(q)
  BY <1>1 DEF Storing, Running, FilesTyped
<1>3. Cardinality(prefs) \in Nat
  BY FS_CardinalityType, FS_Subset, JobsAssumption DEF SavedInv
<1>4. ASSUME NEW q \in Procs, Storing(q)', q \notin met'
      PROVE  /\ \A r \in Procs : Storing(r)' => r = q
             /\ at'[q] = 2 => size'[q] = Cardinality(prefs')
             /\ at'[q] = 3 => loaded'[q] = prefs'
  <2>1. q = p /\ size[p] = Cardinality(prefs)
    BY <1>1, <1>2, <1>4 DEF SavedInv
  <2>2. QED
    BY <1>1, <1>2, <1>3, <1>4, <2>1 DEF SavedInv, FilesTyped
<1>5. loaded' \in [Procs -> SUBSET Settings]
  BY <1>1 DEF SavedInv
<1>6. QED
  BY <1>1, <1>4, <1>5 DEF SavedInv

LEMMA SetValueSaved == ASSUME FilesTyped, SavedInv, NEW p \in Procs, SetValue(p) PROVE SavedInv'
<1>1. /\ at[p] = 3 /\ Storing(p) /\ job[p].kind = "config" /\ job[p] \in Jobs
      /\ prefs' = loaded[p] \cup {job[p].setting}
      /\ at' = [at EXCEPT ![p] = @ + 1]
      /\ UNCHANGED <<job, ended, size, loaded, met>>
  BY RegistryOperations DEF SetValue, Advance, Storing, FilesTyped
<1>2. \A q \in Procs : Storing(q)' => Storing(q) /\ q # p
  BY <1>1 DEF Storing, Running, FilesTyped
<1>3. \A q \in Procs : Storing(q)' => q \in met'
  BY <1>1, <1>2 DEF SavedInv
<1>4. prefs' \subseteq Settings
  BY <1>1, JobsAssumption DEF SavedInv
<1>5. QED
  BY <1>1, <1>3, <1>4 DEF SavedInv

\* A step that has nothing to do with the registry.
LEMMA OtherStepSaved ==
  ASSUME FilesTyped, SavedInv, NEW p \in Procs, Effect(p), job' = job, Running(p),
         UNCHANGED registry, at'[p] # at[p] => ~ Doing(p, {"size"}) /\ ~ Storing(p)
  PROVE  SavedInv'
<1>1. ASSUME NEW q \in Procs, Storing(q)'
      PROVE  Storing(q) /\ at'[q] = at[q]
  <2>1. CASE q # p
    BY <1>1, <2>1, Others DEF Storing, Running
  <2>2. CASE q = p
    <3>1. at[p] \in Nat /\ at'[p] \in {at[p], at[p] + 1}
      BY DEF Effect, Stops, PassesAt, Opens, Makes, Begins, EndsAt, Finishes, Goes, FilesTyped
    <3>2. at'[p] = at[p]
      BY <1>1, <2>2, <3>1, RegistryOperations DEF Storing
    <3>3. QED
      BY <1>1, <2>2, <3>2 DEF Storing
  <2>3. QED
    BY <2>1, <2>2
<1>2. QED
  BY <1>1 DEF SavedInv, registry

LEMMA StepSavedInv ==
  ASSUME FilesTyped, SavedInv, NEW p \in Procs, Step(p) \/ Kill(p)
  PROVE  SavedInv'
<1>1. job' = job /\ Running(p) /\ Effect(p)
  BY StepEffects
<1>2. CASE QuerySize(p) \/ QueryValue(p) \/ SetValue(p)
  BY <1>2, QuerySizeSaved, QueryValueSaved, SetValueSaved
<1>3. CASE ~ (QuerySize(p) \/ QueryValue(p) \/ SetValue(p))
  <2>1. UNCHANGED registry
    BY <1>3 DEF Step, OpenOutput, Look, MakeDirectory, BeginWrite, EndWrite, WriteFails, Flush,
                SetFails, Kill
  <2>2. ASSUME at'[p] # at[p] PROVE ~ Doing(p, {"size"}) /\ ~ Storing(p)
    <3>1. \/ OpenOutput(p) \/ Flush(p) \/ Doing(p, Writes \cup {"parse", "read", "vacant", "mkdir"})
          \/ half[p]
      BY <1>3, <2>2 DEF Step, Look, MakeDirectory, BeginWrite, EndWrite, WriteFails, SetFails, Kill,
                        Doing, Writes, Fail
    <3>2. half[p] => Doing(p, Writes)
      BY <1>1 DEF FilesTyped, Doing
    <3>3. at[p] = 0 \/ Flush(p) \/ Doing(p, Writes \cup {"parse", "read", "vacant", "mkdir"})
      BY <3>1, <3>2 DEF OpenOutput, Doing
    <3>4. ~ Flush(p)
      BY <2>2 DEF Flush
    <3>5. QED
      BY <3>3, <3>4, RegistryOperations DEF Doing, Writes, Storing
  <2>3. QED
    BY <1>1, <2>1, <2>2, OtherStepSaved
<1>4. QED
  BY <1>2, <1>3

LEMMA StepSavedKeeps ==
  ASSUME FilesTyped, SavedInv
  PROVE  SavedKeeps
BY RegistryOperations DEF SavedKeeps, SavedInv, SetValue, Storing

-----------------------------------------------------------------------------
(* What a process has written is there, whole, unless another process was   *)
(* given the same file to write.                                            *)

OtherWrites(p, x) ==
  \E q \in Procs \ {p} : x \in Written(job[q], Writes) \cup {job[q].out}

Begun(p, x) == x = job[p].out \/ disk[x] = Part(p) \/ OtherWrites(p, x)
Kept(p, x) == x = job[p].out \/ disk[x] = Whole(p) \/ OtherWrites(p, x)

SuccessInv ==
  \A p \in Procs :
    /\ half[p] => Begun(p, Now(p)[2])
    /\ \A i \in 1 .. Len(Script(job[p])) :
         i < at[p] /\ Script(job[p])[i][1] \in {"write", "create"} => Kept(p, Script(job[p])[i][2])

LEMMA InitSuccessInv == FilesInit => SuccessInv
<1> SUFFICES ASSUME FilesInit, NEW p \in Procs
             PROVE  at[p] = 0 /\ ~ half[p] /\ \A i \in 1 .. Len(Script(job[p])) : ~ (i < 0)
  BY DEF SuccessInv
<1>1. job[p] \in Jobs
  BY DEF FilesInit
<1>2. Len(Script(job[p])) \in Nat
  BY <1>1, ScriptShape
<1>3. QED
  BY <1>2 DEF FilesInit

LEMMA WrittenNames ==
  ASSUME NEW j \in Jobs, NEW ops
  PROVE  /\ \A k \in 1 .. Len(Script(j)) :
              Script(j)[k][1] \in ops => Script(j)[k][2] \in Written(j, ops) \cup {j.out}
         /\ \A x \in Written(j, ops) : \E k \in 1 .. Len(Script(j)) :
              Script(j)[k][1] \in ops /\ Script(j)[k][2] = x /\ x # j.out
<1>1. DOMAIN Script(j) = 1 .. Len(Script(j))
  BY ScriptShape
<1> DEFINE done == {o \in {Script(j)[i] : i \in DOMAIN Script(j)} : o[1] \in ops}
<1>2. Written(j, ops) = {op[2] : op \in done} \ {j.out}
  BY DEF Written
<1>3. \A k \in 1 .. Len(Script(j)) : Script(j)[k][1] \in ops => Script(j)[k] \in done
  BY <1>1
<1>4. \A o \in done : \E k \in 1 .. Len(Script(j)) : Script(j)[k] = o /\ o[1] \in ops
  BY <1>1
<1> HIDE DEF done
<1>5. ASSUME NEW k \in 1 .. Len(Script(j)), Script(j)[k][1] \in ops
      PROVE  Script(j)[k][2] \in Written(j, ops) \cup {j.out}
  BY <1>2, <1>3, <1>5
<1>6. ASSUME NEW x \in Written(j, ops)
      PROVE  \E k \in 1 .. Len(Script(j)) :
               Script(j)[k][1] \in ops /\ Script(j)[k][2] = x /\ x # j.out
  BY <1>2, <1>4, <1>6
<1>7. QED
  BY <1>5, <1>6

\* A file that is there is changed under the eyes of its owner only.
LEMMA OthersAreNamed ==
  ASSUME FilesTyped, NEW p \in Procs, Effect(p), NEW x \in Paths, disk[x] # Absent,
         disk'[x] # disk[x], NEW q \in Procs \ {p}
  PROVE  OtherWrites(q, x)
<1>1. \/ x = job[p].out
      \/ at[p] \in 1 .. Len(Script(job[p])) /\ x = Now(p)[2] /\ Now(p)[1] \in Writes
  BY FilesChange
<1>2. job[p] \in Jobs
  BY DEF FilesTyped
<1>3. x \in Written(job[p], Writes) \cup {job[p].out}
  BY <1>1, <1>2, WrittenNames DEF Now
<1>4. QED
  BY <1>3 DEF OtherWrites

LEMMA OtherStepSuccess ==
  ASSUME FilesTyped, SuccessInv, NEW p \in Procs, Effect(p), job' = job, Running(p),
         NEW q \in Procs \ {p}
  PROVE  /\ half'[q] => Begun(q, Now(q)[2])'
         /\ \A i \in 1 .. Len(Script(job[q])) :
              i < at'[q] /\ Script(job[q])[i][1] \in {"write", "create"} =>
                Kept(q, Script(job[q])[i][2])'
<1>1. at'[q] = at[q] /\ half'[q] = half[q] /\ Now(q)' = Now(q)
  BY Others DEF Now
<1>2. ASSUME NEW x \in Paths
      PROVE  (Begun(q, x) => Begun(q, x)') /\ (Kept(q, x) => Kept(q, x)')
  <2>1. OtherWrites(q, x)' <=> OtherWrites(q, x)
    BY DEF OtherWrites
  <2>2. Part(q) # Absent /\ Whole(q) # Absent
    BY FilesDiffer
  <2>3. QED
    BY <1>2, <2>1, <2>2, OthersAreNamed DEF Begun, Kept
<1>3. half'[q] => Begun(q, Now(q)[2])'
  <2> SUFFICES ASSUME half[q] PROVE Begun(q, Now(q)[2])'
    BY <1>1
  <2>1. Now(q)[2] \in Paths /\ Begun(q, Now(q)[2])
    BY PathsOfJobs DEF SuccessInv
  <2> DEFINE x == Now(q)[2]
  <2>2. PICK y : y = x
    OBVIOUS
  <2>3. Begun(q, y)'
    BY <1>2, <2>1, <2>2
  <2>4. Now(q)'[2] = y
    BY <1>1, <2>2
  <2>5. QED
    BY <2>3, <2>4
<1>4. ASSUME NEW i \in 1 .. Len(Script(job[q])), i < at'[q],
             Script(job[q])[i][1] \in {"write", "create"}
      PROVE  Kept(q, Script(job[q])[i][2])'
  <2>1. PICK y : y = Script(job[q])[i][2]
    OBVIOUS
  <2>2. y \in Paths
    BY <1>4, <2>1, Operations DEF FilesTyped, Writes
  <2>3. Kept(q, y)
    BY <1>1, <1>4, <2>1 DEF SuccessInv
  <2>4. Kept(q, y)'
    BY <1>2, <2>2, <2>3
  <2>5. QED
    BY <2>1, <2>4
<1>5. QED
  BY <1>3, <1>4

LEMMA OwnStepSuccess ==
  ASSUME FilesTyped, SuccessInv, NEW p \in Procs, Effect(p), job' = job, Running(p)
  PROVE  /\ half'[p] => Begun(p, Now(p)[2])'
         /\ \A i \in 1 .. Len(Script(job[p])) :
              i < at'[p] /\ Script(job[p])[i][1] \in {"write", "create"} =>
                Kept(p, Script(job[p])[i][2])'
<1> DEFINE j == job[p]
<1>1. /\ j \in Jobs /\ DOMAIN disk = Paths /\ at[p] \in Nat /\ DOMAIN at = Procs
      /\ DOMAIN half = Procs /\ Len(Script(j)) \in Nat
      /\ half[p] => at[p] \in 1 .. Len(Script(j)) /\ Now(p)[1] \in Writes /\ Now(p)[2] \in Paths
  BY OutTyped, PathsOfJobs DEF FilesTyped
<1>2. \A x : OtherWrites(p, x)' <=> OtherWrites(p, x)
  BY DEF OtherWrites
<1>3. half'[p] => Begun(p, Now(p)[2])'
  <2> SUFFICES ASSUME half'[p] PROVE Begun(p, Now(p)[2])'
    OBVIOUS
  <2>1. Begins(p) \/ (half[p] /\ disk' = disk /\ at'[p] = at[p])
                  \/ (half[p] /\ Finishes(p)) \/ (half[p] /\ Opens(p))
    <3>1. CASE Stops(p)
      BY <3>1 DEF Stops
    <3>2. CASE PassesAt(p) \/ Makes(p) \/ EndsAt(p)
      BY <1>1, <3>2 DEF PassesAt, Makes, EndsAt
    <3>3. CASE Opens(p) \/ Finishes(p)
      BY <3>3 DEF Opens, Finishes
    <3>4. QED
      BY <3>1, <3>2, <3>3 DEF Effect
  <2>2. CASE Begins(p)
    <3>1. Now(p)' = Now(p) /\ Now(p)[2] \in Paths
      BY <1>1, <2>2, PathsOfJobs DEF Now, Begins
    <3>2. disk'[Now(p)[2]] = Part(p)
      BY <1>1, <2>2, <3>1 DEF Begins, Puts
    <3>3. QED
      BY <3>1, <3>2 DEF Begun
  <2>3. CASE half[p] /\ disk' = disk /\ at'[p] = at[p]
    <3>1. Now(p)' = Now(p) /\ Begun(p, Now(p)[2])
      BY <2>3 DEF Now, SuccessInv
    <3>2. QED
      BY <1>2, <2>3, <3>1 DEF Begun
  <2>4. CASE half[p] /\ (Finishes(p) \/ Opens(p))
    BY <1>1, <2>4 DEF Finishes, Opens
  <2>5. QED
    BY <2>1, <2>2, <2>3, <2>4
<1>4. ASSUME NEW i \in 1 .. Len(Script(j)), i < at'[p], Script(j)[i][1] \in {"write", "create"}
      PROVE  Kept(p, Script(j)[i][2])'
  <2>1. PICK x : x = Script(j)[i][2]
    OBVIOUS
  <2>2. x \in Paths /\ i \in Nat
    BY <1>1, <1>4, <2>1, Operations DEF Writes
  <2>3. CASE i < at[p]
    <3>1. Kept(p, x)
      BY <1>4, <2>1, <2>3 DEF SuccessInv
    <3>2. ASSUME disk[x] = Whole(p), disk'[x] # disk[x], x # j.out
          PROVE  OtherWrites(p, x)
      <4>1. disk[x] # Absent /\ disk[x] # Part(p)
        BY <3>2, FilesDiffer
      <4>2. at[p] \in 1 .. Len(Script(j)) /\ x = Now(p)[2] /\ Now(p)[1] \in Writes
        BY <2>2, <3>2, <4>1, FilesChange
      <4>3. Now(p)[1] # "write"
        <5>1. i \in 1 .. at[p] - 1
          BY <1>1, <2>2, <2>3
        <5>2. QED
          BY <1>1, <1>4, <4>2, <5>1, Operations DEF Now, Writes
      <4>4. half[p]
        <5>1. ~ Stops(p) /\ ~ PassesAt(p)
          BY <3>2 DEF Stops, PassesAt
        <5>2. ~ Opens(p) /\ ~ Makes(p) /\ ~ Finishes(p)
          BY <1>1, <2>2, <3>2, <4>1 DEF Opens, Makes, Finishes, Puts
        <5>3. ~ Begins(p)
          BY <4>1, <4>2, <4>3 DEF Begins
        <5>4. QED
          BY <5>1, <5>2, <5>3 DEF Effect, EndsAt
      <4>5. Begun(p, x)
        BY <4>2, <4>4 DEF SuccessInv
      <4>6. QED
        BY <3>2, <4>1, <4>5 DEF Begun
    <3>3. Kept(p, x)'
      BY <1>2, <3>1, <3>2 DEF Kept
    <3>4. QED
      BY <2>1, <3>3
  <2>4. CASE ~ (i < at[p])
    <3>1. i = at[p] /\ at'[p] # at[p]
      <4>1. at'[p] \in {at[p], at[p] + 1}
        BY <1>1 DEF Effect, Stops, PassesAt, Opens, Makes, Begins, EndsAt, Finishes, Goes
      <4>2. QED
        BY <1>1, <1>4, <2>2, <2>4, <4>1
    <3>2. x = Now(p)[2] /\ Now(p)[1] \in {"write", "create"} /\ at[p] >= 1
      BY <1>4, <2>1, <3>1 DEF Now
    <3>3. EndsAt(p)
      BY <1>1, <3>1, <3>2 DEF Effect, Stops, PassesAt, Opens, Makes, Begins, Finishes
    <3>4. Begun(p, x)
      BY <3>2, <3>3 DEF SuccessInv, EndsAt
    <3>5. disk[x] = Part(p) => disk'[x] = Whole(p)
      BY <1>1, <2>2, <3>2, <3>3 DEF EndsAt, Puts
    <3>6. Kept(p, x)'
      BY <1>2, <3>4, <3>5 DEF Kept, Begun
    <3>7. QED
      BY <2>1, <3>6
  <2>5. QED
    BY <2>3, <2>4
<1>5. QED
  BY <1>3, <1>4

LEMMA StepSuccessInv ==
  ASSUME FilesTyped, SuccessInv, NEW p \in Procs, Step(p) \/ Kill(p)
  PROVE  SuccessInv'
<1>1. job' = job /\ Running(p) /\ Effect(p)
  BY StepEffects
<1>2. ASSUME NEW q \in Procs
      PROVE  /\ half'[q] => Begun(q, Now(q)[2])'
             /\ \A i \in 1 .. Len(Script(job[q])) :
                  i < at'[q] /\ Script(job[q])[i][1] \in {"write", "create"} =>
                    Kept(q, Script(job[q])[i][2])'
  <2>1. CASE q = p
    BY <1>1, <2>1, OwnStepSuccess
  <2>2. CASE q # p
    BY <1>1, <2>2, OtherStepSuccess
  <2>3. QED
    BY <2>1, <2>2
<1>3. QED
  BY <1>1, <1>2 DEF SuccessInv

LEMMA SuccessFollows == FilesTyped /\ SuccessInv => SuccessIsTrue
<1> SUFFICES ASSUME FilesTyped, SuccessInv, NEW p \in Procs, ended[p] = "well",
                    NEW x \in Written(job[p], {"write", "create"})
             PROVE  disk[x] = Whole(p) \/ OtherWrites(p, x)
  BY DEF SuccessIsTrue, OtherWrites, Writes
<1>1. job[p] \in Jobs /\ at[p] = Len(Script(job[p])) + 1 /\ Len(Script(job[p])) \in Nat
  BY OutTyped DEF FilesTyped
<1>2. PICK k \in 1 .. Len(Script(job[p])) :
        Script(job[p])[k][1] \in {"write", "create"} /\ Script(job[p])[k][2] = x /\ x # job[p].out
  BY <1>1, WrittenNames
<1>3. Kept(p, x)
  BY <1>1, <1>2 DEF SuccessInv
<1>4. QED
  BY <1>2, <1>3 DEF Kept

-----------------------------------------------------------------------------
(* Payload directories.  Who made the directory is alone in it, and has     *)
(* written the files before the one it is at.                               *)

Untouched == \A p \in Procs : {job[p].out, job[p].to, job[p].zip} \cap Payload = {}

Stage(p, k) == job[p].kind = "payload" /\ at[p] >= k

FilledBy(p) ==
  /\ Stage(p, 4) => disk["dir"] = Whole(p)
  /\ Stage(p, 4) /\ at[p] = 4 /\ half[p] => disk["layer1"] = Part(p)
  /\ Stage(p, 5) => disk["layer1"] = Whole(p)
  /\ Stage(p, 5) /\ at[p] = 5 /\ half[p] => disk["layer2"] = Part(p)
  /\ Stage(p, 6) => disk["layer2"] = Whole(p)

PayloadInv ==
  Untouched => /\ \A p \in Procs : FilledBy(p)
               /\ disk["manifest"].by # Before => \E p \in Procs : Stage(p, 6)

LEMMA InitPayloadInv == FilesInit => PayloadInv
<1> SUFFICES ASSUME FilesInit PROVE PayloadInv
  OBVIOUS
<1>1. \A p \in Procs : ~ Stage(p, 4) /\ ~ Stage(p, 5) /\ ~ Stage(p, 6)
  BY DEF FilesInit, Stage
<1>2. "manifest" \in Paths
  BY DEF Paths
<1>3. disk["manifest"].by = Before
  BY <1>2 DEF FilesInit, Whole, Absent, File
<1>4. QED
  BY <1>1, <1>3 DEF PayloadInv, FilledBy

LEMMA PayloadOperations ==
  ASSUME FilesTyped, NEW p \in Procs, job[p].kind = "payload"
  PROVE  /\ 6 <= Len(Script(job[p]))
         /\ at[p] = 3 => Now(p)[1] = "mkdir"
         /\ at[p] = 4 => Now(p)[1] = "create" /\ Now(p)[2] = "layer1"
         /\ at[p] = 5 => Now(p)[1] = "create" /\ Now(p)[2] = "layer2"
         /\ at[p] = 6 => Now(p)[1] = "create" /\ Now(p)[2] = "manifest"
<1> DEFINE j == job[p]
<1>1. j \in Jobs /\ WorkLength(j) = 6
  BY DEF FilesTyped, WorkLength
<1>2. /\ Len(Script(j)) \in WorkLength(j) .. WorkLength(j) + 1
      /\ \A k \in 1 .. WorkLength(j) : IsWork(j, k, Script(j)[k])
  BY <1>1, ScriptShape
<1>3. \A k \in 3 .. 6 : IsWork(j, k, Script(j)[k])
  BY <1>1, <1>2
<1>4. /\ Script(j)[3] = Op("mkdir", "dir") /\ Script(j)[4] = Op("create", "layer1")
      /\ Script(j)[5] = Op("create", "layer2") /\ Script(j)[6] = Op("create", "manifest")
  BY <1>3 DEF IsWork
<1>5. 6 <= Len(Script(j))
  BY <1>1, <1>2
<1>6. QED
  BY <1>4, <1>5 DEF Now, Op

\* Only a process at that stage of its payload changes a file of a directory.
LEMMA PayloadChange ==
  ASSUME FilesTyped, Untouched, NEW p \in Procs, Effect(p), NEW x \in Payload, disk'[x] # disk[x]
  PROVE  /\ job[p].kind = "payload"
         /\ \/ x = "dir" /\ at[p] = 3 /\ disk[x] = Absent
            \/ x = "layer1" /\ at[p] = 4
            \/ x = "layer2" /\ at[p] = 5
            \/ x = "manifest" /\ at[p] = 6
<1>1. x \in Paths /\ DOMAIN disk = Paths /\ job[p] \in Jobs
  BY DEF FilesTyped, Payload, Paths
<1>2. x \notin {job[p].out, job[p].to, job[p].zip}
  BY DEF Untouched
<1>3. CASE at[p] \in 1 .. Len(Script(job[p])) /\ x = Now(p)[2] /\ Now(p)[1] \in Writes
  BY <1>1, <1>2, <1>3, Operations DEF Now
<1>4. CASE Makes(p)
  BY <1>1, <1>4 DEF Makes, Puts
<1>5. CASE ~ Makes(p)
  BY <1>1, <1>2, <1>3, <1>5 DEF Effect, Stops, PassesAt, Opens, Begins, EndsAt, Finishes, Puts
<1>6. QED
  BY <1>4, <1>5

LEMMA OwnStepFills ==
  ASSUME FilesTyped, Untouched, NEW p \in Procs, FilledBy(p), Effect(p), job' = job, Running(p),
         job[p].kind = "payload"
  PROVE  FilledBy(p)'
<1>1. /\ at[p] \in Nat /\ DOMAIN at = Procs /\ DOMAIN half = Procs /\ DOMAIN disk = Paths
      /\ {"dir", "layer1", "layer2", "manifest"} \subseteq Paths
      /\ at'[p] \in {at[p], at[p] + 1}
      /\ half[p] => Now(p)[1] \in Writes
  BY DEF FilesTyped, Effect, Stops, PassesAt, Opens, Makes, Begins, EndsAt, Finishes, Goes, Paths
<1>2. /\ at[p] = 3 => Now(p)[1] = "mkdir"
      /\ at[p] = 4 => Now(p)[1] = "create" /\ Now(p)[2] = "layer1"
      /\ at[p] = 5 => Now(p)[1] = "create" /\ Now(p)[2] = "layer2"
      /\ at[p] = 6 => Now(p)[1] = "create" /\ Now(p)[2] = "manifest"
      /\ 6 <= Len(Script(job[p])) /\ Len(Script(job[p])) \in Nat
  BY PayloadOperations, OutTyped
<1>3. ASSUME disk'["dir"] # disk["dir"] PROVE at[p] = 3
  BY <1>3, PayloadChange DEF Payload
<1>4. ASSUME disk'["layer1"] # disk["layer1"] PROVE at[p] = 4
  BY <1>4, PayloadChange DEF Payload
<1>5. ASSUME disk'["layer2"] # disk["layer2"] PROVE at[p] = 5
  BY <1>5, PayloadChange DEF Payload
<1>6. CASE at'[p] = at[p]
  <2>1. at[p] \in {4, 5} /\ half'[p] /\ ~ half[p] => Begins(p)
    BY <1>1, <1>6 DEF Effect, Stops, PassesAt, Opens, Makes, Begins, EndsAt, Finishes
  <2>2. Begins(p) => disk'[Now(p)[2]] = Part(p) \/ Now(p)[2] \notin Paths
    BY <1>1 DEF Begins, Puts
  <2>3. at[p] \in {4, 5} /\ half[p] => disk' = disk
    BY <1>1, <1>2, <1>6 DEF Effect, Stops, PassesAt, Opens, Makes, Begins, EndsAt, Finishes, Goes
  <2>4. at[p] = 4 /\ half'[p] => disk'["layer1"] = Part(p)
    BY <1>1, <1>2, <2>1, <2>2, <2>3 DEF FilledBy, Stage
  <2>5. at[p] = 5 /\ half'[p] => disk'["layer2"] = Part(p)
    BY <1>1, <1>2, <2>1, <2>2, <2>3 DEF FilledBy, Stage
  <2>6. Stage(p, 4) => disk'["dir"] = Whole(p)
    BY <1>1, <1>3 DEF FilledBy, Stage
  <2>7. Stage(p, 5) => disk'["layer1"] = Whole(p)
    BY <1>1, <1>4 DEF FilledBy, Stage
  <2>8. Stage(p, 6) => disk'["layer2"] = Whole(p)
    BY <1>1, <1>5 DEF FilledBy, Stage
  <2>9. QED
    BY <1>6, <2>4, <2>5, <2>6, <2>7, <2>8 DEF FilledBy, Stage
<1>7. CASE at'[p] = at[p] + 1
  <2>1. half'[p] = FALSE
    BY <1>1, <1>7 DEF Effect, Stops, PassesAt, Opens, Makes, Begins, EndsAt, Finishes, FilesTyped
  <2>2. at[p] = 3 => disk'["dir"] = Whole(p)
    <3>1. at[p] = 3 => Makes(p)
      BY <1>1, <1>2, <1>7 DEF Effect, Stops, PassesAt, Opens, Makes, Begins, EndsAt, Finishes, Writes
    <3>2. QED
      BY <1>1, <3>1 DEF Makes, Puts
  <2>3. at[p] \in {4, 5} => EndsAt(p)
    BY <1>1, <1>2, <1>7 DEF Effect, Stops, PassesAt, Opens, Makes, Begins, EndsAt, Finishes
  <2>4. at[p] = 4 => disk'["layer1"] = Whole(p)
    BY <1>1, <1>2, <2>3 DEF EndsAt, Puts, FilledBy, Stage
  <2>5. at[p] = 5 => disk'["layer2"] = Whole(p)
    BY <1>1, <1>2, <2>3 DEF EndsAt, Puts, FilledBy, Stage
  <2>6. at[p] >= 4 => disk'["dir"] = Whole(p)
    BY <1>1, <1>3 DEF FilledBy, Stage
  <2>7. at[p] >= 5 => disk'["layer1"] = Whole(p)
    BY <1>1, <1>4 DEF FilledBy, Stage
  <2>8. at[p] >= 6 => disk'["layer2"] = Whole(p)
    BY <1>1, <1>5 DEF FilledBy, Stage
  <2>9. /\ at'[p] >= 4 => disk'["dir"] = Whole(p)
        /\ at'[p] >= 5 => disk'["layer1"] = Whole(p)
        /\ at'[p] >= 6 => disk'["layer2"] = Whole(p)
    BY <1>1, <1>7, <2>2, <2>4, <2>5, <2>6, <2>7, <2>8
  <2>10. QED
    BY <2>1, <2>9 DEF FilledBy, Stage
<1>8. QED
  BY <1>1, <1>6, <1>7

LEMMA OtherStepFills ==
  ASSUME FilesTyped, Untouched, NEW p \in Procs, FilledBy(p), Effect(p), job' = job, Running(p),
         NEW q \in Procs \ {p}, FilledBy(q)
  PROVE  FilledBy(q)'
<1>1. at'[q] = at[q] /\ half'[q] = half[q] /\ at[p] \in Nat
  BY Others, OutTyped
<1>2. ASSUME Stage(q, 4) PROVE \A x \in {"dir", "layer1", "layer2"} : disk'[x] = disk[x]
  <2> SUFFICES ASSUME NEW x \in {"dir", "layer1", "layer2"}, disk'[x] # disk[x] PROVE FALSE
    OBVIOUS
  <2>1. disk["dir"] = Whole(q) /\ Whole(q) # Absent /\ (Whole(p) = Whole(q) => p = q)
    BY <1>2, FilesDiffer DEF FilledBy
  <2>2. job[p].kind = "payload" /\ at[p] \in {3, 4, 5} /\ (at[p] = 3 => disk["dir"] = Absent)
    BY PayloadChange DEF Payload
  <2>3. at[p] >= 4
    BY <2>1, <2>2
  <2>4. disk["dir"] = Whole(p)
    BY <2>2, <2>3 DEF FilledBy, Stage
  <2>5. QED
    BY <2>1, <2>4
<1>3. Stage(q, 5) \/ Stage(q, 6) => Stage(q, 4)
  BY OutTyped DEF Stage
<1>4. CASE Stage(q, 4)
  BY <1>1, <1>2, <1>4 DEF FilledBy, Stage
<1>5. CASE ~ Stage(q, 4)
  BY <1>1, <1>3, <1>5 DEF FilledBy, Stage
<1>6. QED
  BY <1>4, <1>5

LEMMA StepPayloadInv ==
  ASSUME FilesTyped, PayloadInv, NEW p \in Procs, Step(p) \/ Kill(p)
  PROVE  PayloadInv'
<1>1. job' = job /\ Running(p) /\ Effect(p)
  BY StepEffects
<1>2. Untouched' <=> Untouched
  BY <1>1 DEF Untouched
<1> SUFFICES ASSUME Untouched
             PROVE  /\ \A q \in Procs : FilledBy(q)'
                    /\ disk'["manifest"].by # Before => \E q \in Procs : Stage(q, 6)'
  BY <1>2 DEF PayloadInv
<1>3. \A q \in Procs : FilledBy(q)
  BY DEF PayloadInv
<1>4. FilledBy(p)'
  <2>1. CASE job[p].kind = "payload"
    BY <1>1, <1>3, <2>1, OwnStepFills
  <2>2. CASE job[p].kind # "payload"
    BY <1>1, <2>2 DEF FilledBy, Stage
  <2>3. QED
    BY <2>1, <2>2
<1>5. ASSUME NEW q \in Procs PROVE FilledBy(q)'
  BY <1>1, <1>3, <1>4, OtherStepFills
<1>6. ASSUME NEW q \in Procs, Stage(q, 6) PROVE Stage(q, 6)'
  <2>1. at[q] \in Nat /\ at'[q] \in {at[q], at[q] + 1}
    <3>1. CASE q = p
      BY <1>1, <3>1 DEF Effect, Stops, PassesAt, Opens, Makes, Begins, EndsAt, Finishes, Goes, FilesTyped
    <3>2. CASE q # p
      BY <1>1, <3>2, Others, OutTyped
    <3>3. QED
      BY <3>1, <3>2
  <2>2. QED
    BY <1>1, <1>6, <2>1 DEF Stage
<1>7. ASSUME disk'["manifest"].by # Before PROVE \E q \in Procs : Stage(q, 6)'
  <2>1. CASE disk'["manifest"] = disk["manifest"]
    BY <1>6, <1>7, <2>1 DEF PayloadInv
  <2>2. CASE disk'["manifest"] # disk["manifest"]
    <3>1. Stage(p, 6)
      BY <1>1, <2>2, PayloadChange DEF Payload, Stage
    <3>2. QED
      BY <1>6, <3>1
  <2>3. QED
    BY <2>1, <2>2
<1>8. QED
  BY <1>5, <1>7

LEMMA PayloadFollows == FilesTyped /\ PayloadInv => PayloadComplete
<1> SUFFICES ASSUME FilesTyped, PayloadInv, Untouched, disk["manifest"].by # Before
             PROVE  \A x \in {"layer1", "layer2"} : disk[x] = Whole(disk["dir"].by)
  BY DEF PayloadComplete, Untouched
<1>1. PICK p \in Procs : Stage(p, 6) /\ FilledBy(p)
  BY DEF PayloadInv
<1>2. Stage(p, 4) /\ Stage(p, 5)
  BY <1>1, OutTyped DEF Stage
<1>3. disk["dir"] = Whole(p) /\ disk["layer1"] = Whole(p) /\ disk["layer2"] = Whole(p)
  BY <1>1, <1>2 DEF FilledBy
<1>4. QED
  BY <1>3 DEF Whole, File

-----------------------------------------------------------------------------
(* The theorems.                                                            *)

FilesInv == FilesTyped /\ OldInv /\ SavedInv /\ SuccessInv /\ PayloadInv

LEMMA InitFilesInv == FilesInit => FilesInv
BY InitFilesTyped, InitOldInv, InitSavedInv, InitSuccessInv, InitPayloadInv DEF FilesInv

LEMMA NextFilesInv == FilesInv /\ [FilesNext]_fileVars => FilesInv'
<1>1. ASSUME FilesInv, NEW p \in Procs, Step(p) \/ Kill(p) PROVE FilesInv'
  <2>1. FilesTyped'
    BY <1>1, StepEffects, StepFilesTyped DEF FilesInv
  <2>2. QED
    BY <1>1, <2>1, StepOldInv, StepSavedInv, StepSuccessInv, StepPayloadInv DEF FilesInv
<1>2. ASSUME FilesInv, UNCHANGED fileVars PROVE FilesInv'
  <2>1. FilesTyped' /\ OldInv' /\ SavedInv'
    BY <1>2 DEF fileVars, FilesInv, FilesTyped, OldInv, SavedInv, Replaced, Now, Storing, Running
  <2>2. SuccessInv'
    BY <1>2 DEF fileVars, FilesInv, SuccessInv, Begun, Kept, OtherWrites, Now
  <2>3. PayloadInv'
    BY <1>2 DEF fileVars, FilesInv, PayloadInv, Untouched, FilledBy, Stage
  <2>4. QED
    BY <2>1, <2>2, <2>3 DEF FilesInv
<1>3. QED
  BY <1>1, <1>2 DEF FilesNext

LEMMA InvariantOfFiles == FilesSpec => []FilesInv
BY InitFilesInv, NextFilesInv, PTL DEF FilesSpec

\* A process that exits well has left what it wrote whole, unless another was given
\* the same file, and a payload directory with a manifest holds what it lists,
\* however processes overlap, fail and die (main.rs, payload.rs, patch.rs).
THEOREM ClaimsStayTrue == FilesSpec => []ClaimsAreTrue
<1>1. FilesInv => ClaimsAreTrue
  BY SuccessFollows, PayloadFollows DEF FilesInv, ClaimsAreTrue
<1>2. QED
  BY <1>1, InvariantOfFiles, PTL

\* A file that was there is only replaced by a process whose job says so, and a
\* stored setting survives every save that overlapped no other (patch.rs,
\* main.rs, preferences.rs).
THEOREM OldDataStays == FilesSpec => OldDataKept
<1>1. FilesInv /\ [FilesNext]_fileVars => [ReplacedByRight /\ SavedKeeps]_fileVars
  <2> SUFFICES ASSUME FilesInv, NEW p \in Procs, Step(p) \/ Kill(p)
               PROVE  ReplacedByRight /\ SavedKeeps
    BY DEF FilesNext
  <2>1. QED
    BY StepReplacesByRight, StepSavedKeeps DEF FilesInv
<1>2. QED
  BY <1>1, InvariantOfFiles, PTL DEF FilesSpec, OldDataKept

\* Type correctness of the files model.
THEOREM TypeCorrect == FilesSpec => []FilesTyped
<1>1. FilesInv => FilesTyped
  BY DEF FilesInv
<1>2. QED
  BY <1>1, InvariantOfFiles, PTL

-----------------------------------------------------------------------------
(* The callers of a function.                                              *)

\* What the steps of the search leave for the next ones: the goal is one the name
\* stands for, the image it was found in is scanned, each image is indexed as it
\* is, and the graph is made when all are.
GoalIsMeant ==
  progress \in {"list", "index", "done"} =>
    goal \in Goals(Stored[found], question.func, question.cfg.pdb)
TargetIsScanned == progress \in {"index", "done"} => found \in scan
IndexedAsIs ==
  /\ DOMAIN indexed \subseteq DOMAIN Stored
  /\ \A p \in DOMAIN indexed :
       indexed[p] = IF Stored[p].readable THEN IndexOf(Stored[p], p) ELSE NoIndex
GraphOfAll ==
  progress = "done" =>
    /\ DOMAIN indexed = scan
    /\ graph = Graph(indexed, question.cfg, Stored[found].bits)

SearchInv == GoalIsMeant /\ TargetIsScanned /\ IndexedAsIs /\ GraphOfAll

LEMMA TargetInList ==
  ASSUME NEW path, NEW cfg
  PROVE  path \in ScanList(path, cfg)
  BY Zenon DEF ScanList

LEMMA SearchInvInit == CallersInit => SearchInv
<1> SUFFICES ASSUME CallersInit PROVE SearchInv
  OBVIOUS
<1>1. DOMAIN indexed = {}
  <2>1. DOMAIN << >> = {}
    OBVIOUS
  <2>2. QED
    BY <2>1 DEF CallersInit
<1>2. QED
  BY <1>1 DEF CallersInit, SearchInv, GoalIsMeant, TargetIsScanned, IndexedAsIs, GraphOfAll

LEMMA SearchInvNext == SearchInv /\ [CallersNext]_callersVars => SearchInv'
<1> SUFFICES ASSUME SearchInv, [CallersNext]_callersVars PROVE SearchInv'
  OBVIOUS
<1> USE DEF SearchInv, GoalIsMeant, TargetIsScanned, IndexedAsIs, GraphOfAll
<1>1. CASE Locate
  BY <1>1 DEF Locate
<1>2. CASE Resolve
  BY <1>2 DEF Resolve
<1>3. CASE List
  <2>1. found \in ScanList(found, question.cfg)
    BY TargetInList
  <2>2. QED
    BY <1>3, <2>1 DEF List
<1>4. ASSUME NEW p \in DOMAIN Stored, IndexImage(p)
      PROVE  SearchInv'
  <2>1. DOMAIN indexed' = DOMAIN indexed \cup {p}
    BY <1>4 DEF IndexImage
  <2>2. \A q \in DOMAIN indexed' :
          indexed'[q] = IF Stored[q].readable THEN IndexOf(Stored[q], q) ELSE NoIndex
    BY <1>4, <2>1 DEF IndexImage
  <2>3. QED
    BY <1>4, <2>1, <2>2 DEF IndexImage
<1>5. CASE Merge
  BY <1>5 DEF Merge
<1>6. CASE UNCHANGED callersVars
  BY <1>6 DEF callersVars
<1>7. QED
  BY <1>1, <1>2, <1>3, <1>4, <1>5, <1>6 DEF CallersNext

\* Type correctness of the search: every step finds what the ones before it left.
THEOREM SearchStaysSound == CallersSpec => []SearchInv
  BY SearchInvInit, SearchInvNext, PTL DEF CallersSpec


-----------------------------------------------------------------------------
(* One instruction.                                                         *)

Targets == {Place(goal.base, goal.rva), Import(goal.base, goal.name)}

\* The search is over and asked for callers in x64 images.
Answerable ==
  /\ SearchInv /\ SoundImages /\ progress = "done"
  /\ ~ Stored[found].file.cased /\ Stored[found].bits = 64 /\ question.cfg.arch # "x86"

LEMMA AnsweredFacts ==
  ASSUME Answerable
  PROVE  /\ scan \subseteq DOMAIN Stored /\ found \in scan /\ DOMAIN indexed = scan
         /\ graph = Graph(indexed, question.cfg, Stored[found].bits)
         /\ \A p \in scan :
              indexed[p] = IF Stored[p].readable THEN IndexOf(Stored[p], p) ELSE NoIndex
         /\ goal \in Goals(Stored[found], question.func, question.cfg.pdb)
         /\ \A p \in DOMAIN Stored : SoundImage(Stored[p])
  BY DEF Answerable, SearchInv, GoalIsMeant, TargetIsScanned, IndexedAsIs, GraphOfAll, SoundImages

\* Only x64 images count.
LEMMA OnlyX64 ==
  ASSUME Answerable, NEW p
  PROVE  ArchWanted(Stored[p].bits, question.cfg, Stored[found].bits) <=> Stored[p].bits = 64
  BY DEF Answerable, ArchWanted

\* The goal is a place in the image that was asked for, or no place at all.
LEMMA GoalPlace ==
  ASSUME Answerable
  PROVE  \/ goal.rva = 0
         \/ goal.base = BaseOf(Stored[found].file) /\ goal.rva \in Stored[found].mapped
<1>1. SoundImage(Stored[found]) /\ goal \in Goals(Stored[found], question.func, question.cfg.pdb)
  BY AnsweredFacts
<1> DEFINE image == Stored[found]
<1> DEFINE func == question.func
<1> DEFINE exports == {e \in image.exports : e.name = func \/ e.ordinal = func}
<1> DEFINE imports == {a \in DOMAIN image.slots : CoreName(image.slots[a].name) = CoreName(func)}
<1> DEFINE Own(name, rva) == [base |-> BaseOf(image.file), name |-> name, rva |-> rva]
<1> DEFINE symbols == question.cfg.pdb
<1>2. \/ exports # {} /\ goal \in {Own(e.name, e.rva) : e \in exports}
      \/ func \in DOMAIN image.symbols /\ goal \in {Own(func, image.symbols[func])}
      \/ goal \in {[base |-> BaseOf(image.slots[a].file), name |-> image.slots[a].name, rva |-> 0] : a \in imports}
      \/ goal \in {[base |-> "wdf", name |-> func, rva |-> 0] : f \in {func} \cap WdfNames}
  BY <1>1, Zenon DEF Goals
<1>3. ASSUME NEW e \in image.exports, goal = Own(e.name, e.rva)
      PROVE  goal.rva = 0 \/ (goal.base = BaseOf(image.file) /\ goal.rva \in image.mapped)
  <2>1. goal.rva = e.rva /\ goal.base = BaseOf(image.file)
    BY <1>3
  <2>2. e.rva \in image.mapped \cup {0}
    BY <1>1 DEF SoundImage
  <2>3. QED
    BY <2>1, <2>2
<1>4. ASSUME NEW s \in DOMAIN image.symbols, goal = Own(s, image.symbols[s])
      PROVE  goal.rva = 0 \/ (goal.base = BaseOf(image.file) /\ goal.rva \in image.mapped)
  <2>1. goal.rva = image.symbols[s] /\ goal.base = BaseOf(image.file)
    BY <1>4
  <2>2. image.symbols[s] \in image.mapped \cup {0}
    BY <1>1 DEF SoundImage
  <2>3. QED
    BY <2>1, <2>2
<1> HIDE DEF image, func, imports
<1>5. QED
  BY <1>2, <1>3, <1>4 DEF image

LEMMA OneBase ==
  ASSUME Answerable, NEW p \in DOMAIN Stored, NEW q \in DOMAIN Stored,
         BaseOf(Stored[p].file) = BaseOf(Stored[q].file)
  PROVE  p = q
  BY DEF Answerable, SoundImages

\* A place is the goal for the graph when it is for the reader.
LEMMA PlaceWanted ==
  ASSUME Answerable, NEW p \in DOMAIN Stored, NEW x, x # 0
  PROVE  Place(BaseOf(Stored[p].file), x) \in Targets <=> <<"in", p, x>> \in WantedCallees
<1>1. Place(BaseOf(Stored[p].file), x) \in Targets
        <=> BaseOf(Stored[p].file) = goal.base /\ x = goal.rva
  BY DEF Targets, Place, Import
<1>2. <<"in", p, x>> \in WantedCallees <=> p = found /\ x = goal.rva
  BY DEF WantedCallees
<1>3. found \in DOMAIN Stored
  BY AnsweredFacts
<1>4. QED
  BY <1>1, <1>2, <1>3, GoalPlace, OneBase

LEMMA ImportWanted ==
  ASSUME NEW base, NEW name
  PROVE  Import(base, name) \in Targets <=> <<"by", base, name>> \in WantedCallees
  BY DEF Targets, WantedCallees, Place, Import

\* What an instruction calls, for the index.
Callees(image, r) ==
  LET i == image.code[r]
  IN IF i.op \in {"call", "jmp"} THEN {Place(BaseOf(image.file), x) : x \in {i.to} \cap image.mapped}
     ELSE IF i.op = "table" THEN {Import("wdf", i.to)}
     ELSE {Import(ImportBase(image.slots[a].file), image.slots[a].name) : a \in {i.to} \cap DOMAIN image.slots}

Covered(image, r) == image.code[r].real /\ RuntimeAt(image, r) # {}

LEMMA CallsOfImage ==
  ASSUME NEW image, SoundImage(image), image.bits = 64, NEW path, NEW c
  PROVE  c \in IndexOf(image, path).calls
         <=> \E r \in DOMAIN image.code : \E t \in Callees(image, r) :
               Covered(image, r) /\ c = Call(image, path, t, r)
<1> DEFINE ByInstruction == \E r \in DOMAIN image.code : \E t \in Callees(image, r) :
               Covered(image, r) /\ c = Call(image, path, t, r)
<1>0. \A r \in DOMAIN image.code :
        /\ image.code[r].op \in {"call", "jmp", "call slot", "jmp slot", "table"}
        /\ image.code[r].op = "table" =>
             Covered(image, r) /\ \E a \in DOMAIN image.slots : image.slots[a].wdf
        /\ IsBoundary(image, r) <=> Covered(image, r)
  BY DEF SoundImage, Covered, IsBoundary
<1>1. c \in NearCalls(image, path)
      <=> \E r \in DOMAIN image.code : \E t \in Callees(image, r) :
            /\ Covered(image, r) /\ c = Call(image, path, t, r)
            /\ image.code[r].op \in {"call", "jmp"}
  <2> DEFINE callee(r) == Place(BaseOf(image.file), image.code[r].to)
  <2>1. \A r \in DOMAIN image.code : image.code[r].op \in {"call", "jmp"} =>
          \A t : t \in Callees(image, r) <=> image.code[r].to \in image.mapped /\ t = callee(r)
    BY DEF Callees
  <2>2. c \in NearCalls(image, path)
        <=> \E r \in DOMAIN image.code :
              /\ image.code[r].op \in {"call", "jmp"} /\ IsBoundary(image, r)
              /\ image.code[r].to \in image.mapped /\ c = Call(image, path, callee(r), r)
    BY Zenon DEF NearCalls
  <2> HIDE DEF callee
  <2>3. ASSUME NEW r \in DOMAIN image.code, image.code[r].op \in {"call", "jmp"},
               IsBoundary(image, r), image.code[r].to \in image.mapped, c = Call(image, path, callee(r), r)
        PROVE  \E s \in DOMAIN image.code : \E t \in Callees(image, s) :
                 /\ Covered(image, s) /\ c = Call(image, path, t, s)
                 /\ image.code[s].op \in {"call", "jmp"}
    <3>1. callee(r) \in Callees(image, r) /\ Covered(image, r)
      BY <1>0, <2>1, <2>3
    <3>2. QED
      BY <3>1, <2>3
  <2>4. ASSUME NEW r \in DOMAIN image.code, NEW t \in Callees(image, r), Covered(image, r),
               c = Call(image, path, t, r), image.code[r].op \in {"call", "jmp"}
        PROVE  c \in NearCalls(image, path)
    <3>1. t = callee(r) /\ image.code[r].to \in image.mapped
      BY <2>1, <2>4
    <3>2. c = Call(image, path, callee(r), r) /\ IsBoundary(image, r)
      BY <1>0, <3>1, <2>4
    <3>3. QED
      BY <2>2, <2>4, <3>1, <3>2
  <2>5. QED
    BY <2>2, <2>3, <2>4
<1>2. c \in SlotCalls(image, path)
      <=> \E r \in DOMAIN image.code : \E t \in Callees(image, r) :
            /\ Covered(image, r) /\ c = Call(image, path, t, r)
            /\ image.code[r].op \in {"call slot", "jmp slot"}
  <2> DEFINE callee(r) == Import(ImportBase(image.slots[image.code[r].to].file), image.slots[image.code[r].to].name)
  <2>1. \A r \in DOMAIN image.code : image.code[r].op \in {"call slot", "jmp slot"} =>
          \A t : t \in Callees(image, r) <=> image.code[r].to \in DOMAIN image.slots /\ t = callee(r)
    <3> SUFFICES ASSUME NEW r \in DOMAIN image.code, image.code[r].op \in {"call slot", "jmp slot"}, NEW t
                 PROVE  t \in Callees(image, r) <=> image.code[r].to \in DOMAIN image.slots /\ t = callee(r)
      OBVIOUS
    <3>1. Callees(image, r) = {Import(ImportBase(image.slots[a].file), image.slots[a].name) :
                                 a \in {image.code[r].to} \cap DOMAIN image.slots}
      BY DEF Callees
    <3>2. QED
      BY <3>1
  <2>2. c \in SlotCalls(image, path)
        <=> \E r \in DOMAIN image.code :
              /\ image.code[r].op \in {"call slot", "jmp slot"} /\ IsBoundary(image, r)
              /\ image.code[r].to \in DOMAIN image.slots /\ c = Call(image, path, callee(r), r)
    BY Zenon DEF SlotCalls
  <2> HIDE DEF callee
  <2>3. ASSUME NEW r \in DOMAIN image.code, image.code[r].op \in {"call slot", "jmp slot"},
               IsBoundary(image, r), image.code[r].to \in DOMAIN image.slots, c = Call(image, path, callee(r), r)
        PROVE  \E s \in DOMAIN image.code : \E t \in Callees(image, s) :
                 /\ Covered(image, s) /\ c = Call(image, path, t, s)
                 /\ image.code[s].op \in {"call slot", "jmp slot"}
    <3>1. callee(r) \in Callees(image, r) /\ Covered(image, r)
      BY <1>0, <2>1, <2>3
    <3>2. QED
      BY <3>1, <2>3
  <2>4. ASSUME NEW r \in DOMAIN image.code, NEW t \in Callees(image, r), Covered(image, r),
               c = Call(image, path, t, r), image.code[r].op \in {"call slot", "jmp slot"}
        PROVE  c \in SlotCalls(image, path)
    <3>1. t = callee(r) /\ image.code[r].to \in DOMAIN image.slots
      BY <2>1, <2>4
    <3>2. c = Call(image, path, callee(r), r) /\ IsBoundary(image, r)
      BY <1>0, <3>1, <2>4
    <3>3. QED
      BY <2>2, <2>4, <3>1, <3>2
  <2>5. QED
    BY <2>2, <2>3, <2>4
<1>3. c \in TableCalls(image, path)
      <=> \E r \in DOMAIN image.code : \E t \in Callees(image, r) :
            /\ Covered(image, r) /\ c = Call(image, path, t, r)
            /\ image.code[r].op = "table"
  BY <1>0 DEF TableCalls, Callees
<1>4. c \in IndexOf(image, path).calls
      <=> c \in NearCalls(image, path) \/ c \in SlotCalls(image, path) \/ c \in TableCalls(image, path)
  BY DEF IndexOf
<1>5. \A r \in DOMAIN image.code :
        \/ image.code[r].op \in {"call", "jmp"} \/ image.code[r].op \in {"call slot", "jmp slot"}
        \/ image.code[r].op = "table"
  BY <1>0
<1>6. QED
  BY <1>1, <1>2, <1>3, <1>4, <1>5

LEMMA DirectWanted ==
  ASSUME Answerable, NEW p \in DOMAIN Stored, NEW r \in DOMAIN Stored[p].code
  PROVE  (\E t \in Callees(Stored[p], r) : t \in Targets) <=> Enters(p, r) \cap WantedCallees # {}
<1> DEFINE i == Stored[p].code[r]
<1>0. SoundImage(Stored[p])
  BY AnsweredFacts
<1>1. CASE i.op \in {"call", "jmp"}
  <2>1. i.to # 0
    BY <1>0, <1>1 DEF SoundImage
  <2>2. Enters(p, r) = {<<"in", p, i.to>>}
    BY <1>1 DEF Enters
  <2>3. <<"in", p, i.to>> \in WantedCallees => i.to \in Stored[p].mapped
    <3>1. <<"in", p, i.to>> \in WantedCallees => p = found /\ i.to = goal.rva
      BY DEF WantedCallees
    <3>2. QED
      BY <2>1, <3>1, GoalPlace
  <2>4. Callees(Stored[p], r) = {Place(BaseOf(Stored[p].file), x) : x \in {i.to} \cap Stored[p].mapped}
    BY <1>1 DEF Callees
  <2>5. Place(BaseOf(Stored[p].file), i.to) \in Targets <=> <<"in", p, i.to>> \in WantedCallees
    BY <2>1, PlaceWanted
  <2>6. QED
    BY <2>2, <2>3, <2>4, <2>5
<1>2. CASE i.op = "table"
  <2>1. Enters(p, r) = {<<"by", "wdf", i.to>>} /\ Callees(Stored[p], r) = {Import("wdf", i.to)}
    BY <1>2 DEF Enters, Callees
  <2>2. QED
    BY <2>1, ImportWanted
<1>3. CASE i.op \notin {"call", "jmp", "table"}
  <2> DEFINE hits == {i.to} \cap DOMAIN Stored[p].slots
  <2> DEFINE file(a) == ImportBase(Stored[p].slots[a].file)
  <2> DEFINE name(a) == Stored[p].slots[a].name
  <2>1. /\ Enters(p, r) = {<<"by", file(a), name(a)>> : a \in hits}
        /\ Callees(Stored[p], r) = {Import(file(a), name(a)) : a \in hits}
    BY <1>3 DEF Enters, Callees
  <2>2. \A a \in hits : Import(file(a), name(a)) \in Targets <=> <<"by", file(a), name(a)>> \in WantedCallees
    BY ImportWanted
  <2> HIDE DEF hits, file, name
  <2>3. QED
    BY <2>1, <2>2
<1>4. QED
  BY <1>1, <1>2, <1>3


-----------------------------------------------------------------------------
(* Wrappers.                                                                *)

\* A jump by a slot ends there, at an import that both name alike.
LEMMA Entries ==
  ASSUME NEW a, NEW b
  PROVE  /\ <<"in", a, b>>[1] = "in" /\ <<"in", a, b>>[3] = b
         /\ <<"by", a, b>>[1] = "by"
  OBVIOUS

LEMMA JumpBySlot ==
  ASSUME Answerable, NEW p \in DOMAIN Stored, NEW r, IsJump(Stored[p], r),
         Stored[p].code[r].op = "jmp slot"
  PROVE  /\ Passes(p, r) = Enters(p, r)
         /\ Ends(p, Enters(p, r)) = Enters(p, r)
         /\ Through(p, Enters(p, r)) = {}
         /\ (\E t \in JumpsTo(Stored[p], r) : t \in Targets) <=> Enters(p, r) \cap WantedCallees # {}
         /\ \A base, rva : \A t \in JumpsTo(Stored[p], r) : t # Place(base, rva)
<1> DEFINE image == Stored[p]
<1> DEFINE hits == {image.code[r].to} \cap DOMAIN image.slots
<1>1. \A a \in hits : BaseOf(image.slots[a].file) = ImportBase(image.slots[a].file)
  <2>1. SoundImage(image)
    BY AnsweredFacts
  <2>2. QED
    BY <2>1 DEF SoundImage, BaseOf, ImportBase
<1>2. Enters(p, r) = {<<"by", ImportBase(image.slots[a].file), image.slots[a].name>> : a \in hits}
  BY DEF Enters
<1>3. JumpsTo(image, r) = {Import(BaseOf(image.slots[a].file), image.slots[a].name) : a \in hits}
  BY DEF JumpsTo
<1>4. \A g \in Enters(p, r) : g[1] = "by"
  <2>1. \A a \in hits : <<"by", ImportBase(image.slots[a].file), image.slots[a].name>>[1] = "by"
    BY Entries
  <2>2. QED
    BY <1>2, <2>1
<1>5. Ends(p, Enters(p, r)) = Enters(p, r)
  BY <1>4 DEF Ends
<1>6. Through(p, Enters(p, r)) = {}
  <2>1. {h \in Enters(p, r) : h[1] = "in"} = {}
    BY <1>4
  <2>2. QED
    BY <2>1 DEF Through
<1>7. Passes(p, r) = Enters(p, r)
  BY DEF Passes
<1>8. ASSUME NEW a \in hits
      PROVE  Import(BaseOf(image.slots[a].file), image.slots[a].name) \in Targets
             <=> <<"by", ImportBase(image.slots[a].file), image.slots[a].name>> \in WantedCallees
  BY <1>1, ImportWanted
<1>9. \A base, rva : \A t \in JumpsTo(image, r) : t # Place(base, rva)
  <2>1. \A base, name, other, rva : Import(base, name) # Place(other, rva)
    BY DEF Import, Place
  <2> HIDE DEF hits
  <2>2. QED
    BY <1>3, <2>1
<1> HIDE DEF hits
<1>10. QED
  BY <1>2, <1>3, <1>5, <1>6, <1>7, <1>8, <1>9

\* A jump to a place passes there.
LEMMA JumpToPlace ==
  ASSUME Answerable, NEW p \in DOMAIN Stored, NEW r, IsJump(Stored[p], r),
         Stored[p].code[r].op # "jmp slot"
  PROVE  LET to == Stored[p].code[r].to
         IN /\ to # 0 /\ to # r
            /\ Passes(p, r) = {<<"in", p, to>>}
            /\ Ends(p, Passes(p, r)) = IF IsJump(Stored[p], to) THEN {} ELSE {<<"in", p, to>>}
            /\ Through(p, Passes(p, r)) = Passes(p, to)
            /\ JumpsTo(Stored[p], r) = {Place(BaseOf(Stored[p].file), to)}
<1> DEFINE to == Stored[p].code[r].to
<1>1. r \in DOMAIN Stored[p].code /\ Stored[p].code[r].op = "jmp"
  BY DEF IsJump
<1>2. SoundImage(Stored[p])
  BY AnsweredFacts
<1>3. to # 0 /\ to # r
  BY <1>1, <1>2 DEF SoundImage
<1>4. Passes(p, r) = {<<"in", p, to>>}
  BY <1>1 DEF Passes, Enters
<1> DEFINE entry == <<"in", p, to>>
<1>5. entry[1] = "in" /\ entry[3] = to
  BY Entries
<1> HIDE DEF entry
<1>6. Ends(p, {entry}) = IF IsJump(Stored[p], to) THEN {} ELSE {entry}
  <2>1. "in" # "by"
    OBVIOUS
  <2>2. CASE IsJump(Stored[p], entry[3])
    <3>1. Ends(p, {entry}) = {}
      BY <1>5, <2>1, <2>2 DEF Ends
    <3>2. QED
      BY <1>5, <2>2, <3>1
  <2>3. CASE ~ IsJump(Stored[p], entry[3])
    <3>1. Ends(p, {entry}) = {entry}
      BY <2>3 DEF Ends
    <3>2. QED
      BY <1>5, <2>3, <3>1
  <2>4. QED
    BY <2>2, <2>3
<1>7. Through(p, {entry}) = Passes(p, to)
  <2>1. {h \in {entry} : h[1] = "in"} = {entry}
    BY <1>5
  <2>2. UNION {Passes(p, g[3]) : g \in {entry}} = Passes(p, entry[3])
    OBVIOUS
  <2>3. QED
    BY <1>5, <2>1, <2>2 DEF Through
<1>8. JumpsTo(Stored[p], r) = {Place(BaseOf(Stored[p].file), to)}
  BY <1>1 DEF JumpsTo
<1>9. QED
  BY <1>3, <1>4, <1>6, <1>7, <1>8 DEF entry

LEMMA PlaceTwice ==
  ASSUME NEW base, NEW a, NEW b, a # b
  PROVE  Place(base, a) # Place(base, b)
  BY DEF Place

\* What follow_jmp_thunk finds behind an export is what its jumps come to, with
\* at most one jump between.
LEMMA WrapperWanted ==
  ASSUME Answerable, NEW p \in DOMAIN Stored, NEW r, IsJump(Stored[p], r)
  PROVE  (\E t \in LeadsTo(Stored[p], r) : t # Place(BaseOf(Stored[p].file), r) /\ t \in Targets)
         <=> (Ends(p, Passes(p, r)) \cup Ends(p, Through(p, Passes(p, r)))) \cap WantedCallees # {}
<1> DEFINE image == Stored[p]
<1> DEFINE base == BaseOf(image.file)
<1> DEFINE to == image.code[r].to
<1>1. CASE image.code[r].op = "jmp slot"
  <2>1. LeadsTo(image, r) = JumpsTo(image, r)
    BY <1>1 DEF LeadsTo
  <2>2. Ends(p, {}) = {}
    BY DEF Ends
  <2>3. /\ Ends(p, Passes(p, r)) = Enters(p, r) /\ Through(p, Passes(p, r)) = {}
        /\ (\E t \in JumpsTo(image, r) : t \in Targets) <=> Enters(p, r) \cap WantedCallees # {}
        /\ \A t \in JumpsTo(image, r) : t # Place(base, r)
    BY <1>1, JumpBySlot
  <2>4. QED
    BY <2>1, <2>2, <2>3
<1>2. CASE image.code[r].op # "jmp slot" /\ ~ IsJump(image, to)
  <2>1. LeadsTo(image, r) = {Place(base, to)}
    BY <1>2, JumpToPlace DEF LeadsTo
  <2>2. Place(base, to) # Place(base, r) /\ (Place(base, to) \in Targets <=> <<"in", p, to>> \in WantedCallees)
    BY <1>2, JumpToPlace, PlaceWanted, PlaceTwice
  <2>3. Ends(p, Through(p, Passes(p, r))) = {}
    <3>1. Passes(p, to) = {}
      BY <1>2 DEF Passes
    <3>2. QED
      BY <1>2, <3>1, JumpToPlace DEF Ends
  <2>4. Ends(p, Passes(p, r)) = {<<"in", p, to>>}
    BY <1>2, JumpToPlace
  <2>5. QED
    BY <2>1, <2>2, <2>3, <2>4
<1>3. CASE image.code[r].op # "jmp slot" /\ IsJump(image, to)
  <2>1. to # r /\ to # 0 /\ Ends(p, Passes(p, r)) = {} /\ Through(p, Passes(p, r)) = Passes(p, to)
    BY <1>3, JumpToPlace
  <2>2. CASE image.code[to].op = "jmp slot"
    <3>1. LeadsTo(image, r) = JumpsTo(image, to)
      BY <1>3, <2>1, <2>2 DEF LeadsTo
    <3>2. /\ Ends(p, Passes(p, to)) = Enters(p, to)
          /\ (\E t \in JumpsTo(image, to) : t \in Targets) <=> Enters(p, to) \cap WantedCallees # {}
          /\ \A t \in JumpsTo(image, to) : t # Place(base, r)
      BY <1>3, <2>2, JumpBySlot
    <3>3. QED
      BY <2>1, <3>1, <3>2
  <2>3. CASE image.code[to].op # "jmp slot"
    <3> DEFINE next == image.code[to].to
    <3>1. image.code[to].op = "jmp"
      BY <1>3, <2>3 DEF IsJump
    <3>2. /\ next # 0 /\ next # to /\ JumpsTo(image, to) = {Place(base, next)}
          /\ Ends(p, Passes(p, to)) = IF IsJump(image, next) THEN {} ELSE {<<"in", p, next>>}
      BY <1>3, <2>3, JumpToPlace
    <3>3. LeadsTo(image, r) = IF next # r /\ IsJump(image, next) THEN {} ELSE {Place(base, next)}
      BY <1>3, <2>1, <3>1, <3>2 DEF LeadsTo
    <3>4. Place(base, next) \in Targets <=> <<"in", p, next>> \in WantedCallees
      BY <3>2, PlaceWanted
    <3>5. next # r => Place(base, next) # Place(base, r)
      BY PlaceTwice
    <3> HIDE DEF next
    <3>6. QED
      BY <2>1, <3>2, <3>3, <3>4, <3>5
  <2>4. QED
    BY <2>2, <2>3
<1>4. QED
  BY <1>1, <1>2, <1>3


-----------------------------------------------------------------------------
(* The graph.                                                               *)

\* The images whose calls count.
Read == {p \in scan : Stored[p].readable}
ReadX64 == {p \in Read : Stored[p].bits = 64}

DirectCall(c, p, r) ==
  \E t \in Callees(Stored[p], r) : c = Call(Stored[p], p, t, r)

LEMMA DirectCalls ==
  ASSUME Answerable, NEW c
  PROVE  c \in UNION {IndexOf(Stored[p], p).calls : p \in ReadX64}
         <=> \E p \in ReadX64 : \E r \in DOMAIN Stored[p].code :
               Covered(Stored[p], r) /\ DirectCall(c, p, r)
<1>1. \A p \in ReadX64 : SoundImage(Stored[p]) /\ Stored[p].bits = 64
  BY AnsweredFacts DEF Read, ReadX64
<1>2. \A p \in ReadX64 :
        c \in IndexOf(Stored[p], p).calls
        <=> \E r \in DOMAIN Stored[p].code : Covered(Stored[p], r) /\ DirectCall(c, p, r)
  <2> SUFFICES ASSUME NEW p \in ReadX64
               PROVE  c \in IndexOf(Stored[p], p).calls
                      <=> \E r \in DOMAIN Stored[p].code : Covered(Stored[p], r) /\ DirectCall(c, p, r)
    OBVIOUS
  <2>1. c \in IndexOf(Stored[p], p).calls
        <=> \E r \in DOMAIN Stored[p].code : \E t \in Callees(Stored[p], r) :
              Covered(Stored[p], r) /\ c = Call(Stored[p], p, t, r)
    BY <1>1, CallsOfImage
  <2>2. QED
    BY <2>1 DEF DirectCall
<1>3. QED
  BY <1>2

\* The graph holds the calls and what they reach through wrappers, of all the images
\* that were read, in whatever order they were indexed.
LEMMA GraphIs ==
  ASSUME Answerable
  PROVE  LET calls == UNION {IndexOf(Stored[p], p).calls : p \in ReadX64}
         IN \A c : c \in graph
              <=> \/ c \in calls
                  \/ \E p \in Read : \E w \in OwnWrappers(Stored[p]) : c \in Expanded(calls, p, w)
<1> DEFINE read == {p \in DOMAIN indexed : indexed[p] # NoIndex}
<1> DEFINE calls == UNION {IndexOf(Stored[p], p).calls : p \in ReadX64}
<1> DEFINE told == UNION {indexed[p].calls : p \in {q \in read : ArchWanted(Stored[q].bits, question.cfg, Stored[found].bits)}}
<1>1. DOMAIN indexed = scan /\ \A p \in scan :
        indexed[p] = IF Stored[p].readable THEN IndexOf(Stored[p], p) ELSE NoIndex
  BY AnsweredFacts
<1>2. read \subseteq Read /\ \A p \in read : indexed[p] = IndexOf(Stored[p], p)
  BY <1>1 DEF Read
<1>3. \A p \in Read : indexed[p] = IndexOf(Stored[p], p) /\ p \in DOMAIN indexed
  BY <1>1 DEF Read
<1>4. \A c : \A p \in Read : c \in indexed[p].calls \cup indexed[p].wrappers => p \in read
  BY <1>3 DEF NoIndex
<1>5. \A c : c \in told <=> c \in calls
  <2>1. \A p \in Read : ArchWanted(Stored[p].bits, question.cfg, Stored[found].bits) <=> Stored[p].bits = 64
    BY OnlyX64
  <2>2. ASSUME NEW c, NEW p \in read, c \in indexed[p].calls,
               ArchWanted(Stored[p].bits, question.cfg, Stored[found].bits)
        PROVE  c \in calls
    BY <1>2, <2>1, <2>2 DEF ReadX64
  <2>3. ASSUME NEW c, NEW p \in ReadX64, c \in IndexOf(Stored[p], p).calls
        PROVE  c \in told
    <3>1. p \in Read /\ Stored[p].bits = 64
      BY DEF ReadX64
    <3>2. c \in indexed[p].calls /\ p \in read
      BY <1>3, <1>4, <2>3, <3>1
    <3> HIDE DEF read
    <3>3. QED
      BY <2>1, <3>1, <3>2
  <2> HIDE DEF read
  <2>4. QED
    BY <2>2, <2>3
<1>6. told = calls
  BY <1>5
<1>7. graph = told \cup UNION {UNION {Expanded(told, p, w) : w \in indexed[p].wrappers} : p \in read}
  BY AnsweredFacts DEF Graph
<1>8. \A p : IndexOf(Stored[p], p).wrappers = OwnWrappers(Stored[p])
  BY DEF IndexOf
<1>9. ASSUME NEW c
      PROVE  (\E p \in read : \E w \in indexed[p].wrappers : c \in Expanded(calls, p, w))
             <=> \E p \in Read : \E w \in OwnWrappers(Stored[p]) : c \in Expanded(calls, p, w)
  <2> HIDE DEF read, calls
  <2>1. QED
    BY <1>2, <1>3, <1>4, <1>8
<1> HIDE DEF told, read, calls
<1>10. \A c : c \in graph <=> \/ c \in calls
                              \/ \E p \in read : \E w \in indexed[p].wrappers : c \in Expanded(calls, p, w)
  BY <1>6, <1>7
<1>11. QED
  BY <1>9, <1>10 DEF calls


-----------------------------------------------------------------------------
(* Callers.                                                                 *)

LEMMA InstructionIs ==
  ASSUME Answerable, NEW p, NEW r
  PROVE  <<p, r>> \in Instructions
         <=> p \in ReadX64 /\ r \in DOMAIN Stored[p].code /\ Covered(Stored[p], r)
<1>1. <<p, r>> \in UNION {{q} \X DOMAIN Stored[q].code : q \in scan}
      <=> p \in scan /\ r \in DOMAIN Stored[p].code
  OBVIOUS
<1>2. ArchWanted(Stored[p].bits, question.cfg, Stored[found].bits) <=> Stored[p].bits = 64
  BY OnlyX64
<1>3. <<p, r>>[1] = p /\ <<p, r>>[2] = r
  OBVIOUS
<1>4. QED
  BY <1>1, <1>2, <1>3 DEF Instructions, ReadX64, Read, Covered

LEMMA InstructionPairs ==
  ASSUME Answerable, NEW i \in Instructions
  PROVE  i = <<i[1], i[2]>>
<1>1. i \in UNION {{q} \X DOMAIN Stored[q].code : q \in scan}
  BY DEF Instructions
<1>2. QED
  BY <1>1

\* What the graph has for the goal is a call that comes to it.
LEMMA ToldIsMeant ==
  ASSUME Answerable, NEW c \in graph, c.to \in Targets
  PROVE  \E p, r : /\ <<p, r>> \in Instructions
                   /\ c.by = OwnerOf(Stored[p], p, r) /\ c.site = r /\ c.via \in Ways(p, r)
<1> DEFINE calls == UNION {IndexOf(Stored[p], p).calls : p \in ReadX64}
<1>1. c \in calls \/ \E p \in Read : \E w \in OwnWrappers(Stored[p]) : c \in Expanded(calls, p, w)
  BY GraphIs
<1>2. ReadX64 \subseteq DOMAIN Stored /\ Read \subseteq DOMAIN Stored
  BY AnsweredFacts DEF ReadX64, Read
<1>3. CASE c \in calls
  <2>1. PICK p \in ReadX64 : \E r \in DOMAIN Stored[p].code :
               Covered(Stored[p], r) /\ DirectCall(c, p, r)
    BY <1>3, DirectCalls
  <2>2. PICK r \in DOMAIN Stored[p].code : Covered(Stored[p], r) /\ DirectCall(c, p, r)
    BY <2>1
  <2>3. PICK t \in Callees(Stored[p], r) : c = Call(Stored[p], p, t, r)
    BY <2>2 DEF DirectCall
  <2>4. c.to = t /\ c.by = OwnerOf(Stored[p], p, r) /\ c.site = r /\ c.via = ""
    BY <2>3 DEF Call
  <2>5. Enters(p, r) \cap WantedCallees # {}
    BY <1>2, <2>3, <2>4, DirectWanted
  <2>6. "" \in Ways(p, r)
    BY <2>5 DEF Ways
  <2>7. QED
    BY <2>2, <2>4, <2>6, InstructionIs
<1>4. ASSUME NEW p \in Read, NEW w \in OwnWrappers(Stored[p]), c \in Expanded(calls, p, w)
      PROVE  \E q, r : /\ <<q, r>> \in Instructions
                       /\ c.by = OwnerOf(Stored[q], q, r) /\ c.site = r /\ c.via \in Ways(q, r)
  <2>1. PICK k \in calls : /\ k.to = Place(BaseOf(Stored[p].file), w.rva)
                           /\ c = [k EXCEPT !.to = w.to, !.via = w.name]
    BY <1>4 DEF Expanded
  <2>2. PICK q \in ReadX64 : \E r \in DOMAIN Stored[q].code :
               Covered(Stored[q], r) /\ DirectCall(k, q, r)
    BY <2>1, DirectCalls
  <2>3. PICK r \in DOMAIN Stored[q].code : Covered(Stored[q], r) /\ DirectCall(k, q, r)
    BY <2>2
  <2>4. PICK t \in Callees(Stored[q], r) : k = Call(Stored[q], q, t, r)
    BY <2>3 DEF DirectCall
  <2>5. k.to = t /\ c.to = w.to /\ c.via = w.name /\ c.by = OwnerOf(Stored[q], q, r) /\ c.site = r
    BY <2>1, <2>4 DEF Call
  <2>6. PICK e \in Stored[p].exports :
          /\ e.rva # 0 /\ IsJump(Stored[p], e.rva)
          /\ w.to \in LeadsTo(Stored[p], e.rva) /\ w.name = e.name /\ w.rva = e.rva
          /\ w.to # Place(BaseOf(Stored[p].file), e.rva)
    BY DEF OwnWrappers, Wrappers
  <2>7. p = q /\ Enters(q, r) = {<<"in", p, e.rva>>}
    <3>1. t = Place(BaseOf(Stored[p].file), e.rva)
      BY <2>1, <2>5, <2>6
    <3>2. Stored[q].code[r].op \in {"call", "jmp"}
          /\ t = Place(BaseOf(Stored[q].file), Stored[q].code[r].to)
      BY <2>4, <3>1 DEF Callees, Place, Import
    <3>3. BaseOf(Stored[p].file) = BaseOf(Stored[q].file) /\ e.rva = Stored[q].code[r].to
      BY <3>1, <3>2 DEF Place
    <3>4. p = q
      BY <1>2, <3>3, OneBase
    <3>5. QED
      BY <3>2, <3>3, <3>4 DEF Enters
  <2>8. (Ends(p, Passes(p, e.rva)) \cup Ends(p, Through(p, Passes(p, e.rva)))) \cap WantedCallees # {}
    BY <1>2, <2>5, <2>6, WrapperWanted
  <2>9. e.name \in Ways(q, r)
    BY <2>7, <2>8 DEF Ways
  <2>10. QED
    BY <2>3, <2>5, <2>6, <2>9, InstructionIs
<1>5. QED
  BY <1>1, <1>3, <1>4

\* A call that comes to the goal is in the graph.
LEMMA MeantIsTold ==
  ASSUME Answerable, NEW p, NEW r, <<p, r>> \in Instructions, NEW via \in Ways(p, r)
  PROVE  \E c \in graph : /\ c.to \in Targets /\ c.by = OwnerOf(Stored[p], p, r)
                          /\ c.site = r /\ c.via = via
<1> DEFINE calls == UNION {IndexOf(Stored[q], q).calls : q \in ReadX64}
<1>1. p \in ReadX64 /\ r \in DOMAIN Stored[p].code /\ Covered(Stored[p], r)
  BY InstructionIs
<1>2. p \in DOMAIN Stored /\ p \in Read
  BY <1>1, AnsweredFacts DEF ReadX64, Read
<1>3. \/ via = "" /\ Enters(p, r) \cap WantedCallees # {}
      \/ \E e \in Stored[p].exports :
           /\ via = e.name /\ <<"in", p, e.rva>> \in Enters(p, r)
           /\ (Ends(p, Passes(p, e.rva)) \cup Ends(p, Through(p, Passes(p, e.rva)))) \cap WantedCallees # {}
  BY DEF Ways
<1>4. CASE via = "" /\ Enters(p, r) \cap WantedCallees # {}
  <2>1. PICK t \in Callees(Stored[p], r) : t \in Targets
    BY <1>1, <1>2, <1>4, DirectWanted
  <2> DEFINE c == Call(Stored[p], p, t, r)
  <2>2. c.to = t /\ c.by = OwnerOf(Stored[p], p, r) /\ c.site = r /\ c.via = ""
    BY DEF Call
  <2>3. DirectCall(c, p, r)
    BY DEF DirectCall
  <2> HIDE DEF c
  <2>4. c \in calls
    BY <1>1, <2>3, DirectCalls
  <2>5. c \in graph
    BY <2>4, GraphIs
  <2>6. QED
    BY <1>4, <2>1, <2>2, <2>5
<1>5. ASSUME NEW e \in Stored[p].exports, via = e.name, <<"in", p, e.rva>> \in Enters(p, r),
             (Ends(p, Passes(p, e.rva)) \cup Ends(p, Through(p, Passes(p, e.rva)))) \cap WantedCallees # {}
      PROVE  \E c \in graph : /\ c.to \in Targets /\ c.by = OwnerOf(Stored[p], p, r)
                              /\ c.site = r /\ c.via = via
  <2> DEFINE image == Stored[p]
  <2> DEFINE base == BaseOf(image.file)
  <2>1. image.code[r].op \in {"call", "jmp"} /\ e.rva = image.code[r].to
    BY <1>5 DEF Enters
  <2>2. SoundImage(image)
    BY <1>2, AnsweredFacts
  <2>3. e.rva # 0 /\ e.rva \in image.mapped
    BY <1>1, <2>1, <2>2 DEF SoundImage
  <2>4. IsJump(image, e.rva)
    <3>1. SUFFICES ASSUME ~ IsJump(image, e.rva) PROVE FALSE
      OBVIOUS
    <3>2. Passes(p, e.rva) = {}
      BY <3>1 DEF Passes
    <3>3. QED
      BY <1>5, <3>2 DEF Ends, Through
  <2>5. PICK t \in LeadsTo(image, e.rva) : t # Place(base, e.rva) /\ t \in Targets
    BY <1>2, <1>5, <2>4, WrapperWanted
  <2> DEFINE w == [name |-> e.name, rva |-> e.rva, to |-> t]
  <2>6. w \in OwnWrappers(image)
    <3>1. w \in Wrappers(image)
      BY <2>3, <2>4, <2>5 DEF Wrappers
    <3>2. w.to # Place(base, w.rva)
      BY <2>5
    <3>3. QED
      BY <3>1, <3>2 DEF OwnWrappers
  <2> DEFINE k == Call(image, p, Place(base, e.rva), r)
  <2>7. k \in calls
    <3>1. Place(base, e.rva) \in Callees(image, r)
      BY <2>1, <2>3 DEF Callees
    <3>2. DirectCall(k, p, r)
      BY <3>1 DEF DirectCall
    <3> HIDE DEF k
    <3>3. QED
      BY <1>1, <3>2, DirectCalls
  <2> DEFINE c == [k EXCEPT !.to = w.to, !.via = w.name]
  <2>8. c.to = t /\ c.by = OwnerOf(image, p, r) /\ c.site = r /\ c.via = e.name
    BY DEF Call
  <2>9. c \in Expanded(calls, p, w)
    <3>1. k.to = Place(base, w.rva)
      BY DEF Call
    <3> HIDE DEF k, w, calls
    <3>2. QED
      BY <2>7, <3>1 DEF Expanded
  <2>10. c \in graph
    <3> HIDE DEF c, w
    <3>1. QED
      BY <1>2, <2>6, <2>9, GraphIs
  <2> HIDE DEF c
  <2>11. QED
    BY <1>5, <2>5, <2>8, <2>10
<1>6. QED
  BY <1>3, <1>4, <1>5


\* A site is in one function, so callers with one image and begin are one.
LEMMA OwnerIs ==
  ASSUME NEW image, SoundImage(image), NEW path, NEW r \in DOMAIN image.code, NEW f \in RuntimeAt(image, r)
  PROVE  /\ RuntimeAt(image, r) = {f}
         /\ OwnerOf(image, path, r).path = path /\ OwnerOf(image, path, r).begin = f.begin
         /\ \A s \in DOMAIN image.code : f \in RuntimeAt(image, s) =>
              OwnerOf(image, path, s) = OwnerOf(image, path, r)
<1> DEFINE Inside == {e \in image.exports : f.begin <= e.rva /\ e.rva < f.end}
<1>1. \A s \in DOMAIN image.code : f \in RuntimeAt(image, s) => RuntimeAt(image, s) = {f}
  <2> SUFFICES ASSUME NEW s \in DOMAIN image.code, f \in RuntimeAt(image, s),
                      NEW g \in RuntimeAt(image, s)
               PROVE  g = f
    OBVIOUS
  <2>1. /\ s \in Nat /\ f \in image.runtime /\ g \in image.runtime
        /\ f.begin \in Nat /\ f.end \in Nat /\ g.begin \in Nat /\ g.end \in Nat
        /\ f.begin <= s /\ s < f.end /\ g.begin <= s /\ s < g.end
    BY DEF SoundImage, RuntimeAt
  <2>2. (f.begin <= g.begin /\ g.begin < f.end) \/ (g.begin <= f.begin /\ f.begin < g.end)
    BY <2>1
  <2>3. QED
    BY <2>1, <2>2 DEF SoundImage
<1>2. \A s \in DOMAIN image.code : f \in RuntimeAt(image, s) => OwnerOf(image, path, s) = Owner(path, f.begin, Inside)
  <2> SUFFICES ASSUME NEW s \in DOMAIN image.code, f \in RuntimeAt(image, s)
               PROVE  OwnerOf(image, path, s) = Owner(path, f.begin, Inside)
    OBVIOUS
  <2>1. RuntimeAt(image, s) = {f} /\ (CHOOSE g \in RuntimeAt(image, s) : TRUE) = f
    BY <1>1
  <2>2. QED
    BY <2>1 DEF OwnerOf
<1>3. Owner(path, f.begin, Inside).path = path /\ Owner(path, f.begin, Inside).begin = f.begin
  BY DEF Owner
<1> HIDE DEF Inside
<1>4. QED
  BY <1>1, <1>2, <1>3

LEMMA OwnerOfInstruction ==
  ASSUME Answerable, NEW p, NEW r, <<p, r>> \in Instructions
  PROVE  \E f : /\ RuntimeAt(Stored[p], r) = {f}
                /\ OwnerOf(Stored[p], p, r).path = p /\ OwnerOf(Stored[p], p, r).begin = f.begin
<1>1. p \in ReadX64 /\ r \in DOMAIN Stored[p].code /\ Covered(Stored[p], r)
  BY InstructionIs
<1>2. SoundImage(Stored[p])
  BY <1>1, AnsweredFacts DEF ReadX64, Read
<1>3. PICK f \in RuntimeAt(Stored[p], r) : TRUE
  BY <1>1 DEF Covered
<1>4. QED
  BY <1>1, <1>2, <1>3, OwnerIs

LEMMA OneOwner ==
  ASSUME Answerable, NEW p, NEW r, NEW q, NEW s, <<p, r>> \in Instructions, <<q, s>> \in Instructions,
         OwnerOf(Stored[p], p, r).path = OwnerOf(Stored[q], q, s).path,
         OwnerOf(Stored[p], p, r).begin = OwnerOf(Stored[q], q, s).begin
  PROVE  OwnerOf(Stored[p], p, r) = OwnerOf(Stored[q], q, s)
<1>1. p \in ReadX64 /\ r \in DOMAIN Stored[p].code /\ q \in ReadX64 /\ s \in DOMAIN Stored[q].code
  BY InstructionIs
<1>2. SoundImage(Stored[p])
  BY <1>1, AnsweredFacts DEF ReadX64, Read
<1>3. PICK f : /\ RuntimeAt(Stored[p], r) = {f}
               /\ OwnerOf(Stored[p], p, r).path = p /\ OwnerOf(Stored[p], p, r).begin = f.begin
  BY OwnerOfInstruction
<1>4. PICK g : /\ RuntimeAt(Stored[q], s) = {g}
               /\ OwnerOf(Stored[q], q, s).path = q /\ OwnerOf(Stored[q], q, s).begin = g.begin
  BY OwnerOfInstruction
<1>5. p = q /\ f.begin = g.begin
  BY <1>3, <1>4
<1>6. f = g
  <2>1. f \in Stored[p].runtime /\ g \in Stored[p].runtime /\ f.begin <= r /\ r < f.end
    <3>1. f \in RuntimeAt(Stored[p], r) /\ g \in RuntimeAt(Stored[p], s)
      BY <1>3, <1>4, <1>5
    <3>2. QED
      BY <3>1 DEF RuntimeAt
  <2>2. r \in Nat /\ f.begin \in Nat /\ f.end \in Nat
    BY <1>1, <1>2, <2>1 DEF SoundImage
  <2>3. f.begin <= g.begin /\ g.begin < f.end
    BY <1>5, <2>1, <2>2
  <2>4. QED
    BY <1>2, <2>1, <2>3 DEF SoundImage
<1>7. QED
  BY <1>1, <1>2, <1>3, <1>4, <1>5, <1>6, OwnerIs


\* The callers that are told, with their sites, are the ones there are.
LEMMA ToldAreMeant ==
  ASSUME Answerable
  PROVE  {[path |-> c.by.path, begin |-> c.by.begin, via |-> c.via, sites |-> c.sites] : c \in CallersFor(goal)}
         = {[path |-> m.path, begin |-> m.begin, via |-> m.via,
             sites |-> {o.site : o \in {n \in CallsMeant :
                          n.path = m.path /\ n.begin = m.begin /\ n.via = m.via}}] : m \in CallsMeant}
<1> DEFINE calls == {c \in graph : c.to \in Targets}
<1> DEFINE Is(c, m) == /\ c.by.path = m.path /\ c.by.begin = m.begin /\ c.via = m.via /\ c.site = m.site
<1> DEFINE SitesTold(c) == {d.site : d \in {e \in calls : e.by = c.by /\ e.via = c.via}}
<1> DEFINE SitesMeant(m) == {o.site : o \in {n \in CallsMeant :
                               n.path = m.path /\ n.begin = m.begin /\ n.via = m.via}}
<1>1. ASSUME NEW c \in calls
      PROVE  \E p, r : /\ <<p, r>> \in Instructions
                       /\ c.by = OwnerOf(Stored[p], p, r) /\ c.site = r /\ c.via \in Ways(p, r)
  BY ToldIsMeant
<1>2. ASSUME NEW c \in calls
      PROVE  \E m \in CallsMeant : Is(c, m)
  <2>1. PICK p, r : /\ <<p, r>> \in Instructions
                    /\ c.by = OwnerOf(Stored[p], p, r) /\ c.site = r /\ c.via \in Ways(p, r)
    BY <1>1
  <2>2. PICK f : /\ RuntimeAt(Stored[p], r) = {f}
                 /\ OwnerOf(Stored[p], p, r).path = p /\ OwnerOf(Stored[p], p, r).begin = f.begin
    BY <2>1, OwnerOfInstruction
  <2> DEFINE m == [path |-> p, begin |-> f.begin, via |-> c.via, site |-> r]
  <2>3. m \in CallsMeant
    <3> DEFINE i == <<p, r>>
    <3>1. i \in Instructions /\ i[1] = p /\ i[2] = r
      BY <2>1
    <3> HIDE DEF i
    <3>2. m \in {[path |-> i[1], begin |-> g.begin, via |-> w, site |-> i[2]] :
                   g \in RuntimeAt(Stored[i[1]], i[2]), w \in Ways(i[1], i[2])}
      BY <2>1, <2>2, <3>1
    <3> HIDE DEF m
    <3>3. QED
      BY <3>1, <3>2 DEF CallsMeant
  <2>4. Is(c, m)
    BY <2>1, <2>2
  <2>5. QED
    BY <2>3, <2>4
<1>3. ASSUME NEW m \in CallsMeant
      PROVE  \E c \in calls : Is(c, m)
  <2>1. PICK i \in Instructions :
          m \in {[path |-> i[1], begin |-> f.begin, via |-> w, site |-> i[2]] :
                   f \in RuntimeAt(Stored[i[1]], i[2]), w \in Ways(i[1], i[2])}
    BY DEF CallsMeant
  <2>2. PICK f \in RuntimeAt(Stored[i[1]], i[2]), w \in Ways(i[1], i[2]) :
          m = [path |-> i[1], begin |-> f.begin, via |-> w, site |-> i[2]]
    BY <2>1
  <2> DEFINE p == i[1]
  <2> DEFINE r == i[2]
  <2>3. <<p, r>> \in Instructions
    BY InstructionPairs
  <2> HIDE DEF p, r
  <2>4. m.path = p /\ m.begin = f.begin /\ m.via = w /\ m.site = r
    BY <2>2 DEF p, r
  <2>5. f \in RuntimeAt(Stored[p], r) /\ w \in Ways(p, r)
    BY <2>2 DEF p, r
  <2>6. OwnerOf(Stored[p], p, r).path = p /\ OwnerOf(Stored[p], p, r).begin = f.begin
    <3>1. PICK g : /\ RuntimeAt(Stored[p], r) = {g}
                   /\ OwnerOf(Stored[p], p, r).path = p /\ OwnerOf(Stored[p], p, r).begin = g.begin
      BY <2>3, OwnerOfInstruction
    <3>2. QED
      BY <2>5, <3>1
  <2>7. PICK c \in graph : /\ c.to \in Targets /\ c.by = OwnerOf(Stored[p], p, r)
                           /\ c.site = r /\ c.via = w
    BY <2>3, <2>5, MeantIsTold
  <2>8. c \in calls /\ Is(c, m)
    BY <2>4, <2>6, <2>7
  <2>9. QED
    BY <2>8
<1>4. ASSUME NEW c \in calls, NEW d \in calls, c.by.path = d.by.path, c.by.begin = d.by.begin
      PROVE  c.by = d.by
  <2>1. PICK p, r : <<p, r>> \in Instructions /\ c.by = OwnerOf(Stored[p], p, r)
    BY <1>1
  <2>2. PICK q, s : <<q, s>> \in Instructions /\ d.by = OwnerOf(Stored[q], q, s)
    BY <1>1
  <2>3. QED
    BY <1>4, <2>1, <2>2, OneOwner
<1>5. CallersFor(goal) = {[by |-> c.by, via |-> c.via, sites |-> SitesTold(c)] : c \in calls}
  BY DEF CallersFor, Targets
<1> HIDE DEF calls
<1>6. ASSUME NEW c \in calls, NEW m \in CallsMeant, Is(c, m)
      PROVE  SitesTold(c) = SitesMeant(m)
  <2>1. ASSUME NEW d \in calls, d.by = c.by, d.via = c.via
        PROVE  d.site \in SitesMeant(m)
    <3>1. PICK n \in CallsMeant : Is(d, n)
      BY <1>2
    <3>2. QED
      BY <1>6, <2>1, <3>1
  <2>2. ASSUME NEW n \in CallsMeant, n.path = m.path, n.begin = m.begin, n.via = m.via
        PROVE  n.site \in SitesTold(c)
    <3>1. PICK d \in calls : Is(d, n)
      BY <1>3
    <3>2. d.by = c.by /\ d.via = c.via
      BY <1>4, <1>6, <2>2, <3>1
    <3>3. QED
      BY <3>1, <3>2
  <2>3. QED
    BY <2>1, <2>2
<1> DEFINE Told(c) == [path |-> c.by.path, begin |-> c.by.begin, via |-> c.via, sites |-> SitesTold(c)]
<1> DEFINE Expected(m) == [path |-> m.path, begin |-> m.begin, via |-> m.via, sites |-> SitesMeant(m)]
<1>7. {[path |-> c.by.path, begin |-> c.by.begin, via |-> c.via, sites |-> c.sites] : c \in CallersFor(goal)}
      = {Told(c) : c \in calls}
  <2> DEFINE Entry(c) == [by |-> c.by, via |-> c.via, sites |-> SitesTold(c)]
  <2> DEFINE Reduced(c) == [path |-> c.by.path, begin |-> c.by.begin, via |-> c.via, sites |-> c.sites]
  <2>1. \A c : Reduced(Entry(c)) = Told(c)
    <3> HIDE DEF SitesTold
    <3>1. QED
      OBVIOUS
  <2>2. CallersFor(goal) = {Entry(c) : c \in calls}
    BY <1>5
  <2> HIDE DEF Entry, Reduced, Told
  <2>3. {Reduced(e) : e \in CallersFor(goal)} = {Told(c) : c \in calls}
    BY <2>1, <2>2
  <2>4. QED
    BY <2>3 DEF Reduced
<1>8. ASSUME NEW c \in calls, NEW m \in CallsMeant, Is(c, m)
      PROVE  Told(c) = Expected(m)
  BY <1>6, <1>8
<1> HIDE DEF SitesTold, SitesMeant, Told, Expected, Is
<1>9. {Told(c) : c \in calls} = {Expected(m) : m \in CallsMeant}
  BY <1>2, <1>3, <1>8
<1>10. QED
  BY <1>7, <1>9 DEF Expected, SitesMeant

\* Whatever images there are and in whatever order they are indexed, the callers
\* told of a function in x64 images are those whose code comes to it, when the
\* images are sound.
THEOREM CallersAreExact == ASSUME SoundImages PROVE CallersSpec => []CallersExact
<1>1. SearchInv => CallersExact
  <2> SUFFICES ASSUME SearchInv, progress = "done" PROVE CallersExact
    BY DEF CallersExact
  <2>1. found \in scan
    BY DEF SearchInv, TargetIsScanned
  <2>2. ~ Stored[found].file.cased /\ Stored[found].bits = 64 /\ question.cfg.arch # "x86" => Answerable
    BY DEF Answerable
  <2>3. QED
    BY <2>1, <2>2, ToldAreMeant DEF CallersExact
<1>2. QED
  BY <1>1, SearchStaysSound, PTL

-----------------------------------------------------------------------------
(* Trails.                                                                  *)

LEMMA LeastOf ==
  ASSUME NEW T \in SUBSET Nat, T # {}
  PROVE  \E x \in T : \A y \in T : x <= y
<1> DEFINE R == {p \in Nat \X Nat : p[1] < p[2]}
<1>1. IsWellFoundedOn(R, Nat)
  BY NatLessThanWellFounded DEF OpToRel
<1> HIDE DEF R
<1>2. PICK x \in T : \A y \in T : ~ (<<y, x>> \in R)
  BY <1>1, WFMin
<1>3. ASSUME NEW y \in T
      PROVE  x <= y
  <2>1. ~ (y < x)
    BY <1>2 DEF R
  <2>2. QED
    BY <2>1
<1>4. QED
  BY <1>3

\* A trail of the first m hops.
IsTrail(t, first, m) == t = [n \in 0 .. m |-> IF n = 0 THEN first ELSE Hop(t[n - 1])]

LEMMA LongerTrail ==
  ASSUME NEW first, NEW m \in Nat, NEW t, IsTrail(t, first, m)
  PROVE  \E u : IsTrail(u, first, m + 1)
<1> DEFINE u == [n \in 0 .. m + 1 |-> IF n = m + 1 THEN Hop(t[m]) ELSE t[n]]
<1>1. \A n \in 0 .. m : t[n] = IF n = 0 THEN first ELSE Hop(t[n - 1])
  BY DEF IsTrail
<1>2. \A n \in 0 .. m + 1 : u[n] = IF n = 0 THEN first ELSE Hop(u[n - 1])
  <2> SUFFICES ASSUME NEW n \in 0 .. m + 1
               PROVE  u[n] = IF n = 0 THEN first ELSE Hop(u[n - 1])
    OBVIOUS
  <2>1. CASE n = m + 1
    <3>1. u[n] = Hop(t[m]) /\ u[n - 1] = t[m] /\ n # 0
      BY <2>1
    <3>2. QED
      BY <3>1
  <2>2. CASE n # m + 1 /\ n # 0
    <3>1. n \in 0 .. m /\ n - 1 \in 0 .. m /\ u[n] = t[n] /\ u[n - 1] = t[n - 1]
      BY <2>2
    <3>2. QED
      BY <1>1, <2>2, <3>1
  <2>3. CASE n = 0
    <3>1. n \in 0 .. m /\ u[n] = t[n]
      BY <2>3
    <3>2. QED
      BY <1>1, <2>3, <3>1
  <2>4. QED
    BY <2>1, <2>2, <2>3
<1>3. u = [n \in 0 .. m + 1 |-> u[n]]
  OBVIOUS
<1> HIDE DEF u
<1>4. IsTrail(u, first, m + 1)
  BY <1>2, <1>3 DEF IsTrail
<1>5. QED
  BY <1>4

LEMMA TrailExists ==
  ASSUME NEW first, NEW m \in Nat
  PROVE  \E t : IsTrail(t, first, m)
<1> DEFINE Without == {n \in Nat : ~ \E t : IsTrail(t, first, n)}
<1> SUFFICES ASSUME Without # {} PROVE FALSE
  OBVIOUS
<1>1. PICK n \in Without : \A o \in Without : n <= o
  <2> HIDE DEF Without
  <2>1. Without \in SUBSET Nat
    BY DEF Without
  <2>2. QED
    BY <2>1, LeastOf
<1>2. CASE n = 0
  <2>1. IsTrail([o \in 0 .. 0 |-> first], first, 0)
    BY DEF IsTrail
  <2>2. QED
    BY <1>2, <2>1
<1>3. CASE n # 0
  <2>1. n - 1 \in Nat /\ n - 1 \notin Without
    BY <1>1, <1>3
  <2>2. PICK t : IsTrail(t, first, n - 1)
    BY <2>1
  <2>3. \E u : IsTrail(u, first, (n - 1) + 1)
    BY <2>1, <2>2, LongerTrail
  <2>4. (n - 1) + 1 = n
    BY <2>1
  <2>5. QED
    BY <2>3, <2>4
<1>4. QED
  BY <1>2, <1>3

Horizon == MaxChain * MaxHops

LEMMA TrailHops ==
  ASSUME NEW first, Horizon \in Nat
  PROVE  /\ Trail(first)[0] = first
         /\ \A n \in 0 .. Horizon - 1 : Trail(first)[n + 1] = Hop(Trail(first)[n])
<1> DEFINE t == Trail(first)
<1>1. IsTrail(t, first, Horizon)
  <2>1. \E u : IsTrail(u, first, Horizon)
    BY TrailExists
  <2>2. QED
    BY <2>1 DEF Trail, IsTrail, Horizon
<1> HIDE DEF t
<1>2. \A n \in 0 .. Horizon : t[n] = IF n = 0 THEN first ELSE Hop(t[n - 1])
  BY <1>1 DEF IsTrail
<1>3. ASSUME NEW n \in 0 .. Horizon - 1
      PROVE  t[n + 1] = Hop(t[n])
  <2>1. n + 1 \in 0 .. Horizon /\ n + 1 # 0 /\ (n + 1) - 1 = n
    OBVIOUS
  <2>2. QED
    BY <1>2, <2>1
<1>4. t[0] = first
  BY <1>2
<1>5. QED
  BY <1>3, <1>4 DEF t

\* What no hop leaves, a trail does not leave.
LEMMA TrailStays ==
  ASSUME NEW first, Horizon \in Nat, NEW S, \A p \in S : Hop(p) \in S,
         NEW m \in 0 .. Horizon, Trail(first)[m] \in S
  PROVE  Trail(first)[Horizon] \in S
<1> DEFINE t == Trail(first)
<1> DEFINE Outside == {n \in m .. Horizon : t[n] \notin S}
<1>1. \A n \in 0 .. Horizon - 1 : t[n + 1] = Hop(t[n])
  BY TrailHops
<1> HIDE DEF t
<1> SUFFICES ASSUME Outside # {} PROVE FALSE
  BY DEF t
<1>2. PICK n \in Outside : \A o \in Outside : n <= o
  <2>1. Outside \in SUBSET Nat
    OBVIOUS
  <2> HIDE DEF Outside
  <2>2. QED
    BY <2>1, LeastOf
<1>3. n # m
  BY DEF t
<1>4. n - 1 \in m .. Horizon /\ n - 1 \notin Outside /\ n - 1 \in 0 .. Horizon - 1 /\ (n - 1) + 1 = n
  BY <1>2, <1>3
<1>5. t[n - 1] \in S
  BY <1>4
<1>6. t[n] = Hop(t[n - 1])
  BY <1>1, <1>4
<1>7. QED
  BY <1>2, <1>5, <1>6

LEMMA TrailRests ==
  ASSUME NEW first, Horizon \in Nat, NEW m \in 0 .. Horizon, NEW p, Trail(first)[m] = p, Hop(p) = p
  PROVE  Trail(first)[Horizon] = p
<1> DEFINE S == {p}
<1>1. (\A q \in S : Hop(q) \in S) /\ Trail(first)[m] \in S
  OBVIOUS
<1> HIDE DEF S
<1>2. Trail(first)[Horizon] \in S
  BY <1>1, TrailStays
<1>3. QED
  BY <1>2 DEF S

\* Hops from one place.
LEMMA HopOfJmp ==
  ASSUME NEW d \in DOMAIN Library, NEW r \in Library[d].code \cap DOMAIN Library[d].jumps,
         Library[d].jumps[r].k = "jmp"
  PROVE  Jumps(Spot(d, r)) /\ Hop(Spot(d, r)) = Spot(d, Library[d].jumps[r].to)
BY DEF Jumps, Hop, Bound, Destination, Spot

LEMMA HopOfSlot ==
  ASSUME NEW d \in DOMAIN Library, NEW r \in Library[d].code \cap DOMAIN Library[d].jumps,
         Library[d].jumps[r].k # "jmp"
  PROVE  LET to == Library[d].slots[Library[d].jumps[r].to]
         IN /\ Jumps(Spot(d, r))
            /\ \/ Hop(Spot(d, r)) = Spot(d, r)
               \/ /\ Library[d].jumps[r].to \in DOMAIN Library[d].slots /\ Exported(to) # 0
                  /\ Hop(Spot(d, r)) = Spot(to.dll, Library[to.dll].exports[Exported(to)].rva)
<1> DEFINE p == Spot(d, r)
           to == Library[d].slots[Library[d].jumps[r].to]
<1>1. p.dll = d /\ p.rva = r
  BY DEF Spot
<1>2. Jumps(p)
  BY <1>1 DEF Jumps
<1>3. Bound(p) => Library[d].jumps[r].to \in DOMAIN Library[d].slots /\ Exported(to) # 0
  BY <1>1 DEF Bound
<1>4. Destination(p) = Spot(to.dll, Library[to.dll].exports[Exported(to)].rva)
  BY <1>1 DEF Destination
<1> HIDE DEF p, to
<1>5. Hop(p) = IF Bound(p) THEN Destination(p) ELSE p
  BY <1>2 DEF Hop
<1>6. QED
  BY <1>2, <1>3, <1>4, <1>5 DEF p, to

LEMMA HopOfRest ==
  ASSUME NEW p, ~ Jumps(p)
  PROVE  Hop(p) = p
BY DEF Hop

\* Where a trail ends that comes to r in the image d by the jump at it.
Reaches(first, m, to) ==
  \/ Jumps(Trail(first)[Horizon])
  \/ /\ Exported(to) # 0
     /\ Trail(first)[m + 1] = Spot(to.dll, Library[to.dll].exports[Exported(to)].rva)
EndsAfter(first, m, d, link) ==
  /\ link.k = "unresolved" => Jumps(Trail(first)[Horizon])
  /\ link.k = "import" => Reaches(first, m, link.to)
  /\ link.k = "direct" /\ link.to \in Library[d].backed =>
       Jumps(Trail(first)[Horizon]) \/ Trail(first)[Horizon] = Spot(d, link.to)

LEMMA LinkOfSlot ==
  ASSUME NEW first, Horizon \in Nat, NEW m \in 0 .. Horizon - 1,
         NEW d \in DOMAIN Library, NEW r \in Library[d].code \cap DOMAIN Library[d].jumps,
         Library[d].jumps[r].k # "jmp", Trail(first)[m] = Spot(d, r)
  PROVE  EndsAfter(first, m, d, Link(Library[d], r))
<1> DEFINE to == Library[d].slots[Library[d].jumps[r].to]
<1>1. Jumps(Spot(d, r))
  BY HopOfSlot
<1>2. CASE Hop(Spot(d, r)) = Spot(d, r)
  <2>1. Trail(first)[Horizon] = Spot(d, r)
    BY <1>2, TrailRests
  <2>2. Jumps(Trail(first)[Horizon])
    BY <1>1, <2>1
  <2>3. QED
    BY <2>2 DEF EndsAfter, Reaches, Link
<1>3. CASE /\ Library[d].jumps[r].to \in DOMAIN Library[d].slots /\ Exported(to) # 0
           /\ Hop(Spot(d, r)) = Spot(to.dll, Library[to.dll].exports[Exported(to)].rva)
  <2>1. Trail(first)[m + 1] = Spot(to.dll, Library[to.dll].exports[Exported(to)].rva)
    <3>1. Trail(first)[m + 1] = Hop(Trail(first)[m])
      BY TrailHops
    <3>2. QED
      BY <1>3, <3>1
  <2>2. Link(Library[d], r) = [k |-> "import", to |-> to]
    BY <1>3 DEF Link
  <2> HIDE DEF to
  <2>3. Reaches(first, m, to)
    BY <1>3, <2>1 DEF Reaches
  <2>4. QED
    BY <2>2, <2>3 DEF EndsAfter
<1>4. QED
  BY <1>2, <1>3, HopOfSlot

LEMMA LinkOfJmp ==
  ASSUME NEW first, Horizon \in Nat, NEW m \in 0 .. Horizon - 1,
         NEW d \in DOMAIN Library, NEW r \in Library[d].code \cap DOMAIN Library[d].jumps,
         Library[d].jumps[r].k = "jmp", Trail(first)[m] = Spot(d, r),
         NEW a \in Library[d].code \cap DOMAIN Library[d].jumps,
         Library[d].jumps[a].k = "jmp", a = r \/ Library[d].jumps[a].to = r,
         LET to == Library[d].jumps[r].to
         IN to \in Library[d].backed => to \in {a, r} \/ to \notin Library[d].code \cap DOMAIN Library[d].jumps
  PROVE  EndsAfter(first, m, d, Link(Library[d], r))
<1> DEFINE to == Library[d].jumps[r].to
<1>1. Link(Library[d], r) = [k |-> "direct", to |-> to]
  BY DEF Link
<1>2. Trail(first)[m + 1] = Spot(d, to) /\ m + 1 \in 0 .. Horizon
  BY TrailHops, HopOfJmp
<1>3. CASE to \in {a, r}
  <2> DEFINE Cycle == {Spot(d, a), Spot(d, r)}
  <2>1. /\ Hop(Spot(d, r)) = Spot(d, to) /\ Hop(Spot(d, a)) = Spot(d, Library[d].jumps[a].to)
        /\ Jumps(Spot(d, r)) /\ Jumps(Spot(d, a))
    BY HopOfJmp
  <2>2. Spot(d, to) \in Cycle /\ Spot(d, Library[d].jumps[a].to) \in Cycle
    BY <1>3
  <2>3. \A p \in Cycle : Hop(p) \in Cycle
    BY <2>1, <2>2
  <2>4. Trail(first)[m] \in Cycle /\ m \in 0 .. Horizon
    OBVIOUS
  <2> HIDE DEF Cycle, to
  <2>5. Trail(first)[Horizon] \in Cycle
    BY <2>3, <2>4, TrailStays
  <2>6. Jumps(Trail(first)[Horizon])
    BY <2>1, <2>5 DEF Cycle
  <2>7. QED
    BY <1>1, <2>6 DEF EndsAfter
<1>4. CASE to \notin Library[d].code \cap DOMAIN Library[d].jumps
  <2>1. Hop(Spot(d, to)) = Spot(d, to)
    BY <1>4, HopOfRest DEF Jumps, Spot
  <2> HIDE DEF to
  <2>2. Trail(first)[Horizon] = Spot(d, to)
    BY <1>2, <2>1, TrailRests
  <2>3. QED
    BY <1>1, <2>2 DEF EndsAfter
<1>5. CASE to \notin Library[d].backed
  BY <1>1, <1>5 DEF EndsAfter
<1>6. QED
  BY <1>3, <1>4, <1>5

\* What the thunk at r says is where the trail goes, unless three jumps follow each other.
LEMMA ThunkLeads ==
  ASSUME SoundLibrary, NEW first, Horizon \in Nat, NEW m \in Nat, m + 2 <= Horizon,
         NEW d \in DOMAIN Library, NEW r \in Library[d].code, Trail(first)[m] = Spot(d, r)
  PROVE  LET thunk == Thunk(Library[d], r)
         IN /\ thunk.k = "none" => Trail(first)[Horizon] = Spot(d, r)
            /\ thunk.k \in {"import", "direct", "unresolved"} => EndsAfter(first, m, d, thunk)
            /\ thunk.k = "chain" => thunk.final.k = "chain" \/ EndsAfter(first, m + 1, d, thunk.final)
<1> DEFINE image == Library[d]
           thunk == Thunk(image, r)
           to == image.jumps[r].to
<1>0. MaxHops \in Nat /\ MaxHops >= 3
  BY DEF SoundLibrary
<1>1. IsThunk(image, r, << >>) <=> r \in image.code \cap DOMAIN image.jumps
  BY <1>0 DEF IsThunk
<1>2. CASE ~ IsThunk(image, r, << >>)
  <2>1. thunk = [k |-> "none"]
    BY <1>2 DEF Thunk
  <2>2. ~ Jumps(Spot(d, r))
    BY <1>1, <1>2 DEF Jumps, Spot
  <2>3. Hop(Spot(d, r)) = Spot(d, r) /\ m \in 0 .. Horizon
    BY <2>2, HopOfRest
  <2>4. Trail(first)[Horizon] = Spot(d, r)
    BY <2>3, TrailRests
  <2>5. QED
    BY <2>1, <2>4
<1>3. CASE IsThunk(image, r, << >>) /\ ~ GoesOn(image, r, << >>)
  <2>1. thunk = Link(image, r) /\ thunk.k \in {"import", "direct", "unresolved"}
    BY <1>3 DEF Thunk, Link
  <2>2. m \in 0 .. Horizon - 1 /\ r \in image.code \cap DOMAIN image.jumps
    BY <1>1, <1>3
  <2>3. CASE image.jumps[r].k # "jmp"
    <3>1. EndsAfter(first, m, d, Link(image, r))
      BY <2>2, <2>3, LinkOfSlot
    <3>2. QED
      BY <2>1, <3>1
  <2>4. CASE image.jumps[r].k = "jmp"
    <3>1. to \in image.backed => to = r \/ to \notin image.code \cap DOMAIN image.jumps
      <4>1. Len(Append(<< >>, r)) = 1 /\ \A n \in DOMAIN Append(<< >>, r) : Append(<< >>, r)[n] = r
        OBVIOUS
      <4>2. QED
        BY <1>0, <1>3, <2>4, <4>1 DEF GoesOn, IsThunk
    <3>2. EndsAfter(first, m, d, Link(image, r))
      BY <2>2, <2>4, <3>1, LinkOfJmp
    <3>3. QED
      BY <2>1, <3>2
  <2>5. QED
    BY <2>3, <2>4
<1>4. CASE IsThunk(image, r, << >>) /\ GoesOn(image, r, << >>)
  <2>1. thunk = [k |-> "chain", final |-> IF GoesOn(image, to, <<r>>) THEN [k |-> "chain"] ELSE Link(image, to)]
    BY <1>4 DEF Thunk
  <2>2. CASE GoesOn(image, to, <<r>>)
    BY <2>1, <2>2
  <2>3. CASE ~ GoesOn(image, to, <<r>>)
    <3>1. /\ r \in image.code \cap DOMAIN image.jumps /\ image.jumps[r].k = "jmp"
          /\ to \in image.code \cap DOMAIN image.jumps
      BY <1>1, <1>4 DEF GoesOn, IsThunk
    <3>2. Trail(first)[m + 1] = Spot(d, to) /\ m + 1 \in 0 .. Horizon - 1
      <4>1. m \in 0 .. Horizon - 1
        OBVIOUS
      <4>2. QED
        BY <3>1, <4>1, TrailHops, HopOfJmp
    <3>3. EndsAfter(first, m + 1, d, Link(image, to))
      <4>1. CASE image.jumps[to].k # "jmp"
        BY <3>1, <3>2, <4>1, LinkOfSlot
      <4>2. CASE image.jumps[to].k = "jmp"
        <5> DEFINE next == image.jumps[to].to
        <5>1. next \in image.backed => next \in {r, to} \/ next \notin image.code \cap DOMAIN image.jumps
          <6>1. Len(Append(<<r>>, to)) = 2 /\ \A n \in DOMAIN Append(<<r>>, to) : Append(<<r>>, to)[n] \in {r, to}
            OBVIOUS
          <6>2. next \in image.backed => ~ IsThunk(image, next, Append(<<r>>, to))
            BY <2>3, <4>2 DEF GoesOn
          <6>3. QED
            BY <1>0, <6>1, <6>2 DEF IsThunk
        <5>2. QED
          BY <3>1, <3>2, <4>2, <5>1, LinkOfJmp
      <4>3. QED
        BY <4>1, <4>2
    <3>4. thunk.k = "chain" /\ thunk.final = Link(image, to)
      BY <2>1, <2>3
    <3>5. QED
      BY <3>3, <3>4
  <2>4. QED
    BY <2>2, <2>3
<1>5. QED
  BY <1>2, <1>3, <1>4

-----------------------------------------------------------------------------
(* The invariant of a dump.                                                 *)

Imported(d) == {Library[d].slots[s].func : s \in DOMAIN Library[d].slots}
Dumps ==
  [dll : DOMAIN Library, folded : {Library[d].folded : d \in DOMAIN Library},
   func : {r.func : r \in DumpRequests} \cup {r.behind : r \in DumpRequests}
          \cup UNION {Imported(d) : d \in DOMAIN Library}]

DumpTyped ==
  /\ wanted \in DumpRequests
  /\ phase \in {"enter", "describe", "resolve", "show", "report", "end"}
  /\ verdict \in {"running", "ok", "error"} /\ (phase = "end" <=> verdict # "running")
  /\ chain \in Seq(Dumps) /\ Len(chain) <= MaxChain
  /\ target = [rva |-> target.rva, name |-> target.name]
  /\ phase = "enter" => chain = << >>
  /\ phase \notin {"enter", "end"} \/ verdict = "ok" => chain # << >>
  /\ phase \in {"resolve", "show", "report"} => ~ OnlyMetadata

\* Until the command ends it has written nothing but text, with --json not even that.
TextWritten ==
  /\ verdict # "ok" => out \in {<< >>, <<"text">>}
  /\ verdict = "running" /\ wanted.json /\ ~ wanted.eat => out = << >>

\* The trail comes to p before the last image of the chain is left.
Comes(p) == \E m \in 0 .. 2 * (Len(chain) - 1) : Trail(First)[m] = p
Endless == Jumps(Landed)
Plain ==
  /\ chain # << >> /\ verdict # "error" /\ ~ OnlyMetadata
  /\ wanted.follow /\ wanted.at = NoAddress /\ wanted.ordinal = 0
  /\ \A n \in DOMAIN chain :
       n < Len(chain) \/ phase \in {"show", "report"} \/ verdict = "ok" => ~ Nested(n)

\* An image is entered at the function that the import names, its jump is on the
\* trail, and what is reported is where the trail ends.
Entered ==
  LET e == FirstNamed(Image.exports, Current.func.n)
  IN Current.func.k = "name" /\ e # 0 /\ Comes(Spot(Current.dll, Image.exports[e].rva))
OnTrail ==
  /\ phase \in {"describe", "resolve"} /\ Len(chain) > 1 => Entered
  /\ phase = "show" =>
       target.rva = Answered(Len(chain)).rva /\ Comes(Spot(Current.dll, target.rva))
  /\ phase = "report" => Spot(Current.dll, target.rva) = Landed
  /\ verdict = "ok" /\ shown.rva \in Library[shown.dll].code =>
       Spot(shown.dll, shown.rva) = Landed

DumpInv == DumpTyped /\ TextWritten /\ (Plain => OnTrail \/ Endless)

LEMMA ImportsAreDumps ==
  ASSUME NEW d \in DOMAIN Library, NEW s \in DOMAIN Library[d].slots, NEW to, to = Library[d].slots[s],
         to.dll \in DOMAIN Library
  PROVE  [dll |-> to.dll, func |-> to.func, folded |-> Library[to.dll].folded] \in Dumps
<1>1. to.func \in Imported(d)
  BY DEF Imported
<1> HIDE DEF Imported
<1>2. to.func \in UNION {Imported(c) : c \in DOMAIN Library}
  BY <1>1
<1>3. Library[to.dll].folded \in {Library[c].folded : c \in DOMAIN Library}
  OBVIOUS
<1>4. QED
  BY <1>2, <1>3 DEF Dumps

LEMMA Entering ==
  ASSUME SoundLibrary, DumpTyped, NEW dll, NEW func, Enter(dll, func),
         \A names : names = [dll |-> dll, func |-> func, folded |-> Library[dll].folded]
                     /\ dll \in DOMAIN Library => names \in Dumps
  PROVE  \/ phase' = "end" /\ verdict' = "error" /\ chain' = chain
         \/ /\ phase' = "describe" /\ verdict' = verdict /\ dll \in DOMAIN Library
            /\ chain' \in Seq(Dumps) /\ Len(chain') = Len(chain) + 1 /\ Len(chain') <= MaxChain
            /\ chain'[Len(chain')] = [dll |-> dll, func |-> func, folded |-> Library[dll].folded]
            /\ \A n \in DOMAIN chain : chain'[n] = chain[n]
<1> DEFINE entry == [dll |-> dll, func |-> func, folded |-> Library[dll].folded]
<1>1. CASE dll \notin DOMAIN Library \/ EntersAgain(dll, func)
  BY <1>1 DEF Enter, Abort
<1>2. CASE dll \in DOMAIN Library /\ ~ EntersAgain(dll, func)
  <2>1. chain' = Append(chain, entry) /\ phase' = "describe" /\ verdict' = verdict
    BY <1>2 DEF Enter, Goto
  <2>2. entry \in Dumps
    BY <1>2
  <2>3. chain \in Seq(Dumps) /\ ~ Len(chain) >= MaxChain
    BY <1>2 DEF EntersAgain, DumpTyped
  <2> HIDE DEF entry
  <2>4. /\ chain' \in Seq(Dumps) /\ Len(chain') = Len(chain) + 1 /\ chain'[Len(chain')] = entry
        /\ \A n \in DOMAIN chain : chain'[n] = chain[n]
    BY <2>1, <2>2, <2>3
  <2>5. Len(chain') <= MaxChain
    BY <2>3, <2>4 DEF SoundLibrary
  <2>6. QED
    BY <1>2, <2>1, <2>4, <2>5 DEF entry
<1>3. QED
  BY <1>1, <1>2

\* The link of a thunk that is followed.
LastLink(thunk) == IF thunk.k = "chain" THEN thunk.final ELSE thunk

LEMMA LinksOfThunks ==
  ASSUME NEW image, NEW r
  PROVE  LastLink(Thunk(image, r)).k \in {"import", "direct", "none", "unresolved", "chain"}
<1>1. \A a : Link(image, a).k \in {"import", "direct", "unresolved"}
  BY DEF Link
<1> DEFINE next == image.jumps[r].to
<1>2. \/ Thunk(image, r) = [k |-> "none"]
      \/ Thunk(image, r) = Link(image, r)
      \/ Thunk(image, r) = [k |-> "chain", final |-> [k |-> "chain"]]
      \/ Thunk(image, r) = [k |-> "chain", final |-> Link(image, next)]
  BY DEF Thunk
<1> HIDE DEF next
<1>3. QED
  BY <1>1, <1>2 DEF LastLink

LEMMA ResultsFollowed ==
  ASSUME NEW thunk, LastLink(thunk).k \in {"import", "direct", "none", "unresolved", "chain"},
         FollowResult(thunk)
  PROVE  \/ LastLink(thunk).k = "import" /\ Into(LastLink(thunk).to)
         \/ LastLink(thunk).k = "direct" /\ Moved(LastLink(thunk).to)
         \/ /\ LastLink(thunk).k \in {"none", "unresolved", "chain"}
            /\ Goto("report") /\ UNCHANGED <<chain, target>>
<1> DEFINE last == LastLink(thunk)
<1>1. (CASE last.k = "import" -> Into(last.to)
         [] last.k = "direct" -> Moved(last.to)
         [] last.k \in {"none", "unresolved", "chain"} -> Goto("report") /\ UNCHANGED <<chain, target>>)
  BY DEF FollowResult, LastLink
<1> HIDE DEF last
<1>2. CASE last.k = "import"
  BY <1>1, <1>2 DEF last
<1>3. CASE last.k = "direct"
  BY <1>1, <1>3 DEF last
<1>4. CASE last.k \in {"none", "unresolved", "chain"}
  BY <1>1, <1>4 DEF last
<1>5. QED
  BY <1>2, <1>3, <1>4 DEF last

LEMMA ThunkImports ==
  ASSUME NEW image, NEW r,
         LastLink(Thunk(image, r)).k = "import"
  PROVE  \E s \in DOMAIN image.slots : LastLink(Thunk(image, r)).to = image.slots[s]
<1>1. \A a : Link(image, a).k = "import" =>
               image.jumps[a].to \in DOMAIN image.slots /\ Link(image, a).to = image.slots[image.jumps[a].to]
  BY DEF Link
<1>2. \A a : Link(image, a).k # "chain"
  BY DEF Link
<1> DEFINE next == image.jumps[r].to
<1>3. \/ Thunk(image, r) = [k |-> "none"]
      \/ Thunk(image, r) = Link(image, r)
      \/ Thunk(image, r) = [k |-> "chain", final |-> [k |-> "chain"]]
      \/ Thunk(image, r) = [k |-> "chain", final |-> Link(image, next)]
  BY DEF Thunk
<1> HIDE DEF next
<1>4. QED
  BY <1>1, <1>2, <1>3 DEF LastLink

LEMMA DumpTypedNext == SoundLibrary /\ DumpTyped /\ DumpNext => DumpTyped'
<1> SUFFICES ASSUME SoundLibrary, DumpTyped, DumpNext PROVE DumpTyped'
  OBVIOUS
<1>1. CASE Start
  <2> DEFINE func == IF wanted.func.k = "none" THEN wanted.behind ELSE wanted.func
  <2>1. phase = "enter" /\ chain = << >> /\ verdict = "running" /\ wanted' = wanted /\ target' = target
    BY <1>1 DEF Start, DumpTyped
  <2>2. CASE func.k = "missing"
    BY <1>1, <2>1, <2>2 DEF Start, DumpTyped, Abort
  <2>3. CASE func.k # "missing"
    <3>1. Enter(wanted.dll, func)
      BY <1>1, <2>3 DEF Start
    <3>2. \A e : e = [dll |-> wanted.dll, func |-> func, folded |-> Library[wanted.dll].folded]
                  /\ wanted.dll \in DOMAIN Library => e \in Dumps
      BY DEF DumpTyped, Dumps
    <3> HIDE DEF func
    <3>3. \/ phase' = "end" /\ verdict' = "error" /\ chain' = chain
          \/ /\ phase' = "describe" /\ verdict' = verdict
             /\ chain' \in Seq(Dumps) /\ Len(chain') = Len(chain) + 1 /\ Len(chain') <= MaxChain
      BY <3>1, <3>2, Entering
    <3>4. chain' # << >> \/ phase' = "end"
      <4>1. Len(chain) = 0
        BY <2>1
      <4>2. CASE Len(chain') = Len(chain) + 1
        <5>1. Len(chain') = 1
          BY <4>1, <4>2
        <5>2. QED
          BY <5>1
      <4>3. QED
        BY <3>3, <4>2
    <3>5. QED
      BY <2>1, <3>3, <3>4 DEF DumpTyped
  <2>4. QED
    BY <2>2, <2>3
<1>2. CASE Describe
  BY <1>2 DEF Describe, DumpTyped, Goto, OnlyMetadata, Current
<1>3. CASE ResolveTarget
  <2>1. phase = "resolve" /\ UNCHANGED <<wanted, chain>>
    BY <1>3 DEF ResolveTarget
  <2>2. \/ phase' = "show" /\ verdict' = verdict /\ target' = [rva |-> target'.rva, name |-> target'.name]
        \/ phase' = "end" /\ verdict' = "error" /\ target' = target
    BY <1>3 DEF ResolveTarget, Goto, Abort
  <2>3. QED
    BY <2>1, <2>2 DEF DumpTyped, OnlyMetadata, Current
<1>4. CASE ShowOther
  <2>1. phase = "show" /\ UNCHANGED <<wanted, chain, target>>
    BY <1>4 DEF ShowOther
  <2>2. phase' = "end" /\ verdict' \in {"ok", "error"}
    BY <1>4 DEF ShowOther, Report, Abort
  <2>3. QED
    BY <2>1, <2>2 DEF DumpTyped, OnlyMetadata, Current
<1>5. CASE FollowThunk
  <2> DEFINE thunk == Thunk(Image, target.rva)
             last == LastLink(thunk)
  <2>1. phase = "show" /\ wanted' = wanted
    BY <1>5 DEF FollowThunk
  <2>2. CASE \/ phase' = "end" /\ verdict' = "error" /\ UNCHANGED <<chain, target>>
             \/ /\ phase' = "report" /\ UNCHANGED <<verdict, chain>>
                /\ target' = [rva |-> target'.rva, name |-> target'.name]
    BY <2>1, <2>2 DEF DumpTyped, OnlyMetadata, Current
  <2>3. CASE last.k = "import" /\ Into(last.to)
    <3>1. chain # << >> /\ chain \in Seq(Dumps) /\ Current \in Dumps
      BY <2>1 DEF DumpTyped, Current
    <3>2. PICK s \in DOMAIN Image.slots : last.to = Image.slots[s]
      BY <2>3, ThunkImports
    <3>3. \A e : e = [dll |-> last.to.dll, func |-> last.to.func, folded |-> Library[last.to.dll].folded]
                  /\ last.to.dll \in DOMAIN Library => e \in Dumps
      <4>1. Current.dll \in DOMAIN Library
        BY <3>1 DEF Dumps
      <4>2. QED
        BY <3>2, <4>1, ImportsAreDumps DEF Image
    <3>4. Enter(last.to.dll, last.to.func) /\ target' = NoTarget
      BY <2>3 DEF Into
    <3> HIDE DEF last
    <3>5. \/ phase' = "end" /\ verdict' = "error" /\ chain' = chain
          \/ /\ phase' = "describe" /\ verdict' = verdict
             /\ chain' \in Seq(Dumps) /\ Len(chain') = Len(chain) + 1 /\ Len(chain') <= MaxChain
      BY <3>3, <3>4, Entering
    <3>6. target' = [rva |-> target'.rva, name |-> target'.name]
      BY <3>4 DEF NoTarget
    <3>7. QED
      BY <2>1, <3>1, <3>5, <3>6 DEF DumpTyped
  <2>4. QED
    <3>1. CASE last.k = "direct" /\ Moved(last.to)
      BY <2>1, <2>2, <3>1 DEF Moved, Abort, Goto, DumpTyped
    <3>2. CASE Goto("report") /\ UNCHANGED <<chain, target>>
      BY <2>2, <3>2 DEF Goto, DumpTyped
    <3>3. CASE Abort /\ UNCHANGED <<chain, target>>
      BY <2>2, <3>3 DEF Abort
    <3>4. ASSUME FollowResult(thunk)
          PROVE  \/ last.k = "import" /\ Into(last.to)
                 \/ last.k = "direct" /\ Moved(last.to)
                 \/ Goto("report") /\ UNCHANGED <<chain, target>>
      <4>1. last.k \in {"import", "direct", "none", "unresolved", "chain"}
        BY LinksOfThunks
      <4> HIDE DEF thunk
      <4>2. QED
        BY <3>4, <4>1, ResultsFollowed
    <3>5. QED
      BY <1>5, <2>3, <3>1, <3>2, <3>3, <3>4 DEF FollowThunk
<1>6. CASE ReportFunction
  <2>1. phase = "report" /\ UNCHANGED <<wanted, chain, target>>
    BY <1>6 DEF ReportFunction
  <2>2. phase' = "end" /\ verdict' \in {"ok", "error"}
    BY <1>6 DEF ReportFunction, Report, Abort
  <2>3. QED
    BY <2>1, <2>2 DEF DumpTyped, OnlyMetadata, Current
<1>7. QED
  BY <1>1, <1>2, <1>3, <1>4, <1>5, <1>6 DEF DumpNext

\* One report, in the form asked for.
Reported ==
  verdict = "ok" =>
    /\ wanted.json /\ ~ wanted.eat => out = <<"json">>
    /\ wanted.json \/ out = <<"text">> \/ OnlyMetadata

LEMMA Texts ==
  ASSUME out \in {<< >>, <<"text">>}
  PROVE  /\ out = << >> => Append(out, "text") = <<"text">> /\ Append(out, "json") = <<"json">>
         /\ out = <<"text">> => out # << >> /\ out[Len(out)] = "text"
<1>1. CASE out = << >>
  <2>1. Append(out, "text") = <<"text">> /\ Append(out, "json") = <<"json">>
    BY <1>1
  <2>2. << >> # <<"text">>
    OBVIOUS
  <2>3. QED
    BY <1>1, <2>1, <2>2
<1>2. CASE out = <<"text">>
  <2>1. out # << >> /\ out[Len(out)] = "text"
    BY <1>2
  <2>2. QED
    BY <1>2, <2>1
<1>3. QED
  BY <1>1, <1>2

LEMMA ReportIsOne ==
  ASSUME TextWritten, verdict = "running", wanted' = wanted, Report
  PROVE  TextWritten' /\ Reported'
<1>1. verdict' = "ok" /\ out' = Says(IF wanted.json THEN "json" ELSE "text", TRUE)
  BY DEF Report, Document
<1>2. out \in {<< >>, <<"text">>}
  BY DEF TextWritten
<1>3. CASE wanted.json
  <2>1. wanted.json /\ ~ wanted.eat => out' = <<"json">>
    BY <1>1, <1>2, <1>3, Texts DEF TextWritten, Says
  <2>2. QED
    BY <1>1, <1>3, <2>1 DEF TextWritten, Reported
<1>4. CASE ~ wanted.json
  <2>1. out' = <<"text">>
    BY <1>1, <1>2, <1>4, Texts DEF Says
  <2>2. QED
    BY <1>1, <1>4, <2>1 DEF TextWritten, Reported
<1>5. QED
  BY <1>3, <1>4

\* A step that writes text, or nothing, and does not end well.
LEMMA TextOnly ==
  ASSUME TextWritten, verdict = "running", wanted' = wanted, verdict' \in {"running", "error"},
         out' \in {out, <<"text">>}, verdict' = "running" /\ wanted.json /\ ~ wanted.eat => out' = out
  PROVE  TextWritten' /\ Reported'
BY DEF TextWritten, Reported

LEMMA WrittenNext ==
  ASSUME DumpTyped, DumpNext, TextWritten
  PROVE  TextWritten' /\ Reported'
<1>0. (phase # "end" => verdict = "running") /\ wanted' = wanted
  BY DEF DumpTyped, DumpNext, Start, Describe, ResolveTarget, ShowOther, FollowThunk, ReportFunction
<1>1. ASSUME verdict = "running"
      PROVE  out \in {<< >>, <<"text">>} /\ \A when \in BOOLEAN : Says("text", when) \in {out, <<"text">>}
  BY <1>1, Texts DEF TextWritten, Says
<1>2. CASE Start
  <2>1. phase = "enter" /\ out' = out /\ verdict' \in {verdict, "error"}
    BY <1>2 DEF Start, Enter, Goto, Abort
  <2>2. QED
    BY <1>0, <2>1, TextOnly
<1>3. CASE Describe
  <2>1. phase = "describe" /\ verdict = "running"
    BY <1>0, <1>3 DEF Describe
  <2>2. CASE OnlyMetadata
    <3> DEFINE table == Says("text", Tables)
    <3>1. verdict' = "ok" /\ out' = IF wanted.json THEN Append(table, "json") ELSE table
      BY <1>3, <2>2 DEF Describe
    <3>2. OnlyMetadata'
      BY <1>0, <1>3, <2>2 DEF Describe, OnlyMetadata, Current
    <3>3. wanted.json /\ ~ wanted.eat => table = out /\ out = << >>
      BY <2>1 DEF Tables, Says, TextWritten
    <3> HIDE DEF table
    <3>4. wanted.json /\ ~ wanted.eat => out' = <<"json">>
      BY <1>1, <2>1, <3>1, <3>3, Texts
    <3>5. QED
      BY <1>0, <3>1, <3>2, <3>4 DEF TextWritten, Reported
  <2>3. CASE ~ OnlyMetadata
    <3>1. verdict' = verdict /\ out' = Says("text", Tables)
      BY <1>3, <2>3 DEF Describe, Goto
    <3>2. out' \in {out, <<"text">>}
      <4>1. Tables \in BOOLEAN
        BY DEF Tables
      <4>2. QED
        BY <1>1, <2>1, <3>1, <4>1
    <3>3. wanted.json /\ ~ wanted.eat => out' = out
      BY <3>1 DEF Tables, Says
    <3>4. QED
      BY <1>0, <2>1, <3>1, <3>2, <3>3, TextOnly
  <2>4. QED
    BY <2>2, <2>3
<1>4. CASE ResolveTarget
  <2> DEFINE answer == ResolveFunction(Image, Current.func)
  <2>1. phase = "resolve" /\ verdict = "running"
    BY <1>0, <1>4 DEF ResolveTarget
  <2>2. /\ out' = Says("text", answer.k = "unknown" \/ (answer.k = "found" /\ ~ wanted.json))
        /\ verdict' = IF answer.k = "found" THEN verdict ELSE "error"
    BY <1>4 DEF ResolveTarget, Goto, Abort
  <2> HIDE DEF answer
  <2>3. out' \in {out, <<"text">>}
    BY <1>1, <2>1, <2>2
  <2>4. verdict' = "running" /\ wanted.json => out' = out
    BY <2>2 DEF Says
  <2>5. QED
    BY <1>0, <2>1, <2>2, <2>3, <2>4, TextOnly
<1>5. CASE ShowOther
  <2>1. phase = "show" /\ (Report \/ (verdict' = "error" /\ out' = out))
    BY <1>5 DEF ShowOther, Abort
  <2>2. QED
    BY <1>0, <2>1, ReportIsOne, TextOnly
<1>6. CASE FollowThunk
  <2> DEFINE thunk == Thunk(Image, target.rva)
  <2>1. phase = "show" /\ verdict = "running"
    BY <1>0, <1>6 DEF FollowThunk
  <2>2. verdict' \in {"running", "error"}
    <3>1. CASE Abort
      BY <3>1 DEF Abort
    <3>2. CASE Goto("report")
      BY <2>1, <3>2 DEF Goto
    <3>3. ASSUME FollowResult(thunk)
          PROVE  verdict' \in {"running", "error"}
      <4>1. LastLink(thunk).k \in {"import", "direct", "none", "unresolved", "chain"}
        BY LinksOfThunks
      <4> HIDE DEF thunk
      <4>2. \/ Into(LastLink(thunk).to) \/ Moved(LastLink(thunk).to) \/ Goto("report")
        BY <3>3, <4>1, ResultsFollowed
      <4>3. QED
        BY <2>1, <4>2 DEF Into, Enter, Moved, Goto, Abort
    <3>4. QED
      BY <1>6, <3>1, <3>2, <3>3 DEF FollowThunk
  <2>3. out' \in {out, Says("text", wanted.follow /\ thunk.k # "none" /\ ~ wanted.json)}
    BY <1>6 DEF FollowThunk
  <2> HIDE DEF thunk
  <2>4. out' \in {out, <<"text">>}
    BY <1>1, <2>1, <2>3
  <2>5. wanted.json => out' = out
    BY <2>3 DEF Says
  <2>6. QED
    BY <1>0, <2>1, <2>2, <2>4, <2>5, TextOnly
<1>7. CASE ReportFunction
  <2>1. phase = "report" /\ (Report \/ (verdict' = "error" /\ out' = out))
    BY <1>7 DEF ReportFunction, Abort
  <2>2. QED
    BY <1>0, <2>1, ReportIsOne, TextOnly
<1>8. QED
  BY <1>2, <1>3, <1>4, <1>5, <1>6, <1>7 DEF DumpNext

-----------------------------------------------------------------------------
(* The trail, step by step.                                                 *)

LEMMA AnsweredStays ==
  ASSUME wanted' = wanted, wanted.ordinal = 0, NEW n, chain'[n] = chain[n]
  PROVE  Answered(n)' = Answered(n)
<1>1. ~ wanted.ordinal > 0
  OBVIOUS
<1>2. QED
  BY <1>1 DEF Answered, ResolveFunction, ByName, ByExport

LEMMA TrailKept ==
  ASSUME wanted' = wanted, wanted.ordinal = 0, chain'[1] = chain[1]
  PROVE  First' = First /\ Landed' = Landed /\ (Endless' <=> Endless)
<1>1. Answered(1)' = Answered(1)
  BY AnsweredStays
<1>2. First' = First
  BY <1>1 DEF First
<1>3. Landed' = Landed
  BY <1>2 DEF Landed
<1>4. QED
  BY <1>2, <1>3 DEF Endless

\* What a step relies on was true before it.
LEMMA PlainBefore ==
  ASSUME DumpTyped, phase \in {"describe", "resolve", "show", "report"}, wanted' = wanted, Plain',
         ~ OnlyMetadata, \A n \in DOMAIN chain : n \in DOMAIN chain' /\ chain'[n] = chain[n],
         \/ Len(chain') = Len(chain) + 1
         \/ /\ Len(chain') = Len(chain)
            /\ phase \in {"show", "report"} => phase' \in {"show", "report"} \/ verdict' = "ok"
  PROVE  Plain /\ First' = First /\ (Endless' <=> Endless)
<1>1. verdict = "running" /\ chain # << >> /\ chain \in Seq(Dumps)
  BY DEF DumpTyped
<1>2. wanted.follow /\ wanted.at = NoAddress /\ wanted.ordinal = 0
  BY DEF Plain
<1>3. ASSUME NEW n \in DOMAIN chain, n < Len(chain) \/ phase \in {"show", "report"}
      PROVE  ~ Nested(n)
  <2>1. n \in DOMAIN chain' /\ (n < Len(chain') \/ phase' \in {"show", "report"} \/ verdict' = "ok")
    BY <1>1, <1>3
  <2>2. ~ Nested(n)'
    BY <2>1 DEF Plain
  <2>3. Answered(n)' = Answered(n)
    BY <1>2, AnsweredStays
  <2>4. QED
    BY <2>2, <2>3 DEF Nested
<1>4. Plain
  BY <1>1, <1>2, <1>3 DEF Plain
<1>5. chain'[1] = chain[1]
  BY <1>1
<1>6. QED
  BY <1>2, <1>4, <1>5, TrailKept

LEMMA HorizonIsFar ==
  ASSUME SoundLibrary
  PROVE  Horizon \in Nat /\ 2 * MaxChain <= Horizon
<1>1. MaxChain \in Nat /\ MaxHops \in Nat /\ MaxHops >= 3
  BY DEF SoundLibrary
<1>2. PICK k \in Nat : MaxHops = k + 2
  <2>1. MaxHops - 2 \in Nat /\ MaxHops = (MaxHops - 2) + 2
    BY <1>1
  <2>2. QED
    BY <2>1
<1>3. MaxChain * MaxHops = MaxChain * k + 2 * MaxChain /\ MaxChain * k \in Nat
  BY <1>1, <1>2
<1>4. QED
  BY <1>1, <1>3 DEF Horizon

\* The step that ends well, anywhere.
LEMMA ReportOnTrail ==
  ASSUME Report, UNCHANGED <<wanted, chain, target>>,
         target.rva \in Image.code => Spot(Current.dll, target.rva) = Landed \/ Endless,
         wanted.ordinal = 0
  PROVE  OnTrail' \/ Endless'
<1>1. /\ phase' = "end" /\ verdict' = "ok"
      /\ shown'.dll = Current.dll /\ shown'.rva = target.rva
  BY DEF Report, Show
<1>2. Landed' = Landed /\ (Endless' <=> Endless)
  BY TrailKept
<1>3. shown'.rva \in Library[shown'.dll].code => Spot(shown'.dll, shown'.rva) = Landed \/ Endless
  BY <1>1 DEF Image
<1>4. QED
  BY <1>1, <1>2, <1>3 DEF OnTrail

LEMMA DescribeOnTrail ==
  ASSUME DumpTyped, Describe, Plain => OnTrail \/ Endless, Plain'
  PROVE  OnTrail' \/ Endless'
<1>1. phase = "describe" /\ UNCHANGED <<wanted, chain>>
  BY DEF Describe
<1>2. ~ OnlyMetadata
  BY <1>1 DEF Plain, OnlyMetadata, Current
<1>3. phase' = "resolve" /\ verdict' = verdict
  BY <1>2 DEF Describe, Goto
<1>4. Plain /\ First' = First /\ (Endless' <=> Endless)
  BY <1>1, <1>2, PlainBefore
<1>5. CASE OnTrail
  <2>1. Len(chain) > 1 => Entered
    BY <1>1, <1>5 DEF OnTrail
  <2>2. Len(chain') > 1 => Entered'
    BY <1>1, <1>4, <2>1 DEF Entered, Comes, Current, Image
  <2>3. verdict' # "ok"
    BY <1>1, <1>3 DEF DumpTyped
  <2>4. QED
    BY <1>3, <2>2, <2>3 DEF OnTrail
<1>6. QED
  BY <1>4, <1>5

LEMMA ResolveOnTrail ==
  ASSUME SoundLibrary, DumpTyped, ResolveTarget, Plain => OnTrail \/ Endless, Plain'
  PROVE  OnTrail' \/ Endless'
<1> DEFINE answer == ResolveFunction(Image, Current.func)
<1>1. phase = "resolve" /\ UNCHANGED <<wanted, chain>>
  BY DEF ResolveTarget
<1>2. ~ OnlyMetadata /\ chain # << >> /\ chain \in Seq(Dumps)
  BY <1>1 DEF DumpTyped
<1>3. verdict' # "error"
  BY DEF Plain
<1>4. phase' = "show" /\ verdict' = verdict /\ answer.k = "found" /\ target'.rva = answer.rva
  BY <1>3 DEF ResolveTarget, Goto, Abort
<1>5. Plain /\ First' = First /\ (Endless' <=> Endless)
  BY <1>1, <1>2, <1>4, PlainBefore
<1>6. answer = Answered(Len(chain))
  BY DEF Answered, Current, Image
<1>7. Answered(Len(chain))' = Answered(Len(chain))
  <2>1. wanted.ordinal = 0
    BY <1>5 DEF Plain
  <2>2. ASSUME NEW n, n = Len(chain) PROVE Answered(n)' = Answered(n)
    BY <1>1, <2>1, AnsweredStays
  <2>3. QED
    BY <1>1, <2>2 DEF Answered
<1> HIDE DEF answer
<1>8. CASE OnTrail
  <2>1. Comes(Spot(Current.dll, answer.rva))
    <3>1. CASE Len(chain) = 1
      <4>1. First = Spot(Current.dll, answer.rva)
        BY <1>6, <3>1 DEF First, Current
      <4>2. Trail(First)[0] = First
        BY HorizonIsFar, TrailHops
      <4>3. 0 \in 0 .. 2 * (Len(chain) - 1)
        BY <3>1
      <4>4. QED
        BY <4>1, <4>2, <4>3 DEF Comes
    <3>2. CASE Len(chain) > 1
      <4> DEFINE e == FirstNamed(Image.exports, Current.func.n)
      <4>1. Entered
        BY <1>1, <1>8, <3>2 DEF OnTrail
      <4>2. answer = ByExport(Image, Current.func.n)
        BY <1>5, <4>1 DEF Entered, Plain, ResolveFunction, ByName, answer
      <4>3. answer.rva = Image.exports[e].rva
        BY <1>4, <4>2 DEF ByExport, Answer, Failure
      <4>4. QED
        BY <4>1, <4>3 DEF Entered
    <3>3. Len(chain) \in Nat /\ Len(chain) # 0
      BY <1>2
    <3>4. Len(chain) = 1 \/ Len(chain) > 1
      <4>1. \A n \in Nat : n = 0 \/ n = 1 \/ n > 1
        OBVIOUS
      <4>2. QED
        BY <3>3, <4>1
    <3>5. QED
      BY <3>1, <3>2, <3>4
  <2>2. Comes(Spot(Current.dll, target.rva))'
    BY <1>1, <1>4, <1>5, <2>1 DEF Comes, Current
  <2>3. target'.rva = (Answered(Len(chain)).rva)'
    BY <1>4, <1>6, <1>7
  <2>4. verdict' # "ok"
    BY <1>1, <1>4 DEF DumpTyped
  <2>5. QED
    BY <1>4, <2>2, <2>3, <2>4 DEF OnTrail
<1>9. QED
  BY <1>5, <1>8

LEMMA ShowOnTrail ==
  ASSUME SoundLibrary, DumpTyped, ShowOther, Plain'
  PROVE  OnTrail' \/ Endless'
<1>1. phase = "show" /\ UNCHANGED <<wanted, chain, target>> /\ verdict' # "error" /\ wanted.ordinal = 0
  BY DEF ShowOther, Plain
<1>2. Report
  BY <1>1 DEF ShowOther, Abort
<1>3. Current.dll \in DOMAIN Library
  <2>1. chain # << >> /\ chain \in Seq(Dumps)
    BY <1>1 DEF DumpTyped
  <2>2. Current \in Dumps
    BY <2>1 DEF Current
  <2>3. QED
    BY <2>2 DEF Dumps
<1>4. 0 \notin Image.code /\ Image.code \cap DOMAIN Image.slots = {}
  BY <1>3 DEF SoundLibrary, Image
<1>5. target.rva \notin Image.code
  BY <1>4 DEF ShowOther, IsKmdf, IsSlot
<1>6. QED
  BY <1>1, <1>2, <1>5, ReportOnTrail

LEMMA FollowOnTrail ==
  ASSUME SoundLibrary, DumpTyped, FollowThunk, Plain => OnTrail \/ Endless, Plain'
  PROVE  OnTrail' \/ Endless'
<1> DEFINE d == Current.dll
           r == target.rva
           thunk == Thunk(Image, r)
           last == LastLink(thunk)
<1>1. phase = "show" /\ wanted' = wanted /\ verdict' # "error" /\ verdict = "running"
  BY DEF FollowThunk, Plain, DumpTyped
<1>2. ~ OnlyMetadata /\ chain # << >> /\ chain \in Seq(Dumps) /\ Len(chain) <= MaxChain
  BY <1>1 DEF DumpTyped
<1>3. Current \in Dumps /\ d \in DOMAIN Library
  <2>1. Current \in Dumps
    BY <1>2 DEF Current
  <2>2. QED
    BY <2>1 DEF Dumps
<1>4. wanted.follow
  BY <1>1 DEF Plain
<1>5. r \in Image.code /\ FollowResult(thunk)
  BY <1>1, <1>4 DEF FollowThunk, Abort
<1>6. \/ last.k = "import" /\ Into(last.to)
      \/ last.k = "direct" /\ Moved(last.to)
      \/ /\ last.k \in {"none", "unresolved", "chain"}
         /\ Goto("report") /\ UNCHANGED <<chain, target>>
  <2>1. last.k \in {"import", "direct", "none", "unresolved", "chain"}
    BY LinksOfThunks
  <2> HIDE DEF thunk
  <2>2. QED
    BY <1>5, <2>1, ResultsFollowed
<1>7. ASSUME last.k = "import"
      PROVE  /\ phase' = "describe" /\ verdict' = verdict
             /\ Len(chain') = Len(chain) + 1
             /\ chain'[Len(chain')] = [dll |-> last.to.dll, func |-> last.to.func, folded |-> Library[last.to.dll].folded]
             /\ \A n \in DOMAIN chain : n \in DOMAIN chain' /\ chain'[n] = chain[n]
             /\ last.to.func.k = "name"
  <2>1. PICK s \in DOMAIN Image.slots : last.to = Image.slots[s]
    BY <1>7, ThunkImports
  <2>2. \A e : e = [dll |-> last.to.dll, func |-> last.to.func, folded |-> Library[last.to.dll].folded]
                /\ last.to.dll \in DOMAIN Library => e \in Dumps
    BY <1>3, <2>1, ImportsAreDumps DEF Image
  <2>3. last.to.func.k = "name"
    BY <1>3, <2>1 DEF SoundLibrary, Image
  <2>4. Enter(last.to.dll, last.to.func)
    BY <1>6, <1>7 DEF Into
  <2> HIDE DEF last
  <2>5. /\ phase' = "describe" /\ verdict' = verdict
        /\ chain' \in Seq(Dumps) /\ Len(chain') = Len(chain) + 1
        /\ chain'[Len(chain')] = [dll |-> last.to.dll, func |-> last.to.func, folded |-> Library[last.to.dll].folded]
        /\ \A n \in DOMAIN chain : chain'[n] = chain[n]
    BY <1>1, <2>2, <2>4, Entering
  <2>6. \A n \in DOMAIN chain : n \in DOMAIN chain'
    BY <1>2, <2>5
  <2>7. QED
    BY <2>3, <2>5, <2>6
<1>8. ASSUME last.k # "import"
      PROVE  phase' = "report" /\ verdict' = verdict /\ chain' = chain
  BY <1>1, <1>6, <1>8 DEF Moved, Goto, Abort
<1>9. Plain /\ First' = First /\ (Endless' <=> Endless)
  <2>1. \A n \in DOMAIN chain : n \in DOMAIN chain' /\ chain'[n] = chain[n]
    BY <1>7, <1>8
  <2>2. Len(chain') = Len(chain) + 1 \/ (Len(chain') = Len(chain) /\ phase' \in {"show", "report"})
    BY <1>7, <1>8
  <2>3. QED
    BY <1>1, <1>2, <2>1, <2>2, PlainBefore
<1>10. CASE OnTrail
  <2>1. PICK m \in 0 .. 2 * (Len(chain) - 1) : Trail(First)[m] = Spot(d, r)
    BY <1>1, <1>10 DEF OnTrail, Comes
  <2>2. m \in Nat /\ m + 2 <= 2 * Len(chain) /\ m + 2 <= Horizon /\ Horizon \in Nat
    <3>1. Len(chain) \in Nat
      BY <1>2
    <3>2. m \in Nat /\ m + 2 <= 2 * Len(chain)
      BY <3>1
    <3>3. MaxChain \in Nat
      BY DEF SoundLibrary
    <3>4. QED
      BY <1>2, <3>1, <3>2, <3>3, HorizonIsFar
  <2>3. thunk.k = "chain" => thunk.final.k # "chain"
    <3>1. Len(chain) \in DOMAIN chain
      BY <1>2
    <3>2. ~ Nested(Len(chain))
      BY <1>1, <1>9, <3>1 DEF Plain
    <3>3. r = Answered(Len(chain)).rva
      BY <1>1, <1>10 DEF OnTrail
    <3>4. QED
      BY <3>2, <3>3 DEF Nested, Image, Current
  <2>4. /\ thunk.k = "none" => Landed = Spot(d, r)
        /\ thunk.k \in {"import", "direct", "unresolved"} => EndsAfter(First, m, d, thunk)
        /\ thunk.k = "chain" => EndsAfter(First, m + 1, d, thunk.final)
    BY <1>3, <1>5, <2>1, <2>2, <2>3, ThunkLeads DEF Landed, Horizon, Image
  <2>5. /\ thunk.k \in {"none", "import", "direct", "unresolved", "chain"}
        /\ thunk.k = "chain" => thunk.final.k \in {"import", "direct", "unresolved", "chain"}
    BY DEF Thunk, Link
  <2> HIDE DEF thunk
  <2>6. /\ last.k = "none" => Landed = Spot(d, r)
        /\ last.k # "chain"
        /\ last.k # "none" => \E o \in {m, m + 1} : EndsAfter(First, o, d, last)
    <3>1. CASE thunk.k = "chain"
      BY <2>3, <2>4, <2>5, <3>1 DEF LastLink
    <3>2. CASE thunk.k # "chain"
      BY <2>4, <2>5, <3>2 DEF LastLink
    <3>3. QED
      BY <3>1, <3>2
  <2>7. CASE last.k = "import"
    <3>0. PICK o \in {m, m + 1} : EndsAfter(First, o, d, last)
      BY <2>6, <2>7
    <3> DEFINE e == FirstNamed(Library[last.to.dll].exports, last.to.func.n)
    <3>1. Endless \/ (Exported(last.to) # 0 /\ Trail(First)[o + 1]
                        = Spot(last.to.dll, Library[last.to.dll].exports[Exported(last.to)].rva))
      BY <2>7, <3>0 DEF EndsAfter, Reaches, Endless, Landed, Horizon
    <3>2. CASE e # 0 /\ Trail(First)[o + 1] = Spot(last.to.dll, Library[last.to.dll].exports[e].rva)
      <4>1. Current' = [dll |-> last.to.dll, func |-> last.to.func, folded |-> Library[last.to.dll].folded]
        BY <1>7, <2>7 DEF Current
      <4>2. o + 1 \in 0 .. 2 * (Len(chain') - 1)
        <5>1. Len(chain) \in Nat
          BY <1>2
        <5>2. QED
          BY <1>7, <2>2, <2>7, <5>1
      <4> HIDE DEF last
      <4>3. LET f == FirstNamed(Library[Current'.dll].exports, Current'.func.n)
            IN f # 0 /\ Trail(First)[o + 1] = Spot(Current'.dll, Library[Current'.dll].exports[f].rva)
        BY <3>2, <4>1
      <4>4. Entered'
        BY <1>7, <1>9, <2>7, <4>1, <4>2, <4>3 DEF Entered, Comes, Image
      <4>5. QED
        BY <1>1, <1>7, <2>7, <4>4 DEF OnTrail
    <3>3. QED
      BY <1>9, <3>1, <3>2 DEF Exported
  <2>8. CASE last.k = "direct"
    <3>1. Moved(last.to)
      BY <1>6, <2>8
    <3>2. last.to \in Image.backed /\ target' = [target EXCEPT !.rva = last.to]
      BY <1>1, <3>1 DEF Moved, Abort
    <3>3. target'.rva = last.to
      BY <3>2 DEF DumpTyped
    <3>4. Endless \/ Landed = Spot(d, last.to)
      BY <2>6, <2>8, <3>2 DEF EndsAfter, Endless, Landed, Horizon, Image
    <3> HIDE DEF last
    <3>5. chain' = chain /\ phase' = "report" /\ verdict' = verdict
      BY <1>8, <2>8
    <3>6. Landed' = Landed
      BY <1>9 DEF Landed
    <3>7. QED
      BY <1>1, <1>9, <3>3, <3>4, <3>5, <3>6 DEF OnTrail, Current
  <2>9. CASE last.k \in {"none", "unresolved", "chain"}
    <3>1. target' = target /\ chain' = chain /\ phase' = "report" /\ verdict' = verdict
      BY <1>6, <1>8, <2>9
    <3>2. Endless \/ Landed = Spot(d, r)
      BY <2>6, <2>9 DEF EndsAfter, Endless, Landed, Horizon
    <3>3. Landed' = Landed
      BY <1>9 DEF Landed
    <3>4. QED
      BY <1>1, <1>9, <3>1, <3>2, <3>3 DEF OnTrail, Current
  <2>10. QED
    BY <1>6, <2>7, <2>8, <2>9
<1>11. QED
  BY <1>9, <1>10

LEMMA FunctionOnTrail ==
  ASSUME DumpTyped, ReportFunction, Plain => OnTrail \/ Endless, Plain'
  PROVE  OnTrail' \/ Endless'
<1>1. phase = "report" /\ UNCHANGED <<wanted, chain, target>> /\ verdict' # "error" /\ wanted.ordinal = 0
  BY DEF ReportFunction, Plain
<1>2. Report
  BY <1>1 DEF ReportFunction, Abort
<1>3. ~ OnlyMetadata /\ verdict' = "ok"
  BY <1>1, <1>2 DEF DumpTyped, Report
<1>4. Plain
  BY <1>1, <1>3, PlainBefore
<1>5. Spot(Current.dll, target.rva) = Landed \/ Endless
  BY <1>1, <1>4 DEF OnTrail
<1>6. QED
  BY <1>1, <1>2, <1>5, ReportOnTrail

LEMMA DumpInvInit == SoundLibrary /\ DumpInit => DumpInv
<1> SUFFICES ASSUME SoundLibrary, DumpInit PROVE DumpInv
  OBVIOUS
<1>1. << >> \in Seq(Dumps) /\ Len(<< >>) = 0
  OBVIOUS
<1>2. DumpTyped
  BY <1>1 DEF DumpInit, DumpTyped, NoTarget, SoundLibrary
<1>3. TextWritten /\ ~ Plain
  BY DEF DumpInit, TextWritten, Plain
<1>4. QED
  BY <1>2, <1>3 DEF DumpInv

LEMMA DumpInvNext == SoundLibrary /\ DumpInv /\ Reported /\ [DumpNext]_dumpVars => DumpInv' /\ Reported'
<1> SUFFICES ASSUME SoundLibrary, DumpInv, Reported, [DumpNext]_dumpVars PROVE DumpInv' /\ Reported'
  OBVIOUS
<1> USE DEF DumpInv
<1>1. CASE DumpNext
  <2>1. DumpTyped' /\ TextWritten' /\ Reported'
    BY <1>1, DumpTypedNext, WrittenNext
  <2>2. ASSUME Plain' PROVE OnTrail' \/ Endless'
    <3>1. CASE Start
      <4>1. phase = "enter" /\ chain = << >> /\ verdict' # "error"
        BY <2>2, <3>1 DEF Start, DumpTyped, Plain
      <4>2. PICK func : Enter(wanted.dll, func) /\ func = IF wanted.func.k = "none" THEN wanted.behind ELSE wanted.func
        BY <3>1, <4>1 DEF Start, Abort
      <4>3. phase' = "describe" /\ chain' = Append(chain, [dll |-> wanted.dll, func |-> func, folded |-> Library[wanted.dll].folded])
            /\ verdict' = verdict
        BY <4>1, <4>2 DEF Enter, Abort, Goto
      <4>4. Len(chain') = 1 /\ verdict = "running"
        BY <4>1, <4>3 DEF DumpTyped
      <4>5. QED
        BY <4>3, <4>4 DEF OnTrail
    <3>2. QED
      BY <1>1, <2>2, <3>1, DescribeOnTrail, ResolveOnTrail, ShowOnTrail, FollowOnTrail, FunctionOnTrail
         DEF DumpNext
  <2>3. QED
    BY <2>1, <2>2
<1>2. CASE UNCHANGED dumpVars
  <2>1. DumpTyped' /\ TextWritten' /\ Reported'
    BY <1>2 DEF dumpVars, DumpTyped, TextWritten, Reported, OnlyMetadata, Current
  <2>2. ASSUME Plain' PROVE OnTrail' \/ Endless'
    <3>1. wanted.ordinal = 0
      BY <1>2, <2>2 DEF Plain, dumpVars
    <3>2. \A n : Answered(n)' = Answered(n)
      BY <1>2, <3>1, AnsweredStays DEF dumpVars
    <3>3. First' = First /\ Landed' = Landed /\ (Endless' <=> Endless)
      BY <1>2, <3>1, TrailKept DEF dumpVars
    <3>4. Plain
      BY <1>2, <2>2, <3>2 DEF Plain, dumpVars, OnlyMetadata, Current, Nested
    <3>5. QED
      BY <1>2, <3>2, <3>3, <3>4 DEF OnTrail, dumpVars, Entered, Comes, Current, Image
  <2>3. QED
    BY <2>1, <2>2
<1>3. QED
  BY <1>1, <1>2

\* For any images, requests and limits: a dump of a named function ends where the
\* function's thunks lead, and what is written is one report in the form asked for.
THEOREM DumpsAreFaithful == ASSUME SoundLibrary PROVE DumpSpec => []DumpIsFaithful
<1>1. DumpInit => DumpInv /\ Reported
  BY DumpInvInit DEF DumpInit, Reported
<1>2. DumpInv /\ Reported => DumpIsFaithful
  <2> SUFFICES ASSUME DumpInv, Reported PROVE FollowsToDestination /\ OneDocument
    BY DEF DumpIsFaithful
  <2>1. OneDocument
    <3>1. verdict = "error" => \A n \in DOMAIN out : out[n] # "json"
      BY DEF DumpInv, TextWritten
    <3>2. QED
      BY <3>1 DEF Reported, OneDocument
  <2>2. FollowsToDestination
    <3> SUFFICES ASSUME verdict = "ok", wanted.follow, ~ OnlyMetadata, wanted.at = NoAddress, wanted.ordinal = 0,
                        shown.rva \in Library[shown.dll].code, \A n \in DOMAIN chain : ~ Nested(n), ~ Jumps(Landed)
                 PROVE  Spot(shown.dll, shown.rva) = Landed
      BY DEF FollowsToDestination
    <3>1. chain # << >>
      BY DEF DumpInv, DumpTyped
    <3>2. Plain
      BY <3>1 DEF Plain
    <3>3. QED
      BY <3>2 DEF DumpInv, OnTrail, Endless
  <2>3. QED
    BY <2>1, <2>2
<1>3. QED
  BY <1>1, <1>2, DumpInvNext, PTL DEF DumpSpec

===============================================================================
