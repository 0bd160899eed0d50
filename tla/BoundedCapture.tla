--------------------------- MODULE BoundedCapture ---------------------------
(***************************************************************************)
(* Bounded collection of the output of an external analyzer (capture in    *)
(* resx/src/core/process.rs): RESX starts a child with two pipes, collects *)
(* what it writes under one byte budget for both and one wall-clock        *)
(* budget, and kills and reaps the child when either is exceeded.          *)
(*                                                                         *)
(* The child is any program.  It writes to either pipe, a pipe that is     *)
(* full stops the writer, it may start a process that inherits the pipes   *)
(* and outlives it, it may exit at any moment and it may never exit.       *)
(* Bytes are counted, not told apart.  PeekNamedPipe and ReadFile are one  *)
(* step each: writers may come between them.  TerminateProcess and the     *)
(* wait after it are taken to succeed on the owned handle; a process that  *)
(* is being terminated is gone only some time later.                       *)
(***************************************************************************)
EXTENDS Integers

CONSTANTS
  Limit,     \* the output budget
  Capacity,  \* what a pipe holds before its writer stops
  Volume     \* bound on what is written to one pipe

ASSUME LimitAssumption == Limit \in Nat
ASSUME CapacityAssumption == Capacity \in Nat \ {0}
ASSUME VolumeAssumption == Volume \in Nat

VARIABLES
  child,      \* the process that was launched
  inherited,  \* another process holds the write ends of the pipes
  written,    \* bytes written to each pipe so far
  atExit,     \* bytes written to each pipe when the child exited (history)
  expired,    \* the wall-clock budget is used up
  pc,         \* the step capture is at
  final,      \* the drains are those after the child's exit
  available,  \* what the last PeekNamedPipe reported
  got,        \* bytes collected from each pipe
  remaining   \* output budget left

procs == <<child, inherited, written, atExit, expired>>
vars == <<child, inherited, written, atExit, expired,
          pc, final, available, got, remaining>>

-----------------------------------------------------------------------------

Pipes == {"stdout", "stderr"}

InPipe(p) == written[p] - got[p]

Init ==
  /\ child = "running" /\ inherited = FALSE
  /\ written = [p \in Pipes |-> 0] /\ atExit = [p \in Pipes |-> 0]
  /\ expired = FALSE
  /\ pc = "peek_stdout" /\ final = FALSE
  /\ available = 0
  /\ got = [p \in Pipes |-> 0]
  /\ remaining = Limit

-----------------------------------------------------------------------------
(* The child, its descendants and the clock.                                *)

capture == <<pc, final, available, got, remaining>>

\* Somebody who holds the write end writes one unit.
Write(p) ==
  /\ child = "running" \/ inherited
  /\ written[p] < Volume
  /\ InPipe(p) < Capacity
  /\ written' = [written EXCEPT ![p] = @ + 1]
  /\ UNCHANGED <<child, inherited, atExit, expired, capture>>

StartDescendant ==
  /\ child = "running" /\ ~inherited
  /\ inherited' = TRUE
  /\ UNCHANGED <<child, written, atExit, expired, capture>>

DescendantExits ==
  /\ inherited
  /\ inherited' = FALSE
  /\ UNCHANGED <<child, written, atExit, expired, capture>>

ChildExits ==
  /\ child = "running"
  /\ child' = "exited"
  /\ atExit' = written
  /\ UNCHANGED <<inherited, written, expired, capture>>

\* The end of a process that TerminateProcess was called on.
ChildDies ==
  /\ child = "dying"
  /\ child' = "killed"
  /\ UNCHANGED <<inherited, written, atExit, expired, capture>>

Gone == child \in {"exited", "killed"}

Expire ==
  /\ ~expired
  /\ expired' = TRUE
  /\ UNCHANGED <<child, inherited, written, atExit, capture>>

-----------------------------------------------------------------------------
(* capture.                                                                 *)

PeekOf(p) == IF p = "stdout" THEN "peek_stdout" ELSE "peek_stderr"
ReadOf(p) == IF p = "stdout" THEN "read_stdout" ELSE "read_stderr"

\* Mutant: only standard output is drained until the child has exited.
AfterDrainStdoutOnly(p) ==
  IF p = "stdout" THEN IF final THEN "peek_stderr" ELSE "try_wait"
                  ELSE "ok"

\* The step after a drain: stdout, then stderr, then the exit status, which
\* is known already when the drains are the final ones.
AfterDrain(p) ==
  IF p = "stdout" THEN "peek_stderr"
                  ELSE IF final THEN "ok" ELSE "try_wait"

\* Mutant: each pipe is held to the whole budget.
PeekEachBudget(p) ==
  /\ pc = PeekOf(p)
  /\ available' = InPipe(p)
  /\ pc' = IF got[p] + InPipe(p) > Limit THEN "kill" ELSE ReadOf(p)
  /\ UNCHANGED <<procs, final, got, remaining>>

\* PeekNamedPipe; a broken pipe (error 109) is an empty one here.
Peek(p) ==
  /\ pc = PeekOf(p)
  /\ available' = InPipe(p)
  /\ pc' = IF InPipe(p) > remaining THEN "kill" ELSE ReadOf(p)
  /\ UNCHANGED <<procs, final, got, remaining>>

\* Mutant: read to the end of the pipe, which comes when its last writer ends.
ReadToEnd(p) ==
  /\ pc = ReadOf(p)
  /\ Gone /\ ~inherited
  /\ got' = [got EXCEPT ![p] = @ + available]
  /\ remaining' = remaining - available
  /\ pc' = AfterDrain(p)
  /\ UNCHANGED <<procs, final, available>>

\* Read what was reported, never more: the read cannot block.
Read(p) ==
  /\ pc = ReadOf(p)
  /\ got' = [got EXCEPT ![p] = @ + available]
  /\ remaining' = remaining - available
  /\ pc' = AfterDrain(p)
  /\ UNCHANGED <<procs, final, available>>

\* Mutant: an exited child's output is taken as it is.
TryWaitNoDrain ==
  /\ pc = "try_wait"
  /\ IF Gone THEN pc' = "ok" ELSE pc' = "deadline"
  /\ UNCHANGED <<procs, final, available, got, remaining>>

\* try_wait: an exited child gets one more drain of both pipes.
TryWait ==
  /\ pc = "try_wait"
  /\ IF Gone
     THEN pc' = "peek_stdout" /\ final' = TRUE
     ELSE pc' = "deadline" /\ UNCHANGED final
  /\ UNCHANGED <<procs, available, got, remaining>>

\* The comparison with the wall-clock budget.
CheckDeadline ==
  /\ pc = "deadline"
  /\ pc' = IF expired THEN "kill" ELSE "wait"
  /\ UNCHANGED <<procs, final, available, got, remaining>>

\* WaitForSingleObject returns when the child ends or after 20 ms.
Wait ==
  /\ pc = "wait"
  /\ pc' = "peek_stdout"
  /\ UNCHANGED <<procs, final, available, got, remaining>>

\* A pipe query, a read, the status query or the wait fails.
SystemError ==
  /\ pc \in {"peek_stdout", "read_stdout", "peek_stderr", "read_stderr",
             "try_wait", "wait"}
  /\ pc' = "kill"
  /\ UNCHANGED <<procs, final, available, got, remaining>>

\* Mutant: the error is returned and the child left running.
KillNobody ==
  /\ pc = "kill"
  /\ pc' = "reap"
  /\ UNCHANGED <<procs, final, available, got, remaining>>

\* kill: only the launched process, and only if it is still there.
Kill ==
  /\ pc = "kill"
  /\ child' = IF child = "running" THEN "dying" ELSE child
  /\ pc' = "reap"
  /\ UNCHANGED <<inherited, written, atExit, expired, final, available, got,
                 remaining>>

\* Mutant: the child is killed but not waited for.
ReapUnwaited ==
  /\ pc = "reap"
  /\ pc' = "err"
  /\ UNCHANGED <<procs, final, available, got, remaining>>

\* wait after kill
Reap ==
  /\ pc = "reap"
  /\ Gone
  /\ pc' = "err"
  /\ UNCHANGED <<procs, final, available, got, remaining>>

CaptureStep ==
  \/ \E p \in Pipes : Peek(p) \/ Read(p)
  \/ TryWait \/ CheckDeadline \/ Wait \/ Kill \/ Reap

ChildWrites == \E p \in Pipes : Write(p)

ChildFinishes == (\A p \in Pipes : written[p] = Volume) /\ ChildExits

Next == \/ CaptureStep \/ SystemError
        \/ ChildWrites \/ ChildExits \/ ChildDies
        \/ StartDescendant \/ DescendantExits
        \/ Expire

Spec == Init /\ [][Next]_vars

\* capture keeps running and a terminated process ends; nothing is asked of
\* a child that is not terminated, nor of the clock.
FairSpec == Spec /\ WF_vars(CaptureStep) /\ WF_vars(ChildDies)

-----------------------------------------------------------------------------
(* Properties.                                                              *)

Steps == {"peek_stdout", "read_stdout", "peek_stderr", "read_stderr",
          "try_wait", "deadline", "wait", "kill", "reap", "ok", "err"}

TypeOK ==
  /\ child \in {"running", "exited", "dying", "killed"}
  /\ inherited \in BOOLEAN /\ expired \in BOOLEAN /\ final \in BOOLEAN
  /\ written \in [Pipes -> 0 .. Volume] /\ atExit \in [Pipes -> 0 .. Volume]
  /\ got \in [Pipes -> 0 .. Volume]
  /\ pc \in Steps
  /\ available \in 0 .. Volume
  /\ remaining \in 0 .. Limit

\* Both pipes together never make RESX hold more than the budget, whatever
\* is written between the query of a pipe and the read.
BudgetKept == got["stdout"] + got["stderr"] <= Limit

\* A successful result holds everything the child wrote before it ended, also
\* what it wrote after the drains that preceded the exit status.
NothingLost == pc = "ok" => \A p \in Pipes : got[p] >= atExit[p]

\* The launched process never outlives the call, on any path.
NoOrphan == pc \in {"ok", "err"} => Gone

\* If time passes, the call returns, even if the child floods its pipes, never
\* exits, or leaves a descendant that keeps the pipes open.
CaptureReturns == WF_vars(Expire) => <>(pc \in {"ok", "err"})

\* The child keeps writing while its pipes let it, and exits once it has
\* written all it has to.
Cooperates == WF_vars(ChildWrites) /\ WF_vars(ChildFinishes)

\* A child that would end by itself is not stopped by the pipes: without the
\* help of the deadline the call still returns.
NoPipeDeadlock == Cooperates => <>(pc \in {"ok", "err"} \/ expired)

=============================================================================
