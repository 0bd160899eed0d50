--------------------------- MODULE IndexOnDemand ---------------------------
(***************************************************************************)
(* What a reverse call index must be, whoever keeps copies of it: a run    *)
(* that asks for the index of an image gets one that described the image   *)
(* at some moment since it asked, or learns that there is none, unless it  *)
(* is killed first.  FollowIndexCache, with its cache file shared by all   *)
(* runs, implements this.                                                  *)
(***************************************************************************)
EXTENDS Naturals

CONSTANTS
  Runs,       \* processes that ask
  MaxVersion  \* bound on the replacements of the image

VARIABLES
  image,   \* the version of the image
  asking,  \* what has become of each run's question
  since,   \* the version when the run asked
  answer   \* the version whose index the run got

vars == <<image, asking, since, answer>>

Init ==
  /\ image = 0
  /\ asking = [r \in Runs |-> "not yet"]
  /\ since = [r \in Runs |-> 0]
  /\ answer = [r \in Runs |-> 0]

ReplaceImage ==
  /\ image < MaxVersion
  /\ image' = image + 1
  /\ UNCHANGED <<asking, since, answer>>

Ask(r) ==
  /\ asking[r] = "not yet"
  /\ asking' = [asking EXCEPT ![r] = "asked"]
  /\ since' = [since EXCEPT ![r] = image]
  /\ UNCHANGED <<image, answer>>

Answer(r) ==
  /\ asking[r] = "asked"
  /\ asking' = [asking EXCEPT ![r] = "answered"]
  /\ \E v \in since[r] .. image : answer' = [answer EXCEPT ![r] = v]
  /\ UNCHANGED <<image, since>>

Refuse(r) ==
  /\ asking[r] = "asked"
  /\ asking' = [asking EXCEPT ![r] = "refused"]
  /\ UNCHANGED <<image, since, answer>>

Next == ReplaceImage \/ \E r \in Runs : Ask(r) \/ Answer(r) \/ Refuse(r)

Spec == Init /\ [][Next]_vars

\* Every question that is asked comes to an end.
FairSpec == Spec /\ \A r \in Runs : WF_vars(Answer(r) \/ Refuse(r))

=============================================================================
