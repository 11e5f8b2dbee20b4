----------------------------- MODULE ImageOffer -----------------------------
(***************************************************************************)
(* What `ipdr push` does for its caller: it gives to IPFS one of the       *)
(* images that reading the archive can come to, in the form in which the   *)
(* server of this repository serves images, and says where; or it fails.   *)
(* ImagePush implements it in a dozen steps.                               *)
(***************************************************************************)
CONSTANTS
    Pushers,    \* the callers of PushImage
    Jobs,       \* what they are asked to push
    Sound(_),   \* the jobs that can be pushed at all
    Images(_),  \* the images a job can come to
    Failed,
    None

VARIABLES
    job,  \* what each caller pushes, or has pushed
    out   \* what it was told: the image's CID or Failed

vars == <<job, out>>

Init ==
    /\ job = [p \in Pushers |-> None]
    /\ out = [p \in Pushers |-> None]

Give(p, j) ==
    /\ job' = [job EXCEPT ![p] = j]
    /\ out' = [out EXCEPT ![p] = None]

\* Only what is sound is pushed, and any push may fail.
Tell(p) ==
    /\ job[p] # None
    /\ out[p] = None
    /\ \/ Sound(job[p]) /\ \E im \in Images(job[p]) : out' = [out EXCEPT ![p] = im]
       \/ out' = [out EXCEPT ![p] = Failed]
    /\ UNCHANGED job

\* The process ends under the callers it has not told yet.
Die ==
    /\ job' = [p \in Pushers |-> IF out[p] = None THEN None ELSE job[p]]
    /\ UNCHANGED out

Next ==
    \/ \E p \in Pushers : Tell(p)
    \/ \E p \in Pushers, j \in Jobs : Give(p, j)
    \/ Die

Spec == Init /\ [][Next]_vars

=============================================================================
