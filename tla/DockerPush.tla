----------------------------- MODULE DockerPush -----------------------------
(***************************************************************************)
(* Docker clients against the registry server.  `docker push` asks for     *)
(* each blob of the image with HEAD, uploads it on a 404 and puts the      *)
(* manifest when all are accounted for; `docker pull` gets the manifest    *)
(* and then each blob it lists.  The client is not part of the repository: *)
(* it is what the handlers, the README (253-290) and example/hello/test.sh *)
(* are written for.                                                        *)
(*                                                                         *)
(* A client has one connection and works through the jobs of its plan one  *)
(* after the other; clients run side by side.                              *)
(***************************************************************************)
EXTENDS Registry, Sequences, Naturals

CONSTANTS
    Plan    \* client -> the sequence of jobs it is given

Jobs == [kind : {"push", "pull"}, repo : Names, ref : Tags, man : Manifests \cup {None}]

ASSUME PlanAssumption ==
    /\ Plan \in [Threads -> Seq(Jobs)]
    /\ \A t \in Threads : \A i \in DOMAIN Plan[t] :
          Plan[t][i].kind = "push" => Plan[t][i].man \in Plain

VARIABLES
    job,   \* how many jobs of its plan the client has begun
    phase, \* what it is doing
    todo   \* the blobs it has yet to see to

clientVars == <<job, phase, todo>>
allVars == <<vars, clientVars>>

Phases == {"ready",  \* between jobs
           "check",  \* push: the next blob, or the manifest
           "head", "upload", "put",  \* push: waiting for the answer
           "get",    \* pull: waiting for the manifest
           "blobs",  \* pull: the next blob
           "blob",   \* pull: waiting for a blob
           "failed"} \* the job failed, and the client gives up

ClientTypeOK ==
    /\ job \in [Threads -> Nat]
    /\ \A t \in Threads : job[t] <= Len(Plan[t])
    /\ phase \in [Threads -> Phases]
    /\ todo \in [Threads -> SUBSET Blobs]

ClientInit ==
    /\ Init
    /\ job = [t \in Threads |-> 0]
    /\ phase = [t \in Threads |-> "ready"]
    /\ todo = [t \in Threads |-> {}]

Job(t) == Plan[t][job[t]]
Ask(t, op, ref, m) ==
    Send(t, [op |-> op, repo |-> Job(t).repo, ref |-> ref, man |-> m])
Answered200(t) == pc[t] = "idle" /\ resp[t].status \in {"200", "201"}
AnsweredElse(t) == pc[t] = "idle" /\ resp[t].status \notin {"none", "200", "201"}

Become(t, p) == phase' = [phase EXCEPT ![t] = p]

-----------------------------------------------------------------------------

\* The next job of the plan.
Begin(t) ==
    /\ phase[t] = "ready"
    /\ job[t] < Len(Plan[t])
    /\ job' = [job EXCEPT ![t] = @ + 1]
    /\ LET j == Plan[t][job[t] + 1] IN
       \/ /\ j.kind = "push"
          /\ todo' = [todo EXCEPT ![t] = BlobsOf[j.man]]
          /\ Become(t, "check")
          /\ UNCHANGED vars
       \/ /\ j.kind = "pull"
          /\ Send(t, [op |-> "GetManifest", repo |-> j.repo, ref |-> j.ref, man |-> None])
          /\ Become(t, "get")
          /\ UNCHANGED todo

\* Push: is some blob of the image there already?
CheckBlob(t) ==
    /\ phase[t] = "check"
    /\ \E d \in todo[t] : Ask(t, "HeadBlob", d, None)
    /\ Become(t, "head")
    /\ UNCHANGED <<job, todo>>

\* Push: a blob that is there is not uploaded.
BlobThere(t) ==
    /\ phase[t] \in {"head", "upload"}
    /\ Answered200(t)
    /\ todo' = [todo EXCEPT ![t] = @ \ {req[t].ref}]
    /\ Become(t, "check")
    /\ UNCHANGED <<vars, job>>

\* Push: one that is not is.
Upload(t) ==
    /\ phase[t] = "head"
    /\ AnsweredElse(t)
    /\ resp[t].status = "404"
    /\ Ask(t, "PutBlob", req[t].ref, None)
    /\ Become(t, "upload")
    /\ UNCHANGED <<job, todo>>

\* Push: with every blob accounted for, the manifest.
Finish(t) ==
    /\ phase[t] = "check"
    /\ todo[t] = {}
    /\ Ask(t, "PutManifest", Job(t).ref, Job(t).man)
    /\ Become(t, "put")
    /\ UNCHANGED <<job, todo>>

\* Pull: the manifest says which blobs to get.
ManifestHere(t) ==
    /\ phase[t] = "get"
    /\ Answered200(t)
    /\ todo' = [todo EXCEPT ![t] = BlobsOf[resp[t].man]]
    /\ Become(t, "blobs")
    /\ UNCHANGED <<vars, job>>

\* Pull: get some blob of the image.
GetNext(t) ==
    /\ phase[t] = "blobs"
    /\ \E d \in todo[t] : Ask(t, "GetBlob", d, None)
    /\ Become(t, "blob")
    /\ UNCHANGED <<job, todo>>

\* Pull: it came.
BlobHere(t) ==
    /\ phase[t] = "blob"
    /\ Answered200(t)
    /\ todo' = [todo EXCEPT ![t] = @ \ {req[t].ref}]
    /\ Become(t, "blobs")
    /\ UNCHANGED <<vars, job>>

\* The manifest is put, or every blob has come.
Succeed(t) ==
    /\ \/ phase[t] = "put" /\ Answered200(t)
       \/ phase[t] = "blobs" /\ todo[t] = {}
    /\ Become(t, "ready")
    /\ UNCHANGED <<vars, job, todo>>

\* An answer that leaves nothing to do.
Fail(t) ==
    /\ AnsweredElse(t)
    /\ \/ phase[t] \in {"upload", "put", "get", "blob"}
       \/ phase[t] = "head" /\ resp[t].status # "404"
    /\ Become(t, "failed")
    /\ UNCHANGED <<vars, job, todo>>

Client(t) ==
    \/ Begin(t)
    \/ CheckBlob(t)
    \/ BlobThere(t)
    \/ Upload(t)
    \/ Finish(t)
    \/ ManifestHere(t)
    \/ GetNext(t)
    \/ BlobHere(t)
    \/ Succeed(t)
    \/ Fail(t)

\* Every client is through with its plan, or has given up.
Over ==
    /\ \A t \in Threads :
          phase[t] = "failed" \/ (phase[t] = "ready" /\ job[t] = Len(Plan[t]))
    /\ UNCHANGED allVars

ClientNext ==
    \/ \E t \in Threads : Client(t)
    \/ \E t \in Threads : Handle(t) /\ UNCHANGED clientVars
    \/ Over

\* A client goes on with its job; the server is scheduled as in Registry.
ClientSpec ==
    /\ ClientInit /\ [][ClientNext]_allVars
    /\ \A t \in Threads : WF_allVars(Client(t))
    /\ \A t \in Threads : SF_allVars(Handle(t) /\ UNCHANGED clientVars)

-----------------------------------------------------------------------------
(* Properties. *)

\* The pushes have no layer in common, those into one repository are made by one
\* client, and no manifest is a layer.
PushesApart ==
    /\ \A t, u \in Threads : \A i \in DOMAIN Plan[t], j \in DOMAIN Plan[u] :
          (Plan[t][i].kind = "push" /\ Plan[u][j].kind = "push") =>
             /\ Plan[t][i].repo = Plan[u][j].repo => t = u
             /\ BlobsOf[Plan[t][i].man] \cap BlobsOf[Plan[u][j].man] # {} => t = u /\ i = j
    /\ Digests \cap Blobs = {}

\* Every image has a config, at least.
HasConfig == \A m \in Plain : BlobsOf[m] # {}

\* The image a successful push has left on IPFS has all the blobs of its
\* manifest (test.sh 95-104 runs what was pushed).
PushComplete ==
    \A t \in Threads : (phase[t] = "put" /\ Answered200(t)) =>
        /\ resp[t].cid # EmptyCid
        /\ resp[t].cid.man = Job(t).man
        /\ BlobsOf[Job(t).man] \subseteq resp[t].cid.blobs

\* A pull that was given a manifest is given every blob of it.
PullWhole == \A t \in Threads : phase[t] = "blob" => resp[t].status # "404"

\* b.lock is held across two steps by a HEAD that waits for the gateway, and by
\* nobody else: no PUT of a manifest leaves by the early returns of blobs.get and
\* blobs.remove (blobs.go 311, 318, 332), after which every call to the store
\* would wait for ever.
LockGivenBack == bLock # None => pc[bLock] = "headGateway"

\* Every job comes to an end, well or badly.
JobsEnd == \A t \in Threads : phase[t] # "ready" ~> phase[t] \in {"ready", "failed"}

=============================================================================
