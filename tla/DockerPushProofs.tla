-------------------------- MODULE DockerPushProofs --------------------------
(***************************************************************************)
(* Theorems about DockerPush, for any number of clients, any plans and any *)
(* images.                                                                 *)
(***************************************************************************)
EXTENDS DockerPush, RegistryProofs

-----------------------------------------------------------------------------
(* What a client is doing says what it has asked for. *)

Gathering == {"check", "head", "upload"}

\* The last call of the client was for its job.
Asked(t, op) == req[t] \in Requests /\ req[t].op = op /\ req[t].repo = Job(t).repo

Linked(t) ==
    /\ phase[t] # "ready" => job[t] \in DOMAIN Plan[t]
    /\ phase[t] \in {"ready", "check", "blobs", "failed"} => pc[t] = "idle"
    /\ phase[t] \in Gathering \cup {"put"} =>
          Job(t).kind = "push" /\ todo[t] \subseteq BlobsOf[Job(t).man]
    /\ phase[t] \in {"head", "upload", "blob"} => req[t].ref \in todo[t]
    /\ phase[t] = "head" => Asked(t, "HeadBlob")
    /\ phase[t] = "upload" => Asked(t, "PutBlob")
    /\ phase[t] = "blob" => Asked(t, "GetBlob")
    /\ phase[t] = "put" =>
          Asked(t, "PutManifest") /\ todo[t] = {} /\ req[t].ref = Job(t).ref /\ req[t].man = Job(t).man
    /\ phase[t] = "get" =>
          Asked(t, "GetManifest") /\ (Answered200(t) => resp[t].man \in Plain)
    /\ pc[t] # "idle" => resp[t].status = "none"

ClientInv == ClientTypeOK /\ \A t \in Threads : Linked(t)

LEMMA JobType ==
    ASSUME NEW t \in Threads
    PROVE  /\ Len(Plan[t]) \in Nat /\ DOMAIN Plan[t] = 1 .. Len(Plan[t])
           /\ \A i \in DOMAIN Plan[t] :
                 /\ Plan[t][i].repo \in Names /\ Plan[t][i].ref \in Tags
                 /\ Plan[t][i].kind \in {"push", "pull"}
                 /\ Plan[t][i].kind = "push" =>
                       Plan[t][i].man \in Plain /\ BlobsOf[Plan[t][i].man] \subseteq Blobs
  <1>1. Plan[t] \in Seq(Jobs)
    BY PlanAssumption
  <1>2. \A i \in DOMAIN Plan[t] : Plan[t][i] \in Jobs
    BY <1>1
  <1>3. \A i \in DOMAIN Plan[t] : Plan[t][i].kind = "push" => Plan[t][i].man \in Plain
    BY PlanAssumption
  <1>4. \A m \in Plain : BlobsOf[m] \subseteq Blobs
    BY ImageAssumption
  <1> QED BY <1>1, <1>2, <1>3, <1>4 DEF Jobs

\* To the server, a client's step is a call or nothing.
LEMMA ClientCalls ==
    ASSUME NEW t \in Threads, Client(t)
    PROVE  UNCHANGED vars \/ \E q \in Requests : Send(t, q)
  BY DEF Client, Begin, CheckBlob, BlobThere, Upload, Finish, ManifestHere, GetNext,
         BlobHere, Succeed, Fail, Ask, Send

\* What the clients and the server do together is for the server what any
\* clients might do.
LEMMA ServerSees == [ClientNext]_allVars => [Next]_vars
  <1> SUFFICES ASSUME [ClientNext]_allVars PROVE [Next]_vars
    OBVIOUS
  <1>1. ASSUME NEW t \in Threads, Client(t) PROVE [Next]_vars
    BY <1>1, ClientCalls DEF Next
  <1>2. ASSUME NEW t \in Threads, Handle(t) PROVE [Next]_vars
    BY <1>2 DEF Next
  <1>3. CASE UNCHANGED allVars
    BY <1>3 DEF allVars
  <1> QED BY <1>1, <1>2, <1>3 DEF ClientNext, Over

\* A step of the system is a client's, a handler's, or nothing.
LEMMA StepCases ==
    ASSUME [ClientNext]_allVars
    PROVE  \/ \E t \in Threads : Client(t)
           \/ \E t \in Threads : Handle(t) /\ UNCHANGED clientVars
           \/ UNCHANGED <<vars, clientVars>>
  BY DEF ClientNext, Over, allVars

\* A handler works for its own connection.
LEMMA HandleFrame ==
    ASSUME TypeInv, NEW t \in Threads, Handle(t)
    PROVE  /\ UNCHANGED <<req, published>>
           /\ pc[t] # "idle" /\ (pc'[t] # "idle" => resp'[t] = resp[t])
           /\ \A u \in Threads \ {t} :
                 pc'[u] = pc[u] /\ resp'[u] = resp[u] /\ bundle'[u] = bundle[u]
  <1>1. UNCHANGED <<req, published>> /\ pc[t] # "idle"
    BY DEF Handle, PutBlob, HeadBlobLocal, HeadBlobResolve, HeadBlobGateway,
           GetBlob, Dig, FetchCached, FetchResolve, FetchGateway, Reverse, PutRegister,
           PutGet, PutRemove, PutAdd
  <1>2. (\E p : Goto(t, p)) \/ \E a : Reply(t, a)
    BY DEF Handle, PutBlob, HeadBlobLocal, HeadBlobResolve, HeadBlobGateway,
           GetBlob, Dig, FetchCached, FetchResolve, FetchGateway, Fetched, Reverse,
           PutRegister, PutGet, PutRemove, PutAdd
  <1>3. bundle' = bundle \/ \E b : bundle' = [bundle EXCEPT ![t] = b]
    BY DEF Handle, PutBlob, HeadBlobLocal, HeadBlobResolve, HeadBlobGateway,
           GetBlob, Dig, FetchCached, FetchResolve, FetchGateway, Fetched, Reverse,
           PutRegister, PutGet, PutRemove, PutAdd, Reply, locals
  <1> QED BY <1>1, <1>2, <1>3 DEF Goto, Reply, TypeInv, TypeOK

\* Which handlers serve which call.
LEMMA HandlerOf ==
    ASSUME TypeInv, NEW t \in Threads, Handle(t)
    PROVE  /\ req[t].op = "HeadBlob" =>
                HeadBlobLocal(t) \/ HeadBlobResolve(t) \/ HeadBlobGateway(t)
           /\ req[t].op = "PutBlob" => PutBlob(t)
           /\ req[t].op = "GetBlob" => GetBlob(t)
           /\ req[t].op = "GetManifest" =>
                FetchCached(t) \/ FetchResolve(t) \/ FetchGateway(t) \/ Reverse(t)
           /\ req[t].op = "PutManifest" =>
                PutRegister(t) \/ PutGet(t) \/ PutRemove(t) \/ PutAdd(t)
  <1> USE DEF TypeInv, Serving, Ops, Gets, PutPoints
  <1>2. PutBlob(t) => req[t].op = "PutBlob"
    BY DEF PutBlob
  <1>3. HeadBlobLocal(t) \/ HeadBlobResolve(t) \/ HeadBlobGateway(t) => req[t].op = "HeadBlob"
    BY DEF HeadBlobLocal, HeadBlobResolve, HeadBlobGateway
  <1>4. GetBlob(t) => req[t].op = "GetBlob"
    BY DEF GetBlob
  <1>5. Dig(t) => req[t].op = "Dig"
    BY DEF Dig
  <1>6. FetchCached(t) \/ FetchResolve(t) \/ FetchGateway(t) \/ Reverse(t)
          => req[t].op \in {"GetManifest", "HeadManifest"}
    BY DEF FetchCached, FetchResolve, FetchGateway, Reverse
  <1>7. PutRegister(t) \/ PutGet(t) \/ PutRemove(t) \/ PutAdd(t) => req[t].op = "PutManifest"
    BY DEF PutRegister, PutGet, PutRemove, PutAdd
  <1> QED BY <1>2, <1>3, <1>4, <1>5, <1>6, <1>7 DEF Handle

\* A client's step leaves the other clients and their connections alone.
LEMMA ClientFrame ==
    ASSUME TypeInv, ClientTypeOK, NEW t \in Threads, Client(t)
    PROVE  /\ \A u \in Threads \ {t} :
                 /\ job'[u] = job[u] /\ phase'[u] = phase[u] /\ todo'[u] = todo[u]
                 /\ pc'[u] = pc[u] /\ req'[u] = req[u] /\ resp'[u] = resp[u]
           /\ UNCHANGED <<mLock, bLock, blobVars, manifests, cidVars, published, locals>>
  <1>1. /\ \A u \in Threads \ {t} : pc'[u] = pc[u] /\ req'[u] = req[u] /\ resp'[u] = resp[u]
        /\ UNCHANGED <<mLock, bLock, blobVars, manifests, cidVars, published, locals>>
    <2>1. CASE UNCHANGED vars
      BY <2>1 DEF vars, blobVars, cidVars, locals
    <2>2. ASSUME NEW q \in Requests, Send(t, q)
          PROVE  /\ \A u \in Threads \ {t} :
                       pc'[u] = pc[u] /\ req'[u] = req[u] /\ resp'[u] = resp[u]
                 /\ UNCHANGED <<mLock, bLock, blobVars, manifests, cidVars, published, locals>>
      BY <2>2 DEF Send, TypeInv, TypeOK
    <2> QED BY <2>1, <2>2, ClientCalls
  <1>2. /\ job' = job \/ job' = [job EXCEPT ![t] = @ + 1]
        /\ todo' = todo \/ \E b : todo' = [todo EXCEPT ![t] = b]
        /\ \E p : phase' = [phase EXCEPT ![t] = p]
    BY DEF Client, Begin, CheckBlob, BlobThere, Upload, Finish, ManifestHere, GetNext,
           BlobHere, Succeed, Fail, Become
  <1> QED BY <1>1, <1>2 DEF ClientTypeOK

\* What a connection holds after its client has made a call.
LEMMA AskFrame ==
    ASSUME TypeInv, NEW t \in Threads, NEW q, Send(t, q)
    PROVE  /\ pc'[t] = q.op /\ q.op # "idle" /\ req'[t] = q /\ q \in Requests
           /\ resp'[t] = Answer("none") /\ pc[t] = "idle"
  <1>1. q \in Requests
    BY DEF Send
  <1>2. q.op # "idle"
    BY <1>1, RequestType DEF Ops
  <1> QED BY <1>1, <1>2 DEF Send, TypeInv, TypeOK

\* Nothing about a client changes while others act.
LEMMA LinkedFrame ==
    ASSUME NEW u \in Threads, Linked(u), job'[u] = job[u], phase'[u] = phase[u],
           todo'[u] = todo[u], pc'[u] = pc[u], req'[u] = req[u], resp'[u] = resp[u]
    PROVE  Linked(u)'
  BY DEF Linked, Job, Asked, Answered200

\* What a client does next fits what it has been told.
LEMMA LinkedClient ==
    ASSUME TypeInv, ClientInv, NEW t \in Threads, Client(t)
    PROVE  Linked(t)' /\ ClientTypeOK'
  <1> USE DEF ClientInv, ClientTypeOK
  <1>1. Linked(t)
    OBVIOUS
  <1>2. DOMAIN Plan[t] = 1 .. Len(Plan[t]) /\ Len(Plan[t]) \in Nat
    BY JobType
  <1>3. CASE Begin(t)
    <2>1. PICK i \in DOMAIN Plan[t] : i = job[t] + 1
      BY <1>2, <1>3 DEF Begin
    <2>2. job'[t] = i /\ \A u \in Threads : job'[u] \in Nat /\ job'[u] <= Len(Plan[u])
      BY <1>2, <1>3, <2>1 DEF Begin
    <2>3. job' \in [Threads -> Nat]
      BY <1>3 DEF Begin
    <2>4. CASE /\ Plan[t][i].kind = "push"
               /\ todo' = [todo EXCEPT ![t] = BlobsOf[Plan[t][i].man]]
               /\ Become(t, "check") /\ UNCHANGED vars
      <3>1. phase'[t] = "check" /\ todo'[t] = BlobsOf[Plan[t][i].man]
        BY <2>4 DEF Become
      <3>2. pc'[t] = "idle"
        BY <1>1, <1>3, <2>4 DEF Begin, Linked, vars
      <3>3. Linked(t)'
        BY <2>1, <2>2, <2>4, <3>1, <3>2 DEF Linked, Job, Gathering
      <3>4. phase' \in [Threads -> Phases] /\ todo' \in [Threads -> SUBSET Blobs]
        BY <2>1, <2>4, JobType DEF Become, Phases
      <3> QED BY <2>2, <2>3, <3>3, <3>4
    <2>5. CASE /\ Send(t, [op |-> "GetManifest", repo |-> Plan[t][i].repo,
                           ref |-> Plan[t][i].ref, man |-> None])
               /\ Become(t, "get") /\ UNCHANGED todo
      <3>1. PICK q : q = [op |-> "GetManifest", repo |-> Plan[t][i].repo,
                          ref |-> Plan[t][i].ref, man |-> None]
        OBVIOUS
      <3>2. pc'[t] # "idle" /\ req'[t] = q /\ q \in Requests /\ resp'[t] = Answer("none")
        BY <2>5, <3>1, AskFrame
      <3>3. phase'[t] = "get"
        BY <2>5 DEF Become
      <3>4. Linked(t)'
        BY <2>1, <2>2, <3>1, <3>2, <3>3
          DEF Linked, Job, Gathering, Asked, Answered200, Answer
      <3>5. phase' \in [Threads -> Phases]
        BY <2>5 DEF Become, Phases
      <3> QED BY <2>2, <2>3, <2>5, <3>4, <3>5
    <2> QED BY <1>3, <2>1, <2>4, <2>5 DEF Begin
  <1>4. ASSUME NEW p \in {"head", "upload", "put", "blob"}, NEW q,
               Become(t, p), Send(t, q), UNCHANGED <<job, todo>>, phase[t] # "ready",
               q.repo = Job(t).repo,
               p \in Gathering \cup {"put"} => phase[t] \in Gathering,
               p = "head" => q.op = "HeadBlob", p = "upload" => q.op = "PutBlob",
               p = "blob" => q.op = "GetBlob",
               p = "put" => /\ q.op = "PutManifest" /\ todo[t] = {}
                            /\ q.ref = Job(t).ref /\ q.man = Job(t).man,
               p # "put" => q.ref \in todo[t]
        PROVE  Linked(t)' /\ ClientTypeOK'
    <2>1. pc'[t] # "idle" /\ req'[t] = q /\ q \in Requests /\ resp'[t].status = "none"
      BY <1>4, AskFrame DEF Answer
    <2>2. phase'[t] = p /\ phase' \in [Threads -> Phases]
      BY <1>4 DEF Become, Phases
    <2>3. Linked(t)'
      BY <1>1, <1>4, <2>1, <2>2 DEF Linked, Job, Gathering, Asked
    <2> QED BY <1>4, <2>2, <2>3
  <1>5. CASE CheckBlob(t)
    <2>1. PICK d \in todo[t] : Ask(t, "HeadBlob", d, None)
      BY <1>5 DEF CheckBlob
    <2>2. PICK q : q = [op |-> "HeadBlob", repo |-> Job(t).repo, ref |-> d, man |-> None]
      OBVIOUS
    <2> QED BY <1>4, <1>5, <2>1, <2>2 DEF CheckBlob, Ask, Gathering
  <1>6. CASE Upload(t)
    <2>1. PICK q : q = [op |-> "PutBlob", repo |-> Job(t).repo, ref |-> req[t].ref, man |-> None]
      OBVIOUS
    <2>2. req[t].ref \in todo[t]
      BY <1>1, <1>6 DEF Upload, Linked
    <2> QED BY <1>4, <1>6, <2>1, <2>2 DEF Upload, Ask, Gathering
  <1>7. CASE Finish(t)
    <2>1. PICK q : q = [op |-> "PutManifest", repo |-> Job(t).repo, ref |-> Job(t).ref,
                        man |-> Job(t).man]
      OBVIOUS
    <2> QED BY <1>4, <1>7, <2>1 DEF Finish, Ask, Gathering
  <1>8. CASE GetNext(t)
    <2>1. PICK d \in todo[t] : Ask(t, "GetBlob", d, None)
      BY <1>8 DEF GetNext
    <2>2. PICK q : q = [op |-> "GetBlob", repo |-> Job(t).repo, ref |-> d, man |-> None]
      OBVIOUS
    <2> QED BY <1>4, <1>8, <2>1, <2>2 DEF GetNext, Ask, Gathering
  <1>9. CASE BlobThere(t) \/ BlobHere(t)
    <2>1. UNCHANGED <<vars, job>> /\ pc[t] = "idle"
      BY <1>9 DEF BlobThere, BlobHere, Answered200
    <2>2. /\ todo' = [todo EXCEPT ![t] = @ \ {req[t].ref}]
          /\ \/ phase[t] \in Gathering /\ Become(t, "check")
             \/ Become(t, "blobs") /\ phase[t] = "blob"
      BY <1>9 DEF BlobThere, BlobHere, Gathering
    <2>3. todo'[t] \subseteq todo[t] /\ phase'[t] \in {"check", "blobs"}
          /\ (phase'[t] = "check" => phase[t] \in Gathering) /\ phase[t] # "ready"
      BY <2>2 DEF Become, Gathering
    <2>4. Linked(t)'
      BY <1>1, <2>1, <2>3 DEF Linked, Job, Gathering, vars
    <2>5. phase' \in [Threads -> Phases] /\ todo' \in [Threads -> SUBSET Blobs]
      BY <2>2 DEF Become, Phases
    <2> QED BY <2>1, <2>4, <2>5
  <1>10. CASE ManifestHere(t)
    <2>1. resp[t].man \in Plain
      BY <1>1, <1>10 DEF ManifestHere, Linked
    <2>2. phase'[t] = "blobs" /\ phase' \in [Threads -> Phases]
      BY <1>10 DEF ManifestHere, Become, Phases
    <2>3. todo' \in [Threads -> SUBSET Blobs]
      BY <1>10, <2>1, ImageAssumption DEF ManifestHere
    <2>4. Linked(t)'
      BY <1>1, <1>10, <2>2 DEF ManifestHere, Linked, Job, Gathering, Answered200, vars
    <2> QED BY <1>10, <2>2, <2>3, <2>4 DEF ManifestHere
  <1>11. CASE Succeed(t) \/ Fail(t)
    <2>1. UNCHANGED <<vars, job, todo>> /\ phase[t] # "ready"
      BY <1>11 DEF Succeed, Fail
    <2>2. pc[t] = "idle"
      BY <1>1, <1>11 DEF Succeed, Fail, Linked, Answered200, AnsweredElse
    <2>3. phase'[t] \in {"ready", "failed"} /\ phase' \in [Threads -> Phases]
      BY <1>11 DEF Succeed, Fail, Become, Phases
    <2>4. Linked(t)'
      BY <1>1, <2>1, <2>2, <2>3 DEF Linked, Job, Gathering, vars
    <2> QED BY <2>1, <2>3, <2>4
  <1> QED
    BY <1>3, <1>5, <1>6, <1>7, <1>8, <1>9, <1>10, <1>11 DEF Client

\* A pull is not answered with a manifest list: looking for the layers of one
\* fails.
LEMMA LinkedHandle ==
    ASSUME TypeInv, ClientInv, NEW t \in Threads, Handle(t), UNCHANGED clientVars
    PROVE  Linked(t)'
  <1> USE DEF ClientInv
  <1>1. UNCHANGED req /\ pc[t] # "idle" /\ (pc'[t] # "idle" => resp'[t] = resp[t])
    BY HandleFrame
  <1>2. Linked(t) /\ job'[t] = job[t] /\ phase'[t] = phase[t] /\ todo'[t] = todo[t]
    BY DEF clientVars
  <1>3. ASSUME phase[t] = "get", Answered200(t)' PROVE resp'[t].man \in Plain
    <2>1. FetchCached(t) \/ FetchResolve(t) \/ FetchGateway(t) \/ Reverse(t)
      BY <1>2, <1>3, HandlerOf DEF Linked, Asked
    <2>2. req[t].op = "GetManifest" /\ pc'[t] = "idle" /\ resp'[t].status \in {"200", "201"}
      BY <1>2, <1>3 DEF Linked, Asked, Answered200
    <2>3. ~Reply(t, Answer("404")) /\ ~Reply(t, Answer("panic"))
      BY <2>2 DEF Reply, Answer, TypeInv, TypeOK
    <2>4. \A p : Goto(t, p) => p = "idle"
      BY <2>2 DEF Goto, TypeInv, TypeOK
    <2>5. CASE FetchCached(t) \/ FetchResolve(t) \/ FetchGateway(t)
      BY <2>2, <2>3, <2>4, <2>5 DEF FetchCached, FetchResolve, FetchGateway, Fetched
    <2>6. CASE Reverse(t)
      <3>1. PICK mf, c : mf.man \in Plain /\ Reply(t, Served("200", mf, c))
        BY <2>3, <2>6 DEF Reverse
      <3>2. resp'[t] = Served("200", mf, c)
        BY <3>1 DEF Reply, TypeInv, TypeOK
      <3> QED BY <3>1, <3>2 DEF Served
    <2> QED BY <2>1, <2>5, <2>6
  <1>4. phase[t] \notin {"ready", "check", "blobs", "failed"}
    BY <1>1, <1>2 DEF Linked
  <1>5. pc'[t] # "idle" => resp'[t].status = "none"
    BY <1>1, <1>2 DEF Linked
  <1>6. phase[t] = "get" => (Asked(t, "GetManifest")' /\ (Answered200(t)' => resp'[t].man \in Plain))
    BY <1>1, <1>2, <1>3 DEF Linked, Asked, Job
  <1> QED BY <1>1, <1>2, <1>4, <1>5, <1>6 DEF Linked, Asked, Job

LEMMA ClientStep ==
    ASSUME TypeInv, ClientInv, [ClientNext]_allVars
    PROVE  ClientInv'
  <1>1. ASSUME NEW t \in Threads, Client(t) PROVE ClientInv'
    <2>1. Linked(t)' /\ ClientTypeOK'
      BY <1>1, LinkedClient
    <2>2. \A u \in Threads \ {t} : Linked(u)'
      BY <1>1, ClientFrame, LinkedFrame DEF ClientInv
    <2> QED BY <2>1, <2>2 DEF ClientInv
  <1>2. ASSUME NEW t \in Threads, Handle(t), UNCHANGED clientVars PROVE ClientInv'
    <2>1. Linked(t)'
      BY <1>2, LinkedHandle
    <2>2. \A u \in Threads \ {t} : Linked(u)'
      BY <1>2, HandleFrame, LinkedFrame DEF ClientInv, clientVars
    <2>3. ClientTypeOK'
      BY <1>2 DEF ClientInv, ClientTypeOK, clientVars
    <2> QED BY <2>1, <2>2, <2>3 DEF ClientInv
  <1>3. CASE UNCHANGED <<vars, clientVars>>
    BY <1>3, LinkedFrame DEF ClientInv, ClientTypeOK, vars, clientVars
  <1> QED BY <1>1, <1>2, <1>3, StepCases

LEMMA ClientStart == ClientInit => TypeInv /\ ClientInv
  <1> SUFFICES ASSUME ClientInit PROVE TypeInv /\ ClientInv
    OBVIOUS
  <1>1. TypeInv
    BY TypeInit DEF ClientInit
  <1>2. ClientTypeOK
    BY JobType DEF ClientInit, ClientTypeOK, Phases
  <1>3. \A t \in Threads : Linked(t)
    BY DEF ClientInit, Init, Linked, Gathering, Answer
  <1> QED BY <1>1, <1>2, <1>3 DEF ClientInv

-----------------------------------------------------------------------------
(* What the server has comes from pushes. *)

\* A push the client has begun, and one whose manifest it has begun to put.
Begun(u, j) == Plan[u][j].kind = "push" /\ j <= job[u]
Sent(u, j) ==
    /\ Plan[u][j].kind = "push"
    /\ j < job[u] \/ (j = job[u] /\ phase[u] \notin Gathering)

\* Blob d is of a push into r that was begun, or of one whose manifest was sent.
BegunBlob(r, d) ==
    \E u \in Threads : \E j \in DOMAIN Plan[u] :
        Begun(u, j) /\ Plan[u][j].repo = r /\ d \in BlobsOf[Plan[u][j].man]

SentBlob(d) ==
    \E u \in Threads : \E j \in DOMAIN Plan[u] : Sent(u, j) /\ d \in BlobsOf[Plan[u][j].man]

SentMan(m) ==
    \E u \in Threads : \E j \in DOMAIN Plan[u] : Sent(u, j) /\ m = Plan[u][j].man

\* What is on a list is held: no PUT has deleted it for another repository.
ListsHeld == \A r \in DOMAIN layers : layers[r] \subseteq contents

\* The store has what pushes that were begun have uploaded, on a list.
ListsInv ==
    /\ \A r \in DOMAIN layers : \A d \in layers[r] : BegunBlob(r, d)
    /\ \A d \in contents : \E r \in DOMAIN layers : d \in layers[r]
    /\ ListsHeld

SentImage(c) == c \in Images /\ SentMan(c.man)

\* Manifests and CIDs are from pushes that came to that, and so are the blobs
\* that GET has prepared lookups for.
SentInv ==
    /\ \A k \in DOMAIN manifests : SentMan(manifests[k].man)
    /\ \A k \in DOMAIN cids : SentImage(cids[k]) /\ (k[2] \in Blobs => SentBlob(k[2]))
    /\ \A k \in DOMAIN cidFiles : SentImage(cidFiles[k]) /\ k[2] \notin Blobs
    /\ published = EmptyMap
    /\ \A t \in Threads : AtGateway(t) => SentImage(cidOf[t])

\* What a push has seen to waits for its manifest, and goes into its image.
Gathered(t) ==
    LET repo == Job(t).repo
        all == BlobsOf[Job(t).man]
    IN /\ phase[t] \in Gathering => all \ todo[t] \subseteq Store!Waiting(repo)
       /\ phase[t] = "head" => pc[t] \in {"idle", "HeadBlob"}
       /\ (phase[t] \in {"head", "upload"} /\ Answered200(t)) => req[t].ref \in Store!Waiting(repo)
       /\ (phase[t] = "put" /\ pc[t] \in {"PutManifest", "putGet"}) => all \subseteq Store!Waiting(repo)
       /\ (phase[t] = "put" /\ pc[t] \in {"putRemove", "putAdd"}) => all \subseteq bundle[t]
       /\ (phase[t] = "put" /\ Answered200(t)) =>
             /\ resp[t].cid # EmptyCid
             /\ resp[t].cid.man = Job(t).man
             /\ all \subseteq resp[t].cid.blobs

PushInv == ListsInv /\ SentInv /\ \A t \in Threads : Gathered(t)

\* A client waits for the call its connection serves, and calls no others.
LEMMA WaitsFor ==
    ASSUME TypeInv, ClientInv, NEW t \in Threads, pc[t] # "idle"
    PROVE  /\ req[t] \in Requests /\ req[t].repo = Job(t).repo /\ req[t].repo \in Names
           /\ job[t] \in DOMAIN Plan[t]
           /\ req[t].op \in {"HeadBlob", "PutBlob", "GetBlob", "GetManifest", "PutManifest"}
           /\ pc[t] \in {"HeadBlob", "headGateway"} => phase[t] = "head"
           /\ pc[t] = "PutBlob" => phase[t] = "upload"
           /\ pc[t] = "GetBlob" => phase[t] = "blob"
           /\ pc[t] \in {"PutManifest", "putGet", "putRemove", "putAdd"} => phase[t] = "put"
  <1>1. Linked(t) /\ phase[t] \in Phases
    BY DEF ClientInv, ClientTypeOK
  <1>2. /\ req[t] \in Requests /\ req[t].repo = Job(t).repo /\ job[t] \in DOMAIN Plan[t]
        /\ \/ phase[t] = "head" /\ req[t].op = "HeadBlob"
           \/ phase[t] = "upload" /\ req[t].op = "PutBlob"
           \/ phase[t] = "blob" /\ req[t].op = "GetBlob"
           \/ phase[t] = "get" /\ req[t].op = "GetManifest"
           \/ phase[t] = "put" /\ req[t].op = "PutManifest"
    BY <1>1 DEF Linked, Phases, Asked
  <1>3. req[t].repo \in Names
    BY <1>2, JobType DEF Job
  <1>4. /\ pc[t] \in {"HeadBlob", "headGateway"} => req[t].op = "HeadBlob"
        /\ pc[t] = "PutBlob" => req[t].op = "PutBlob"
        /\ pc[t] = "GetBlob" => req[t].op = "GetBlob"
        /\ pc[t] \in {"PutManifest", "putGet", "putRemove", "putAdd"} => req[t].op = "PutManifest"
    BY DEF TypeInv, Serving, Ops, PutPoints
  <1> QED BY <1>2, <1>3, <1>4

\* A push goes on from its blobs to its manifest, and never back.
LEMMA JobsGoOn ==
    ASSUME TypeInv, ClientInv, [ClientNext]_allVars, NEW u \in Threads
    PROVE  /\ job[u] \in Nat /\ job'[u] \in Nat /\ job[u] <= job'[u]
           /\ job'[u] = job[u] => (phase'[u] \in Gathering => phase[u] \in Gathering)
           /\ job'[u] # job[u] => phase[u] \notin Gathering
  <1>1. job[u] \in Nat
    BY DEF ClientInv, ClientTypeOK
  <1>2. CASE Client(u)
    <2>1. CASE Begin(u)
      <3>1. job'[u] = job[u] + 1 /\ phase[u] = "ready"
        BY <2>1 DEF Begin, ClientInv, ClientTypeOK
      <3> QED BY <1>1, <3>1 DEF Gathering
    <2>2. CASE CheckBlob(u) \/ BlobThere(u) \/ Upload(u)
      BY <1>1, <2>2 DEF CheckBlob, BlobThere, Upload, Gathering
    <2>3. CASE Finish(u) \/ ManifestHere(u) \/ GetNext(u) \/ BlobHere(u) \/ Succeed(u) \/ Fail(u)
      <3>1. job' = job /\ \E p \in {"put", "blobs", "blob", "ready", "failed"} : Become(u, p)
        BY <2>3 DEF Finish, ManifestHere, GetNext, BlobHere, Succeed, Fail
      <3> QED BY <1>1, <3>1 DEF Become, Gathering, ClientInv, ClientTypeOK
    <2> QED BY <1>2, <2>1, <2>2, <2>3 DEF Client
  <1>3. ASSUME NEW t \in Threads \ {u}, Client(t)
        PROVE  job'[u] = job[u] /\ phase'[u] = phase[u]
    BY <1>3, ClientFrame DEF ClientInv
  <1>4. CASE UNCHANGED clientVars
    BY <1>1, <1>4 DEF clientVars
  <1> QED BY <1>1, <1>2, <1>3, <1>4, StepCases

\* So what was begun or sent remains so.
LEMMA SentGrows ==
    ASSUME TypeInv, ClientInv, [ClientNext]_allVars
    PROVE  /\ \A r, d : BegunBlob(r, d) => BegunBlob(r, d)'
           /\ \A d : SentBlob(d) => SentBlob(d)'
           /\ \A m : SentMan(m) => SentMan(m)'
  <1>1. ASSUME NEW u \in Threads, NEW j \in DOMAIN Plan[u]
        PROVE  (Begun(u, j) => Begun(u, j)') /\ (Sent(u, j) => Sent(u, j)')
    <2>1. j \in Nat
      BY JobType
    <2> QED BY <2>1, JobsGoOn DEF Begun, Sent
  <1> QED BY <1>1 DEF BegunBlob, SentBlob, SentMan

\* A blob is of one push only.
OfPush(u, j, d) == Plan[u][j].kind = "push" /\ d \in BlobsOf[Plan[u][j].man]

LEMMA BlobOfOne ==
    ASSUME PushesApart, NEW d, NEW u \in Threads, NEW i \in DOMAIN Plan[u],
           NEW v \in Threads, NEW j \in DOMAIN Plan[v], OfPush(u, i, d), OfPush(v, j, d)
    PROVE  u = v /\ i = j
  <1>1. BlobsOf[Plan[u][i].man] \cap BlobsOf[Plan[v][j].man] # {}
    BY DEF OfPush
  <1> QED BY <1>1 DEF PushesApart, OfPush

\* The manifest that is put is that of a push that has come to it.
LEMMA PutIsSent ==
    ASSUME TypeInv, ClientInv, NEW t \in Threads,
           pc[t] \in {"PutManifest", "putGet", "putRemove", "putAdd"}
    PROVE  /\ req[t].man = Job(t).man /\ req[t].ref = Job(t).ref
           /\ Job(t).kind = "push" /\ SentMan(req[t].man)
  <1>1. phase[t] = "put" /\ job[t] \in DOMAIN Plan[t]
    BY WaitsFor
  <1>2. /\ Job(t).kind = "push" /\ req[t].man = Job(t).man /\ req[t].ref = Job(t).ref
    BY <1>1 DEF ClientInv, Linked
  <1>3. Sent(t, job[t])
    BY <1>1, <1>2 DEF Sent, Job, Gathering
  <1> QED BY <1>1, <1>2, <1>3 DEF SentMan, Job

-----------------------------------------------------------------------------
(* The lists of the store. *)

\* Only two handlers touch the store.
LEMMA StoreChange ==
    ASSUME NEW t \in Threads, Handle(t)
    PROVE  PutBlob(t) \/ PutRemove(t) \/ UNCHANGED blobVars
  BY DEF Handle, HeadBlobLocal, HeadBlobResolve, HeadBlobGateway,
         GetBlob, Dig, FetchCached, FetchResolve, FetchGateway, Reverse, PutRegister,
         PutGet, PutAdd

\* What an upload does to the store.
LEMMA UploadEffect ==
    ASSUME TypeInv, ClientInv, NEW t \in Threads, PutBlob(t)
    PROVE  /\ phase[t] = "upload" /\ BegunBlob(req[t].repo, req[t].ref)
           /\ contents' = contents \cup {req[t].ref}
           /\ DOMAIN layers' = DOMAIN layers \cup {req[t].repo}
           /\ layers'[req[t].repo] = Store!Waiting(req[t].repo) \cup {req[t].ref}
           /\ \A r \in DOMAIN layers \ {req[t].repo} : layers'[r] = layers[r]
  <1>1. /\ phase[t] = "upload" /\ req[t].repo = Job(t).repo /\ job[t] \in DOMAIN Plan[t]
    BY WaitsFor DEF PutBlob
  <1>2. Job(t).kind = "push" /\ req[t].ref \in BlobsOf[Job(t).man] /\ job[t] \in Nat
    BY <1>1 DEF ClientInv, ClientTypeOK, Linked, Gathering
  <1>3. BegunBlob(req[t].repo, req[t].ref)
    BY <1>1, <1>2 DEF BegunBlob, Begun, Job
  <1>4. PICK r, S : r = req[t].repo /\ S = Store!Waiting(r) \cup {req[t].ref}
    OBVIOUS
  <1>5. layers' = Put(layers, {r}, S) /\ contents' = contents \cup {req[t].ref}
    BY <1>4, StoreMaps DEF PutBlob, Store!Commit
  <1>6. /\ DOMAIN layers' = DOMAIN layers \cup {r} /\ layers'[r] = S
        /\ \A s \in DOMAIN layers \ {r} : layers'[s] = layers[s]
    BY <1>5 DEF Put
  <1> QED BY <1>1, <1>3, <1>4, <1>5, <1>6

\* What a manifest PUT takes out of it.
LEMMA RemoveEffect ==
    ASSUME NEW t \in Threads, PutRemove(t)
    PROVE  \/ UNCHANGED blobVars
           \/ /\ req[t].repo \in DOMAIN layers
              /\ contents' = contents \ layers[req[t].repo]
              /\ DOMAIN layers' = DOMAIN layers \ {req[t].repo}
              /\ \A r \in DOMAIN layers' : layers'[r] = layers[r]
  <1> SUFFICES ASSUME req[t].repo \in DOMAIN layers, Store!Discard(req[t].repo)
               PROVE  /\ contents' = contents \ layers[req[t].repo]
                      /\ DOMAIN layers' = DOMAIN layers \ {req[t].repo}
                      /\ \A r \in DOMAIN layers' : layers'[r] = layers[r]
    BY DEF PutRemove
  <1>1. layers' = Restrict(layers, (DOMAIN layers) \ {req[t].repo})
        /\ contents' = contents \ layers[req[t].repo]
    BY StoreMaps DEF Store!Discard, Store!Waiting
  <1> QED BY <1>1, RestrictValue

LEMMA ListsStep ==
    ASSUME PushesApart, TypeInv, ClientInv, ListsInv, [ClientNext]_allVars
    PROVE  ListsInv'
  <1> USE DEF ListsInv, ListsHeld
  <1>1. \A r, d : BegunBlob(r, d) => BegunBlob(r, d)'
    BY SentGrows
  <1>2. CASE UNCHANGED blobVars
    BY <1>1, <1>2 DEF blobVars
  <1>3. ASSUME NEW t \in Threads, PutBlob(t) PROVE ListsInv'
    <2>1. PICK r, d : r = req[t].repo /\ d = req[t].ref
      OBVIOUS
    <2>2. /\ BegunBlob(r, d) /\ contents' = contents \cup {d}
          /\ DOMAIN layers' = DOMAIN layers \cup {r}
          /\ layers'[r] = Store!Waiting(r) \cup {d}
          /\ \A s \in DOMAIN layers \ {r} : layers'[s] = layers[s]
      BY <1>3, <2>1, UploadEffect
    <2>3. r \in DOMAIN layers => Store!Waiting(r) = layers[r]
      BY DEF Store!Waiting
    <2>4. r \notin DOMAIN layers => Store!Waiting(r) = {}
      BY DEF Store!Waiting
    <2>5. \A s \in DOMAIN layers' : \A e \in layers'[s] : BegunBlob(s, e)'
      BY <1>1, <2>2, <2>3, <2>4
    <2>6. \A e \in contents' : \E s \in DOMAIN layers' : e \in layers'[s]
      BY <2>2, <2>3
    <2>7. \A s \in DOMAIN layers' : layers'[s] \subseteq contents'
      BY <2>2, <2>3, <2>4
    <2> QED BY <2>5, <2>6, <2>7
  <1>4. ASSUME NEW t \in Threads, PutRemove(t) PROVE ListsInv'
    <2>1. PICK r : r = req[t].repo
      OBVIOUS
    <2>2. CASE /\ r \in DOMAIN layers
               /\ contents' = contents \ layers[r]
               /\ DOMAIN layers' = DOMAIN layers \ {r}
               /\ \A s \in DOMAIN layers' : layers'[s] = layers[s]
      <3>1. ASSUME NEW s \in DOMAIN layers, NEW d \in layers[s], d \in layers[r] PROVE s = r
        <4>1. BegunBlob(s, d) /\ BegunBlob(r, d)
          BY <2>2, <3>1
        <4>2. PICK u \in Threads : \E i \in DOMAIN Plan[u] :
                 Begun(u, i) /\ Plan[u][i].repo = s /\ d \in BlobsOf[Plan[u][i].man]
          BY <4>1 DEF BegunBlob
        <4>3. PICK i \in DOMAIN Plan[u] :
                 Begun(u, i) /\ Plan[u][i].repo = s /\ d \in BlobsOf[Plan[u][i].man]
          BY <4>2
        <4>4. PICK v \in Threads : \E j \in DOMAIN Plan[v] :
                 Begun(v, j) /\ Plan[v][j].repo = r /\ d \in BlobsOf[Plan[v][j].man]
          BY <4>1 DEF BegunBlob
        <4>5. PICK j \in DOMAIN Plan[v] :
                 Begun(v, j) /\ Plan[v][j].repo = r /\ d \in BlobsOf[Plan[v][j].man]
          BY <4>4
        <4>6. OfPush(u, i, d) /\ OfPush(v, j, d)
          BY <4>3, <4>5 DEF OfPush, Begun
        <4>7. u = v /\ i = j
          BY <4>6, BlobOfOne
        <4> QED BY <4>3, <4>5, <4>7
      <3>2. \A s \in DOMAIN layers' : \A e \in layers'[s] : BegunBlob(s, e)'
        BY <1>1, <2>2
      <3>3. \A e \in contents' : \E s \in DOMAIN layers' : e \in layers'[s]
        BY <2>2
      <3>4. \A s \in DOMAIN layers' : layers'[s] \subseteq contents'
        BY <2>2, <3>1
      <3> QED BY <3>2, <3>3, <3>4
    <2> QED BY <1>2, <1>4, <2>1, <2>2, RemoveEffect
  <1>5. ASSUME NEW t \in Threads, Client(t) PROVE ListsInv'
    BY <1>2, <1>5, ClientFrame DEF ClientInv
  <1>6. CASE UNCHANGED vars
    BY <1>2, <1>6 DEF vars, blobVars
  <1> QED BY <1>2, <1>3, <1>4, <1>5, <1>6, StepCases, StoreChange

-----------------------------------------------------------------------------
(* Where manifests, CIDs and lookups come from. *)

\* Which handlers change what references resolve to.
LEMMA HandleMaps ==
    ASSUME NEW t \in Threads, Handle(t)
    PROVE  \/ FetchGateway(t) \/ Reverse(t) \/ PutRegister(t) \/ PutAdd(t)
           \/ UNCHANGED <<manifests, cids, cidFiles>>
  BY DEF Handle, PutBlob, HeadBlobLocal, HeadBlobResolve, HeadBlobGateway, GetBlob, Dig,
         FetchCached, FetchResolve, PutGet, PutRemove, cidVars

\* A repository called by its name resolves to what a push has sent.
LEMMA ResolveSent ==
    ASSUME SentInv, NEW r \in Names, NEW g, Resolve(r, g) # None
    PROVE  SentImage(Resolve(r, g))
  BY DEF SentInv, Resolve, EmptyMap

\* What Put keeps of the two maps of CIDs.
LEMMA PutSent ==
    ASSUME NEW f, NEW ks, NEW c, \A k \in DOMAIN f : SentImage(f[k]), SentImage(c)
    PROVE  \A k \in DOMAIN Put(f, ks, c) : SentImage(Put(f, ks, c)[k])
  BY DEF Put

LEMMA SentStep ==
    ASSUME PushesApart, ApiReached, TypeInv, ClientInv, SentInv, [ClientNext]_allVars
    PROVE  SentInv'
  <1> DEFINE AllSent(f) == \A k \in DOMAIN f : SentImage(f[k])
             KeysSent(f) == \A k \in DOMAIN f : k[2] \in Blobs => SentBlob(k[2])
             ManSent(f) == \A k \in DOMAIN f : SentMan(f[k].man)
             NoBlobs(f) == \A k \in DOMAIN f : k[2] \notin Blobs
  <1>1. /\ ManSent(manifests) /\ AllSent(cids) /\ KeysSent(cids)
        /\ AllSent(cidFiles) /\ NoBlobs(cidFiles) /\ published = EmptyMap
    BY DEF SentInv
  <1>2. /\ \A d : SentBlob(d) => SentBlob(d)'
        /\ \A m : SentMan(m) => SentMan(m)'
        /\ \A c : SentImage(c) => SentImage(c)'
    BY SentGrows DEF SentImage
  <1>3. \A g \in Refs : g \notin Blobs
    BY ImageAssumption DEF PushesApart, Refs
  <1>4. \A t \in Threads : AtGateway(t)' => SentImage(cidOf[t])'
    <2> SUFFICES ASSUME NEW t \in Threads, AtGateway(t)' PROVE SentImage(cidOf'[t])
      BY <1>2
    <2>1. CASE AtGateway(t) /\ cidOf'[t] = cidOf[t]
      BY <2>1 DEF SentInv
    <2>2. CASE /\ pc[t] # "idle" /\ cidOf'[t] # None
               /\ cidOf'[t] = Resolve(req[t].repo, req[t].ref)
      <3>1. req[t].repo \in Names
        BY <2>2, WaitsFor
      <3> QED BY <2>2, <3>1, ResolveSent
    <2> QED BY <2>1, <2>2, ServerSees, GatewayFrame
  <1> SUFFICES /\ ManSent(manifests') /\ AllSent(cids') /\ KeysSent(cids')
               /\ AllSent(cidFiles') /\ NoBlobs(cidFiles') /\ published' = published
    BY <1>1, <1>2, <1>4 DEF SentInv
  <1>5. CASE UNCHANGED <<manifests, cids, cidFiles, published>>
    BY <1>1, <1>5
  <1>6. ASSUME NEW t \in Threads, FetchGateway(t)
        PROVE  ManSent(manifests') /\ AllSent(cids') /\ KeysSent(cids') /\ cidFiles' = cidFiles
    <2>1. CASE UNCHANGED <<manifests, cids>>
      BY <1>1, <1>6, <2>1 DEF FetchGateway
    <2>2. PICK c, d, mf : /\ c = cidOf[t] /\ d = Digest[c.man]
                          /\ mf = [man |-> c.man, digest |-> Digest[c.man]]
      OBVIOUS
    <2>3. SentImage(c)
      BY <1>6, <2>2 DEF FetchGateway, SentInv, AtGateway
    <2>4. d \in Refs
      <3>1. c.man \in Manifests
        BY <2>3 DEF SentImage, Images
      <3> QED BY <2>2, <3>1 DEF Refs, Digests
    <2>5. mf.man = c.man
      BY <2>2
    <2>6. CASE /\ manifests' = Put(manifests, {Target(t), <<req[t].repo, d>>}, mf)
               /\ cids' = Put(cids, {<<req[t].repo, d>>}, c)
      <3>1. ManSent(manifests')
        <4>1. SentMan(mf.man)
          BY <2>3, <2>5 DEF SentImage
        <4> QED BY <1>1, <2>6, <4>1 DEF Put
      <3>2. AllSent(cids')
        BY <1>1, <2>3, <2>6, PutSent
      <3>3. KeysSent(cids')
        BY <1>1, <1>3, <2>4, <2>6 DEF Put
      <3> QED BY <1>6, <3>1, <3>2, <3>3 DEF FetchGateway
    <2> QED BY <1>6, <2>1, <2>2, <2>6 DEF FetchGateway
  <1>7. ASSUME NEW t \in Threads, Reverse(t)
        PROVE  manifests' = manifests /\ AllSent(cids') /\ KeysSent(cids') /\ cidFiles' = cidFiles
    <2>1. CASE UNCHANGED cids
      BY <1>1, <1>7, <2>1 DEF Reverse
    <2>2. PICK c, m, ks : /\ c = Resolve(req[t].repo, req[t].ref)
                          /\ m = manifests[Target(t)].man
                          /\ ks = {req[t].repo} \X BlobsOf[m]
      OBVIOUS
    <2>3. CASE c # None /\ cids' = Put(cids, ks, c)
      <3>1. req[t].repo \in Names /\ Target(t) \in DOMAIN manifests
        BY <1>7, WaitsFor DEF Reverse, TypeInv, Serving
      <3>2. SentImage(c)
        BY <2>2, <2>3, <3>1, ResolveSent
      <3>3. \A d \in BlobsOf[m] : SentBlob(d)
        <4>1. SentMan(m)
          BY <1>1, <2>2, <3>1
        <4> QED BY <4>1 DEF SentMan, SentBlob
      <3>4. AllSent(cids')
        BY <1>1, <2>3, <3>2, PutSent
      <3>5. KeysSent(cids')
        BY <1>1, <2>2, <2>3, <3>3 DEF Put
      <3> QED BY <1>7, <3>4, <3>5 DEF Reverse
    <2> QED BY <1>7, <2>1, <2>2, <2>3 DEF Reverse
  <1>8. ASSUME NEW t \in Threads, PutRegister(t)
        PROVE  ManSent(manifests') /\ cids' = cids /\ cidFiles' = cidFiles
    <2>1. CASE UNCHANGED manifests
      BY <1>1, <1>8, <2>1 DEF PutRegister, cidVars
    <2>2. PICK ks, mf : /\ ks = {Target(t), <<req[t].repo, Digest[req[t].man]>>}
                        /\ mf = [man |-> req[t].man, digest |-> None]
      OBVIOUS
    <2>3. CASE manifests' = Put(manifests, ks, mf)
      <3>1. SentMan(mf.man)
        BY <1>8, <2>2, PutIsSent DEF PutRegister
      <3> QED BY <1>1, <1>8, <2>3, <3>1 DEF PutRegister, cidVars, Put
    <2> QED BY <1>8, <2>1, <2>2, <2>3 DEF PutRegister
  <1>9. ASSUME NEW t \in Threads, PutAdd(t)
        PROVE  /\ manifests' = manifests /\ AllSent(cids') /\ KeysSent(cids')
               /\ AllSent(cidFiles') /\ NoBlobs(cidFiles')
    <2>1. CASE UNCHANGED cidVars
      BY <1>1, <1>9, <2>1 DEF PutAdd, cidVars
    <2>2. ASSUME NEW c \in AddOutcomes(t), Record(t, c)
          PROVE  AllSent(cids') /\ KeysSent(cids') /\ AllSent(cidFiles') /\ NoBlobs(cidFiles')
      <3>1. c = Added(t) /\ c \in Images
        BY <1>9, AddedThen
      <3>2. SentImage(c)
        BY <1>9, <3>1, PutIsSent DEF PutAdd, SentImage, Added
      <3>3. PICK ks : ks = {Target(t), <<req[t].repo, Digest[req[t].man]>>, <<c, Latest>>}
        OBVIOUS
      <3>4. req[t].ref \in Refs /\ Digest[req[t].man] \in Refs /\ Latest \in Refs
        BY <1>9, RequestType, ImageAssumption
          DEF PutAdd, TypeInv, Serving, PutPoints, Refs, Digests
      <3>5. \A k \in ks : k[2] \notin Blobs
        BY <1>3, <3>3, <3>4 DEF Target
      <3>6. PICK kept : /\ kept \subseteq ks /\ cids' = Put(cids, ks, c)
                        /\ (cidFiles' = Put(cidFiles, kept, c) \/ UNCHANGED cidFiles)
        <4>1. {k \in ks : Persistent(k, c)} \subseteq ks
          OBVIOUS
        <4> QED BY <2>2, <3>3, <4>1 DEF Record
      <3>7. AllSent(cids') /\ AllSent(cidFiles')
        BY <1>1, <3>2, <3>6, PutSent
      <3>8. KeysSent(cids') /\ NoBlobs(cidFiles')
        BY <1>1, <3>5, <3>6 DEF Put
      <3> QED BY <3>7, <3>8
    <2> QED BY <1>9, <2>1, <2>2 DEF PutAdd
  <1>10. ASSUME NEW t \in Threads, Client(t)
         PROVE  UNCHANGED <<manifests, cids, cidFiles, published>>
    BY <1>10, ClientFrame DEF ClientInv, cidVars
  <1>11. CASE UNCHANGED vars
    BY <1>5, <1>11 DEF vars
  <1> HIDE DEF AllSent, KeysSent, ManSent, NoBlobs
  <1>12. ASSUME NEW t \in Threads, Handle(t)
         PROVE  /\ ManSent(manifests') /\ AllSent(cids') /\ KeysSent(cids')
                /\ AllSent(cidFiles') /\ NoBlobs(cidFiles') /\ published' = published
    <2>1. published' = published
      BY <1>12, HandleFrame
    <2>2. CASE FetchGateway(t)
      BY <1>1, <1>6, <2>1, <2>2
    <2>3. CASE Reverse(t)
      BY <1>1, <1>7, <2>1, <2>3
    <2>4. CASE PutRegister(t)
      BY <1>1, <1>8, <2>1, <2>4
    <2>5. CASE PutAdd(t)
      BY <1>1, <1>9, <2>1, <2>5
    <2>6. CASE UNCHANGED <<manifests, cids, cidFiles>>
      BY <1>1, <2>1, <2>6
    <2> QED BY <1>12, <2>2, <2>3, <2>4, <2>5, <2>6, HandleMaps
  <1> QED BY <1>5, <1>10, <1>11, <1>12, StepCases

-----------------------------------------------------------------------------
(* From the blobs of a push to its image. *)

\* Nobody takes from the list of a push but the push itself.
LEMMA WaitingGrows ==
    ASSUME PushesApart, TypeInv, ClientInv, NEW t \in Threads,
           phase[t] \in Gathering \cup {"put"}, NEW u \in Threads \ {t}, Handle(u),
           NEW r, r = Job(t).repo
    PROVE  Store!Waiting(r) \subseteq Store!Waiting(r)'
  <1>1. CASE UNCHANGED blobVars
    BY <1>1 DEF blobVars, Store!Waiting
  <1>2. CASE PutBlob(u)
    BY <1>2, UploadEffect DEF Store!Waiting
  <1>3. CASE PutRemove(u)
    <2>1. /\ req[u].repo = Job(u).repo /\ Job(u).kind = "push" /\ job[u] \in DOMAIN Plan[u]
      BY <1>3, WaitsFor, PutIsSent DEF PutRemove
    <2>2. Job(t).kind = "push" /\ job[t] \in DOMAIN Plan[t]
      BY DEF ClientInv, Linked, Gathering
    <2>3. req[u].repo # r
      BY <2>1, <2>2 DEF PushesApart, Job
    <2> QED BY <1>1, <1>3, <2>3, RemoveEffect DEF Store!Waiting
  <1> QED BY <1>1, <1>2, <1>3, StoreChange

LEMMA GatheredFrame ==
    ASSUME NEW t \in Threads, Gathered(t), NEW r, r = Job(t).repo,
           phase[t] \in Gathering \cup {"put"} => Store!Waiting(r) \subseteq Store!Waiting(r)',
           job'[t] = job[t], phase'[t] = phase[t], todo'[t] = todo[t], pc'[t] = pc[t],
           req'[t] = req[t], resp'[t] = resp[t], bundle'[t] = bundle[t]
    PROVE  Gathered(t)'
  <1>1. Job(t)' = Job(t) /\ Job(t).repo = r
    BY DEF Job
  <1>2. Answered200(t)' = Answered200(t)
    BY DEF Answered200
  <1>3. PICK all : all = BlobsOf[Job(t).man]
    OBVIOUS
  <1> QED BY <1>1, <1>2, <1>3 DEF Gathered, Gathering

\* What a push asks for next.
LEMMA GatheredClient ==
    ASSUME TypeInv, ClientInv, NEW t \in Threads, Gathered(t), Client(t)
    PROVE  Gathered(t)'
  <1>1. /\ UNCHANGED <<layers, bundle>>
        /\ \A r : Store!Waiting(r)' = Store!Waiting(r)
    BY ClientFrame DEF ClientInv, blobVars, locals, Store!Waiting
  <1>2. /\ phase \in [Threads -> Phases] /\ job \in [Threads -> Nat]
        /\ todo \in [Threads -> SUBSET Blobs]
    BY DEF ClientInv, ClientTypeOK
  <1>3. CASE Begin(t)
    <2>1. PICK i : i = job[t] + 1
      OBVIOUS
    <2>2. job'[t] = i
      BY <1>2, <1>3, <2>1 DEF Begin
    <2>3. CASE todo' = [todo EXCEPT ![t] = BlobsOf[Plan[t][i].man]] /\ Become(t, "check")
      BY <1>2, <2>2, <2>3 DEF Become, Gathered, Job, Gathering
    <2>4. CASE Become(t, "get")
      BY <1>2, <2>4 DEF Become, Gathered, Gathering
    <2> QED BY <1>3, <2>1, <2>3, <2>4 DEF Begin
  <1>4. PICK r, all : r = Job(t).repo /\ all = BlobsOf[Job(t).man]
    OBVIOUS
  <1>5. UNCHANGED job => Job(t)' = Job(t)
    BY DEF Job
  <1>6. CASE CheckBlob(t)
    <2>1. PICK d \in todo[t] : Ask(t, "HeadBlob", d, None)
      BY <1>6 DEF CheckBlob
    <2>2. pc'[t] = "HeadBlob"
      BY <2>1, AskFrame DEF Ask
    <2>3. phase'[t] = "head" /\ phase[t] = "check" /\ UNCHANGED <<job, todo>>
      BY <1>2, <1>6 DEF CheckBlob, Become
    <2>4. all \ todo[t] \subseteq Store!Waiting(r)
      BY <1>4, <2>3 DEF Gathered, Gathering
    <2> QED BY <1>1, <1>4, <1>5, <2>2, <2>3, <2>4 DEF Gathered, Answered200
  <1>7. CASE BlobThere(t)
    <2>1. /\ UNCHANGED <<vars, job>> /\ phase'[t] = "check" /\ phase[t] \in Gathering
          /\ todo'[t] = todo[t] \ {req[t].ref}
      BY <1>2, <1>7 DEF BlobThere, Become, Gathering
    <2>2. all \ todo[t] \subseteq Store!Waiting(r) /\ req[t].ref \in Store!Waiting(r)
      BY <1>4, <1>7, <2>1 DEF Gathered, BlobThere
    <2> QED BY <1>1, <1>4, <1>5, <2>1, <2>2 DEF Gathered
  <1>8. CASE Upload(t)
    <2>1. PICK q : /\ q = [op |-> "PutBlob", repo |-> Job(t).repo, ref |-> req[t].ref, man |-> None]
                   /\ Send(t, q)
      BY <1>8 DEF Upload, Ask
    <2>2. pc'[t] = "PutBlob"
      BY <2>1, AskFrame
    <2>3. phase'[t] = "upload" /\ phase[t] = "head" /\ UNCHANGED <<job, todo>>
      BY <1>2, <1>8 DEF Upload, Become
    <2>4. all \ todo[t] \subseteq Store!Waiting(r)
      BY <1>4, <2>3 DEF Gathered, Gathering
    <2> QED BY <1>1, <1>4, <1>5, <2>2, <2>3, <2>4 DEF Gathered, Answered200
  <1>9. CASE Finish(t)
    <2>1. PICK q : q.op = "PutManifest" /\ Send(t, q)
      BY <1>9 DEF Finish, Ask
    <2>2. pc'[t] = "PutManifest"
      BY <2>1, AskFrame
    <2>3. phase'[t] = "put" /\ phase[t] = "check" /\ todo[t] = {} /\ UNCHANGED job
      BY <1>2, <1>9 DEF Finish, Become
    <2>4. all \subseteq Store!Waiting(r)
      BY <1>4, <2>3 DEF Gathered, Gathering
    <2> QED BY <1>1, <1>4, <1>5, <2>2, <2>3, <2>4 DEF Gathered, Answered200, Gathering
  <1>10. CASE ManifestHere(t) \/ GetNext(t) \/ BlobHere(t) \/ Succeed(t) \/ Fail(t)
    <2>1. \E p \in {"blobs", "blob", "ready", "failed"} : Become(t, p)
      BY <1>10 DEF ManifestHere, GetNext, BlobHere, Succeed, Fail
    <2>2. phase'[t] \notin Gathering \cup {"put"}
      BY <1>2, <2>1 DEF Become, Gathering
    <2> QED BY <2>2 DEF Gathered, Gathering
  <1> QED BY <1>3, <1>6, <1>7, <1>8, <1>9, <1>10 DEF Client

\* The server cannot be found to have a blob of a push but on the list of the
\* push: no lookup leads to it before the manifest.
LEMMA NotElsewhere ==
    ASSUME PushesApart, TypeInv, ClientInv, ListsInv, SentInv,
           NEW t \in Threads, phase[t] = "head", pc[t] = "HeadBlob"
    PROVE  /\ req[t].ref \in contents => req[t].ref \in Store!Waiting(Job(t).repo)
           /\ Resolve(req[t].repo, req[t].ref) = None
  <1>1. PICK i, d, r : i = job[t] /\ d = req[t].ref /\ r = req[t].repo
    OBVIOUS
  <1>2. /\ i \in DOMAIN Plan[t] /\ Plan[t][i].kind = "push" /\ d \in BlobsOf[Plan[t][i].man]
        /\ r = Job(t).repo /\ r = Plan[t][i].repo /\ r \in Names
    BY <1>1, WaitsFor DEF ClientInv, Linked, Job, Gathering
  <1>3. d \in Blobs
    BY <1>2, JobType
  <1>4. ASSUME d \in contents PROVE d \in Store!Waiting(r)
    <2>1. PICK s \in DOMAIN layers : d \in layers[s]
      BY <1>4 DEF ListsInv
    <2>2. BegunBlob(s, d)
      BY <2>1 DEF ListsInv
    <2>3. PICK u \in Threads : \E j \in DOMAIN Plan[u] :
             Begun(u, j) /\ Plan[u][j].repo = s /\ d \in BlobsOf[Plan[u][j].man]
      BY <2>2 DEF BegunBlob
    <2>4. PICK j \in DOMAIN Plan[u] :
             Begun(u, j) /\ Plan[u][j].repo = s /\ d \in BlobsOf[Plan[u][j].man]
      BY <2>3
    <2>5. u = t /\ j = i
      <3>1. OfPush(u, j, d) /\ OfPush(t, i, d)
        BY <1>2, <2>4 DEF Begun, OfPush
      <3> QED BY <1>2, <3>1, BlobOfOne
    <2> QED BY <1>2, <2>1, <2>4, <2>5 DEF Store!Waiting
  <1>5. ~SentBlob(d)
    <2> SUFFICES ASSUME NEW u \in Threads, NEW j \in DOMAIN Plan[u],
                        Sent(u, j), d \in BlobsOf[Plan[u][j].man]
                 PROVE  FALSE
      BY DEF SentBlob
    <2>1. u = t /\ j = i
      <3>1. OfPush(u, j, d) /\ OfPush(t, i, d)
        BY <1>2 DEF Sent, OfPush
      <3> QED BY <1>2, <3>1, BlobOfOne
    <2>2. i \in Nat
      BY <1>2, JobType
    <2> QED BY <1>1, <2>1, <2>2 DEF Sent, Gathering
  <1>6. <<r, d>> \notin DOMAIN cids /\ <<r, d>> \notin DOMAIN cidFiles
    BY <1>3, <1>5 DEF SentInv
  <1>7. Resolve(r, d) = None
    BY <1>2, <1>6 DEF Resolve, SentInv, EmptyMap
  <1> QED BY <1>1, <1>2, <1>4, <1>7

\* What the handlers make of it.
LEMMA GatheredHandle ==
    ASSUME PushesApart, ApiReached, TypeInv, ClientInv, ListsInv, SentInv,
           NEW t \in Threads, Gathered(t), Handle(t), UNCHANGED clientVars
    PROVE  Gathered(t)'
  <1>1. /\ UNCHANGED req /\ pc[t] # "idle" /\ (pc'[t] # "idle" => resp'[t] = resp[t])
        /\ job'[t] = job[t] /\ phase'[t] = phase[t] /\ todo'[t] = todo[t]
        /\ Job(t)' = Job(t) /\ phase[t] \in Phases
    BY HandleFrame DEF clientVars, Job, ClientInv, ClientTypeOK
  <1>2. PICK r, all, d : r = Job(t).repo /\ all = BlobsOf[Job(t).man] /\ d = req[t].ref
    OBVIOUS
  <1>3. UNCHANGED blobVars => Store!Waiting(r)' = Store!Waiting(r)
    BY DEF blobVars, Store!Waiting
  <1>4. pc \in [Threads -> Points] /\ resp \in [Threads -> Answers]
        /\ bundle \in [Threads -> SUBSET Blobs]
    BY DEF TypeInv, TypeOK
  <1>5. CASE phase[t] = "head"
    <2>1. HeadBlobLocal(t) \/ HeadBlobResolve(t)
      <3>1. HeadBlobLocal(t) \/ HeadBlobResolve(t) \/ HeadBlobGateway(t)
        BY <1>5, HandlerOf DEF ClientInv, Linked, Asked
      <3>2. ~HeadBlobGateway(t)
        BY <1>5 DEF HeadBlobGateway, Gathered
      <3> QED BY <3>1, <3>2
    <2>2. pc[t] = "HeadBlob" /\ UNCHANGED blobVars
      BY <2>1 DEF HeadBlobLocal, HeadBlobResolve
    <2>3. /\ d \in contents => d \in Store!Waiting(r)
          /\ Resolve(req[t].repo, req[t].ref) = None
      BY <1>2, <1>5, <2>2, NotElsewhere
    <2>4. pc'[t] = "idle" /\ (Answered200(t)' => d \in Store!Waiting(r))
      <3>1. CASE HeadBlobLocal(t)
        BY <1>2, <1>4, <2>3, <3>1 DEF HeadBlobLocal, Reply
      <3>2. CASE HeadBlobResolve(t)
        <4>1. Reply(t, Answer("404"))
          BY <2>3, <3>2 DEF HeadBlobResolve
        <4> QED BY <1>4, <4>1 DEF Reply, Answered200, Answer
      <3> QED BY <2>1, <3>1, <3>2
    <2>5. all \ todo[t] \subseteq Store!Waiting(r)
      BY <1>2, <1>5 DEF Gathered, Gathering
    <2> QED BY <1>1, <1>2, <1>3, <1>5, <2>2, <2>4, <2>5 DEF Gathered
  <1>6. CASE phase[t] = "upload"
    <2>1. PutBlob(t)
      BY <1>6, HandlerOf DEF ClientInv, Linked, Asked
    <2>2. req[t].repo = r
      BY <1>1, <1>2, WaitsFor
    <2>3. Store!Waiting(r) \cup {d} \subseteq Store!Waiting(r)'
      BY <1>2, <2>1, <2>2, UploadEffect DEF Store!Waiting
    <2>4. all \ todo[t] \subseteq Store!Waiting(r)
      BY <1>2, <1>6 DEF Gathered, Gathering
    <2> QED BY <1>1, <1>2, <1>6, <2>3, <2>4 DEF Gathered
  <1>7. CASE phase[t] = "put"
    <2>1. PutRegister(t) \/ PutGet(t) \/ PutRemove(t) \/ PutAdd(t)
      BY <1>7, HandlerOf DEF ClientInv, Linked, Asked
    <2>2. req[t].repo = r /\ req[t].man = Job(t).man
      BY <1>1, <1>2, <1>7, WaitsFor DEF ClientInv, Linked
    <2>3. /\ pc[t] \in {"PutManifest", "putGet"} => all \subseteq Store!Waiting(r)
          /\ pc[t] \in {"putRemove", "putAdd"} => all \subseteq bundle[t]
      BY <1>2, <1>7 DEF Gathered
    <2>4. ASSUME NEW s \in {"404", "500"}, Reply(t, Answer(s)) PROVE Gathered(t)'
      <3>1. pc'[t] = "idle" /\ ~Answered200(t)'
        BY <1>4, <2>4 DEF Reply, Answered200, Answer
      <3> QED BY <1>1, <1>7, <3>1 DEF Gathered, Gathering
    <2>5. CASE PutRegister(t)
      <3>1. CASE Goto(t, "putGet") /\ UNCHANGED blobVars
        <4>1. pc'[t] = "putGet"
          BY <1>4, <3>1 DEF Goto
        <4>2. all \subseteq Store!Waiting(r)'
          BY <1>3, <2>3, <2>5, <3>1 DEF PutRegister
        <4> QED BY <1>1, <1>2, <1>7, <4>1, <4>2 DEF Gathered, Gathering, Answered200
      <3> QED BY <2>4, <2>5, <3>1 DEF PutRegister
    <2>6. CASE PutGet(t)
      <3>1. CASE Store!Ready(r) /\ bundle' = [bundle EXCEPT ![t] = layers[r]] /\ Goto(t, "putRemove")
        <4>1. pc'[t] = "putRemove" /\ bundle'[t] = layers[r]
          BY <1>4, <3>1 DEF Goto
        <4>2. all \subseteq bundle'[t]
          BY <2>3, <2>6, <3>1, <4>1 DEF PutGet, Store!Ready, Store!Waiting
        <4> QED BY <1>1, <1>2, <1>7, <4>1, <4>2 DEF Gathered, Gathering, Answered200
      <3> QED BY <2>2, <2>4, <2>6, <3>1 DEF PutGet
    <2>7. CASE PutRemove(t)
      <3>1. pc'[t] = "putAdd" /\ bundle'[t] = bundle[t]
        BY <1>4, <2>7 DEF PutRemove, Goto, locals
      <3>2. all \subseteq bundle'[t]
        BY <2>3, <2>7, <3>1 DEF PutRemove
      <3> QED BY <1>1, <1>2, <1>7, <3>1, <3>2 DEF Gathered, Gathering, Answered200
    <2>8. CASE PutAdd(t)
      <3>1. ASSUME NEW c \in AddOutcomes(t),
                   Reply(t, [Answer("201") EXCEPT !.digest = Digest[req[t].man], !.cid = c])
            PROVE  Gathered(t)'
        <4> DEFINE a == [Answer("201") EXCEPT !.digest = Digest[req[t].man], !.cid = c]
        <4>1. a.cid = c
          BY DEF Answer
        <4>2. Reply(t, a)
          BY <3>1
        <4> HIDE DEF a
        <4>3. pc'[t] = "idle" /\ resp'[t].cid = c
          BY <1>4, <4>1, <4>2 DEF Reply
        <4>4. c = Added(t) /\ c \in Images
          BY <2>8, AddedThen
        <4>5. c # EmptyCid /\ c.man = Job(t).man /\ all \subseteq c.blobs
          BY <2>2, <2>3, <2>8, <4>4, ImageAssumption DEF PutAdd, Added
        <4> QED BY <1>1, <1>2, <1>7, <4>3, <4>5 DEF Gathered, Gathering
      <3> QED BY <2>4, <2>8, <3>1 DEF PutAdd
    <2> QED BY <2>1, <2>5, <2>6, <2>7, <2>8
  <1>8. CASE phase[t] \notin {"head", "upload", "put"}
    <2>1. phase[t] \notin Gathering \cup {"put"}
      BY <1>1, <1>8 DEF ClientInv, Linked, Gathering
    <2> QED BY <1>1, <2>1 DEF Gathered, Gathering
  <1> QED BY <1>5, <1>6, <1>7, <1>8

LEMMA PushStep ==
    ASSUME PushesApart, ApiReached, TypeInv, ClientInv, PushInv, [ClientNext]_allVars
    PROVE  PushInv'
  <1> USE DEF PushInv
  <1>1. ListsInv' /\ SentInv'
    BY ListsStep, SentStep
  <1>2. ASSUME NEW t \in Threads, Client(t), NEW u \in Threads PROVE Gathered(u)'
    <2>1. CASE u = t
      BY <1>2, <2>1, GatheredClient
    <2>2. CASE u # t
      <3>1. PICK r : r = Job(u).repo
        OBVIOUS
      <3>2. Store!Waiting(r)' = Store!Waiting(r) /\ UNCHANGED bundle
        BY <1>2, ClientFrame DEF ClientInv, blobVars, locals, Store!Waiting
      <3> QED BY <1>2, <2>2, <3>1, <3>2, ClientFrame, GatheredFrame DEF ClientInv
    <2> QED BY <2>1, <2>2
  <1>3. ASSUME NEW t \in Threads, Handle(t), UNCHANGED clientVars, NEW u \in Threads
        PROVE  Gathered(u)'
    <2>1. CASE u = t
      BY <1>3, <2>1, GatheredHandle
    <2>2. CASE u # t
      <3>1. PICK r : r = Job(u).repo
        OBVIOUS
      <3>2. phase[u] \in Gathering \cup {"put"} => Store!Waiting(r) \subseteq Store!Waiting(r)'
        BY <1>3, <2>2, <3>1, WaitingGrows
      <3>3. /\ job'[u] = job[u] /\ phase'[u] = phase[u] /\ todo'[u] = todo[u]
            /\ pc'[u] = pc[u] /\ req'[u] = req[u] /\ resp'[u] = resp[u] /\ bundle'[u] = bundle[u]
        BY <1>3, <2>2, HandleFrame DEF clientVars
      <3> QED BY <3>1, <3>2, <3>3, GatheredFrame
    <2> QED BY <2>1, <2>2
  <1>4. ASSUME UNCHANGED <<vars, clientVars>>, NEW u \in Threads PROVE Gathered(u)'
    <2>1. PICK r : r = Job(u).repo
      OBVIOUS
    <2>2. Store!Waiting(r)' = Store!Waiting(r)
      BY <1>4 DEF vars, Store!Waiting
    <2> QED BY <1>4, <2>1, <2>2, GatheredFrame DEF vars, clientVars
  <1> QED BY <1>1, <1>2, <1>3, <1>4, StepCases

LEMMA PushStart == ClientInit => PushInv
  <1> SUFFICES ASSUME ClientInit PROVE PushInv
    OBVIOUS
  <1>1. ListsInv
    BY DEF ClientInit, Init, Store!Init, Store!EmptyMap, ListsInv, ListsHeld
  <1>2. SentInv
    BY DEF ClientInit, Init, SentInv, EmptyMap, AtGateway
  <1>3. \A t \in Threads : Gathered(t)
    BY DEF ClientInit, Init, Gathered, Gathering
  <1> QED BY <1>1, <1>2, <1>3 DEF PushInv

\* However many clients push, pull and fail next to each other, the image a
\* successful push leaves on IPFS has every blob of its manifest, provided the
\* pushes share no layer, each repository has one client that pushes into it, and
\* the IPFS API can be reached.
THEOREM PushesComplete == PushesApart /\ ApiReached => (ClientSpec => []PushComplete)
  <1> SUFFICES ASSUME PushesApart, ApiReached PROVE ClientSpec => []PushComplete
    OBVIOUS
  <1>1. TypeInv /\ ClientInv /\ PushInv /\ [ClientNext]_allVars
          => TypeInv' /\ ClientInv' /\ PushInv'
    BY ClientStep, PushStep, ServerSees, TypeStep
  <1>2. PushInv => PushComplete
    BY DEF PushInv, Gathered, PushComplete
  <1> QED BY <1>1, <1>2, ClientStart, PushStart, PTL DEF ClientSpec

\* No handler takes b.lock and keeps it.
LEMMA LockFree ==
    ASSUME PushesApart, HasConfig, ApiReached, TypeInv, ClientInv, PushInv,
           RemoveFindsList, bLock = None, [ClientNext]_allVars
    PROVE  bLock' = None
  <1>1. ASSUME NEW t \in Threads, HeadBlobResolve(t) PROVE bLock' = None
    <2>1. pc[t] = "HeadBlob" /\ phase[t] = "head"
      BY <1>1, WaitsFor DEF HeadBlobResolve
    <2>2. Resolve(req[t].repo, req[t].ref) = None
      BY <2>1, NotElsewhere DEF PushInv
    <2> QED BY <1>1, <2>2 DEF HeadBlobResolve
  <1>2. ASSUME NEW t \in Threads, PutGet(t) PROVE bLock' = None
    <2>1. /\ pc[t] = "putGet" /\ phase[t] = "put" /\ req[t].repo = Job(t).repo
          /\ job[t] \in DOMAIN Plan[t]
      BY <1>2, WaitsFor DEF PutGet
    <2>2. Job(t).kind = "push" /\ BlobsOf[Job(t).man] \subseteq Store!Waiting(Job(t).repo)
      BY <1>2, <2>1, PutIsSent DEF PutGet, PushInv, Gathered
    <2>3. BlobsOf[Job(t).man] # {}
      BY <2>1, <2>2, JobType DEF Job, HasConfig
    <2>4. Store!Ready(req[t].repo)
      BY <2>1, <2>2, <2>3 DEF Store!Waiting, Store!Ready, PushInv, ListsInv, ListsHeld
    <2> QED BY <1>2, <2>4 DEF PutGet
  <1>3. ASSUME NEW t \in Threads, PutRemove(t) PROVE bLock' = None
    BY <1>3 DEF PutRemove, RemoveFindsList
  <1>4. ASSUME NEW t \in Threads, Handle(t),
               ~HeadBlobResolve(t), ~PutGet(t), ~PutRemove(t)
        PROVE  bLock' = None
    BY <1>4 DEF Handle, PutBlob, HeadBlobLocal, HeadBlobGateway, GetBlob, Dig,
         FetchCached, FetchResolve, FetchGateway, Reverse, PutRegister, PutAdd
  <1>5. ASSUME NEW t \in Threads, Client(t) PROVE bLock' = None
    BY <1>5, ClientFrame DEF ClientInv
  <1>6. CASE UNCHANGED vars
    BY <1>6 DEF vars
  <1> QED BY <1>1, <1>2, <1>3, <1>4, <1>5, <1>6, StepCases

\* However many clients push, pull and fail next to each other, b.lock is given
\* back, if the pushes share no layer, each repository has one client that pushes
\* into it, and the IPFS API can be reached: PUT always finds a list for its
\* repository in the store, and the bytes of all that is on it.
THEOREM LockComesBack ==
    PushesApart /\ HasConfig /\ ApiReached => (ClientSpec => []LockGivenBack)
  <1> SUFFICES ASSUME PushesApart, HasConfig, ApiReached
               PROVE  ClientSpec => []LockGivenBack
    OBVIOUS
  <1>1. TypeInv /\ ClientInv /\ PushInv /\ [ClientNext]_allVars
          => TypeInv' /\ ClientInv' /\ PushInv'
    BY ClientStep, PushStep, ServerSees, TypeStep
  <1>2. TypeInv /\ LookupInv /\ [ClientNext]_allVars => LookupInv'
    BY ServerSees, LookupStep
  <1>3. TypeInv /\ ClientInv /\ PushInv /\ LookupInv /\ bLock = None /\ [ClientNext]_allVars
          => (bLock = None)'
    BY LockFree DEF LookupInv
  <1>4. ClientInit => LookupInv /\ bLock = None
    BY ThreadAssumption
      DEF ClientInit, Init, LookupInv, LockInv, RemoveFindsList, ManifestSection
  <1>5. bLock = None => LockGivenBack
    BY DEF LockGivenBack
  <1> QED
    BY <1>1, <1>2, <1>3, <1>4, <1>5, ClientStart, PushStart, PTL DEF ClientSpec

-----------------------------------------------------------------------------
(* From a manifest to its blobs. *)

\* The blobs a pull was told of can be looked up.
Found(t) ==
    /\ (phase[t] = "get" /\ Answered200(t)) =>
          {Job(t).repo} \X BlobsOf[resp[t].man] \subseteq DOMAIN cids
    /\ phase[t] \in {"blobs", "blob"} => {Job(t).repo} \X todo[t] \subseteq DOMAIN cids
    /\ phase[t] = "blob" => resp[t].status # "404"

PullInv == \A t \in Threads : Found(t)

\* Nothing that can be looked up is forgotten.
LEMMA LookupsStay ==
    ASSUME TypeInv, ClientInv, [ClientNext]_allVars
    PROVE  DOMAIN cids \subseteq DOMAIN cids'
  <1>1. ASSUME NEW t \in Threads, Handle(t) PROVE DOMAIN cids \subseteq DOMAIN cids'
    <2>1. cids' = cids \/ \E ks, c : cids' = Put(cids, ks, c)
      BY <1>1, HandleMaps DEF FetchGateway, Reverse, PutRegister, PutAdd, Record, cidVars
    <2> QED BY <2>1 DEF Put
  <1>2. ASSUME NEW t \in Threads, Client(t) PROVE cids' = cids
    BY <1>2, ClientFrame DEF ClientInv, cidVars
  <1>3. CASE UNCHANGED vars
    BY <1>3 DEF vars
  <1> QED BY <1>1, <1>2, <1>3, StepCases

LEMMA FoundFrame ==
    ASSUME NEW t \in Threads, Found(t), DOMAIN cids \subseteq DOMAIN cids',
           job'[t] = job[t], phase'[t] = phase[t], todo'[t] = todo[t],
           pc'[t] = pc[t], resp'[t] = resp[t]
    PROVE  Found(t)'
  <1>1. Job(t)' = Job(t)
    BY DEF Job
  <1>2. Answered200(t)' = Answered200(t)
    BY DEF Answered200
  <1>3. PICK r, all : r = Job(t).repo /\ all = BlobsOf[resp[t].man]
    OBVIOUS
  <1> QED BY <1>1, <1>2, <1>3 DEF Found

\* A pull asks for the blobs of the manifest it was given, and for no others.
LEMMA FoundClient ==
    ASSUME TypeInv, ClientInv, NEW t \in Threads, Found(t), Client(t)
    PROVE  Found(t)'
  <1>1. cids' = cids
    BY ClientFrame DEF ClientInv, cidVars
  <1>2. /\ phase \in [Threads -> Phases] /\ todo \in [Threads -> SUBSET Blobs]
    BY DEF ClientInv, ClientTypeOK
  <1>3. PICK r : r = Job(t).repo
    OBVIOUS
  <1>4. UNCHANGED job => Job(t)' = Job(t)
    BY DEF Job
  <1>5. CASE Begin(t)
    <2>1. CASE Become(t, "check")
      BY <1>2, <2>1 DEF Become, Found
    <2>2. ASSUME NEW q, Send(t, q), Become(t, "get") PROVE Found(t)'
      <3>1. pc'[t] # "idle"
        BY <2>2, AskFrame
      <3> QED BY <1>2, <2>2, <3>1 DEF Become, Found, Answered200
    <2> QED BY <1>5, <2>1, <2>2 DEF Begin
  <1>6. CASE CheckBlob(t) \/ BlobThere(t) \/ Upload(t) \/ Finish(t) \/ Succeed(t) \/ Fail(t)
    <2>1. \E p \in {"check", "head", "upload", "put", "ready", "failed"} : Become(t, p)
      BY <1>6 DEF CheckBlob, BlobThere, Upload, Finish, Succeed, Fail
    <2>2. phase'[t] \notin {"get", "blobs", "blob"}
      BY <1>2, <2>1 DEF Become
    <2> QED BY <2>2 DEF Found
  <1>7. CASE ManifestHere(t)
    <2>1. PICK all : all = BlobsOf[resp[t].man]
      OBVIOUS
    <2>2. phase'[t] = "blobs" /\ todo'[t] = all /\ UNCHANGED job
      BY <1>2, <1>7, <2>1 DEF ManifestHere, Become
    <2>3. {r} \X all \subseteq DOMAIN cids
      BY <1>3, <1>7, <2>1 DEF ManifestHere, Found
    <2> QED BY <1>1, <1>3, <1>4, <2>2, <2>3 DEF Found
  <1>8. CASE GetNext(t)
    <2>1. PICK q : Send(t, q)
      BY <1>8 DEF GetNext, Ask
    <2>2. resp'[t].status = "none"
      BY <2>1, AskFrame DEF Answer
    <2>3. phase'[t] = "blob" /\ phase[t] = "blobs" /\ UNCHANGED <<job, todo>>
      BY <1>2, <1>8 DEF GetNext, Become
    <2>4. {r} \X todo[t] \subseteq DOMAIN cids
      BY <1>3, <2>3 DEF Found
    <2> QED BY <1>1, <1>3, <1>4, <2>2, <2>3, <2>4 DEF Found
  <1>9. CASE BlobHere(t)
    <2>1. phase'[t] = "blobs" /\ todo'[t] \subseteq todo[t] /\ UNCHANGED job
      BY <1>2, <1>9 DEF BlobHere, Become
    <2>2. {r} \X todo[t] \subseteq DOMAIN cids
      BY <1>3, <1>9 DEF BlobHere, Found
    <2> QED BY <1>1, <1>3, <1>4, <2>1, <2>2 DEF Found
  <1> QED BY <1>5, <1>6, <1>7, <1>8, <1>9 DEF Client

\* A GET of a manifest prepares the lookups, and a GET of a blob finds them.
LEMMA FoundHandle ==
    ASSUME "gateway" \notin Env, TypeInv, ClientInv, WholeInv,
           NEW t \in Threads, Found(t), Handle(t), UNCHANGED clientVars
    PROVE  Found(t)'
  <1>1. /\ pc[t] # "idle" /\ phase'[t] = phase[t] /\ todo'[t] = todo[t]
        /\ Job(t)' = Job(t) /\ Linked(t)
    BY HandleFrame DEF clientVars, Job, ClientInv
  <1>2. PICK r : r = Job(t).repo
    OBVIOUS
  <1>3. pc \in [Threads -> Points] /\ resp \in [Threads -> Answers]
    BY DEF TypeInv, TypeOK
  <1>4. CASE phase[t] = "get"
    <2>1. req[t].op = "GetManifest" /\ req[t].repo = r
      BY <1>1, <1>2, <1>4 DEF Linked, Asked
    <2>2. ASSUME Answered200(t)' PROVE {r} \X BlobsOf[resp'[t].man] \subseteq DOMAIN cids'
      <3>1. pc'[t] = "idle" /\ resp'[t].status \in {"200", "201"}
        BY <2>2 DEF Answered200
      <3>2. ~Reply(t, Answer("404")) /\ ~Reply(t, Answer("panic"))
        BY <1>3, <3>1 DEF Reply, Answer
      <3>3. ~Goto(t, "reverse") /\ ~Goto(t, "fetchGateway")
        BY <1>3, <3>1 DEF Goto
      <3>4. ~FetchCached(t) /\ ~FetchResolve(t) /\ ~FetchGateway(t)
        BY <2>1, <3>2, <3>3 DEF FetchCached, FetchResolve, FetchGateway, Fetched
      <3>5. Reverse(t)
        BY <2>1, <3>4, HandlerOf
      <3>6. PICK mf, c : mf = manifests[Target(t)] /\ c = Resolve(req[t].repo, req[t].ref)
        OBVIOUS
      <3>7. /\ cids' = Put(cids, {r} \X BlobsOf[mf.man], c)
            /\ Reply(t, Served("200", mf, c))
        BY <2>1, <3>2, <3>5, <3>6 DEF Reverse
      <3>8. resp'[t].man = mf.man
        BY <1>3, <3>7 DEF Reply, Served
      <3> QED BY <3>7, <3>8 DEF Put
    <2> QED BY <1>1, <1>2, <1>4, <2>2 DEF Found
  <1>5. CASE phase[t] = "blob"
    <2>1. PICK d : d = req[t].ref
      OBVIOUS
    <2>2. /\ req[t].op = "GetBlob" /\ req[t].repo = r /\ d \in todo[t] /\ d \in Blobs
      BY <1>1, <1>2, <1>5, <2>1 DEF Linked, Asked, ClientInv, ClientTypeOK
    <2>3. GetBlob(t) /\ UNCHANGED cids
      BY <2>2, HandlerOf DEF GetBlob, cidVars
    <2>4. {r} \X todo[t] \subseteq DOMAIN cids
      BY <1>2, <1>5 DEF Found
    <2>5. PICK c : c = Resolve(req[t].repo, req[t].ref)
      OBVIOUS
    <2>6. HasBlob(c, d)
      <3>1. <<r, d>> \in DOMAIN cids /\ c = cids[<<r, d>>]
        BY <2>1, <2>2, <2>4, <2>5 DEF Resolve
      <3> QED BY <2>2, <3>1 DEF WholeInv, LeadsToBlobs
    <2>7. Reply(t, [Answer("200") EXCEPT !.cid = c])
      BY <2>1, <2>3, <2>5, <2>6 DEF GetBlob
    <2>8. resp'[t].status = "200"
      BY <1>3, <2>7 DEF Reply, Answer
    <2> QED BY <1>1, <1>2, <1>5, <2>3, <2>4, <2>8 DEF Found
  <1>6. phase[t] # "blobs"
    BY <1>1 DEF Linked
  <1> QED BY <1>1, <1>4, <1>5, <1>6 DEF Found

LEMMA PullStep ==
    ASSUME "gateway" \notin Env, TypeInv, ClientInv, WholeInv, PullInv,
           [ClientNext]_allVars
    PROVE  PullInv'
  <1> USE DEF PullInv
  <1>1. DOMAIN cids \subseteq DOMAIN cids'
    BY LookupsStay
  <1>2. ASSUME NEW t \in Threads, Client(t), NEW u \in Threads PROVE Found(u)'
    <2>1. CASE u = t
      BY <1>2, <2>1, FoundClient
    <2>2. CASE u # t
      BY <1>1, <1>2, <2>2, ClientFrame, FoundFrame DEF ClientInv
    <2> QED BY <2>1, <2>2
  <1>3. ASSUME NEW t \in Threads, Handle(t), UNCHANGED clientVars, NEW u \in Threads
        PROVE  Found(u)'
    <2>1. CASE u = t
      BY <1>3, <2>1, FoundHandle
    <2>2. CASE u # t
      BY <1>1, <1>3, <2>2, HandleFrame, FoundFrame DEF clientVars
    <2> QED BY <2>1, <2>2
  <1>4. ASSUME UNCHANGED <<vars, clientVars>>, NEW u \in Threads PROVE Found(u)'
    BY <1>1, <1>4, FoundFrame DEF vars, clientVars
  <1> QED BY <1>2, <1>3, <1>4, StepCases

\* What pushes put on IPFS is whole, so that what is pulled is.
LEMMA PushesWhole == TypeInv /\ ClientInv /\ PushInv => AddedWhole
  <1> SUFFICES ASSUME TypeInv, ClientInv, PushInv, NEW t \in Threads, PutAdd(t)
               PROVE  Whole(Added(t))
    BY DEF AddedWhole
  <1>1. pc[t] = "putAdd" /\ phase[t] = "put" /\ req[t].man = Job(t).man
    BY WaitsFor, PutIsSent DEF PutAdd
  <1>2. BlobsOf[req[t].man] \subseteq bundle[t]
    BY <1>1 DEF PushInv, Gathered
  <1> QED BY <1>2 DEF Whole, Added

\* As long as no tag is moved, the pushes share no layer and the IPFS API and the
\* gateway answer, a pull that is given a manifest is given every blob of it,
\* whether the image was pushed just before, by whom, and what else is being
\* pushed and pulled.
THEOREM PullsWhole ==
    (PushesApart /\ NothingMoves /\ GivenWhole /\ ApiReached /\ "gateway" \notin Env)
        => (ClientSpec => []PullWhole)
  <1> SUFFICES ASSUME PushesApart, NothingMoves, GivenWhole, ApiReached, "gateway" \notin Env
               PROVE  ClientSpec => []PullWhole
    OBVIOUS
  <1>1. TypeInv /\ ClientInv /\ PushInv /\ [ClientNext]_allVars
          => TypeInv' /\ ClientInv' /\ PushInv'
    BY ClientStep, PushStep, ServerSees, TypeStep
  <1>2. TypeInv /\ Agreed /\ [ClientNext]_allVars => Agreed'
    BY ServerSees, AgreedStep
  <1>3. TypeInv /\ ClientInv /\ PushInv /\ Agreed /\ WholeInv /\ PullInv
             /\ [ClientNext]_allVars
          => WholeInv' /\ PullInv'
    <2> SUFFICES ASSUME TypeInv, ClientInv, PushInv, Agreed, WholeInv, PullInv,
                        [ClientNext]_allVars
                 PROVE  WholeInv' /\ PullInv'
      OBVIOUS
    <2>1. AddedWhole /\ [Next]_vars
      BY PushesWhole, ServerSees
    <2>2. WholeInv'
      BY <2>1, WholeStep
    <2>3. PullInv'
      BY PullStep
    <2> QED BY <2>2, <2>3
  <1>4. ClientInit => Agreed /\ WholeInv /\ PullInv
    <2>1. ClientInit => PullInv
      BY DEF ClientInit, PullInv, Found
    <2> QED BY <2>1, AgreedInit, WholeInit DEF ClientInit
  <1>5. PullInv => PullWhole
    BY DEF PullInv, Found, PullWhole
  <1> QED
    BY <1>1, <1>2, <1>3, <1>4, <1>5, ClientStart, PushStart, PTL DEF ClientSpec
=============================================================================
