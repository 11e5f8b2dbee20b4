------------------------------ MODULE Registry ------------------------------
(***************************************************************************)
(* The registry server of ipdr: server/registry/{registry,manifest,blobs,  *)
(* cids}.go.  A request is served by a goroutine of its own, so a thread   *)
(* here is one connection: it sends a call, the handler runs up to each    *)
(* point where another handler can be seen to run in between (taking a     *)
(* lock, a call to IPFS), and the answer is left in resp.                  *)
(*                                                                         *)
(* A CID names its content, so it is modelled by the content itself: the   *)
(* manifest, the names it is stored under, and the blobs next to it.       *)
(* The handlers hold two mutexes, m.lock around the whole of a manifest    *)
(* call and b.lock around the parts of blobs.go; the maps of cids.go are   *)
(* read and written under a third, which is never held across a step.      *)
(***************************************************************************)
EXTENDS Maps, Functions, FiniteSets

CONSTANTS
    Threads,      \* connections
    Names,        \* repository names
    Tags,         \* manifest tags
    Latest,       \* the tag "latest"
    Plain,        \* image manifests
    Lists,        \* manifest lists (image indexes)
    Blobs,        \* blob digests
    BlobsOf,      \* image manifest -> the digests it lists (config, layers)
    SubManifests, \* manifest list -> the manifests it lists
    Digest,       \* manifest -> its sha256 digest
    Requests,     \* the calls clients make
    External,     \* what the files that resolvers read may come to say
    Env,          \* which events of the environment happen
    None,
    EmptyCid      \* the empty string, where a CID is expected

Manifests == Plain \cup Lists
Digests == {Digest[m] : m \in Manifests}
Refs == Tags \cup Digests
Images == [man : Manifests, refs : SUBSET Refs, blobs : SUBSET Blobs]
Cids == Images \cup {EmptyCid}
Repos == Names \cup Cids
Keys == Repos \X (Refs \cup Blobs)

Ops == {"HeadBlob", "GetBlob", "PutBlob",
        "HeadManifest", "GetManifest", "PutManifest", "Dig"}
Calls == [op : Ops, repo : Names \cup Images, ref : Refs \cup Blobs,
          man : Manifests \cup {None}]
Events == {"gateway",  \* the IPFS gateway does not deliver
           "send",     \* the IPFS API cannot be reached
           "api",      \* the IPFS API answers with an error
           "disk",     \* a file of the CID store cannot be written
           "restart",  \* the server process dies and is started again
           "publish"}  \* a file that a file resolver reads is written

ASSUME ThreadAssumption == None \notin Threads \cup Names

ASSUME ImageAssumption ==
    /\ Latest \in Tags
    /\ Tags \cap (Digests \cup Blobs) = {}
    /\ Names \cap Cids = {}
    /\ EmptyCid \notin Images
    /\ None \notin Cids \cup Manifests \cup Digests
    /\ Plain \cap Lists = {}
    /\ Digest \in [Manifests -> Digests]
    /\ BlobsOf \in [Plain -> SUBSET Blobs]
    /\ SubManifests \in [Lists -> SUBSET Manifests]

\* SHA-256 is taken to be free of collisions.
ASSUME DigestAssumption ==
    \A m, n \in Manifests : Digest[m] = Digest[n] => m = n

ASSUME CallAssumption ==
    /\ Requests \subseteq Calls
    /\ \A q \in Requests : q.op = "PutManifest" => q.man \in Manifests /\ q.ref \in Refs
    /\ \A q \in Requests : q.op = "PutBlob" => q.ref \in Blobs
    /\ External \subseteq [repo : Names, ref : Refs \cup Blobs, cid : Images]
    /\ Env \subseteq Events

VARIABLES
    mLock,     \* who holds manifests.lock
    bLock,     \* who holds blobs.lock
    contents,  \* blobs.contents: digests of the blobs held
    layers,    \* blobs.layers: repo -> digests uploaded there
    manifests, \* manifests.manifests: <<repo, target>> -> manifest
    cids,      \* cidStore.cids: <<repo, reference>> -> CID
    cidFiles,  \* the files under cidStore.location
    published, \* what the external resolvers answer
    pc,        \* where each thread is
    req,       \* the call it serves
    resp,      \* its last answer
    cidOf,     \* the CID it resolved
    bundle     \* the blobs PUT took out of the store to add to IPFS

blobVars == <<contents, layers>>
cidVars == <<cids, cidFiles>>
locals == <<cidOf, bundle>>
vars == <<mLock, bLock, contents, layers, manifests, cids, cidFiles,
          published, pc, req, resp, cidOf, bundle>>

Store == INSTANCE BlobStore

\* A manifest struct: the digest field is filled in by getManifest only.
Entries == [man : Manifests, digest : Digests \cup {None}]
Statuses == {"none", "200", "201", "404", "500", "panic", "aborted"}
Answers == [status : Statuses, man : Manifests \cup {None},
            digest : Digests \cup {None}, cid : Cids \cup {None}]

\* An answer without a body, and one that carries a manifest.
Answer(s) == [status |-> s, man |-> None, digest |-> None, cid |-> None]
Served(s, mf, c) == [status |-> s, man |-> mf.man, digest |-> mf.digest, cid |-> c]

\* Program points inside the critical section of m.lock, and those of b.lock.
ManifestSection == {"fetchGateway", "reverse", "putGet", "putRemove", "putAdd"}
Points == Ops \cup ManifestSection \cup {"idle", "headGateway"}

TypeOK ==
    /\ mLock \in Threads \cup {None}
    /\ bLock \in Threads \cup {None}
    /\ Store!TypeOK
    /\ DOMAIN manifests \subseteq Keys
    /\ \A k \in DOMAIN manifests : manifests[k] \in Entries
    /\ DOMAIN cids \subseteq Keys
    /\ \A k \in DOMAIN cids : cids[k] \in Cids
    /\ DOMAIN cidFiles \subseteq Keys
    /\ \A k \in DOMAIN cidFiles : cidFiles[k] \in Cids
    /\ DOMAIN published \subseteq Keys
    /\ \A k \in DOMAIN published : published[k] \in Images
    /\ pc \in [Threads -> Points]
    /\ req \in [Threads -> Requests \cup {None}]
    /\ resp \in [Threads -> Answers]
    /\ cidOf \in [Threads -> Cids \cup {None}]
    /\ bundle \in [Threads -> SUBSET Blobs]

Init ==
    /\ mLock = None
    /\ bLock = None
    /\ Store!Init
    /\ manifests = EmptyMap
    /\ cids = EmptyMap
    /\ cidFiles = EmptyMap
    /\ published = EmptyMap
    /\ pc = [t \in Threads |-> "idle"]
    /\ req = [t \in Threads |-> None]
    /\ resp = [t \in Threads |-> Answer("none")]
    /\ cidOf = [t \in Threads |-> None]
    /\ bundle = [t \in Threads |-> {}]

-----------------------------------------------------------------------------
(* Resolving a reference, and reading from the gateway. *)

\* Variant: manifests are kept by repository alone.
Target_RepoOnly(t) == <<req[t].repo, Latest>>

Target(t) == <<req[t].repo, req[t].ref>>

\* registry.resolve, first result: the CID store (memory, then its files),
\* the repository path itself when it is a CID, the external resolvers.
Resolve(repo, ref) ==
    LET k == <<repo, ref>> IN
    IF k \in DOMAIN cids THEN cids[k]
    ELSE IF k \in DOMAIN cidFiles THEN cidFiles[k]
    ELSE IF repo \notin Names THEN repo
    ELSE IF k \in DOMAIN published THEN published[k]
    ELSE None

\* Variant: the gateway path is built without the target.
HasManifest_AnyTarget(cid, ref) == cid \notin {None, EmptyCid}

\* <cid>/manifests/<ref> and <cid>/blobs/<d> exist.
HasManifest(cid, ref) == cid \notin {None, EmptyCid} /\ ref \in cid.refs
HasBlob(cid, d) == cid \notin {None, EmptyCid} /\ d \in cid.blobs

\* Variant: the CID's own entry is told by its tag.
Persistent_NotLatest(k, cid) == k[2] \notin Digests \cup Blobs \cup {Latest}

\* The key is given a file unless it is a digest or the CID's own entry.
Persistent(k, cid) == k[1] # cid /\ k[2] \notin Digests \cup Blobs

\* The handler goes on at p, or answers a and its local variables are gone.
Goto(t, p) ==
    /\ pc' = [pc EXCEPT ![t] = p]
    /\ UNCHANGED resp

Reply(t, a) ==
    /\ pc' = [pc EXCEPT ![t] = "idle"]
    /\ resp' = [resp EXCEPT ![t] = a]
    /\ cidOf' = [cidOf EXCEPT ![t] = None]
    /\ bundle' = [bundle EXCEPT ![t] = {}]

-----------------------------------------------------------------------------

\* A client sends a call on an idle connection.
Send(t, q) ==
    /\ pc[t] = "idle"
    /\ q \in Requests
    /\ pc' = [pc EXCEPT ![t] = q.op]
    /\ req' = [req EXCEPT ![t] = q]
    /\ resp' = [resp EXCEPT ![t] = Answer("none")]
    /\ UNCHANGED <<mLock, bLock, blobVars, manifests, cidVars, published, locals>>

-----------------------------------------------------------------------------
(* blobs.go *)

\* An upload whose digest matched is filed under the lock.
PutBlob(t) ==
    /\ pc[t] = "PutBlob"
    /\ bLock = None
    /\ Store!Commit(req[t].repo, req[t].ref)
    /\ Reply(t, Answer("201"))
    /\ UNCHANGED <<mLock, bLock, manifests, cidVars, published, req>>

\* HEAD of a blob some repository has pending.
HeadBlobLocal(t) ==
    /\ pc[t] = "HeadBlob"
    /\ bLock = None
    /\ req[t].ref \in contents
    /\ Reply(t, Answer("200"))
    /\ UNCHANGED <<mLock, bLock, blobVars, manifests, cidVars, published, req>>

\* HEAD of any other blob: it keeps b.lock while it asks the gateway.
HeadBlobResolve(t) ==
    /\ pc[t] = "HeadBlob"
    /\ bLock = None
    /\ req[t].ref \notin contents
    /\ LET cid == Resolve(req[t].repo, req[t].ref) IN
       \/ /\ cid = None
          /\ Reply(t, Answer("404"))
          /\ UNCHANGED bLock
       \/ /\ cid # None
          /\ bLock' = t
          /\ cidOf' = [cidOf EXCEPT ![t] = cid]
          /\ Goto(t, "headGateway")
          /\ UNCHANGED bundle
    /\ UNCHANGED <<mLock, blobVars, manifests, cidVars, published, req>>

HeadBlobGateway(t) ==
    /\ pc[t] = "headGateway"
    /\ \/ /\ HasBlob(cidOf[t], req[t].ref)
          /\ Reply(t, Answer("200"))
       \/ /\ ~HasBlob(cidOf[t], req[t].ref) \/ "gateway" \in Env
          /\ Reply(t, Answer("404"))
    /\ bLock' = None
    /\ UNCHANGED <<mLock, blobVars, manifests, cidVars, published, req>>

\* GET of a blob takes no lock and never looks at contents.  What it gets
\* from the gateway depends on the CID alone, so this is one step.
GetBlob(t) ==
    /\ pc[t] = "GetBlob"
    /\ LET cid == Resolve(req[t].repo, req[t].ref) IN
       \/ /\ HasBlob(cid, req[t].ref)
          /\ Reply(t, [Answer("200") EXCEPT !.cid = cid])
       \/ /\ ~HasBlob(cid, req[t].ref) \/ "gateway" \in Env
          /\ Reply(t, Answer("404"))
    /\ UNCHANGED <<mLock, bLock, blobVars, manifests, cidVars, published, req>>

-----------------------------------------------------------------------------
(* manifest.go, GET and HEAD *)

\* Variant: HEAD returns without the unlock.
Fetched_HeadKeepsLock(t, mf) ==
    \/ /\ req[t].op = "HeadManifest"
       /\ Reply(t, Served("200", mf, None))
       /\ mLock' = t
    \/ /\ req[t].op = "GetManifest"
       /\ Goto(t, "reverse")
       /\ mLock' = t
       /\ UNCHANGED locals

\* The manifest is at hand: HEAD answers, GET goes on under the lock.
Fetched(t, mf) ==
    \/ /\ req[t].op = "HeadManifest"
       /\ Reply(t, Served("200", mf, None))
       /\ mLock' = None
    \/ /\ req[t].op = "GetManifest"
       /\ Goto(t, "reverse")
       /\ mLock' = t
       /\ UNCHANGED locals

FetchCached(t) ==
    /\ pc[t] \in {"HeadManifest", "GetManifest"}
    /\ mLock = None
    /\ Target(t) \in DOMAIN manifests
    /\ Fetched(t, manifests[Target(t)])
    /\ UNCHANGED <<bLock, blobVars, manifests, cidVars, published, req>>

FetchResolve(t) ==
    /\ pc[t] \in {"HeadManifest", "GetManifest"}
    /\ mLock = None
    /\ Target(t) \notin DOMAIN manifests
    /\ LET cid == Resolve(req[t].repo, req[t].ref) IN
       \/ /\ cid = None
          /\ Reply(t, Answer("404"))
          /\ UNCHANGED mLock
       \/ /\ cid # None
          /\ mLock' = t
          /\ cidOf' = [cidOf EXCEPT ![t] = cid]
          /\ Goto(t, "fetchGateway")
          /\ UNCHANGED bundle
    /\ UNCHANGED <<bLock, blobVars, manifests, cidVars, published, req>>

\* getManifest: what <cid>/manifests/<target> holds is cached by target and by
\* its digest, and the digest is made to resolve to the CID.
FetchGateway(t) ==
    /\ pc[t] = "fetchGateway"
    /\ \/ /\ HasManifest(cidOf[t], req[t].ref)
          /\ LET m == cidOf[t].man
                 mf == [man |-> m, digest |-> Digest[m]]
                 byDigest == <<req[t].repo, Digest[m]>>
             IN /\ manifests' = Put(manifests, {Target(t), byDigest}, mf)
                /\ cids' = Put(cids, {byDigest}, cidOf[t])
                /\ Fetched(t, mf)
       \/ /\ ~HasManifest(cidOf[t], req[t].ref) \/ "gateway" \in Env
          /\ Reply(t, Answer("404"))
          /\ mLock' = None
          /\ UNCHANGED <<manifests, cids>>
    /\ UNCHANGED <<bLock, blobVars, cidFiles, published, req>>

\* Variant: the lookup is made with a CID that was never set.
Reverse_Unset(t) ==
    /\ pc[t] = "reverse"
    /\ LET mf == manifests[Target(t)] IN
       /\ mf.man \in Plain
       /\ cids' = Put(cids, {req[t].repo} \X BlobsOf[mf.man], EmptyCid)
       /\ Reply(t, Served("200", mf, Resolve(req[t].repo, req[t].ref)))
    /\ mLock' = None
    /\ UNCHANGED <<bLock, blobVars, manifests, cidFiles, published, req>>

\* Variant: the answer is given with the lock still held.
Reverse_KeepsLock(t) ==
    /\ pc[t] = "reverse"
    /\ LET cid == Resolve(req[t].repo, req[t].ref)
           mf == manifests[Target(t)]
       IN /\ cids' = Put(cids, {req[t].repo} \X BlobsOf[mf.man], cid)
          /\ Reply(t, Served("200", mf, cid))
    /\ UNCHANGED <<mLock, bLock, blobVars, manifests, cidFiles, published, req>>

\* GET resolves once more, points every blob of the manifest at that CID and
\* answers.  A manifest list has no config: Digests() panics, which the HTTP
\* server recovers from after the deferred unlock.
Reverse(t) ==
    /\ pc[t] = "reverse"
    /\ LET cid == Resolve(req[t].repo, req[t].ref)
           mf == manifests[Target(t)]
       IN \/ /\ cid = None
             /\ Reply(t, Answer("404"))
             /\ UNCHANGED cids
          \/ /\ cid # None
             /\ mf.man \in Plain
             /\ cids' = Put(cids, {req[t].repo} \X BlobsOf[mf.man], cid)
             /\ Reply(t, Served("200", mf, cid))
          \/ /\ cid # None
             /\ mf.man \in Lists
             /\ Reply(t, Answer("panic"))
             /\ UNCHANGED cids
    /\ mLock' = None
    /\ UNCHANGED <<bLock, blobVars, manifests, cidFiles, published, req>>

-----------------------------------------------------------------------------
(* manifest.go, PUT *)

\* The manifests a list refers to are registered under the same repository.
Constituents(repo, m) ==
    m \in Lists => \A s \in SubManifests[m] : <<repo, Digest[s]>> \in DOMAIN manifests

\* The manifest is registered by target and by digest, its digest unset.
PutRegister(t) ==
    /\ pc[t] = "PutManifest"
    /\ mLock = None
    /\ LET repo == req[t].repo
           m == req[t].man
       IN \/ /\ ~Constituents(repo, m)
             /\ Reply(t, Answer("404"))
             /\ UNCHANGED <<mLock, manifests>>
          \/ /\ Constituents(repo, m)
             /\ manifests' = Put(manifests, {Target(t), <<repo, Digest[m]>>},
                                 [man |-> m, digest |-> None])
             /\ mLock' = t
             /\ Goto(t, "putGet")
             /\ UNCHANGED locals
    /\ UNCHANGED <<bLock, blobVars, cidVars, published, req>>

\* Variant: the manifest lock is given up before the blobs are looked up.
PutGet_Unlocked(t) ==
    /\ pc[t] = "putGet"
    /\ bLock = None
    /\ LET repo == req[t].repo IN
       \/ /\ Store!Ready(repo)
          /\ bundle' = [bundle EXCEPT ![t] = layers[repo]]
          /\ Goto(t, "putRemove")
          /\ UNCHANGED <<bLock, cidOf>>
       \/ /\ ~Store!Ready(repo)
          /\ bLock' = t
          /\ Reply(t, Answer("404"))
    /\ mLock' = None
    /\ UNCHANGED <<blobVars, manifests, cidVars, published, req>>

\* blobs.get: when it does not find what it looks for it returns with b.lock
\* still held.
PutGet(t) ==
    /\ pc[t] = "putGet"
    /\ bLock = None
    /\ LET repo == req[t].repo IN
       \/ /\ Store!Ready(repo)
          /\ bundle' = [bundle EXCEPT ![t] = layers[repo]]
          /\ Goto(t, "putRemove")
          /\ UNCHANGED <<mLock, bLock, cidOf>>
       \/ /\ ~Store!Ready(repo)
          /\ bLock' = t
          /\ mLock' = None
          /\ Reply(t, Answer("404"))
    /\ UNCHANGED <<blobVars, manifests, cidVars, published, req>>

\* Variant: only the bytes that blobs.get has returned are deleted.
PutRemove_Bundle(t) ==
    /\ pc[t] = "putRemove"
    /\ bLock = None
    /\ LET repo == req[t].repo IN
       \/ /\ repo \in DOMAIN layers
          /\ contents' = contents \ bundle[t]
          /\ layers' = Restrict(layers, (DOMAIN layers) \ {repo})
          /\ UNCHANGED bLock
       \/ /\ repo \notin DOMAIN layers
          /\ bLock' = t
          /\ UNCHANGED blobVars
    /\ Goto(t, "putAdd")
    /\ UNCHANGED <<mLock, manifests, cidVars, published, req, locals>>

\* blobs.remove: it too returns with b.lock held when the repository is gone.
PutRemove(t) ==
    /\ pc[t] = "putRemove"
    /\ bLock = None
    /\ LET repo == req[t].repo IN
       \/ /\ repo \in DOMAIN layers
          /\ Store!Discard(repo)
          /\ UNCHANGED bLock
       \/ /\ repo \notin DOMAIN layers
          /\ bLock' = t
          /\ UNCHANGED blobVars
    /\ Goto(t, "putAdd")
    /\ UNCHANGED <<mLock, manifests, cidVars, published, req, locals>>

\* What AddImage stores: the manifest under three names, and the blobs.
Added(t) ==
    LET m == req[t].man IN
    [man |-> m, refs |-> {req[t].ref, Digest[m], Latest}, blobs |-> bundle[t]]

\* The outcomes of AddImage.  A request that cannot be sent gives no CID and
\* no error.
AddOutcomes(t) ==
    {Added(t)} \cup (IF "send" \in Env THEN {EmptyCid} ELSE {})

\* Variant: the store is given no CID.
Record_NoCid(t, cid) ==
    /\ cids' = Put(cids, {Target(t)}, None)
    /\ UNCHANGED cidFiles

\* cids.Add three times; a failed write goes unnoticed.
Record(t, cid) ==
    LET repo == req[t].repo
        ks == {Target(t), <<repo, Digest[req[t].man]>>, <<cid, Latest>>}
        kept == {k \in ks : Persistent(k, cid)}
    IN /\ cids' = Put(cids, ks, cid)
       /\ \/ cidFiles' = Put(cidFiles, kept, cid)
          \/ "disk" \in Env /\ UNCHANGED cidFiles

PutAdd(t) ==
    /\ pc[t] = "putAdd"
    /\ \/ \E cid \in AddOutcomes(t) :
             /\ Record(t, cid)
             /\ Reply(t, [Answer("201") EXCEPT !.digest = Digest[req[t].man],
                                               !.cid = cid])
       \/ /\ "api" \in Env
          /\ Reply(t, Answer("500"))
          /\ UNCHANGED cidVars
    /\ mLock' = None
    /\ UNCHANGED <<bLock, blobVars, manifests, published, req>>

-----------------------------------------------------------------------------
(* registry.go: /dig, and what happens around the server *)

\* /dig?q=name:tag&short=true: no lock, nothing changes.  The header with the
\* CID is set after the status is written, so only the body carries it.
Dig(t) ==
    /\ pc[t] = "Dig"
    /\ LET cid == Resolve(req[t].repo, req[t].ref) IN
       \/ /\ cid = None
          /\ Reply(t, Answer("404"))
       \/ /\ cid # None
          /\ Reply(t, [Answer("200") EXCEPT !.cid = cid])
    /\ UNCHANGED <<mLock, bLock, blobVars, manifests, cidVars, published, req>>

\* The process dies and is started again: only the files are left.
Restart ==
    /\ "restart" \in Env
    /\ mLock' = None
    /\ bLock' = None
    /\ Store!Forget
    /\ manifests' = EmptyMap
    /\ cids' = EmptyMap
    /\ pc' = [t \in Threads |-> "idle"]
    /\ resp' = [t \in Threads |->
                   IF pc[t] = "idle" THEN resp[t] ELSE Answer("aborted")]
    /\ cidOf' = [t \in Threads |-> None]
    /\ bundle' = [t \in Threads |-> {}]
    /\ UNCHANGED <<cidFiles, published, req>>

\* A file under the root of a file resolver is written, not by this server.  A
\* tree on IPFS is what was published before the server was started.
Publish(x) ==
    /\ "publish" \in Env
    /\ x \in External
    /\ published' = Put(published, {<<x.repo, x.ref>>}, x.cid)
    /\ UNCHANGED <<mLock, bLock, blobVars, manifests, cidVars, pc, req, resp, locals>>

-----------------------------------------------------------------------------

\* One step of the handler that serves thread t.
Handle(t) ==
    \/ PutBlob(t)
    \/ HeadBlobLocal(t)
    \/ HeadBlobResolve(t)
    \/ HeadBlobGateway(t)
    \/ GetBlob(t)
    \/ FetchCached(t)
    \/ FetchResolve(t)
    \/ FetchGateway(t)
    \/ Reverse(t)
    \/ PutRegister(t)
    \/ PutGet(t)
    \/ PutRemove(t)
    \/ PutAdd(t)
    \/ Dig(t)

Next ==
    \/ \E t \in Threads : \E q \in Requests : Send(t, q)
    \/ \E t \in Threads : Handle(t)
    \/ Restart
    \/ \E x \in External : Publish(x)

Spec == Init /\ [][Next]_vars

\* Goroutines are scheduled, a sync.Mutex is handed to whoever waits longest
\* for it (its starvation mode), and calls to IPFS return.
Fairness == \A t \in Threads : SF_vars(Handle(t))

FairSpec == Spec /\ Fairness

-----------------------------------------------------------------------------
(* Properties. *)

\* The calls and records of the outside are honest: what is put or published
\* under a digest has that digest.
Honest(cid) == cid \in Images => \A m \in Manifests : Digest[m] \in cid.refs => cid.man = m

HonestWorld ==
    /\ \A q \in Requests :
          /\ q.repo \in Images => Honest(q.repo)
          /\ q.op = "PutManifest" => (q.ref \in Digests => q.ref = Digest[q.man])
    /\ \A x \in External : Honest(x.cid)

\* A manifest asked for by digest is the manifest with that digest, whatever
\* was pushed, fetched and cached under the same repository before, and
\* whatever became of the calls that did it (manifest.go 164-165, 224-229).
PullByDigest ==
    /\ \A k \in DOMAIN manifests : \A m \in Manifests :
          k[2] = Digest[m] => manifests[k].man = m
    /\ \A t \in Threads : \A m \in Manifests :
          (resp[t].man # None /\ req[t].ref = Digest[m]) => resp[t].man = m

\* Between the two calls PUT makes into the blob store (manifest.go 167-177)
\* the list it read stays there, so that the early return of blobs.remove
\* (blobs.go 332), which keeps the lock, is never taken; and no blob of it is
\* deleted by a PUT of another repository.
RemoveFindsList ==
    \A t \in Threads : pc[t] = "putRemove" =>
        /\ req[t].repo \in DOMAIN layers
        /\ bundle[t] \subseteq layers[req[t].repo]
        /\ bundle[t] \subseteq contents

\* A blob that is held waits for the manifest of some repository: what is on no
\* list would be taken out of memory by no PUT and go into no image, while HEAD
\* went on to answer that it is there (blobs.go 91, 325-341), also when a blob comes
\* between blobs.get and blobs.remove and when repositories share one.
HeldListed == \A d \in contents : \E r \in DOMAIN layers : d \in layers[r]

\* A restart changes nothing of what the tags of the repositories resolve to:
\* the files of the CID store say what its memory said (cids.go 32-34, 43-48).
RestartKeepsTags ==
    [][Restart => \A r \in Names, g \in Tags : Resolve(r, g)' = Resolve(r, g)]_vars

\* Every call is answered.
Answered == \A t \in Threads : pc[t] # "idle" ~> pc[t] = "idle"

\* What is said of a reference: what clients put and others publish there, the
\* manifest with that digest, and, in a CID, the manifest of the CID.
Says(r, g) ==
    {q.man : q \in {p \in Requests : p.op = "PutManifest" /\ p.repo = r /\ p.ref = g}}
    \cup {x.cid.man : x \in {y \in External : y.repo = r /\ y.ref = g}}
    \cup (IF r \in Names THEN {m \in Manifests : Digest[m] = g} ELSE {r.man})

\* No reference is ever moved to another manifest, and no manifest is a layer.
NothingMoves ==
    /\ \A r \in Names \cup Images, g \in Refs : \A m, n \in Says(r, g) : m = n
    /\ Digests \cap Blobs = {}

\* The image has every blob of its manifest.
Whole(cid) == cid.man \in Plain => BlobsOf[cid.man] \subseteq cid.blobs

\* What is published, and what is asked for by CID, is whole.
GivenWhole ==
    /\ \A q \in Requests : q.repo \in Images => Whole(q.repo)
    /\ \A x \in External : Whole(x.cid)

\* Nobody puts manifests, and there are whole images to pull.
OnlyPulls == GivenWhole /\ \A q \in Requests : q.op # "PutManifest"

\* The lookup GET prepares for the blobs of a manifest (manifest.go 76-89)
\* leads to a CID under which the blob is.
ReverseSound ==
    \A k \in DOMAIN cids : k[2] \in Blobs => HasBlob(cids[k], k[2])

\* A GET of a manifest names the CID its manifest comes from.
ServedFromCid ==
    \A t \in Threads : (resp[t].man # None /\ resp[t].cid # None)
        => resp[t].cid # EmptyCid /\ resp[t].cid.man = resp[t].man

-----------------------------------------------------------------------------
(* What the code or its documents say and a step of it contradicts. *)

\* A manifest PUT that is answered 201 has been stored: it has a CID
\* (ipfs.go 232-234; ipfs_test.go 25-27 expects a non-empty hash).
StoredHasCid ==
    \A t \in Threads : (req[t] # None /\ req[t].op = "PutManifest" /\ resp[t].status = "201")
        => resp[t].cid # EmptyCid

=============================================================================
