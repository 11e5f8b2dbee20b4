--------------------------- MODULE RegistryProofs ---------------------------
(***************************************************************************)
(* Theorems about Registry, for any number of connections, repositories,   *)
(* manifests and blobs, any calls and any events of the environment.       *)
(***************************************************************************)
EXTENDS Registry, MapTheorems

-----------------------------------------------------------------------------
(* Types.  TypeOK is not inductive: the type of what a step writes depends  *)
(* on which call the thread serves, and where it is.                        *)

PutPoints == {"putGet", "putRemove", "putAdd"}
Gets == {"HeadManifest", "GetManifest"}

\* Where a thread is says which call it serves and what it has resolved.
Serving ==
    \A t \in Threads :
        /\ pc[t] # "idle" => req[t] \in Requests
        /\ pc[t] \in Ops => req[t].op = pc[t]
        /\ pc[t] = "headGateway" => req[t].op = "HeadBlob" /\ cidOf[t] \in Cids
        /\ pc[t] = "fetchGateway" => req[t].op \in Gets /\ cidOf[t] \in Cids
        /\ pc[t] = "reverse" => req[t].op = "GetManifest" /\ Target(t) \in DOMAIN manifests
        /\ pc[t] \in PutPoints => req[t].op = "PutManifest"

TypeInv == TypeOK /\ Serving

\* A call names a repository, a reference and, where it needs one, a manifest.
LEMMA RequestType ==
    ASSUME NEW q \in Requests
    PROVE  /\ q.op \in Ops
           /\ q.repo \in Repos /\ q.repo # None /\ q.repo \in Names \cup Images
           /\ q.ref \in Refs \cup Blobs
           /\ <<q.repo, q.ref>> \in Keys
           /\ q.op = "PutManifest" => q.man \in Manifests /\ q.ref \in Refs
           /\ q.op = "PutBlob" => q.ref \in Blobs
  <1>1. q \in Calls
    BY CallAssumption
  <1>2. q.op \in Ops /\ q.repo \in Names \cup Images /\ q.ref \in Refs \cup Blobs
    BY <1>1 DEF Calls
  <1>3. q.repo \in Repos /\ <<q.repo, q.ref>> \in Keys
    BY <1>2 DEF Repos, Cids, Keys
  <1>4. q.repo # None
    BY <1>2, ThreadAssumption, ImageAssumption DEF Cids
  <1> QED
    BY <1>2, <1>3, <1>4, CallAssumption

\* What resolving a call's reference can give.
LEMMA ResolveType ==
    ASSUME TypeOK, NEW q \in Requests
    PROVE  Resolve(q.repo, q.ref) \in Cids \cup {None}
  <1>1. q.repo \notin Names => q.repo \in Cids
    BY RequestType DEF Cids
  <1>2. \A k \in DOMAIN cids : cids[k] \in Cids
    BY DEF TypeOK
  <1>3. \A k \in DOMAIN cidFiles : cidFiles[k] \in Cids
    BY DEF TypeOK
  <1>4. \A k \in DOMAIN published : published[k] \in Cids
    BY DEF TypeOK, Cids
  <1> QED
    BY <1>1, <1>2, <1>3, <1>4 DEF Resolve

\* A CID that is neither missing nor empty has the parts of an image.
LEMMA ImageParts ==
    ASSUME NEW c \in Cids \cup {None}, c \notin {None, EmptyCid}
    PROVE  /\ c \in Images
           /\ c.man \in Manifests
           /\ Digest[c.man] \in Digests
  <1>1. c \in Images
    BY DEF Cids
  <1>2. c.man \in Manifests
    BY <1>1 DEF Images
  <1> QED
    BY <1>1, <1>2 DEF Digests

\* Answering leaves the thread idle, with an answer and no local variables.
LEMMA ReplyType ==
    ASSUME TypeOK, NEW t \in Threads, NEW a \in Answers, Reply(t, a)
    PROVE  /\ pc' \in [Threads -> Points]
           /\ resp' \in [Threads -> Answers]
           /\ cidOf' \in [Threads -> Cids \cup {None}]
           /\ bundle' \in [Threads -> SUBSET Blobs]
  BY DEF TypeOK, Reply, Points

\* Going on at a point leaves the thread there, with its answer as it was.
LEMMA GotoType ==
    ASSUME TypeOK, NEW t \in Threads, NEW p \in Points, Goto(t, p)
    PROVE  /\ pc' \in [Threads -> Points]
           /\ resp' \in [Threads -> Answers]
  BY DEF TypeOK, Goto

\* The answers the handlers give are answers.
LEMMA AnswerType ==
    /\ \A s \in Statuses : Answer(s) \in Answers
    /\ \A s \in Statuses, c \in Cids \cup {None} :
          [Answer(s) EXCEPT !.cid = c] \in Answers
    /\ \A s \in Statuses, mf \in Entries, c \in Cids \cup {None} :
          Served(s, mf, c) \in Answers
    /\ \A m \in Manifests, c \in Cids :
          [Answer("201") EXCEPT !.digest = Digest[m], !.cid = c] \in Answers
  <1>1. \A m \in Manifests : Digest[m] \in Digests
    BY DEF Digests
  <1> QED
    BY <1>1 DEF Answer, Answers, Served, Entries, Statuses

\* The store's map operators are those of this module.
LEMMA StoreMaps ==
    /\ \A f, ks, v : Store!Put(f, ks, v) = Put(f, ks, v)
    /\ \A f, S : Store!Restrict(f, S) = Restrict(f, S)
  BY DEF Store!Put, Put, Store!Restrict, Restrict

\* Filing a blob, and forgetting what a repository uploaded, keep the types.
LEMMA CommitType ==
    ASSUME Store!TypeOK, NEW r \in Repos, NEW d \in Blobs, Store!Commit(r, d)
    PROVE  Store!TypeOK'
  <1> DEFINE S == Store!Waiting(r) \cup {d}
  <1>1. S \in SUBSET Blobs
    BY DEF Store!TypeOK, Store!Waiting
  <1>2. layers' = Put(layers, {r}, S) /\ contents' = contents \cup {d}
    BY StoreMaps DEF Store!Commit
  <1> HIDE DEF S
  <1> QED
    BY <1>1, <1>2 DEF Store!TypeOK, Put

LEMMA DiscardType ==
    ASSUME Store!TypeOK, NEW r, Store!Discard(r)
    PROVE  Store!TypeOK'
  BY StoreMaps, RestrictValue DEF Store!TypeOK, Store!Discard

\* Answering preserves what Serving says when no manifest is forgotten.
LEMMA ReplyServing ==
    ASSUME TypeInv, NEW t \in Threads, NEW a, Reply(t, a),
           UNCHANGED req, DOMAIN manifests \subseteq DOMAIN manifests'
    PROVE  Serving'
  BY DEF TypeInv, TypeOK, Serving, Reply, Target, Ops, PutPoints

\* What AddImage stores is an image.
LEMMA AddedImage ==
    ASSUME TypeInv, NEW t \in Threads, pc[t] = "putAdd"
    PROVE  Added(t) \in Images
  <1>1. req[t] \in Requests /\ req[t].man \in Manifests /\ req[t].ref \in Refs
    BY RequestType DEF TypeInv, Serving, PutPoints
  <1>2. bundle[t] \subseteq Blobs
    BY DEF TypeInv, TypeOK
  <1>3. {req[t].ref, Digest[req[t].man], Latest} \subseteq Refs
    BY <1>1, ImageAssumption DEF Refs, Digests
  <1> QED BY <1>1, <1>2, <1>3 DEF Added, Images

\* It may also store nothing, and give the empty CID.
LEMMA AddedType ==
    ASSUME TypeInv, NEW t \in Threads, pc[t] = "putAdd"
    PROVE  AddOutcomes(t) \subseteq Cids
  BY AddedImage DEF AddOutcomes, Cids

\* Every step preserves the types and where the threads are.
LEMMA TypeStep == TypeInv /\ [Next]_vars => TypeInv'
  <1> SUFFICES ASSUME TypeInv, [Next]_vars PROVE TypeInv'
    OBVIOUS
  <1> USE DEF TypeInv
  <1>1. ASSUME NEW t \in Threads, NEW q \in Requests, Send(t, q) PROVE TypeInv'
    <2>1. q.op \in Points
      BY RequestType DEF Points
    <2>2. Answer("none") \in Answers
      BY AnswerType DEF Statuses
    <2>3. TypeOK'
      BY <1>1, <2>1, <2>2 DEF Send, TypeOK, Store!TypeOK, blobVars, cidVars, locals
    <2>4. Serving'
      BY <1>1, <2>1, RequestType DEF Send, TypeOK, Serving, Target, Ops,
        PutPoints, ManifestSection, Points, blobVars, cidVars, locals
    <2> QED BY <2>3, <2>4
  <1>2. ASSUME NEW t \in Threads, PutBlob(t) PROVE TypeInv'
    <2>1. req[t].ref \in Blobs /\ req[t].repo \in Repos
      BY <1>2, RequestType DEF PutBlob, Serving, Ops
    <2>2. Answer("201") \in Answers
      BY AnswerType DEF Statuses
    <2>3. Store!TypeOK'
      BY <1>2, <2>1, CommitType DEF PutBlob, TypeOK
    <2>4. TypeOK'
      BY <1>2, <2>2, <2>3, ReplyType DEF PutBlob, TypeOK, cidVars, locals
    <2> QED BY <1>2, <2>4, ReplyServing DEF PutBlob
  <1>3. ASSUME NEW t \in Threads, HeadBlobLocal(t) \/ Dig(t) PROVE TypeInv'
    <2>1. Resolve(req[t].repo, req[t].ref) \in Cids \cup {None}
      BY <1>3, ResolveType DEF HeadBlobLocal, Dig, Serving
    <2>2. PICK a \in Answers : Reply(t, a)
      BY <1>3, <2>1, AnswerType DEF HeadBlobLocal, Dig, Statuses
    <2>3. TypeOK'
      BY <1>3, <2>2, ReplyType DEF HeadBlobLocal, Dig, TypeOK, Store!TypeOK, cidVars, blobVars
    <2> QED BY <1>3, <2>2, <2>3, ReplyServing DEF HeadBlobLocal, Dig
  <1>4. ASSUME NEW t \in Threads, HeadBlobResolve(t) PROVE TypeInv'
    <2> DEFINE cid == Resolve(req[t].repo, req[t].ref)
    <2>1. cid \in Cids \cup {None}
      BY <1>4, ResolveType DEF HeadBlobResolve, Serving
    <2>2. CASE Reply(t, Answer("404")) /\ UNCHANGED bLock
      <3>1. TypeOK'
        BY <1>4, <2>2, AnswerType, ReplyType
          DEF HeadBlobResolve, TypeOK, Store!TypeOK, cidVars, blobVars, Statuses
      <3> QED BY <1>4, <2>2, <3>1, ReplyServing DEF HeadBlobResolve
    <2>3. CASE /\ cid # None
               /\ bLock' = t
               /\ cidOf' = [cidOf EXCEPT ![t] = cid]
               /\ Goto(t, "headGateway")
               /\ UNCHANGED bundle
      <3> HIDE DEF cid
      <3>1. TypeOK'
        BY <1>4, <2>1, <2>3, GotoType
          DEF HeadBlobResolve, TypeOK, Store!TypeOK, cidVars, blobVars, Points
      <3>2. Serving'
        BY <1>4, <2>1, <2>3
          DEF HeadBlobResolve, TypeOK, Serving, Goto, Target, Ops, PutPoints
      <3> QED BY <3>1, <3>2
    <2> QED BY <1>4, <2>2, <2>3 DEF HeadBlobResolve
  <1>5. ASSUME NEW t \in Threads, HeadBlobGateway(t) \/ GetBlob(t) PROVE TypeInv'
    <2>1. Resolve(req[t].repo, req[t].ref) \in Cids \cup {None}
      BY <1>5, ResolveType DEF HeadBlobGateway, GetBlob, Serving
    <2>2. PICK a \in Answers : Reply(t, a)
      BY <1>5, <2>1, AnswerType DEF HeadBlobGateway, GetBlob, Statuses
    <2>3. TypeOK'
      BY <1>5, <2>2, ReplyType
        DEF HeadBlobGateway, GetBlob, TypeOK, Store!TypeOK, cidVars, blobVars
    <2> QED BY <1>5, <2>2, <2>3, ReplyServing DEF HeadBlobGateway, GetBlob
  <1>6. ASSUME NEW t \in Threads, FetchCached(t) PROVE TypeInv'
    <2>1. manifests[Target(t)] \in Entries
      BY <1>6 DEF FetchCached, TypeOK
    <2>2. Served("200", manifests[Target(t)], None) \in Answers
      BY <2>1, AnswerType DEF Statuses
    <2>3. CASE req[t].op = "HeadManifest"
      <3>1. Reply(t, Served("200", manifests[Target(t)], None)) /\ mLock' = None
        BY <1>6, <2>3 DEF FetchCached, Fetched
      <3>2. TypeOK'
        BY <1>6, <2>2, <3>1, ReplyType DEF FetchCached, TypeOK, Store!TypeOK, cidVars, blobVars
      <3> QED BY <1>6, <3>1, <3>2, ReplyServing DEF FetchCached
    <2>4. CASE req[t].op = "GetManifest" /\ Goto(t, "reverse") /\ mLock' = t /\ UNCHANGED locals
      <3>1. TypeOK'
        BY <1>6, <2>4, GotoType
          DEF FetchCached, TypeOK, Store!TypeOK, cidVars, blobVars, locals, Points, ManifestSection
      <3>2. Serving'
        BY <1>6, <2>4
          DEF FetchCached, TypeOK, Serving, Goto, Target, Ops, PutPoints, locals
      <3> QED BY <3>1, <3>2
    <2> QED BY <1>6, <2>3, <2>4 DEF FetchCached, Fetched
  <1>7. ASSUME NEW t \in Threads, FetchResolve(t) PROVE TypeInv'
    <2> DEFINE cid == Resolve(req[t].repo, req[t].ref)
    <2>1. cid \in Cids \cup {None}
      BY <1>7, ResolveType DEF FetchResolve, Serving
    <2>2. CASE Reply(t, Answer("404")) /\ UNCHANGED mLock
      <3>1. TypeOK'
        BY <1>7, <2>2, AnswerType, ReplyType
          DEF FetchResolve, TypeOK, Store!TypeOK, cidVars, blobVars, Statuses
      <3> QED BY <1>7, <2>2, <3>1, ReplyServing DEF FetchResolve
    <2>3. CASE /\ cid # None
               /\ mLock' = t
               /\ cidOf' = [cidOf EXCEPT ![t] = cid]
               /\ Goto(t, "fetchGateway")
               /\ UNCHANGED bundle
      <3> HIDE DEF cid
      <3>1. TypeOK'
        BY <1>7, <2>1, <2>3, GotoType
          DEF FetchResolve, TypeOK, Store!TypeOK, cidVars, blobVars, Points, ManifestSection
      <3>2. Serving'
        BY <1>7, <2>1, <2>3
          DEF FetchResolve, TypeOK, Serving, Goto, Target, Ops, PutPoints, Gets
      <3> QED BY <3>1, <3>2
    <2> QED BY <1>7, <2>2, <2>3 DEF FetchResolve
  <1>8. ASSUME NEW t \in Threads, FetchGateway(t) PROVE TypeInv'
    <2> DEFINE c == cidOf[t]
               mf == [man |-> c.man, digest |-> Digest[c.man]]
               byDigest == <<req[t].repo, Digest[c.man]>>
    <2>1. req[t] \in Requests /\ c \in Cids /\ Target(t) \in Keys /\ req[t].op \in Gets
      BY <1>8, RequestType DEF FetchGateway, Serving, Target
    <2>2. CASE /\ HasManifest(c, req[t].ref)
               /\ manifests' = Put(manifests, {Target(t), byDigest}, mf)
               /\ cids' = Put(cids, {byDigest}, c)
               /\ Fetched(t, mf)
      <3>1. c.man \in Manifests /\ Digest[c.man] \in Digests
        BY <2>1, <2>2, ImageParts DEF HasManifest
      <3>2. mf \in Entries /\ byDigest \in Keys
        BY <2>1, <3>1, RequestType DEF Entries, Keys, Refs
      <3>3. Served("200", mf, None) \in Answers
        BY <3>2, AnswerType DEF Statuses
      <3> HIDE DEF mf, byDigest, c
      <3>4. /\ DOMAIN manifests' \subseteq Keys
            /\ \A k \in DOMAIN manifests' : manifests'[k] \in Entries
            /\ DOMAIN cids' \subseteq Keys
            /\ \A k \in DOMAIN cids' : cids'[k] \in Cids
            /\ DOMAIN manifests \subseteq DOMAIN manifests'
            /\ Target(t) \in DOMAIN manifests'
        BY <2>1, <2>2, <3>2 DEF TypeOK, Put
      <3>5. CASE Reply(t, Served("200", mf, None)) /\ mLock' = None
        <4>1. TypeOK'
          BY <1>8, <3>3, <3>4, <3>5, ReplyType DEF FetchGateway, TypeOK, Store!TypeOK, blobVars
        <4> QED BY <1>8, <3>4, <3>5, <4>1, ReplyServing DEF FetchGateway
      <3>6. CASE req[t].op = "GetManifest" /\ Goto(t, "reverse") /\ mLock' = t /\ UNCHANGED locals
        <4>1. TypeOK'
          BY <1>8, <3>4, <3>6, GotoType
            DEF FetchGateway, TypeOK, Store!TypeOK, blobVars, locals, Points, ManifestSection
        <4>2. Serving'
          BY <1>8, <3>4, <3>6
            DEF FetchGateway, TypeOK, Serving, Goto, Target, Ops, PutPoints, locals
        <4> QED BY <4>1, <4>2
      <3> QED BY <2>2, <3>5, <3>6 DEF Fetched
    <2>3. CASE Reply(t, Answer("404")) /\ mLock' = None /\ UNCHANGED <<manifests, cids>>
      <3>1. TypeOK'
        BY <1>8, <2>3, AnswerType, ReplyType
          DEF FetchGateway, TypeOK, Store!TypeOK, blobVars, Statuses
      <3> QED BY <1>8, <2>3, <3>1, ReplyServing DEF FetchGateway
    <2> QED BY <1>8, <2>2, <2>3 DEF FetchGateway
  <1>9. ASSUME NEW t \in Threads, Reverse(t) PROVE TypeInv'
    <2> DEFINE c == Resolve(req[t].repo, req[t].ref)
               mf == manifests[Target(t)]
    <2>1. c \in Cids \cup {None} /\ mf \in Entries /\ req[t] \in Requests
      BY <1>9, ResolveType DEF Reverse, Serving, TypeOK
    <2>2. PICK a \in Answers : Reply(t, a)
      BY <1>9, <2>1, AnswerType DEF Reverse, Statuses
    <2>3. DOMAIN cids' \subseteq Keys /\ \A k \in DOMAIN cids' : cids'[k] \in Cids
      <3>1. CASE UNCHANGED cids
        BY <3>1 DEF TypeOK
      <3>2. CASE c # None /\ mf.man \in Plain /\ cids' = Put(cids, {req[t].repo} \X BlobsOf[mf.man], c)
        <4>1. BlobsOf[mf.man] \subseteq Blobs
          BY <3>2, ImageAssumption
        <4>2. {req[t].repo} \X BlobsOf[mf.man] \subseteq Keys
          BY <2>1, <4>1, RequestType DEF Keys
        <4> DEFINE ks == {req[t].repo} \X BlobsOf[mf.man]
        <4> HIDE DEF ks, c, mf
        <4> QED BY <2>1, <3>2, <4>2 DEF TypeOK, Put, ks
      <3> QED BY <1>9, <3>1, <3>2 DEF Reverse
    <2>4. TypeOK'
      BY <1>9, <2>2, <2>3, ReplyType DEF Reverse, TypeOK, Store!TypeOK, blobVars
    <2> QED BY <1>9, <2>2, <2>4, ReplyServing DEF Reverse
  <1>10. ASSUME NEW t \in Threads, PutRegister(t) PROVE TypeInv'
    <2> DEFINE m == req[t].man
               mf == [man |-> m, digest |-> None]
               byDigest == <<req[t].repo, Digest[m]>>
    <2>1. req[t] \in Requests /\ m \in Manifests /\ Target(t) \in Keys
      BY <1>10, RequestType DEF PutRegister, Serving, Target, Ops
    <2>2. mf \in Entries /\ byDigest \in Keys
      BY <2>1, RequestType DEF Entries, Keys, Refs, Digests
    <2>3. CASE Reply(t, Answer("404")) /\ UNCHANGED <<mLock, manifests>>
      <3>1. TypeOK'
        BY <1>10, <2>3, AnswerType, ReplyType
          DEF PutRegister, TypeOK, Store!TypeOK, blobVars, cidVars, Statuses
      <3> QED BY <1>10, <2>3, <3>1, ReplyServing DEF PutRegister
    <2>4. CASE /\ manifests' = Put(manifests, {Target(t), byDigest}, mf)
               /\ mLock' = t
               /\ Goto(t, "putGet")
               /\ UNCHANGED locals
      <3> HIDE DEF mf, byDigest, m
      <3>1. /\ DOMAIN manifests' \subseteq Keys
            /\ \A k \in DOMAIN manifests' : manifests'[k] \in Entries
            /\ DOMAIN manifests \subseteq DOMAIN manifests'
        BY <2>1, <2>2, <2>4 DEF TypeOK, Put
      <3>2. TypeOK'
        BY <1>10, <2>4, <3>1, GotoType
          DEF PutRegister, TypeOK, Store!TypeOK, blobVars, cidVars, locals, Points, ManifestSection
      <3>3. Serving'
        BY <1>10, <2>4, <3>1
          DEF PutRegister, TypeOK, Serving, Goto, Target, Ops, PutPoints, locals
      <3> QED BY <3>2, <3>3
    <2> QED BY <1>10, <2>3, <2>4 DEF PutRegister
  <1>11. ASSUME NEW t \in Threads, PutGet(t) PROVE TypeInv'
    <2>1. CASE /\ Store!Ready(req[t].repo)
               /\ bundle' = [bundle EXCEPT ![t] = layers[req[t].repo]]
               /\ Goto(t, "putRemove")
               /\ UNCHANGED <<mLock, bLock, cidOf>>
      <3>1. layers[req[t].repo] \in SUBSET Blobs
        BY <2>1 DEF Store!Ready, TypeOK, Store!TypeOK
      <3>2. TypeOK'
        BY <1>11, <2>1, <3>1, GotoType
          DEF PutGet, TypeOK, Store!TypeOK, blobVars, cidVars, Points, ManifestSection
      <3>3. Serving'
        BY <1>11, <2>1 DEF PutGet, TypeOK, Serving, Goto, Target, Ops, PutPoints
      <3> QED BY <3>2, <3>3
    <2>2. CASE bLock' = t /\ mLock' = None /\ Reply(t, Answer("404"))
      <3>1. TypeOK'
        BY <1>11, <2>2, AnswerType, ReplyType
          DEF PutGet, TypeOK, Store!TypeOK, blobVars, cidVars, Statuses
      <3> QED BY <1>11, <2>2, <3>1, ReplyServing DEF PutGet
    <2> QED BY <1>11, <2>1, <2>2 DEF PutGet
  <1>12. ASSUME NEW t \in Threads, PutRemove(t) PROVE TypeInv'
    <2>1. Store!TypeOK' /\ bLock' \in Threads \cup {None}
      BY <1>12, DiscardType DEF PutRemove, TypeOK, Store!TypeOK, blobVars
    <2>2. TypeOK'
      BY <1>12, <2>1, GotoType DEF PutRemove, TypeOK, cidVars, locals, Points, ManifestSection
    <2>3. Serving'
      BY <1>12 DEF PutRemove, TypeOK, Serving, Goto, Target, Ops, PutPoints, locals
    <2> QED BY <2>2, <2>3
  <1>13. ASSUME NEW t \in Threads, PutAdd(t) PROVE TypeInv'
    <2>1. /\ req[t] \in Requests /\ req[t].man \in Manifests /\ req[t].ref \in Refs
          /\ Target(t) \in Keys
          /\ <<req[t].repo, Digest[req[t].man]>> \in Keys
      BY <1>13, RequestType DEF PutAdd, Serving, PutPoints, Target, Keys, Refs, Digests
    <2>2. AddOutcomes(t) \subseteq Cids
      BY <1>13, AddedType DEF PutAdd
    <2>3. ASSUME NEW c \in AddOutcomes(t), Record(t, c),
                 Reply(t, [Answer("201") EXCEPT !.digest = Digest[req[t].man], !.cid = c])
          PROVE  TypeOK'
      <3> DEFINE ks == {Target(t), <<req[t].repo, Digest[req[t].man]>>, <<c, Latest>>}
                 kept == {k \in ks : Persistent(k, c)}
      <3>1. c \in Cids
        BY <2>2, <2>3
      <3>2. ks \subseteq Keys /\ kept \subseteq ks
        BY <2>1, <3>1, ImageAssumption DEF Keys, Repos, Refs
      <3>3. /\ cids' = Put(cids, ks, c)
            /\ cidFiles' = Put(cidFiles, kept, c) \/ UNCHANGED cidFiles
        BY <2>3 DEF Record
      <3> HIDE DEF ks, kept
      <3>4. /\ DOMAIN cids' \subseteq Keys
            /\ \A k \in DOMAIN cids' : cids'[k] \in Cids
            /\ DOMAIN cidFiles' \subseteq Keys
            /\ \A k \in DOMAIN cidFiles' : cidFiles'[k] \in Cids
        BY <3>1, <3>2, <3>3 DEF TypeOK, Put
      <3> QED BY <1>13, <2>1, <2>3, <3>1, <3>4, AnswerType, ReplyType
            DEF PutAdd, TypeOK, Store!TypeOK, blobVars
    <2>4. ASSUME Reply(t, Answer("500")), UNCHANGED cidVars PROVE TypeOK'
      BY <1>13, <2>4, AnswerType, ReplyType
        DEF PutAdd, TypeOK, Store!TypeOK, blobVars, cidVars, Statuses
    <2>5. TypeOK' /\ \E a : Reply(t, a)
      BY <1>13, <2>3, <2>4 DEF PutAdd
    <2> QED BY <1>13, <2>5, ReplyServing DEF PutAdd
  <1>14. ASSUME Restart PROVE TypeInv'
    <2>1. Answer("aborted") \in Answers
      BY AnswerType DEF Statuses
    <2>2. TypeOK'
      BY <1>14, <2>1 DEF Restart, TypeOK, Store!TypeOK, Store!Forget, Store!EmptyMap, EmptyMap, Points
    <2>3. Serving'
      BY <1>14 DEF Restart, Serving, Ops, PutPoints
    <2> QED BY <2>2, <2>3
  <1>15. ASSUME NEW x \in External, Publish(x) PROVE TypeInv'
    <2>1. <<x.repo, x.ref>> \in Keys /\ x.cid \in Images
      BY CallAssumption DEF Keys, Repos
    <2>2. /\ DOMAIN published' \subseteq Keys
          /\ \A k \in DOMAIN published' : published'[k] \in Images
      BY <1>15, <2>1 DEF Publish, TypeOK, Put
    <2>3. TypeOK'
      BY <1>15, <2>2 DEF Publish, TypeOK, Store!TypeOK, blobVars, cidVars, locals
    <2>4. Serving'
      BY <1>15 DEF Publish, Serving, Target, locals
    <2> QED BY <2>3, <2>4
  <1>16. CASE UNCHANGED vars
    BY <1>16 DEF vars, TypeOK, Store!TypeOK, Serving, Target
  <1> QED
    BY <1>1, <1>2, <1>3, <1>4, <1>5, <1>6, <1>7, <1>8, <1>9, <1>10, <1>11,
       <1>12, <1>13, <1>14, <1>15, <1>16 DEF Next, Handle

LEMMA TypeInit == Init => TypeInv
  <1> SUFFICES ASSUME Init PROVE TypeInv
    OBVIOUS
  <1>1. Answer("none") \in Answers
    BY AnswerType DEF Statuses
  <1>2. Store!TypeOK
    BY DEF Init, Store!Init, Store!TypeOK, Store!EmptyMap
  <1>3. TypeOK
    BY <1>1, <1>2 DEF Init, TypeOK, EmptyMap, Points
  <1>4. Serving
    BY DEF Init, Serving, Ops, PutPoints
  <1> QED BY <1>3, <1>4 DEF TypeInv

\* The types hold in every behaviour, and no handler is ever at a point of a
\* call it does not serve, or without the CID or manifest it is to use there.
THEOREM TypeCorrect == Spec => [](TypeOK /\ Serving)
  BY TypeInit, TypeStep, PTL DEF Spec, TypeInv

-----------------------------------------------------------------------------
(* The two lookups of PUT. *)

\* m.lock is held by the thread inside its critical section, and by no other.
LockInv == \A t \in Threads : pc[t] \in ManifestSection <=> mLock = t

LookupInv == LockInv /\ RemoveFindsList

\* No step puts two threads into the section, or leaves it with the lock held.
LEMMA LockStep == TypeInv /\ LockInv /\ [Next]_vars => LockInv'
  <1> SUFFICES ASSUME TypeInv, LockInv, [Next]_vars PROVE LockInv'
    OBVIOUS
  <1> USE ThreadAssumption DEF TypeInv, TypeOK, LockInv, ManifestSection, Reply, Goto
  <1>1. ASSUME NEW t \in Threads, NEW q \in Requests, Send(t, q) PROVE LockInv'
    <2>1. q.op \in Ops
      BY RequestType
    <2> QED BY <1>1, <2>1 DEF Send, Ops
  <1>2. ASSUME NEW t \in Threads,
               PutBlob(t) \/ HeadBlobLocal(t) \/ HeadBlobResolve(t)
                 \/ HeadBlobGateway(t) \/ GetBlob(t) \/ Dig(t)
        PROVE  LockInv'
    BY <1>2 DEF PutBlob, HeadBlobLocal, HeadBlobResolve, HeadBlobGateway, GetBlob, Dig
  <1>3. ASSUME NEW t \in Threads, FetchCached(t) PROVE LockInv'
    BY <1>3 DEF FetchCached, Fetched
  <1>4. ASSUME NEW t \in Threads, FetchResolve(t) PROVE LockInv'
    BY <1>4 DEF FetchResolve
  <1>5. ASSUME NEW t \in Threads, FetchGateway(t) PROVE LockInv'
    BY <1>5 DEF FetchGateway, Fetched
  <1>6. ASSUME NEW t \in Threads, Reverse(t) PROVE LockInv'
    BY <1>6 DEF Reverse
  <1>7. ASSUME NEW t \in Threads, PutRegister(t) PROVE LockInv'
    BY <1>7 DEF PutRegister
  <1>8. ASSUME NEW t \in Threads, PutGet(t) \/ PutRemove(t) PROVE LockInv'
    BY <1>8 DEF PutGet, PutRemove
  <1>9. ASSUME NEW t \in Threads, PutAdd(t) PROVE LockInv'
    BY <1>9 DEF PutAdd
  <1>10. CASE Restart
    BY <1>10 DEF Restart
  <1>11. CASE UNCHANGED vars \/ \E x \in External : Publish(x)
    BY <1>11 DEF vars, Publish
  <1> QED
    BY <1>1, <1>2, <1>3, <1>4, <1>5, <1>6, <1>7, <1>8, <1>9, <1>10, <1>11 DEF Next, Handle

\* While the lock is held between the two lookups uploads only add to the
\* store, and no other PUT takes anything out of it.
LEMMA LookupStep == TypeInv /\ LookupInv /\ [Next]_vars => LookupInv'
  <1> SUFFICES ASSUME TypeInv, LookupInv, [Next]_vars PROVE RemoveFindsList'
    BY LockStep DEF LookupInv
  <1> USE DEF LookupInv, RemoveFindsList, TypeInv, TypeOK, Reply, Goto
  <1>1. ASSUME NEW t \in Threads, NEW q \in Requests, Send(t, q) PROVE RemoveFindsList'
    <2>1. q.op # "putRemove"
      BY RequestType DEF Ops
    <2> QED BY <1>1, <2>1 DEF Send, blobVars, locals
  <1>2. ASSUME NEW t \in Threads, PutBlob(t) PROVE RemoveFindsList'
    <2>1. contents \subseteq contents' /\ DOMAIN layers \subseteq DOMAIN layers'
      BY <1>2, StoreMaps DEF PutBlob, Store!Commit, Put
    <2>2. \A r \in DOMAIN layers : layers[r] \subseteq layers'[r]
      BY <1>2, StoreMaps DEF PutBlob, Store!Commit, Store!Waiting, Put
    <2> QED BY <1>2, <2>1, <2>2 DEF PutBlob
  <1>3. ASSUME NEW t \in Threads, HeadBlobLocal(t) \/ GetBlob(t) \/ Dig(t) \/ HeadBlobGateway(t)
        PROVE  RemoveFindsList'
    BY <1>3 DEF HeadBlobLocal, GetBlob, Dig, HeadBlobGateway, blobVars
  <1>4. ASSUME NEW t \in Threads, HeadBlobResolve(t) \/ FetchResolve(t) PROVE RemoveFindsList'
    BY <1>4 DEF HeadBlobResolve, FetchResolve, blobVars
  <1>5. ASSUME NEW t \in Threads, FetchCached(t) \/ FetchGateway(t) PROVE RemoveFindsList'
    BY <1>5 DEF FetchCached, FetchGateway, Fetched, blobVars, locals
  <1>6. ASSUME NEW t \in Threads, Reverse(t) \/ PutRegister(t) PROVE RemoveFindsList'
    BY <1>6 DEF Reverse, PutRegister, blobVars, locals
  <1>7. ASSUME NEW t \in Threads, PutGet(t) PROVE RemoveFindsList'
    BY <1>7 DEF PutGet, blobVars, Store!Ready
  <1>8. ASSUME NEW t \in Threads, PutRemove(t) PROVE RemoveFindsList'
    <2>1. \A u \in Threads \ {t} : pc'[u] # "putRemove"
      BY <1>8 DEF PutRemove, LockInv, ManifestSection
    <2> QED BY <1>8, <2>1 DEF PutRemove
  <1>9. ASSUME NEW t \in Threads, PutAdd(t) PROVE RemoveFindsList'
    BY <1>9 DEF PutAdd, blobVars
  <1>10. CASE Restart
    BY <1>10 DEF Restart
  <1>11. CASE UNCHANGED vars \/ \E x \in External : Publish(x)
    BY <1>11 DEF vars, Publish, blobVars, locals
  <1> QED
    BY <1>1, <1>2, <1>3, <1>4, <1>5, <1>6, <1>7, <1>8, <1>9, <1>10, <1>11 DEF Next, Handle

\* However many pushes, uploads, pulls and restarts are interleaved, blobs.remove
\* finds the list that blobs.get has just returned: it never keeps b.lock, and
\* no blob handed to AddImage was deleted by another PUT in the meantime.
THEOREM SecondLookup == Spec => []RemoveFindsList
  <1>1. Init => LookupInv
    BY ThreadAssumption DEF Init, LookupInv, LockInv, RemoveFindsList, ManifestSection
  <1> QED BY <1>1, LookupStep, TypeInit, TypeStep, PTL DEF Spec, LookupInv

-----------------------------------------------------------------------------
(* Blobs that wait for a manifest. *)

\* A blob is listed with the step that files it.
LEMMA CommitListed ==
    ASSUME HeldListed, NEW r, NEW d, Store!Commit(r, d)
    PROVE  HeldListed'
  <1> DEFINE S == Store!Waiting(r) \cup {d}
  <1>1. layers' = Put(layers, {r}, S) /\ contents' = contents \cup {d}
    BY StoreMaps DEF Store!Commit
  <1>2. d \in S /\ (r \in DOMAIN layers => layers[r] \subseteq S)
    BY DEF Store!Waiting
  <1> HIDE DEF S
  <1>3. /\ DOMAIN layers' = DOMAIN layers \cup {r}
        /\ layers'[r] = S
        /\ \A s \in DOMAIN layers \ {r} : layers'[s] = layers[s]
    BY <1>1 DEF Put
  <1>4. ASSUME NEW e \in contents' PROVE \E s \in DOMAIN layers' : e \in layers'[s]
    <2>1. CASE e = d
      BY <1>2, <1>3, <2>1
    <2>2. CASE e # d
      <3>1. PICK s \in DOMAIN layers : e \in layers[s]
        BY <1>1, <1>4, <2>2 DEF HeldListed
      <3> QED BY <1>2, <1>3, <3>1
    <2> QED BY <2>1, <2>2
  <1> QED BY <1>4 DEF HeldListed

\* What stays after a PUT has discarded a list is on another one.
LEMMA DiscardListed ==
    ASSUME HeldListed, NEW r \in DOMAIN layers, Store!Discard(r)
    PROVE  HeldListed'
  <1>1. contents' = contents \ layers[r]
        /\ layers' = Restrict(layers, (DOMAIN layers) \ {r})
    BY StoreMaps DEF Store!Discard, Store!Waiting
  <1>2. /\ DOMAIN layers' = (DOMAIN layers) \ {r}
        /\ \A s \in DOMAIN layers' : layers'[s] = layers[s]
    BY <1>1, RestrictValue
  <1> QED
    BY <1>1, <1>2 DEF HeldListed

LEMMA ListedStep ==
    HeldListed /\ [Next]_vars => HeldListed'
  <1> SUFFICES ASSUME HeldListed, [Next]_vars PROVE HeldListed'
    OBVIOUS
  <1>1. ASSUME blobVars' = blobVars PROVE HeldListed'
    BY <1>1 DEF blobVars, HeldListed
  <1>2. ASSUME NEW t \in Threads, PutBlob(t) PROVE HeldListed'
    BY <1>2, CommitListed DEF PutBlob
  <1>3. ASSUME NEW t \in Threads, PutRemove(t) PROVE HeldListed'
    BY <1>1, <1>3, DiscardListed DEF PutRemove
  <1>4. CASE Restart
    BY <1>4 DEF Restart, Store!Forget, HeldListed
  <1>5. ASSUME NEW t \in Threads,
               (\E q \in Requests : Send(t, q)) \/ HeadBlobLocal(t) \/ HeadBlobResolve(t)
                 \/ HeadBlobGateway(t) \/ GetBlob(t) \/ Dig(t)
        PROVE  HeldListed'
    BY <1>1, <1>5
       DEF Send, HeadBlobLocal, HeadBlobResolve, HeadBlobGateway, GetBlob, Dig
  <1>6. ASSUME NEW t \in Threads, FetchCached(t) \/ FetchResolve(t) \/ FetchGateway(t)
        PROVE  HeldListed'
    BY <1>1, <1>6 DEF FetchCached, FetchResolve, FetchGateway, Fetched
  <1>7. ASSUME NEW t \in Threads, Reverse(t) \/ PutRegister(t) \/ PutGet(t) \/ PutAdd(t)
        PROVE  HeldListed'
    BY <1>1, <1>7 DEF Reverse, PutRegister, PutGet, PutAdd
  <1>8. CASE UNCHANGED vars \/ \E x \in External : Publish(x)
    BY <1>1, <1>8 DEF vars, Publish, blobVars
  <1> QED
    BY <1>2, <1>3, <1>4, <1>5, <1>6, <1>7, <1>8 DEF Next, Handle

\* Every blob in memory waits on the list of some repository, whatever is uploaded
\* between the two calls of a PUT into the store, and whichever repositories share
\* blobs: none is left behind that no PUT takes away (blobs.go 325-341).
THEOREM NoneLeftBehind == Spec => []HeldListed
  <1>1. Init => HeldListed
    BY DEF Init, Store!Init, HeldListed
  <1> QED
    BY <1>1, ListedStep, PTL DEF Spec

-----------------------------------------------------------------------------
(* Pull by digest. *)

\* Every CID the server knows or is told is honest, and so is what it caches.
CidsHonest ==
    /\ \A k \in DOMAIN cids : Honest(cids[k])
    /\ \A k \in DOMAIN cidFiles : Honest(cidFiles[k])
    /\ \A k \in DOMAIN published : Honest(published[k])
    /\ \A t \in Threads : Honest(cidOf[t])

Pinned ==
    \A k \in DOMAIN manifests : \A m \in Manifests :
        k[2] = Digest[m] => manifests[k].man = m

AnswersPinned ==
    \A t \in Threads : \A m \in Manifests :
        (resp[t].man # None /\ req[t].ref = Digest[m]) => resp[t].man = m

DigestInv == CidsHonest /\ Pinned /\ AnswersPinned

\* What an honest call resolves to is honest.
LEMMA ResolveHonest ==
    ASSUME HonestWorld, CidsHonest, NEW q \in Requests
    PROVE  Honest(Resolve(q.repo, q.ref))
  <1>1. Honest(None)
    BY ImageAssumption DEF Honest, Cids
  <1>2. q.repo \notin Names => Honest(q.repo)
    BY RequestType DEF HonestWorld
  <1>3. \A k \in DOMAIN cids : Honest(cids[k])
    BY DEF CidsHonest
  <1>4. \A k \in DOMAIN cidFiles : Honest(cidFiles[k])
    BY DEF CidsHonest
  <1>5. \A k \in DOMAIN published : Honest(published[k])
    BY DEF CidsHonest
  <1> HIDE DEF Honest
  <1> QED BY <1>1, <1>2, <1>3, <1>4, <1>5 DEF Resolve

\* Adding honest CIDs to a map leaves it honest.
LEMMA PutHonest ==
    ASSUME NEW f, \A k \in DOMAIN f : Honest(f[k]), NEW ks, NEW c, Honest(c)
    PROVE  \A k \in DOMAIN Put(f, ks, c) : Honest(Put(f, ks, c)[k])
  BY DEF Put

\* Registering a manifest under a target and its digest leaves the cache
\* pinned when a target that is a digest is that manifest's.
LEMMA PutPinned ==
    ASSUME Pinned, NEW m \in Manifests, NEW mf, mf.man = m, NEW r, NEW g,
           \A n \in Manifests : g = Digest[n] => m = n
    PROVE  \A k \in DOMAIN Put(manifests, {<<r, g>>, <<r, Digest[m]>>}, mf) :
             \A n \in Manifests : k[2] = Digest[n] =>
               Put(manifests, {<<r, g>>, <<r, Digest[m]>>}, mf)[k].man = n
  BY DigestAssumption DEF Put, Pinned

\* Answers that carry no manifest, and answers that carry the one asked for,
\* keep the answers pinned.
LEMMA ReplyPinned ==
    ASSUME TypeOK, AnswersPinned, NEW t \in Threads, NEW a, Reply(t, a), UNCHANGED req,
           a.man # None => \A m \in Manifests : req[t].ref = Digest[m] => a.man = m
    PROVE  AnswersPinned' /\ (CidsHonest => \A u \in Threads : Honest(cidOf'[u]))
  <1>1. Honest(None)
    BY ImageAssumption DEF Honest, Cids
  <1>2. CidsHonest => \A u \in Threads : Honest(cidOf'[u])
    <2> HIDE DEF Honest
    <2> QED BY <1>1 DEF CidsHonest, Reply, TypeOK
  <1> QED BY <1>2 DEF AnswersPinned, Reply, TypeOK

LEMMA NoManifest ==
    /\ \A s : Answer(s).man = None
    /\ \A s, c : [Answer(s) EXCEPT !.cid = c].man = None
    /\ \A s, d, c : [Answer(s) EXCEPT !.digest = d, !.cid = c].man = None
    /\ \A s, mf, c : Served(s, mf, c).man = mf.man
  BY DEF Answer, Served

\* No step of an honest world files or serves a manifest under another's digest.
LEMMA DigestStep ==
    HonestWorld /\ TypeInv /\ DigestInv /\ [Next]_vars => DigestInv'
  <1> SUFFICES ASSUME HonestWorld, TypeInv, DigestInv, [Next]_vars PROVE DigestInv'
    OBVIOUS
  <1> USE DEF TypeInv, DigestInv
  <1>1. ASSUME NEW t \in Threads, NEW q \in Requests, Send(t, q) PROVE DigestInv'
    <2>1. AnswersPinned'
      BY <1>1, NoManifest DEF Send, AnswersPinned, TypeOK
    <2> QED BY <1>1, <2>1 DEF Send, CidsHonest, Pinned, cidVars, locals
  <1>2. ASSUME NEW t \in Threads, PutBlob(t) \/ HeadBlobLocal(t) \/ HeadBlobGateway(t)
        PROVE  DigestInv'
    <2>1. \E a : Reply(t, a) /\ a.man = None
      BY <1>2, NoManifest DEF PutBlob, HeadBlobLocal, HeadBlobGateway
    <2>2. UNCHANGED <<req, manifests, cids, cidFiles, published>>
      BY <1>2 DEF PutBlob, HeadBlobLocal, HeadBlobGateway, cidVars
    <2>3. AnswersPinned' /\ \A u \in Threads : Honest(cidOf'[u])
      BY <2>1, <2>2, ReplyPinned
    <2> QED BY <2>2, <2>3 DEF CidsHonest, Pinned
  <1>3. ASSUME NEW t \in Threads, GetBlob(t) \/ Dig(t) PROVE DigestInv'
    <2> DEFINE found == [Answer("200") EXCEPT !.cid = Resolve(req[t].repo, req[t].ref)]
    <2>0. found.man = None /\ Answer("404").man = None
      BY NoManifest
    <2>1. \E a : Reply(t, a) /\ a.man = None
      <3>1. Reply(t, Answer("404")) \/ Reply(t, found)
        BY <1>3 DEF GetBlob, Dig
      <3> HIDE DEF found
      <3> QED BY <2>0, <3>1
    <2>2. UNCHANGED <<req, manifests, cids, cidFiles, published>>
      BY <1>3 DEF GetBlob, Dig, cidVars
    <2>3. AnswersPinned' /\ \A u \in Threads : Honest(cidOf'[u])
      BY <2>1, <2>2, ReplyPinned
    <2> QED BY <2>2, <2>3 DEF CidsHonest, Pinned
  <1>4. ASSUME NEW t \in Threads, HeadBlobResolve(t) \/ FetchResolve(t) PROVE DigestInv'
    <2> DEFINE c == Resolve(req[t].repo, req[t].ref)
    <2>1. Honest(c)
      BY <1>4, ResolveHonest DEF HeadBlobResolve, FetchResolve, Serving
    <2>2. UNCHANGED <<req, manifests, cids, cidFiles, published>>
      BY <1>4 DEF HeadBlobResolve, FetchResolve, cidVars
    <2>3. CASE Reply(t, Answer("404"))
      BY <2>2, <2>3, NoManifest, ReplyPinned DEF CidsHonest, Pinned
    <2>4. CASE cidOf' = [cidOf EXCEPT ![t] = c] /\ UNCHANGED resp
      <3> HIDE DEF c
      <3>1. \A u \in Threads : Honest(cidOf'[u])
        BY <2>1, <2>4 DEF CidsHonest, TypeOK
      <3> QED BY <2>2, <2>4, <3>1 DEF CidsHonest, Pinned, AnswersPinned
    <2> QED BY <1>4, <2>3, <2>4 DEF HeadBlobResolve, FetchResolve, Goto
  <1>5. ASSUME NEW t \in Threads, FetchCached(t) PROVE DigestInv'
    <2>1. \A m \in Manifests : req[t].ref = Digest[m] => manifests[Target(t)].man = m
      BY <1>5 DEF FetchCached, Pinned, Target
    <2>2. UNCHANGED <<req, manifests, cids, cidFiles, published>>
      BY <1>5 DEF FetchCached, cidVars
    <2>3. CASE Reply(t, Served("200", manifests[Target(t)], None))
      BY <2>1, <2>2, <2>3, NoManifest, ReplyPinned DEF CidsHonest, Pinned
    <2>4. CASE UNCHANGED <<resp, cidOf>>
      BY <2>2, <2>4 DEF CidsHonest, Pinned, AnswersPinned
    <2> QED BY <1>5, <2>3, <2>4 DEF FetchCached, Fetched, Goto, locals
  <1>6. ASSUME NEW t \in Threads, FetchGateway(t) PROVE DigestInv'
    <2> DEFINE c == cidOf[t]
               mf == [man |-> c.man, digest |-> Digest[c.man]]
    <2>1. c \in Cids /\ Honest(c)
      BY <1>6 DEF FetchGateway, Serving, CidsHonest
    <2>2. UNCHANGED <<req, cidFiles, published>>
      BY <1>6 DEF FetchGateway
    <2>3. CASE /\ HasManifest(c, req[t].ref)
               /\ manifests' = Put(manifests, {Target(t), <<req[t].repo, Digest[c.man]>>}, mf)
               /\ cids' = Put(cids, {<<req[t].repo, Digest[c.man]>>}, c)
               /\ Fetched(t, mf)
      <3>1. c \in Images /\ c.man \in Manifests /\ req[t].ref \in c.refs
        BY <2>1, <2>3, ImageParts DEF HasManifest
      <3>2. \A m \in Manifests : req[t].ref = Digest[m] => c.man = m
        BY <2>1, <3>1 DEF Honest
      <3>3. mf.man = c.man
        OBVIOUS
      <3> HIDE DEF mf, c
      <3>4. Pinned'
        BY <2>3, <3>1, <3>2, <3>3, DigestAssumption DEF Pinned, Target, Put
      <3>5. /\ \A k \in DOMAIN cids' : Honest(cids'[k])
            /\ \A k \in DOMAIN cidFiles' : Honest(cidFiles'[k])
            /\ \A k \in DOMAIN published' : Honest(published'[k])
        <4> HIDE DEF Honest
        <4>1. \A k \in DOMAIN cids : Honest(cids[k])
          BY DEF CidsHonest
        <4> QED BY <2>1, <2>2, <2>3, <4>1, PutHonest DEF CidsHonest
      <3>6. CASE Reply(t, Served("200", mf, None))
        <4>1. AnswersPinned' /\ \A u \in Threads : Honest(cidOf'[u])
          BY <2>2, <3>2, <3>3, <3>6, NoManifest, ReplyPinned
        <4> QED BY <3>4, <3>5, <4>1 DEF CidsHonest
      <3>7. CASE UNCHANGED <<resp, cidOf>>
        BY <2>2, <3>4, <3>5, <3>7 DEF CidsHonest, AnswersPinned
      <3> QED BY <2>3, <3>6, <3>7 DEF Fetched, Goto, locals
    <2>4. CASE Reply(t, Answer("404")) /\ UNCHANGED <<manifests, cids>>
      BY <2>2, <2>4, NoManifest, ReplyPinned DEF CidsHonest, Pinned
    <2> QED BY <1>6, <2>3, <2>4 DEF FetchGateway
  <1>7. ASSUME NEW t \in Threads, Reverse(t) PROVE DigestInv'
    <2> DEFINE c == Resolve(req[t].repo, req[t].ref)
               mf == manifests[Target(t)]
               ks == {req[t].repo} \X BlobsOf[mf.man]
    <2>1. Honest(c)
      BY <1>7, ResolveHonest DEF Reverse, Serving
    <2>2. UNCHANGED <<req, manifests, cidFiles, published>>
      BY <1>7 DEF Reverse
    <2>3. \A m \in Manifests : req[t].ref = Digest[m] => mf.man = m
      BY <1>7 DEF Reverse, Serving, Pinned, Target
    <2>4. \E a : Reply(t, a) /\ (a.man # None => a.man = mf.man)
      <3>1. \/ Reply(t, Answer("404"))
            \/ Reply(t, Answer("panic"))
            \/ Reply(t, Served("200", mf, c))
        BY <1>7 DEF Reverse
      <3> HIDE DEF mf, c
      <3> QED BY <3>1, NoManifest
    <2>5. UNCHANGED cids \/ cids' = Put(cids, ks, c)
      BY <1>7 DEF Reverse
    <2> HIDE DEF c, ks, mf
    <2>6. AnswersPinned' /\ \A u \in Threads : Honest(cidOf'[u])
      BY <2>2, <2>3, <2>4, ReplyPinned
    <2>7. \A k \in DOMAIN cids' : Honest(cids'[k])
      <3> HIDE DEF Honest
      <3> QED BY <2>1, <2>5, PutHonest DEF CidsHonest
    <2> QED BY <2>2, <2>6, <2>7 DEF CidsHonest, Pinned
  <1>8. ASSUME NEW t \in Threads, PutRegister(t) PROVE DigestInv'
    <2> DEFINE m == req[t].man
               mf == [man |-> m, digest |-> None]
    <2>1. m \in Manifests /\ \A n \in Manifests : req[t].ref = Digest[n] => m = n
      <3>1. req[t] \in Requests /\ req[t].op = "PutManifest"
        BY <1>8 DEF PutRegister, Serving, Ops
      <3>2. m \in Manifests /\ (req[t].ref \in Digests => req[t].ref = Digest[m])
        BY <3>1, RequestType DEF HonestWorld
      <3> QED BY <3>2, DigestAssumption DEF Digests
    <2>2. UNCHANGED <<req, cids, cidFiles, published>>
      BY <1>8 DEF PutRegister, cidVars
    <2>3. CASE Reply(t, Answer("404")) /\ UNCHANGED manifests
      BY <2>2, <2>3, NoManifest, ReplyPinned DEF CidsHonest, Pinned
    <2>4. CASE /\ manifests' = Put(manifests, {Target(t), <<req[t].repo, Digest[m]>>}, mf)
               /\ UNCHANGED <<resp, cidOf>>
      <3>1. mf.man = m
        OBVIOUS
      <3> HIDE DEF mf, m
      <3>2. Pinned'
        BY <2>1, <2>4, <3>1, DigestAssumption DEF Pinned, Target, Put
      <3> QED BY <2>2, <2>4, <3>2 DEF CidsHonest, AnswersPinned
    <2> QED BY <1>8, <2>3, <2>4 DEF PutRegister, Goto, locals
  <1>9. ASSUME NEW t \in Threads, PutGet(t) \/ PutRemove(t) PROVE DigestInv'
    <2>1. UNCHANGED <<req, manifests, cids, cidFiles, published>>
      BY <1>9 DEF PutGet, PutRemove, cidVars
    <2>2. Reply(t, Answer("404")) \/ UNCHANGED <<resp, cidOf>>
      BY <1>9 DEF PutGet, PutRemove, Goto, locals
    <2> QED BY <2>1, <2>2, NoManifest, ReplyPinned DEF CidsHonest, Pinned, AnswersPinned
  <1>10. ASSUME NEW t \in Threads, PutAdd(t) PROVE DigestInv'
    <2>1. UNCHANGED <<req, manifests, published>>
      BY <1>10 DEF PutAdd
    <2>2. Honest(Added(t)) /\ Honest(EmptyCid)
      <3>1. req[t] \in Requests /\ req[t].op = "PutManifest"
        BY <1>10 DEF PutAdd, Serving, PutPoints
      <3>2. req[t].man \in Manifests /\ (req[t].ref \in Digests => req[t].ref = Digest[req[t].man])
        BY <3>1, RequestType DEF HonestWorld
      <3>3. \A m \in Manifests : Digest[m] \in Digests /\ Digest[m] # Latest
        BY ImageAssumption DEF Digests
      <3> QED BY <3>2, <3>3, DigestAssumption, ImageAssumption DEF Honest, Added
    <2> HIDE DEF Honest
    <2>3. ASSUME NEW c \in AddOutcomes(t), Record(t, c)
          PROVE  /\ \A k \in DOMAIN cids' : Honest(cids'[k])
                 /\ \A k \in DOMAIN cidFiles' : Honest(cidFiles'[k])
      <3>1. Honest(c)
        BY <2>2 DEF AddOutcomes
      <3>2. \E ks, kept : /\ cids' = Put(cids, ks, c)
                          /\ cidFiles' = Put(cidFiles, kept, c) \/ UNCHANGED cidFiles
        BY <2>3 DEF Record
      <3> QED BY <3>1, <3>2, PutHonest DEF CidsHonest
    <2>4. /\ \A k \in DOMAIN cids' : Honest(cids'[k])
          /\ \A k \in DOMAIN cidFiles' : Honest(cidFiles'[k])
      BY <1>10, <2>3 DEF PutAdd, CidsHonest, cidVars
    <2>5. \E a : Reply(t, a) /\ a.man = None
      <3>1. \/ Reply(t, Answer("500"))
            \/ \E c : Reply(t, [Answer("201") EXCEPT !.digest = Digest[req[t].man], !.cid = c])
        BY <1>10 DEF PutAdd
      <3>2. ASSUME NEW c, Reply(t, [Answer("201") EXCEPT !.digest = Digest[req[t].man], !.cid = c])
            PROVE  \E a : Reply(t, a) /\ a.man = None
        <4> DEFINE a == [Answer("201") EXCEPT !.digest = Digest[req[t].man], !.cid = c]
        <4>1. a.man = None
          BY NoManifest
        <4>2. Reply(t, a)
          BY <3>2
        <4> HIDE DEF a
        <4> QED BY <4>1, <4>2
      <3> QED BY <3>1, <3>2, NoManifest
    <2>6. AnswersPinned' /\ \A u \in Threads : Honest(cidOf'[u])
      BY <2>1, <2>5, ReplyPinned
    <2> QED BY <2>1, <2>4, <2>6 DEF CidsHonest, Pinned
  <1>11. CASE Restart
    <2>1. Honest(None)
      BY ImageAssumption DEF Honest, Cids
    <2>2. AnswersPinned'
      BY <1>11, NoManifest DEF Restart, AnswersPinned
    <2> HIDE DEF Honest
    <2> QED BY <1>11, <2>1, <2>2 DEF Restart, CidsHonest, Pinned, EmptyMap
  <1>12. ASSUME NEW x \in External, Publish(x) PROVE DigestInv'
    <2>1. Honest(x.cid)
      BY DEF HonestWorld
    <2> HIDE DEF Honest
    <2>2. \A k \in DOMAIN published' : Honest(published'[k])
      BY <1>12, <2>1, PutHonest DEF Publish, CidsHonest
    <2> QED BY <1>12, <2>2 DEF Publish, CidsHonest, Pinned, AnswersPinned, cidVars, locals
  <1>13. CASE UNCHANGED vars
    BY <1>13 DEF vars, CidsHonest, Pinned, AnswersPinned
  <1> QED
    BY <1>1, <1>2, <1>3, <1>4, <1>5, <1>6, <1>7, <1>8, <1>9, <1>10, <1>11,
       <1>12, <1>13 DEF Next, Handle

\* As long as nobody files a manifest under another one's digest, neither does
\* the server, and a pull by digest gives the manifest with that digest or
\* fails: whatever was retagged, cached, half pushed, lost in a restart or
\* republished in between.
THEOREM DigestIsPinned == HonestWorld => (Spec => []PullByDigest)
  <1> SUFFICES ASSUME HonestWorld PROVE Spec => []PullByDigest
    OBVIOUS
  <1>1. Init => DigestInv
    <2>1. Honest(None)
      BY ImageAssumption DEF Honest, Cids
    <2> HIDE DEF Honest
    <2> QED BY <2>1, NoManifest
          DEF Init, DigestInv, CidsHonest, Pinned, AnswersPinned, EmptyMap
  <1>2. TypeInv /\ DigestInv /\ [Next]_vars => DigestInv'
    BY DigestStep
  <1>3. DigestInv => PullByDigest
    BY DEF DigestInv, Pinned, AnswersPinned, PullByDigest
  <1> QED BY <1>1, <1>2, <1>3, TypeInit, TypeStep, PTL DEF Spec

-----------------------------------------------------------------------------
(* Restarts. *)

\* What memory says of a tag, its file says too.
FilesKeepUp ==
    \A r \in Names, g \in Tags : <<r, g>> \in DOMAIN cids =>
        <<r, g>> \in DOMAIN cidFiles /\ cidFiles[<<r, g>>] = cids[<<r, g>>]

\* A digest or blob key says nothing about tags.
LEMMA TagKeys ==
    ASSUME NEW f, NEW ks, NEW v, \A r \in Names, g \in Tags : <<r, g>> \notin ks
    PROVE  \A r \in Names, g \in Tags :
              /\ <<r, g>> \in DOMAIN Put(f, ks, v) <=> <<r, g>> \in DOMAIN f
              /\ <<r, g>> \in DOMAIN f => Put(f, ks, v)[<<r, g>>] = f[<<r, g>>]
  BY DEF Put

\* Every step that writes a tag into memory writes its file.
LEMMA FilesStep ==
    "disk" \notin Env /\ TypeInv /\ FilesKeepUp /\ [Next]_vars => FilesKeepUp'
  <1> SUFFICES ASSUME "disk" \notin Env, TypeInv, FilesKeepUp, [Next]_vars
               PROVE  FilesKeepUp'
    OBVIOUS
  <1>1. ASSUME UNCHANGED cidVars PROVE FilesKeepUp'
    BY <1>1 DEF cidVars, FilesKeepUp
  <1>2. ASSUME UNCHANGED cidFiles, NEW c, NEW ks, cids' = Put(cids, ks, c),
               \A r \in Names, g \in Tags : <<r, g>> \notin ks
        PROVE  FilesKeepUp'
    BY <1>2, TagKeys DEF FilesKeepUp
  <1>3. ASSUME NEW t \in Threads, FetchGateway(t) PROVE FilesKeepUp'
    <2> DEFINE d == Digest[cidOf[t].man]
    <2>1. CASE UNCHANGED cids
      BY <1>1, <1>3, <2>1 DEF FetchGateway, cidVars
    <2>2. CASE HasManifest(cidOf[t], req[t].ref) /\ cids' = Put(cids, {<<req[t].repo, d>>}, cidOf[t])
      <3>1. d \in Digests
        BY <1>3, <2>2, ImageParts DEF FetchGateway, TypeInv, Serving, HasManifest
      <3>2. \A r \in Names, g \in Tags : <<r, g>> \notin {<<req[t].repo, d>>}
        BY <3>1, ImageAssumption
      <3>3. UNCHANGED cidFiles
        BY <1>3 DEF FetchGateway
      <3> HIDE DEF d
      <3> QED BY <1>2, <2>2, <3>2, <3>3
    <2> QED BY <1>3, <2>1, <2>2 DEF FetchGateway
  <1>4. ASSUME NEW t \in Threads, Reverse(t) PROVE FilesKeepUp'
    <2> DEFINE c == Resolve(req[t].repo, req[t].ref)
               ks == {req[t].repo} \X BlobsOf[manifests[Target(t)].man]
    <2>1. CASE UNCHANGED cids
      BY <1>1, <1>4, <2>1 DEF Reverse, cidVars
    <2>2. CASE manifests[Target(t)].man \in Plain /\ cids' = Put(cids, ks, c)
      <3>1. \A r \in Names, g \in Tags : <<r, g>> \notin ks
        BY <2>2, ImageAssumption
      <3>2. UNCHANGED cidFiles
        BY <1>4 DEF Reverse
      <3> HIDE DEF ks, c
      <3> QED BY <1>2, <2>2, <3>1, <3>2
    <2> QED BY <1>4, <2>1, <2>2 DEF Reverse
  <1>5. ASSUME NEW t \in Threads, PutAdd(t) PROVE FilesKeepUp'
    <2>1. CASE UNCHANGED cidVars
      BY <1>1, <2>1
    <2>2. ASSUME NEW c \in AddOutcomes(t), Record(t, c) PROVE FilesKeepUp'
      <3> DEFINE ks == {Target(t), <<req[t].repo, Digest[req[t].man]>>, <<c, Latest>>}
                 kept == {k \in ks : Persistent(k, c)}
      <3>1. cids' = Put(cids, ks, c) /\ cidFiles' = Put(cidFiles, kept, c)
        BY <2>2 DEF Record
      <3>2. \A r \in Names, g \in Tags : <<r, g>> \in ks <=> <<r, g>> \in kept
        <4>1. c \in Cids
          BY <1>5, AddedType DEF PutAdd
        <4>2. \A r \in Names : r # c
          BY <4>1, ImageAssumption
        <4>3. \A g \in Tags : g \notin Digests \cup Blobs
          BY ImageAssumption
        <4>4. \A r \in Names, g \in Tags : Persistent(<<r, g>>, c)
          BY <4>2, <4>3 DEF Persistent
        <4> HIDE DEF ks
        <4> QED BY <4>4
      <3> HIDE DEF ks, kept
      <3> QED BY <3>1, <3>2 DEF FilesKeepUp, Put
    <2> QED BY <1>5, <2>1, <2>2 DEF PutAdd
  <1>6. CASE Restart
    BY <1>6 DEF Restart, FilesKeepUp, EmptyMap
  <1>7. CASE UNCHANGED vars \/ \E x \in External : Publish(x)
    BY <1>1, <1>7 DEF vars, Publish, cidVars
  <1>8. ASSUME NEW t \in Threads, NEW q \in Requests, Send(t, q) PROVE FilesKeepUp'
    BY <1>1, <1>8 DEF Send
  <1>9. ASSUME NEW t \in Threads,
               \/ PutBlob(t) \/ HeadBlobLocal(t) \/ HeadBlobResolve(t)
               \/ HeadBlobGateway(t) \/ GetBlob(t) \/ Dig(t)
               \/ FetchCached(t) \/ FetchResolve(t)
               \/ PutRegister(t) \/ PutGet(t) \/ PutRemove(t)
        PROVE  FilesKeepUp'
    <2>1. UNCHANGED cidVars
      BY <1>9 DEF PutBlob, HeadBlobLocal, HeadBlobResolve, HeadBlobGateway, GetBlob,
        Dig, FetchCached, FetchResolve, PutRegister, PutGet, PutRemove
    <2> QED BY <1>1, <2>1
  <1> QED
    BY <1>3, <1>4, <1>5, <1>6, <1>7, <1>8, <1>9 DEF Next, Handle

\* A restart resolves every tag of every repository to what it resolved to
\* before, provided no write of a file failed.
THEOREM TagsSurvive == "disk" \notin Env => (Spec => RestartKeepsTags)
  <1> SUFFICES ASSUME "disk" \notin Env PROVE Spec => RestartKeepsTags
    OBVIOUS
  <1>1. Init => FilesKeepUp
    BY DEF Init, FilesKeepUp, EmptyMap
  <1>2. TypeInv /\ FilesKeepUp /\ [Next]_vars => FilesKeepUp'
    BY FilesStep
  <1> DEFINE Kept == Restart => \A r \in Names, g \in Tags : Resolve(r, g)' = Resolve(r, g)
  <1>3. FilesKeepUp /\ [Next]_vars => [Kept]_vars
    BY DEF FilesKeepUp, Restart, Resolve, EmptyMap
  <1> QED
    BY <1>1, <1>2, <1>3, TypeInit, TypeStep, PTL DEF Spec, RestartKeepsTags

-----------------------------------------------------------------------------
(* References that are never moved. *)

\* The thread waits for the gateway, with the CID it has resolved.
AtGateway(t) == pc[t] \in {"headGateway", "fetchGateway"}

\* Which steps change what references resolve to.
LEMMA MapsChange ==
    ASSUME [Next]_vars
    PROVE  \/ UNCHANGED <<manifests, cids, cidFiles, published>>
           \/ \E t \in Threads : FetchGateway(t) \/ Reverse(t) \/ PutRegister(t) \/ PutAdd(t)
           \/ Restart
           \/ \E x \in External : Publish(x)
  <1>1. ASSUME NEW t \in Threads, NEW q \in Requests, Send(t, q)
        PROVE  UNCHANGED <<manifests, cids, cidFiles, published>>
    BY <1>1 DEF Send, cidVars
  <1>2. ASSUME NEW t \in Threads,
               \/ PutBlob(t) \/ HeadBlobLocal(t) \/ HeadBlobResolve(t)
               \/ HeadBlobGateway(t) \/ GetBlob(t) \/ Dig(t)
               \/ FetchCached(t) \/ FetchResolve(t) \/ PutGet(t) \/ PutRemove(t)
        PROVE  UNCHANGED <<manifests, cids, cidFiles, published>>
    BY <1>2 DEF PutBlob, HeadBlobLocal, HeadBlobResolve, HeadBlobGateway, GetBlob, Dig,
         FetchCached, FetchResolve, PutGet, PutRemove, cidVars
  <1> QED BY <1>1, <1>2 DEF Next, Handle, vars

\* A thread comes to wait for the gateway with what its call resolves to.
LEMMA GatewayFrame ==
    ASSUME TypeInv, [Next]_vars, NEW u \in Threads, AtGateway(u)'
    PROVE  /\ req'[u] = req[u]
           /\ \/ AtGateway(u) /\ cidOf'[u] = cidOf[u]
              \/ /\ req[u] \in Requests /\ pc[u] # "idle"
                 /\ cidOf'[u] = Resolve(req[u].repo, req[u].ref)
                 /\ cidOf'[u] # None
  <1> USE DEF AtGateway, TypeInv, TypeOK
  <1>1. ASSUME NEW t \in Threads, NEW q \in Requests, Send(t, q)
        PROVE  AtGateway(u) /\ cidOf'[u] = cidOf[u] /\ req'[u] = req[u]
    <2>1. q.op \notin {"headGateway", "fetchGateway"}
      BY RequestType DEF Ops
    <2> QED BY <1>1, <2>1 DEF Send, locals
  <1>2. ASSUME NEW t \in Threads, Handle(t), u # t
        PROVE  AtGateway(u) /\ cidOf'[u] = cidOf[u] /\ req'[u] = req[u]
    <2>1. UNCHANGED req
      BY <1>2 DEF Handle, PutBlob, HeadBlobLocal, HeadBlobResolve, HeadBlobGateway,
           GetBlob, Dig, FetchCached, FetchResolve, FetchGateway, Reverse, PutRegister,
           PutGet, PutRemove, PutAdd
    <2>2. (\E p : Goto(t, p)) \/ \E a : Reply(t, a)
      BY <1>2 DEF Handle, PutBlob, HeadBlobLocal, HeadBlobResolve, HeadBlobGateway,
           GetBlob, Dig, FetchCached, FetchResolve, FetchGateway, Fetched, Reverse,
           PutRegister, PutGet, PutRemove, PutAdd
    <2>3. pc'[u] = pc[u]
      BY <1>2, <2>2 DEF Goto, Reply
    <2>4. (\E c : cidOf' = [cidOf EXCEPT ![t] = c]) \/ cidOf' = cidOf
      BY <1>2 DEF Handle, PutBlob, HeadBlobLocal, HeadBlobResolve, HeadBlobGateway,
           GetBlob, Dig, FetchCached, FetchResolve, FetchGateway, Fetched, Reverse,
           PutRegister, PutGet, PutRemove, PutAdd, Reply, locals
    <2> QED BY <1>2, <2>1, <2>3, <2>4
  <1>3. CASE HeadBlobResolve(u) \/ FetchResolve(u)
    <2>1. req[u] \in Requests /\ UNCHANGED req
      BY <1>3 DEF HeadBlobResolve, FetchResolve, Serving
    <2>2. ~ \E a : Reply(u, a)
      BY DEF Reply
    <2> QED BY <1>3, <2>1, <2>2 DEF HeadBlobResolve, FetchResolve
  <1>4. ~(\/ PutBlob(u) \/ HeadBlobLocal(u) \/ HeadBlobGateway(u) \/ GetBlob(u) \/ Dig(u)
          \/ FetchCached(u) \/ FetchGateway(u) \/ Reverse(u)
          \/ PutRegister(u) \/ PutGet(u) \/ PutRemove(u) \/ PutAdd(u))
    <2>1. ~ \E a : Reply(u, a)
      BY DEF Reply
    <2>2. \A p : Goto(u, p) => p \in {"headGateway", "fetchGateway"}
      BY DEF Goto
    <2>3. ASSUME PutBlob(u) \/ HeadBlobLocal(u) \/ HeadBlobGateway(u) \/ GetBlob(u) \/ Dig(u)
          PROVE  \E a : Reply(u, a)
      BY <2>3 DEF PutBlob, HeadBlobLocal, HeadBlobGateway, GetBlob, Dig
    <2>4. ASSUME FetchCached(u) \/ FetchGateway(u) \/ Reverse(u)
          PROVE  Goto(u, "reverse") \/ \E a : Reply(u, a)
      BY <2>4 DEF FetchCached, FetchGateway, Fetched, Reverse
    <2>5. ASSUME PutRegister(u) \/ PutGet(u) \/ PutRemove(u) \/ PutAdd(u)
          PROVE  (\E p \in PutPoints : Goto(u, p)) \/ \E a : Reply(u, a)
      BY <2>5 DEF PutRegister, PutGet, PutRemove, PutAdd, PutPoints
    <2> QED BY <2>1, <2>2, <2>3, <2>4, <2>5 DEF PutPoints
  <1>5. ~Restart
    BY DEF Restart
  <1>6. CASE UNCHANGED vars \/ \E x \in External : Publish(x)
    BY <1>6 DEF vars, Publish, locals
  <1> QED BY <1>1, <1>2, <1>3, <1>4, <1>5, <1>6 DEF Next, Handle

\* An image that may be known by the key k.
Known(k, c) == c \in Images /\ (k[2] \in Refs => c.man \in Says(k[1], k[2]))

\* All that the server has cached, recorded or resolved is what is said of the
\* reference.
Agreed ==
    /\ \A k \in DOMAIN manifests :
          k[1] \in Names \cup Images /\ k[2] \in Refs /\ manifests[k].man \in Says(k[1], k[2])
    /\ \A k \in DOMAIN cids : Known(k, cids[k])
    /\ \A k \in DOMAIN cidFiles : Known(k, cidFiles[k])
    /\ \A k \in DOMAIN published : Known(k, published[k])
    /\ \A t \in Threads : AtGateway(t) => Known(Target(t), cidOf[t])

AnswersAgree ==
    \A t \in Threads : (resp[t].man # None /\ resp[t].cid # None)
        => resp[t].cid \in Images /\ resp[t].cid.man = resp[t].man

\* What is said of a reference is said of its digest.
LEMMA DigestSaid ==
    ASSUME NothingMoves, NEW r \in Names \cup Images, NEW g \in Refs,
           NEW m \in Manifests, m \in Says(r, g)
    PROVE  Digest[m] \in Refs /\ m \in Says(r, Digest[m])
  <1>1. Digest[m] \in Refs
    BY DEF Refs, Digests
  <1>2. CASE r \in Names
    BY <1>1, <1>2 DEF Says
  <1>3. CASE r \notin Names
    <2>1. r.man \in Says(r, g) /\ r.man \in Says(r, Digest[m])
      BY <1>3 DEF Says
    <2> QED BY <1>1, <2>1 DEF NothingMoves
  <1> QED BY <1>2, <1>3

\* What a call resolves to may be known by what it asks for.
LEMMA ResolveKnown ==
    ASSUME Agreed, NEW q \in Requests, Resolve(q.repo, q.ref) # None
    PROVE  Known(<<q.repo, q.ref>>, Resolve(q.repo, q.ref))
  <1>1. q.repo \notin Names => Known(<<q.repo, q.ref>>, q.repo)
    BY RequestType DEF Known, Says
  <1>2. /\ \A k \in DOMAIN cids : Known(k, cids[k])
        /\ \A k \in DOMAIN cidFiles : Known(k, cidFiles[k])
        /\ \A k \in DOMAIN published : Known(k, published[k])
    BY DEF Agreed
  <1> HIDE DEF Known
  <1> QED BY <1>1, <1>2 DEF Resolve

LEMMA PutKnown ==
    ASSUME NEW f, \A k \in DOMAIN f : Known(k, f[k]), NEW ks, NEW c,
           \A k \in ks : Known(k, c)
    PROVE  \A k \in DOMAIN Put(f, ks, c) : Known(k, Put(f, ks, c)[k])
  BY DEF Put

\* The manifests cached are what is said of the references they are cached by.
AllSaid(f) ==
    \A k \in DOMAIN f : k[1] \in Names \cup Images /\ k[2] \in Refs /\ f[k].man \in Says(k[1], k[2])

LEMMA PutSaid ==
    ASSUME NEW f, AllSaid(f), NEW ks, NEW mf,
           \A k \in ks : k[1] \in Names \cup Images /\ k[2] \in Refs /\ mf.man \in Says(k[1], k[2])
    PROVE  AllSaid(Put(f, ks, mf))
  BY DEF AllSaid, Put

\* The IPFS API can be reached, if anybody needs it.
ApiReached == "send" \in Env => \A q \in Requests : q.op # "PutManifest"

\* What a PUT is told by the IPFS API is then the image it has added.
LEMMA AddedThen ==
    ASSUME ApiReached, TypeInv, NEW t \in Threads, PutAdd(t), NEW c \in AddOutcomes(t)
    PROVE  c = Added(t) /\ c \in Images
  <1>1. req[t] \in Requests /\ req[t].op = "PutManifest" /\ pc[t] = "putAdd"
    BY DEF PutAdd, TypeInv, Serving, PutPoints
  <1>2. "send" \notin Env
    BY <1>1 DEF ApiReached
  <1> QED BY <1>1, <1>2, AddedImage DEF AddOutcomes

\* Nothing the server does makes it disagree with what is said, if the IPFS API
\* can be reached.
LEMMA AgreedStep ==
    NothingMoves /\ ApiReached /\ TypeInv /\ Agreed /\ [Next]_vars => Agreed'
  <1> SUFFICES ASSUME NothingMoves, ApiReached, TypeInv, Agreed, [Next]_vars
               PROVE  Agreed'
    OBVIOUS
  <1>1. \A t \in Threads : AtGateway(t)' => Known(Target(t), cidOf[t])'
    <2> SUFFICES ASSUME NEW t \in Threads, AtGateway(t)' PROVE Known(Target(t)', cidOf'[t])
      OBVIOUS
    <2>1. Target(t)' = <<req[t].repo, req[t].ref>>
      BY GatewayFrame DEF Target
    <2>2. CASE AtGateway(t) /\ cidOf'[t] = cidOf[t]
      BY <2>1, <2>2 DEF Agreed, Target
    <2>3. CASE /\ req[t] \in Requests /\ cidOf'[t] = Resolve(req[t].repo, req[t].ref)
               /\ cidOf'[t] # None
      BY <2>1, <2>3, ResolveKnown
    <2> QED BY <2>2, <2>3, GatewayFrame
  <1> DEFINE AllKnown(f) == \A k \in DOMAIN f : Known(k, f[k])
  <1> SUFFICES AllSaid(manifests') /\ AllKnown(cids') /\ AllKnown(cidFiles') /\ AllKnown(published')
    BY <1>1 DEF Agreed, AllSaid
  <1>2. AllSaid(manifests) /\ AllKnown(cids) /\ AllKnown(cidFiles) /\ AllKnown(published)
    BY DEF Agreed, AllSaid
  <1>3. \A t \in Threads : pc[t] # "idle" => req[t] \in Requests
    BY DEF TypeInv, Serving
  <1>4. ASSUME NEW t \in Threads, FetchGateway(t)
        PROVE  /\ AllSaid(manifests') /\ AllKnown(cids')
               /\ cidFiles' = cidFiles /\ published' = published
    <2>1. CASE UNCHANGED <<manifests, cids>>
      BY <1>2, <1>4, <2>1 DEF FetchGateway
    <2>2. CASE /\ HasManifest(cidOf[t], req[t].ref)
               /\ manifests' = Put(manifests, {Target(t), <<req[t].repo, Digest[cidOf[t].man]>>},
                                   [man |-> cidOf[t].man, digest |-> Digest[cidOf[t].man]])
               /\ cids' = Put(cids, {<<req[t].repo, Digest[cidOf[t].man]>>}, cidOf[t])
      <3>1. PICK c : c = cidOf[t]
        OBVIOUS
      <3>2. PICK m : m = c.man
        OBVIOUS
      <3>3. Known(Target(t), c)
        BY <1>4, <3>1 DEF FetchGateway, Agreed, AtGateway
      <3>4. c \in Images /\ m \in Manifests /\ req[t].ref \in Refs
        BY <2>2, <3>1, <3>2, <3>3 DEF Known, Images, HasManifest
      <3>5. req[t].repo \in Names \cup Images
        BY <1>3, <1>4, RequestType DEF FetchGateway
      <3>6. m \in Says(req[t].repo, req[t].ref)
        BY <3>2, <3>3, <3>4 DEF Known, Target
      <3>7. Digest[m] \in Refs /\ m \in Says(req[t].repo, Digest[m])
        BY <3>4, <3>5, <3>6, DigestSaid
      <3>8. AllSaid(manifests')
        <4>1. PICK ks, mf : /\ ks = {Target(t), <<req[t].repo, Digest[m]>>}
                            /\ mf = [man |-> m, digest |-> Digest[m]]
          OBVIOUS
        <4>2. \A k \in ks : k[1] \in Names \cup Images /\ k[2] \in Refs /\ m \in Says(k[1], k[2])
          BY <3>4, <3>5, <3>6, <3>7, <4>1 DEF Target
        <4>3. mf.man = m
          BY <4>1
        <4>4. manifests' = Put(manifests, ks, mf)
          BY <2>2, <3>1, <3>2, <4>1
        <4> QED BY <1>2, <4>2, <4>3, <4>4, PutSaid
      <3>9. AllKnown(cids')
        <4>1. Known(<<req[t].repo, Digest[m]>>, c)
          BY <3>2, <3>4, <3>7 DEF Known
        <4> QED BY <1>2, <2>2, <3>1, <3>2, <4>1, PutKnown
      <3> QED BY <1>4, <3>8, <3>9 DEF FetchGateway
    <2> QED BY <1>4, <2>1, <2>2 DEF FetchGateway
  <1>5. ASSUME NEW t \in Threads, Reverse(t)
        PROVE  /\ manifests' = manifests /\ AllKnown(cids')
               /\ cidFiles' = cidFiles /\ published' = published
    <2>1. CASE UNCHANGED cids
      BY <1>2, <1>5, <2>1 DEF Reverse
    <2>2. CASE /\ Resolve(req[t].repo, req[t].ref) # None
               /\ manifests[Target(t)].man \in Plain
               /\ cids' = Put(cids, {req[t].repo} \X BlobsOf[manifests[Target(t)].man],
                              Resolve(req[t].repo, req[t].ref))
      <3>1. PICK c : c = Resolve(req[t].repo, req[t].ref)
        OBVIOUS
      <3>2. c \in Images
        BY <1>3, <1>5, <2>2, <3>1, ResolveKnown DEF Reverse, Known
      <3>3. PICK ks : ks = {req[t].repo} \X BlobsOf[manifests[Target(t)].man]
        OBVIOUS
      <3>4. \A k \in ks : k[2] \notin Refs
        BY <2>2, <3>3, ImageAssumption DEF NothingMoves, Refs
      <3>5. \A k \in ks : Known(k, c)
        BY <3>2, <3>4 DEF Known
      <3>6. AllKnown(cids')
        BY <1>2, <2>2, <3>1, <3>3, <3>5, PutKnown
      <3> QED BY <1>5, <3>6 DEF Reverse
    <2> QED BY <1>5, <2>1, <2>2 DEF Reverse
  <1>6. ASSUME NEW t \in Threads, PutRegister(t)
        PROVE  AllSaid(manifests') /\ cids' = cids /\ cidFiles' = cidFiles /\ published' = published
    <2>1. CASE UNCHANGED manifests
      BY <1>2, <1>6, <2>1 DEF PutRegister, cidVars
    <2>2. CASE manifests' = Put(manifests, {Target(t), <<req[t].repo, Digest[req[t].man]>>},
                                [man |-> req[t].man, digest |-> None])
      <3>1. PICK m : m = req[t].man
        OBVIOUS
      <3>2. req[t] \in Requests /\ req[t].op = "PutManifest"
        BY <1>6 DEF PutRegister, TypeInv, Serving, Ops
      <3>3. /\ m \in Manifests /\ req[t].ref \in Refs
            /\ req[t].repo \in Names \cup Images
            /\ m \in Says(req[t].repo, req[t].ref)
        BY <3>1, <3>2, RequestType DEF Says
      <3>4. Digest[m] \in Refs /\ m \in Says(req[t].repo, Digest[m])
        BY <3>3, DigestSaid
      <3>5. AllSaid(manifests')
        <4>1. PICK ks, mf : /\ ks = {Target(t), <<req[t].repo, Digest[m]>>}
                            /\ mf = [man |-> m, digest |-> None]
          OBVIOUS
        <4>2. \A k \in ks : k[1] \in Names \cup Images /\ k[2] \in Refs /\ m \in Says(k[1], k[2])
          BY <3>3, <3>4, <4>1 DEF Target
        <4>3. mf.man = m
          BY <4>1
        <4>4. manifests' = Put(manifests, ks, mf)
          BY <2>2, <3>1, <4>1
        <4> QED BY <1>2, <4>2, <4>3, <4>4, PutSaid
      <3> QED BY <1>6, <3>5 DEF PutRegister, cidVars
    <2> QED BY <1>6, <2>1, <2>2 DEF PutRegister
  <1>7. ASSUME NEW t \in Threads, PutAdd(t)
        PROVE  /\ manifests' = manifests /\ published' = published
               /\ AllKnown(cids') /\ AllKnown(cidFiles')
    <2>1. CASE UNCHANGED cidVars
      BY <1>2, <1>7, <2>1 DEF PutAdd, cidVars
    <2>2. ASSUME NEW c \in AddOutcomes(t), Record(t, c)
          PROVE  AllKnown(cids') /\ AllKnown(cidFiles')
      <3>1. c = Added(t) /\ c.man = req[t].man
        BY <1>7, AddedThen DEF Added
      <3>2. c \in Images
        BY <1>7, AddedThen
      <3>3. req[t] \in Requests /\ req[t].op = "PutManifest"
        BY <1>7 DEF PutAdd, TypeInv, Serving, PutPoints
      <3>4. PICK m : m = req[t].man
        OBVIOUS
      <3>5. /\ m \in Manifests /\ req[t].ref \in Refs
            /\ req[t].repo \in Names \cup Images
            /\ m \in Says(req[t].repo, req[t].ref)
        BY <3>3, <3>4, RequestType DEF Says
      <3>6. Digest[m] \in Refs /\ m \in Says(req[t].repo, Digest[m])
        BY <3>5, DigestSaid
      <3>7. c \notin Names /\ m \in Says(c, Latest)
        BY <3>1, <3>2, <3>4, ImageAssumption DEF Cids, Says
      <3>8. PICK ks : ks = {Target(t), <<req[t].repo, Digest[m]>>, <<c, Latest>>}
        OBVIOUS
      <3>9. \A k \in ks : Known(k, c)
        BY <3>1, <3>2, <3>4, <3>5, <3>6, <3>7, <3>8 DEF Known, Target
      <3>10. PICK kept : kept \subseteq ks /\ cids' = Put(cids, ks, c)
                         /\ (cidFiles' = Put(cidFiles, kept, c) \/ UNCHANGED cidFiles)
        <4>1. {k \in ks : Persistent(k, c)} \subseteq ks
          OBVIOUS
        <4> QED BY <2>2, <3>4, <3>8, <4>1 DEF Record
      <3> QED BY <1>2, <3>9, <3>10, PutKnown
    <2> QED BY <1>7, <2>1, <2>2 DEF PutAdd
  <1>8. CASE Restart
    BY <1>2, <1>8 DEF Restart, EmptyMap, AllSaid
  <1>9. ASSUME NEW x \in External, Publish(x)
        PROVE  AllKnown(published') /\ UNCHANGED <<manifests, cids, cidFiles>>
    <2>1. Known(<<x.repo, x.ref>>, x.cid)
      BY CallAssumption DEF Known, Says
    <2> QED BY <1>2, <1>9, <2>1, PutKnown DEF Publish, cidVars
  <1> HIDE DEF AllKnown
  <1> QED BY <1>2, <1>4, <1>5, <1>6, <1>7, <1>8, <1>9, MapsChange

\* Only the end of a GET gives an answer with a manifest and a CID.
LEMMA BothSaid ==
    ASSUME TypeInv, [Next]_vars, NEW u \in Threads, resp'[u] # resp[u],
           resp'[u].man # None, resp'[u].cid # None
    PROVE  /\ Reverse(u) /\ Resolve(req[u].repo, req[u].ref) # None
           /\ resp'[u] = Served("200", manifests[Target(u)], Resolve(req[u].repo, req[u].ref))
  <1>1. ASSUME NEW t \in Threads, NEW a, Reply(t, a), a.man = None \/ a.cid = None PROVE FALSE
    BY <1>1 DEF Reply, TypeInv, TypeOK
  <1>2. /\ \A s : Answer(s).man = None
        /\ \A s, mf : Served(s, mf, None).cid = None
        /\ \A s, c : [Answer(s) EXCEPT !.cid = c].man = None
    BY DEF Answer, Served
  <1>3. \A s, d, c : [Answer(s) EXCEPT !.digest = d, !.cid = c].man = None
    BY NoManifest
  <1>4. ASSUME NEW t \in Threads, NEW q \in Requests, Send(t, q) PROVE FALSE
    BY <1>2, <1>4 DEF Send, TypeInv, TypeOK
  <1>5. ASSUME NEW t \in Threads, PutBlob(t) \/ HeadBlobLocal(t) \/ HeadBlobGateway(t)
        PROVE  FALSE
    BY <1>1, <1>2, <1>5 DEF PutBlob, HeadBlobLocal, HeadBlobGateway
  <1>6. ASSUME NEW t \in Threads, GetBlob(t) \/ Dig(t) PROVE FALSE
    BY <1>1, <1>2, <1>6 DEF GetBlob, Dig
  <1>7. ASSUME NEW t \in Threads, HeadBlobResolve(t) \/ FetchResolve(t) PROVE FALSE
    BY <1>1, <1>2, <1>7 DEF HeadBlobResolve, FetchResolve, Goto
  <1>8. ASSUME NEW t \in Threads, FetchCached(t) \/ FetchGateway(t) PROVE FALSE
    BY <1>1, <1>2, <1>8 DEF FetchCached, FetchGateway, Fetched, Goto
  <1>9. ASSUME NEW t \in Threads, PutRegister(t) \/ PutGet(t) \/ PutRemove(t) PROVE FALSE
    BY <1>1, <1>2, <1>9 DEF PutRegister, PutGet, PutRemove, Goto
  <1>10. ASSUME NEW t \in Threads, PutAdd(t) PROVE FALSE
    <2>1. ASSUME NEW c,
                 Reply(t, [Answer("201") EXCEPT !.digest = Digest[req[t].man], !.cid = c])
          PROVE  FALSE
      <3> DEFINE a == [Answer("201") EXCEPT !.digest = Digest[req[t].man], !.cid = c]
      <3>1. a.man = None
        BY <1>3
      <3>2. Reply(t, a)
        BY <2>1
      <3> HIDE DEF a
      <3> QED BY <1>1, <3>1, <3>2
    <2>2. ~Reply(t, Answer("500"))
      BY <1>1, <1>2
    <2> QED BY <1>10, <2>1, <2>2 DEF PutAdd
  <1>11. ~Restart
    BY <1>2 DEF Restart
  <1>12. ASSUME UNCHANGED vars \/ \E x \in External : Publish(x) PROVE FALSE
    BY <1>12 DEF vars, Publish
  <1>13. ASSUME NEW t \in Threads, Reverse(t)
         PROVE  /\ t = u /\ Resolve(req[u].repo, req[u].ref) # None
                /\ resp'[u] = Served("200", manifests[Target(u)], Resolve(req[u].repo, req[u].ref))
    <2> DEFINE c == Resolve(req[t].repo, req[t].ref)
               mf == manifests[Target(t)]
    <2>1. ~Reply(t, Answer("404")) /\ ~Reply(t, Answer("panic"))
      BY <1>1, <1>2
    <2>2. c # None /\ Reply(t, Served("200", mf, c))
      BY <1>13, <2>1 DEF Reverse
    <2> HIDE DEF c, mf
    <2>3. t = u /\ resp'[u] = Served("200", mf, c)
      BY <2>2 DEF Reply, TypeInv, TypeOK
    <2> QED BY <2>2, <2>3 DEF c, mf
  <1> QED
    BY <1>4, <1>5, <1>6, <1>7, <1>8, <1>9, <1>10, <1>11, <1>12, <1>13 DEF Next, Handle

\* A GET resolves twice, and both times it is told the same of its reference.
LEMMA ReverseAgrees ==
    ASSUME NothingMoves, TypeInv, Agreed, NEW t \in Threads, Reverse(t),
           Resolve(req[t].repo, req[t].ref) # None
    PROVE  /\ Resolve(req[t].repo, req[t].ref) \in Images
           /\ Resolve(req[t].repo, req[t].ref).man = manifests[Target(t)].man
  <1>1. req[t] \in Requests /\ Target(t) \in DOMAIN manifests
    BY DEF Reverse, TypeInv, Serving
  <1>2. PICK c : c = Resolve(req[t].repo, req[t].ref)
    OBVIOUS
  <1>3. Known(Target(t), c)
    BY <1>1, <1>2, ResolveKnown DEF Target
  <1>4. /\ req[t].repo \in Names \cup Images /\ req[t].ref \in Refs
        /\ manifests[Target(t)].man \in Says(req[t].repo, req[t].ref)
    BY <1>1 DEF Agreed, Target
  <1>5. c \in Images /\ c.man \in Says(req[t].repo, req[t].ref)
    BY <1>3, <1>4 DEF Known, Target
  <1> QED BY <1>2, <1>4, <1>5 DEF NothingMoves

LEMMA AnswersStep ==
    ASSUME NothingMoves, TypeInv, Agreed, AnswersAgree, [Next]_vars
    PROVE  AnswersAgree'
  <1> SUFFICES ASSUME NEW t \in Threads, resp'[t].man # None, resp'[t].cid # None
               PROVE  resp'[t].cid \in Images /\ resp'[t].cid.man = resp'[t].man
    BY DEF AnswersAgree
  <1>1. CASE resp'[t] = resp[t]
    BY <1>1 DEF AnswersAgree
  <1>2. CASE resp'[t] # resp[t]
    <2>1. PICK c, mf : c = Resolve(req[t].repo, req[t].ref) /\ mf = manifests[Target(t)]
      OBVIOUS
    <2>2. Reverse(t) /\ c # None /\ resp'[t] = Served("200", mf, c)
      BY <1>2, <2>1, BothSaid
    <2>3. c \in Images /\ c.man = mf.man
      BY <2>1, <2>2, ReverseAgrees
    <2> QED BY <2>2, <2>3 DEF Served
  <1> QED BY <1>1, <1>2

LEMMA AgreedInit == Init => Agreed /\ AnswersAgree
  BY DEF Init, Agreed, AnswersAgree, EmptyMap, AtGateway, Answer

\* As long as no reference is moved to another manifest, neither two resolutions
\* of a GET nor the caches between them can make it name a CID that its manifest
\* does not come from, whatever is pushed, pulled, published, restarted or
\* refused by the gateway, the API or the disk in between.
THEOREM ServedIsFound == NothingMoves /\ ApiReached => (Spec => []ServedFromCid)
  <1> SUFFICES ASSUME NothingMoves, ApiReached PROVE Spec => []ServedFromCid
    OBVIOUS
  <1>1. TypeInv /\ Agreed /\ AnswersAgree /\ [Next]_vars => Agreed' /\ AnswersAgree'
    BY AgreedStep, AnswersStep
  <1>2. AnswersAgree => ServedFromCid
    BY ImageAssumption DEF AnswersAgree, ServedFromCid
  <1> QED BY <1>1, <1>2, AgreedInit, TypeInit, TypeStep, PTL DEF Spec

-----------------------------------------------------------------------------
(* The lookups that GET prepares. *)

AllWhole(f) == \A k \in DOMAIN f : Whole(f[k])

\* The blobs that can be looked up are where the lookup leads.
LeadsToBlobs(f) == \A k \in DOMAIN f : k[2] \in Blobs => HasBlob(f[k], k[2])

\* Every image that the server knows is whole.
WholeInv ==
    /\ AllWhole(cids) /\ AllWhole(cidFiles) /\ AllWhole(published)
    /\ LeadsToBlobs(cids)
    /\ \A t \in Threads : AtGateway(t) => Whole(cidOf[t])

\* The images that PUTs add are whole.
AddedWhole == \A t \in Threads : PutAdd(t) => Whole(Added(t))

LEMMA ResolveWhole ==
    ASSUME GivenWhole, WholeInv, NEW q \in Requests, Resolve(q.repo, q.ref) # None
    PROVE  Whole(Resolve(q.repo, q.ref))
  <1>1. q.repo \notin Names => Whole(q.repo)
    BY RequestType DEF GivenWhole
  <1> HIDE DEF Whole
  <1> QED BY <1>1 DEF Resolve, WholeInv, AllWhole

LEMMA PutWhole ==
    ASSUME NEW f, AllWhole(f), NEW ks, NEW c, Whole(c)
    PROVE  AllWhole(Put(f, ks, c))
  <1> HIDE DEF Whole
  <1> QED BY DEF AllWhole, Put

LEMMA PutLeads ==
    ASSUME NEW f, LeadsToBlobs(f), NEW ks, NEW c,
           \A k \in ks : k[2] \in Blobs => HasBlob(c, k[2])
    PROVE  LeadsToBlobs(Put(f, ks, c))
  BY DEF LeadsToBlobs, Put

\* The keys under which the server records a CID by itself are references, but
\* for those of the blobs that GET prepares.
LEMMA WholeStep ==
    ASSUME NothingMoves, ApiReached, GivenWhole, TypeInv, Agreed, WholeInv, AddedWhole,
           [Next]_vars
    PROVE  WholeInv'
  <1>1. \A t \in Threads : AtGateway(t)' => Whole(cidOf'[t])
    BY GatewayFrame, ResolveWhole DEF WholeInv
  <1> SUFFICES AllWhole(cids') /\ AllWhole(cidFiles') /\ AllWhole(published') /\ LeadsToBlobs(cids')
    BY <1>1 DEF WholeInv
  <1>2. AllWhole(cids) /\ AllWhole(cidFiles) /\ AllWhole(published) /\ LeadsToBlobs(cids)
    BY DEF WholeInv
  <1>3. \A g \in Refs : g \notin Blobs
    BY ImageAssumption DEF NothingMoves, Refs
  <1>4. ASSUME NEW t \in Threads, FetchGateway(t)
        PROVE  /\ AllWhole(cids') /\ LeadsToBlobs(cids')
               /\ cidFiles' = cidFiles /\ published' = published
    <2>1. CASE UNCHANGED cids
      BY <1>2, <1>4, <2>1 DEF FetchGateway
    <2>2. CASE /\ HasManifest(cidOf[t], req[t].ref)
               /\ cids' = Put(cids, {<<req[t].repo, Digest[cidOf[t].man]>>}, cidOf[t])
      <3>1. PICK c, d : c = cidOf[t] /\ d = Digest[c.man]
        OBVIOUS
      <3>2. d \in Refs
        BY <1>4, <2>2, <3>1, ImageParts
          DEF FetchGateway, TypeInv, Serving, HasManifest, Refs
      <3>3. Whole(c)
        BY <1>4, <3>1 DEF FetchGateway, WholeInv, AtGateway
      <3>4. \A k \in {<<req[t].repo, d>>} : k[2] \notin Blobs
        BY <1>3, <3>2
      <3> QED BY <1>2, <1>4, <2>2, <3>1, <3>3, <3>4, PutWhole, PutLeads DEF FetchGateway
    <2> QED BY <1>4, <2>1, <2>2 DEF FetchGateway
  <1>5. ASSUME NEW t \in Threads, Reverse(t)
        PROVE  /\ AllWhole(cids') /\ LeadsToBlobs(cids')
               /\ cidFiles' = cidFiles /\ published' = published
    <2>1. CASE UNCHANGED cids
      BY <1>2, <1>5, <2>1 DEF Reverse
    <2>2. CASE /\ Resolve(req[t].repo, req[t].ref) # None
               /\ manifests[Target(t)].man \in Plain
               /\ cids' = Put(cids, {req[t].repo} \X BlobsOf[manifests[Target(t)].man],
                              Resolve(req[t].repo, req[t].ref))
      <3>1. PICK c, m : c = Resolve(req[t].repo, req[t].ref) /\ m = manifests[Target(t)].man
        OBVIOUS
      <3>2. PICK ks : ks = {req[t].repo} \X BlobsOf[m]
        OBVIOUS
      <3>3. Whole(c)
        BY <1>5, <2>2, <3>1, ResolveWhole DEF Reverse, TypeInv, Serving
      <3>4. c \in Images /\ c.man = m
        BY <1>5, <2>2, <3>1, ReverseAgrees
      <3>5. \A k \in ks : HasBlob(c, k[2])
        BY <2>2, <3>1, <3>2, <3>3, <3>4, ImageAssumption DEF Whole, HasBlob, Cids
      <3> QED BY <1>2, <1>5, <2>2, <3>1, <3>2, <3>3, <3>5, PutWhole, PutLeads DEF Reverse
    <2> QED BY <1>5, <2>1, <2>2 DEF Reverse
  <1>6. ASSUME NEW t \in Threads, PutRegister(t) PROVE UNCHANGED <<cids, cidFiles, published>>
    BY <1>6 DEF PutRegister, cidVars
  <1>7. ASSUME NEW t \in Threads, PutAdd(t)
        PROVE  /\ AllWhole(cids') /\ AllWhole(cidFiles') /\ LeadsToBlobs(cids')
               /\ published' = published
    <2>1. CASE UNCHANGED cidVars
      BY <1>2, <1>7, <2>1 DEF PutAdd, cidVars
    <2>2. ASSUME NEW c \in AddOutcomes(t), Record(t, c)
          PROVE  AllWhole(cids') /\ AllWhole(cidFiles') /\ LeadsToBlobs(cids')
      <3>1. Whole(c)
        BY <1>7, AddedThen DEF AddedWhole
      <3>2. PICK ks : ks = {Target(t), <<req[t].repo, Digest[req[t].man]>>, <<c, Latest>>}
        OBVIOUS
      <3>3. req[t].ref \in Refs /\ Digest[req[t].man] \in Refs /\ Latest \in Refs
        BY <1>7, RequestType, ImageAssumption
          DEF PutAdd, TypeInv, Serving, PutPoints, Refs, Digests
      <3>4. \A k \in ks : k[2] \notin Blobs
        BY <1>3, <3>2, <3>3 DEF Target
      <3>5. PICK kept : cids' = Put(cids, ks, c)
                        /\ (cidFiles' = Put(cidFiles, kept, c) \/ UNCHANGED cidFiles)
        BY <2>2, <3>2 DEF Record
      <3> QED BY <1>2, <3>1, <3>4, <3>5, PutWhole, PutLeads
    <2> QED BY <1>7, <2>1, <2>2 DEF PutAdd
  <1>8. CASE Restart
    BY <1>2, <1>8 DEF Restart, EmptyMap, AllWhole, LeadsToBlobs
  <1>9. ASSUME NEW x \in External, Publish(x)
        PROVE  AllWhole(published') /\ UNCHANGED <<cids, cidFiles>>
    BY <1>2, <1>9, PutWhole DEF Publish, cidVars, GivenWhole
  <1> QED
    BY <1>2, <1>4, <1>5, <1>6, <1>7, <1>8, <1>9, MapsChange

LEMMA WholeInit == Init => WholeInv
  BY DEF Init, WholeInv, AllWhole, LeadsToBlobs, EmptyMap, AtGateway

\* As long as no reference is moved to another manifest and what is published is
\* whole, the blobs of every manifest a GET has served are under the CIDs that
\* the server looks for them in, whatever is pulled by tag, digest or CID,
\* cached, restarted and refused by the gateway in between.
THEOREM LookupsLead == NothingMoves /\ OnlyPulls => (Spec => []ReverseSound)
  <1> SUFFICES ASSUME NothingMoves, OnlyPulls PROVE Spec => []ReverseSound
    OBVIOUS
  <1>1. ApiReached /\ GivenWhole
    BY DEF OnlyPulls, ApiReached
  <1>2. TypeInv => AddedWhole
    BY DEF TypeInv, Serving, PutPoints, PutAdd, AddedWhole, OnlyPulls
  <1>3. TypeInv /\ Agreed /\ WholeInv /\ [Next]_vars => Agreed' /\ WholeInv'
    BY <1>1, <1>2, AgreedStep, WholeStep
  <1>4. WholeInv => ReverseSound
    BY DEF WholeInv, LeadsToBlobs, ReverseSound
  <1> QED BY <1>3, <1>4, AgreedInit, WholeInit, TypeInit, TypeStep, PTL DEF Spec

=============================================================================
