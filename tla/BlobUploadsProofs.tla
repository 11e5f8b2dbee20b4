-------------------------- MODULE BlobUploadsProofs --------------------------
(***************************************************************************)
(* Theorems about BlobUploads, for any number of connections, any pieces   *)
(* and any calls, cut off anywhere, served in any order, with restarts.    *)
(***************************************************************************)
EXTENDS BlobUploads, MapTheorems

-----------------------------------------------------------------------------
(* Sequences. *)

\* Every sequence is a prefix of itself.
LEMMA PrefixReflexive ==
    ASSUME NEW S, NEW s \in Seq(S)
    PROVE  IsPrefix(s, s)
  BY DEF IsPrefix

\* The empty sequence is a prefix of every sequence.
LEMMA PrefixEmpty ==
    ASSUME NEW S, NEW s \in Seq(S)
    PROVE  IsPrefix(<<>>, s)
  BY DEF IsPrefix

\* A prefix of a sequence is one of what is made by appending to it.
LEMMA PrefixAppend ==
    ASSUME NEW S, NEW s \in Seq(S), NEW b \in Seq(S), NEW x \in S, IsPrefix(s, b)
    PROVE  IsPrefix(s, Append(b, x))
  <1>1. Len(s) \in Nat /\ Len(b) \in Nat /\ Len(s) <= Len(b)
    BY DEF IsPrefix
  <1>2. SubSeq(Append(b, x), 1, Len(s)) = SubSeq(b, 1, Len(s))
    BY <1>1
  <1> QED
    BY <1>1, <1>2 DEF IsPrefix

-----------------------------------------------------------------------------
(* The inductive invariant. *)

Patches == {"range", "stream"}

\* Where a connection is says which call it serves, and whoever reads a body
\* holds the lock.
Serving ==
    \A t \in Conns :
        /\ pc[t] # "idle" => call[t] \in Requests
        /\ pc[t] \in Ops => call[t].op = pc[t]
        /\ pc[t] = "reading" => call[t].op \in Patches \cup {"finish"} /\ lock = t

\* While a chunk is read its buffer goes on from the session as it is, and
\* while a stream is read its session does not exist.
Behind ==
    \A t \in Conns : pc[t] = "reading" =>
        /\ call[t].op = "range" => IsPrefix(Session(call[t].id), buf[t])
        /\ call[t].op = "stream" => call[t].id \notin DOMAIN uploads

UploadInv == TypeOK /\ Serving /\ Behind

\* The fields of a call.
LEMMA CallType ==
    ASSUME NEW q \in Requests
    PROVE  /\ q.op \in Ops /\ q.repo \in Repos /\ q.body \in Bytes
           /\ q.op \in Patches \cup {"finish"} => q.id \in Ids
           /\ q.op \in {"finish", "whole"} => q.digest \in Asked
  <1>1. q \in Calls
    BY UploadAssumption
  <1>2. q.op \in {"finish", "whole"} => q.digest # None
    BY UploadAssumption
  <1> QED
    BY <1>1, <1>2, UploadAssumption DEF Calls, Patches, Asked

\* A session holds bytes.
LEMMA SessionType ==
    ASSUME TypeOK, NEW i
    PROVE  Session(i) \in Bytes
  BY DEF TypeOK, Session, Bytes

\* Answering keeps the types of the connections.
LEMMA ReplyType ==
    ASSUME TypeOK, NEW t \in Conns, NEW st \in Statuses, NEW i \in Ids \cup {None},
           Reply(t, st, i)
    PROVE  /\ pc' \in [Conns -> Ops \cup {"idle", "reading"}]
           /\ call' \in [Conns -> Requests \cup {None}]
           /\ rest' \in [Conns -> Bytes]
           /\ buf' \in [Conns -> Bytes]
           /\ resp' \in [Conns -> Answers \cup {None}]
  <1>1. [status |-> st, id |-> i] \in Answers
    BY DEF Answers
  <1>2. <<>> \in Bytes
    BY DEF Bytes
  <1> QED
    BY <1>1, <1>2 DEF TypeOK, Reply

\* Beginning to read keeps them too.
LEMMA ReadAfterType ==
    ASSUME TypeOK, NEW t \in Conns, NEW s \in Bytes, ReadAfter(t, s)
    PROVE  /\ pc' \in [Conns -> Ops \cup {"idle", "reading"}]
           /\ call' \in [Conns -> Requests \cup {None}]
           /\ rest' \in [Conns -> Bytes]
           /\ buf' \in [Conns -> Bytes]
           /\ resp' \in [Conns -> Answers \cup {None}]
  BY DEF TypeOK, ReadAfter

\* Filing bytes under the digest asked for keeps the types of the store.
LEMMA FileType ==
    ASSUME TypeOK, NEW r \in Repos, NEW s \in Bytes, Sha(s) \in Asked, File(r, s)
    PROVE  /\ DOMAIN contents' \subseteq Asked
           /\ \A d \in DOMAIN contents' : contents'[d] \in Bytes
           /\ DOMAIN layers' \subseteq Repos
           /\ \A x \in DOMAIN layers' : layers'[x] \in Seq(Asked)
  <1> DEFINE old == IF r \in DOMAIN layers THEN layers[r] ELSE <<>>
             new == Append(old, Sha(s))
  <1>1. new \in Seq(Asked)
    <2>1. old \in Seq(Asked)
      BY DEF TypeOK
    <2> HIDE DEF old
    <2> QED BY <2>1
  <1>2. contents' = Put(contents, {Sha(s)}, s) /\ layers' = Put(layers, {r}, new)
    BY DEF File
  <1>3. /\ DOMAIN contents' \subseteq Asked
        /\ \A d \in DOMAIN contents' : contents'[d] \in Bytes
    BY <1>2, PutValue DEF TypeOK, Put
  <1> HIDE DEF new
  <1>4. /\ DOMAIN layers' \subseteq Repos
        /\ \A x \in DOMAIN layers' : layers'[x] \in Seq(Asked)
    BY <1>1, <1>2 DEF TypeOK, Put
  <1> QED BY <1>3, <1>4

\* At first nothing is held and nobody is served.
LEMMA UploadInit == Init => UploadInv
  <1> SUFFICES ASSUME Init PROVE UploadInv
    OBVIOUS
  <1>1. <<>> \in Bytes
    BY DEF Bytes
  <1>2. 0 \in 0..MaxDraws
    BY UploadAssumption
  <1>3. TypeOK
    BY <1>1, <1>2 DEF Init, TypeOK, EmptyMap
  <1>4. Serving /\ Behind
    BY DEF Init, Serving, Behind, Ops
  <1> QED BY <1>3, <1>4 DEF UploadInv

\* Every step keeps the types.
LEMMA TypeStep == UploadInv /\ [Next]_vars => TypeOK'
  <1> SUFFICES ASSUME UploadInv, [Next]_vars PROVE TypeOK'
    OBVIOUS
  <1> USE DEF UploadInv
  <1>1. CASE UNCHANGED vars
    BY <1>1 DEF vars, stores, conn, TypeOK
  <1>2. ASSUME NEW t \in Conns, NEW q \in Requests, Send(t, q) PROVE TypeOK'
    <2>1. q.op \in Ops /\ q.body \in Bytes
      BY CallType
    <2> QED BY <1>2, <2>1 DEF Send, TypeOK, stores
  <1>3. ASSUME NEW t \in Conns, Start(t) PROVE TypeOK'
    <2>1. drawn + 1 \in Ids /\ drawn + 1 \in 0..MaxDraws
      BY <1>3, UploadAssumption DEF Start, TypeOK, Ids
    <2>2. "202" \in Statuses /\ Reply(t, "202", drawn + 1)
      BY <1>3 DEF Start, Statuses
    <2>3. /\ pc' \in [Conns -> Ops \cup {"idle", "reading"}]
          /\ call' \in [Conns -> Requests \cup {None}]
          /\ rest' \in [Conns -> Bytes]
          /\ buf' \in [Conns -> Bytes]
          /\ resp' \in [Conns -> Answers \cup {None}]
      BY <2>1, <2>2, ReplyType
    <2> QED BY <1>3, <2>1, <2>3 DEF Start, TypeOK, stores
  <1>4. ASSUME NEW t \in Conns, OpenRange(t) \/ OpenStream(t) \/ OpenFinish(t) PROVE TypeOK'
    <2>1. PICK s \in Bytes :
             \/ \E st \in Statuses : Reply(t, st, None)
             \/ ReadAfter(t, s)
      <3>1. Session(call[t].id) \in Bytes /\ <<>> \in Bytes
        BY SessionType DEF Bytes
      <3> QED BY <1>4, <3>1 DEF OpenRange, OpenStream, OpenFinish, Statuses
    <2>2. /\ pc' \in [Conns -> Ops \cup {"idle", "reading"}]
          /\ call' \in [Conns -> Requests \cup {None}]
          /\ rest' \in [Conns -> Bytes]
          /\ buf' \in [Conns -> Bytes]
          /\ resp' \in [Conns -> Answers \cup {None}]
      BY <2>1, ReplyType, ReadAfterType
    <2>3. lock' \in Conns \cup {None} /\ UNCHANGED <<stores, drawn>>
      BY <1>4 DEF OpenRange, OpenStream, OpenFinish, TypeOK
    <2> QED BY <2>2, <2>3 DEF TypeOK, stores
  <1>5. ASSUME NEW t \in Conns, Read(t) PROVE TypeOK'
    <2>1. rest[t] \in Seq(Pieces) /\ buf[t] \in Seq(Pieces) /\ rest[t] # <<>>
      BY <1>5 DEF Read, TypeOK, Bytes
    <2>2. Append(buf[t], Head(rest[t])) \in Bytes /\ Tail(rest[t]) \in Bytes
      BY <2>1 DEF Bytes
    <2> QED BY <1>5, <2>2 DEF Read, TypeOK, stores
  <1>6. ASSUME NEW t \in Conns, EndPatch(t) PROVE TypeOK'
    <2>1. call[t].id \in Ids /\ buf[t] \in Bytes
      BY <1>6, CallType DEF EndPatch, TypeOK, Serving, Patches
    <2>2. /\ DOMAIN uploads' \subseteq Ids
          /\ \A i \in DOMAIN uploads' : uploads'[i] \in Bytes
      BY <1>6, <2>1 DEF EndPatch, TypeOK, Put
    <2>3. /\ pc' \in [Conns -> Ops \cup {"idle", "reading"}]
          /\ call' \in [Conns -> Requests \cup {None}]
          /\ rest' \in [Conns -> Bytes]
          /\ buf' \in [Conns -> Bytes]
          /\ resp' \in [Conns -> Answers \cup {None}]
      BY <1>6, ReplyType DEF EndPatch, Statuses
    <2> QED BY <1>6, <2>2, <2>3 DEF EndPatch, TypeOK
  <1>7. ASSUME NEW t \in Conns, EndFinish(t) \/ PostWhole(t) PROVE TypeOK'
    <2>1. /\ pc' \in [Conns -> Ops \cup {"idle", "reading"}]
          /\ call' \in [Conns -> Requests \cup {None}]
          /\ rest' \in [Conns -> Bytes]
          /\ buf' \in [Conns -> Bytes]
          /\ resp' \in [Conns -> Answers \cup {None}]
      BY <1>7, ReplyType DEF EndFinish, PostWhole, Statuses
    <2>2. lock' \in Conns \cup {None} /\ drawn' = drawn
      BY <1>7 DEF EndFinish, PostWhole, TypeOK
    <2>3. /\ DOMAIN uploads' \subseteq Ids
          /\ \A i \in DOMAIN uploads' : uploads'[i] \in Bytes
      BY <1>7 DEF EndFinish, PostWhole, TypeOK, stores, Restrict
    <2>4. CASE UNCHANGED <<contents, layers>>
      BY <2>1, <2>2, <2>3, <2>4 DEF TypeOK
    <2>5. ASSUME NEW s \in Bytes, Sha(s) = call[t].digest, File(call[t].repo, s)
          PROVE  TypeOK'
      <3>1. call[t].repo \in Repos /\ Sha(s) \in Asked
        BY <1>7, <2>5, CallType DEF EndFinish, PostWhole, Serving, Ops
      <3>2. /\ DOMAIN contents' \subseteq Asked
            /\ \A d \in DOMAIN contents' : contents'[d] \in Bytes
            /\ DOMAIN layers' \subseteq Repos
            /\ \A x \in DOMAIN layers' : layers'[x] \in Seq(Asked)
        BY <2>5, <3>1, FileType
      <3> QED BY <2>1, <2>2, <2>3, <3>2 DEF TypeOK
    <2> QED BY <1>7, <2>4, <2>5 DEF EndFinish, PostWhole, TypeOK, stores
  <1>8. ASSUME NEW t \in Conns, NEW n \in Nat, Cut(t, n) PROVE TypeOK'
    <2>1. rest[t] \in Seq(Pieces) /\ n <= Len(rest[t])
      BY <1>8 DEF Cut, TypeOK, Bytes
    <2>2. SubSeq(rest[t], 1, n) \in Bytes
      BY <2>1 DEF Bytes
    <2> QED BY <1>8, <2>2 DEF Cut, TypeOK, stores
  <1>9. ASSUME NEW r \in Repos, Discard(r) PROVE TypeOK'
    BY <1>9 DEF Discard, TypeOK, conn, Restrict
  <1>10. CASE Restart
    <2>1. [status |-> "aborted", id |-> None] \in Answers
      BY DEF Answers, Statuses
    <2>2. drawn' \in 0..MaxDraws
      BY <1>10, UploadAssumption DEF Restart, TypeOK
    <2>3. <<>> \in Bytes
      BY DEF Bytes
    <2> QED BY <1>10, <2>1, <2>2, <2>3 DEF Restart, TypeOK, EmptyMap
  <1> QED
    BY <1>1, <1>2, <1>3, <1>4, <1>5, <1>6, <1>7, <1>8, <1>9, <1>10 DEF Next, Serve

\* A reply leaves the lock as it was or free, and every other connection as it
\* was; so does what it says of this one.
LEMMA ServingReply ==
    ASSUME TypeOK, Serving, NEW t \in Conns, NEW st, NEW i, Reply(t, st, i),
           \/ UNCHANGED lock
           \/ lock = t
    PROVE  Serving'
  <1>1. \A u \in Conns \ {t} : pc'[u] = pc[u] /\ call'[u] = call[u]
    BY DEF Reply, TypeOK
  <1>2. pc'[t] = "idle"
    BY DEF Reply, TypeOK
  <1>3. \A u \in Conns \ {t} : pc[u] = "reading" => lock' = u
    BY DEF Serving
  <1> QED
    BY <1>1, <1>2, <1>3 DEF Serving, Ops

\* Every step keeps what Serving says.
LEMMA ServingStep == UploadInv /\ [Next]_vars => Serving'
  <1> SUFFICES ASSUME UploadInv, [Next]_vars PROVE Serving'
    OBVIOUS
  <1> USE DEF UploadInv
  <1>1. CASE UNCHANGED vars
    BY <1>1 DEF vars, conn, Serving
  <1>2. ASSUME NEW t \in Conns, NEW q \in Requests, Send(t, q) PROVE Serving'
    <2>1. q.op # "idle" /\ q.op # "reading" /\ pc[t] = "idle"
      BY <1>2, CallType DEF Send, Ops
    <2> QED BY <1>2, <2>1 DEF Send, Serving, TypeOK
  <1>3. ASSUME NEW t \in Conns,
               Start(t) \/ EndPatch(t) \/ EndFinish(t) \/ PostWhole(t)
        PROVE  Serving'
    <2>1. PICK st, i : Reply(t, st, i)
      BY <1>3 DEF Start, EndPatch, EndFinish, PostWhole
    <2>2. UNCHANGED lock \/ lock = t
      BY <1>3 DEF Start, EndPatch, EndFinish, PostWhole, Serving
    <2> QED BY <2>1, <2>2, ServingReply
  <1>4. ASSUME NEW t \in Conns, OpenRange(t) \/ OpenStream(t) \/ OpenFinish(t) PROVE Serving'
    <2>1. lock = None /\ pc[t] \in Patches \cup {"finish"} /\ pc[t] \in Ops
      BY <1>4 DEF OpenRange, OpenStream, OpenFinish, Ops, Patches
    <2>2. CASE UNCHANGED lock /\ \E st, i : Reply(t, st, i)
      BY <2>2, ServingReply
    <2>3. ASSUME NEW s, lock' = t, ReadAfter(t, s) PROVE Serving'
      <3>1. pc' = [pc EXCEPT ![t] = "reading"] /\ call' = call
        BY <2>3 DEF ReadAfter
      <3>2. \A u \in Conns : pc[u] # "reading"
        BY <2>1, UploadAssumption DEF Serving
      <3> QED BY <2>1, <2>3, <3>1, <3>2 DEF Serving, TypeOK, Ops
    <2> QED BY <1>4, <2>2, <2>3 DEF OpenRange, OpenStream, OpenFinish
  <1>5. ASSUME NEW t \in Conns, Read(t) \/ \E n \in Nat : Cut(t, n) PROVE Serving'
    BY <1>5 DEF Read, Cut, Serving
  <1>6. ASSUME NEW r \in Repos, Discard(r) PROVE Serving'
    BY <1>6 DEF Discard, conn, Serving
  <1>7. CASE Restart
    BY <1>7 DEF Restart, Serving, Ops
  <1> QED
    BY <1>1, <1>2, <1>3, <1>4, <1>5, <1>6, <1>7 DEF Next, Serve

\* Every step keeps what Behind says: a session changes only when its reader
\* is done.
LEMMA BehindStep == UploadInv /\ [Next]_vars => Behind'
  <1> SUFFICES ASSUME UploadInv, [Next]_vars PROVE Behind'
    OBVIOUS
  <1> USE DEF UploadInv
  <1>1. CASE UNCHANGED vars
    BY <1>1 DEF vars, conn, stores, Behind, Session
  <1>2. ASSUME NEW t \in Conns, NEW q \in Requests, Send(t, q) PROVE Behind'
    <2>1. q.op # "reading"
      BY CallType DEF Ops
    <2> QED BY <1>2, <2>1 DEF Send, Behind, TypeOK, stores, Session
  <1>3. ASSUME NEW t \in Conns, NEW st, NEW i, Reply(t, st, i), UNCHANGED uploads PROVE Behind'
    BY <1>3 DEF Reply, Behind, TypeOK, Session
  <1>4. ASSUME NEW t \in Conns, EndPatch(t) \/ EndFinish(t) PROVE Behind'
    <2>1. \A u \in Conns : pc'[u] # "reading"
      <3>1. \A u \in Conns \ {t} : pc[u] # "reading" /\ pc'[u] = pc[u]
        BY <1>4 DEF EndPatch, EndFinish, Serving, Reply, TypeOK
      <3>2. pc'[t] = "idle"
        BY <1>4 DEF EndPatch, EndFinish, Reply, TypeOK
      <3> QED BY <3>1, <3>2
    <2> QED BY <2>1 DEF Behind
  <1>5. ASSUME NEW t \in Conns, NEW s, ReadAfter(t, s), UNCHANGED uploads,
               call[t].op = "range" => s = Session(call[t].id),
               call[t].op = "stream" => call[t].id \notin DOMAIN uploads
        PROVE  Behind'
    <2>1. call[t].op = "range" => IsPrefix(Session(call[t].id), s)
      BY <1>5, SessionType, PrefixReflexive DEF Bytes
    <2> QED BY <1>5, <2>1 DEF ReadAfter, Behind, TypeOK, Session
  <1>6. ASSUME NEW t \in Conns, OpenRange(t) \/ OpenStream(t) \/ OpenFinish(t) PROVE Behind'
    <2>1. call[t].op = pc[t] /\ UNCHANGED uploads
      BY <1>6 DEF OpenRange, OpenStream, OpenFinish, Serving, Ops, stores
    <2> QED BY <1>3, <1>5, <1>6, <2>1 DEF OpenRange, OpenStream, OpenFinish
  <1>7. ASSUME NEW t \in Conns, Read(t) PROVE Behind'
    <2>1. rest[t] \in Seq(Pieces) /\ buf[t] \in Seq(Pieces) /\ rest[t] # <<>>
      BY <1>7 DEF Read, TypeOK, Bytes
    <2>2. Head(rest[t]) \in Pieces
      BY <2>1
    <2>3. Session(call[t].id) \in Seq(Pieces)
      BY SessionType DEF Bytes
    <2>4. IsPrefix(Session(call[t].id), buf[t])
             => IsPrefix(Session(call[t].id), Append(buf[t], Head(rest[t])))
      BY <2>1, <2>2, <2>3, PrefixAppend
    <2>5. buf' = [buf EXCEPT ![t] = Append(buf[t], Head(rest[t]))]
      BY <1>7 DEF Read
    <2> QED BY <1>7, <2>4, <2>5 DEF Read, Behind, TypeOK, stores, Session
  <1>8. ASSUME NEW t \in Conns, NEW n \in Nat, Cut(t, n) PROVE Behind'
    BY <1>8 DEF Cut, Behind, stores, Session
  <1>9. ASSUME NEW r \in Repos, Discard(r) PROVE Behind'
    BY <1>9 DEF Discard, conn, Behind, Session
  <1>10. CASE Restart
    BY <1>10 DEF Restart, Behind
  <1>11. ASSUME NEW t \in Conns, Start(t) \/ PostWhole(t) PROVE Behind'
    BY <1>3, <1>11 DEF Start, PostWhole, stores
  <1> QED
    BY <1>1, <1>2, <1>4, <1>6, <1>7, <1>8, <1>9, <1>10, <1>11 DEF Next, Serve

\* The invariant is inductive.
LEMMA UploadStep == UploadInv /\ [Next]_vars => UploadInv'
  BY TypeStep, ServingStep, BehindStep DEF UploadInv

-----------------------------------------------------------------------------

\* The handlers keep the types, and only the holder of b.lock reads a body
\* into a session.
THEOREM UploadsTyped == Spec => [](TypeOK /\ Serving /\ Behind)
  BY UploadInit, UploadStep, PTL DEF Spec, UploadInv

\* What is held under a digest has that digest.
THEOREM BlobsVerified == Spec => []ContentAddressed
  <1>1. Init => ContentAddressed
    BY DEF Init, ContentAddressed, EmptyMap
  <1>2. ASSUME ContentAddressed, [Next]_vars PROVE ContentAddressed'
    <2>1. ASSUME NEW r, NEW s, File(r, s) PROVE ContentAddressed'
      BY <1>2, <2>1 DEF File, ContentAddressed, Put
    <2>2. CASE UNCHANGED contents
      BY <1>2, <2>2 DEF ContentAddressed
    <2>3. ASSUME NEW r \in Repos, Discard(r) PROVE ContentAddressed'
      BY <1>2, <2>3 DEF Discard, ContentAddressed, Restrict
    <2>4. CASE Restart
      BY <2>4 DEF Restart, ContentAddressed, EmptyMap
    <2>5. ASSUME NEW t \in Conns, Serve(t) PROVE ContentAddressed'
      BY <2>1, <2>2, <2>5 DEF Serve, Start, OpenRange, OpenStream, OpenFinish, Read,
        EndPatch, EndFinish, PostWhole, stores
    <2> QED
      BY <1>2, <2>2, <2>3, <2>4, <2>5 DEF Next, Send, Cut, vars, stores
  <1> QED
    BY <1>1, <1>2, PTL DEF Spec

\* A session only grows.
THEOREM SessionsGrow == Spec => SessionGrows
  <1> DEFINE Grows == \A i \in DOMAIN uploads \cap DOMAIN uploads' :
                         IsPrefix(uploads[i], uploads'[i])
  <1>1. ASSUME UploadInv, [Next]_vars PROVE Grows
    <2>1. \A i \in DOMAIN uploads : uploads[i] \in Seq(Pieces)
      BY <1>1 DEF UploadInv, TypeOK, Bytes
    <2>2. \A i \in DOMAIN uploads : IsPrefix(uploads[i], uploads[i])
      BY <2>1, PrefixReflexive
    <2>3. CASE UNCHANGED uploads
      BY <2>2, <2>3
    <2>4. ASSUME NEW t \in Conns, EndPatch(t) PROVE Grows
      <3>1. call[t].id \in DOMAIN uploads => IsPrefix(uploads[call[t].id], buf[t])
        BY <1>1, <2>4 DEF EndPatch, UploadInv, Behind, Session
      <3>2. uploads' = Put(uploads, {call[t].id}, buf[t])
        BY <2>4 DEF EndPatch
      <3> QED BY <2>2, <3>1, <3>2 DEF Put
    <2>5. ASSUME NEW t \in Conns, EndFinish(t) PROVE Grows
      BY <2>2, <2>3, <2>5 DEF EndFinish, stores, Restrict
    <2>6. CASE Restart
      BY <2>6 DEF Restart, EmptyMap
    <2> QED
      BY <1>1, <2>3, <2>4, <2>5, <2>6 DEF Next, Serve, Send, Start, OpenRange, OpenStream,
        OpenFinish, Read, PostWhole, Cut, Discard, vars, stores
  <1> QED
    BY <1>1, UploadInit, UploadStep, PTL DEF Spec, SessionGrows

-----------------------------------------------------------------------------
(* BlobUploads implements BlobStore. *)

\* The digests listed under each repository, as BlobStore sees them.
Listed == [r \in DOMAIN layers |-> Range(layers[r])]

\* The operators of the instance are those of this module.
LEMMA AbsMaps ==
    /\ \A f, ks, v : Abs!Put(f, ks, v) = Put(f, ks, v)
    /\ \A f, S : Abs!Restrict(f, S) = Restrict(f, S)
    /\ Abs!EmptyMap = EmptyMap
  BY DEF Abs!Put, Put, Abs!Restrict, Restrict, Abs!EmptyMap, EmptyMap

\* Filing a blob is Commit.
LEMMA FileIsCommit ==
    ASSUME TypeOK, NEW r \in Repos, NEW s, Sha(s) \in Asked, File(r, s)
    PROVE  Abs!Commit(r, Sha(s))
  <1> DEFINE d == Sha(s)
             old == IF r \in DOMAIN layers THEN layers[r] ELSE <<>>
  <1> HIDE DEF d
  <1>1. contents' = Put(contents, {d}, s) /\ layers' = Put(layers, {r}, Append(old, d))
    BY DEF File, d
  <1>2. DOMAIN contents' = DOMAIN contents \cup {d}
    BY <1>1 DEF Put
  <1>3. old \in Seq(Asked) /\ d \in Asked
    BY DEF TypeOK, d
  <1>4. Abs!Waiting(r) = Range(old)
    BY DEF Abs!Waiting, Range
  <1> HIDE DEF old
  <1>5. Range(Append(old, d)) = Abs!Waiting(r) \cup {d}
    BY <1>3, <1>4, RangeAppend
  <1>6. DOMAIN layers' = DOMAIN layers \cup {r}
    BY <1>1 DEF Put
  <1>7. \A x \in DOMAIN layers' :
           Range(layers'[x]) = IF x = r THEN Abs!Waiting(r) \cup {d} ELSE Range(layers[x])
    BY <1>1, <1>5 DEF Put
  <1>8. Listed' = Put(Listed, {r}, Abs!Waiting(r) \cup {d})
    BY <1>6, <1>7 DEF Listed, Put
  <1> QED
    BY <1>2, <1>8, AbsMaps DEF Abs!Commit, Listed, d

\* Dropping the list of a repository is Discard.
LEMMA DropIsDiscard ==
    ASSUME TypeOK, NEW r \in Repos, Discard(r)
    PROVE  Abs!Discard(r)
  <1>1. Abs!Waiting(r) = Range(layers[r])
    BY DEF Discard, Abs!Waiting
  <1>2. DOMAIN contents' = DOMAIN contents \ Range(layers[r])
    BY DEF Discard, Restrict
  <1>3. Listed' = Restrict(Listed, (DOMAIN Listed) \ {r})
    BY DEF Discard, Listed, Restrict
  <1> QED
    BY <1>1, <1>2, <1>3, AbsMaps DEF Abs!Discard, Listed

\* The upload sessions implement the abstract store: what the manifest handler
\* sees of the blobs changes by filing one verified blob, by dropping a list
\* with the bytes of its blobs, or by losing all, and in no other way.
THEOREM ImplementsBlobStore == Spec => StoreSpec
  <1>1. Init => Abs!Init
    BY AbsMaps DEF Init, Abs!Init, EmptyMap
  <1>2. ASSUME UploadInv, [Next]_vars PROVE [Abs!Next]_(Abs!vars)
    <2>1. TypeOK
      BY <1>2 DEF UploadInv
    <2>2. CASE UNCHANGED <<contents, layers>>
      BY <2>2 DEF Abs!vars
    <2>3. ASSUME NEW t \in Conns, NEW s, Sha(s) = call[t].digest, File(call[t].repo, s),
                 pc[t] \in {"reading", "whole"}, call[t].op \in {"finish", "whole"}
          PROVE  Abs!Next
      <3>1. call[t] \in Requests
        BY <1>2, <2>3 DEF UploadInv, Serving
      <3>2. call[t].repo \in Repos /\ Sha(s) \in Asked
        BY <2>3, <3>1, CallType
      <3> QED BY <2>1, <2>3, <3>2, FileIsCommit DEF Abs!Next
    <2>4. ASSUME NEW t \in Conns, Serve(t) PROVE [Abs!Next]_(Abs!vars)
      <3>1. pc[t] = "whole" => call[t].op = "whole"
        BY <1>2 DEF UploadInv, Serving, Ops
      <3> QED
        BY <2>2, <2>3, <2>4, <3>1 DEF Serve, Start, OpenRange, OpenStream, OpenFinish,
          Read, EndPatch, EndFinish, PostWhole, stores
    <2>5. ASSUME NEW r \in Repos, Discard(r) PROVE Abs!Next
      BY <2>1, <2>5, DropIsDiscard DEF Abs!Next
    <2>6. CASE Restart
      <3>1. DOMAIN contents' = {} /\ Listed' = EmptyMap
        BY <2>6 DEF Restart, EmptyMap, Listed
      <3> QED BY <3>1, AbsMaps DEF Abs!Next, Abs!Forget, Listed
    <2> QED
      BY <1>2, <2>2, <2>4, <2>5, <2>6 DEF Next, Send, Cut, vars, stores
  <1> QED
    BY <1>1, <1>2, UploadInit, UploadStep, PTL DEF Spec, StoreSpec, Abs!Spec

=============================================================================
