---------------------------- MODULE BlobUploads -----------------------------
(***************************************************************************)
(* How the bytes of a blob reach the store of server/registry/blobs.go:    *)
(* upload sessions (POST, PATCH, PUT) and the upload in one call.  It      *)
(* implements BlobStore, which only knows which digests are held.          *)
(*                                                                         *)
(* PATCH and PUT read the body of the request with the lock held; the body *)
(* comes piece by piece and may stop anywhere, because the client or the   *)
(* network gave up, which the handlers do not notice: the error of io.Copy *)
(* is dropped.  A digest is modelled by the bytes it is the digest of.     *)
(***************************************************************************)
EXTENDS Maps, SequencesExt, Naturals

CONSTANTS
    Conns,    \* connections
    Repos,    \* repository paths
    Pieces,   \* what bodies are made of
    MaxDraws, \* bound: upload ids drawn from the random source
    Reseeded, \* whether a new process draws other ids than the last one did
    Requests, \* the calls clients make
    None

VARIABLES
    lock,     \* who holds blobs.lock
    contents, \* blobs.contents: digest -> bytes
    uploads,  \* blobs.uploads: upload id -> bytes so far
    layers,   \* blobs.layers: repo -> the digests uploaded there, in order
    drawn,    \* how many ids the process has drawn
    pc,       \* where the handler of each connection is
    call,     \* the call it serves
    rest,     \* what of the body has yet to come
    buf,      \* what the handler has in its buffer
    resp      \* its last answer

stores == <<contents, uploads, layers>>
conn == <<pc, call, rest, buf, resp>>
vars == <<lock, stores, drawn, conn>>

Bytes == Seq(Pieces)
Sha(s) == <<"sha256", s>>
Digests == {"sha256"} \X Bytes
Ids == 1..MaxDraws

Ops == {"start",   \* POST uploads
        "range",   \* PATCH uploads/id with a Content-Range
        "stream",  \* PATCH uploads/id without one
        "finish",  \* PUT uploads/id?digest=
        "whole"}   \* POST uploads?digest=
Calls == [op : Ops, repo : Repos, id : Ids \cup {None}, start : Nat,
          body : Bytes, digest : Digests \cup {None}]
Statuses == {"201", "202", "204", "400", "416", "aborted"}
Answers == [status : Statuses, id : Ids \cup {None}]

ASSUME UploadAssumption ==
    /\ MaxDraws \in Nat
    /\ Reseeded \in BOOLEAN
    /\ None \notin Conns \cup Ids \cup Digests
    /\ Requests \subseteq Calls
    /\ \A q \in Requests :
          /\ q.op \in {"range", "stream", "finish"} => q.id \in Ids
          /\ q.op \in {"finish", "whole"} => q.digest \in Digests

\* The digests clients ask for.
Asked == {q.digest : q \in Requests} \ {None}

Abs == INSTANCE BlobStore WITH
    Blobs <- Asked,
    contents <- DOMAIN contents,
    layers <- [r \in DOMAIN layers |-> Range(layers[r])]

TypeOK ==
    /\ lock \in Conns \cup {None}
    /\ DOMAIN contents \subseteq Asked
    /\ \A d \in DOMAIN contents : contents[d] \in Bytes
    /\ DOMAIN uploads \subseteq Ids
    /\ \A i \in DOMAIN uploads : uploads[i] \in Bytes
    /\ DOMAIN layers \subseteq Repos
    /\ \A r \in DOMAIN layers : layers[r] \in Seq(Asked)
    /\ drawn \in 0..MaxDraws
    /\ pc \in [Conns -> Ops \cup {"idle", "reading"}]
    /\ call \in [Conns -> Requests \cup {None}]
    /\ rest \in [Conns -> Bytes]
    /\ buf \in [Conns -> Bytes]
    /\ resp \in [Conns -> Answers \cup {None}]

Init ==
    /\ lock = None
    /\ contents = EmptyMap
    /\ uploads = EmptyMap
    /\ layers = EmptyMap
    /\ drawn = 0
    /\ pc = [t \in Conns |-> "idle"]
    /\ call = [t \in Conns |-> None]
    /\ rest = [t \in Conns |-> <<>>]
    /\ buf = [t \in Conns |-> <<>>]
    /\ resp = [t \in Conns |-> None]

-----------------------------------------------------------------------------

\* b.uploads[id], empty when there is no such session.
Session(i) == IF i \in DOMAIN uploads THEN uploads[i] ELSE <<>>

Reply(t, status, i) ==
    /\ pc' = [pc EXCEPT ![t] = "idle"]
    /\ resp' = [resp EXCEPT ![t] = [status |-> status, id |-> i]]
    /\ rest' = [rest EXCEPT ![t] = <<>>]
    /\ buf' = [buf EXCEPT ![t] = <<>>]
    /\ call' = [call EXCEPT ![t] = None]

\* The handler starts to read the body behind the bytes s.
ReadAfter(t, s) ==
    /\ pc' = [pc EXCEPT ![t] = "reading"]
    /\ buf' = [buf EXCEPT ![t] = s]
    /\ UNCHANGED <<call, rest, resp>>

\* The bytes s are filed under their digest and listed under repo.
File(repo, s) ==
    /\ contents' = Put(contents, {Sha(s)}, s)
    /\ layers' = Put(layers, {repo},
                     Append(IF repo \in DOMAIN layers THEN layers[repo] ELSE <<>>, Sha(s)))

\* A client sends a call on an idle connection.
Send(t, q) ==
    /\ pc[t] = "idle"
    /\ q \in Requests
    /\ pc' = [pc EXCEPT ![t] = q.op]
    /\ call' = [call EXCEPT ![t] = q]
    /\ rest' = [rest EXCEPT ![t] = q.body]
    /\ resp' = [resp EXCEPT ![t] = None]
    /\ UNCHANGED <<lock, stores, drawn, buf>>

-----------------------------------------------------------------------------

\* Variant: the answer names the id drawn before.
Start_LastId(t) ==
    /\ pc[t] = "start"
    /\ drawn < MaxDraws
    /\ drawn' = drawn + 1
    /\ Reply(t, "202", drawn)
    /\ UNCHANGED <<lock, stores>>

\* POST: an id is drawn; the server keeps no record of it.
Start(t) ==
    /\ pc[t] = "start"
    /\ drawn < MaxDraws
    /\ drawn' = drawn + 1
    /\ Reply(t, "202", drawn + 1)
    /\ UNCHANGED <<lock, stores>>

\* Variant: where the chunk belongs is not looked at.
OpenRange_AnyStart(t) ==
    /\ pc[t] = "range"
    /\ lock = None
    /\ lock' = t
    /\ ReadAfter(t, Session(call[t].id))
    /\ UNCHANGED <<stores, drawn>>

\* PATCH with a range must begin where the session ends.
OpenRange(t) ==
    /\ pc[t] = "range"
    /\ lock = None
    /\ LET s == Session(call[t].id) IN
       \/ /\ call[t].start # Len(s)
          /\ Reply(t, "416", None)
          /\ UNCHANGED lock
       \/ /\ call[t].start = Len(s)
          /\ lock' = t
          /\ ReadAfter(t, s)
    /\ UNCHANGED <<stores, drawn>>

\* Variant: a second stream replaces the first.
OpenStream_Again(t) ==
    /\ pc[t] = "stream"
    /\ lock = None
    /\ lock' = t
    /\ ReadAfter(t, <<>>)
    /\ UNCHANGED <<stores, drawn>>

\* PATCH without one must be the first write of the session.
OpenStream(t) ==
    /\ pc[t] = "stream"
    /\ lock = None
    /\ \/ /\ call[t].id \in DOMAIN uploads
          /\ Reply(t, "400", None)
          /\ UNCHANGED lock
       \/ /\ call[t].id \notin DOMAIN uploads
          /\ lock' = t
          /\ ReadAfter(t, <<>>)
    /\ UNCHANGED <<stores, drawn>>

\* PUT goes on where the session ends.
OpenFinish(t) ==
    /\ pc[t] = "finish"
    /\ lock = None
    /\ lock' = t
    /\ ReadAfter(t, Session(call[t].id))
    /\ UNCHANGED <<stores, drawn>>

\* A piece of the body arrives.
Read(t) ==
    /\ pc[t] = "reading"
    /\ rest[t] # <<>>
    /\ buf' = [buf EXCEPT ![t] = Append(@, Head(rest[t]))]
    /\ rest' = [rest EXCEPT ![t] = Tail(@)]
    /\ UNCHANGED <<lock, stores, drawn, pc, call, resp>>

\* The end of the body, or of the connection: PATCH keeps what it has.
EndPatch(t) ==
    /\ pc[t] = "reading"
    /\ rest[t] = <<>>
    /\ call[t].op \in {"range", "stream"}
    /\ uploads' = Put(uploads, {call[t].id}, buf[t])
    /\ lock' = None
    /\ Reply(t, "204", None)
    /\ UNCHANGED <<contents, layers, drawn>>

\* Variant: the client's word is taken for the digest.
EndFinish_Unverified(t) ==
    /\ pc[t] = "reading"
    /\ rest[t] = <<>>
    /\ call[t].op = "finish"
    /\ contents' = Put(contents, {call[t].digest}, buf[t])
    /\ layers' = Put(layers, {call[t].repo}, <<call[t].digest>>)
    /\ uploads' = Restrict(uploads, DOMAIN uploads \ {call[t].id})
    /\ lock' = None
    /\ Reply(t, "201", None)
    /\ UNCHANGED drawn

\* Variant: a wrong digest leaves through an early return without the unlock.
EndFinish_KeepsLock(t) ==
    /\ pc[t] = "reading"
    /\ rest[t] = <<>>
    /\ call[t].op = "finish"
    /\ \/ /\ Sha(buf[t]) # call[t].digest
          /\ Reply(t, "400", None)
          /\ UNCHANGED <<lock, stores>>
       \/ /\ Sha(buf[t]) = call[t].digest
          /\ File(call[t].repo, buf[t])
          /\ uploads' = Restrict(uploads, DOMAIN uploads \ {call[t].id})
          /\ Reply(t, "201", None)
          /\ lock' = None
    /\ UNCHANGED drawn

\* PUT files the blob when it has the digest asked for; when it does not, the
\* session stays as it was.
EndFinish(t) ==
    /\ pc[t] = "reading"
    /\ rest[t] = <<>>
    /\ call[t].op = "finish"
    /\ \/ /\ Sha(buf[t]) # call[t].digest
          /\ Reply(t, "400", None)
          /\ UNCHANGED stores
       \/ /\ Sha(buf[t]) = call[t].digest
          /\ File(call[t].repo, buf[t])
          /\ uploads' = Restrict(uploads, DOMAIN uploads \ {call[t].id})
          /\ Reply(t, "201", None)
    /\ lock' = None
    /\ UNCHANGED drawn

\* POST of the whole blob reads its body first, and takes the lock for a blob
\* with the right digest.
PostWhole(t) ==
    /\ pc[t] = "whole"
    /\ \/ /\ Sha(rest[t]) # call[t].digest
          /\ Reply(t, "400", None)
          /\ UNCHANGED stores
       \/ /\ Sha(rest[t]) = call[t].digest
          /\ lock = None
          /\ File(call[t].repo, rest[t])
          /\ Reply(t, "201", None)
          /\ UNCHANGED uploads
    /\ UNCHANGED <<lock, drawn>>

-----------------------------------------------------------------------------

\* Variant: the bytes stay for good.
Discard_KeepsBytes(r) ==
    /\ lock = None
    /\ r \in DOMAIN layers
    /\ layers' = Restrict(layers, DOMAIN layers \ {r})
    /\ UNCHANGED <<lock, contents, uploads, drawn, conn>>

\* blobs.remove, called by the manifest handler for a repository whose list it
\* has just read.
Discard(r) ==
    /\ lock = None
    /\ r \in DOMAIN layers
    /\ layers' = Restrict(layers, DOMAIN layers \ {r})
    /\ contents' = Restrict(contents, DOMAIN contents \ Range(layers[r]))
    /\ UNCHANGED <<lock, uploads, drawn, conn>>

\* Whoever sends the body of t gives up: at most n more pieces are on the way.
Cut(t, n) ==
    /\ pc[t] # "idle"
    /\ n \in 0..Len(rest[t])
    /\ rest' = [rest EXCEPT ![t] = SubSeq(@, 1, n)]
    /\ UNCHANGED <<lock, stores, drawn, pc, call, buf, resp>>

\* The process dies and is started again.  The source of ids is not seeded:
\* whether it starts over is up to the Go release the server is built with.
Restart ==
    /\ lock' = None
    /\ contents' = EmptyMap
    /\ uploads' = EmptyMap
    /\ layers' = EmptyMap
    /\ drawn' = IF Reseeded THEN drawn ELSE 0
    /\ pc' = [t \in Conns |-> "idle"]
    /\ resp' = [t \in Conns |->
                   IF pc[t] = "idle" THEN resp[t]
                   ELSE [status |-> "aborted", id |-> None]]
    /\ rest' = [t \in Conns |-> <<>>]
    /\ buf' = [t \in Conns |-> <<>>]
    /\ call' = [t \in Conns |-> None]

\* One step of the handler that serves connection t.
Serve(t) ==
    \/ Start(t)
    \/ OpenRange(t)
    \/ OpenStream(t)
    \/ OpenFinish(t)
    \/ Read(t)
    \/ EndPatch(t)
    \/ EndFinish(t)
    \/ PostWhole(t)

Next ==
    \/ \E t \in Conns : \E q \in Requests : Send(t, q)
    \/ \E t \in Conns : Serve(t)
    \/ \E t \in Conns : \E n \in Nat : Cut(t, n)
    \/ \E r \in Repos : Discard(r)
    \/ Restart

Spec == Init /\ [][Next]_vars

-----------------------------------------------------------------------------
(* Properties. *)

\* What is held under a digest has that digest, whatever the pieces came in
\* and however many uploads wrote to one session (blobs.go 204, 282-291).
ContentAddressed == \A d \in DOMAIN contents : Sha(contents[d]) = d

\* Every blob a manifest waits for is filed, listed and dropped the way
\* BlobStore says (blobs.go 202-206, 291-293, 328-341).
StoreSpec == Abs!Spec

\* The bytes of a session are never replaced or taken back; they only grow,
\* until the session is finished or the process dies (blobs.go 231, 250).
SessionGrows ==
    [][\A i \in DOMAIN uploads \cap DOMAIN uploads' :
          IsPrefix(uploads[i], uploads'[i])]_vars

=============================================================================
