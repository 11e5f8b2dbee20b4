----------------------------- MODULE MCRegistry -----------------------------
(***************************************************************************)
(* Instances of Registry for TLC: the calls and the outside world of each  *)
(* run.  The calls may be repeated and interleaved without bound.          *)
(***************************************************************************)
EXTENDS Registry, TLC

CONSTANTS n1, n2, g1, lt, m1, m2, l1, b1, b2, d1, d2, dl, t1, t2

MCDigest == (m1 :> d1) @@ (m2 :> d2) @@ (l1 :> dl)
MCBlobsOf == (m1 :> {b1}) @@ (m2 :> {b1, b2})
MCSubManifests == l1 :> {m1}

Call(op, repo, ref) == [op |-> op, repo |-> repo, ref |-> ref, man |-> None]
PutCall(repo, ref, m) == [op |-> "PutManifest", repo |-> repo, ref |-> ref, man |-> m]
Image(m, g, bs) == [man |-> m, refs |-> {g, MCDigest[m], lt}, blobs |-> bs]

\* The image a complete push of m1 as n1:g1 leaves on IPFS.
Pushed1 == Image(m1, g1, {b1})

ThreadSymmetry == Permutations(Threads)

\* push: into two repositories that share a blob; one of them gets a manifest and a
\* list under one tag, the other a blob that may come in the middle of its PUT; in
\* any order, with looks by CID in between.
PushCalls ==
    {Call("PutBlob", n1, b1), Call("PutBlob", n1, b2), Call("PutBlob", n2, b1),
     PutCall(n1, lt, m2), PutCall(n2, lt, m1), PutCall(n2, lt, l1),
     Call("HeadManifest", Pushed1, d2)}

\* pull: images that are on IPFS already and found by the resolvers or by
\* their CIDs; one of them is a manifest list.  A blob is uploaded, too, whose
\* manifest does not come.
PullWorld ==
    {[repo |-> n1, ref |-> g1, cid |-> Pushed1],
     [repo |-> n1, ref |-> d1, cid |-> Pushed1],
     [repo |-> n1, ref |-> d2, cid |-> Image(m2, lt, {b1, b2})],
     [repo |-> n2, ref |-> g1, cid |-> Image(l1, g1, {})]}

PullCalls ==
    {Call("GetManifest", n1, g1), Call("HeadManifest", n1, d1),
     Call("GetManifest", n1, d2), Call("GetManifest", n2, g1),
     Call("HeadManifest", Pushed1, d2), Call("HeadBlob", n1, b1),
     Call("GetBlob", n1, b2), Call("PutBlob", n1, b1), Call("Dig", n1, g1)}

\* The pulls meet the hypotheses of the theorems about pulls.
ASSUME MCHypotheses == Requests = PullCalls => NothingMoves /\ OnlyPulls

-----------------------------------------------------------------------------
(* One connection, and the few calls that lead to each disagreement. *)

\* Push m1, and read it back.
ReadBackCalls ==
    {Call("PutBlob", n1, b1), PutCall(n1, g1, m1), Call("GetManifest", n1, g1)}

\* A tag that is moved from one image to another.
MovedWorld ==
    {[repo |-> n1, ref |-> g1, cid |-> Pushed1],
     [repo |-> n1, ref |-> g1, cid |-> Image(m2, g1, {b1, b2})]}

MovedCalls == {Call("GetManifest", n1, g1)}

=============================================================================
