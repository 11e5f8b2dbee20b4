----------------------------- MODULE BlobStore ------------------------------
(***************************************************************************)
(* What the blob store of server/registry/blobs.go keeps for the manifest  *)
(* handler: which blobs it holds, globally and by digest, and, per         *)
(* repository, which of them were uploaded there and still wait for a      *)
(* manifest.  Each operation is one critical section under blobs.lock; who *)
(* holds the lock, and what happens between two of them, is the business   *)
(* of the module that uses this one (Registry), and how the bytes of a     *)
(* blob arrive is that of the module that implements it (BlobUploads).     *)
(***************************************************************************)
EXTENDS Maps, Functions

CONSTANTS
    Repos,    \* repository paths
    Blobs     \* blob digests

VARIABLES
    contents, \* digests of the blobs held (the keys of blobs.contents)
    layers    \* repo -> digests uploaded there since its last manifest

vars == <<contents, layers>>

TypeOK ==
    /\ contents \subseteq Blobs
    /\ DOMAIN layers \subseteq Repos
    /\ \A r \in DOMAIN layers : layers[r] \subseteq Blobs

Init ==
    /\ contents = {}
    /\ layers = EmptyMap

-----------------------------------------------------------------------------

\* layers[r], the empty list when r is not a key of the map.
Waiting(r) == IF r \in DOMAIN layers THEN layers[r] ELSE {}

\* Variant: the list of the repository is replaced.
Commit_Replaces(r, d) ==
    /\ contents' = contents \cup {d}
    /\ layers' = Put(layers, {r}, {d})

\* A blob whose digest was verified is filed, and listed under its repository.
Commit(r, d) ==
    /\ contents' = contents \cup {d}
    /\ layers' = Put(layers, {r}, Waiting(r) \cup {d})

\* blobs.get(r) finds something under r, and finds the bytes of all of it.
Ready(r) == r \in DOMAIN layers /\ layers[r] \subseteq contents

\* Variant: the list of r stays.
Discard_KeepsList(r) ==
    /\ contents' = contents \ Waiting(r)
    /\ UNCHANGED layers

\* blobs.remove(r): the list of r goes, and the bytes of everything on it,
\* whoever else has the same digest on a list.
Discard(r) ==
    /\ contents' = contents \ Waiting(r)
    /\ layers' = Restrict(layers, (DOMAIN layers) \ {r})

\* The process restarts: nothing of this is on disk.
Forget ==
    /\ contents' = {}
    /\ layers' = EmptyMap

Next ==
    \/ \E r \in Repos, d \in Blobs : Commit(r, d)
    \/ \E r \in Repos : Discard(r)
    \/ Forget

Spec == Init /\ [][Next]_vars

=============================================================================
