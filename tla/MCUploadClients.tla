-------------------------- MODULE MCUploadClients ---------------------------
(***************************************************************************)
(* Instances of UploadClients for TLC.                                     *)
(***************************************************************************)
EXTENDS UploadClients, TLC

CONSTANTS p1, p2, n1, c1, c2

MCKind == (c1 :> "plain") @@ (c2 :> "range")

\* The first pieces of the two blobs are alike.
MCWant == (c1 :> <<p1>>) @@ (c2 :> <<p1, p2>>)
MCRepoOf == (c1 :> n1) @@ (c2 :> n1)

\* Everything the clients may come to send.
MCBodies == {<<>>, <<p1>>, <<p2>>, <<p1, p2>>}
MCRequests ==
    [op : Ops, repo : Repos, id : Ids \cup {None}, start : 0..1,
     body : MCBodies, digest : {Sha(x) : x \in MCBodies} \cup {None}]

AllRequests ==
    {q \in MCRequests :
        /\ q.op \in {"range", "stream", "finish"} => q.id \in Ids
        /\ q.op \in {"finish", "whole"} => q.digest # None}

=============================================================================
