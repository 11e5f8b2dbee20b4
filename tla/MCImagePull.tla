---------------------------- MODULE MCImagePull -----------------------------
(***************************************************************************)
(* Instances of ImagePull for TLC.                                         *)
(***************************************************************************)
EXTENDS ImagePull, TLC

CONSTANTS p1, p2, t1, t2, c1

MCProcOf == [t \in Threads |-> IF t = t1 THEN p1 ELSE p2]

\* Host names: docker.local:5000, one that is an address, and one without
\* digits.
At5000(kind) == [kind |-> kind, port |-> 5000, digits |-> 0, tls |-> FALSE]
Address(kind) == [kind |-> kind, port |-> None, digits |-> 192, tls |-> FALSE]
Bare(kind) == [kind |-> kind, port |-> None, digits |-> 0, tls |-> FALSE]

MCConfigs ==
    (p1 :> {At5000("pull"), Address("pull"), Bare("embed"),
            [At5000("server") EXCEPT !.tls = TRUE]})
    @@ (p2 :> {At5000("library")})

=============================================================================
