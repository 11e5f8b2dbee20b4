----------------------------- MODULE MCCidStore -----------------------------
(***************************************************************************)
(* Instances of CidStore for TLC.                                          *)
(***************************************************************************)
EXTENDS CidStore, TLC

CONSTANTS a, b, g, d, i1, i2, x1, t1, t2

Key(repo, ref) == <<repo, ref>>

\* A tag and a digest of one repository, a CID's own entry, and two tags that
\* are in each other's way: a:b, and a/b:g.
MCKeys ==
    {Key(<<a>>, g), Key(<<a>>, d), Key(<<i1>>, g), Key(<<a>>, b), Key(<<a, b>>, g)}

AddOf(k, c) == [op |-> "Add", key |-> k, cid |-> c]
GetOf(k) == [op |-> "Get", key |-> k, cid |-> None]
ListOf(k) == [op |-> "List", key |-> k, cid |-> None]

\* The tree x1 on IPFS knows the tag too, and one nobody else has.
MCTreeAt == x1 :> ((Key(<<a>>, g) :> i2) @@ (Key(<<a, b>>, g) :> i2))

\* What PUT of a manifest adds, one call after the other.
AddCalls ==
    {AddOf(Key(<<a>>, g), i1), AddOf(Key(<<a>>, g), i2), AddOf(Key(<<a>>, d), i1),
     AddOf(Key(<<a>>, b), i1), AddOf(Key(<<a, b>>, g), i2)}

\* What handlers look up meanwhile.
LookCalls ==
    {GetOf(Key(<<a>>, g)), GetOf(Key(<<i1>>, g)),
     ListOf(Key(<<a>>, g)), ListOf(Key(<<a, b>>, g)), ListOf(Key(<<i1>>, g))}

MCRequests == (t1 :> AddCalls) @@ (t2 :> LookCalls)

MCConfig == <<"store", "dnslink">>

=============================================================================
