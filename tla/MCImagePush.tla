---------------------------- MODULE MCImagePush -----------------------------
(***************************************************************************)
(* Instances of ImagePush for TLC.                                         *)
(***************************************************************************)
EXTENDS ImagePush

CONSTANTS c1, d1, d2, n1, n2, n3, v1

File(n, d) == [kind |-> "file", name |-> n, data |-> d]
Link(n, t) == [kind |-> "link", name |-> n, data |-> t]
Index(layers) ==
    [kind |-> "index", name |-> IndexName,
     data |-> [config |-> Digest(c1), layers |-> layers]]
NoIndex == [kind |-> "index", name |-> IndexName, data |-> None]
Config == File(Digest(c1), c1)
Job(a, f, t) == [archive |-> a, form |-> f, tag |-> t]

\* Three layers, two of them the same.
Three == <<File(n1, d1), File(n2, d1), File(n3, d2), Config, Index(<<n1, n2, n3>>)>>

\* Archives that are no image: no index, another kind of one, no configuration.
MCJobs ==
    {Job(Three, "tagged", v1),
     Job(<<File(n1, d2), Config, Index(<<n1>>)>>, "digest", Latest),
     Job(<<File(n1, d1), Config, Index(<<n1>>)>>, "port", v1),
     Job(<<File(n1, d1), Config>>, "plain", Latest),
     Job(<<Config, NoIndex>>, "plain", Latest),
     Job(<<File(n1, d1), Index(<<n1>>)>>, "plain", Latest)}

\* The same image as docker saves it: the second time a layer is a link.
LinkJobs ==
    {Job(<<File(n1, d1), Link(n2, n1), File(n3, d2), Config, Index(<<n1, n2, n3>>)>>,
         "tagged", v1)}

\* MCJobs meet the hypotheses of the theorems about ImagePush.
ASSUME MCHypotheses == Jobs = MCJobs => ConfigsNamed /\ IndexLast

=============================================================================
