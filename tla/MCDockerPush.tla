---------------------------- MODULE MCDockerPush ----------------------------
(***************************************************************************)
(* Instances of DockerPush for TLC: the images and the plans of the        *)
(* clients in each run.                                                    *)
(***************************************************************************)
EXTENDS DockerPush, TLC

CONSTANTS n1, n2, g1, g2, lt, m1, m2, m3, b1, b2, b3, b4, d1, d2, d3, t1, t2, t3

MCDigest == (m1 :> d1) @@ (m2 :> d2) @@ (m3 :> d3)
MCSubManifests == <<>>

\* The images have no blob in common, or m2 is built on the base layer of m1.
ApartBlobs == (m1 :> {b1, b2}) @@ (m2 :> {b3}) @@ (m3 :> {b4})
BasedBlobs == (m1 :> {b1, b2}) @@ (m2 :> {b1, b3}) @@ (m3 :> {b4})

PushJob(repo, ref, m) == [kind |-> "push", repo |-> repo, ref |-> ref, man |-> m]
PullJob(repo, ref) == [kind |-> "pull", repo |-> repo, ref |-> ref, man |-> None]

\* apart: two push into repositories of their own, one of them twice, and
\* pull what the other has pushed, if it is there; a third pulls from both.
ApartPlan ==
    (t1 :> <<PushJob(n1, g1, m1), PullJob(n2, g1)>>)
    @@ (t2 :> <<PushJob(n2, g1, m2), PushJob(n2, g2, m3), PullJob(n1, g1)>>)
    @@ (t3 :> <<PullJob(n1, g1), PullJob(n2, g2)>>)

\* test: the docker pushes and the pull of example/hello/test.sh, two builds of one image.
TestPlan == t1 :> <<PushJob(n1, g1, m1), PullJob(n1, g1), PushJob(n1, g2, m2)>>

\* wedge: an image is pushed, pulled and pushed under another tag, while another
\* client pushes something else.
WedgePlan ==
    (t1 :> <<PushJob(n1, g1, m1), PullJob(n1, g1), PushJob(n1, g2, m1)>>)
    @@ (t2 :> <<PushJob(n2, g1, m2)>>)

\* The plan and the images of apart are as the theorems about DockerPush suppose.
ASSUME MCHypotheses ==
    Plan = ApartPlan => PushesApart /\ HasConfig /\ NothingMoves /\ GivenWhole

\* The calls the jobs lead to.
PlanCalls ==
    UNION {UNION {
        LET j == Plan[t][i] IN
        IF j.kind = "push"
        THEN [op : {"HeadBlob", "PutBlob"}, repo : {j.repo}, ref : BlobsOf[j.man], man : {None}]
             \cup {[op |-> "PutManifest", repo |-> j.repo, ref |-> j.ref, man |-> j.man]}
        ELSE [op : {"GetBlob"}, repo : {j.repo}, ref : Blobs, man : {None}]
             \cup {[op |-> "GetManifest", repo |-> j.repo, ref |-> j.ref, man |-> None]}
        : i \in DOMAIN Plan[t]} : t \in Threads}

=============================================================================
