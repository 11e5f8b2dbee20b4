----------------------------- MODULE ImagePush ------------------------------
(***************************************************************************)
(* The push of the command line, registry/registry.go: PushImage takes the *)
(* archive of `docker save` apart, makes of it the directory the server    *)
(* reads images from, adds that to IPFS and asks for the CID of the one    *)
(* directory in it, which a goroutine of remoteRefs (ipfs/ipfs.go) hands   *)
(* over on an unbuffered channel.                                          *)
(*                                                                         *)
(* Several calls run in one process.  They share nothing but its life: a   *)
(* listing without a name ends it (log.Fatal).  A CID is what it names, so *)
(* that the CID of an image is the image.                                  *)
(***************************************************************************)
EXTENDS Maps, Sequences, Integers

CONSTANTS
    Pushers,  \* callers of PushImage
    Data,     \* contents of layers and configurations
    Nothing,  \* the content of a file that cannot be read
    Names,    \* names of layers in an archive
    Flaky,    \* the layers whose unpacked file may fail to be read
    Tags,     \* what may stand after the colon of an image's name
    Latest,
    Jobs,     \* the calls: an archive and the name of its image
    Env,      \* which events of the environment happen
    Failed,
    None

\* Digests and compression lose nothing.
Digest(x) == <<"sha256", x>>
Gzip(d) == <<"gzip", d>>

ConfigNames == {Digest(d) : d \in Data}
IndexName == <<"manifest.json">>
TmpName == <<"layer.tmp.tgz">>
Layers == {Gzip(d) : d \in Data \cup {Nothing}}
BlobNames == ConfigNames \cup {Digest(l) : l \in Layers}
Manifests == [config : ConfigNames, layers : Seq({Digest(l) : l \in Layers})]

\* What manifest.json says: the file of the configuration, called by its
\* digest, and those of the layers.  None stands for anything else.
Indexes == [config : ConfigNames, layers : Seq(Names)] \cup {None}

\* An archive in the order of its entries.  The data of a link is the name it
\* points to.  A docker daemon saves a layer that an image has twice as a link.
Entries ==
    [kind : {"file"}, name : Names \cup ConfigNames, data : Data]
    \cup [kind : {"link"}, name : Names, data : Names]
    \cup [kind : {"index"}, name : {IndexName}, data : Indexes]

\* "digest": an image by its ID.  "plain" and "tagged": by its name.  "port": by
\* a name whose first colon is that of the registry's port.
Forms == {"digest", "plain", "tagged", "port"}

Events == {"disk",    \* a temporary file cannot be written, or, but for a layer, read
           "stream",  \* docker stops sending the archive
           "api"}     \* a call to the IPFS API fails, or its answer breaks off

ASSUME PushAssumption ==
    /\ Jobs \subseteq [archive : Seq(Entries), form : Forms, tag : Tags]
    /\ Latest \in Tags
    /\ \A j \in Jobs : \A i, k \in DOMAIN j.archive :
          j.archive[i].name = j.archive[k].name => i = k
    /\ Env \subseteq Events
    /\ Flaky \subseteq Names
    /\ Failed # None
    /\ None \notin Data \cup Jobs
    /\ IndexName \notin Names

VARIABLES
    pc,      \* where each call is
    job,     \* what it was given, kept when it has returned
    work,    \* its files: those of the archive, and those of the image
    hash,    \* what AddDir returned, None for the empty string
    refs,    \* the goroutine of remoteRefs and what it has still to send
    tries,   \* how often the channel was read
    result,  \* a CID or Failed
    added    \* the directories on IPFS

localVars == <<work, hash, refs, tries>>
vars == <<pc, job, localVars, result, added>>

-----------------------------------------------------------------------------
(* The files of a call. *)

\* Nothing is unpacked yet, and nothing made of it.
Fresh(archive) ==
    [rest |-> archive, files |-> EmptyMap, todo |-> <<>>, config |-> None,
     blobs |-> EmptyMap, layers |-> <<>>, manifests |-> EmptyMap]

NoRefs == [at |-> "none", links |-> {}, offer |-> None]

Image(w) == [blobs |-> w.blobs, manifests |-> w.manifests]

\* Variant: the image is prepared in the directory that is added.
Root_Flat(im) == im

\* The image is prepared in a directory of its own, "default", in the one that
\* is added.
Root(im) == [default |-> im]

\* The CIDs that a listing of the directory h has, its entries'.
Links(h) == {h[n] : n \in DOMAIN h}

Init ==
    /\ pc = [p \in Pushers |-> "idle"]
    /\ job = [p \in Pushers |-> None]
    /\ work = [p \in Pushers |-> Fresh(<<>>)]
    /\ hash = [p \in Pushers |-> None]
    /\ refs = [p \in Pushers |-> NoRefs]
    /\ tries = [p \in Pushers |-> 0]
    /\ result = [p \in Pushers |-> None]
    /\ added = {}

\* The call p goes on at q with the files w.
Goto(p, q, w) ==
    /\ pc' = [pc EXCEPT ![p] = q]
    /\ work' = [work EXCEPT ![p] = w]
    /\ UNCHANGED <<job, hash, refs, tries, result, added>>

\* It returns c; its temporary files are of no use to anybody.
Return(p, c) ==
    /\ pc' = [pc EXCEPT ![p] = "idle"]
    /\ work' = [work EXCEPT ![p] = Fresh(<<>>)]
    /\ hash' = [hash EXCEPT ![p] = None]
    /\ tries' = [tries EXCEPT ![p] = 0]
    /\ result' = [result EXCEPT ![p] = c]
    /\ UNCHANGED job

\* PushImage is called.  The goroutine of an earlier call does not matter to it;
\* here it waits for its end.
Push(p, j) ==
    /\ pc[p] = "idle"
    /\ refs[p].at \in {"none", "closed"}
    /\ pc' = [pc EXCEPT ![p] = "untar"]
    /\ job' = [job EXCEPT ![p] = j]
    /\ work' = [work EXCEPT ![p] = Fresh(j.archive)]
    /\ refs' = [refs EXCEPT ![p] = NoRefs]
    /\ result' = [result EXCEPT ![p] = None]
    /\ UNCHANGED <<hash, tries, added>>

\* A file, docker's archive or the IPFS API fails, and PushImage with it.
Fail(p) ==
    /\ \/ "disk" \in Env /\ pc[p] \in {"untar", "prep", "layers", "write"}
       \/ "stream" \in Env /\ pc[p] = "untar"
       \/ "api" \in Env /\ pc[p] \in {"add", "refs"}
    /\ Return(p, Failed)
    /\ UNCHANGED <<refs, added>>

-----------------------------------------------------------------------------
(* untar and ipfsPrep *)

\* A regular file is written, anything else is passed over.
Unpack(p) ==
    /\ pc[p] = "untar"
    /\ work[p].rest # <<>>
    /\ LET e == Head(work[p].rest)
           w == [work[p] EXCEPT !.rest = Tail(@)]
       IN IF e.kind = "link"
          THEN Goto(p, "untar", w)
          ELSE Goto(p, "untar", [w EXCEPT !.files = Put(@, {e.name}, e.data)])

\* The archive ends, or breaks off between two entries: no difference here.
Unpacked(p) ==
    /\ pc[p] = "untar"
    /\ work[p].rest = <<>> \/ "stream" \in Env
    /\ Goto(p, "prep", [work[p] EXCEPT !.rest = <<>>])

\* manifest.json is read and the configuration copied.
Prepare(p) ==
    /\ pc[p] = "prep"
    /\ LET f == work[p].files IN
       IF IndexName \in DOMAIN f /\ f[IndexName] # None
             /\ f[IndexName].config \in DOMAIN f
       THEN LET ix == f[IndexName] IN
            Goto(p, "layers",
                 [work[p] EXCEPT !.todo = ix.layers, !.config = ix.config,
                                 !.blobs = Put(@, {ix.config}, f[ix.config])])
       ELSE Return(p, Failed) /\ UNCHANGED <<refs, added>>

\* What gzipFile reads of the layer n.  It does not look at the error of reading:
\* a file that is not there, or cannot be read, is an empty one.
Contents(files, n) ==
    {IF n \in DOMAIN files THEN files[n] ELSE Nothing} \cup {Nothing : x \in {n} \cap Flaky}

\* Variant: the layers are collected in front.
Layered_InFront(w, d) ==
    [w EXCEPT !.todo = Tail(@),
              !.blobs = Put(@, {Digest(Gzip(d))}, Gzip(d)),
              !.layers = <<Digest(Gzip(d))>> \o @]

\* Variant: a blob that is there already is left alone, and so is the temporary
\* file.
Layered_SkipsRename(w, d) ==
    [w EXCEPT !.todo = Tail(@),
              !.blobs = IF Digest(Gzip(d)) \in DOMAIN @ THEN Put(@, {TmpName}, Gzip(d))
                        ELSE Put(@, {Digest(Gzip(d))}, Gzip(d)),
              !.layers = Append(@, Digest(Gzip(d)))]

\* Variant: the digest lacks its "sha256:" in the manifest.
Layered_BareDigest(w, d) ==
    [w EXCEPT !.todo = Tail(@),
              !.blobs = Put(@, {Digest(Gzip(d))}, Gzip(d)),
              !.layers = Append(@, Gzip(d))]

\* The layer with the content d is compressed, renamed to its digest, and listed.
Layered(w, d) ==
    [w EXCEPT !.todo = Tail(@),
              !.blobs = Put(@, {Digest(Gzip(d))}, Gzip(d)),
              !.layers = Append(@, Digest(Gzip(d)))]

Compress(p) ==
    /\ pc[p] = "layers"
    /\ work[p].todo # <<>>
    /\ \E d \in Contents(work[p].files, Head(work[p].todo)) :
          Goto(p, "layers", Layered(work[p], d))

Compressed(p) ==
    /\ pc[p] = "layers"
    /\ work[p].todo = <<>>
    /\ Goto(p, "write", work[p])

\* ref: what stands after the first colon, unless that is a digest's.
Ref(j) == IF j.form \in {"tagged", "port"} THEN j.tag ELSE Latest

\* The manifest is written under the tag, under "latest" and under its digest.
\* With a port the tag contains a slash and the file cannot be made.
Write(p) ==
    /\ pc[p] = "write"
    /\ IF job[p].form = "port"
       THEN Return(p, Failed) /\ UNCHANGED <<refs, added>>
       ELSE LET man == [config |-> work[p].config, layers |-> work[p].layers] IN
            Goto(p, "add",
                 [work[p] EXCEPT !.manifests = Put(@, {Latest, Ref(job[p]), Digest(man)}, man)])

-----------------------------------------------------------------------------
(* uploadDir *)

\* AddDir: the directory is on IPFS; or the request was not sent, which is the
\* empty hash and no error.
Add(p) ==
    /\ pc[p] = "add"
    /\ LET root == Root(Image(work[p])) IN
       \/ /\ hash' = [hash EXCEPT ![p] = root]
          /\ added' = added \cup {root}
       \/ /\ "api" \in Env
          /\ UNCHANGED <<hash, added>>
    /\ pc' = [pc EXCEPT ![p] = "refs"]
    /\ UNCHANGED <<job, work, refs, tries, result>>

\* remoteRefs: the API refuses an empty hash; else a goroutine takes its answer.
List(p) ==
    /\ pc[p] = "refs"
    /\ IF hash[p] = None
       THEN Return(p, Failed) /\ UNCHANGED <<refs, added>>
       ELSE /\ refs' = [refs EXCEPT ![p] = [at |-> "decode", links |-> Links(hash[p]), offer |-> None]]
            /\ pc' = [pc EXCEPT ![p] = "take"]
            /\ UNCHANGED <<job, work, hash, tries, result, added>>

\* Variant: the goroutine ends without closing its channel.
DecodeEnd_Open(p) ==
    /\ refs[p].at = "decode"
    /\ refs[p].links = {} \/ "api" \in Env
    /\ refs' = [refs EXCEPT ![p] = NoRefs]
    /\ UNCHANGED <<pc, job, work, hash, tries, result, added>>

\* The goroutine has read an entry, and sends it as soon as somebody takes it.
Decode(p) ==
    /\ refs[p].at = "decode"
    /\ \E c \in refs[p].links :
          refs' = [refs EXCEPT ![p] = [at |-> "send", links |-> @.links \ {c}, offer |-> c]]
    /\ UNCHANGED <<pc, job, work, hash, tries, result, added>>

\* It has read them all, or the answer breaks off.
DecodeEnd(p) ==
    /\ refs[p].at = "decode"
    /\ refs[p].links = {} \/ "api" \in Env
    /\ refs' = [refs EXCEPT ![p] = [NoRefs EXCEPT !.at = "closed"]]
    /\ UNCHANGED <<pc, job, work, hash, tries, result, added>>

\* The channel is read ten times.
MaxTries == 10

\* The first entry is the image.
Take(p) ==
    /\ pc[p] = "take"
    /\ refs[p].at = "send"
    /\ refs' = [refs EXCEPT ![p] = [@ EXCEPT !.at = "decode", !.offer = None]]
    /\ Return(p, refs[p].offer)
    /\ UNCHANGED added

\* A closed channel gives the empty string.
TakeNothing(p) ==
    /\ pc[p] = "take"
    /\ refs[p].at = "closed"
    /\ tries[p] < MaxTries
    /\ tries' = [tries EXCEPT ![p] = @ + 1]
    /\ UNCHANGED <<pc, job, work, hash, refs, result, added>>

\* log.Fatal("NO REF") ends the process, with every call in it, and with it the
\* goroutines.
Exit(p) ==
    /\ pc[p] = "take"
    /\ tries[p] = MaxTries
    /\ pc' = [q \in Pushers |-> "idle"]
    /\ job' = [q \in Pushers |-> IF result[q] = None THEN None ELSE job[q]]
    /\ work' = [q \in Pushers |-> Fresh(<<>>)]
    /\ hash' = [q \in Pushers |-> None]
    /\ refs' = [q \in Pushers |-> NoRefs]
    /\ tries' = [q \in Pushers |-> 0]
    /\ UNCHANGED <<result, added>>

Work(p) ==
    \/ Fail(p)
    \/ Unpack(p)
    \/ Unpacked(p)
    \/ Prepare(p)
    \/ Compress(p)
    \/ Compressed(p)
    \/ Write(p)
    \/ Add(p)
    \/ List(p)
    \/ Take(p)
    \/ TakeNothing(p)
    \/ Exit(p)

Refs(p) == Decode(p) \/ DecodeEnd(p)

Next ==
    \/ \E p \in Pushers, j \in Jobs : Push(p, j)
    \/ \E p \in Pushers : Work(p) \/ Refs(p)

Spec == Init /\ [][Next]_vars

\* Goroutines run, and the IPFS API and docker answer or fail.
FairSpec == Spec /\ \A p \in Pushers : WF_vars(Work(p)) /\ WF_vars(Refs(p))

-----------------------------------------------------------------------------
(* Properties. *)

\* A map of blobs or of manifests, and an image of the two.
BlobMap(b) == DOMAIN b \subseteq BlobNames /\ \A n \in DOMAIN b : b[n] \in Data \cup Layers
ManifestMap(m) ==
    /\ DOMAIN m \subseteq Tags \cup {Digest(x) : x \in {m[r] : r \in DOMAIN m}}
    /\ \A r \in DOMAIN m : m[r] \in Manifests

Points == {"idle", "untar", "prep", "layers", "write", "add", "refs", "take"}

TypeOK ==
    /\ pc \in [Pushers -> Points]
    /\ job \in [Pushers -> Jobs \cup {None}]
    /\ \A p \in Pushers :
          /\ work[p].rest \in Seq(Entries)
          /\ work[p].todo \in Seq(Names)
          /\ work[p].config \in ConfigNames \cup {None}
          /\ work[p].layers \in Seq({Digest(l) : l \in Layers})
          /\ BlobMap(work[p].blobs)
          /\ ManifestMap(work[p].manifests)
          /\ refs[p].at \in {"none", "decode", "send", "closed"}
          /\ pc[p] # "idle" => job[p] # None /\ result[p] = None
    /\ tries \in [Pushers -> 0..MaxTries]
    /\ \A root \in added :
          BlobMap(root.default.blobs) /\ ManifestMap(root.default.manifests)

\* The entry of an archive that has a name, and whether it is unpacked as a file.
Entry(a, n) == CHOOSE e \in {a[i] : i \in DOMAIN a} : e.name = n
Has(a, n) == \E i \in DOMAIN a : a[i].name = n
Filed(a, n) == \E i \in DOMAIN a : a[i].name = n /\ a[i].kind # "link"

IndexOf(j) == Entry(j.archive, IndexName).data

\* The archives that can be pushed: they have an index and a configuration.
Sound(j) ==
    /\ Has(j.archive, IndexName)
    /\ IndexOf(j) # None
    /\ Has(j.archive, IndexOf(j).config)

\* What the layer n of an archive may be stored as: what it is there, or empty
\* where it is a link, is missing or cannot be read.
Readings(a, n) ==
    {IF Filed(a, n) THEN Entry(a, n).data ELSE Nothing} \cup {Nothing : x \in {n} \cap Flaky}

\* The contents the layers of a job may be stored with, in the order of its index.
LayersOf(j) ==
    {ds \in [DOMAIN IndexOf(j).layers -> Data \cup {Nothing}] :
        \A i \in DOMAIN ds : ds[i] \in Readings(j.archive, IndexOf(j).layers[i])}

\* The image of a job when its layers have the contents ds.
ImageOf(j, ds) ==
    LET config == IndexOf(j).config
        man == [config |-> config, layers |-> [i \in DOMAIN ds |-> Digest(Gzip(ds[i]))]]
        blobs == {Gzip(ds[i]) : i \in DOMAIN ds} \cup {Entry(j.archive, config).data}
    IN [blobs |-> [n \in {Digest(b) : b \in blobs} |-> CHOOSE b \in blobs : Digest(b) = n],
        manifests |-> [r \in {Latest, Ref(j), Digest(man)} |-> man]]

ImagesOf(j) == {ImageOf(j, ds) : ds \in LayersOf(j)}

Offer == INSTANCE ImageOffer WITH Sound <- Sound, Images <- ImagesOf, out <- result

\* A push returns the CID of an image with the configuration and all the layers of
\* its archive, in order and under all its names, or it fails, in whichever of its
\* steps something goes wrong (registry/registry.go 117-143, 213-343, 448-505).  A
\* layer that is a link, or that could not be read, is empty in it (509); no other
\* layer is, whatever docker, the disk and IPFS do.
OfferSpec == Offer!Spec

\* docker calls the file of a configuration by its digest.
ConfigsNamed ==
    \A j \in Jobs : \A i \in DOMAIN j.archive :
        (j.archive[i].kind = "file" /\ j.archive[i].name \in ConfigNames)
            => j.archive[i].name = Digest(j.archive[i].data)

\* docker writes the index last.
IndexLast ==
    \A j \in Jobs : \A i \in DOMAIN j.archive :
        j.archive[i].kind = "index" => i = Len(j.archive)

\* What a push has returned is on IPFS, and is what the server takes an image
\* for: one manifest under all its names, "latest" and its digest among them,
\* and exactly the blobs it names, each under its digest
\* (registry/registry.go 288-304, 480-505; server/registry/registry.go 178-197).
Servable ==
    \A p \in Pushers : result[p] \notin {None, Failed} =>
        /\ \E root \in added : result[p] \in Links(root)
        /\ LET im == result[p]
               man == im.manifests[Latest]
           IN /\ Latest \in DOMAIN im.manifests
              /\ Digest(man) \in DOMAIN im.manifests
              /\ \A r \in DOMAIN im.manifests : im.manifests[r] = man
              /\ DOMAIN im.blobs = {man.config} \cup {man.layers[i] : i \in DOMAIN man.layers}
              /\ \A d \in DOMAIN im.blobs : d = Digest(im.blobs[d])

\* Every push ends, with its process if not otherwise.
PushEnds == \A p \in Pushers : pc[p] # "idle" ~> pc[p] = "idle"

\* No goroutine of remoteRefs is left behind with an entry nobody takes: it sends
\* on an unbuffered channel that is left after the first entry
\* (ipfs/ipfs.go 180-199, registry/registry.go 327-334).
RefsEnd == \A p \in Pushers : refs[p].at \in {"decode", "send"} ~> refs[p].at \in {"none", "closed"}

\* The content a layer has in the archive, also if it is a link to another.
Meant(a, n) ==
    IF Entry(a, n).kind = "link" THEN Entry(a, Entry(a, n).data).data ELSE Entry(a, n).data

\* The layers of a pushed image have the content they have in the archive
\* (registry/registry.go 507: "gzipFile gzips a file into a destination file").
LayersKept ==
    \A p \in Pushers : result[p] \notin {None, Failed} =>
        LET names == IndexOf(job[p]).layers IN
        result[p].manifests[Latest].layers =
            [i \in DOMAIN names |-> Digest(Gzip(Meant(job[p].archive, names[i])))]

=============================================================================
