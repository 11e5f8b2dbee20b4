----------------------------- MODULE ImagePull ------------------------------
(***************************************************************************)
(* Pulls through servers inside the pulling process: the programs of one   *)
(* host that pull or serve images, the ports they meet at, docker, and     *)
(* the IPFS daemon they read from (IpfsDaemon).                            *)
(*                                                                         *)
(* A program is one of                                                     *)
(*   "pull"     ipdr pull: one pull, then it ends                          *)
(*   "server"   ipdr server                                                *)
(*   "library"  pulls through a Registry again and again, on many threads  *)
(*   "embed"    has a Server of its own, as server/server_test.go          *)
(* A pull asks the port of its host name for "/health" and, if that is not *)
(* answered in 100 ms, starts a server in a goroutine; then docker pulls   *)
(* from the host name.  `starts` counts the goroutines that have not begun *)
(* Server.Start, `stage` is how far the one has come that registered the   *)
(* process's handlers.                                                     *)
(***************************************************************************)
EXTENDS IpfsDaemon, FiniteSets

CONSTANTS
    Procs,
    Threads,
    ProcOf,     \* thread -> the process it runs in
    Configs,    \* process -> what may be started in it
    Ports,
    OtherPorts, \* the ports that others listen on at times
    WebPort,    \* where a host name without a port is asked
    Cids,       \* the images on IPFS, named as `ipdr push` prints them
    MaxStarts,  \* bound: starts that have not begun in one process
    None,
    Other       \* a program that is none of ours
    \* Env has also: "slow" (a health check may be missed), "ipfs" (`ipfs
    \* config` fails), "bind" (a port cannot be listened to), "cert" (the
    \* certificate or its key is of no use), "kill" (processes are killed)

Kinds == {"pull", "server", "library", "embed"}

\* port: that of the host name, or of `ipdr server -p`; digits: what stands for
\* one in a host name without, such as the 192 of 192.168.0.2; tls: whether
\* `ipdr server` is given a certificate, which no other program is here.
Config == [kind : Kinds, port : Ports \cup {None}, digits : Nat, tls : BOOLEAN]

ASSUME ProcAssumption == ProcOf \in [Threads -> Procs]
ASSUME ConfigAssumption ==
    /\ Configs \in [Procs -> SUBSET Config]
    /\ \A p \in Procs : \A f \in Configs[p] : f.tls => f.kind = "server"
ASSUME SinglePull ==
    \A p \in Procs : (\E f \in Configs[p] : f.kind = "pull") =>
        \A t, u \in Threads : ProcOf[t] = p /\ ProcOf[u] = p => t = u
ASSUME PortAssumption ==
    /\ Ports \subseteq Nat \ {0}
    /\ OtherPorts \subseteq Ports
    /\ {5000, WebPort} \subseteq Ports
    /\ \A p \in Procs : \A f \in Configs[p] : f.digits \in Ports \cup {0}
ASSUME OtherAssumption == None \notin Procs \cup Ports \cup Cids /\ Other \notin Procs \cup {None}
ASSUME StartsAssumption == MaxStarts \in Nat \ {0}
ASSUME CallerAssumption == Callers \subseteq Procs
ASSUME NoneAssumption == \A p \in Procs : None \notin Configs[p]

VARIABLES
    conf,    \* process -> what runs in it, or None
    starts,  \* process -> its calls of Start that have not begun
    stage,   \* process -> how far its server is
    held,    \* process -> the manifests its server has in memory
    owner,   \* port -> who listens
    pc,      \* thread -> what its pull is at
    name,    \* thread -> what it pulls
    images,  \* the images docker has
    told,    \* the thread whose pull has just returned, and what, or the
             \* process that has just been ended, and how, or None
    steady   \* thread -> whether a server and a daemon have been where it asks
             \* since its pull began, or since docker got the manifest; this
             \* and told are a history of the run

hostVars == <<conf, starts, stage, held, owner, pc, name, images>>
pullVars == <<hostVars, daemonVars, told, steady>>

-----------------------------------------------------------------------------
(* Ports and names. *)

\* The last match of `(.*:)?(\d+)`: the port, or else the first digits.
ExtractPort(f) == IF f.port # None THEN f.port ELSE f.digits

\* Where NewServer listens.
ListenPort(f) == IF ExtractPort(f) = 0 THEN 5000 ELSE ExtractPort(f)

\* Where the host name is asked, by the health check and by docker.
DialPort(f) == IF f.port # None THEN f.port ELSE WebPort

-----------------------------------------------------------------------------

Is(p, kinds) == conf[p] # None /\ conf[p].kind \in kinds

\* Nothing is left of a process that has ended, a port belongs to the server
\* that listens there, and pulls are made by those that pull.
Consistent ==
    /\ \A p \in Procs : conf[p] = None =>
        stage[p] = "none" /\ starts[p] = 0 /\ held[p] = {}
    /\ \A p \in Procs, q \in Ports :
        owner[q] = p <=> stage[p] = "serving" /\ q = ListenPort(conf[p])
    /\ \A t \in Threads : pc[t] # "idle" =>
        Is(ProcOf[t], {"pull", "library"}) /\ name[t] \in Cids

Programs == UNION {Configs[p] : p \in Procs}

HostTypeOK ==
    /\ conf \in [Procs -> Programs \cup {None}]
    /\ \A p \in Procs : conf[p] \in Configs[p] \cup {None}
    /\ starts \in [Procs -> 0..MaxStarts]
    /\ stage \in [Procs -> {"none", "registered", "serving", "failed", "stopped"}]
    /\ held \in [Procs -> SUBSET Cids]
    /\ owner \in [Ports -> Procs \cup {None, Other}]
    /\ pc \in [Threads -> {"idle", "health", "manifest", "blobs"}]
    /\ name \in [Threads -> Cids \cup {None}]
    /\ images \subseteq Cids
    /\ told \in [by : Threads, what : {"tag", "error"}]
            \cup [by : Procs, what : {"killed", "panic", "fatal"}] \cup {None}
    /\ steady \in [Threads -> BOOLEAN]

TypeOK == DaemonTypeOK /\ HostTypeOK /\ Consistent

PullInit ==
    /\ DaemonInit
    /\ conf = [p \in Procs |-> None]
    /\ starts = [p \in Procs |-> 0]
    /\ stage = [p \in Procs |-> "none"]
    /\ held = [p \in Procs |-> {}]
    /\ owner = [q \in Ports |-> None]
    /\ pc = [t \in Threads |-> "idle"]
    /\ name = [t \in Threads |-> None]
    /\ told = None
    /\ images = {}
    /\ steady = [t \in Threads |-> FALSE]

-----------------------------------------------------------------------------
(* Processes. *)

\* A process ends, with its goroutines and its listener.
Ends(p) ==
    /\ conf' = [conf EXCEPT ![p] = None]
    /\ starts' = [starts EXCEPT ![p] = 0]
    /\ stage' = [stage EXCEPT ![p] = "none"]
    /\ held' = [held EXCEPT ![p] = {}]
    /\ owner' = [q \in Ports |-> IF owner[q] = p THEN None ELSE owner[q]]
    /\ pc' = [t \in Threads |-> IF ProcOf[t] = p THEN "idle" ELSE pc[t]]
    /\ name' = [t \in Threads |-> IF ProcOf[t] = p THEN None ELSE name[t]]
    /\ IF p \in Callers THEN CallerGone(p) ELSE UNCHANGED daemonVars

\* `ipdr server` and a program with a Server start it; NewRegistry starts none.
Launch(p, f) ==
    /\ conf[p] = None
    /\ conf' = [conf EXCEPT ![p] = f]
    /\ starts' = [starts EXCEPT ![p] = IF f.kind \in {"server", "embed"} THEN 1 ELSE 0]
    /\ UNCHANGED <<stage, held, owner, pc, name, images, daemonVars>>

Quit(p) ==
    /\ Is(p, {"library", "embed"})
    /\ \A t \in Threads : ProcOf[t] = p => pc[t] = "idle"
    /\ Ends(p)
    /\ UNCHANGED images

\* A process is ended, and it is seen how.
EndsBy(p, how) ==
    /\ Ends(p)
    /\ told' = [by |-> p, what |-> how]
    /\ UNCHANGED images

Kill(p) ==
    /\ "kill" \in Env
    /\ conf[p] # None
    /\ EndsBy(p, "killed")

OtherListens(q) ==
    /\ \/ owner[q] = None /\ owner' = [owner EXCEPT ![q] = Other]
       \/ owner[q] = Other /\ owner' = [owner EXCEPT ![q] = None]
    /\ UNCHANGED <<conf, starts, stage, held, pc, name, images, daemonVars>>

-----------------------------------------------------------------------------
(* Server.Start and Stop. *)

\* Never.
Started_Never(p) == FALSE

\* s.listener # nil, for the one process that calls Start twice on one Server;
\* runServer makes a new Server each time.
Started(p) == Is(p, {"embed"}) /\ stage[p] \in {"serving", "stopped"}

StartReturns(p) ==
    /\ starts[p] > 0
    /\ Started(p)
    /\ starts' = [starts EXCEPT ![p] = @ - 1]
    /\ UNCHANGED <<conf, stage, held, owner, pc, name, images, daemonVars>>

\* http.HandleFunc: a process has one mux, and a pattern is taken once.
Register(p) ==
    /\ starts[p] > 0
    /\ stage[p] = "none"
    /\ starts' = [starts EXCEPT ![p] = @ - 1]
    /\ stage' = [stage EXCEPT ![p] = "registered"]
    /\ UNCHANGED <<conf, held, owner, pc, name, images, daemonVars>>

StartPanics(p) ==
    /\ starts[p] > 0
    /\ stage[p] # "none" /\ ~Started(p)
    /\ EndsBy(p, "panic")

\* registry.New asks `ipfs config` when it is told no IPFS host, and an error is
\* the end of the process (log.Fatal); only `ipdr server` tells it one.
ConfigFails(p) ==
    /\ "ipfs" \in Env
    /\ stage[p] = "registered"
    /\ ~Is(p, {"server"})
    /\ EndsBy(p, "fatal")

Listen(p) ==
    /\ stage[p] = "registered"
    /\ owner[ListenPort(conf[p])] = None
    /\ owner' = [owner EXCEPT ![ListenPort(conf[p])] = p]
    /\ stage' = [stage EXCEPT ![p] = "serving"]
    /\ UNCHANGED <<conf, starts, held, pc, name, images, daemonVars>>

\* ServeTLS reads the certificate before it accepts anything: `ipdr server` ends
\* with the error.
CertFails(p) ==
    /\ "cert" \in Env
    /\ stage[p] = "registered"
    /\ conf[p].tls
    /\ owner[ListenPort(conf[p])] = None
    /\ Ends(p)
    /\ UNCHANGED images

\* The goroutine of runServer ends the process, too.
CannotListen_Fatal(p) ==
    /\ stage[p] = "registered"
    /\ owner[ListenPort(conf[p])] # None \/ "bind" \in Env
    /\ Ends(p)
    /\ UNCHANGED images

\* `ipdr server` ends with the error, a goroutine of runServer drops it.
CannotListen(p) ==
    /\ stage[p] = "registered"
    /\ owner[ListenPort(conf[p])] # None \/ "bind" \in Env
    /\ \/ Is(p, {"server"}) /\ Ends(p)
       \/ /\ ~Is(p, {"server"})
          /\ stage' = [stage EXCEPT ![p] = "failed"]
          /\ UNCHANGED <<conf, starts, held, owner, pc, name, daemonVars>>
    /\ UNCHANGED images

StartAgain(p) ==
    /\ Is(p, {"embed"})
    /\ starts[p] < MaxStarts
    /\ starts' = [starts EXCEPT ![p] = @ + 1]
    /\ UNCHANGED <<conf, stage, held, owner, pc, name, images, daemonVars>>

\* Without closing the listener.
Stop_Open(p) ==
    /\ Is(p, {"embed"})
    /\ stage[p] = "serving"
    /\ stage' = [stage EXCEPT ![p] = "stopped"]
    /\ UNCHANGED <<conf, starts, held, owner, pc, name, images, daemonVars>>

\* Before there is a listener, Stop does nothing.
Stop(p) ==
    /\ Is(p, {"embed"})
    /\ stage[p] = "serving"
    /\ stage' = [stage EXCEPT ![p] = "stopped"]
    /\ owner' = [owner EXCEPT ![ListenPort(conf[p])] = None]
    /\ UNCHANGED <<conf, starts, held, pc, name, images, daemonVars>>

-----------------------------------------------------------------------------
(* NewClient. *)

\* A program may call NewClient before its first pull; it waits for it, and an
\* error is its end (log.Fatalf).
NewClient(p) ==
    /\ p \in Callers
    /\ Is(p, {"library"})
    /\ starts[p] = 0 /\ stage[p] = "none"
    /\ \A t \in Threads : ProcOf[t] = p => pc[t] = "idle"
    /\ RunDaemon(p)
    /\ UNCHANGED hostVars

Daemonless(p) == p \in Callers /\ call[p] \in {"waiting", "failed"}

NewClientFails(p) ==
    /\ p \in Callers
    /\ call[p] = "failed"
    /\ Ends(p)
    /\ UNCHANGED images

-----------------------------------------------------------------------------
(* PullImage. *)

\* Where t's health check and docker look, and a server of ours there.
Asked(t) == DialPort(conf[ProcOf[t]])

Pull(t, n) ==
    /\ Is(ProcOf[t], {"pull", "library"})
    /\ ~Daemonless(ProcOf[t])
    /\ pc[t] = "idle"
    /\ pc' = [pc EXCEPT ![t] = "health"]
    /\ name' = [name EXCEPT ![t] = n]
    /\ UNCHANGED <<conf, starts, stage, held, owner, images, daemonVars>>

\* "/health" over plain HTTP: 400 from a server with TLS, anything from others.
Healthy(q) == owner[q] \in Procs /\ ~conf[owner[q]].tls

\* Asking until the server is there.
Health_Retries(t) ==
    /\ pc[t] = "health"
    /\ \/ /\ Healthy(Asked(t)) \/ owner[Asked(t)] = Other
          /\ pc' = [pc EXCEPT ![t] = "manifest"]
          /\ UNCHANGED starts
       \/ /\ ~Healthy(Asked(t)) \/ "slow" \in Env
          /\ starts[ProcOf[t]] < MaxStarts
          /\ starts' = [starts EXCEPT ![ProcOf[t]] = @ + 1]
          /\ UNCHANGED pc
    /\ UNCHANGED <<conf, stage, held, owner, name, images, daemonVars>>

\* Waiting for the server that was started.
Health_Waits(t) ==
    /\ pc[t] = "health"
    /\ \/ /\ Healthy(Asked(t))
          /\ pc' = [pc EXCEPT ![t] = "manifest"]
          /\ UNCHANGED starts
       \/ /\ ~Healthy(Asked(t)) /\ starts[ProcOf[t]] = 0 /\ stage[ProcOf[t]] = "none"
          /\ starts' = [starts EXCEPT ![ProcOf[t]] = 1]
          /\ UNCHANGED pc
    /\ UNCHANGED <<conf, stage, held, owner, name, images, daemonVars>>

Health(t) ==
    /\ pc[t] = "health"
    /\ \/ /\ Healthy(Asked(t)) \/ owner[Asked(t)] = Other
          /\ UNCHANGED starts
       \/ /\ ~Healthy(Asked(t)) \/ "slow" \in Env
          /\ starts[ProcOf[t]] < MaxStarts
          /\ starts' = [starts EXCEPT ![ProcOf[t]] = @ + 1]
    /\ pc' = [pc EXCEPT ![t] = "manifest"]
    /\ UNCHANGED <<conf, stage, held, owner, name, images, daemonVars>>

\* PullImage returns; `ipdr pull` prints the result and ends, its server too.
Return(t, r) ==
    /\ told' = [by |-> t, what |-> r]
    /\ \/ Is(ProcOf[t], {"pull"}) /\ Ends(ProcOf[t])
       \/ /\ Is(ProcOf[t], {"library"})
          /\ pc' = [pc EXCEPT ![t] = "idle"]
          /\ name' = [name EXCEPT ![t] = None]
          /\ UNCHANGED <<conf, starts, stage, held, owner, daemonVars>>

\* A server of ours has the manifest, from the gateway or from memory.
HasManifest(q, n) ==
    /\ owner[q] \in Procs
    /\ GatewayUp \/ n \in held[owner[q]]

Manifest(t) ==
    /\ pc[t] = "manifest"
    /\ HasManifest(Asked(t), name[t])
    /\ held' = [held EXCEPT ![owner[Asked(t)]] = @ \cup {name[t]}]
    /\ pc' = [pc EXCEPT ![t] = "blobs"]
    /\ UNCHANGED <<conf, starts, stage, owner, name, images, daemonVars>>

\* Docker has sent nothing yet and answers with an error.
Refused(t) ==
    /\ pc[t] = "manifest"
    /\ ~HasManifest(Asked(t), name[t])
    /\ Return(t, "error")
    /\ UNCHANGED images

\* A server and a daemon where t asks.
SourceOf(t) == owner[Asked(t)] \in Procs /\ GatewayUp

\* What becomes of the blobs is in docker's stream, which is read for its end
\* only (docker.go 106): the pull is a success either way. Connections outlive
\* the listener of a server that is stopped.
Blobs(t) ==
    /\ pc[t] = "blobs"
    /\ \/ /\ SourceOf(t) \/ (GatewayUp /\ \E p \in Procs : stage[p] = "stopped")
          /\ images' = images \cup {name[t]}
       \/ ~SourceOf(t) /\ UNCHANGED images
    /\ Return(t, "tag")

-----------------------------------------------------------------------------

Server(p) ==
    \/ /\ StartReturns(p) \/ Register(p) \/ Listen(p) \/ CertFails(p) \/ CannotListen(p)
       /\ told' = None
    \/ StartPanics(p)
    \/ ConfigFails(p)

Puller(t) ==
    \/ (Health(t) \/ Manifest(t)) /\ told' = None
    \/ Refused(t)
    \/ Blobs(t)

Watch ==
    steady' = [t \in Threads |->
        /\ pc'[t] # "idle" /\ SourceOf(t)'
        /\ \/ steady[t]
           \/ pc[t] = "idle"
           \/ pc[t] = "manifest" /\ pc'[t] = "blobs"]

Life(p) ==
    \/ \E f \in Configs[p] : Launch(p, f)
    \/ Quit(p)
    \/ StartAgain(p)
    \/ Stop(p)
    \/ NewClient(p)
    \/ NewClientFails(p)

Quiet == Watch /\ told' = None

PullNext ==
    \/ \E p \in Procs : Life(p) /\ Quiet
    \/ \E p \in Procs : (Server(p) \/ Kill(p)) /\ Watch
    \/ \E t \in Threads : \E n \in Cids : Pull(t, n) /\ Quiet
    \/ \E t \in Threads : Puller(t) /\ Watch
    \/ \E q \in OtherPorts : OtherListens(q) /\ Quiet
    \/ \E c \in Callers : Goroutines(c) /\ UNCHANGED hostVars /\ Quiet
    \/ Host /\ UNCHANGED hostVars /\ Quiet

\* Processes run and docker answers.
PullFairness ==
    /\ DaemonFairness
    /\ \A p \in Procs : WF_hostVars(Server(p))
    /\ \A t \in Threads : WF_hostVars(Puller(t))

PullSpec == PullInit /\ [][PullNext]_pullVars /\ PullFairness

-----------------------------------------------------------------------------
(* Properties. *)

\* `ipdr pull` and `ipdr server` start one server in their lifetime, so that they
\* never run into the panic of a second registration (server.go 79).
OneStart ==
    \A p \in Procs : Is(p, {"pull", "server"}) =>
        starts[p] + (IF stage[p] = "none" THEN 0 ELSE 1) <= 1

\* A pull that has found a server and a daemon, and that they stay, gets the image:
\* when it ends, it has said a tag and docker has the image, however many servers
\* it has started in vain, after a slow health check or beside a server with TLS,
\* and whatever became of them.  Else its process was killed, or such a server has
\* ended it: `ipfs config` failed (log.Fatal), or, in a program that pulls more
\* than once, the handlers were there already (registry/registry.go 162-174,
\* 195-211; server/server.go 73-102).
PullHolds ==
    [][\A t \in Threads : steady[t] /\ pc[t] # "idle" /\ pc'[t] = "idle" =>
        \/ told' = [by |-> t, what |-> "tag"] /\ name[t] \in images'
        \/ told' \in [by : {ProcOf[t]}, what : {"killed", "fatal"}]
        \/ told' = [by |-> ProcOf[t], what |-> "panic"] /\ Is(ProcOf[t], {"library"})
      ]_pullVars

\* Who serves goes on, at its port, whatever other processes start, pull and end,
\* and however often its own Start is called (server.go 74-77, 91); until it is
\* killed, its `ipdr pull` returns, or its program stops it or ends.  But one that
\* pulls more than once may end itself with a second server (server.go 79).
ServerStays ==
    [][\A p \in Procs : stage[p] = "serving" =>
        \/ /\ conf'[p] = conf[p] /\ stage'[p] = "serving"
           /\ owner'[ListenPort(conf[p])] = p
        \/ told' = [by |-> p, what |-> "killed"]
        \/ Is(p, {"pull"}) /\ told' \in [by : {t \in Threads : ProcOf[t] = p}, what : {"tag", "error"}]
        \/ Is(p, {"embed", "library"}) /\ (Stop(p) \/ Quit(p)) /\ told' = None
        \/ Is(p, {"library"}) /\ told' = [by |-> p, what |-> "panic"]
      ]_pullVars

\* A pull returns or its process ends (registry/registry.go 162-174).
PullEnds == \A t \in Threads : pc[t] # "idle" ~> pc[t] = "idle"

=============================================================================
