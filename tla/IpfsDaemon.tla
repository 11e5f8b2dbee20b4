----------------------------- MODULE IpfsDaemon -----------------------------
(***************************************************************************)
(* RunDaemon (ipfs/ipfs.go 264-303): callers that want an IPFS daemon on   *)
(* this host, the goroutine and the timer each of them starts, and the     *)
(* unbuffered channel all three meet at.                                   *)
(*                                                                         *)
(* A caller is a program that calls NewClient: the call waits for the      *)
(* first value of the channel ("waiting").  Its goroutine looks for a      *)
(* process called ipfs ("looking"); if there is none ("alone") it runs     *)
(* `ipfs daemon` and waits for its end ("running").  A sender waits in     *)
(* `ready` until its value is taken, for ever if it never is.              *)
(*                                                                         *)
(* The daemons are external: what `ipfs daemon`, the lock of its           *)
(* repository and the users of the host do.                                *)
(***************************************************************************)
EXTENDS Naturals, Sequences

CONSTANTS
    Callers,
    Elsewhere,  \* the daemon somebody else starts on this host
    Env         \* which events happen: "daemon" (daemons are started by
                \* others, stopped, killed, or fail to start), "namesake"
                \* (another process is called ipfs), "pgrep" (pgrep fails)

ASSUME ElsewhereAssumption == Elsewhere \notin Callers

VARIABLES
    daemon,  \* of each caller, and elsewhere: the daemon process
    call,    \* what the call of RunDaemon is at
    spawn,   \* what its goroutine is at
    timer,   \* and its timer
    ready    \* the senders waiting at its channel, first come first

daemonVars == <<daemon, call, spawn, timer, ready>>

Daemons == Callers \cup {Elsewhere}

DaemonTypeOK ==
    /\ daemon \in [Daemons -> {"none", "starting", "up", "failed", "ended"}]
    /\ call \in [Callers -> {"none", "waiting", "ready", "failed"}]
    /\ spawn \in [Callers -> {"none", "looking", "alone", "running", "over"}]
    /\ timer \in [Callers -> {"none", "set", "fired"}]
    /\ ready \in [Callers -> Seq({"timer", "true", "false"})]
    /\ \A c \in Callers :
        /\ daemon[c] \in {"failed", "ended"} => spawn[c] = "running"
        /\ spawn[c] = "none" <=> call[c] = "none"

DaemonInit ==
    /\ daemon = [d \in Daemons |-> "none"]
    /\ call = [c \in Callers |-> "none"]
    /\ spawn = [c \in Callers |-> "none"]
    /\ timer = [c \in Callers |-> "none"]
    /\ ready = [c \in Callers |-> <<>>]

-----------------------------------------------------------------------------

Runs(d) == daemon[d] \in {"starting", "up"}

\* The gateway and the API answer.
GatewayUp == \E d \in Daemons : daemon[d] = "up"

\* ready <- v
Offer(c, v) == ready' = [ready EXCEPT ![c] = Append(@, v)]

RunDaemon(c) ==
    /\ call[c] = "none"
    /\ call' = [call EXCEPT ![c] = "waiting"]
    /\ spawn' = [spawn EXCEPT ![c] = "looking"]
    /\ UNCHANGED <<daemon, timer, ready>>

\* pgrep sees a process: that is good enough.
Found(c) ==
    /\ spawn[c] = "looking"
    /\ (\E d \in Daemons : Runs(d)) \/ "namesake" \in Env
    /\ Offer(c, "true")
    /\ spawn' = [spawn EXCEPT ![c] = "over"]
    /\ UNCHANGED <<daemon, call, timer>>

\* Ready as soon as the command is given.
NotFound_Eager(c) ==
    /\ spawn[c] = "looking"
    /\ ~(\E d \in Daemons : Runs(d)) \/ "pgrep" \in Env
    /\ Offer(c, "true")
    /\ spawn' = [spawn EXCEPT ![c] = "alone"]
    /\ UNCHANGED <<daemon, call, timer>>

\* Without the timer.
NotFound_Untimed(c) ==
    /\ spawn[c] = "looking"
    /\ ~(\E d \in Daemons : Runs(d)) \/ "pgrep" \in Env
    /\ spawn' = [spawn EXCEPT ![c] = "alone"]
    /\ UNCHANGED <<daemon, call, timer, ready>>

\* pgrep sees none, or fails.
NotFound(c) ==
    /\ spawn[c] = "looking"
    /\ ~(\E d \in Daemons : Runs(d)) \/ "pgrep" \in Env
    /\ timer' = [timer EXCEPT ![c] = "set"]
    /\ spawn' = [spawn EXCEPT ![c] = "alone"]
    /\ UNCHANGED <<daemon, call, ready>>

\* Another caller may have come to the same conclusion meanwhile.
StartDaemon(c) ==
    /\ spawn[c] = "alone"
    /\ daemon' = [daemon EXCEPT ![c] = "starting"]
    /\ spawn' = [spawn EXCEPT ![c] = "running"]
    /\ UNCHANGED <<call, timer, ready>>

\* Ten seconds have passed; whether the daemon is up by now is not looked at.
Timeout(c) ==
    /\ timer[c] = "set"
    /\ Offer(c, "timer")
    /\ timer' = [timer EXCEPT ![c] = "fired"]
    /\ UNCHANGED <<daemon, call, spawn>>

\* Without the return of line 296.
RunReturns_Falls(c) ==
    /\ spawn[c] = "running"
    /\ \/ /\ daemon[c] = "failed"
          /\ ready' = [ready EXCEPT ![c] = @ \o <<"false", "true">>]
       \/ daemon[c] = "ended" /\ Offer(c, "true")
    /\ daemon' = [daemon EXCEPT ![c] = "none"]
    /\ spawn' = [spawn EXCEPT ![c] = "over"]
    /\ UNCHANGED <<call, timer>>

\* `ipfs daemon` is over.
RunReturns(c) ==
    /\ spawn[c] = "running"
    /\ \/ daemon[c] = "failed" /\ Offer(c, "false")
       \/ daemon[c] = "ended" /\ Offer(c, "true")
    /\ daemon' = [daemon EXCEPT ![c] = "none"]
    /\ spawn' = [spawn EXCEPT ![c] = "over"]
    /\ UNCHANGED <<call, timer>>

\* !<-ready
Receive(c) ==
    /\ call[c] = "waiting"
    /\ ready[c] # <<>>
    /\ call' = [call EXCEPT ![c] = IF Head(ready[c]) = "false" THEN "failed" ELSE "ready"]
    /\ ready' = [ready EXCEPT ![c] = Tail(@)]
    /\ UNCHANGED <<daemon, spawn, timer>>

\* What is left when the caller's process ends: its daemon, if it runs.
CallerGone(c) ==
    /\ call' = [call EXCEPT ![c] = "none"]
    /\ spawn' = [spawn EXCEPT ![c] = "none"]
    /\ timer' = [timer EXCEPT ![c] = "none"]
    /\ ready' = [ready EXCEPT ![c] = <<>>]
    /\ daemon' = [daemon EXCEPT ![c] = IF Runs(c) THEN @ ELSE "none"]

-----------------------------------------------------------------------------
(* The daemons. *)

\* A daemon ends, with a status that somebody waits for or nobody does.
DaemonOver(d, status) ==
    daemon' = [daemon EXCEPT ![d] =
                  IF d \in Callers /\ spawn[d] = "running" THEN status ELSE "none"]

\* One daemon has the lock of the repository.
DaemonComes(d) ==
    /\ daemon[d] = "starting"
    /\ IF \E e \in Daemons : daemon[e] = "up"
       THEN DaemonOver(d, "failed")
       ELSE daemon' = [daemon EXCEPT ![d] = "up"]
    /\ UNCHANGED <<call, spawn, timer, ready>>

DaemonFails(d) ==
    /\ "daemon" \in Env
    /\ Runs(d)
    /\ \/ DaemonOver(d, "failed")
       \/ daemon[d] = "up" /\ DaemonOver(d, "ended")
    /\ UNCHANGED <<call, spawn, timer, ready>>

StartElsewhere ==
    /\ "daemon" \in Env
    /\ daemon[Elsewhere] = "none"
    /\ daemon' = [daemon EXCEPT ![Elsewhere] = "starting"]
    /\ UNCHANGED <<call, spawn, timer, ready>>

-----------------------------------------------------------------------------

Goroutines(c) ==
    \/ Found(c)
    \/ NotFound(c)
    \/ StartDaemon(c)
    \/ Timeout(c)
    \/ RunReturns(c)
    \/ Receive(c)

Host ==
    \/ \E d \in Daemons : DaemonComes(d) \/ DaemonFails(d)
    \/ StartElsewhere

DaemonNext ==
    \/ \E c \in Callers : RunDaemon(c) \/ Goroutines(c) \/ CallerGone(c)
    \/ Host

\* Goroutines are scheduled and the timer fires. A daemon need not come.
DaemonFairness == \A c \in Callers : WF_daemonVars(Goroutines(c))

DaemonSpec == DaemonInit /\ [][DaemonNext]_daemonVars /\ DaemonFairness

-----------------------------------------------------------------------------
(* Properties. *)

\* A daemon that fails is an error for the caller who started it (ipfs.go
\* 292-297), unless the ten seconds were over before: when RunDaemon has
\* returned without an error and "false" still waits at the channel, the
\* timer was first.
FailureTold ==
    \A c \in Callers : \A i \in DOMAIN ready[c] :
        call[c] = "ready" /\ ready[c][i] = "false" => timer[c] = "fired"

\* Of the goroutines of a call one may stay behind at the channel for ever, no
\* more (ipfs.go 286-300 send twice, 273 receives once), and none if
\* pgrep saw a daemon to begin with.
OneLeft ==
    \A c \in Callers : call[c] \in {"ready", "failed"} =>
        /\ Len(ready[c]) <= 1
        /\ timer[c] = "none" => ready[c] = <<>>

\* RunDaemon returns: `ipfs daemon`, which runs on, is not waited for (ipfs.go
\* 286-290).
DaemonReturns == \A c \in Callers : call[c] = "waiting" ~> call[c] # "waiting"

=============================================================================
