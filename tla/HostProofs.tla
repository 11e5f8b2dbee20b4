----------------------------- MODULE HostProofs -----------------------------
(***************************************************************************)
(* Theorems about IpfsDaemon and ImagePull.                                *)
(*                                                                         *)
(* A step of the host is, for the daemon and its callers, a step of        *)
(* IpfsDaemon (DaemonSees), so that what is proved of IpfsDaemon holds in  *)
(* ImagePull.  There the argument is a count: what a call has been sent    *)
(* and has not received yet (Balance).                                     *)
(***************************************************************************)
EXTENDS ImagePull, SequenceTheorems, TLAPS

-----------------------------------------------------------------------------
(* The daemon and its callers. *)

One(b) == IF b THEN 1 ELSE 0

\* The timer sends once, the goroutine sends once, the call receives once, and
\* the timer is set by a goroutine that has looked.
Balanced(c) ==
    /\ Len(ready[c]) + One(call[c] \in {"ready", "failed"})
           = One(timer[c] = "fired") + One(spawn[c] = "over")
    /\ spawn[c] \in {"none", "looking"} => timer[c] = "none"

DaemonInv == DaemonTypeOK /\ \A c \in Callers : Balanced(c)

\* What a step leaves alone stays balanced.
LEMMA Elsewise ==
    ASSUME NEW c \in Callers, NEW d \in Callers, d # c, Balanced(d), DaemonTypeOK,
           ready'[d] = ready[d], call'[d] = call[d],
           timer'[d] = timer[d], spawn'[d] = spawn[d]
    PROVE  Balanced(d)'
  BY DEF Balanced, One

LEMMA DaemonStarts == DaemonInit => DaemonInv
  BY DEF DaemonInit, DaemonInv, DaemonTypeOK, Balanced, One, Daemons

LEMMA DaemonKeeps ==
    ASSUME DaemonInv, [DaemonNext]_daemonVars
    PROVE  DaemonInv'
<1> USE ElsewhereAssumption DEF DaemonInv
<1>1. ASSUME NEW c \in Callers, RunDaemon(c) PROVE DaemonInv'
  BY <1>1 DEF RunDaemon, DaemonTypeOK, Balanced, One, Daemons
<1>2. ASSUME NEW c \in Callers, Found(c) PROVE DaemonInv'
  <2>1. DaemonTypeOK'
    BY <1>2 DEF Found, Offer, DaemonTypeOK, Daemons
  <2>2. Balanced(c)'
    BY <1>2 DEF Found, Offer, DaemonTypeOK, Balanced, One
  <2>5. ASSUME NEW d \in Callers, d # c PROVE Balanced(d)'
    BY <1>2, <2>5, Elsewise DEF Found, Offer, DaemonTypeOK
  <2> QED  BY <2>1, <2>2, <2>5
<1>3. ASSUME NEW c \in Callers, NotFound(c) PROVE DaemonInv'
  BY <1>3 DEF NotFound, DaemonTypeOK, Balanced, One, Daemons
<1>4. ASSUME NEW c \in Callers, StartDaemon(c) PROVE DaemonInv'
  BY <1>4 DEF StartDaemon, DaemonTypeOK, Balanced, One, Daemons
<1>5. ASSUME NEW c \in Callers, Timeout(c) PROVE DaemonInv'
  <2>1. DaemonTypeOK'
    BY <1>5 DEF Timeout, Offer, DaemonTypeOK, Daemons
  <2>2. Balanced(c)'
    <3>1. /\ ready[c] \in Seq({"timer", "true", "false"})
          /\ ready'[c] = Append(ready[c], "timer")
      BY <1>5 DEF Timeout, Offer, DaemonTypeOK
    <3>2. Len(ready'[c]) = Len(ready[c]) + 1 /\ Len(ready[c]) \in Nat
      BY <3>1
    <3>3. /\ Balanced(c) /\ timer[c] = "set" /\ timer'[c] = "fired"
          /\ call' = call /\ spawn' = spawn
      BY <1>5 DEF Timeout, DaemonTypeOK
    <3>4. One(timer[c] = "fired") = 0 /\ One(timer'[c] = "fired") = 1
      BY <3>3 DEF One
    <3>5. /\ One(call[c] \in {"ready", "failed"}) \in Nat
          /\ One(spawn[c] = "over") \in Nat
      BY DEF One
    <3>6. Len(ready[c]) + One(call[c] \in {"ready", "failed"}) = One(spawn[c] = "over")
      BY <3>3, <3>4, <3>5 DEF Balanced
    <3>7. Len(ready'[c]) + One(call'[c] \in {"ready", "failed"})
              = One(timer'[c] = "fired") + One(spawn'[c] = "over")
      BY <3>2, <3>3, <3>4, <3>5, <3>6
    <3>8. ~(spawn'[c] \in {"none", "looking"})
      BY <3>3 DEF Balanced
    <3> QED  BY <3>7, <3>8 DEF Balanced
  <2>5. ASSUME NEW d \in Callers, d # c PROVE Balanced(d)'
    BY <1>5, <2>5, Elsewise DEF Timeout, Offer, DaemonTypeOK
  <2> QED  BY <2>1, <2>2, <2>5
<1>6. ASSUME NEW c \in Callers, RunReturns(c) PROVE DaemonInv'
  <2>0. PICK v \in {"true", "false"} : ready' = [ready EXCEPT ![c] = Append(@, v)]
    BY <1>6 DEF RunReturns, Offer
  <2>3. /\ ready[c] \in Seq({"timer", "true", "false"})
        /\ ready'[c] = Append(ready[c], v)
    BY <2>0 DEF DaemonTypeOK
  <2>4. Len(ready'[c]) = Len(ready[c]) + 1 /\ Len(ready[c]) \in Nat
    BY <2>3
  <2>1. DaemonTypeOK'
    BY <1>6, <2>0 DEF RunReturns, DaemonTypeOK, Daemons
  <2>6. /\ Balanced(c) /\ spawn[c] = "running" /\ spawn'[c] = "over"
        /\ call' = call /\ timer' = timer
    BY <1>6 DEF RunReturns, DaemonTypeOK
  <2>2. Balanced(c)'
    <3>1. /\ One(spawn[c] = "over") = 0 /\ One(spawn'[c] = "over") = 1
          /\ One(timer[c] = "fired") \in Nat
      BY <2>6 DEF One
    <3>2. Len(ready[c]) + One(call[c] \in {"ready", "failed"}) = One(timer[c] = "fired")
      BY <2>6, <3>1 DEF Balanced
    <3>3. One(call[c] \in {"ready", "failed"}) \in Nat
      BY DEF One
    <3>4. Len(ready'[c]) + One(call'[c] \in {"ready", "failed"})
              = One(timer'[c] = "fired") + One(spawn'[c] = "over")
      BY <2>4, <2>6, <3>1, <3>2, <3>3
    <3> QED  BY <2>6, <3>4 DEF Balanced
  <2>5. ASSUME NEW d \in Callers, d # c PROVE Balanced(d)'
    BY <1>6, <2>5, Elsewise DEF RunReturns, Offer, DaemonTypeOK
  <2> QED  BY <2>1, <2>2, <2>5
<1>7. ASSUME NEW c \in Callers, Receive(c) PROVE DaemonInv'
  <2>0. ready[c] \in Seq({"timer", "true", "false"}) /\ ready[c] # <<>>
    BY <1>7 DEF Receive, DaemonTypeOK
  <2>1. Tail(ready[c]) \in Seq({"timer", "true", "false"}) /\ Len(Tail(ready[c])) = Len(ready[c]) - 1
    BY <2>0, HeadTailProperties
  <2>2. DaemonTypeOK'
    BY <1>7, <2>1 DEF Receive, DaemonTypeOK, Daemons
  <2>4. /\ ready'[c] = Tail(ready[c]) /\ call'[c] \in {"ready", "failed"}
        /\ call[c] = "waiting" /\ timer' = timer /\ spawn' = spawn
        /\ Balanced(c)
    BY <1>7 DEF Receive, DaemonTypeOK
  <2>6. Len(ready[c]) \in Nat
    BY <2>0
  <2>3. Balanced(c)'
    BY <2>1, <2>4, <2>6 DEF Balanced, One
  <2>5. ASSUME NEW d \in Callers, d # c PROVE Balanced(d)'
    BY <1>7, <2>5, Elsewise DEF Receive, DaemonTypeOK
  <2> QED  BY <2>2, <2>3, <2>5
<1>8. ASSUME NEW c \in Callers, CallerGone(c) PROVE DaemonInv'
  <2>1. DaemonTypeOK'
    BY <1>8 DEF CallerGone, Runs, DaemonTypeOK, Daemons
  <2>2. Balanced(c)'
    BY <1>8 DEF CallerGone, DaemonTypeOK, Balanced, One
  <2>5. ASSUME NEW d \in Callers, d # c PROVE Balanced(d)'
    <3>1. /\ ready'[d] = ready[d] /\ call'[d] = call[d]
          /\ timer'[d] = timer[d] /\ spawn'[d] = spawn[d]
      BY <1>8, <2>5 DEF CallerGone, DaemonTypeOK
    <3> QED  BY <2>5, <3>1, Elsewise
  <2> QED  BY <2>1, <2>2, <2>5
<1>9. CASE Host
  <2>1. UNCHANGED <<call, spawn, timer, ready>>
    BY <1>9 DEF Host, DaemonComes, DaemonFails, StartElsewhere
  <2> DEFINE Sane == /\ daemon' \in [Daemons -> {"none", "starting", "up", "failed", "ended"}]
                     /\ \A c \in Callers : daemon'[c] \in {"failed", "ended"} => spawn[c] = "running"
  <2>2. ASSUME NEW d \in Daemons, NEW s \in {"failed", "ended"}, DaemonOver(d, s) PROVE Sane
    BY <2>2 DEF DaemonOver, DaemonTypeOK, Daemons
  <2>3. ASSUME NEW d \in Daemons, NEW s \in {"starting", "up"}, daemon' = [daemon EXCEPT ![d] = s]
        PROVE  Sane
    BY <2>3 DEF DaemonTypeOK, Daemons
  <2>4. Elsewhere \in Daemons
    BY DEF Daemons
  <2> HIDE DEF Sane
  <2>5. Sane
    BY <1>9, <2>2, <2>3, <2>4 DEF Host, DaemonComes, DaemonFails, StartElsewhere
  <2>6. DaemonTypeOK'
    BY <2>1, <2>5 DEF Sane, DaemonTypeOK
  <2>7. \A c \in Callers : Balanced(c)'
    BY <2>1 DEF Balanced
  <2> QED  BY <2>6, <2>7
<1>10. CASE UNCHANGED daemonVars
  BY <1>10 DEF daemonVars, DaemonTypeOK, Balanced, One
<1> QED
  BY <1>1, <1>2, <1>3, <1>4, <1>5, <1>6, <1>7, <1>8, <1>9, <1>10
     DEF DaemonNext, Goroutines

-----------------------------------------------------------------------------
(* What the host does to the daemon and its callers. *)

LEMMA EndSeen ==
    ASSUME NEW p \in Procs, Ends(p)
    PROVE  [DaemonNext]_daemonVars
  BY DEF Ends, DaemonNext

\* Who is ended, is at an end.
LEMMA EndedBy ==
    ASSUME NEW p \in Procs, Kill(p) \/ StartPanics(p) \/ ConfigFails(p)
    PROVE  Ends(p) /\ UNCHANGED images
  BY DEF Kill, StartPanics, ConfigFails, EndsBy

LEMMA DaemonSees == PullNext => [DaemonNext]_daemonVars
<1> SUFFICES ASSUME PullNext PROVE [DaemonNext]_daemonVars
  OBVIOUS
<1>1. ASSUME NEW p \in Procs, Life(p) PROVE [DaemonNext]_daemonVars
  <2>1. CASE \E f \in Configs[p] : Launch(p, f)
    BY <2>1 DEF Launch
  <2>2. CASE Quit(p) \/ NewClientFails(p)
    BY <2>2, EndSeen DEF Quit, NewClientFails
  <2>3. CASE StartAgain(p) \/ Stop(p)
    BY <2>3 DEF StartAgain, Stop
  <2>4. CASE NewClient(p)
    BY <2>4 DEF NewClient, DaemonNext
  <2> QED  BY <1>1, <2>1, <2>2, <2>3, <2>4 DEF Life
<1>2. ASSUME NEW p \in Procs, Server(p) \/ Kill(p) PROVE [DaemonNext]_daemonVars
  <2>1. CASE StartReturns(p) \/ Register(p) \/ Listen(p)
    BY <2>1 DEF StartReturns, Register, Listen
  <2>2. CASE StartPanics(p) \/ ConfigFails(p) \/ Kill(p)
    BY <2>2, EndSeen, EndedBy
  <2>3. CASE CannotListen(p) \/ CertFails(p)
    BY <2>3, EndSeen DEF CannotListen, CertFails
  <2> QED  BY <1>2, <2>1, <2>2, <2>3 DEF Server
<1>3. ASSUME NEW t \in Threads, NEW r, Return(t, r) PROVE [DaemonNext]_daemonVars
  BY <1>3, EndSeen, ProcAssumption DEF Return
<1>4. ASSUME NEW t \in Threads, Puller(t) PROVE [DaemonNext]_daemonVars
  BY <1>3, <1>4 DEF Puller, Health, Manifest, Refused, Blobs
<1>5. ASSUME NEW t \in Threads, NEW n \in Cids, Pull(t, n) PROVE [DaemonNext]_daemonVars
  BY <1>5 DEF Pull
<1>6. ASSUME NEW q \in OtherPorts, OtherListens(q) PROVE [DaemonNext]_daemonVars
  BY <1>6 DEF OtherListens
<1> QED  BY <1>1, <1>2, <1>4, <1>5, <1>6 DEF PullNext, DaemonNext

-----------------------------------------------------------------------------
(* Types. *)

\* Everything but told and steady, which only Watch and Return write.
Placed ==
    /\ conf \in [Procs -> Programs \cup {None}]
    /\ \A p \in Procs : conf[p] \in Configs[p] \cup {None}
    /\ starts \in [Procs -> 0..MaxStarts]
    /\ stage \in [Procs -> {"none", "registered", "serving", "failed", "stopped"}]
    /\ held \in [Procs -> SUBSET Cids]
    /\ owner \in [Ports -> Procs \cup {None, Other}]
    /\ pc \in [Threads -> {"idle", "health", "manifest", "blobs"}]
    /\ name \in [Threads -> Cids \cup {None}]
    /\ images \subseteq Cids
    /\ Consistent

\* The ports of a program are ports.
LEMMA PortsKnown ==
    ASSUME NEW p \in Procs, NEW f \in Configs[p]
    PROVE  ListenPort(f) \in Ports /\ DialPort(f) \in Ports
<1>1. f.port \in Ports \cup {None}
  BY ConfigAssumption DEF Config
<1> QED  BY <1>1, PortAssumption DEF ListenPort, DialPort, ExtractPort

LEMMA EndPlaced ==
    ASSUME NEW p \in Procs, Placed, Ends(p), images' \subseteq Cids
    PROVE  Placed'
<1> USE ProcAssumption, OtherAssumption
<1>1. /\ conf' \in [Procs -> Programs \cup {None}]
      /\ \A q \in Procs : conf'[q] \in Configs[q] \cup {None}
  BY DEF Ends, Placed
<1>5. /\ starts' \in [Procs -> 0..MaxStarts]
      /\ stage' \in [Procs -> {"none", "registered", "serving", "failed", "stopped"}]
      /\ held' \in [Procs -> SUBSET Cids]
  BY StartsAssumption DEF Ends, Placed
<1>6. /\ owner' \in [Ports -> Procs \cup {None, Other}]
      /\ pc' \in [Threads -> {"idle", "health", "manifest", "blobs"}]
      /\ name' \in [Threads -> Cids \cup {None}]
  BY DEF Ends, Placed
<1>2. \A q \in Procs : conf'[q] = None =>
        stage'[q] = "none" /\ starts'[q] = 0 /\ held'[q] = {}
  BY DEF Ends, Placed, Consistent
<1>3. \A r \in Procs, q \in Ports :
        owner'[q] = r <=> stage'[r] = "serving" /\ q = ListenPort(conf'[r])
  BY DEF Ends, Placed, Consistent
<1>4. \A t \in Threads : pc'[t] # "idle" =>
        Is(ProcOf[t], {"pull", "library"})' /\ name'[t] \in Cids
  BY DEF Ends, Placed, Consistent, Is
<1> QED  BY <1>1, <1>2, <1>3, <1>4, <1>5, <1>6 DEF Placed, Consistent

LEMMA ReturnPlaced ==
    ASSUME NEW t \in Threads, NEW r, Placed, Return(t, r), images' \subseteq Cids
    PROVE  Placed'
<1>1. CASE Is(ProcOf[t], {"pull"}) /\ Ends(ProcOf[t])
  BY <1>1, EndPlaced, ProcAssumption
<1>2. CASE Is(ProcOf[t], {"library"}) /\ UNCHANGED conf
  BY <1>2, OtherAssumption DEF Return, Placed, Consistent, Is
<1> QED  BY <1>1, <1>2 DEF Return

LEMMA ServerPlaced ==
    ASSUME NEW p \in Procs, Placed, Server(p) \/ Kill(p)
    PROVE  Placed'
<1> USE StartsAssumption
<1>1. CASE StartReturns(p)
  BY <1>1 DEF StartReturns, Started, Placed, Consistent, Is
<1>2. CASE Register(p)
  BY <1>2 DEF Register, Placed, Consistent, Is
<1>3. CASE StartPanics(p) \/ ConfigFails(p) \/ Kill(p)
  BY <1>3, EndPlaced, EndedBy DEF Placed
<1>4. CASE Listen(p)
  <2>1. conf[p] # None /\ ListenPort(conf[p]) \in Ports
    BY <1>4, PortsKnown DEF Listen, Placed, Consistent
  <2>2. \A q \in Procs, l \in Ports :
          owner'[l] = q <=> stage'[q] = "serving" /\ l = ListenPort(conf'[q])
    BY <1>4, <2>1, OtherAssumption DEF Listen, Placed, Consistent
  <2>3. /\ owner' \in [Ports -> Procs \cup {None, Other}]
        /\ stage' \in [Procs -> {"none", "registered", "serving", "failed", "stopped"}]
    BY <1>4, <2>1 DEF Listen, Placed
  <2> QED  BY <1>4, <2>1, <2>2, <2>3 DEF Listen, Placed, Consistent, Is
<1>5. CASE CannotListen(p)
  <2>1. CASE Is(p, {"server"}) /\ Ends(p)
    BY <1>5, <2>1, EndPlaced DEF CannotListen, Placed
  <2>2. CASE ~(Is(p, {"server"}) /\ Ends(p))
    BY <1>5, <2>2 DEF CannotListen, Placed, Consistent, Is
  <2> QED  BY <2>1, <2>2
<1>6. CASE CertFails(p)
  BY <1>6, EndPlaced DEF CertFails, Placed
<1> QED  BY <1>1, <1>2, <1>3, <1>4, <1>5, <1>6 DEF Server

LEMMA LifePlaced ==
    ASSUME NEW p \in Procs, Placed, Life(p)
    PROVE  Placed'
<1> USE StartsAssumption
<1>1. ASSUME NEW f \in Configs[p], Launch(p, f) PROVE Placed'
  <2>1. f \in Programs /\ f # None
    BY NoneAssumption DEF Programs
  <2>2. stage[p] = "none" /\ starts[p] = 0 /\ held[p] = {}
    BY <1>1 DEF Launch, Placed, Consistent
  <2>3. \A q \in Procs, l \in Ports :
          owner'[l] = q <=> stage'[q] = "serving" /\ l = ListenPort(conf'[q])
    BY <1>1, <2>2 DEF Launch, Placed, Consistent
  <2>4. \A t \in Threads : pc'[t] # "idle" =>
          Is(ProcOf[t], {"pull", "library"})' /\ name'[t] \in Cids
    BY <1>1, ProcAssumption DEF Launch, Placed, Consistent, Is
  <2>5. /\ conf' \in [Procs -> Programs \cup {None}]
        /\ \A q \in Procs : conf'[q] \in Configs[q] \cup {None}
        /\ starts' \in [Procs -> 0..MaxStarts]
    BY <1>1, <2>1 DEF Launch, Placed
  <2>6. \A q \in Procs : conf'[q] = None =>
          stage'[q] = "none" /\ starts'[q] = 0 /\ held'[q] = {}
    BY <1>1, <2>1 DEF Launch, Placed, Consistent
  <2> QED  BY <1>1, <2>3, <2>4, <2>5, <2>6 DEF Launch, Placed, Consistent
<1>2. CASE Quit(p) \/ NewClientFails(p)
  BY <1>2, EndPlaced DEF Quit, NewClientFails, Placed
<1>3. CASE StartAgain(p)
  BY <1>3 DEF StartAgain, Placed, Consistent, Is
<1>4. CASE Stop(p)
  <2>1. conf[p] # None /\ ListenPort(conf[p]) \in Ports
    BY <1>4, PortsKnown DEF Stop, Is, Placed
  <2>2. \A q \in Procs, l \in Ports :
          owner'[l] = q <=> stage'[q] = "serving" /\ l = ListenPort(conf'[q])
    BY <1>4, <2>1, OtherAssumption DEF Stop, Placed, Consistent
  <2>3. /\ owner' \in [Ports -> Procs \cup {None, Other}]
        /\ stage' \in [Procs -> {"none", "registered", "serving", "failed", "stopped"}]
    BY <1>4, <2>1 DEF Stop, Placed
  <2> QED  BY <1>4, <2>1, <2>2, <2>3 DEF Stop, Placed, Consistent, Is
<1>5. CASE NewClient(p)
  BY <1>5 DEF NewClient, hostVars, Placed, Consistent, Is
<1> QED  BY <1>1, <1>2, <1>3, <1>4, <1>5 DEF Life

LEMMA PullerPlaced ==
    ASSUME NEW t \in Threads, Placed, Puller(t)
    PROVE  Placed'
<1>1. ProcOf[t] \in Procs
  BY ProcAssumption
<1>2. CASE Health(t)
  BY <1>1, <1>2, StartsAssumption DEF Health, Placed, Consistent, Is
<1>3. CASE Manifest(t)
  <2>1. /\ Asked(t) \in Ports
        /\ name[t] \in Cids
    BY <1>1, <1>3, PortsKnown DEF Manifest, Asked, Placed, Consistent, Is
  <2>2. PICK p \in Procs : p = owner[Asked(t)] /\ stage[p] = "serving"
    BY <1>3, <2>1 DEF Manifest, HasManifest, Placed, Consistent
  <2>3. held' = [held EXCEPT ![p] = @ \cup {name[t]}] /\ conf[p] # None
    BY <1>3, <2>2 DEF Manifest, Placed, Consistent
  <2>4. \A q \in Procs : conf'[q] = None =>
          stage'[q] = "none" /\ starts'[q] = 0 /\ held'[q] = {}
    BY <1>3, <2>3 DEF Manifest, Placed, Consistent
  <2>5. held' \in [Procs -> SUBSET Cids]
    BY <2>1, <2>3 DEF Placed
  <2>6. \A u \in Threads : pc'[u] # "idle" =>
          Is(ProcOf[u], {"pull", "library"})' /\ name'[u] \in Cids
    BY <1>3 DEF Manifest, Placed, Consistent, Is
  <2> QED  BY <1>3, <2>4, <2>5, <2>6 DEF Manifest, Placed, Consistent
<1>4. CASE Refused(t)
  BY <1>4, ReturnPlaced DEF Refused, Placed
<1>5. CASE Blobs(t)
  <2>1. images' \subseteq Cids
    BY <1>5 DEF Blobs, Placed, Consistent
  <2> QED  BY <1>5, <2>1, ReturnPlaced DEF Blobs
<1> QED  BY <1>2, <1>3, <1>4, <1>5 DEF Puller

LEMMA PlacedKept ==
    ASSUME Placed, [PullNext]_pullVars
    PROVE  Placed'
<1>1. ASSUME NEW t \in Threads, NEW n \in Cids, Pull(t, n) PROVE Placed'
  BY <1>1 DEF Pull, Placed, Consistent, Is
<1>2. ASSUME NEW q \in OtherPorts, OtherListens(q) PROVE Placed'
  <2>1. q \in Ports
    BY PortAssumption
  <2> QED  BY <1>2, <2>1, OtherAssumption DEF OtherListens, Placed, Consistent, Is
<1>3. CASE UNCHANGED hostVars
  BY <1>3 DEF hostVars, Placed, Consistent, Is
<1>4. CASE UNCHANGED pullVars
  BY <1>3, <1>4 DEF pullVars
<1> QED
  BY <1>1, <1>2, <1>3, <1>4, LifePlaced, ServerPlaced, PullerPlaced DEF PullNext

\* A pull that returns is that of the thread that says so.
LEMMA TellsOf ==
    ASSUME NEW t \in Threads, Puller(t)
    PROVE  told' \in {None, [by |-> t, what |-> "tag"], [by |-> t, what |-> "error"]}
  BY DEF Puller, Refused, Blobs, Return

Tellings ==
    [by : Threads, what : {"tag", "error"}]
        \cup [by : Procs, what : {"killed", "panic", "fatal"}] \cup {None}

LEMMA HistoryTyped ==
    ASSUME PullNext
    PROVE  told' \in Tellings /\ steady' \in [Threads -> BOOLEAN]
<1>1. ASSUME NEW p \in Procs, Server(p) \/ Kill(p) PROVE told' \in Tellings
  BY <1>1 DEF Server, StartPanics, ConfigFails, Kill, EndsBy, Tellings
<1>2. ASSUME NEW t \in Threads, Puller(t) PROVE told' \in Tellings
  BY <1>2, TellsOf DEF Tellings
<1>3. None \in Tellings
  BY DEF Tellings
<1>4. Watch
  BY DEF PullNext, Quiet
<1>5. told' \in Tellings
  BY <1>1, <1>2, <1>3 DEF PullNext, Quiet
<1>6. steady' \in [Threads -> BOOLEAN]
  <2> DEFINE Now(t) == /\ pc'[t] # "idle" /\ SourceOf(t)'
                       /\ \/ steady[t]
                          \/ pc[t] = "idle"
                          \/ pc[t] = "manifest" /\ pc'[t] = "blobs"
  <2>1. \A t \in Threads : Now(t) \in BOOLEAN
    OBVIOUS
  <2>2. steady' = [t \in Threads |-> Now(t)]
    BY <1>4 DEF Watch
  <2> HIDE DEF Now
  <2> QED  BY <2>1, <2>2
<1> QED  BY <1>5, <1>6

HostInv == DaemonInv /\ TypeOK

LEMMA HostStarts == PullInit => HostInv
<1> SUFFICES ASSUME PullInit PROVE HostInv
  OBVIOUS
<1>1. DaemonInv
  BY DaemonStarts DEF PullInit
<1>2. HostTypeOK /\ Consistent
  BY OtherAssumption, StartsAssumption DEF PullInit, HostTypeOK, Consistent
<1> QED  BY <1>1, <1>2 DEF HostInv, TypeOK, DaemonInv

LEMMA HostKeeps ==
    ASSUME HostInv, [PullNext]_pullVars
    PROVE  HostInv'
<1>1. DaemonInv'
  BY DaemonSees, DaemonKeeps DEF HostInv, pullVars
<1>2. Placed'
  BY PlacedKept DEF HostInv, TypeOK, HostTypeOK, Placed
<1>3. told' \in Tellings /\ steady' \in [Threads -> BOOLEAN]
  BY HistoryTyped DEF HostInv, TypeOK, HostTypeOK, Tellings, pullVars
<1> QED  BY <1>1, <1>2, <1>3 DEF HostInv, DaemonInv, TypeOK, HostTypeOK, Tellings, Placed

LEMMA HostAlways == PullSpec => []HostInv
  BY HostStarts, HostKeeps, PTL DEF PullSpec

\* The types, and that they fit: nothing is left of a process that has ended,
\* a port is its server's, and the server is where NewServer put it.
THEOREM HostTypes == PullSpec => []TypeOK
<1>1. HostInv => TypeOK
  BY DEF HostInv
<1> QED  BY <1>1, HostAlways, PTL

-----------------------------------------------------------------------------
(* RunDaemon, in the programs of ImagePull. *)

\* What the programs do with RunDaemon is what IpfsDaemon lets its callers do.
THEOREM DaemonIsRun == PullSpec => DaemonSpec
<1>1. PullInit => DaemonInit
  BY DEF PullInit
<1>2. [PullNext]_pullVars => [DaemonNext]_daemonVars
  BY DaemonSees DEF pullVars
<1> QED  BY <1>1, <1>2, PTL DEF PullSpec, PullFairness, DaemonSpec

\* What a call that has returned is still sent has been sent by its timer, or by
\* its goroutine after its timer.
LEMMA LeftOver ==
    ASSUME DaemonInv, NEW c \in Callers, call[c] \in {"ready", "failed"}
    PROVE  /\ Len(ready[c]) \in {0, 1}
           /\ timer[c] # "fired" => Len(ready[c]) = 0
<1>1. Len(ready[c]) + 1 = One(timer[c] = "fired") + One(spawn[c] = "over")
  BY DEF DaemonInv, Balanced, One
<1>2. PICK n \in Nat : n = Len(ready[c])
  BY DEF DaemonInv, DaemonTypeOK
<1>3. PICK a \in {0, 1} : a = One(timer[c] = "fired")
  BY DEF One
<1>4. PICK b \in {0, 1} : b = One(spawn[c] = "over")
  BY DEF One
<1>5. timer[c] # "fired" => a = 0
  BY <1>3 DEF One
<1>6. n + 1 = a + b
  BY <1>1, <1>2, <1>3, <1>4
<1>7. n \in {0, 1} /\ (a = 0 => n = 0)
  BY <1>6
<1> QED  BY <1>2, <1>5, <1>7

\* A daemon that fails is an error for the caller who started it (ipfs.go
\* 292-297), unless the ten seconds were over before.
THEOREM FailuresTold == PullSpec => []FailureTold
<1>1. HostInv => FailureTold
  <2> SUFFICES ASSUME HostInv, NEW c \in Callers, NEW i \in DOMAIN ready[c], call[c] = "ready"
               PROVE  timer[c] = "fired"
    BY DEF FailureTold
  <2>1. ready[c] \in Seq({"timer", "true", "false"})
    BY DEF HostInv, DaemonInv, DaemonTypeOK
  <2>2. Len(ready[c]) # 0
    BY <2>1
  <2> QED  BY <2>2, LeftOver DEF HostInv, DaemonInv
<1> QED  BY <1>1, HostAlways, PTL

\* Of the goroutines of a call at most one stays behind at the channel, and none
\* if pgrep saw a daemon to begin with (ipfs.go 286-300, 273).
THEOREM AtMostOneLeft == PullSpec => []OneLeft
<1>1. HostInv => OneLeft
  <2> SUFFICES ASSUME HostInv, NEW c \in Callers, call[c] \in {"ready", "failed"}
               PROVE  Len(ready[c]) <= 1 /\ (timer[c] = "none" => ready[c] = <<>>)
    BY DEF OneLeft
  <2>1. ready[c] \in Seq({"timer", "true", "false"})
    BY DEF HostInv, DaemonInv, DaemonTypeOK
  <2>2. Len(ready[c]) = 0 => ready[c] = <<>>
    BY <2>1
  <2>3. Len(ready[c]) \in {0, 1} /\ (timer[c] # "fired" => Len(ready[c]) = 0)
    BY LeftOver DEF HostInv
  <2>4. PICK n \in {0, 1} : n = Len(ready[c])
    BY <2>3
  <2>5. Len(ready[c]) <= 1
    <3>1. n <= 1
      OBVIOUS
    <3> QED  BY <2>4, <3>1, Zenon
  <2>6. CASE timer[c] = "none"
    BY <2>2, <2>3, <2>6
  <2> QED  BY <2>5, <2>6
<1> QED  BY <1>1, HostAlways, PTL

-----------------------------------------------------------------------------
(* One start. *)

\* An `ipdr pull` that has not asked for its health has no server.
NotYet ==
    \A t \in Threads : Is(ProcOf[t], {"pull"}) /\ pc[t] \in {"idle", "health"} =>
        starts[ProcOf[t]] = 0 /\ stage[ProcOf[t]] = "none"

OnceInv == OneStart /\ NotYet

LEMMA EndOnce ==
    ASSUME NEW p \in Procs, Placed, OnceInv, Ends(p)
    PROVE  OnceInv'
<1>1. OneStart'
  BY DEF Ends, OnceInv, OneStart, Is, Placed
<1>2. NotYet'
  BY DEF Ends, OnceInv, NotYet, Is, Placed
<1> QED  BY <1>1, <1>2 DEF OnceInv

LEMMA ServerOnce ==
    ASSUME NEW p \in Procs, Placed, OnceInv, Server(p) \/ Kill(p)
    PROVE  OnceInv'
<1> USE StartsAssumption
<1>1. CASE StartReturns(p)
  BY <1>1 DEF StartReturns, Started, OnceInv, OneStart, NotYet, Is, Placed
<1>2. CASE Register(p)
  <2>1. OneStart'
    BY <1>2 DEF Register, OnceInv, OneStart, Is, Placed
  <2>2. NotYet'
    BY <1>2 DEF Register, OnceInv, NotYet, Is, Placed
  <2> QED  BY <2>1, <2>2 DEF OnceInv
<1>3. CASE StartPanics(p) \/ ConfigFails(p) \/ Kill(p)
  BY <1>3, EndOnce, EndedBy
<1>4. CASE Listen(p)
  BY <1>4 DEF Listen, OnceInv, OneStart, NotYet, Is, Placed
<1>5. CASE CannotListen(p)
  <2>1. CASE Ends(p)
    BY <2>1, EndOnce
  <2>2. CASE ~Ends(p)
    <3>1. /\ stage[p] # "none" /\ stage' = [stage EXCEPT ![p] = "failed"]
          /\ UNCHANGED <<conf, starts, pc>>
      BY <1>5, <2>2 DEF CannotListen
    <3>2. OneStart'
      BY <3>1 DEF OnceInv, OneStart, Is, Placed
    <3>3. NotYet'
      BY <3>1 DEF OnceInv, NotYet, Is, Placed
    <3> QED  BY <3>2, <3>3 DEF OnceInv
  <2> QED  BY <2>1, <2>2
<1>6. CASE CertFails(p)
  BY <1>6, EndOnce DEF CertFails
<1> QED  BY <1>1, <1>2, <1>3, <1>4, <1>5, <1>6 DEF Server

LEMMA LifeOnce ==
    ASSUME NEW p \in Procs, Placed, OnceInv, Life(p)
    PROVE  OnceInv'
<1> USE StartsAssumption
<1>1. ASSUME NEW f \in Configs[p], Launch(p, f) PROVE OnceInv'
  <2>1. stage[p] = "none" /\ starts[p] = 0
    BY <1>1 DEF Launch, Placed, Consistent
  <2>2. OneStart'
    BY <1>1, <2>1 DEF Launch, OnceInv, OneStart, Is, Placed
  <2>3. NotYet'
    BY <1>1, <2>1 DEF Launch, OnceInv, NotYet, Is, Placed
  <2> QED  BY <2>2, <2>3 DEF OnceInv
<1>2. CASE Quit(p) \/ NewClientFails(p)
  BY <1>2, EndOnce DEF Quit, NewClientFails
<1>3. CASE StartAgain(p)
  BY <1>3 DEF StartAgain, OnceInv, OneStart, NotYet, Is, Placed
<1>4. CASE Stop(p)
  BY <1>4 DEF Stop, OnceInv, OneStart, NotYet, Is, Placed
<1>5. CASE NewClient(p)
  BY <1>5 DEF NewClient, hostVars, OnceInv, OneStart, NotYet, Is
<1> QED  BY <1>1, <1>2, <1>3, <1>4, <1>5 DEF Life

\* Here it matters that an `ipdr pull` has one thread.
LEMMA HealthOnce ==
    ASSUME NEW t \in Threads, Placed, OnceInv, Health(t)
    PROVE  OnceInv'
<1> USE ProcAssumption, StartsAssumption DEF Health
<1>1. \A p \in Procs : p # ProcOf[t] => starts'[p] = starts[p]
  BY DEF Placed
<1>2. conf' = conf /\ stage' = stage /\ pc[t] = "health" /\ pc' = [pc EXCEPT ![t] = "manifest"]
  OBVIOUS
<1>3. CASE Is(ProcOf[t], {"pull"})
  <2>1. conf[ProcOf[t]] \in Configs[ProcOf[t]] /\ conf[ProcOf[t]].kind = "pull"
    BY <1>3 DEF Is, Placed
  <2>2. \A u \in Threads : ProcOf[u] = ProcOf[t] => u = t
    BY <2>1, SinglePull
  <2>3. starts[ProcOf[t]] = 0 /\ stage[ProcOf[t]] = "none"
    BY <1>2, <1>3 DEF OnceInv, NotYet
  <2>4. starts'[ProcOf[t]] \in {0, 1}
    BY <2>3 DEF Placed
  <2>5. OneStart'
    BY <1>1, <1>2, <2>3, <2>4 DEF OnceInv, OneStart, Is, Placed
  <2>6. NotYet'
    <3>1. \A u \in Threads : u # t => ProcOf[u] # ProcOf[t] /\ pc'[u] = pc[u]
      BY <1>2, <2>2 DEF Placed
    <3>2. pc'[t] = "manifest"
      BY <1>2 DEF Placed
    <3> QED  BY <1>1, <1>2, <3>1, <3>2 DEF OnceInv, NotYet, Is
  <2> QED  BY <2>5, <2>6 DEF OnceInv
<1>4. CASE ~Is(ProcOf[t], {"pull"})
  <2>1. ~Is(ProcOf[t], {"pull", "server"})
    BY <1>2, <1>4 DEF Placed, Consistent, Is
  <2>2. OneStart'
    BY <1>1, <1>2, <2>1 DEF OnceInv, OneStart, Is, Placed
  <2>3. NotYet'
    <3>1. ASSUME NEW u \in Threads, Is(ProcOf[u], {"pull"})' PROVE ProcOf[u] # ProcOf[t] /\ u # t
      BY <1>2, <1>4, <3>1 DEF Is
    <3>2. \A u \in Threads : u # t => pc'[u] = pc[u]
      BY <1>2 DEF Placed
    <3> QED  BY <1>1, <1>2, <3>1, <3>2 DEF OnceInv, NotYet, Is
  <2> QED  BY <2>2, <2>3 DEF OnceInv
<1> QED  BY <1>3, <1>4

LEMMA PullerOnce ==
    ASSUME NEW t \in Threads, Placed, OnceInv, Puller(t)
    PROVE  OnceInv'
<1>1. ASSUME NEW r, Return(t, r) PROVE OnceInv'
  <2>1. CASE Ends(ProcOf[t])
    BY <2>1, EndOnce, ProcAssumption
  <2>2. CASE ~Ends(ProcOf[t])
    BY <1>1, <2>2 DEF Return, OnceInv, OneStart, NotYet, Is, Placed
  <2> QED  BY <2>1, <2>2
<1>2. CASE Manifest(t)
  BY <1>2 DEF Manifest, OnceInv, OneStart, NotYet, Is, Placed
<1> QED  BY <1>1, <1>2, HealthOnce DEF Puller, Refused, Blobs

LEMMA OnceKept ==
    ASSUME Placed, OnceInv, [PullNext]_pullVars
    PROVE  OnceInv'
<1>1. ASSUME NEW t \in Threads, NEW n \in Cids, Pull(t, n) PROVE OnceInv'
  BY <1>1 DEF Pull, OnceInv, OneStart, NotYet, Is, Placed
<1>2. ASSUME NEW q \in OtherPorts, OtherListens(q) PROVE OnceInv'
  BY <1>2 DEF OtherListens, OnceInv, OneStart, NotYet, Is
<1>3. CASE UNCHANGED hostVars
  BY <1>3 DEF hostVars, OnceInv, OneStart, NotYet, Is
<1>4. CASE UNCHANGED pullVars
  BY <1>3, <1>4 DEF pullVars
<1> QED
  BY <1>1, <1>2, <1>3, <1>4, LifeOnce, ServerOnce, PullerOnce DEF PullNext

LEMMA OnceAlways == PullSpec => []OnceInv
<1>1. PullInit => OnceInv
  BY ProcAssumption DEF PullInit, OnceInv, OneStart, NotYet, Is
<1>2. HostInv /\ OnceInv /\ [PullNext]_pullVars => OnceInv'
  BY OnceKept DEF HostInv, TypeOK, HostTypeOK, Placed
<1> QED  BY <1>1, <1>2, HostAlways, PTL DEF PullSpec

\* `ipdr pull` and `ipdr server` start one server in their lifetime, so that they
\* never run into the panic of a second registration (server.go 79).
THEOREM NeverTwice == PullSpec => []OneStart
<1>1. OnceInv => OneStart
  BY DEF OnceInv
<1> QED  BY <1>1, OnceAlways, PTL

-----------------------------------------------------------------------------
(* Programs that wait for a daemon. *)

\* Only a program that pulls as a library calls NewClient, before anything else.
ClientInv ==
    \A c \in Callers : call[c] # "none" =>
        /\ Is(c, {"library"})
        /\ Daemonless(c) => /\ starts[c] = 0 /\ stage[c] = "none"
                            /\ \A t \in Threads : ProcOf[t] = c => pc[t] = "idle"

LEMMA EndOfClient ==
    ASSUME NEW p \in Procs, Placed, DaemonTypeOK, ClientInv, Ends(p)
    PROVE  ClientInv'
<1> USE CallerAssumption
<1>1. ASSUME NEW c \in Callers, c # p
      PROVE  /\ call'[c] = call[c] /\ conf'[c] = conf[c]
             /\ starts'[c] = starts[c] /\ stage'[c] = stage[c]
             /\ \A t \in Threads : ProcOf[t] = c => pc'[t] = pc[t]
  BY <1>1 DEF Ends, CallerGone, daemonVars, Placed, DaemonTypeOK
<1>2. p \in Callers => call'[p] = "none"
  BY DEF Ends, CallerGone, DaemonTypeOK
<1> QED  BY <1>1, <1>2 DEF ClientInv, Daemonless, Is

\* What the others do is nothing to a program that waits.
LEMMA ClientFrame ==
    ASSUME ClientInv, UNCHANGED conf,
           \A c \in Callers : call'[c] = call[c],
           \A c \in Callers : Is(c, {"library"}) /\ Daemonless(c) =>
               /\ starts'[c] = 0 /\ stage'[c] = "none"
               /\ \A t \in Threads : ProcOf[t] = c => pc'[t] = "idle"
    PROVE  ClientInv'
  BY DEF ClientInv, Daemonless, Is

LEMMA ClientKept ==
    ASSUME Placed, DaemonTypeOK, ClientInv, [PullNext]_pullVars
    PROVE  ClientInv'
<1> USE CallerAssumption, ProcAssumption
<1> DEFINE Waits(c) == Is(c, {"library"}) /\ Daemonless(c)
<1>1. \A c \in Callers : Waits(c) =>
        /\ starts[c] = 0 /\ stage[c] = "none"
        /\ \A t \in Threads : ProcOf[t] = c => pc[t] = "idle"
  BY DEF ClientInv, Daemonless
<1>2. ASSUME UNCHANGED <<conf, starts, stage, pc, call>> PROVE ClientInv'
  BY <1>1, <1>2, ClientFrame
<1>3. ASSUME NEW p \in Procs, Life(p) PROVE ClientInv'
  <2>1. ASSUME NEW f \in Configs[p], Launch(p, f) PROVE ClientInv'
    <3>1. p \in Callers => call[p] = "none"
      BY <2>1 DEF Launch, ClientInv, Is
    <3> QED  BY <2>1, <3>1 DEF Launch, daemonVars, Placed, ClientInv, Daemonless, Is
  <2>2. CASE Quit(p) \/ NewClientFails(p)
    BY <2>2, EndOfClient DEF Quit, NewClientFails
  <2>3. CASE StartAgain(p) \/ Stop(p)
    <3>1. ~Is(p, {"library"}) /\ UNCHANGED <<conf, pc, call>>
      BY <2>3 DEF StartAgain, Stop, Is, daemonVars
    <3>2. \A c \in Callers : c # p => starts'[c] = starts[c] /\ stage'[c] = stage[c]
      BY <2>3 DEF StartAgain, Stop, Placed
    <3> QED  BY <1>1, <3>1, <3>2, ClientFrame
  <2>4. CASE NewClient(p)
    BY <2>4 DEF NewClient, RunDaemon, hostVars, DaemonTypeOK, ClientInv, Daemonless, Is
  <2> QED  BY <1>3, <2>1, <2>2, <2>3, <2>4 DEF Life
<1>4. ASSUME NEW p \in Procs, Server(p) \/ Kill(p) PROVE ClientInv'
  <2>1. CASE Ends(p)
    BY <2>1, EndOfClient
  <2>2. CASE ~Ends(p)
    <3>1. starts[p] > 0 \/ stage[p] = "registered"
      BY <1>4, <2>2, EndedBy DEF Server, StartReturns, Register, Listen, CannotListen, CertFails
    <3>2. /\ UNCHANGED <<conf, pc, call>>
          /\ \A c \in Callers : c # p => starts'[c] = starts[c] /\ stage'[c] = stage[c]
      BY <1>4, <2>2, EndedBy
         DEF Server, StartReturns, Register, Listen, CannotListen, CertFails, Placed, daemonVars
    <3>3. ~(p \in Callers /\ Waits(p))
      BY <1>1, <3>1
    <3> QED  BY <1>1, <3>2, <3>3, ClientFrame
  <2> QED  BY <2>1, <2>2
<1>5. ASSUME NEW t \in Threads, Puller(t) PROVE ClientInv'
  <2>1. pc[t] # "idle"
    BY <1>5 DEF Puller, Health, Manifest, Refused, Blobs
  <2>2. ~(ProcOf[t] \in Callers /\ Waits(ProcOf[t]))
    BY <1>1, <2>1
  <2>3. CASE Ends(ProcOf[t])
    BY <2>3, EndOfClient
  <2>4. CASE ~Ends(ProcOf[t])
    <3>1. /\ UNCHANGED <<conf, stage, call>>
          /\ \A p \in Procs : p # ProcOf[t] => starts'[p] = starts[p]
          /\ \A u \in Threads : u # t => pc'[u] = pc[u]
      BY <1>5, <2>4 DEF Puller, Health, Manifest, Refused, Blobs, Return, Placed, daemonVars
    <3> QED  BY <1>1, <2>2, <3>1, ClientFrame
  <2> QED  BY <2>3, <2>4
<1>6. ASSUME NEW t \in Threads, NEW n \in Cids, Pull(t, n) PROVE ClientInv'
  <2>1. /\ ~Daemonless(ProcOf[t]) /\ UNCHANGED <<conf, starts, stage, call>>
        /\ \A u \in Threads : u # t => pc'[u] = pc[u]
    BY <1>6 DEF Pull, Placed, daemonVars
  <2> QED  BY <1>1, <2>1, ClientFrame
<1>7. ASSUME NEW c \in Callers, Goroutines(c), UNCHANGED hostVars PROVE ClientInv'
  <2>1. \A d \in Callers : /\ call'[d] # "none" => call[d] # "none"
                           /\ Daemonless(d)' => Daemonless(d)
    BY <1>7 DEF Goroutines, Found, NotFound, StartDaemon, Timeout, RunReturns, Receive,
         DaemonTypeOK, Daemonless
  <2> QED  BY <1>7, <2>1 DEF hostVars, ClientInv, Is
<1>8. CASE Host /\ UNCHANGED hostVars
  BY <1>2, <1>8 DEF Host, DaemonComes, DaemonFails, StartElsewhere, hostVars
<1>9. ASSUME NEW q \in OtherPorts, OtherListens(q) PROVE ClientInv'
  BY <1>2, <1>9 DEF OtherListens, daemonVars
<1>10. CASE UNCHANGED pullVars
  BY <1>2, <1>10 DEF pullVars, hostVars, daemonVars
<1> QED
  BY <1>3, <1>4, <1>5, <1>6, <1>7, <1>8, <1>9, <1>10 DEF PullNext

LEMMA ClientAlways == PullSpec => []ClientInv
<1>1. PullInit => ClientInv
  BY DEF PullInit, DaemonInit, ClientInv
<1>2. HostInv /\ ClientInv /\ [PullNext]_pullVars => ClientInv'
  BY ClientKept DEF HostInv, TypeOK, HostTypeOK, Placed
<1> QED  BY <1>1, <1>2, HostAlways, PTL DEF PullSpec

HostPlaced == Placed /\ OnceInv /\ ClientInv

LEMMA PlacedAlways == PullSpec => []HostPlaced
<1>1. HostInv /\ OnceInv /\ ClientInv => HostPlaced
  BY DEF HostInv, TypeOK, HostTypeOK, Placed, HostPlaced
<1> QED  BY <1>1, HostAlways, OnceAlways, ClientAlways, PTL

-----------------------------------------------------------------------------
(* What a pull says. *)

\* What is steady is there.
SteadyInv == \A t \in Threads : steady[t] => SourceOf(t)

LEMMA WatchSteady == Watch => SteadyInv'
  BY DEF Watch, SteadyInv

LEMMA SteadyAlways == PullSpec => []SteadyInv
<1>1. PullInit => SteadyInv
  BY DEF PullInit, SteadyInv
<1>2. PullNext => Watch
  BY DEF PullNext, Quiet
<1>3. SteadyInv /\ UNCHANGED pullVars => SteadyInv'
  BY DEF SteadyInv, SourceOf, Asked, GatewayUp, pullVars, hostVars, daemonVars
<1> QED  BY <1>1, <1>2, <1>3, WatchSteady, PTL DEF PullSpec

\* A pull that had what it asked for is over.
Over(t) == steady[t] /\ pc[t] # "idle" /\ pc'[t] = "idle"

\* How that may be.
Word(t) ==
    \/ told' = [by |-> t, what |-> "tag"] /\ name[t] \in images'
    \/ told' \in [by : {ProcOf[t]}, what : {"killed", "fatal"}]
    \/ told' = [by |-> ProcOf[t], what |-> "panic"] /\ Is(ProcOf[t], {"library"})

\* The process that ends is that of the pull.
LEMMA OverOf ==
    ASSUME NEW p \in Procs, NEW t \in Threads, Placed, Ends(p), Over(t)
    PROVE  ProcOf[t] = p /\ Is(p, {"pull", "library"})
  BY DEF Ends, Over, Placed, Consistent

LEMMA OverInLife ==
    ASSUME NEW p \in Procs, NEW t \in Threads, HostPlaced, Over(t)
    PROVE  ~Life(p)
<1>1. ASSUME NEW f \in Configs[p], Launch(p, f) PROVE FALSE
  BY <1>1 DEF Launch, Over
<1>2. CASE Quit(p)
  BY <1>2, OverOf DEF Quit, Over, HostPlaced
<1>3. CASE NewClientFails(p)
  <2>1. ProcOf[t] = p /\ p \in Callers /\ call[p] = "failed"
    BY <1>3, OverOf DEF NewClientFails, HostPlaced
  <2>2. Daemonless(p)
    BY <2>1 DEF Daemonless
  <2> QED  BY <2>1, <2>2 DEF HostPlaced, ClientInv, Over
<1>4. CASE StartAgain(p) \/ Stop(p) \/ NewClient(p)
  BY <1>4 DEF StartAgain, Stop, NewClient, hostVars, Over
<1> QED  BY <1>1, <1>2, <1>3, <1>4 DEF Life

LEMMA OverWithServers ==
    ASSUME NEW p \in Procs, NEW t \in Threads, HostPlaced, Over(t), Server(p) \/ Kill(p)
    PROVE  Word(t)
<1>1. CASE Kill(p) \/ ConfigFails(p)
  <2>1. ProcOf[t] = p
    BY <1>1, OverOf, EndedBy DEF HostPlaced
  <2>2. told' = [by |-> p, what |-> "killed"] \/ told' = [by |-> p, what |-> "fatal"]
    BY <1>1 DEF Kill, ConfigFails, EndsBy
  <2> QED  BY <2>1, <2>2 DEF Word
<1>2. CASE StartPanics(p)
  <2>1. ProcOf[t] = p /\ Is(p, {"pull", "library"}) /\ told' = [by |-> p, what |-> "panic"]
    BY <1>2, OverOf, EndedBy DEF StartPanics, EndsBy, HostPlaced
  <2>2. ~Is(p, {"pull"})
    BY <1>2 DEF StartPanics, HostPlaced, OnceInv, OneStart, Is, Placed
  <2> QED  BY <2>1, <2>2 DEF Word, Is
<1>3. CASE CertFails(p) \/ (CannotListen(p) /\ Ends(p))
  <2>1. Ends(p)
    BY <1>3 DEF CertFails
  <2>2. Is(p, {"pull", "library"})
    BY <2>1, OverOf DEF HostPlaced
  <2>3. stage[p] # "failed" /\ Is(p, {"server"})
    <3>1. CASE CertFails(p)
      BY <2>2, <3>1, ConfigAssumption DEF CertFails, HostPlaced, Placed, Is
    <3>2. CASE CannotListen(p) /\ ~Is(p, {"server"})
      BY <3>2 DEF CannotListen, Over
    <3>3. CASE CannotListen(p) /\ Is(p, {"server"})
      BY <3>3 DEF CannotListen
    <3> QED  BY <1>3, <3>1, <3>2, <3>3
  <2> QED  BY <2>2, <2>3 DEF Is
<1>4. CASE StartReturns(p) \/ Register(p) \/ Listen(p) \/ (CannotListen(p) /\ ~Ends(p))
  BY <1>4 DEF StartReturns, Register, Listen, CannotListen, Over
<1> QED  BY <1>1, <1>2, <1>3, <1>4 DEF Server

\* Here it matters that an `ipdr pull` has one thread.
LEMMA OverWithPulls ==
    ASSUME NEW u \in Threads, NEW t \in Threads, HostPlaced, SteadyInv, Over(t), Puller(u)
    PROVE  Word(t)
<1>1. ASSUME NEW r, Return(u, r) PROVE t = u
  <2>1. CASE Is(ProcOf[u], {"pull"}) /\ Ends(ProcOf[u])
    <3>1. ProcOf[t] = ProcOf[u]
      BY <2>1, OverOf, ProcAssumption DEF HostPlaced
    <3>2. conf[ProcOf[u]] \in Configs[ProcOf[u]] /\ conf[ProcOf[u]].kind = "pull"
      BY <2>1, ProcAssumption DEF HostPlaced, Placed, Is
    <3> QED  BY <3>1, <3>2, SinglePull, ProcAssumption
  <2>2. CASE pc' = [pc EXCEPT ![u] = "idle"]
    BY <2>2 DEF Over, HostPlaced, Placed
  <2> QED  BY <1>1, <2>1, <2>2 DEF Return
<1>2. SourceOf(t)
  BY DEF SteadyInv, Over
<1>3. CASE Health(u) \/ Manifest(u)
  BY <1>3 DEF Health, Manifest, Over, HostPlaced, Placed
<1>4. CASE Refused(u)
  BY <1>1, <1>2, <1>4 DEF Refused, HasManifest, SourceOf
<1>5. CASE Blobs(u)
  <2>1. t = u /\ told' = [by |-> t, what |-> "tag"]
    BY <1>1, <1>5 DEF Blobs, Return
  <2> QED  BY <1>2, <1>5, <2>1 DEF Blobs, Word
<1> QED  BY <1>3, <1>4, <1>5 DEF Puller

\* A pull that has found a server and a daemon, and that they stay, gets the image,
\* whatever becomes of the servers it starts in vain; unless its process is killed
\* or such a server ends it (registry/registry.go 162-174, 195-211).
THEOREM PullKeepsWord == PullSpec => PullHolds
<1>1. ASSUME HostPlaced, SteadyInv, PullNext, NEW t \in Threads, Over(t) PROVE Word(t)
  <2>1. UNCHANGED pc => Word(t)
    BY <1>1 DEF Over
  <2>2. ASSUME NEW u \in Threads, NEW n \in Cids, Pull(u, n) PROVE Word(t)
    BY <1>1, <2>2 DEF Pull, Over, HostPlaced, Placed
  <2>3. ASSUME NEW q \in OtherPorts, OtherListens(q) PROVE Word(t)
    BY <2>1, <2>3 DEF OtherListens
  <2> QED
    BY <1>1, <2>1, <2>2, <2>3, OverInLife, OverWithServers, OverWithPulls DEF PullNext, hostVars
<1>2. ASSUME HostPlaced, SteadyInv, [PullNext]_pullVars
      PROVE  [\A t \in Threads : steady[t] /\ pc[t] # "idle" /\ pc'[t] = "idle" =>
                \/ told' = [by |-> t, what |-> "tag"] /\ name[t] \in images'
                \/ told' \in [by : {ProcOf[t]}, what : {"killed", "fatal"}]
                \/ told' = [by |-> ProcOf[t], what |-> "panic"] /\ Is(ProcOf[t], {"library"})]_pullVars
  BY <1>1, <1>2 DEF Over, Word
<1> QED  BY <1>2, PlacedAlways, SteadyAlways, PTL DEF PullSpec, PullHolds

-----------------------------------------------------------------------------
(* Whoever serves goes on. *)

Stays(p) ==
    /\ conf'[p] = conf[p]
    /\ stage'[p] = "serving"
    /\ owner'[ListenPort(conf[p])] = p

\* How else it may be.
Leaves(p) ==
    \/ told' = [by |-> p, what |-> "killed"]
    \/ Is(p, {"pull"}) /\ told' \in [by : {t \in Threads : ProcOf[t] = p}, what : {"tag", "error"}]
    \/ Is(p, {"embed", "library"}) /\ (Stop(p) \/ Quit(p)) /\ told' = None
    \/ Is(p, {"library"}) /\ told' = [by |-> p, what |-> "panic"]

LEMMA HasPort ==
    ASSUME NEW p \in Procs, Placed, stage[p] = "serving"
    PROVE  /\ conf[p] # None /\ conf[p].kind \in Kinds
           /\ ListenPort(conf[p]) \in Ports
           /\ owner[ListenPort(conf[p])] = p
           /\ p \notin {None, Other}
<1>1. conf[p] # None /\ conf[p] \in Configs[p]
  BY DEF Placed, Consistent
<1>2. ListenPort(conf[p]) \in Ports
  BY <1>1, PortsKnown
<1>3. conf[p].kind \in Kinds
  BY <1>1, ConfigAssumption DEF Config
<1> QED  BY <1>1, <1>2, <1>3, OtherAssumption DEF Placed, Consistent

\* The end of another process.
LEMMA EndOfOther ==
    ASSUME NEW p \in Procs, NEW q \in Procs, q # p, Placed, stage[p] = "serving", Ends(q)
    PROVE  Stays(p)
<1>1. conf'[p] = conf[p] /\ stage'[p] = stage[p]
  BY DEF Ends, Placed
<1> QED  BY <1>1, HasPort DEF Ends, Stays

LEMMA StaysInLife ==
    ASSUME NEW p \in Procs, NEW q \in Procs, HostPlaced, stage[p] = "serving", Life(q), told' = None
    PROVE  Stays(p) \/ Leaves(p)
<1>1. /\ conf[p] # None /\ ListenPort(conf[p]) \in Ports
      /\ owner[ListenPort(conf[p])] = p /\ p \notin {None, Other} /\ Placed
  BY HasPort DEF HostPlaced
<1>2. ASSUME NEW f \in Configs[q], Launch(q, f) PROVE Stays(p)
  BY <1>1, <1>2 DEF Launch, Placed, Stays
<1>3. CASE Quit(q)
  <2>1. CASE q = p
    BY <1>3, <2>1 DEF Quit, Leaves, Is
  <2>2. CASE q # p
    BY <1>1, <1>3, <2>2, EndOfOther DEF Quit
  <2> QED  BY <2>1, <2>2
<1>4. CASE NewClientFails(q)
  <2>1. q \in Callers /\ call[q] = "failed" /\ Ends(q)
    BY <1>4 DEF NewClientFails
  <2>2. stage[q] = "none"
    BY <2>1 DEF HostPlaced, ClientInv, Daemonless
  <2> QED  BY <1>1, <2>1, <2>2, EndOfOther
<1>5. CASE StartAgain(q)
  BY <1>1, <1>5 DEF StartAgain, Stays
<1>6. CASE Stop(q)
  <2>1. CASE q = p
    BY <1>6, <2>1 DEF Stop, Leaves, Is
  <2>2. CASE q # p
    <3>1. ListenPort(conf[q]) \in Ports /\ owner[ListenPort(conf[q])] = q
      BY <1>1, <1>6, HasPort DEF Stop
    <3> QED  BY <1>1, <1>6, <2>2, <3>1 DEF Stop, Stays, Placed
  <2> QED  BY <2>1, <2>2
<1>7. CASE NewClient(q)
  BY <1>1, <1>7 DEF NewClient, hostVars, Stays
<1> QED  BY <1>2, <1>3, <1>4, <1>5, <1>6, <1>7 DEF Life

\* Here it matters that `ipdr pull` and `ipdr server` start one server, and that
\* Start returns if it has been called before.
LEMMA StaysWithServers ==
    ASSUME NEW p \in Procs, NEW q \in Procs, HostPlaced, stage[p] = "serving", Server(q) \/ Kill(q)
    PROVE  Stays(p) \/ Leaves(p)
<1>1. /\ conf[p] # None /\ conf[p].kind \in Kinds /\ ListenPort(conf[p]) \in Ports
      /\ owner[ListenPort(conf[p])] = p /\ p \notin {None, Other} /\ Placed
  BY HasPort DEF HostPlaced
<1>2. CASE StartReturns(q)
  BY <1>1, <1>2 DEF StartReturns, Stays
<1>3. CASE Register(q)
  BY <1>1, <1>3 DEF Register, Stays, Placed
<1>4. CASE Kill(q)
  <2>1. CASE q = p
    BY <1>4, <2>1 DEF Kill, EndsBy, Leaves
  <2>2. CASE q # p
    BY <1>1, <1>4, <2>2, EndOfOther, EndedBy
  <2> QED  BY <2>1, <2>2
<1>5. CASE StartPanics(q)
  <2>1. CASE q = p
    <3>1. starts[p] > 0 /\ ~Is(p, {"embed"}) /\ told' = [by |-> p, what |-> "panic"]
      BY <1>5, <2>1 DEF StartPanics, Started, EndsBy
    <3>2. ~Is(p, {"pull", "server"})
      BY <3>1 DEF HostPlaced, OnceInv, OneStart, Placed
    <3>3. Is(p, {"library"})
      BY <1>1, <3>1, <3>2 DEF Is, Kinds
    <3> QED  BY <3>1, <3>3 DEF Leaves
  <2>2. CASE q # p
    BY <1>1, <1>5, <2>2, EndOfOther, EndedBy
  <2> QED  BY <2>1, <2>2
<1>6. CASE ConfigFails(q) \/ CertFails(q) \/ (CannotListen(q) /\ Ends(q))
  <2>1. q # p /\ Ends(q)
    BY <1>6, EndedBy DEF ConfigFails, CertFails, CannotListen
  <2> QED  BY <1>1, <2>1, EndOfOther
<1>7. CASE Listen(q)
  BY <1>1, <1>7 DEF Listen, Stays, Placed
<1>8. CASE CannotListen(q) /\ ~Ends(q)
  BY <1>1, <1>8 DEF CannotListen, Stays, Placed
<1> QED  BY <1>2, <1>3, <1>4, <1>5, <1>6, <1>7, <1>8 DEF Server

LEMMA StaysWithPulls ==
    ASSUME NEW p \in Procs, NEW t \in Threads, HostPlaced, stage[p] = "serving", Puller(t)
    PROVE  Stays(p) \/ Leaves(p)
<1>1. conf[p] # None /\ owner[ListenPort(conf[p])] = p /\ Placed
  BY HasPort DEF HostPlaced
<1>2. CASE Health(t) \/ Manifest(t)
  BY <1>1, <1>2 DEF Health, Manifest, Stays
<1>3. ASSUME NEW r \in {"tag", "error"}, Return(t, r) PROVE Stays(p) \/ Leaves(p)
  <2>1. CASE Is(ProcOf[t], {"pull"}) /\ Ends(ProcOf[t])
    <3>1. CASE ProcOf[t] = p
      BY <1>3, <2>1, <3>1 DEF Return, Leaves
    <3>2. CASE ProcOf[t] # p
      BY <1>1, <2>1, <3>2, EndOfOther, ProcAssumption
    <3> QED  BY <3>1, <3>2
  <2>2. CASE UNCHANGED <<conf, stage, owner>>
    BY <1>1, <2>2 DEF Stays
  <2> QED  BY <1>3, <2>1, <2>2 DEF Return
<1> QED  BY <1>2, <1>3 DEF Puller, Refused, Blobs

\* Who serves goes on, at its port, whatever other processes start, pull and end,
\* and however often its own Start is called (server.go 74-77, 91), until it is
\* killed, returns, is stopped or ends; one that pulls more than once may end
\* itself with a second server (server.go 79).
THEOREM ServersStay == PullSpec => ServerStays
<1>1. ASSUME HostPlaced, PullNext, NEW p \in Procs, stage[p] = "serving"
      PROVE  Stays(p) \/ Leaves(p)
  <2>1. CASE UNCHANGED <<conf, stage, owner>>
    BY <1>1, <2>1, HasPort DEF Stays, HostPlaced
  <2>2. ASSUME NEW t \in Threads, NEW n \in Cids, Pull(t, n) PROVE Stays(p)
    BY <1>1, <2>2, HasPort DEF Pull, Stays, HostPlaced
  <2>3. ASSUME NEW l \in OtherPorts, OtherListens(l) PROVE Stays(p)
    BY <1>1, <2>3, HasPort, PortAssumption DEF OtherListens, Stays, HostPlaced, Placed
  <2> QED
    BY <1>1, <2>1, <2>2, <2>3, StaysInLife, StaysWithServers, StaysWithPulls
       DEF PullNext, Quiet, hostVars
<1>2. ASSUME HostPlaced, [PullNext]_pullVars
      PROVE  [\A p \in Procs : stage[p] = "serving" =>
                \/ /\ conf'[p] = conf[p] /\ stage'[p] = "serving"
                   /\ owner'[ListenPort(conf[p])] = p
                \/ told' = [by |-> p, what |-> "killed"]
                \/ Is(p, {"pull"}) /\ told' \in [by : {t \in Threads : ProcOf[t] = p}, what : {"tag", "error"}]
                \/ Is(p, {"embed", "library"}) /\ (Stop(p) \/ Quit(p)) /\ told' = None
                \/ Is(p, {"library"}) /\ told' = [by |-> p, what |-> "panic"]]_pullVars
  BY <1>1, <1>2 DEF Stays, Leaves
<1> QED  BY <1>2, PlacedAlways, PTL DEF PullSpec, ServerStays

=============================================================================
