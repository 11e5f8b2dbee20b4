------------------------ MODULE UploadClientsProofs -------------------------
(***************************************************************************)
(* UploadClients keeps sessions intact, for any number of clients and      *)
(* connections, blobs of any length and any number of lost answers.        *)
(***************************************************************************)
EXTENDS UploadClients, BlobUploadsProofs, SequenceTheorems

-----------------------------------------------------------------------------
(* The inductive invariant. *)

Stages == {"begin", "start", "patch", "resend", "finish", "whole", "done"}

\* No two clients wait on one connection, and whoever waits where nothing is
\* served any more has an answer.
Waiting ==
    /\ at \in [Clients -> Conns \cup {None}]
    /\ stage \in [Clients -> Stages]
    /\ id \in [Clients -> Ids \cup {None}]
    /\ have \in [Clients -> Nat]
    /\ \A c, e \in Clients : at[c] # None /\ at[c] = at[e] => c = e
    /\ \A c \in Clients : at[c] # None /\ pc[at[c]] = "idle" => resp[at[c]] # None

\* The client is in the middle of a session.
Live(c) == stage[c] \in {"patch", "resend"}

\* The client has an id it did not use yet.
Offered(c) ==
    /\ stage[c] = "start"
    /\ at[c] # None
    /\ resp[at[c]] # None
    /\ resp[at[c]].status = "202"

\* A call of session i is under way, wanted or not.
Writes(t, i) ==
    /\ pc[t] # "idle"
    /\ call[t].op \in Patches \cup {"finish"}
    /\ call[t].id = i

\* Nobody has anything to do with the id i.
Unused(i) ==
    /\ i \in 1..drawn
    /\ i \notin DOMAIN uploads
    /\ \A t \in Conns : ~Writes(t, i)
    /\ \A c \in Clients : Live(c) => id[c] # i

\* Ids in use were drawn, an id on offer is unused, and no two clients have one.
OwnIds ==
    /\ DOMAIN uploads \subseteq 1..drawn
    /\ \A t \in Conns, i \in Ids : Writes(t, i) => i \in 1..drawn
    /\ \A c \in Clients : Live(c) => id[c] \in 1..drawn
    /\ \A c \in Clients : Offered(c) => Unused(resp[at[c]].id)
    /\ \A c, e \in Clients : Live(c) /\ Live(e) /\ id[c] = id[e] => c = e
    /\ \A c, e \in Clients :
          Offered(c) /\ Offered(e) /\ resp[at[c]].id = resp[at[e]].id => c = e

\* r is what comes in w after its first n pieces, or the beginning of that.
Ahead(w, n, r) ==
    /\ n + Len(r) <= Len(w)
    /\ \A j \in 1..Len(r) : r[j] = w[n + j]

\* What the call on t brings belongs into w where the call says.
Fits(t, w) ==
    /\ call[t].op # "finish"
    /\ pc[t] = "range" => Ahead(w, call[t].start, rest[t])
    /\ pc[t] = "stream" => Ahead(w, 0, rest[t])
    /\ pc[t] = "reading" => IsPrefix(buf[t], w) /\ Ahead(w, Len(buf[t]), rest[t])

\* The session of c has a first part of its blob, with all that was
\* acknowledged, and every call of the session fits, those given up too.
Flows(c) ==
    Live(c) =>
        /\ have[c] <= Len(Session(id[c]))
        /\ IsPrefix(Session(id[c]), Want[c])
        /\ \A t \in Conns : Writes(t, id[c]) => Fits(t, Want[c])

\* The chunk that c waits for is whole, and in the session when it is answered.
Acks(c) ==
    (stage[c] = "patch" /\ Kind[c] = "range" /\ at[c] # None) =>
        /\ pc[at[c]] # "idle" =>
              /\ call[at[c]].op = "range"
              /\ call[at[c]].id = id[c]
              /\ call[at[c]].start = have[c]
        /\ pc[at[c]] = "range" => Len(rest[at[c]]) = 1
        /\ pc[at[c]] = "reading" => Len(buf[at[c]]) + Len(rest[at[c]]) = have[c] + 1
        /\ (pc[at[c]] = "idle" /\ resp[at[c]].status = "204")
              => have[c] + 1 <= Len(Session(id[c]))

OneInv == OwnIds /\ \A c \in Clients : Flows(c) /\ Acks(c)

\* It is the first life of the process that is looked at: a restart forgets the
\* sessions, and may give their ids to others.
ClientInv ==
    /\ UploadInv
    /\ restarts \in Nat
    /\ at \in [Clients -> Conns \cup {None}]
    /\ restarts = 0 => Waiting /\ OneInv

-----------------------------------------------------------------------------
(* Sequences. *)

\* A prefix, position by position.
LEMMA PrefixPoints ==
    ASSUME NEW s \in Bytes, NEW w \in Bytes
    PROVE  IsPrefix(s, w) <=> Len(s) <= Len(w) /\ \A j \in 1..Len(s) : s[j] = w[j]
  <1>1. s \in Seq(Pieces) /\ w \in Seq(Pieces)
    BY DEF Bytes
  <1>2. PICK n \in Nat : n = Len(s)
    BY <1>1
  <1>3. PICK m \in Nat : m = Len(w)
    BY <1>1
  <1>4. CASE n <= m
    <2>1. SubSeq(s, 1, n) \in Seq(Pieces) /\ SubSeq(w, 1, n) \in Seq(Pieces)
      BY <1>1, <1>2, <1>3, <1>4
    <2>2. Len(SubSeq(s, 1, n)) = n /\ Len(SubSeq(w, 1, n)) = n
      BY <1>1, <1>2, <1>3, <1>4
    <2>3. \A j \in 1..n : SubSeq(s, 1, n)[j] = s[j] /\ SubSeq(w, 1, n)[j] = w[j]
      BY <1>1, <1>2, <1>3, <1>4
    <2>4. (\A j \in 1..n : s[j] = w[j]) => SubSeq(s, 1, n) = SubSeq(w, 1, n)
      <3> SUFFICES ASSUME \A j \in 1..n : s[j] = w[j]
                   PROVE  SubSeq(s, 1, n) = SubSeq(w, 1, n)
        OBVIOUS
      <3>1. \A j \in 1..Len(SubSeq(s, 1, n)) : SubSeq(s, 1, n)[j] = SubSeq(w, 1, n)[j]
        BY <2>2, <2>3
      <3> QED BY <2>1, <2>2, <3>1, SeqEqual
    <2>5. SubSeq(s, 1, n) = SubSeq(w, 1, n) => \A j \in 1..n : s[j] = w[j]
      BY <2>3
    <2> QED BY <1>2, <1>3, <1>4, <2>4, <2>5 DEF IsPrefix
  <1>5. CASE ~(n <= m)
    BY <1>2, <1>3, <1>5 DEF IsPrefix
  <1> QED BY <1>4, <1>5

\* A piece that is read joins what was read before.
LEMMA AheadRead ==
    ASSUME NEW s \in Bytes, NEW w \in Bytes, NEW r \in Bytes, r # <<>>,
           IsPrefix(s, w), Ahead(w, Len(s), r)
    PROVE  /\ IsPrefix(Append(s, Head(r)), w)
           /\ Ahead(w, Len(Append(s, Head(r))), Tail(r))
           /\ Len(Append(s, Head(r))) + Len(Tail(r)) = Len(s) + Len(r)
  <1>1. s \in Seq(Pieces) /\ w \in Seq(Pieces) /\ r \in Seq(Pieces)
    BY DEF Bytes
  <1>2. PICK n \in Nat : n = Len(s)
    BY <1>1
  <1>3. PICK m \in Nat : m = Len(r)
    BY <1>1
  <1>4. PICK k \in Nat : k = Len(w)
    BY <1>1
  <1>5. m >= 1 /\ Head(r) = r[1] /\ Head(r) \in Pieces
    BY <1>1, <1>3
  <1>6. Tail(r) \in Seq(Pieces) /\ Len(Tail(r)) = m - 1 /\ \A j \in 1..(m - 1) : Tail(r)[j] = r[j + 1]
    BY <1>1, <1>3, <1>5
  <1>7. PICK b \in Bytes : b = Append(s, Head(r))
    <2>1. Append(s, Head(r)) \in Seq(Pieces)
      BY <1>1, <1>5
    <2> QED BY <2>1 DEF Bytes
  <1>8. Len(b) = n + 1 /\ b[n + 1] = Head(r) /\ \A j \in 1..n : b[j] = s[j]
    BY <1>1, <1>2, <1>5, <1>7
  <1>9. n <= k /\ (\A j \in 1..n : s[j] = w[j]) /\ n + m <= k /\ \A j \in 1..m : r[j] = w[n + j]
    BY <1>2, <1>3, <1>4, PrefixPoints DEF Ahead
  <1>10. w[n + 1] = r[1]
    BY <1>5, <1>9
  <1>11. IsPrefix(b, w)
    <2>1. \A j \in 1..(n + 1) : b[j] = w[j]
      BY <1>5, <1>8, <1>9, <1>10
    <2>2. n + 1 <= k
      BY <1>5, <1>9
    <2> QED BY <1>4, <1>8, <2>1, <2>2, PrefixPoints
  <1>12. Ahead(w, n + 1, Tail(r))
    <2>1. \A j \in 1..(m - 1) : Tail(r)[j] = w[n + 1 + j]
      <3> TAKE j \in 1..(m - 1)
      <3>1. j + 1 \in 1..m /\ n + (j + 1) = n + 1 + j
        OBVIOUS
      <3> QED BY <1>6, <1>9, <3>1
    <2>2. n + 1 + (m - 1) <= k
      BY <1>9
    <2> QED BY <1>4, <1>6, <2>1, <2>2 DEF Ahead
  <1> QED BY <1>2, <1>3, <1>6, <1>7, <1>8, <1>11, <1>12

\* What is left of a body that is cut off comes as before.
LEMMA AheadCut ==
    ASSUME NEW w \in Bytes, NEW r \in Bytes, NEW k \in Nat, NEW n \in 0..Len(r), Ahead(w, k, r)
    PROVE  Ahead(w, k, SubSeq(r, 1, n))
  <1>1. w \in Seq(Pieces) /\ r \in Seq(Pieces)
    BY DEF Bytes
  <1>2. PICK m \in Nat : m = Len(r)
    BY <1>1
  <1>3. PICK l \in Nat : l = Len(w)
    BY <1>1
  <1>4. Len(SubSeq(r, 1, n)) = n /\ \A j \in 1..n : SubSeq(r, 1, n)[j] = r[j]
    BY <1>1, <1>2
  <1>5. n \in 0..m /\ k + m <= l /\ \A j \in 1..m : r[j] = w[k + j]
    BY <1>2, <1>3 DEF Ahead
  <1>6. PICK b : b = SubSeq(r, 1, n)
    OBVIOUS
  <1>7. Len(b) = n /\ \A j \in 1..n : b[j] = r[j] /\ j \in 1..m
    BY <1>4, <1>5, <1>6
  <1>8. Ahead(w, k, b)
    BY <1>2, <1>3, <1>5, <1>7 DEF Ahead
  <1> QED BY <1>6, <1>8

\* A whole blob, and one piece of it, are ahead.
LEMMA AheadWhole ==
    ASSUME NEW w \in Bytes
    PROVE  /\ Ahead(w, 0, w)
           /\ \A n \in Nat : n + 1 < Len(w) =>
                 Ahead(w, n, <<w[n + 1]>>) /\ Len(<<w[n + 1]>>) = 1
  <1>1. PICK m \in Nat : m = Len(w)
    BY DEF Bytes
  <1>2. ASSUME NEW n \in Nat, n + 1 < m PROVE Ahead(w, n, <<w[n + 1]>>)
    <2>1. \A j \in 1..1 : <<w[n + 1]>>[j] = w[n + j]
      OBVIOUS
    <2> QED BY <1>1, <1>2, <2>1 DEF Ahead
  <1> QED BY <1>1, <1>2 DEF Ahead

-----------------------------------------------------------------------------
(* What clients do. *)

\* c has sent a call on a connection nobody else waits on.
Sent(c, op, i, n, body, next) ==
    \E t \in Conns, q \in Requests :
        /\ Send(t, q)
        /\ q.op = op /\ q.id = i /\ q.start = n /\ q.body = body
        /\ \A e \in Clients \ {c} : at[e] # t
        /\ at' = [at EXCEPT ![c] = t]
        /\ stage' = [stage EXCEPT ![c] = next]

LEMMA AskSends ==
    ASSUME NEW c \in Clients, NEW op, NEW i, NEW n, NEW body, NEW d, NEW next,
           Ask(c, op, i, n, body, d, next)
    PROVE  Sent(c, op, i, n, body, next)
  <1> DEFINE q == [op |-> op, repo |-> RepoOf[c], id |-> i, start |-> n,
                   body |-> body, digest |-> d]
  <1>1. q.op = op /\ q.id = i /\ q.start = n /\ q.body = body
    OBVIOUS
  <1>2. PICK t \in Free(c) : Send(t, q) /\ at' = [at EXCEPT ![c] = t]
    BY DEF Ask
  <1>3. stage' = [stage EXCEPT ![c] = next]
    BY DEF Ask
  <1> HIDE DEF q
  <1>4. q \in Requests
    BY <1>2 DEF Send
  <1>5. t \in Conns /\ \A e \in Clients \ {c} : at[e] # t
    BY <1>2 DEF Free
  <1> QED BY <1>1, <1>2, <1>3, <1>4, <1>5 DEF Sent

\* What a call changes.
LEMMA SendFrame ==
    ASSUME TypeOK, NEW t \in Conns, NEW q, Send(t, q)
    PROVE  /\ q \in Requests /\ q.op \in Ops /\ pc[t] = "idle"
           /\ pc'[t] = q.op /\ call'[t] = q /\ rest'[t] = q.body /\ resp'[t] = None
           /\ \A u \in Conns \ {t} :
                 pc'[u] = pc[u] /\ call'[u] = call[u] /\ rest'[u] = rest[u] /\ resp'[u] = resp[u]
           /\ UNCHANGED <<uploads, drawn, buf>>
           /\ \A i : Session(i)' = Session(i)
  BY CallType DEF Send, TypeOK, stores, Session

\* A call that is new on a connection keeps its client waiting.
LEMMA WaitingSend ==
    ASSUME TypeOK, Waiting, NEW c \in Clients, NEW t \in Conns, NEW q, Send(t, q),
           \A e \in Clients \ {c} : at[e] # t, at' = [at EXCEPT ![c] = t],
           NEW st \in Stages, stage' = [stage EXCEPT ![c] = st],
           id' \in [Clients -> Ids \cup {None}], have' \in [Clients -> Nat],
           restarts' = restarts
    PROVE  Waiting'
  <1>1. pc'[t] # "idle" /\ \A u \in Conns \ {t} : pc'[u] = pc[u] /\ resp'[u] = resp[u]
    BY SendFrame DEF Ops
  <1>2. /\ at' \in [Clients -> Conns \cup {None}]
        /\ stage' \in [Clients -> Stages]
        /\ at'[c] = t /\ \A e \in Clients \ {c} : at'[e] = at[e]
    BY DEF Waiting
  <1>3. \A e, f \in Clients : at'[e] # None /\ at'[e] = at'[f] => e = f
    BY <1>2 DEF Waiting
  <1>4. \A e \in Clients : at'[e] # None /\ pc'[at'[e]] = "idle" => resp'[at'[e]] # None
    BY <1>1, <1>2 DEF Waiting
  <1> QED BY <1>2, <1>3, <1>4 DEF Waiting

\* c may go on in session i with n pieces acknowledged.
Ready(c, i, n) ==
    /\ i \in Ids /\ i \in 1..drawn
    /\ Kind[c] = "range" => n <= Len(Session(i))
    /\ IsPrefix(Session(i), Want[c])
    /\ \A t \in Conns : Writes(t, i) => Fits(t, Want[c])
    /\ \A e \in Clients \ {c} : Live(e) => id[e] # i
    /\ \A e \in Clients \ {c} : Offered(e) => resp[at[e]].id # i

LEMMA ContinueStep ==
    ASSUME UploadInv, Waiting, OneInv, NEW c \in Clients, NEW i, NEW n \in Nat,
           Ready(c, i, n), Continue(c, i, n), UNCHANGED restarts
    PROVE  Waiting' /\ OneInv'
  <1>1. PICK t \in Conns, q \in Requests :
           /\ Send(t, q) /\ q.id = i
           /\ \A e \in Clients \ {c} : at[e] # t
           /\ at' = [at EXCEPT ![c] = t]
           /\ \/ /\ q.op = "stream" /\ n = 0 /\ q.body = Want[c] /\ Kind[c] = "plain"
                 /\ stage' = [stage EXCEPT ![c] = "patch"]
              \/ /\ q.op = "range" /\ q.start = n /\ n + 1 < Len(Want[c])
                 /\ q.body = <<Want[c][n + 1]>> /\ Kind[c] = "range"
                 /\ stage' = [stage EXCEPT ![c] = "patch"]
              \/ /\ q.op = "finish"
                 /\ stage' = [stage EXCEPT ![c] = "finish"]
    <2>1. \/ Kind[c] = "plain" /\ n = 0 /\ Sent(c, "stream", i, 0, Want[c], "patch")
          \/ /\ Kind[c] = "range" /\ n + 1 < Len(Want[c])
             /\ Sent(c, "range", i, n, <<Want[c][n + 1]>>, "patch")
          \/ \E body : Sent(c, "finish", i, 0, body, "finish")
      BY AskSends DEF Continue
    <2> QED BY <2>1 DEF Sent
  <1>2. /\ TypeOK /\ q.op \in Ops /\ pc[t] = "idle"
        /\ pc'[t] = q.op /\ call'[t] = q /\ rest'[t] = q.body /\ resp'[t] = None
        /\ \A u \in Conns \ {t} :
              pc'[u] = pc[u] /\ call'[u] = call[u] /\ rest'[u] = rest[u] /\ resp'[u] = resp[u]
        /\ UNCHANGED <<uploads, drawn, buf>>
        /\ \A j : Session(j)' = Session(j)
    BY <1>1, SendFrame DEF UploadInv
  <1>3. /\ stage'[c] \in {"patch", "finish"} /\ at'[c] = t /\ id'[c] = i /\ have'[c] = n
        /\ \A e \in Clients \ {c} :
              /\ stage'[e] = stage[e] /\ at'[e] = at[e] /\ at[e] # t
              /\ id'[e] = id[e] /\ have'[e] = have[e]
    BY <1>1 DEF Continue, Waiting
  <1>4. Waiting'
    <2>1. id' \in [Clients -> Ids \cup {None}] /\ have' \in [Clients -> Nat]
      BY DEF Continue, Waiting, Ready
    <2>2. PICK st \in Stages : stage' = [stage EXCEPT ![c] = st]
      BY <1>1 DEF Stages
    <2> QED BY <1>1, <1>2, <2>1, <2>2, WaitingSend
  <1>5. \A u \in Conns : \A j : Writes(u, j)' => Writes(u, j) \/ (u = t /\ j = i)
    BY <1>1, <1>2 DEF Writes
  <1>6. \A e \in Clients \ {c} : Live(e)' => Live(e) /\ id'[e] = id[e]
    BY <1>3 DEF Live
  <1>7. \A e \in Clients : Offered(e)' => e # c /\ Offered(e) /\ resp'[at'[e]] = resp[at[e]]
    BY <1>2, <1>3 DEF Offered, Waiting
  <1>8. OwnIds'
    <2>1. \A u \in Conns, j \in Ids : Writes(u, j)' => j \in 1..drawn'
      BY <1>2, <1>5 DEF OneInv, OwnIds, Ready
    <2>2. \A e \in Clients : Live(e)' => id'[e] \in 1..drawn'
      BY <1>2, <1>3, <1>6 DEF OneInv, OwnIds, Ready
    <2>3. ASSUME NEW e \in Clients, Offered(e)' PROVE Unused(resp[at[e]].id)'
      <3>1. PICK j : j = resp[at[e]].id
        OBVIOUS
      <3>2. e # c /\ Offered(e) /\ Unused(j) /\ j # i
        BY <1>7, <2>3, <3>1 DEF OneInv, OwnIds, Ready
      <3>3. Unused(j)'
        BY <1>2, <1>3, <1>5, <1>6, <3>2 DEF Unused
      <3> QED BY <1>7, <2>3, <3>1, <3>3
    <2>4. \A e, f \in Clients : Live(e)' /\ Live(f)' /\ id'[e] = id'[f] => e = f
      BY <1>3, <1>6 DEF OneInv, OwnIds, Ready
    <2>5. \A e, f \in Clients :
             Offered(e)' /\ Offered(f)' /\ resp'[at'[e]].id = resp'[at'[f]].id => e = f
      BY <1>7 DEF OneInv, OwnIds
    <2> QED BY <1>2, <2>1, <2>2, <2>3, <2>4, <2>5 DEF OneInv, OwnIds
  <1>9. \A u \in Conns \ {t} : \A w : Fits(u, w) => Fits(u, w)'
    BY <1>2 DEF Fits
  <1>10. ASSUME NEW e \in Clients \ {c} PROVE Flows(e)' /\ Acks(e)'
    <2>1. PICK k : k = id[e] /\ k = id'[e]
      BY <1>3
    <2>2. Session(id[e]) = Session(k) /\ Session(id[e])' = Session(k) /\ have'[e] = have[e]
      BY <1>2, <1>3, <2>1 DEF Session
    <2>3. ASSUME Live(e)', NEW u \in Conns, Writes(u, k)' PROVE Fits(u, Want[e])'
      <3>1. Live(e) /\ k # i /\ Flows(e)
        BY <1>6, <2>1, <2>3 DEF OneInv, Ready
      <3>2. Writes(u, k) /\ u # t
        BY <1>2, <1>5, <2>3, <3>1 DEF Writes
      <3> QED BY <1>9, <2>1, <3>1, <3>2 DEF Flows
    <2>4. Flows(e)'
      <3>1. \A u \in Conns : Live(e)' /\ Writes(u, id[e])' => Fits(u, Want[e])'
        BY <2>1, <2>3 DEF Writes
      <3>2. Live(e)' => Live(e) /\ Flows(e)
        BY <1>6 DEF OneInv
      <3> QED BY <2>2, <3>1, <3>2 DEF Flows
    <2>5. Acks(e)'
      <3>1. Acks(e) /\ at[e] \in Conns \cup {None} /\ at'[e] = at[e] /\ at[e] # t
        BY <1>3 DEF OneInv, Waiting
      <3>2. PICK u : u = at[e] /\ u = at'[e]
        BY <3>1
      <3>3. u # None => /\ pc'[u] = pc[u] /\ call'[u] = call[u]
                        /\ rest'[u] = rest[u] /\ resp'[u] = resp[u]
        BY <1>2, <3>1, <3>2
      <3>4. stage'[e] = stage[e] /\ id'[e] = id[e] /\ buf' = buf
        BY <1>2, <1>3
      <3> QED BY <2>2, <3>1, <3>2, <3>3, <3>4 DEF Acks
    <2> QED BY <2>4, <2>5
  <1>11. CASE stage'[c] = "finish"
    BY <1>4, <1>8, <1>10, <1>11 DEF OneInv, Flows, Acks, Live
  <1>12. CASE stage'[c] = "patch"
    <2>1. Want[c] \in Bytes
      BY ClientAssumption
    <2>2. \/ q.op = "stream" /\ n = 0 /\ q.body = Want[c] /\ Kind[c] = "plain"
          \/ /\ q.op = "range" /\ q.start = n /\ Ahead(Want[c], n, q.body)
             /\ Len(q.body) = 1 /\ Kind[c] = "range"
      <3>1. stage'[c] # "finish" /\ stage \in [Clients -> Stages]
        BY <1>12 DEF Waiting
      <3>2. ~(stage' = [stage EXCEPT ![c] = "finish"])
        BY <3>1
      <3>3. CASE q.op = "stream" /\ n = 0 /\ q.body = Want[c] /\ Kind[c] = "plain"
        BY <3>3
      <3>4. CASE /\ q.op = "range" /\ q.start = n /\ n + 1 < Len(Want[c])
                 /\ q.body = <<Want[c][n + 1]>> /\ Kind[c] = "range"
        <4>1. Ahead(Want[c], n, <<Want[c][n + 1]>>) /\ Len(<<Want[c][n + 1]>>) = 1
          BY <2>1, <3>4, AheadWhole
        <4> QED BY <3>4, <4>1
      <3> QED BY <1>1, <3>2, <3>3, <3>4
    <2>3. Fits(t, Want[c])'
      BY <1>2, <2>1, <2>2, AheadWhole DEF Fits
    <2>4. n <= Len(Session(i))
      <3>1. Len(Session(i)) \in Nat
        BY SessionType DEF UploadInv, Bytes
      <3> QED BY <2>2, <3>1 DEF Ready
    <2>5. \A u \in Conns : Writes(u, i)' => Fits(u, Want[c])'
      BY <1>5, <1>9, <2>3 DEF Ready
    <2>6. Flows(c)'
      BY <1>2, <1>3, <2>4, <2>5 DEF Flows, Ready
    <2>7. Acks(c)'
      <3>1. pc'[t] = q.op /\ call'[t] = q /\ rest'[t] = q.body
        BY <1>2
      <3>2. at'[c] = t /\ id'[c] = i /\ have'[c] = n /\ q.id = i
        BY <1>1, <1>3
      <3>3. CASE Kind[c] # "range"
        BY <3>3 DEF Acks
      <3>4. CASE /\ q.op = "range" /\ q.start = n /\ Len(q.body) = 1
        BY <3>1, <3>2, <3>4 DEF Acks
      <3> QED BY <2>2, <3>3, <3>4
    <2> QED BY <1>4, <1>8, <1>10, <2>6, <2>7 DEF OneInv
  <1> QED BY <1>3, <1>11, <1>12

\* A client that goes on may go on.
LEMMA OpenedReady ==
    ASSUME UploadInv, Waiting, OneInv, NEW c \in Clients, Opened(c)
    PROVE  Ready(c, resp[at[c]].id, 0)
  <1>1. PICK i : i = resp[at[c]].id
    OBVIOUS
  <1>2. Offered(c)
    BY DEF Opened, Has, Offered, Waiting
  <1>3. Unused(i)
    BY <1>1, <1>2 DEF OneInv, OwnIds
  <1>4. i \in Ids
    BY <1>3, UploadAssumption DEF Unused, UploadInv, TypeOK, Ids
  <1>5. Session(i) = <<>> /\ Want[c] \in Seq(Pieces)
    BY <1>3, ClientAssumption DEF Unused, Session, Bytes
  <1>6. IsPrefix(Session(i), Want[c]) /\ Len(Session(i)) = 0
    BY <1>5, PrefixEmpty
  <1>7. \A e \in Clients \ {c} : Offered(e) => resp[at[e]].id # i
    BY <1>1, <1>2 DEF OneInv, OwnIds
  <1>8. Ready(c, i, 0)
    BY <1>3, <1>4, <1>6, <1>7 DEF Ready, Unused
  <1> QED BY <1>1, <1>8

LEMMA LiveReady ==
    ASSUME UploadInv, Waiting, OneInv, NEW c \in Clients, Live(c), NEW n \in Nat,
           Kind[c] = "range" => n <= Len(Session(id[c]))
    PROVE  Ready(c, id[c], n)
  <1>1. PICK i : i = id[c]
    OBVIOUS
  <1>2. i \in 1..drawn /\ i \in Ids
    BY <1>1, UploadAssumption DEF OneInv, OwnIds, UploadInv, TypeOK, Ids
  <1>3. \A e \in Clients \ {c} : Live(e) => id[e] # i
    BY <1>1 DEF OneInv, OwnIds
  <1>4. \A e \in Clients \ {c} : Offered(e) => resp[at[e]].id # i
    BY <1>1 DEF OneInv, OwnIds, Unused
  <1>5. Flows(c)
    BY DEF OneInv
  <1> QED BY <1>1, <1>2, <1>3, <1>4, <1>5 DEF Ready, Flows

LEMMA ClientStep ==
    ASSUME UploadInv, Waiting, OneInv, NEW c \in Clients, Client(c)
    PROVE  Waiting' /\ OneInv'
  <1>1. CASE Opened(c)
    <2>1. PICK i : i = resp[at[c]].id
      OBVIOUS
    <2>2. Continue(c, i, 0) /\ Ready(c, i, 0) /\ UNCHANGED restarts
      BY <1>1, <2>1, OpenedReady DEF Opened, Continue, Ask
    <2> QED BY <2>2, ContinueStep
  <1>2. CASE Resend(c)
    <2>1. PICK n \in Nat : n = have[c]
      BY DEF Waiting
    <2>2. Live(c) /\ n <= Len(Session(id[c]))
      BY <1>2, <2>1 DEF Resend, Live, OneInv, Flows
    <2>3. Continue(c, id[c], n) /\ Ready(c, id[c], n) /\ UNCHANGED restarts
      BY <1>2, <2>1, <2>2, LiveReady DEF Resend, Continue, Ask
    <2> QED BY <2>3, ContinueStep
  <1>3. CASE Acked(c)
    <2>1. PICK n \in Nat : n = IF Kind[c] = "range" THEN have[c] + 1 ELSE Len(Want[c])
      <3>1. have[c] + 1 \in Nat /\ Len(Want[c]) \in Nat
        BY ClientAssumption DEF Waiting, Bytes
      <3> QED BY <3>1
    <2>2. Live(c) /\ Kind[c] = "range" => n <= Len(Session(id[c]))
      BY <1>3, <2>1 DEF Acked, Has, Live, OneInv, Acks
    <2>3. Live(c)
      BY <1>3 DEF Acked, Live
    <2>4. Continue(c, id[c], n) /\ Ready(c, id[c], n) /\ UNCHANGED restarts
      BY <1>3, <2>1, <2>2, <2>3, LiveReady DEF Acked, Continue, Ask
    <2> QED BY <2>4, ContinueStep
  <1>4. CASE Done(c)
    <2>1. /\ stage'[c] = "done" /\ at'[c] = None
          /\ \A e \in Clients \ {c} : stage'[e] = stage[e] /\ at'[e] = at[e]
          /\ UNCHANGED <<vars, id, have, restarts>>
      BY <1>4 DEF Done, Waiting
    <2>2. Waiting'
      BY <1>4, <2>1 DEF Done, Waiting, Stages, vars, conn
    <2>3. \A e \in Clients : (Live(e)' => e # c /\ Live(e)) /\ (Offered(e)' => e # c /\ Offered(e))
      BY <2>1 DEF Live, Offered, vars, conn
    <2>4. OwnIds'
      BY <2>1, <2>3 DEF OneInv, OwnIds, Unused, Writes, vars, conn, stores
    <2>5. \A e \in Clients : Flows(e)'
      BY <2>1, <2>3 DEF OneInv, Flows, Writes, Fits, Session, vars, conn, stores
    <2>6. ASSUME NEW e \in Clients PROVE Acks(e)'
      <3>1. CASE e = c
        BY <2>1, <3>1 DEF Acks
      <3>2. CASE e # c
        <4>1. /\ Acks(e) /\ stage'[e] = stage[e] /\ at'[e] = at[e]
              /\ UNCHANGED <<id, have, pc, call, rest, buf, resp>>
          BY <2>1, <3>2 DEF OneInv, vars, conn
        <4>2. PICK u : u = at[e] /\ u = at'[e]
          BY <4>1
        <4>3. Session(id[e])' = Session(id[e])
          BY <2>1 DEF Session, vars, conn, stores
        <4> QED BY <4>1, <4>2, <4>3 DEF Acks
      <3> QED BY <3>1, <3>2
    <2> QED BY <2>2, <2>4, <2>5, <2>6 DEF OneInv
  <1>5. CASE Begin(c)
    <2>1. PICK t \in Conns, q \in Requests :
             /\ Send(t, q) /\ q.op \in {"whole", "start"}
             /\ \A e \in Clients \ {c} : at[e] # t
             /\ at' = [at EXCEPT ![c] = t]
             /\ stage' = [stage EXCEPT ![c] = q.op]
      <3>1. \/ \E body : Sent(c, "whole", None, 0, body, "whole")
            \/ Sent(c, "start", None, 0, <<>>, "start")
        BY <1>5, AskSends DEF Begin
      <3> QED BY <3>1 DEF Sent
    <2>2. UNCHANGED <<id, have, restarts>>
      BY <1>5 DEF Begin, Ask
    <2>3. /\ pc[t] = "idle" /\ pc'[t] = q.op /\ call'[t] = q /\ resp'[t] = None
          /\ \A u \in Conns \ {t} :
                pc'[u] = pc[u] /\ call'[u] = call[u] /\ rest'[u] = rest[u] /\ resp'[u] = resp[u]
          /\ UNCHANGED <<uploads, drawn, buf>>
      BY <2>1, SendFrame DEF UploadInv
    <2>4. Waiting'
      BY <2>1, <2>2, WaitingSend DEF UploadInv, Waiting, Stages
    <2>5. /\ stage'[c] \in {"whole", "start"} /\ at'[c] = t
          /\ \A e \in Clients \ {c} : stage'[e] = stage[e] /\ at'[e] = at[e] /\ at[e] # t
      BY <2>1 DEF Waiting
    <2>6. \A e \in Clients : (Live(e)' => e # c /\ Live(e))
      BY <2>5 DEF Live
    <2>7. \A e \in Clients : Offered(e)' => e # c /\ Offered(e) /\ resp'[at'[e]] = resp[at[e]]
      BY <2>3, <2>5 DEF Offered, Waiting
    <2>8. \A u \in Conns : \A j : Writes(u, j)' => u # t /\ Writes(u, j)
      BY <2>1, <2>3 DEF Writes, Patches
    <2>9. OwnIds'
      <3>1. \A j : Unused(j) => Unused(j)'
        BY <2>2, <2>3, <2>6, <2>8 DEF Unused
      <3>2. ASSUME NEW e \in Clients, Offered(e)' PROVE Unused(resp[at[e]].id)'
        <4>1. PICK j : j = resp[at[e]].id
          OBVIOUS
        <4>2. Unused(j)' /\ j = resp'[at'[e]].id
          BY <2>7, <3>1, <3>2, <4>1 DEF OneInv, OwnIds
        <4> QED BY <4>2
      <3> QED BY <2>2, <2>3, <2>6, <2>7, <2>8, <3>2 DEF OneInv, OwnIds
    <2>10. ASSUME NEW e \in Clients PROVE Flows(e)'
      <3>1. \A u \in Conns \ {t} : Fits(u, Want[e]) => Fits(u, Want[e])'
        BY <2>3 DEF Fits
      <3> QED BY <2>2, <2>3, <2>6, <2>8, <3>1 DEF OneInv, Flows, Session
    <2>11. ASSUME NEW e \in Clients PROVE Acks(e)'
      <3>1. CASE e = c
        BY <2>5, <3>1 DEF Acks
      <3>2. CASE e # c
        <4>1. PICK u \in Conns \cup {None} : u = at[e] /\ u = at'[e] /\ u # t
          BY <2>5, <3>2 DEF Waiting
        <4>2. u # None => /\ pc'[u] = pc[u] /\ call'[u] = call[u]
                          /\ rest'[u] = rest[u] /\ resp'[u] = resp[u]
          BY <2>3, <4>1
        <4>3. stage'[e] = stage[e] /\ id' = id /\ have' = have /\ buf' = buf
          BY <2>2, <2>3, <2>5, <3>2
        <4>4. Session(id[e])' = Session(id[e])
          BY <2>2, <2>3 DEF Session
        <4>5. Acks(e) /\ id'[e] = id[e] /\ have'[e] = have[e]
          BY <4>3 DEF OneInv
        <4>6. CASE u = None
          BY <4>1, <4>6 DEF Acks
        <4>7. CASE u # None
          BY <4>1, <4>2, <4>3, <4>4, <4>5, <4>7 DEF Acks
        <4> QED BY <4>6, <4>7
      <3> QED BY <3>1, <3>2
    <2> QED BY <2>4, <2>9, <2>10, <2>11 DEF OneInv
  <1> QED BY <1>1, <1>2, <1>3, <1>4, <1>5 DEF Client

\* A call that is given up may bring less, but nothing that does not fit.
LEMMA CutFits ==
    ASSUME UploadInv, NEW t \in Conns, NEW n, Cut(t, n), NEW u \in Conns, NEW w \in Bytes, Fits(u, w)
    PROVE  Fits(u, w)'
  <1>1. rest[t] \in Bytes /\ buf[t] \in Bytes /\ n \in 0..Len(rest[t])
    BY DEF Cut, UploadInv, TypeOK
  <1>2. /\ rest'[t] = SubSeq(rest[t], 1, n)
        /\ \A v \in Conns \ {t} : rest'[v] = rest[v]
        /\ UNCHANGED <<pc, call, buf>>
    BY DEF Cut, UploadInv, TypeOK
  <1>3. \A k \in Nat : Ahead(w, k, rest[t]) => Ahead(w, k, rest'[t])
    BY <1>1, <1>2, AheadCut
  <1>4. pc[t] = "range" => call[t].start \in Nat
    BY UploadAssumption DEF UploadInv, Serving, Calls
  <1>5. Len(buf[t]) \in Nat
    BY <1>1 DEF Bytes
  <1>6. CASE u # t
    BY <1>2, <1>6 DEF Fits
  <1>7. CASE u = t
    BY <1>2, <1>3, <1>4, <1>5, <1>7 DEF Fits
  <1> QED BY <1>6, <1>7

LEMMA GiveUpStep ==
    ASSUME UploadInv, Waiting, OneInv, NEW c \in Clients, GiveUp(c)
    PROVE  Waiting' /\ OneInv'
  <1>1. PICK t \in Conns : t = at[c]
    BY DEF GiveUp, Waiting
  <1>2. (\E n : Cut(t, n)) \/ UNCHANGED vars
    BY <1>1 DEF GiveUp
  <1>3. /\ UNCHANGED <<uploads, drawn, pc, call, buf, resp>>
        /\ \A u \in Conns \ {t} : rest'[u] = rest[u]
    BY <1>2 DEF Cut, vars, conn, stores, UploadInv, TypeOK
  <1>4. /\ at'[c] = None /\ stage'[c] \in {"resend", "begin"}
        /\ stage'[c] = "resend" => stage[c] = "patch"
        /\ \A e \in Clients \ {c} : at'[e] = at[e] /\ stage'[e] = stage[e] /\ at[e] # t
        /\ UNCHANGED <<id, have, restarts>>
        /\ at' \in [Clients -> Conns \cup {None}] /\ stage' \in [Clients -> Stages]
    BY <1>1 DEF GiveUp, Waiting, Stages
  <1>5. Waiting'
    BY <1>3, <1>4 DEF Waiting
  <1>6. \A e \in Clients : Live(e)' => Live(e)
    BY <1>4 DEF Live
  <1>7. \A e \in Clients : Offered(e)' => Offered(e) /\ at'[e] = at[e]
    BY <1>3, <1>4 DEF Offered
  <1>8. OwnIds'
    BY <1>3, <1>4, <1>6, <1>7 DEF OneInv, OwnIds, Unused, Writes
  <1>9. ASSUME NEW e \in Clients PROVE Flows(e)'
    <2>1. Want[e] \in Bytes
      BY ClientAssumption
    <2>2. \A u \in Conns : Fits(u, Want[e]) => Fits(u, Want[e])'
      <3>1. CASE \E n : Cut(t, n)
        BY <2>1, <3>1, CutFits
      <3>2. CASE UNCHANGED vars
        BY <3>2 DEF Fits, vars, conn
      <3> QED BY <1>2, <3>1, <3>2
    <2> QED BY <1>3, <1>4, <1>6, <2>2 DEF OneInv, Flows, Writes, Session
  <1>10. ASSUME NEW e \in Clients PROVE Acks(e)'
    <2>1. CASE e = c
      BY <1>4, <2>1 DEF Acks
    <2>2. CASE e # c
      <3>1. PICK u \in Conns \cup {None} : u = at[e] /\ u = at'[e] /\ u # t
        BY <1>4, <2>2 DEF Waiting
      <3>2. u # None => rest'[u] = rest[u]
        BY <1>3, <3>1
      <3>3. Session(id[e])' = Session(id[e])
        BY <1>3, <1>4 DEF Session
      <3>4. Acks(e) /\ stage'[e] = stage[e] /\ id' = id /\ have' = have
        BY <1>4, <2>2 DEF OneInv
      <3>5. pc' = pc /\ call' = call /\ buf' = buf /\ resp' = resp
        BY <1>3
      <3> QED BY <3>1, <3>2, <3>3, <3>4, <3>5 DEF Acks
    <2> QED BY <2>1, <2>2
  <1> QED BY <1>5, <1>8, <1>9, <1>10 DEF OneInv

-----------------------------------------------------------------------------
(* What the handlers do. *)

LEMMA ServeFrame ==
    ASSUME UploadInv, NEW t \in Conns, Serve(t)
    PROVE  /\ pc[t] # "idle"
           /\ \A u \in Conns \ {t} :
                 /\ pc'[u] = pc[u] /\ call'[u] = call[u] /\ rest'[u] = rest[u]
                 /\ buf'[u] = buf[u] /\ resp'[u] = resp[u]
           /\ \/ pc'[t] = "idle" /\ resp'[t] # None
              \/ /\ pc'[t] = "reading" /\ call'[t] = call[t] /\ resp'[t] = resp[t]
                 /\ call[t].op \in Patches \cup {"finish"}
           /\ \/ drawn' = drawn + 1 /\ resp'[t].id = drawn + 1 /\ uploads' = uploads
                 /\ pc'[t] = "idle" /\ resp'[t].status # "204"
              \/ drawn' = drawn /\ (pc'[t] = "idle" => resp'[t].status # "202")
           /\ \A i \in DOMAIN uploads' : i \in DOMAIN uploads \/ Writes(t, i)
  <1> USE DEF UploadInv
  <1>1. ASSUME NEW st, NEW i, st \in Statuses, i \in Ids \cup {None}, Reply(t, st, i)
        PROVE  /\ \A u \in Conns \ {t} :
                     /\ pc'[u] = pc[u] /\ call'[u] = call[u] /\ rest'[u] = rest[u]
                     /\ buf'[u] = buf[u] /\ resp'[u] = resp[u]
               /\ pc'[t] = "idle" /\ resp'[t] # None
               /\ resp'[t].status = st /\ resp'[t].id = i
    <2>1. [status |-> st, id |-> i] \in Answers
      BY <1>1 DEF Answers
    <2> QED BY <1>1, <2>1, ClientAssumption DEF Reply, TypeOK
  <1>2. ASSUME NEW s, ReadAfter(t, s)
        PROVE  /\ \A u \in Conns \ {t} :
                     /\ pc'[u] = pc[u] /\ call'[u] = call[u] /\ rest'[u] = rest[u]
                     /\ buf'[u] = buf[u] /\ resp'[u] = resp[u]
               /\ pc'[t] = "reading" /\ call'[t] = call[t] /\ resp'[t] = resp[t]
    BY <1>2 DEF ReadAfter, TypeOK
  <1>3. CASE Start(t)
    <2>1. drawn + 1 \in Ids
      BY <1>3, UploadAssumption DEF Start, TypeOK, Ids
    <2> QED BY <1>1, <1>3, <2>1 DEF Start, Statuses, stores
  <1>4. CASE OpenRange(t) \/ OpenStream(t) \/ OpenFinish(t)
    <2>1. call[t].op \in Patches \cup {"finish"} /\ pc[t] # "idle"
      BY <1>4 DEF OpenRange, OpenStream, OpenFinish, Serving, Ops, Patches
    <2>2. UNCHANGED <<uploads, drawn>>
      BY <1>4 DEF OpenRange, OpenStream, OpenFinish, stores
    <2>3. \/ \E st \in {"416", "400"} : Reply(t, st, None)
          \/ \E s : ReadAfter(t, s)
      BY <1>4 DEF OpenRange, OpenStream, OpenFinish
    <2>4. CASE \E st \in {"416", "400"} : Reply(t, st, None)
      BY <1>1, <2>1, <2>2, <2>4 DEF Statuses
    <2>5. CASE \E s : ReadAfter(t, s)
      BY <1>2, <2>1, <2>2, <2>5
    <2> QED BY <2>3, <2>4, <2>5
  <1>5. CASE Read(t)
    <2>1. call[t].op \in Patches \cup {"finish"} /\ pc[t] = "reading"
      BY <1>5 DEF Read, Serving
    <2> QED BY <1>5, <2>1 DEF Read, TypeOK, stores
  <1>6. CASE EndPatch(t)
    <2>1. Writes(t, call[t].id) /\ pc[t] # "idle"
      BY <1>6 DEF EndPatch, Writes, Patches
    <2>2. DOMAIN uploads' = DOMAIN uploads \cup {call[t].id}
      BY <1>6 DEF EndPatch, Put
    <2>3. Reply(t, "204", None) /\ drawn' = drawn
      BY <1>6 DEF EndPatch
    <2> QED BY <1>1, <2>1, <2>2, <2>3 DEF Statuses
  <1>7. CASE EndFinish(t) \/ PostWhole(t)
    <2>1. pc[t] # "idle" /\ drawn' = drawn /\ DOMAIN uploads' \subseteq DOMAIN uploads
      BY <1>7 DEF EndFinish, PostWhole, stores, Restrict
    <2>2. \E st \in {"400", "201"} : Reply(t, st, None)
      BY <1>7 DEF EndFinish, PostWhole
    <2> QED BY <1>1, <2>1, <2>2 DEF Statuses
  <1> QED BY <1>3, <1>4, <1>5, <1>6, <1>7 DEF Serve

\* A session whose calls fit w grows towards w.
LEMMA SessionServe ==
    ASSUME UploadInv, NEW i, NEW w \in Bytes, IsPrefix(Session(i), w),
           NEW t \in Conns, Serve(t), Writes(t, i) => Fits(t, w)
    PROVE  IsPrefix(Session(i)', w) /\ Len(Session(i)) <= Len(Session(i)')
  <1>1. PICK n \in Nat : n = Len(Session(i))
    BY SessionType DEF UploadInv, Bytes
  <1>2. CASE Session(i)' = Session(i)
    BY <1>1, <1>2
  <1>3. CASE EndPatch(t) /\ call[t].id = i
    <2>1. Session(i)' = buf[t]
      BY <1>3 DEF EndPatch, Session, Put
    <2>2. Writes(t, i)
      BY <1>3 DEF EndPatch, Writes, Patches
    <2>3. IsPrefix(buf[t], w)
      BY <1>3, <2>2 DEF EndPatch, Fits
    <2>4. n <= Len(buf[t])
      <3>1. CASE call[t].op = "range"
        BY <1>1, <1>3, <3>1 DEF EndPatch, UploadInv, Behind, IsPrefix
      <3>2. CASE call[t].op = "stream"
        <4>1. Session(i) = <<>>
          BY <1>3, <3>2 DEF EndPatch, UploadInv, Behind, Session
        <4>2. Len(buf[t]) \in Nat
          BY DEF UploadInv, TypeOK, Bytes
        <4> QED BY <1>1, <4>1, <4>2
      <3> QED BY <1>3, <3>1, <3>2 DEF EndPatch
    <2> QED BY <1>1, <2>1, <2>3, <2>4
  <1>4. CASE EndPatch(t) /\ call[t].id # i
    BY <1>2, <1>4 DEF EndPatch, Session, Put
  <1>5. CASE EndFinish(t)
    <2>1. call[t].id # i
      BY <1>5 DEF EndFinish, Writes, Fits
    <2>2. Session(i)' = Session(i)
      BY <1>5, <2>1 DEF EndFinish, Session, Restrict, stores
    <2> QED BY <1>2, <2>2
  <1>6. CASE ~EndPatch(t) /\ ~EndFinish(t)
    <2>1. uploads' = uploads
      BY <1>6 DEF Serve, Start, OpenRange, OpenStream, OpenFinish, Read, PostWhole, stores
    <2> QED BY <1>2, <2>1 DEF Session
  <1> QED BY <1>3, <1>4, <1>5, <1>6

\* What a handler reads of a call that fits goes on to fit.
LEMMA FitsServe ==
    ASSUME UploadInv, NEW i, NEW w \in Bytes, IsPrefix(Session(i), w),
           NEW t \in Conns, Serve(t), Writes(t, i), Fits(t, w), pc'[t] = "reading"
    PROVE  Fits(t, w)'
  <1>1. /\ rest[t] \in Bytes /\ buf[t] \in Bytes /\ w \in Seq(Pieces)
        /\ call[t] \in Requests /\ pc[t] # "idle" /\ call[t].id = i
    BY DEF UploadInv, TypeOK, Serving, Writes, Bytes
  <1>2. call'[t] = call[t]
    BY ServeFrame
  <1>3. call[t].op # "finish" /\ (pc[t] \in Ops => call[t].op = pc[t])
    BY DEF Fits, UploadInv, Serving
  <1>4. CASE OpenRange(t)
    <2>1. buf'[t] = Session(i) /\ rest'[t] = rest[t] /\ call[t].start = Len(Session(i))
      BY <1>1, <1>4 DEF OpenRange, ReadAfter, Reply, UploadInv, TypeOK
    <2>2. Ahead(w, call[t].start, rest[t])
      BY <1>4 DEF OpenRange, Fits
    <2> QED BY <1>2, <1>3, <2>1, <2>2 DEF Fits
  <1>5. CASE OpenStream(t)
    <2>1. buf'[t] = <<>> /\ rest'[t] = rest[t]
      BY <1>5 DEF OpenStream, ReadAfter, Reply, UploadInv, TypeOK
    <2>2. Ahead(w, 0, rest[t]) /\ IsPrefix(<<>>, w) /\ Len(<<>>) = 0
      BY <1>1, <1>5, PrefixEmpty DEF OpenStream, Fits
    <2> QED BY <1>2, <1>3, <2>1, <2>2 DEF Fits
  <1>6. CASE OpenFinish(t)
    BY <1>3, <1>6 DEF OpenFinish, Ops
  <1>7. CASE Read(t)
    <2>1. /\ rest[t] # <<>> /\ buf'[t] = Append(buf[t], Head(rest[t])) /\ rest'[t] = Tail(rest[t])
          /\ IsPrefix(buf[t], w) /\ Ahead(w, Len(buf[t]), rest[t])
      BY <1>7 DEF Read, Fits, UploadInv, TypeOK
    <2>2. IsPrefix(buf'[t], w) /\ Ahead(w, Len(buf'[t]), rest'[t])
      BY <1>1, <2>1, AheadRead
    <2> QED BY <1>2, <1>3, <2>2 DEF Fits
  <1>8. CASE Start(t) \/ EndPatch(t) \/ EndFinish(t) \/ PostWhole(t)
    BY <1>8 DEF Start, EndPatch, EndFinish, PostWhole, Reply, UploadInv, TypeOK
  <1> QED BY <1>4, <1>5, <1>6, <1>7, <1>8 DEF Serve

\* A chunk that its client waits for is read to its end and put into the session.
LEMMA AcksServe ==
    ASSUME UploadInv, NEW i, NEW w \in Bytes, NEW n \in Nat, NEW t \in Conns, Serve(t),
           Fits(t, w), call[t].op = "range", call[t].id = i, call[t].start = n,
           pc[t] = "range" => Len(rest[t]) = 1,
           pc[t] = "reading" => Len(buf[t]) + Len(rest[t]) = n + 1
    PROVE  /\ pc'[t] # "range"
           /\ pc'[t] = "reading" => Len(buf'[t]) + Len(rest'[t]) = n + 1
           /\ (pc'[t] = "idle" /\ resp'[t].status = "204") => n + 1 <= Len(Session(i)')
  <1>1. /\ rest[t] \in Bytes /\ buf[t] \in Bytes /\ pc[t] \in {"range", "reading"}
        /\ Len(rest[t]) \in Nat /\ Len(buf[t]) \in Nat
    <2>1. pc[t] # "idle"
      BY ServeFrame
    <2> QED BY <2>1 DEF UploadInv, TypeOK, Serving, Bytes, Ops
  <1>2. CASE OpenRange(t)
    <2>1. \/ buf'[t] = Session(i) /\ rest'[t] = rest[t] /\ n = Len(Session(i)) /\ pc'[t] = "reading"
          \/ pc'[t] = "idle" /\ resp'[t].status = "416"
      BY <1>2 DEF OpenRange, ReadAfter, Reply, UploadInv, TypeOK
    <2> QED BY <1>2, <2>1 DEF OpenRange
  <1>3. CASE Read(t)
    <2>1. /\ rest[t] # <<>> /\ buf'[t] = Append(buf[t], Head(rest[t])) /\ rest'[t] = Tail(rest[t])
          /\ IsPrefix(buf[t], w) /\ Ahead(w, Len(buf[t]), rest[t])
          /\ pc'[t] = "reading" /\ Len(buf[t]) + Len(rest[t]) = n + 1
      BY <1>3 DEF Read, Fits, UploadInv, TypeOK
    <2>2. Len(buf'[t]) + Len(rest'[t]) = n + 1
      BY <1>1, <2>1, AheadRead
    <2> QED BY <2>1, <2>2
  <1>4. CASE EndPatch(t)
    <2>1. Session(i)' = buf[t] /\ rest[t] = <<>> /\ pc'[t] = "idle" /\ pc[t] = "reading"
      BY <1>4 DEF EndPatch, Reply, Session, Put, UploadInv, TypeOK
    <2> QED BY <1>1, <2>1
  <1> QED BY <1>1, <1>2, <1>3, <1>4
         DEF Serve, Start, OpenStream, OpenFinish, EndFinish, PostWhole

LEMMA ServeStep ==
    ASSUME UploadInv, Waiting, OneInv, NEW t \in Conns, Serve(t), UNCHANGED clientVars
    PROVE  OneInv'
  <1>1. UNCHANGED <<stage, at, id, have>>
    BY DEF clientVars
  <1>2. /\ pc[t] # "idle"
        /\ \A u \in Conns \ {t} :
              /\ pc'[u] = pc[u] /\ call'[u] = call[u] /\ rest'[u] = rest[u]
              /\ buf'[u] = buf[u] /\ resp'[u] = resp[u]
        /\ \/ pc'[t] = "idle" /\ resp'[t] # None
           \/ /\ pc'[t] = "reading" /\ call'[t] = call[t] /\ resp'[t] = resp[t]
              /\ call[t].op \in Patches \cup {"finish"}
        /\ \/ drawn' = drawn + 1 /\ resp'[t].id = drawn + 1 /\ uploads' = uploads
              /\ pc'[t] = "idle" /\ resp'[t].status # "204"
           \/ drawn' = drawn /\ (pc'[t] = "idle" => resp'[t].status # "202")
        /\ \A i \in DOMAIN uploads' : i \in DOMAIN uploads \/ Writes(t, i)
    BY ServeFrame
  <1>3. drawn \in Nat /\ 1..drawn \subseteq 1..drawn' /\ 1..drawn \subseteq Ids
    BY <1>2, UploadAssumption DEF UploadInv, TypeOK, Ids
  <1>4. \A u \in Conns : \A j : Writes(u, j)' => Writes(u, j)
    BY <1>2 DEF Writes
  <1>5. \A e \in Clients : Live(e)' <=> Live(e)
    BY <1>1 DEF Live
  <1>6. OwnIds'
    <2>1. \A j \in 1..drawn : Unused(j) => Unused(j)'
      BY <1>1, <1>2, <1>3, <1>4, <1>5 DEF Unused
    <2>2. DOMAIN uploads' \subseteq 1..drawn'
      <3>1. ASSUME NEW i \in DOMAIN uploads' PROVE i \in 1..drawn'
        <4>1. CASE i \in DOMAIN uploads
          BY <1>3, <4>1 DEF OneInv, OwnIds
        <4>2. CASE Writes(t, i)
          <5>1. i \in Ids
            BY <4>2, CallType DEF Writes, UploadInv, Serving
          <5> QED BY <1>3, <4>2, <5>1 DEF OneInv, OwnIds
        <4> QED BY <1>2, <4>1, <4>2
      <3> QED BY <3>1
    <2>3. /\ \A u \in Conns, j \in Ids : Writes(u, j)' => j \in 1..drawn'
          /\ \A e \in Clients : Live(e)' => id'[e] \in 1..drawn'
          /\ \A e, f \in Clients : Live(e)' /\ Live(f)' /\ id'[e] = id'[f] => e = f
      BY <1>1, <1>3, <1>4, <1>5 DEF OneInv, OwnIds
    <2>4. ASSUME NEW e \in Clients, Offered(e)'
          PROVE  \/ Offered(e) /\ resp'[at[e]].id = resp[at[e]].id
                 \/ at[e] = t /\ drawn' = drawn + 1 /\ resp'[at[e]].id = drawn + 1
      BY <1>1, <1>2, <2>4 DEF Offered, Waiting
    <2>5. \A e \in Clients : Offered(e) => resp[at[e]].id \in 1..drawn
      BY DEF OneInv, OwnIds, Unused
    <2>6. ASSUME NEW k, k = drawn + 1, drawn' = drawn + 1 PROVE Unused(k)'
      <3>1. \A u \in Conns : ~Writes(u, drawn + 1)
        <4>1. \A u \in Conns : \A j : Writes(u, j) => j \in Ids
          BY CallType DEF Writes, UploadInv, Serving
        <4> QED BY <1>3, <4>1 DEF OneInv, OwnIds
      <3>2. drawn + 1 \notin DOMAIN uploads /\ \A e \in Clients : Live(e) => id[e] # drawn + 1
        BY <1>3 DEF OneInv, OwnIds
      <3>3. k \in 1..drawn'
        BY <1>3, <2>6
      <3>4. k \notin DOMAIN uploads'
        BY <1>2, <1>3, <2>6, <3>1, <3>2
      <3> QED BY <1>1, <1>4, <1>5, <2>6, <3>1, <3>2, <3>3, <3>4 DEF Unused
    <2>7. ASSUME NEW e \in Clients, Offered(e)' PROVE Unused(resp[at[e]].id)'
      <3>1. PICK k : k = resp'[at[e]].id
        OBVIOUS
      <3>2. CASE Offered(e) /\ k = resp[at[e]].id
        BY <1>1, <2>1, <2>5, <3>1, <3>2 DEF OneInv, OwnIds, Unused
      <3>3. CASE drawn' = drawn + 1 /\ k = drawn + 1
        BY <1>1, <2>6, <3>1, <3>3 DEF Unused
      <3> QED BY <2>4, <2>7, <3>1, <3>2, <3>3
    <2>8. \A e, f \in Clients :
             Offered(e)' /\ Offered(f)' /\ resp'[at'[e]].id = resp'[at'[f]].id => e = f
      <3>1. \A e \in Clients : Offered(e)' => at[e] # None
        BY <1>1 DEF Offered
      <3>2. \A k \in 1..drawn : k # drawn + 1
        BY <1>3
      <3> QED BY <1>1, <2>4, <2>5, <3>1, <3>2 DEF OneInv, OwnIds, Waiting
    <2> QED BY <2>2, <2>3, <2>7, <2>8 DEF OwnIds
  <1>7. ASSUME NEW e \in Clients, Live(e)
        PROVE  /\ Len(Session(id[e])) <= Len(Session(id[e])')
               /\ have[e] <= Len(Session(id[e])')
               /\ IsPrefix(Session(id[e])', Want[e])
               /\ \A u \in Conns : Writes(u, id[e])' => Fits(u, Want[e])'
    <2>1. PICK i : i = id[e] /\ i = id'[e]
      BY <1>1
    <2>2. Want[e] \in Bytes /\ have[e] \in Nat
      BY ClientAssumption DEF Waiting
    <2>3. /\ have[e] <= Len(Session(i)) /\ IsPrefix(Session(i), Want[e])
          /\ \A u \in Conns : Writes(u, i) => Fits(u, Want[e])
      BY <1>7, <2>1 DEF OneInv, Flows
    <2>4. IsPrefix(Session(i)', Want[e]) /\ Len(Session(i)) <= Len(Session(i)')
      BY <2>2, <2>3, SessionServe
    <2>5. have[e] <= Len(Session(i)')
      <3>1. Len(Session(i)) \in Nat /\ Len(Session(i)') \in Nat
        <4>1. TypeOK'
          BY TypeStep DEF Next, UploadInv
        <4>2. Session(i)' \in Bytes
          BY <4>1 DEF TypeOK, Session, Bytes
        <4> QED BY <4>2, SessionType DEF UploadInv, Bytes
      <3> QED BY <2>2, <2>3, <2>4, <3>1
    <2>6. ASSUME NEW u \in Conns, Writes(u, i)' PROVE Fits(u, Want[e])'
      <3>1. Writes(u, i) /\ Fits(u, Want[e])
        BY <1>4, <2>3, <2>6
      <3>2. CASE u # t
        BY <1>2, <3>1, <3>2 DEF Fits
      <3>3. CASE u = t
        BY <1>2, <2>2, <2>3, <2>6, <3>1, <3>3, FitsServe DEF Writes
      <3> QED BY <3>2, <3>3
    <2>7. Session(id[e])' = Session(i)' /\ Session(id[e]) = Session(i)
      BY <2>1 DEF Session
    <2>8. \A u \in Conns : Writes(u, id[e])' => Fits(u, Want[e])'
      BY <2>1, <2>6 DEF Writes
    <2> QED BY <2>4, <2>5, <2>7, <2>8
  <1>8. ASSUME NEW e \in Clients PROVE Flows(e)'
    BY <1>1, <1>5, <1>7 DEF Flows
  <1>9. ASSUME NEW e \in Clients PROVE Acks(e)'
    <2>1. Acks(e) /\ at[e] \in Conns \cup {None}
      BY DEF OneInv, Waiting
    <2>2. CASE ~(stage[e] = "patch" /\ Kind[e] = "range" /\ at[e] # None)
      BY <1>1, <2>2 DEF Acks
    <2>3. CASE stage[e] = "patch" /\ Kind[e] = "range" /\ at[e] # None /\ at[e] # t
      <3>1. PICK u \in Conns : u = at[e] /\ u = at'[e]
        BY <1>1, <2>1, <2>3
      <3>2. /\ pc'[u] = pc[u] /\ call'[u] = call[u] /\ rest'[u] = rest[u]
            /\ buf'[u] = buf[u] /\ resp'[u] = resp[u]
        BY <1>2, <2>3, <3>1
      <3>3. have[e] + 1 <= Len(Session(id[e])) => have[e] + 1 <= Len(Session(id[e])')
        <4>1. Len(Session(id[e])) <= Len(Session(id[e])')
          BY <1>7, <2>3 DEF Live
        <4>2. Len(Session(id[e])) \in Nat /\ Len(Session(id[e])') \in Nat /\ have[e] \in Nat
          <5>1. TypeOK'
            BY TypeStep DEF Next, UploadInv
          <5>2. Session(id[e])' \in Bytes
            BY <5>1 DEF TypeOK, Session, Bytes
          <5> QED BY <5>2, SessionType DEF UploadInv, Bytes, Waiting
        <4> QED BY <4>1, <4>2
      <3>4. stage' = stage /\ id' = id /\ have' = have
        BY <1>1
      <3> QED BY <2>1, <2>3, <3>1, <3>2, <3>3, <3>4 DEF Acks
    <2>4. CASE stage[e] = "patch" /\ Kind[e] = "range" /\ at[e] = t
      <3>1. PICK i : i = id[e] /\ i = id'[e]
        BY <1>1
      <3>2. PICK n \in Nat : n = have[e] /\ n = have'[e]
        BY <1>1 DEF Waiting
      <3>3. /\ call[t].op = "range" /\ call[t].id = i /\ call[t].start = n
            /\ pc[t] = "range" => Len(rest[t]) = 1
            /\ pc[t] = "reading" => Len(buf[t]) + Len(rest[t]) = n + 1
        BY <1>2, <2>1, <2>4, <3>1, <3>2, UploadAssumption DEF Acks
      <3>4. Want[e] \in Bytes /\ Fits(t, Want[e])
        <4>1. Writes(t, i)
          BY <1>2, <3>3 DEF Writes, Patches
        <4> QED BY <2>4, <3>1, <4>1, ClientAssumption DEF OneInv, Flows, Live
      <3>5. /\ pc'[t] # "range"
            /\ pc'[t] = "reading" => Len(buf'[t]) + Len(rest'[t]) = n + 1
            /\ (pc'[t] = "idle" /\ resp'[t].status = "204") => n + 1 <= Len(Session(i)')
        BY <3>3, <3>4, AcksServe
      <3>6. Session(id[e])' = Session(i)' /\ at'[e] = t
        BY <1>1, <2>4, <3>1 DEF Session
      <3>7. pc'[t] # "idle" => call'[t] = call[t]
        BY <1>2
      <3> QED BY <3>1, <3>2, <3>3, <3>5, <3>6, <3>7 DEF Acks
    <2> QED BY <2>2, <2>3, <2>4
  <1> QED BY <1>6, <1>8, <1>9 DEF OneInv

-----------------------------------------------------------------------------
(* Sessions stay intact. *)

LEMMA ClientInitInv == ClientInit => ClientInv
  <1> SUFFICES ASSUME ClientInit PROVE ClientInv
    OBVIOUS
  <1>1. UploadInv
    BY UploadInit DEF ClientInit
  <1>2. Waiting
    BY DEF ClientInit, Waiting, Stages
  <1>3. OneInv
    BY DEF ClientInit, Init, EmptyMap, OneInv, OwnIds, Unused, Writes, Offered, Live,
           Flows, Acks
  <1> QED BY <1>1, <1>2, <1>3 DEF ClientInv, ClientInit

\* For the server the steps of the clients are calls, cuts and manifests.
LEMMA ServerSees ==
    ASSUME at \in [Clients -> Conns \cup {None}], ClientNext
    PROVE  [Next]_vars
  <1>1. ASSUME NEW c \in Clients, Client(c) PROVE [Next]_vars
    <2>1. (\E t \in Conns, q \in Requests : Send(t, q)) \/ UNCHANGED vars
      BY <1>1, AskSends DEF Client, Begin, Opened, Acked, Resend, Done, Continue, Sent
    <2> QED BY <2>1 DEF Next
  <1>2. ASSUME NEW c \in Clients, GiveUp(c) PROVE [Next]_vars
    <2>1. at[c] \in Conns
      BY <1>2 DEF GiveUp
    <2>2. (\E n \in 0..Len(Want[c]) : Cut(at[c], n)) \/ UNCHANGED vars
      BY <1>2 DEF GiveUp
    <2>3. 0..Len(Want[c]) \subseteq Nat
      BY ClientAssumption DEF Bytes
    <2> QED BY <2>1, <2>2, <2>3 DEF Next
  <1> QED BY <1>1, <1>2 DEF ClientNext, ManifestPut, Crash, Over, Next, allVars

\* The invariant is inductive.
LEMMA ClientInvStep == ClientInv /\ [ClientNext]_allVars => ClientInv'
  <1> SUFFICES ASSUME ClientInv, [ClientNext]_allVars PROVE ClientInv'
    OBVIOUS
  <1> USE DEF ClientInv
  <1>1. UploadInv'
    BY ServerSees, UploadStep DEF allVars
  <1>2. ASSUME restarts' = restarts, at' \in [Clients -> Conns \cup {None}],
               restarts = 0 => (Waiting' /\ OneInv')
        PROVE  ClientInv'
    BY <1>1, <1>2
  <1>3. ASSUME UNCHANGED <<uploads, drawn, conn, stage, at, id, have, restarts>> PROVE ClientInv'
    <2>1. Waiting => Waiting'
      BY <1>3 DEF Waiting, conn
    <2>2. UNCHANGED <<pc, call, rest, buf, resp>> /\ \A i : Session(i)' = Session(i)
      BY <1>3 DEF Session, conn
    <2>3. OwnIds => OwnIds'
      BY <1>3, <2>2 DEF OwnIds, Unused, Writes, Offered, Live
    <2>4. \A c \in Clients : Flows(c) => Flows(c)'
      BY <1>3, <2>2 DEF Flows, Live, Writes, Fits
    <2>5. \A c \in Clients : Acks(c) => Acks(c)'
      BY <1>3, <2>2 DEF Acks
    <2>6. OneInv => OneInv'
      BY <2>3, <2>4, <2>5 DEF OneInv
    <2> QED BY <1>2, <1>3, <2>1, <2>6
  <1>4. ASSUME NEW c \in Clients, Client(c) \/ GiveUp(c) PROVE ClientInv'
    <2>1. restarts' = restarts
      BY <1>4 DEF Client, Begin, Opened, Acked, Resend, Done, Continue, Ask, GiveUp
    <2>2. at' \in [Clients -> Conns \cup {None}]
      <3>1. (\E t \in Conns : at' = [at EXCEPT ![c] = t]) \/ at' = [at EXCEPT ![c] = None]
        BY <1>4, AskSends DEF Client, Begin, Opened, Acked, Resend, Done, Continue, Sent, GiveUp
      <3> QED BY <3>1
    <2> QED BY <1>2, <1>4, <2>1, <2>2, ClientStep, GiveUpStep
  <1>5. ASSUME NEW t \in Conns, Serve(t), UNCHANGED clientVars PROVE ClientInv'
    <2>1. Waiting => Waiting'
      BY <1>5, ServeFrame DEF Waiting, clientVars
    <2> QED BY <1>2, <1>5, <2>1, ServeStep DEF clientVars
  <1>6. ASSUME NEW r \in Repos, ManifestPut(r) PROVE ClientInv'
    BY <1>3, <1>6 DEF ManifestPut, Discard, clientVars
  <1>7. CASE Crash
    BY <1>1, <1>7 DEF Crash
  <1>8. CASE UNCHANGED allVars
    BY <1>3, <1>8 DEF allVars, vars, stores, clientVars
  <1> QED
    BY <1>4, <1>5, <1>6, <1>7, <1>8 DEF ClientNext, Over

\* A first part of a blob that is no longer than the session is one of the session.
LEMMA PrefixOfPrefix ==
    ASSUME NEW s \in Bytes, NEW w \in Bytes, IsPrefix(s, w), NEW n \in Nat, n <= Len(s)
    PROVE  IsPrefix(SubSeq(w, 1, n), s)
  <1>1. s \in Seq(Pieces) /\ w \in Seq(Pieces)
    BY DEF Bytes
  <1>2. PICK m \in Nat : m = Len(s)
    BY <1>1
  <1>3. PICK k \in Nat : k = Len(w)
    BY <1>1
  <1>4. n <= m /\ m <= k /\ \A j \in 1..m : s[j] = w[j]
    BY <1>2, <1>3, PrefixPoints
  <1>5. PICK b \in Bytes : b = SubSeq(w, 1, n)
    <2>1. SubSeq(w, 1, n) \in Seq(Pieces)
      BY <1>1, <1>3, <1>4
    <2> QED BY <2>1 DEF Bytes
  <1>6. Len(b) = n /\ \A j \in 1..n : b[j] = w[j]
    BY <1>1, <1>3, <1>4, <1>5
  <1>7. \A j \in 1..n : b[j] = s[j]
    BY <1>4, <1>6
  <1> QED BY <1>2, <1>4, <1>5, <1>6, <1>7, PrefixPoints

\* As long as the process lives, a session has a first part of its client's blob,
\* with every chunk that was acknowledged, for any number of clients that share
\* the server, blobs of any length, chunks sent again after lost answers and
\* calls that are served after their clients gave them up (blobs.go 231-253).
THEOREM SessionsIntact == ClientSpec => []SessionIntact
  <1>1. ClientInv => SessionIntact
    <2> SUFFICES ASSUME ClientInv, restarts = 0, NEW c \in Clients, Live(c)
                 PROVE  /\ IsPrefix(SubSeq(Want[c], 1, have[c]), Session(id[c]))
                        /\ IsPrefix(Session(id[c]), Want[c])
      BY DEF SessionIntact, Live
    <2>1. have[c] <= Len(Session(id[c])) /\ IsPrefix(Session(id[c]), Want[c])
      BY DEF ClientInv, OneInv, Flows
    <2>2. Want[c] \in Bytes /\ Session(id[c]) \in Bytes /\ have[c] \in Nat
      BY ClientAssumption, SessionType DEF ClientInv, UploadInv, Waiting
    <2> QED BY <2>1, <2>2, PrefixOfPrefix
  <1> QED BY <1>1, ClientInitInv, ClientInvStep, PTL DEF ClientSpec

=============================================================================
