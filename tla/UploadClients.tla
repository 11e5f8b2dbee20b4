--------------------------- MODULE UploadClients ----------------------------
(***************************************************************************)
(* Clients that upload one blob each through the sessions of BlobUploads,  *)
(* lose connections and answers, and try again.  They are not part of the  *)
(* repository.  A "plain" one does what docker does (POST, one PATCH, an   *)
(* empty PUT) or sends it all with the POST; a "range" one uploads in      *)
(* chunks, the last one with the PUT, and repeats a chunk that went        *)
(* unanswered.                                                             *)
(* A call given up by its client may still be served, later than calls     *)
(* sent after it.                                                          *)
(***************************************************************************)
EXTENDS BlobUploads

CONSTANTS
    Clients,
    Kind,      \* client -> "plain" or "range"
    Want,      \* client -> the bytes it uploads
    RepoOf,    \* client -> the repository
    MaxGiveUps,  \* bound: connections given up
    MaxRestarts  \* bound: restarts of the server

ASSUME ClientAssumption ==
    /\ Kind \in [Clients -> {"plain", "range"}]
    /\ Want \in [Clients -> Bytes]
    /\ None \notin Answers
    /\ MaxGiveUps \in Nat /\ MaxRestarts \in Nat

VARIABLES
    stage,    \* what the client is doing
    at,       \* the connection whose answer it waits for
    id,       \* the upload id it was given
    have,     \* how many pieces the server has acknowledged
    giveUps,  \* connections given up so far
    restarts  \* restarts so far

clientVars == <<stage, at, id, have, giveUps, restarts>>
allVars == <<vars, clientVars>>

ClientInit ==
    /\ Init
    /\ stage = [c \in Clients |-> "begin"]
    /\ at = [c \in Clients |-> None]
    /\ id = [c \in Clients |-> None]
    /\ have = [c \in Clients |-> 0]
    /\ giveUps = 0
    /\ restarts = 0

-----------------------------------------------------------------------------

\* Connections no call is served on and nobody else waits on.
Free(c) == {t \in Conns : pc[t] = "idle" /\ \A e \in Clients \ {c} : at[e] # t}

\* The client sends a call on a free connection, whichever, and waits.
Ask(c, op, i, start, body, digest, next) ==
    /\ Free(c) # {}
    /\ LET t == CHOOSE t \in Free(c) : TRUE IN
          /\ Send(t, [op |-> op, repo |-> RepoOf[c], id |-> i, start |-> start,
                      body |-> body, digest |-> digest])
          /\ at' = [at EXCEPT ![c] = t]
    /\ stage' = [stage EXCEPT ![c] = next]
    /\ UNCHANGED <<giveUps, restarts>>

Has(c, status) ==
    /\ at[c] # None
    /\ pc[at[c]] = "idle"
    /\ resp[at[c]].status = status

\* From the start, at first and after any answer that is not hoped for.
Begin(c) ==
    /\ stage[c] = "begin" \/ \E s \in {"400", "416", "aborted"} : Has(c, s)
    /\ \/ /\ Kind[c] = "plain"
          /\ Ask(c, "whole", None, 0, Want[c], Sha(Want[c]), "whole")
       \/ Ask(c, "start", None, 0, <<>>, None, "start")
    /\ UNCHANGED <<id, have>>

\* What the client sends when n pieces are acknowledged in session i: the body
\* or a chunk of it, and in the end the PUT, which carries what is left.
Continue(c, i, n) ==
    /\ \/ /\ Kind[c] = "plain" /\ n = 0
          /\ Ask(c, "stream", i, 0, Want[c], None, "patch")
       \/ /\ Kind[c] = "range" /\ n + 1 < Len(Want[c])
          /\ Ask(c, "range", i, n, <<Want[c][n + 1]>>, None, "patch")
       \/ /\ n + (IF Kind[c] = "range" THEN 1 ELSE 0) = Len(Want[c])
          /\ Ask(c, "finish", i, 0, SubSeq(Want[c], n + 1, Len(Want[c])),
                 Sha(Want[c]), "finish")
    /\ id' = [id EXCEPT ![c] = i]
    /\ have' = [have EXCEPT ![c] = n]

Opened(c) ==
    /\ stage[c] = "start"
    /\ Has(c, "202")
    /\ Continue(c, resp[at[c]].id, 0)

Acked(c) ==
    /\ stage[c] = "patch"
    /\ Has(c, "204")
    /\ Continue(c, id[c], IF Kind[c] = "range" THEN have[c] + 1 ELSE Len(Want[c]))

Resend(c) ==
    /\ stage[c] = "resend"
    /\ Continue(c, id[c], have[c])

Done(c) ==
    /\ stage[c] \in {"finish", "whole"}
    /\ Has(c, "201")
    /\ stage' = [stage EXCEPT ![c] = "done"]
    /\ at' = [at EXCEPT ![c] = None]
    /\ UNCHANGED <<vars, id, have, giveUps, restarts>>

\* The client gives the connection up, or loses the answer, and tries again: a
\* chunk is sent again, anything else begins anew.
GiveUp(c) ==
    /\ giveUps < MaxGiveUps
    /\ at[c] # None
    /\ \/ \E n \in 0..Len(Want[c]) : Cut(at[c], n)
       \/ pc[at[c]] = "idle" /\ UNCHANGED vars
    /\ at' = [at EXCEPT ![c] = None]
    /\ stage' = [stage EXCEPT ![c] = IF @ = "patch" /\ Kind[c] = "range"
                                     THEN "resend" ELSE "begin"]
    /\ giveUps' = giveUps + 1
    /\ UNCHANGED <<id, have, restarts>>

\* A manifest follows the blobs of a client that is done.
ManifestPut(r) ==
    /\ \E c \in Clients : stage[c] = "done" /\ RepoOf[c] = r
    /\ Discard(r)
    /\ UNCHANGED clientVars

Crash ==
    /\ restarts < MaxRestarts
    /\ Restart
    /\ restarts' = restarts + 1
    /\ UNCHANGED <<stage, at, id, have, giveUps>>

Client(c) ==
    \/ Begin(c)
    \/ Opened(c)
    \/ Acked(c)
    \/ Resend(c)
    \/ Done(c)

\* Every client has its blob filed.
Over ==
    /\ \A c \in Clients : stage[c] = "done"
    /\ UNCHANGED allVars

ClientNext ==
    \/ \E c \in Clients : Client(c)
    \/ \E c \in Clients : GiveUp(c)
    \/ \E t \in Conns : Serve(t) /\ UNCHANGED clientVars
    \/ \E r \in Repos : ManifestPut(r)
    \/ Crash
    \/ Over

\* Clients go on; a body comes or stops, so that the handler reads on, and
\* the mutex is handed to whoever waits longest for it.
ClientSpec ==
    /\ ClientInit /\ [][ClientNext]_allVars
    /\ \A c \in Clients : WF_allVars(Client(c))
    /\ \A t \in Conns : SF_allVars(Serve(t) /\ UNCHANGED clientVars)

-----------------------------------------------------------------------------
(* Properties. *)

\* As long as the process lives, what the server has of a session is what its
\* client has sent in it, each piece once and in order, and all of it that was
\* acknowledged: lost answers, chunks sent twice and calls served late do not
\* show (blobs.go 231-240).
SessionIntact ==
    restarts = 0 => \A c \in Clients : stage[c] \in {"patch", "resend"} =>
        /\ IsPrefix(SubSeq(Want[c], 1, have[c]), Session(id[c]))
        /\ IsPrefix(Session(id[c]), Want[c])

\* Faults end, and then every blob is filed: no session, no id that is given
\* out again and no call served late keeps a client from it.
EveryoneDone == \A c \in Clients : <>(stage[c] = "done")

=============================================================================
