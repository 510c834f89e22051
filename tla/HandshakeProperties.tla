-------------------------- MODULE HandshakeProperties --------------------------
(* What the handshake promises to the agents that take part in it.           *)
EXTENDS Handshake

Connection(a, c, role) == conns[a][c] # None /\ conns[a][c].role = role

\* The two ends of a connection agree on it: once the requester has processed the
\* response, the inviter holds a connection for the same request, it has answered
\* it, and each end has stored the DID the other end uses.
Agreement ==
  \A a \in Agents, c \in ConnIds :
    /\ Connection(a, c, "requester")
    /\ conns[a][c].state \in {"response-received", "completed"}
    => \E d \in ConnIds :
         LET r == conns[a][c]
             b == Owner[r.inv]
         IN  /\ Connection(b, d, "responder")
             /\ conns[b][d].thread = r.thread
             /\ conns[b][d].did = r.theirDid /\ conns[b][d].theirDid = r.did
             /\ conns[b][d].state \in {"response-sent", "completed", "abandoned"}

\* A connection refers only to DIDs whose records are stored: without them no
\* message of the peer finds the connection, and no message can be sent.
DidsStored ==
  \A a \in Agents, c \in ConnIds :
    conns[a][c] # None =>
      /\ conns[a][c].did # None =>
           \E n \in DOMAIN dids[a] :
             dids[a][n] = [role |-> "created", did |-> conns[a][c].did]
      /\ conns[a][c].theirDid # None =>
           \E n \in DOMAIN dids[a] :
             dids[a][n] = [role |-> "received", did |-> conns[a][c].theirDid]

\* A request leads to one connection, however often it is delivered.
OneConnectionPerRequest ==
  \A a \in Agents, c, d \in ConnIds :
    /\ Connection(a, c, "responder") /\ Connection(a, d, "responder")
    /\ conns[a][c].thread = conns[a][d].thread
    => c = d

\* Every ready connection is the one that MessageReceiver finds for the messages
\* of its peer: no second DID record and no second connection gets in the way.
ReadyConnectionsAreFound ==
  \A a \in Agents, c \in ConnIds :
    conns[a][c] # None /\ IsReady(conns[a][c]) =>
      LET theirs == conns[a][c].theirDid.key
          ours   == conns[a][c].did.key
      IN  /\ ~FindByKeysThrows(a, theirs, ours)
          /\ FindByKeys(a, theirs, ours) = {c}

\* At most one connection comes from an invitation that is not multi-use: "Connection
\* record for non-reusable out-of-band ... already exists" (the request handlers).
SingleUseInvitation ==
  \A a \in Agents, c, d \in ConnIds :
    /\ Connection(a, c, "responder") /\ Connection(a, d, "responder")
    /\ conns[a][c].inv = conns[a][d].inv /\ ~Reusable[conns[a][c].inv]
    => c = d

\* A DID exchange that is complete at the responder has closed its single-use
\* invitation: the record no longer accepts requests.
UsedInvitationIsClosed ==
  \A a \in Agents, c \in ConnIds :
    /\ Connection(a, c, "responder") /\ conns[a][c].state = "completed"
    /\ conns[a][c].protocol = "did-exchange" /\ ~Reusable[conns[a][c].inv]
    => oob[a]["sender"][conns[a][c].inv].state = "done"

\* An invitation is closed at its creator only because it was used: for a connection
\* that was answered, or by an invitee that reuses a connection.
ClosedInvitationWasUsed ==
  \A a \in Agents, i \in Invitations :
    /\ oob[a]["sender"][i] # None /\ oob[a]["sender"][i].state = "done"
    => \/ \E c \in ConnIds :
            /\ Connection(a, c, "responder") /\ conns[a][c].inv = i
            /\ conns[a][c].state \in {"response-sent", "completed", "abandoned"}
       \/ \E b \in Invited[i] :
            oob[b]["receiver"][i] # None /\ oob[b]["receiver"][i].reuse # None

\* An invitee that closed an invitation without a connection of its own for it reuses
\* a connection with its creator: the creator holds the other end, ready for use, and
\* has closed its record if the invitation is single-use.
ReuseAgreement ==
  \A b \in Agents, i \in Invitations :
    /\ oob[b]["receiver"][i] # None /\ oob[b]["receiver"][i].state = "done"
    /\ \A c \in ConnIds : Connection(b, c, "requester") => conns[b][c].inv # i
    => LET c == oob[b]["receiver"][i].reuse IN
       /\ c # None /\ Connection(b, c, "requester")
       /\ \E d \in ConnIds :
            /\ Connection(Owner[i], d, "responder")
            /\ conns[Owner[i]][d].thread = conns[b][c].thread
            /\ IsReady(conns[Owner[i]][d])
       /\ ~Reusable[i] => oob[Owner[i]]["sender"][i].state = "done"

-------------------------------------------------------------------------------
(* The handshake implements HandshakeContract: the ends of a request are the *)
(* connection records that carry its thread id.                              *)

End(r) == [state |-> r.state, ours |-> r.did, theirs |-> r.theirDid]

NoEnd == [state |-> "none", ours |-> None, theirs |-> None]

RequesterEnd(th) ==
  IF /\ Connection(th.agent, th.conn, "requester")
     /\ conns[th.agent][th.conn].state # "invitation-received"
  THEN End(conns[th.agent][th.conn])
  ELSE NoEnd

RespondersTo(th) ==
  {e \in Agents \X ConnIds : e[2] \in ConnectionsByThread(e[1], "responder", th)}

ResponderEnd(th) ==
  IF RespondersTo(th) = {} THEN NoEnd
  ELSE LET e == CHOOSE e \in RespondersTo(th) : TRUE IN End(conns[e[1]][e[2]])

Contract == INSTANCE HandshakeContract WITH
  Requests  <- Threads,
  Dids      <- PeerDids,
  NoDid     <- None,
  requester <- [th \in Threads |-> RequesterEnd(th)],
  responder <- [th \in Threads |-> ResponderEnd(th)]

\* Whatever is lost, repeated or interrupted, the connection records of the two ends
\* move as the contract allows: one answer per request, DIDs agreed before either end
\* is complete, the inviter last, and an abandoned end is never revived.
ImplementsContract == Contract!ContractSpec

-------------------------------------------------------------------------------
\* Every request that is sent leads to a connection that both ends can use.
Connected(th) ==
  /\ conns[th.agent][th.conn] # None
  /\ conns[th.agent][th.conn].state = "completed"
  /\ \E a \in Agents, c \in ConnIds :
       /\ Connection(a, c, "responder")
       /\ conns[a][c].thread = th /\ conns[a][c].state = "completed"

RequestSent(th) ==
  /\ conns[th.agent][th.conn] # None
  /\ conns[th.agent][th.conn].state = "request-sent"

RequestsAreAnswered ==
  \A th \in Threads : RequestSent(th) ~> Connected(th)
===============================================================================
