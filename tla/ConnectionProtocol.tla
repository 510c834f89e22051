--------------------------- MODULE ConnectionProtocol ---------------------------
(***************************************************************************)
(* The connection protocol 1.0 (ConnectionService.ts and its handlers),    *)
(* with the trust ping that ends it and the problem report that abandons   *)
(* a connection.                                                           *)
(***************************************************************************)
EXTENDS AgentRecords

-------------------------------------------------------------------------------
(* Requester: createRequest, called by acceptOutOfBandInvitation *)

\* The DID is saved before the connection that uses it.
CxCreateRequestDid(a, s) ==
  /\ At(a, s, "cx-createRequestDid")
  /\ LET k == tasks[a][s]
         d == [key |-> RoutingKey(a), n |-> 0]
     IN  IF k.oob.state = "prepare-response"
         THEN /\ SaveDid(a, "created", d)
              /\ Continue(a, s, [k EXCEPT !.pc = "cx-createConnection",
                   !.conn = [role |-> "requester", state |-> "invitation-received",
                             protocol |-> "connections", thread |-> None,
                             inv |-> k.inv, did |-> d, theirDid |-> None]])
         ELSE /\ Finish(a, s)
              /\ UNCHANGED dids
  /\ UNCHANGED <<oob, conns, net>>

CxCreateConnection(a, s) ==
  /\ At(a, s, "cx-createConnection")
  /\ \E c \in ConnIds :
       LET k == tasks[a][s]
           r == [k.conn EXCEPT !.thread = [agent |-> a, conn |-> c]]
       IN  /\ FreshConnId(a, c)
           /\ SaveConnection(a, c, r)
           /\ Continue(a, s, [k EXCEPT !.pc = "cx-sendRequest", !.id = c, !.conn = r])
  /\ UNCHANGED <<oob, dids, net>>

CxSendRequest(a, s) ==
  /\ At(a, s, "cx-sendRequest")
  /\ LET k == tasks[a][s]
         r == [k.conn EXCEPT !.state = "request-sent"]
     IN  /\ SaveConnection(a, k.id, r)
         /\ Send([type |-> "cx-request", from |-> r.did.key, to |-> InvitationKey(k.inv),
                  thread |-> r.thread, inv |-> k.inv, did |-> r.did])
  /\ Finish(a, s)
  /\ UNCHANGED <<oob, dids>>

-------------------------------------------------------------------------------
(* Responder: ConnectionRequestHandler *)

\* The out-of-band record is looked up by the key the request was sent to, and
\* the lookup throws when two invitations share that key.
CxRequestAcceptable(a, i, m) ==
  /\ Resolvable(a, m)
  /\ OobsByKey(a, m.to) = {i}
  /\ ContextConnections(a, m) = {} \/ Reusable[i]
  /\ DidsByKey(a, "received", m.from) = {}
  /\ oob[a]["sender"][i].state = "await-response"

CxReceiveRequest(a, h, m) ==
  /\ Delivers(a, h, m, "cx-request")
  /\ \E i \in Invitations :
       /\ CxRequestAcceptable(a, i, m)
       /\ Continue(a, h, [Idle EXCEPT !.pc = "cx-saveRequesterDid", !.msg = m,
                          !.inv = i, !.oob = oob[a]["sender"][i]])
  /\ UNCHANGED <<oob, conns, dids>>

\* Mutant: the DID in the request is stored as one of our own.
CxSaveRequesterDid_AsCreated(a, h) ==
  /\ At(a, h, "cx-saveRequesterDid")
  /\ SaveDid(a, "created", tasks[a][h].msg.did)
  /\ Continue(a, h, [tasks[a][h] EXCEPT !.pc = "cx-createResponder"])
  /\ UNCHANGED <<oob, conns, net>>

CxSaveRequesterDid(a, h) ==
  /\ At(a, h, "cx-saveRequesterDid")
  /\ SaveDid(a, "received", tasks[a][h].msg.did)
  /\ Continue(a, h, [tasks[a][h] EXCEPT !.pc = "cx-createResponder"])
  /\ UNCHANGED <<oob, conns, net>>

CxCreateResponder(a, h) ==
  /\ At(a, h, "cx-createResponder")
  /\ \E c \in ConnIds :
       LET k == tasks[a][h]
           r == [role |-> "responder", state |-> "request-received",
                 protocol |-> "connections", thread |-> k.msg.thread, inv |-> k.inv,
                 did |-> None, theirDid |-> k.msg.did]
       IN  /\ FreshConnId(a, c)
           /\ SaveConnection(a, c, r)
           /\ \/ /\ a \in AutoAccept
                 /\ Continue(a, h, [k EXCEPT !.pc = "cx-createResponseDid", !.id = c, !.conn = r])
              \/ /\ a \notin AutoAccept \/ "session-closed" \in Faults
                 /\ Finish(a, h)
  /\ UNCHANGED <<oob, dids, net>>

\* The DID document is made from the key alone: all connections of a single-use
\* invitation get the same DID.
CxCreateResponseDid(a, t) ==
  /\ At(a, t, "cx-createResponseDid")
  /\ LET k == tasks[a][t]
         d == [key |-> IF Reusable[k.inv] THEN RoutingKey(a) ELSE InvitationKey(k.inv),
               n |-> 0]
     IN  IF k.conn.state = "request-received" /\ k.conn.role = "responder"
         THEN /\ SaveDid(a, "created", d)
              /\ Continue(a, t, [k EXCEPT !.pc = "cx-sendResponse", !.conn.did = d])
         ELSE /\ Finish(a, t)
              /\ UNCHANGED dids
  /\ UNCHANGED <<oob, conns, net>>

\* The response is signed with the key of the invitation, named by its inv.
CxSendResponse(a, t) ==
  /\ At(a, t, "cx-sendResponse")
  /\ LET k == tasks[a][t]
         r == [k.conn EXCEPT !.state = "response-sent"]
     IN  /\ SaveConnection(a, k.id, r)
         /\ Send([type |-> "cx-response", from |-> r.did.key, to |-> r.theirDid.key,
                  thread |-> r.thread, inv |-> k.inv, did |-> r.did])
  /\ Finish(a, t)
  /\ UNCHANGED <<oob, dids>>

-------------------------------------------------------------------------------
(* Requester: ConnectionResponseHandler *)

\* Mutant: the state of the connection is not checked.
CxResponseAcceptable_AnyState(a, c, m) ==
  LET r == conns[a][c] IN
  /\ Resolvable(a, m)
  /\ c \in ConnectionsByThread(a, "requester", m.thread)
  /\ r.did # None /\ r.did.key = m.to
  /\ oob[a]["receiver"][r.inv] # None
  /\ InvitationKey(m.inv) = InvitationKey(r.inv)

CxResponseAcceptable(a, c, m) ==
  LET r == conns[a][c] IN
  /\ Resolvable(a, m)
  /\ c \in ConnectionsByThread(a, "requester", m.thread)
  /\ r.did # None /\ r.did.key = m.to
  /\ oob[a]["receiver"][r.inv] # None
  /\ r.state = "request-sent"
  /\ InvitationKey(m.inv) = InvitationKey(r.inv)   \* the signer

CxReceiveResponse(a, h, m) ==
  /\ Delivers(a, h, m, "cx-response")
  /\ \E c \in ConnIds :
       /\ CxResponseAcceptable(a, c, m)
       /\ LET i == conns[a][c].inv
          IN  Continue(a, h, [pc |-> "cx-saveResponderDid", msg |-> m, inv |-> i,
                              oob |-> oob[a]["receiver"][i], id |-> c, conn |-> conns[a][c]])
  /\ UNCHANGED <<oob, conns, dids>>

CxSaveResponderDid(a, h) ==
  /\ At(a, h, "cx-saveResponderDid")
  /\ SaveDid(a, "received", tasks[a][h].msg.did)
  /\ Continue(a, h, [tasks[a][h] EXCEPT !.pc = "cx-responseReceived"])
  /\ UNCHANGED <<oob, conns, net>>

CxResponseReceived(a, h) ==
  /\ At(a, h, "cx-responseReceived")
  /\ LET k == tasks[a][h]
         r == [k.conn EXCEPT !.theirDid = k.msg.did, !.thread = k.msg.thread,
                             !.state = "response-received"]
     IN  /\ SaveConnection(a, k.id, r)
         /\ IF a \in AutoAccept
            THEN Continue(a, h, [k EXCEPT !.pc = "cx-sendPing", !.conn = r])
            ELSE Finish(a, h)
  /\ UNCHANGED <<oob, dids, net>>

\* createTrustPing, then the send: by the response handler, by acceptResponse and
\* by sendPing, the last for connections of either protocol.
CxSendPing(a, t) ==
  /\ At(a, t, "cx-sendPing")
  /\ LET k == tasks[a][t]
     IN  IF k.conn.state \in {"response-received", "completed"}
         THEN /\ IF k.conn.state # "completed"
                 THEN SaveConnection(a, k.id, [k.conn EXCEPT !.state = "completed"])
                 ELSE UNCHANGED conns
              /\ Send([type |-> "ping", from |-> k.conn.did.key,
                       to |-> k.conn.theirDid.key, thread |-> None,
                       inv |-> None, did |-> None])
         ELSE UNCHANGED <<conns, net>>
  /\ Finish(a, t)
  /\ UNCHANGED <<oob, dids>>

-------------------------------------------------------------------------------
(* TrustPingMessageHandler *)

PingCompletes(a, c, m) ==
  Resolvable(a, m) /\ c \in ContextConnections(a, m) /\ conns[a][c].state = "response-sent"

CxReceivePing(a, h, m) ==
  /\ Delivers(a, h, m, "ping")
  /\ \E c \in ConnIds :
       /\ PingCompletes(a, c, m)
       /\ Continue(a, h, [Idle EXCEPT !.pc = "cx-complete", !.msg = m,
                          !.id = c, !.conn = conns[a][c]])
  /\ UNCHANGED <<oob, conns, dids>>

CxComplete(a, h) ==
  /\ At(a, h, "cx-complete")
  /\ SaveConnection(a, tasks[a][h].id, [tasks[a][h].conn EXCEPT !.state = "completed"])
  /\ Finish(a, h)
  /\ UNCHANGED <<oob, dids, net>>

-------------------------------------------------------------------------------
(* ConnectionProblemReportHandler *)

\* A peer that gives up tells so, with the keys of the connection.  The framework
\* itself never reports a problem on a handshake it has accepted.
PeerReportsProblem(a, c) ==
  /\ "peer-report" \in Faults
  /\ conns[a][c] # None
  /\ conns[a][c].did # None /\ conns[a][c].theirDid # None
  /\ Send([type |-> "problem-report", from |-> conns[a][c].did.key,
           to |-> conns[a][c].theirDid.key, thread |-> None, inv |-> None, did |-> None])
  /\ UNCHANGED <<oob, conns, dids, tasks>>

\* The connection is found by our DID alone, in whatever state it is.
ReportConcerns(a, c, m) ==
  /\ Resolvable(a, m)
  /\ \E n \in DidsByKey(a, "created", m.to) :
       /\ DidsByKey(a, "created", m.to) = {n}
       /\ ConnectionsByOurDid(a, dids[a][n].did) = {c}
  /\ conns[a][c].theirDid # None /\ conns[a][c].theirDid.key = m.from
  /\ \E n \in DOMAIN dids[a] :
       {p \in DOMAIN dids[a] : dids[a][p] = [role |-> "received", did |-> conns[a][c].theirDid]} = {n}

CxReceiveProblemReport(a, h, m) ==
  /\ Delivers(a, h, m, "problem-report")
  /\ \E c \in ConnIds :
       /\ ReportConcerns(a, c, m)
       /\ Continue(a, h, [Idle EXCEPT !.pc = "cx-abandon", !.msg = m,
                          !.id = c, !.conn = conns[a][c]])
  /\ UNCHANGED <<oob, conns, dids>>

CxAbandon(a, h) ==
  /\ At(a, h, "cx-abandon")
  /\ SaveConnection(a, tasks[a][h].id, [tasks[a][h].conn EXCEPT !.state = "abandoned"])
  /\ Finish(a, h)
  /\ UNCHANGED <<oob, dids, net>>

ConnectionProtocolNext ==
  \E a \in Agents :
    \/ \E s \in Callers :
         CxCreateRequestDid(a, s) \/ CxCreateConnection(a, s) \/ CxSendRequest(a, s)
    \/ \E t \in Slots :
         CxCreateResponseDid(a, t) \/ CxSendResponse(a, t) \/ CxSendPing(a, t)
    \/ \E h \in Handlers :
         \/ \E m \in net : \/ CxReceiveRequest(a, h, m)
                           \/ CxReceiveResponse(a, h, m)
                           \/ CxReceivePing(a, h, m)
                           \/ CxReceiveProblemReport(a, h, m)
         \/ CxSaveRequesterDid(a, h)  \/ CxCreateResponder(a, h)
         \/ CxSaveResponderDid(a, h)  \/ CxResponseReceived(a, h)
         \/ CxComplete(a, h)          \/ CxAbandon(a, h)
    \/ \E c \in ConnIds : PeerReportsProblem(a, c)
===============================================================================
