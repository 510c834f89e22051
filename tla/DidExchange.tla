------------------------------ MODULE DidExchange ------------------------------
(***************************************************************************)
(* The DID exchange protocol 1.0 (DidExchangeProtocol.ts, its three        *)
(* handlers, and the calls of ConnectionsApi that drive it by hand).       *)
(* The requester is the invitee, the responder the inviter.                *)
(***************************************************************************)
EXTENDS AgentRecords, DidExchangeStateMachine

-------------------------------------------------------------------------------
(* Requester: createRequest, called by acceptOutOfBandInvitation *)

DxCreateConnection(a, s) ==
  /\ At(a, s, "dx-createConnection")
  /\ \E c \in ConnIds :
       LET k == tasks[a][s]
           r == [role |-> "requester", state |-> "invitation-received",
                 protocol |-> "did-exchange", thread |-> None, inv |-> k.inv,
                 did |-> None, theirDid |-> None]
       IN  /\ FreshConnId(a, c) /\ CanCreate("dx-request", r)
           /\ SaveConnection(a, c, r)
           /\ Continue(a, s, [k EXCEPT !.pc = "dx-createRequestDid", !.id = c, !.conn = r])
  /\ UNCHANGED <<oob, dids, net>>

\* PeerDidRegistrar.create saves the DID with a key made for this connection.
DxCreateRequestDid(a, s) ==
  /\ At(a, s, "dx-createRequestDid")
  /\ LET k == tasks[a][s]
         d == [key |-> RoutingKey(a), n |-> NextDid(a)]
     IN  /\ SaveDid(a, "created", d)
         /\ Continue(a, s, [k EXCEPT !.pc = "dx-sendRequest", !.conn.did = d])
  /\ UNCHANGED <<oob, conns, net>>

DxSendRequest(a, s) ==
  /\ At(a, s, "dx-sendRequest")
  /\ LET k  == tasks[a][s]
         th == [agent |-> a, conn |-> k.id]
         r  == [k.conn EXCEPT !.state = NextState("dx-request", k.conn), !.thread = th]
     IN  /\ SaveConnection(a, k.id, r)
         /\ Send([type |-> "dx-request", from |-> r.did.key, to |-> InvitationKey(k.inv),
                  thread |-> th, inv |-> k.inv, did |-> r.did])
  /\ Finish(a, s)
  /\ UNCHANGED <<oob, dids>>

-------------------------------------------------------------------------------
(* Responder: DidExchangeRequestHandler *)

\* Mutant: a request is not refused when the DID in it is known already.
DxRequestAcceptable_KnownDid(a, m) ==
  LET o == oob[a]["sender"][m.inv] IN
  /\ Resolvable(a, m)
  /\ o # None
  /\ ContextConnections(a, m) = {} \/ Reusable[m.inv]
  /\ o.state = "await-response"

\* Every check of the handler and of processRequest, up to the first write.
DxRequestAcceptable(a, m) ==
  LET o == oob[a]["sender"][m.inv] IN
  /\ Resolvable(a, m)
  /\ o # None
  /\ ContextConnections(a, m) = {} \/ Reusable[m.inv]
  /\ DidsByKey(a, "received", m.from) = {}
  /\ o.state = "await-response"

DxReceiveRequest(a, h, m) ==
  /\ Delivers(a, h, m, "dx-request") /\ DxRequestAcceptable(a, m)
  /\ Continue(a, h, [Idle EXCEPT !.pc = "dx-saveRequesterDid", !.msg = m,
                     !.inv = m.inv, !.oob = oob[a]["sender"][m.inv]])
  /\ UNCHANGED <<oob, conns, dids>>

\* Mutant: the invitation is closed when a request arrives.
DxSaveRequesterDid_ClosesEarly(a, h) ==
  /\ At(a, h, "dx-saveRequesterDid")
  /\ SaveDid(a, "received", tasks[a][h].msg.did)
  /\ SaveOob(a, "sender", tasks[a][h].inv, [tasks[a][h].oob EXCEPT !.state = "done"])
  /\ Continue(a, h, [tasks[a][h] EXCEPT !.pc = "dx-createResponder"])
  /\ UNCHANGED <<conns, net>>

DxSaveRequesterDid(a, h) ==
  /\ At(a, h, "dx-saveRequesterDid")
  /\ SaveDid(a, "received", tasks[a][h].msg.did)
  /\ Continue(a, h, [tasks[a][h] EXCEPT !.pc = "dx-createResponder"])
  /\ UNCHANGED <<oob, conns, net>>

\* setConnectionIdForSession throws when the transport session of the request
\* was closed in the meantime; the connection has been saved by then.
DxCreateResponder(a, h) ==
  /\ At(a, h, "dx-createResponder")
  /\ \E c \in ConnIds :
       LET k == tasks[a][h]
           r == [role |-> "responder", state |-> "request-received",
                 protocol |-> "did-exchange", thread |-> k.msg.thread, inv |-> k.inv,
                 did |-> None, theirDid |-> k.msg.did]
       IN  /\ FreshConnId(a, c)
           /\ SaveConnection(a, c, r)
           /\ \/ /\ a \in AutoAccept
                 /\ Continue(a, h, [k EXCEPT !.pc = "dx-createResponseDid", !.id = c, !.conn = r])
              \/ /\ a \notin AutoAccept \/ "session-closed" \in Faults
                 /\ Finish(a, h)
  /\ UNCHANGED <<oob, dids, net>>

\* createResponse rotates the key only for a reusable invitation; otherwise the
\* new DID has the key of the invitation.
DxCreateResponseDid(a, t) ==
  /\ At(a, t, "dx-createResponseDid")
  /\ LET k == tasks[a][t]
         d == [key |-> IF Reusable[k.inv] THEN RoutingKey(a) ELSE InvitationKey(k.inv),
               n |-> NextDid(a)]
     IN  IF CanCreate("dx-response", k.conn)
         THEN /\ SaveDid(a, "created", d)
              /\ Continue(a, t, [k EXCEPT !.pc = "dx-sendResponse", !.conn.did = d])
         ELSE /\ Finish(a, t)
              /\ UNCHANGED dids
  /\ UNCHANGED <<oob, conns, net>>

\* Mutant: the connection is saved before the new DID is assigned to it.
DxSendResponse_SavedWithoutDid(a, t) ==
  /\ At(a, t, "dx-sendResponse")
  /\ LET r == tasks[a][t].conn
     IN  /\ SaveConnection(a, tasks[a][t].id,
              [r EXCEPT !.state = NextState("dx-response", r), !.did = None])
         /\ Send([type |-> "dx-response", from |-> r.did.key, to |-> r.theirDid.key,
                  thread |-> r.thread, inv |-> None, did |-> r.did])
  /\ Finish(a, t)
  /\ UNCHANGED <<oob, dids>>

DxSendResponse(a, t) ==
  /\ At(a, t, "dx-sendResponse")
  /\ LET k == tasks[a][t]
         r == [k.conn EXCEPT !.state = NextState("dx-response", k.conn)]
     IN  /\ SaveConnection(a, k.id, r)
         /\ Send([type |-> "dx-response", from |-> r.did.key, to |-> r.theirDid.key,
                  thread |-> r.thread, inv |-> None, did |-> r.did])
  /\ Finish(a, t)
  /\ UNCHANGED <<oob, dids>>

-------------------------------------------------------------------------------
(* Requester: DidExchangeResponseHandler *)

\* Mutant: the state of the connection is not checked.
DxResponseAcceptable_AnyState(a, c, m) ==
  LET r == conns[a][c] IN
  /\ Resolvable(a, m)
  /\ c \in ConnectionsByThread(a, "requester", m.thread)
  /\ r.did # None /\ r.did.key = m.to
  /\ r.protocol = "did-exchange"
  /\ oob[a]["receiver"][r.inv] # None

DxResponseAcceptable(a, c, m) ==
  LET r == conns[a][c] IN
  /\ Resolvable(a, m)
  /\ c \in ConnectionsByThread(a, "requester", m.thread)
  /\ r.did # None /\ r.did.key = m.to
  /\ r.protocol = "did-exchange"
  /\ oob[a]["receiver"][r.inv] # None
  /\ CanProcess("dx-response", r)

DxReceiveResponse(a, h, m) ==
  /\ Delivers(a, h, m, "dx-response")
  /\ \E c \in ConnIds :
       /\ DxResponseAcceptable(a, c, m)
       /\ LET i == conns[a][c].inv
          IN  Continue(a, h, [pc |-> "dx-saveResponderDid", msg |-> m, inv |-> i,
                              oob |-> oob[a]["receiver"][i], id |-> c, conn |-> conns[a][c]])
  /\ UNCHANGED <<oob, conns, dids>>

\* Mutant: no DID record is stored for the responder's DID.
DxSaveResponderDid_NotSaved(a, h) ==
  /\ At(a, h, "dx-saveResponderDid")
  /\ Continue(a, h, [tasks[a][h] EXCEPT !.pc = "dx-responseReceived"])
  /\ UNCHANGED <<oob, conns, dids, net>>

DxSaveResponderDid(a, h) ==
  /\ At(a, h, "dx-saveResponderDid")
  /\ SaveDid(a, "received", tasks[a][h].msg.did)
  /\ Continue(a, h, [tasks[a][h] EXCEPT !.pc = "dx-responseReceived"])
  /\ UNCHANGED <<oob, conns, net>>

DxResponseReceived(a, h) ==
  /\ At(a, h, "dx-responseReceived")
  /\ LET k == tasks[a][h]
         r == [k.conn EXCEPT !.theirDid = k.msg.did,
                             !.state = NextState("dx-response", k.conn)]
     IN  /\ SaveConnection(a, k.id, r)
         /\ IF a \in AutoAccept
            THEN Continue(a, h, [k EXCEPT !.pc = "dx-createComplete", !.conn = r])
            ELSE Finish(a, h)
  /\ UNCHANGED <<oob, dids, net>>

CompleteMessage(r) ==
  [type |-> "dx-complete", from |-> r.did.key, to |-> r.theirDid.key,
   thread |-> r.thread, inv |-> r.inv, did |-> None]

\* createComplete saves the connection.  The handler then closes the out-of-band
\* record before it sends; ConnectionsApi.acceptResponse sends at once.
DxCreateComplete(a, t) ==
  /\ At(a, t, "dx-createComplete")
  /\ LET k == tasks[a][t]
         r == [k.conn EXCEPT !.state = NextState("dx-complete", k.conn)]
     IN  IF CanCreate("dx-complete", k.conn)
         THEN /\ SaveConnection(a, k.id, r)
              /\ IF t \in Handlers
                 THEN /\ Continue(a, t, [k EXCEPT !.pc = "dx-sendComplete", !.conn = r])
                      /\ UNCHANGED net
                 ELSE /\ Send(CompleteMessage(r))
                      /\ Finish(a, t)
         ELSE /\ Finish(a, t)
              /\ UNCHANGED <<conns, net>>
  /\ UNCHANGED <<oob, dids>>

DxSendComplete(a, h) ==
  /\ At(a, h, "dx-sendComplete")
  /\ LET k == tasks[a][h]
     IN  /\ SaveOob(a, "receiver", k.inv, [k.oob EXCEPT !.state = "done"])
         /\ Send(CompleteMessage(k.conn))
  /\ Finish(a, h)
  /\ UNCHANGED <<conns, dids>>

-------------------------------------------------------------------------------
(* Responder: DidExchangeCompleteHandler *)

DxCompleteAcceptable(a, c, m) ==
  /\ Resolvable(a, m)
  /\ c \in ContextConnections(a, m)
  /\ conns[a][c].protocol = "did-exchange"
  /\ oob[a]["sender"][m.inv] # None

DxReceiveComplete(a, h, m) ==
  /\ Delivers(a, h, m, "dx-complete")
  /\ \E c \in ConnIds :
       /\ DxCompleteAcceptable(a, c, m)
       /\ Continue(a, h, [pc |-> IF Reusable[m.inv] THEN "dx-processComplete"
                                                    ELSE "dx-closeInvitation",
                          msg |-> m, inv |-> m.inv, oob |-> oob[a]["sender"][m.inv],
                          id |-> c, conn |-> conns[a][c]])
  /\ UNCHANGED <<oob, conns, dids>>

\* Mutant: the used single-use invitation stays open.
DxCloseInvitation_Forgotten(a, h) ==
  /\ At(a, h, "dx-closeInvitation")
  /\ Continue(a, h, [tasks[a][h] EXCEPT !.pc = "dx-processComplete"])
  /\ UNCHANGED <<oob, conns, dids, net>>

\* The record is closed before processComplete has looked at the connection.
DxCloseInvitation(a, h) ==
  /\ At(a, h, "dx-closeInvitation")
  /\ LET k == tasks[a][h]
     IN  /\ SaveOob(a, "sender", k.inv, [k.oob EXCEPT !.state = "done"])
         /\ Continue(a, h, [k EXCEPT !.pc = "dx-processComplete"])
  /\ UNCHANGED <<conns, dids, net>>

DxProcessComplete(a, h) ==
  /\ At(a, h, "dx-processComplete")
  /\ LET k == tasks[a][h]
     IN  IF CanProcess("dx-complete", k.conn) /\ k.msg.thread = k.conn.thread
         THEN SaveConnection(a, k.id,
                [k.conn EXCEPT !.state = NextState("dx-complete", k.conn)])
         ELSE UNCHANGED conns
  /\ Finish(a, h)
  /\ UNCHANGED <<oob, dids, net>>

DidExchangeNext ==
  \E a \in Agents :
    \/ \E s \in Callers :
         DxCreateConnection(a, s) \/ DxCreateRequestDid(a, s) \/ DxSendRequest(a, s)
    \/ \E t \in Slots :
         DxCreateResponseDid(a, t) \/ DxSendResponse(a, t) \/ DxCreateComplete(a, t)
    \/ \E h \in Handlers :
         \/ \E m \in net : \/ DxReceiveRequest(a, h, m)
                           \/ DxReceiveResponse(a, h, m)
                           \/ DxReceiveComplete(a, h, m)
         \/ DxSaveRequesterDid(a, h)  \/ DxCreateResponder(a, h)
         \/ DxSaveResponderDid(a, h)  \/ DxResponseReceived(a, h)
         \/ DxSendComplete(a, h)
         \/ DxCloseInvitation(a, h)   \/ DxProcessComplete(a, h)
===============================================================================
