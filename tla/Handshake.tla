------------------------------- MODULE Handshake -------------------------------
(***************************************************************************)
(* Making connections: the out-of-band protocol, the two handshake         *)
(* protocols, the application's calls of ConnectionsApi, and the faults of *)
(* the environment, composed over the shared records of AgentRecords.      *)
(***************************************************************************)
EXTENDS OutOfBand, DidExchange, ConnectionProtocol

-------------------------------------------------------------------------------
(* ConnectionsApi: what an application does by hand when it does not accept  *)
(* connections automatically.  A call whose record is in another state throws*)
(* before it changes anything.                                               *)

StartCall(a, s, c, pc) ==
  /\ s \in Callers /\ At(a, s, "idle") /\ a \notin AutoAccept
  /\ conns[a][c] # None
  /\ Continue(a, s, [Idle EXCEPT !.pc = pc, !.inv = conns[a][c].inv,
                     !.id = c, !.conn = conns[a][c]])
  /\ UNCHANGED <<oob, conns, dids, net>>

AcceptRequest(a, s, c) ==
  /\ conns[a][c] # None
  /\ conns[a][c].role = "responder" /\ conns[a][c].state = "request-received"
  /\ oob[a]["sender"][conns[a][c].inv] # None
  /\ StartCall(a, s, c, IF conns[a][c].protocol = "did-exchange"
                        THEN "dx-createResponseDid" ELSE "cx-createResponseDid")

AcceptResponse(a, s, c) ==
  /\ conns[a][c] # None
  /\ conns[a][c].role = "requester" /\ conns[a][c].state = "response-received"
  /\ oob[a]["receiver"][conns[a][c].inv] # None
  /\ StartCall(a, s, c, IF conns[a][c].protocol = "did-exchange"
                        THEN "dx-createComplete" ELSE "cx-sendPing")

SendPing(a, s, c) ==
  /\ conns[a][c] # None
  /\ conns[a][c].state \in {"response-received", "completed"}
  /\ StartCall(a, s, c, "cx-sendPing")

ConnectionsApiNext ==
  \E a \in Agents, s \in Callers, c \in ConnIds :
    AcceptRequest(a, s, c) \/ AcceptResponse(a, s, c) \/ SendPing(a, s, c)

-------------------------------------------------------------------------------
(* Messages that come to nothing *)

HandlerAccepts(a, m) ==
  \/ m.type = "reuse"          /\ ReuseAllowed(a, m)
  \/ m.type = "reuse-accepted" /\ ReuseAnswersRequest(a, m)
  \/ m.type = "dx-request"     /\ DxRequestAcceptable(a, m)
  \/ m.type = "dx-response"    /\ \E c \in ConnIds : DxResponseAcceptable(a, c, m)
  \/ m.type = "dx-complete"    /\ \E c \in ConnIds : DxCompleteAcceptable(a, c, m)
  \/ m.type = "cx-request"     /\ \E i \in Invitations : CxRequestAcceptable(a, i, m)
  \/ m.type = "cx-response"    /\ \E c \in ConnIds : CxResponseAcceptable(a, c, m)
  \/ m.type = "ping"           /\ \E c \in ConnIds : PingCompletes(a, c, m)
  \/ m.type = "problem-report" /\ \E c \in ConnIds : ReportConcerns(a, c, m)

\* The lookup of the connection or the handler throws before the first write, or
\* there is nothing to write: the message is gone and nothing has changed.  The
\* error is caught and logged; the next message is handled as usual.
IgnoreMessage(a, h, m) ==
  /\ h \in Handlers /\ At(a, h, "idle")
  /\ m \in net /\ m.to.agent = a
  /\ ~HandlerAccepts(a, m)
  /\ net' = net \ {m}
  /\ UNCHANGED <<oob, conns, dids, tasks>>

-------------------------------------------------------------------------------
(* Faults *)

LoseMessage(m) ==
  /\ "loss" \in Faults /\ m \in net
  /\ net' = net \ {m}
  /\ UNCHANGED <<oob, conns, dids, tasks>>

\* The process stops and is started again: storage survives, tasks do not.
Crash(a) ==
  /\ "crash" \in Faults
  /\ \E t \in Slots : tasks[a][t] # Idle
  /\ tasks' = [tasks EXCEPT ![a] = [t \in Slots |-> Idle]]
  /\ UNCHANGED <<oob, conns, dids, net>>

FaultNext == (\E m \in net : LoseMessage(m)) \/ (\E a \in Agents : Crash(a))

-------------------------------------------------------------------------------
Next ==
  \/ OutOfBandNext
  \/ DidExchangeNext
  \/ ConnectionProtocolNext
  \/ ConnectionsApiNext
  \/ \E a \in Agents, h \in Handlers : \E m \in net : IgnoreMessage(a, h, m)
  \/ FaultNext

Spec == Init /\ [][Next]_vars

\* The next step of a task that is under way.  A call that waits for an answer to
\* handshake-reuse goes on when its timer fires.
TaskStep(a, t) ==
  \/ DxCreateConnection(a, t)  \/ DxCreateRequestDid(a, t)  \/ DxSendRequest(a, t)
  \/ DxSaveRequesterDid(a, t)  \/ DxCreateResponder(a, t)
  \/ DxCreateResponseDid(a, t) \/ DxSendResponse(a, t)
  \/ DxSaveResponderDid(a, t)  \/ DxResponseReceived(a, t)
  \/ DxCreateComplete(a, t)    \/ DxSendComplete(a, t)
  \/ DxCloseInvitation(a, t)   \/ DxProcessComplete(a, t)
  \/ CxCreateRequestDid(a, t)  \/ CxCreateConnection(a, t)  \/ CxSendRequest(a, t)
  \/ CxSaveRequesterDid(a, t)  \/ CxCreateResponder(a, t)
  \/ CxCreateResponseDid(a, t) \/ CxSendResponse(a, t)
  \/ CxSaveResponderDid(a, t)  \/ CxResponseReceived(a, t)
  \/ CxSendPing(a, t)          \/ CxComplete(a, t)          \/ CxAbandon(a, t)
  \/ CreateHandshakeReuse(a, t)  \/ ReuseTimesOut(a, t)
  \/ CloseReusedInvitation(a, t) \/ SendReuseAccepted(a, t)
  \/ CloseReceivedInvitation(a, t)

HandleMessage(a, h, m) ==
  \/ ReceiveReuse(a, h, m)      \/ ReceiveReuseAccepted(a, h, m)
  \/ DxReceiveRequest(a, h, m)  \/ DxReceiveResponse(a, h, m)
  \/ DxReceiveComplete(a, h, m)
  \/ CxReceiveRequest(a, h, m)  \/ CxReceiveResponse(a, h, m)
  \/ CxReceivePing(a, h, m)     \/ CxReceiveProblemReport(a, h, m)
  \/ IgnoreMessage(a, h, m)

\* The event loop resumes every task whose promise has settled, and concatMap
\* takes the next message when the handler of the previous one has returned.
Fairness ==
  \A a \in Agents :
    /\ \A t \in Slots : WF_vars(TaskStep(a, t))
    /\ WF_vars(\E h \in Handlers : \E m \in net : HandleMessage(a, h, m))

FairSpec == Spec /\ Fairness
===============================================================================
