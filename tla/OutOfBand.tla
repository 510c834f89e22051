------------------------------- MODULE OutOfBand -------------------------------
(***************************************************************************)
(* The out-of-band protocol (modules/oob): creating, receiving and         *)
(* accepting invitations, and the handshake-reuse exchange that lets an    *)
(* invitee answer an invitation with a connection it already has.          *)
(***************************************************************************)
EXTENDS AgentRecords

CONSTANTS
  Invited,          \* Invited[i]: the agents that get to see invitation i
  ReuseConnection,  \* agents that pass reuseConnection = true
  AcceptAgain       \* invitations that applications accept repeatedly

ASSUME InvitedAssumption ==
  /\ Invited \in [Invitations -> SUBSET Agents]
  /\ ReuseConnection \subseteq Agents
  /\ AcceptAgain \subseteq Invitations

-------------------------------------------------------------------------------
(* OutOfBandApi *)

CreateInvitation(a, i) ==
  /\ Owner[i] = a /\ oob[a]["sender"][i] = None
  /\ SaveOob(a, "sender", i, [state |-> "await-response", reuse |-> None])
  /\ UNCHANGED <<conns, dids, net, tasks>>

\* _receiveInvitation refuses an invitation it has received before.
ReceiveInvitation(a, i) ==
  /\ a \in Invited[i] /\ oob[Owner[i]]["sender"][i] # None
  /\ oob[a]["receiver"][i] = None
  /\ SaveOob(a, "receiver", i, [state |-> "initial", reuse |-> None])
  /\ UNCHANGED <<conns, dids, net, tasks>>

\* findExistingConnection: the requester's connections made with the DID of the
\* invitation's service; "taking the first one" of those storage returns.
ExistingConnections(a, i) ==
  {c \in ConnIds : /\ conns[a][c] # None /\ conns[a][c].role = "requester"
                   /\ InvitationKey(conns[a][c].inv) = InvitationKey(i)}

RequestPc(i) == IF Protocol[i] = "did-exchange" THEN "dx-createConnection"
                                                ELSE "cx-createRequestDid"

\* acceptInvitation up to its first write.  It checks neither the state of the
\* record nor whether a connection for it exists: an application may call it
\* again at any time.
AcceptInvitation(a, s, i) ==
  /\ s \in Callers /\ At(a, s, "idle")
  /\ oob[a]["receiver"][i] # None
  /\ i \in AcceptAgain \/ oob[a]["receiver"][i].state = "initial"
  /\ LET prepared == [oob[a]["receiver"][i] EXCEPT !.state = "prepare-response"]
     IN  /\ SaveOob(a, "receiver", i, prepared)
         /\ \/ /\ a \in ReuseConnection
               /\ \E c \in ExistingConnections(a, i) :
                    Continue(a, s, [Idle EXCEPT !.pc = "oob-createReuse",
                                    !.inv = i, !.oob = prepared,
                                    !.id = c, !.conn = conns[a][c]])
            \/ /\ a \notin ReuseConnection \/ ExistingConnections(a, i) = {}
               /\ Continue(a, s, [Idle EXCEPT !.pc = RequestPc(i),
                                  !.inv = i, !.oob = prepared])
  /\ UNCHANGED <<conns, dids, net>>

\* Mutant: the connection to reuse is sent for but not remembered.
CreateHandshakeReuse_NotStored(a, s) ==
  /\ At(a, s, "oob-createReuse")
  /\ tasks[a][s].conn.did # None /\ tasks[a][s].conn.theirDid # None
  /\ Send([type |-> "reuse", from |-> tasks[a][s].conn.did.key,
           to |-> tasks[a][s].conn.theirDid.key, thread |-> None,
           inv |-> tasks[a][s].inv, did |-> None])
  /\ Continue(a, s, [tasks[a][s] EXCEPT !.pc = "oob-awaitReuse"])
  /\ UNCHANGED <<oob, conns, dids>>

\* handleHandshakeReuse: remember the connection, then send handshake-reuse over
\* it.  A connection that lacks a DID on either end cannot send: the call throws.
CreateHandshakeReuse(a, s) ==
  /\ At(a, s, "oob-createReuse")
  /\ LET k == tasks[a][s]
         stored == [k.oob EXCEPT !.reuse = k.id]
     IN  /\ SaveOob(a, "receiver", k.inv, stored)
         /\ IF k.conn.did # None /\ k.conn.theirDid # None
            THEN /\ Send([type |-> "reuse", from |-> k.conn.did.key,
                          to |-> k.conn.theirDid.key, thread |-> None,
                          inv |-> k.inv, did |-> None])
                 /\ Continue(a, s, [k EXCEPT !.pc = "oob-awaitReuse", !.oob = stored])
            ELSE /\ Finish(a, s)
                 /\ UNCHANGED net
  /\ UNCHANGED <<conns, dids>>

\* No handshake-reuse-accepted within 15 seconds: a new connection is made, with
\* the copy of the out-of-band record the call has held on to.
ReuseTimesOut(a, s) ==
  /\ "reuse-timeout" \in Faults
  /\ At(a, s, "oob-awaitReuse")
  /\ Continue(a, s, [tasks[a][s] EXCEPT !.pc = RequestPc(tasks[a][s].inv),
                     !.id = None, !.conn = None])
  /\ UNCHANGED <<oob, conns, dids, net>>

-------------------------------------------------------------------------------
(* Handshake reuse *)

ReuseAllowed(a, m) ==
  /\ Resolvable(a, m)
  /\ ContextConnections(a, m) # {}
  /\ oob[a]["sender"][m.inv] # None
  /\ oob[a]["sender"][m.inv].state = "await-response"

ReceiveReuse(a, h, m) ==
  /\ Delivers(a, h, m, "reuse") /\ ReuseAllowed(a, m)
  /\ \E c \in ContextConnections(a, m) :
       Continue(a, h, [pc |-> IF Reusable[m.inv] THEN "oob-acceptReuse" ELSE "oob-closeReused",
                       msg |-> m, inv |-> m.inv, oob |-> oob[a]["sender"][m.inv],
                       id |-> c, conn |-> conns[a][c]])
  /\ UNCHANGED <<oob, conns, dids>>

\* Mutant: the reused single-use invitation stays open.
CloseReusedInvitation_Forgotten(a, h) ==
  /\ At(a, h, "oob-closeReused")
  /\ Continue(a, h, [tasks[a][h] EXCEPT !.pc = "oob-acceptReuse"])
  /\ UNCHANGED <<oob, conns, dids, net>>

CloseReusedInvitation(a, h) ==
  /\ At(a, h, "oob-closeReused")
  /\ LET k == tasks[a][h]
         closed == [k.oob EXCEPT !.state = "done"]
     IN  /\ SaveOob(a, "sender", k.inv, closed)
         /\ Continue(a, h, [k EXCEPT !.pc = "oob-acceptReuse", !.oob = closed])
  /\ UNCHANGED <<conns, dids, net>>

SendReuseAccepted(a, h) ==
  /\ At(a, h, "oob-acceptReuse")
  /\ LET k == tasks[a][h]
     IN  Send([type |-> "reuse-accepted", from |-> k.conn.did.key,
               to |-> k.conn.theirDid.key, thread |-> None,
               inv |-> k.inv, did |-> None])
  /\ Finish(a, h)
  /\ UNCHANGED <<oob, conns, dids>>

ReuseAnswersRequest(a, m) ==
  /\ Resolvable(a, m)
  /\ oob[a]["receiver"][m.inv] # None
  /\ oob[a]["receiver"][m.inv].state = "prepare-response"
  /\ \E c \in ContextConnections(a, m) : oob[a]["receiver"][m.inv].reuse = c

\* The HandshakeReused event wakes the calls that wait for it; the record is
\* closed by the write that follows.
ReceiveReuseAccepted(a, h, m) ==
  /\ Delivers(a, h, m, "reuse-accepted") /\ ReuseAnswersRequest(a, m)
  /\ LET r == oob[a]["receiver"][m.inv]
         woken == {s \in Callers : /\ At(a, s, "oob-awaitReuse")
                                   /\ tasks[a][s].inv = m.inv /\ tasks[a][s].id = r.reuse}
         closing == [Idle EXCEPT !.pc = "oob-closeReceived", !.msg = m,
                     !.inv = m.inv, !.oob = r]
     IN  tasks' = [tasks EXCEPT ![a] =
                     [t \in Slots |-> IF t = h THEN closing
                                      ELSE IF t \in woken THEN Idle ELSE tasks[a][t]]]
  /\ UNCHANGED <<oob, conns, dids>>

CloseReceivedInvitation(a, h) ==
  /\ At(a, h, "oob-closeReceived")
  /\ SaveOob(a, "receiver", tasks[a][h].inv, [tasks[a][h].oob EXCEPT !.state = "done"])
  /\ Finish(a, h)
  /\ UNCHANGED <<conns, dids, net>>

OutOfBandNext ==
  \E a \in Agents :
    \/ \E i \in Invitations : CreateInvitation(a, i) \/ ReceiveInvitation(a, i)
    \/ \E s \in Callers :
         \/ \E i \in Invitations : AcceptInvitation(a, s, i)
         \/ CreateHandshakeReuse(a, s)
         \/ ReuseTimesOut(a, s)
    \/ \E h \in Handlers :
         \/ \E m \in net : ReceiveReuse(a, h, m) \/ ReceiveReuseAccepted(a, h, m)
         \/ CloseReusedInvitation(a, h)
         \/ SendReuseAccepted(a, h)
         \/ CloseReceivedInvitation(a, h)
===============================================================================
