---------------------------- MODULE HandshakeProofs ----------------------------
(***************************************************************************)
(* Proofs about the handshake, for every value of the constants.           *)
(*                                                                         *)
(* TypeOK is not inductive: a task writes what it has read into the        *)
(* records and the messages, so what its copies hold at each of its steps  *)
(* is part of the invariant.                                               *)
(***************************************************************************)
EXTENDS HandshakeProperties, TLAPS

-------------------------------------------------------------------------------
(* What the values have beyond their type *)

\* A connection record has the DIDs that its role and state call for.
SoundRecords ==
  {r \in ConnectionRecords :
     /\ r.role = "responder" => r.theirDid \in PeerDids
     /\ r.state = "request-sent" => r.did \in PeerDids
     /\ r.state \in {"response-sent", "response-received", "completed"}
          => r.did \in PeerDids /\ r.theirDid \in PeerDids}

\* A message carries what its type calls for.
SoundMessages ==
  {m \in Messages :
     /\ m.type \notin {"dx-response", "ping", "problem-report"} => m.inv \in Invitations
     /\ m.type \in {"dx-request", "dx-response", "cx-request", "cx-response"}
          => m.did \in PeerDids}

\* The steps at which a task goes on to use ...
UsesMessage ==      \* ... the message, for the DID in it
  {"dx-saveRequesterDid", "dx-createResponder", "dx-saveResponderDid",
   "dx-responseReceived", "cx-saveRequesterDid", "cx-createResponder",
   "cx-saveResponderDid", "cx-responseReceived"}

UsesInvitation ==   \* ... the invitation
  {"dx-createConnection", "dx-createRequestDid", "dx-sendRequest",
   "cx-createRequestDid", "cx-createConnection", "cx-sendRequest",
   "dx-saveRequesterDid", "dx-createResponder", "dx-createResponseDid", "dx-sendResponse",
   "cx-saveRequesterDid", "cx-createResponder", "cx-createResponseDid", "cx-sendResponse",
   "oob-createReuse", "oob-awaitReuse", "oob-acceptReuse"}

UsesOob ==          \* ... its copy of the out-of-band record
  {"oob-createReuse", "oob-closeReused", "oob-closeReceived", "dx-saveResponderDid",
   "dx-responseReceived", "dx-sendComplete", "dx-closeInvitation"}

UsesRecord ==       \* ... its copy of the connection record
  {"dx-createRequestDid", "dx-sendRequest", "dx-createResponseDid", "dx-sendResponse",
   "dx-saveResponderDid", "dx-responseReceived", "dx-createComplete", "dx-sendComplete",
   "dx-closeInvitation", "dx-processComplete", "cx-sendRequest", "cx-createResponseDid",
   "cx-sendResponse", "cx-saveResponderDid", "cx-responseReceived", "cx-sendPing",
   "cx-complete", "cx-abandon", "oob-createReuse", "oob-closeReused", "oob-acceptReuse"}

SoundTasks(t) ==
  {k \in Tasks :
     /\ k.pc \in UsesMessage => k.msg \in SoundMessages /\ k.msg.did \in PeerDids
     /\ k.pc \in UsesInvitation \cup UsesOob => k.inv \in Invitations
     /\ k.pc \in UsesOob => k.oob \in OobRecords
     /\ k.pc = "dx-createComplete" =>
          /\ k.inv \in Invitations
          /\ t \in Handlers => k.oob \in OobRecords
     /\ k.pc \in UsesRecord => k.id \in ConnIds /\ k.conn \in SoundRecords
     /\ k.pc = "cx-createConnection" => k.conn \in SoundRecords
     /\ k.pc \in {"dx-createRequestDid", "dx-sendRequest", "cx-createConnection",
                  "cx-sendRequest", "dx-saveResponderDid", "dx-responseReceived",
                  "cx-saveResponderDid", "cx-responseReceived"}
          => k.conn.role = "requester"
     /\ k.pc \in {"dx-sendResponse", "cx-sendResponse"} => k.conn.role = "responder"
     /\ k.pc \in {"dx-sendRequest", "cx-createConnection", "cx-sendRequest",
                  "dx-sendResponse", "cx-sendResponse", "dx-saveResponderDid",
                  "dx-responseReceived", "cx-saveResponderDid", "cx-responseReceived"}
          => k.conn.did \in PeerDids
     /\ k.pc \in {"oob-closeReused", "oob-acceptReuse", "dx-sendComplete", "cx-complete"}
          => IsReady(k.conn)}

OobType   == oob \in [Agents -> [OobRoles -> [Invitations -> OobRecords \cup {None}]]]
ConnsType == conns \in [Agents -> [ConnIds -> SoundRecords \cup {None}]]
DidsType  == dids \in [Agents -> Seq(DidRecords)]
NetType   == net \subseteq SoundMessages
TasksType == /\ tasks \in [Agents -> [Slots -> Tasks]]
             /\ \A a \in Agents, t \in Slots : tasks[a][t] \in SoundTasks(t)

TypeInv == OobType /\ ConnsType /\ DidsType /\ NetType /\ TasksType

-------------------------------------------------------------------------------
(* The operators of the model keep the types *)

LEMMA RuleDecides ==
  ASSUME NEW message, NEW r, NEW next,
         \A rule \in CreateMessageRules \cup ProcessMessageRules :
           rule.message = message /\ rule.role = r.role => rule.nextState = next,
         \E rule \in CreateMessageRules \cup ProcessMessageRules :
           rule.message = message /\ rule.role = r.role
  PROVE  NextState(message, r) = next
  BY DEF NextState

LEMMA RequesterNextStates ==
  ASSUME NEW r, r.role = "requester"
  PROVE  /\ NextState("dx-request", r) = "request-sent"
         /\ NextState("dx-response", r) = "response-received"
         /\ NextState("dx-complete", r) = "completed"
  <1>1. NextState("dx-request", r) = "request-sent"
    BY RuleDecides DEF CreateMessageRules, ProcessMessageRules, Rule
  <1>2. NextState("dx-response", r) = "response-received"
    BY RuleDecides DEF CreateMessageRules, ProcessMessageRules, Rule
  <1>3. NextState("dx-complete", r) = "completed"
    BY RuleDecides DEF CreateMessageRules, ProcessMessageRules, Rule
  <1> QED
    BY <1>1, <1>2, <1>3

LEMMA ResponderNextStates ==
  ASSUME NEW r, r.role = "responder"
  PROVE  /\ NextState("dx-response", r) = "response-sent"
         /\ NextState("dx-complete", r) = "completed"
  <1>1. NextState("dx-response", r) = "response-sent"
    BY RuleDecides DEF CreateMessageRules, ProcessMessageRules, Rule
  <1>2. NextState("dx-complete", r) = "completed"
    BY RuleDecides DEF CreateMessageRules, ProcessMessageRules, Rule
  <1> QED
    BY <1>1, <1>2

LEMMA SaveOobKeepsType ==
  ASSUME OobType, NEW a \in Agents, NEW role \in OobRoles, NEW i \in Invitations,
         NEW r \in OobRecords, SaveOob(a, role, i, r)
  PROVE  OobType'
  BY DEF OobType, SaveOob

LEMMA SaveConnectionKeepsType ==
  ASSUME ConnsType, NEW a \in Agents, NEW c \in ConnIds, NEW r \in SoundRecords,
         SaveConnection(a, c, r)
  PROVE  ConnsType'
  BY DEF ConnsType, SaveConnection

LEMMA SaveDidKeepsType ==
  ASSUME DidsType, NEW a \in Agents, NEW role \in DidRoles, NEW d \in PeerDids,
         SaveDid(a, role, d)
  PROVE  DidsType'
  <1> DEFINE record == [role |-> role, did |-> d]
  <1>1. record \in DidRecords
    BY DEF DidRecords
  <1>2. dids[a] \in Seq(DidRecords)
    BY DEF DidsType
  <1>3. Append(dids[a], record) \in Seq(DidRecords)
    BY <1>1, <1>2
  <1> HIDE DEF record
  <1>4. dids' = [dids EXCEPT ![a] = Append(dids[a], record)]
    BY DEF SaveDid, record
  <1> QED
    BY <1>3, <1>4 DEF DidsType

LEMMA SendKeepsType ==
  ASSUME NetType, NEW m \in SoundMessages, Send(m)
  PROVE  NetType'
  BY DEF NetType, Send

LEMMA ContinueKeepsType ==
  ASSUME TasksType, NEW a \in Agents, NEW t \in Slots, NEW k \in SoundTasks(t),
         Continue(a, t, k)
  PROVE  TasksType'
  <1>1. k \in Tasks
    BY DEF SoundTasks
  <1>2. tasks' \in [Agents -> [Slots -> Tasks]]
    BY <1>1 DEF TasksType, Continue
  <1>3. \A b \in Agents, s \in Slots : tasks'[b][s] \in SoundTasks(s)
    BY DEF TasksType, Continue
  <1> QED
    BY <1>2, <1>3 DEF TasksType

LEMMA IdleIsSound ==
  ASSUME NEW t
  PROVE  Idle \in SoundTasks(t)
  <1>1. Idle \in Tasks
    BY DEF Idle, Tasks, Steps
  <1>2. Idle.pc = "idle"
    BY DEF Idle
  <1> QED
    BY <1>1, <1>2 DEF SoundTasks, UsesMessage, UsesInvitation, UsesOob, UsesRecord

LEMMA FinishKeepsType ==
  ASSUME TasksType, NEW a \in Agents, NEW t \in Slots, Finish(a, t)
  PROVE  TasksType'
  BY IdleIsSound, ContinueKeepsType DEF Finish

LEMMA TaskIsSound ==
  ASSUME TypeInv, NEW a \in Agents, NEW t \in Slots
  PROVE  tasks[a][t] \in SoundTasks(t)
  BY DEF TypeInv, TasksType

LEMMA RecordWithDid ==
  ASSUME NEW r \in SoundRecords, NEW d \in PeerDids
  PROVE  /\ [r EXCEPT !.did = d] \in SoundRecords
         /\ [r EXCEPT !.did = d] \in ConnectionRecords
         /\ [r EXCEPT !.did = d].role = r.role
         /\ [r EXCEPT !.did = d].state = r.state
         /\ [r EXCEPT !.did = d].did = d
         /\ [r EXCEPT !.did = d].theirDid = r.theirDid
  BY DEF SoundRecords, ConnectionRecords

LEMMA KeysAreKeys ==
  ASSUME DidsType
  PROVE  /\ \A a \in Agents : RoutingKey(a) \in Keys /\ NextDid(a) \in Nat
         /\ \A i \in Invitations : InvitationKey(i) \in Keys
  <1>1. \A a \in Agents : Len(dids[a]) \in Nat
    BY DEF DidsType
  <1>2. \A i \in Invitations : Owner[i] \in Agents /\ ServiceKey[i] \in Nat
    BY ConstantsAssumption
  <1> QED
    BY <1>1, <1>2 DEF RoutingKey, NextDid, InvitationKey, Keys

LEMMA DeliveredMessage ==
  ASSUME TypeInv, NEW a, NEW h, NEW m, NEW type, Delivers(a, h, m, type)
  PROVE  h \in Slots /\ m \in SoundMessages /\ m.type = type /\ NetType'
  BY DEF TypeInv, NetType, Delivers, Consume, Slots

-------------------------------------------------------------------------------
(* The DID exchange keeps the types *)

LEMMA DxCreateConnectionType ==
  ASSUME TypeInv, NEW a \in Agents, NEW s \in Callers, DxCreateConnection(a, s)
  PROVE  TypeInv'
  <1> DEFINE k == tasks[a][s]
             r == [role |-> "requester", state |-> "invitation-received",
                   protocol |-> "did-exchange", thread |-> None, inv |-> k.inv,
                   did |-> None, theirDid |-> None]
             n(c) == [k EXCEPT !.pc = "dx-createRequestDid", !.id = c, !.conn = r]
  <1>1. s \in Slots /\ k \in SoundTasks(s) /\ k \in Tasks /\ k.inv \in Invitations
    BY TaskIsSound DEF DxCreateConnection, At, Slots, SoundTasks, UsesInvitation
  <1>2. r \in SoundRecords /\ r \in ConnectionRecords /\ r.role = "requester"
    BY <1>1 DEF SoundRecords, ConnectionRecords, ConnRoles, ConnStates, ConnectionProtocols
  <1>3. PICK c \in ConnIds : SaveConnection(a, c, r) /\ Continue(a, s, n(c))
    BY DEF DxCreateConnection
  <1> HIDE DEF r
  <1>4. n(c) \in Tasks /\ n(c).pc = "dx-createRequestDid" /\ n(c).id = c
        /\ n(c).conn = r /\ n(c).inv = k.inv
    BY <1>1, <1>2 DEF Tasks, Steps
  <1> HIDE DEF n
  <1>5. n(c) \in SoundTasks(s)
    BY <1>1, <1>2, <1>4 DEF SoundTasks, UsesMessage, UsesInvitation, UsesOob, UsesRecord
  <1> QED
    BY <1>1, <1>2, <1>3, <1>5, SaveConnectionKeepsType, ContinueKeepsType
    DEF DxCreateConnection, TypeInv, OobType, DidsType, NetType

LEMMA DxCreateRequestDidType ==
  ASSUME TypeInv, NEW a \in Agents, NEW s \in Callers, DxCreateRequestDid(a, s)
  PROVE  TypeInv'
  <1> DEFINE k == tasks[a][s]
             d == [key |-> RoutingKey(a), n |-> NextDid(a)]
             r == [k.conn EXCEPT !.did = d]
             n == [k EXCEPT !.pc = "dx-sendRequest", !.conn = r]
  <1>1. s \in Slots /\ k \in SoundTasks(s) /\ k \in Tasks /\ k.inv \in Invitations
        /\ k.id \in ConnIds /\ k.conn \in SoundRecords /\ k.conn.role = "requester"
    BY TaskIsSound
    DEF DxCreateRequestDid, At, Slots, SoundTasks, UsesInvitation, UsesRecord
  <1>2. d \in PeerDids
    BY KeysAreKeys DEF PeerDids, TypeInv
  <1>3. SaveDid(a, "created", d) /\ Continue(a, s, n)
    BY DEF DxCreateRequestDid
  <1> HIDE DEF d
  <1>4. r \in SoundRecords /\ r \in ConnectionRecords /\ r.role = "requester" /\ r.did = d
    BY <1>1, <1>2, RecordWithDid
  <1> HIDE DEF r
  <1>5. n \in Tasks /\ n.pc = "dx-sendRequest" /\ n.id = k.id /\ n.conn = r /\ n.inv = k.inv
    BY <1>1, <1>4 DEF Tasks, Steps
  <1> HIDE DEF n
  <1>6. n \in SoundTasks(s)
    BY <1>1, <1>2, <1>4, <1>5 DEF SoundTasks, UsesMessage, UsesInvitation, UsesOob, UsesRecord
  <1> QED
    BY <1>1, <1>2, <1>3, <1>6, SaveDidKeepsType, ContinueKeepsType
    DEF DxCreateRequestDid, TypeInv, OobType, ConnsType, NetType, DidRoles

LEMMA DxSendRequestType ==
  ASSUME TypeInv, NEW a \in Agents, NEW s \in Callers, DxSendRequest(a, s)
  PROVE  TypeInv'
  <1> DEFINE k  == tasks[a][s]
             th == [agent |-> a, conn |-> k.id]
             r  == [k.conn EXCEPT !.state = NextState("dx-request", k.conn), !.thread = th]
             m  == [type |-> "dx-request", from |-> r.did.key, to |-> InvitationKey(k.inv),
                    thread |-> th, inv |-> k.inv, did |-> r.did]
  <1>1. s \in Slots /\ k.inv \in Invitations /\ k.id \in ConnIds /\ k.conn \in SoundRecords
        /\ k.conn.role = "requester" /\ k.conn.did \in PeerDids
    BY TaskIsSound DEF DxSendRequest, At, Slots, SoundTasks, UsesInvitation, UsesRecord
  <1>2. NextState("dx-request", k.conn) = "request-sent" /\ th \in Threads
    BY <1>1, RequesterNextStates DEF Threads
  <1>3. r \in SoundRecords /\ r.did \in PeerDids
    BY <1>1, <1>2 DEF SoundRecords, ConnectionRecords, ConnStates
  <1>4. SaveConnection(a, k.id, r) /\ Send(m) /\ Finish(a, s)
    BY DEF DxSendRequest
  <1> HIDE DEF r, th
  <1>5. m \in SoundMessages
    BY <1>1, <1>2, <1>3, KeysAreKeys
    DEF SoundMessages, Messages, MessageTypes, PeerDids, TypeInv
  <1> HIDE DEF m
  <1> QED
    BY <1>1, <1>3, <1>4, <1>5, SaveConnectionKeepsType, SendKeepsType, FinishKeepsType
    DEF DxSendRequest, TypeInv, OobType, DidsType

LEMMA DxReceiveRequestType ==
  ASSUME TypeInv, NEW a \in Agents, NEW h \in Handlers, NEW m \in net,
         DxReceiveRequest(a, h, m)
  PROVE  TypeInv'
  <1> DEFINE o == oob[a]["sender"][m.inv]
             n == [Idle EXCEPT !.pc = "dx-saveRequesterDid", !.msg = m,
                               !.inv = m.inv, !.oob = o]
  <1>1. h \in Slots /\ m \in SoundMessages /\ m.type = "dx-request" /\ NetType'
    BY DeliveredMessage DEF DxReceiveRequest
  <1>2. m \in Messages /\ m.inv \in Invitations /\ m.did \in PeerDids
    BY <1>1 DEF SoundMessages
  <1>3. o \in OobRecords
    BY <1>2 DEF DxReceiveRequest, DxRequestAcceptable, TypeInv, OobType, OobRoles
  <1>4. Continue(a, h, n)
    BY DEF DxReceiveRequest
  <1> HIDE DEF o
  <1>5. n \in Tasks /\ n.pc = "dx-saveRequesterDid" /\ n.msg = m /\ n.inv = m.inv
    BY <1>2, <1>3 DEF Idle, Tasks, Steps
  <1> HIDE DEF n
  <1>6. n \in SoundTasks(h)
    BY <1>1, <1>2, <1>5 DEF SoundTasks, UsesMessage, UsesInvitation, UsesOob, UsesRecord
  <1> QED
    BY <1>1, <1>4, <1>6, ContinueKeepsType
    DEF DxReceiveRequest, TypeInv, OobType, ConnsType, DidsType

LEMMA DxSaveRequesterDidType ==
  ASSUME TypeInv, NEW a \in Agents, NEW h \in Handlers, DxSaveRequesterDid(a, h)
  PROVE  TypeInv'
  <1> DEFINE k == tasks[a][h]
             n == [k EXCEPT !.pc = "dx-createResponder"]
  <1>1. h \in Slots /\ k \in SoundTasks(h) /\ k \in Tasks /\ k.inv \in Invitations
        /\ k.msg \in SoundMessages /\ k.msg.did \in PeerDids
    BY TaskIsSound
    DEF DxSaveRequesterDid, At, Slots, SoundTasks, UsesInvitation, UsesMessage
  <1>2. SaveDid(a, "received", k.msg.did) /\ Continue(a, h, n)
    BY DEF DxSaveRequesterDid
  <1>3. n \in Tasks /\ n.pc = "dx-createResponder" /\ n.msg = k.msg /\ n.inv = k.inv
    BY <1>1 DEF Tasks, Steps
  <1> HIDE DEF n
  <1>4. n \in SoundTasks(h)
    BY <1>1, <1>3 DEF SoundTasks, UsesMessage, UsesInvitation, UsesOob, UsesRecord
  <1> QED
    BY <1>1, <1>2, <1>4, SaveDidKeepsType, ContinueKeepsType
    DEF DxSaveRequesterDid, TypeInv, OobType, ConnsType, NetType, DidRoles

LEMMA DxCreateResponderType ==
  ASSUME TypeInv, NEW a \in Agents, NEW h \in Handlers, DxCreateResponder(a, h)
  PROVE  TypeInv'
  <1> DEFINE k == tasks[a][h]
             r == [role |-> "responder", state |-> "request-received",
                   protocol |-> "did-exchange", thread |-> k.msg.thread, inv |-> k.inv,
                   did |-> None, theirDid |-> k.msg.did]
             n(c) == [k EXCEPT !.pc = "dx-createResponseDid", !.id = c, !.conn = r]
  <1>1. h \in Slots /\ k \in SoundTasks(h) /\ k \in Tasks /\ k.inv \in Invitations
        /\ k.msg \in SoundMessages /\ k.msg \in Messages /\ k.msg.did \in PeerDids
    BY TaskIsSound
    DEF DxCreateResponder, At, Slots, SoundTasks, UsesInvitation, UsesMessage, SoundMessages
  <1>2. r \in SoundRecords /\ r \in ConnectionRecords /\ r.role = "responder"
    BY <1>1 DEF SoundRecords, ConnectionRecords, ConnRoles, ConnStates,
                ConnectionProtocols, Messages
  <1>3. PICK c \in ConnIds :
          SaveConnection(a, c, r) /\ (Continue(a, h, n(c)) \/ Finish(a, h))
    BY DEF DxCreateResponder
  <1> HIDE DEF r
  <1>4. n(c) \in Tasks /\ n(c).pc = "dx-createResponseDid" /\ n(c).id = c
        /\ n(c).conn = r /\ n(c).inv = k.inv
    BY <1>1, <1>2 DEF Tasks, Steps
  <1> HIDE DEF n
  <1>5. n(c) \in SoundTasks(h)
    BY <1>1, <1>2, <1>4 DEF SoundTasks, UsesMessage, UsesInvitation, UsesOob, UsesRecord
  <1>6. TasksType'
    BY <1>1, <1>3, <1>5, ContinueKeepsType, FinishKeepsType DEF TypeInv
  <1> QED
    BY <1>2, <1>3, <1>6, SaveConnectionKeepsType
    DEF DxCreateResponder, TypeInv, OobType, DidsType, NetType

LEMMA DxCreateResponseDidType ==
  ASSUME TypeInv, NEW a \in Agents, NEW t \in Slots, DxCreateResponseDid(a, t)
  PROVE  TypeInv'
  <1> DEFINE k == tasks[a][t]
             d == [key |-> IF Reusable[k.inv] THEN RoutingKey(a) ELSE InvitationKey(k.inv),
                   n |-> NextDid(a)]
             r == [k.conn EXCEPT !.did = d]
             n == [k EXCEPT !.pc = "dx-sendResponse", !.conn = r]
  <1>1. k \in SoundTasks(t) /\ k \in Tasks /\ k.inv \in Invitations
        /\ k.id \in ConnIds /\ k.conn \in SoundRecords
    BY TaskIsSound DEF DxCreateResponseDid, At, SoundTasks, UsesInvitation, UsesRecord
  <1>2. d \in PeerDids
    BY <1>1, KeysAreKeys DEF PeerDids, TypeInv
  <1>3. CASE CanCreate("dx-response", k.conn)
    <2>1. SaveDid(a, "created", d) /\ Continue(a, t, n)
      BY <1>3 DEF DxCreateResponseDid
    <2>2. k.conn.role = "responder"
      BY <1>3 DEF CanCreate, CreateMessageRules, Rule
    <2> HIDE DEF d
    <2>3. r \in SoundRecords /\ r \in ConnectionRecords /\ r.role = "responder" /\ r.did = d
      BY <1>1, <1>2, <2>2, RecordWithDid
    <2> HIDE DEF r
    <2>4. n \in Tasks /\ n.pc = "dx-sendResponse" /\ n.id = k.id /\ n.conn = r /\ n.inv = k.inv
      BY <1>1, <2>3 DEF Tasks, Steps
    <2> HIDE DEF n
    <2>5. n \in SoundTasks(t)
      BY <1>1, <1>2, <2>3, <2>4
      DEF SoundTasks, UsesMessage, UsesInvitation, UsesOob, UsesRecord
    <2> QED
      BY <1>2, <2>1, <2>5, SaveDidKeepsType, ContinueKeepsType
      DEF DxCreateResponseDid, TypeInv, OobType, ConnsType, NetType, DidRoles
  <1>4. CASE ~CanCreate("dx-response", k.conn)
    BY <1>4, FinishKeepsType
    DEF DxCreateResponseDid, TypeInv, OobType, ConnsType, DidsType, NetType
  <1> QED
    BY <1>3, <1>4

LEMMA DxSendResponseType ==
  ASSUME TypeInv, NEW a \in Agents, NEW t \in Slots, DxSendResponse(a, t)
  PROVE  TypeInv'
  <1> DEFINE k == tasks[a][t]
             r == [k.conn EXCEPT !.state = NextState("dx-response", k.conn)]
             m == [type |-> "dx-response", from |-> r.did.key, to |-> r.theirDid.key,
                   thread |-> r.thread, inv |-> None, did |-> r.did]
  <1>1. k.id \in ConnIds /\ k.conn \in SoundRecords
        /\ k.conn.role = "responder" /\ k.conn.did \in PeerDids
    BY TaskIsSound DEF DxSendResponse, At, SoundTasks, UsesRecord
  <1>2. NextState("dx-response", k.conn) = "response-sent" /\ k.conn.theirDid \in PeerDids
    BY <1>1, ResponderNextStates DEF SoundRecords
  <1>3. r \in SoundRecords /\ r \in ConnectionRecords
        /\ r.did \in PeerDids /\ r.theirDid \in PeerDids
    BY <1>1, <1>2 DEF SoundRecords, ConnectionRecords, ConnStates
  <1>4. SaveConnection(a, k.id, r) /\ Send(m) /\ Finish(a, t)
    BY DEF DxSendResponse
  <1> HIDE DEF r
  <1>5. m \in SoundMessages
    BY <1>3 DEF SoundMessages, Messages, MessageTypes, PeerDids, ConnectionRecords
  <1> HIDE DEF m
  <1> QED
    BY <1>1, <1>3, <1>4, <1>5, SaveConnectionKeepsType, SendKeepsType, FinishKeepsType
    DEF DxSendResponse, TypeInv, OobType, DidsType

LEMMA DxReceiveResponseType ==
  ASSUME TypeInv, NEW a \in Agents, NEW h \in Handlers, NEW m \in net,
         DxReceiveResponse(a, h, m)
  PROVE  TypeInv'
  <1> DEFINE r(c) == conns[a][c]
             o(c) == oob[a]["receiver"][r(c).inv]
             n(c) == [pc |-> "dx-saveResponderDid", msg |-> m, inv |-> r(c).inv,
                      oob |-> o(c), id |-> c, conn |-> r(c)]
  <1>1. h \in Slots /\ m \in SoundMessages /\ m.type = "dx-response" /\ NetType'
    BY DeliveredMessage DEF DxReceiveResponse
  <1>2. m \in Messages /\ m.did \in PeerDids
    BY <1>1 DEF SoundMessages
  <1>3. PICK c \in ConnIds : DxResponseAcceptable(a, c, m) /\ Continue(a, h, n(c))
    BY DEF DxReceiveResponse
  <1>4. r(c) \in SoundRecords /\ r(c).role = "requester" /\ r(c).did # None
    BY <1>3 DEF DxResponseAcceptable, ConnectionsByThread, TypeInv, ConnsType
  <1>5. r(c) \in ConnectionRecords /\ r(c).did \in PeerDids /\ r(c).inv \in Invitations
    BY <1>4 DEF SoundRecords, ConnectionRecords
  <1>6. o(c) \in OobRecords
    BY <1>3, <1>5 DEF DxResponseAcceptable, TypeInv, OobType, OobRoles
  <1> HIDE DEF r, o
  <1>7. n(c) \in Tasks /\ n(c).pc = "dx-saveResponderDid" /\ n(c).msg = m
        /\ n(c).inv = r(c).inv /\ n(c).oob = o(c) /\ n(c).id = c /\ n(c).conn = r(c)
    BY <1>2, <1>5, <1>6 DEF Tasks, Steps
  <1> HIDE DEF n
  <1>8. n(c) \in SoundTasks(h)
    BY <1>1, <1>2, <1>4, <1>5, <1>6, <1>7
    DEF SoundTasks, UsesMessage, UsesInvitation, UsesOob, UsesRecord
  <1> QED
    BY <1>1, <1>3, <1>8, ContinueKeepsType
    DEF DxReceiveResponse, TypeInv, OobType, ConnsType, DidsType

LEMMA DxSaveResponderDidType ==
  ASSUME TypeInv, NEW a \in Agents, NEW h \in Handlers, DxSaveResponderDid(a, h)
  PROVE  TypeInv'
  <1> DEFINE k == tasks[a][h]
             n == [k EXCEPT !.pc = "dx-responseReceived"]
  <1>1. h \in Slots /\ k \in SoundTasks(h) /\ k \in Tasks /\ k.inv \in Invitations
        /\ k.msg \in SoundMessages /\ k.msg.did \in PeerDids /\ k.oob \in OobRecords
        /\ k.id \in ConnIds /\ k.conn \in SoundRecords
        /\ k.conn.role = "requester" /\ k.conn.did \in PeerDids
    BY TaskIsSound
    DEF DxSaveResponderDid, At, Slots, SoundTasks, UsesOob, UsesMessage, UsesRecord
  <1>2. SaveDid(a, "received", k.msg.did) /\ Continue(a, h, n)
    BY DEF DxSaveResponderDid
  <1>3. n \in Tasks /\ n.pc = "dx-responseReceived" /\ n.msg = k.msg /\ n.inv = k.inv
        /\ n.oob = k.oob /\ n.id = k.id /\ n.conn = k.conn
    BY <1>1 DEF Tasks, Steps
  <1> HIDE DEF n
  <1>4. n \in SoundTasks(h)
    BY <1>1, <1>3 DEF SoundTasks, UsesMessage, UsesInvitation, UsesOob, UsesRecord
  <1> QED
    BY <1>1, <1>2, <1>4, SaveDidKeepsType, ContinueKeepsType
    DEF DxSaveResponderDid, TypeInv, OobType, ConnsType, NetType, DidRoles

LEMMA DxResponseReceivedType ==
  ASSUME TypeInv, NEW a \in Agents, NEW h \in Handlers, DxResponseReceived(a, h)
  PROVE  TypeInv'
  <1> DEFINE k == tasks[a][h]
             r == [k.conn EXCEPT !.theirDid = k.msg.did,
                                 !.state = NextState("dx-response", k.conn)]
             n == [k EXCEPT !.pc = "dx-createComplete", !.conn = r]
  <1>1. h \in Slots /\ k \in SoundTasks(h) /\ k \in Tasks /\ k.inv \in Invitations
        /\ k.msg.did \in PeerDids /\ k.oob \in OobRecords
        /\ k.id \in ConnIds /\ k.conn \in SoundRecords
        /\ k.conn.role = "requester" /\ k.conn.did \in PeerDids
    BY TaskIsSound
    DEF DxResponseReceived, At, Slots, SoundTasks, UsesOob, UsesMessage, UsesRecord
  <1>2. NextState("dx-response", k.conn) = "response-received"
    BY <1>1, RequesterNextStates
  <1>3. r \in SoundRecords /\ r \in ConnectionRecords
    BY <1>1, <1>2 DEF SoundRecords, ConnectionRecords, ConnStates
  <1>4. SaveConnection(a, k.id, r) /\ (Continue(a, h, n) \/ Finish(a, h))
    BY DEF DxResponseReceived
  <1> HIDE DEF r
  <1>5. n \in Tasks /\ n.pc = "dx-createComplete" /\ n.inv = k.inv
        /\ n.oob = k.oob /\ n.id = k.id /\ n.conn = r
    BY <1>1, <1>3 DEF Tasks, Steps
  <1> HIDE DEF n
  <1>6. n \in SoundTasks(h)
    BY <1>1, <1>3, <1>5 DEF SoundTasks, UsesMessage, UsesInvitation, UsesOob, UsesRecord
  <1>7. TasksType'
    BY <1>1, <1>4, <1>6, ContinueKeepsType, FinishKeepsType DEF TypeInv
  <1> QED
    BY <1>1, <1>3, <1>4, <1>7, SaveConnectionKeepsType
    DEF DxResponseReceived, TypeInv, OobType, DidsType, NetType

LEMMA CompleteMessageIsSound ==
  ASSUME TypeInv, NEW r \in SoundRecords, IsReady(r)
  PROVE  CompleteMessage(r) \in SoundMessages
  <1>1. r \in ConnectionRecords /\ r.did \in PeerDids /\ r.theirDid \in PeerDids
    BY DEF SoundRecords, IsReady
  <1> QED
    BY <1>1 DEF CompleteMessage, SoundMessages, Messages, MessageTypes, PeerDids,
                ConnectionRecords

LEMMA DxCreateCompleteType ==
  ASSUME TypeInv, NEW a \in Agents, NEW t \in Slots, DxCreateComplete(a, t)
  PROVE  TypeInv'
  <1> DEFINE k == tasks[a][t]
             r == [k.conn EXCEPT !.state = NextState("dx-complete", k.conn)]
             n == [k EXCEPT !.pc = "dx-sendComplete", !.conn = r]
  <1>1. k \in SoundTasks(t) /\ k \in Tasks /\ k.inv \in Invitations
        /\ (t \in Handlers => k.oob \in OobRecords)
        /\ k.id \in ConnIds /\ k.conn \in SoundRecords
    BY TaskIsSound DEF DxCreateComplete, At, SoundTasks, UsesRecord
  <1>2. CASE CanCreate("dx-complete", k.conn)
    <2>1. k.conn.role = "requester" /\ k.conn.state = "response-received"
      BY <1>2 DEF CanCreate, CreateMessageRules, Rule
    <2>2. NextState("dx-complete", k.conn) = "completed"
      BY <2>1, RequesterNextStates
    <2>3. r \in SoundRecords /\ r \in ConnectionRecords /\ IsReady(r)
      BY <1>1, <2>1, <2>2 DEF SoundRecords, ConnectionRecords, ConnStates, IsReady
    <2>4. SaveConnection(a, k.id, r)
      BY <1>2 DEF DxCreateComplete
    <2>5. ConnsType'
      BY <1>1, <2>3, <2>4, SaveConnectionKeepsType DEF TypeInv
    <2>6. CASE t \in Handlers
      <3>1. Continue(a, t, n) /\ UNCHANGED net
        BY <1>2, <2>6 DEF DxCreateComplete
      <3> HIDE DEF r
      <3>2. n \in Tasks /\ n.pc = "dx-sendComplete" /\ n.inv = k.inv
            /\ n.oob = k.oob /\ n.id = k.id /\ n.conn = r
        BY <1>1, <2>3 DEF Tasks, Steps
      <3> HIDE DEF n
      <3>3. n \in SoundTasks(t)
        BY <1>1, <2>3, <2>6, <3>2
        DEF SoundTasks, UsesMessage, UsesInvitation, UsesOob, UsesRecord
      <3> QED
        BY <2>5, <3>1, <3>3, ContinueKeepsType
        DEF DxCreateComplete, TypeInv, OobType, DidsType, NetType
    <2>7. CASE t \notin Handlers
      <3>1. Send(CompleteMessage(r)) /\ Finish(a, t)
        BY <1>2, <2>7 DEF DxCreateComplete
      <3> HIDE DEF r
      <3>2. CompleteMessage(r) \in SoundMessages
        BY <2>3, CompleteMessageIsSound
      <3> QED
        BY <2>5, <3>1, <3>2, FinishKeepsType, SendKeepsType
        DEF DxCreateComplete, TypeInv, OobType, DidsType
    <2> QED
      BY <2>6, <2>7
  <1>3. CASE ~CanCreate("dx-complete", k.conn)
    BY <1>3, FinishKeepsType
    DEF DxCreateComplete, TypeInv, OobType, ConnsType, DidsType, NetType
  <1> QED
    BY <1>2, <1>3

LEMMA DxSendCompleteType ==
  ASSUME TypeInv, NEW a \in Agents, NEW h \in Handlers, DxSendComplete(a, h)
  PROVE  TypeInv'
  <1> DEFINE k == tasks[a][h]
             o == [k.oob EXCEPT !.state = "done"]
  <1>1. h \in Slots /\ k.inv \in Invitations /\ k.oob \in OobRecords
        /\ k.conn \in SoundRecords /\ IsReady(k.conn)
    BY TaskIsSound DEF DxSendComplete, At, Slots, SoundTasks, UsesOob, UsesRecord
  <1>2. o \in OobRecords
    BY <1>1 DEF OobRecords, OobStates
  <1>3. SaveOob(a, "receiver", k.inv, o) /\ Send(CompleteMessage(k.conn)) /\ Finish(a, h)
    BY DEF DxSendComplete
  <1>4. CompleteMessage(k.conn) \in SoundMessages
    BY <1>1, CompleteMessageIsSound
  <1> HIDE DEF o
  <1> QED
    BY <1>1, <1>2, <1>3, <1>4, SaveOobKeepsType, SendKeepsType, FinishKeepsType
    DEF DxSendComplete, TypeInv, ConnsType, DidsType, OobRoles

LEMMA DxReceiveCompleteType ==
  ASSUME TypeInv, NEW a \in Agents, NEW h \in Handlers, NEW m \in net,
         DxReceiveComplete(a, h, m)
  PROVE  TypeInv'
  <1> DEFINE r(c) == conns[a][c]
             o == oob[a]["sender"][m.inv]
             n(c) == [pc |-> IF Reusable[m.inv] THEN "dx-processComplete"
                                                ELSE "dx-closeInvitation",
                      msg |-> m, inv |-> m.inv, oob |-> o, id |-> c, conn |-> r(c)]
  <1>1. h \in Slots /\ m \in SoundMessages /\ m.type = "dx-complete" /\ NetType'
    BY DeliveredMessage DEF DxReceiveComplete
  <1>2. m \in Messages /\ m.inv \in Invitations
    BY <1>1 DEF SoundMessages
  <1>3. PICK c \in ConnIds : DxCompleteAcceptable(a, c, m) /\ Continue(a, h, n(c))
    BY DEF DxReceiveComplete
  <1>4. r(c) \in SoundRecords
    BY <1>3 DEF DxCompleteAcceptable, ContextConnections, FindByKeys, ByKeys,
                ConnectionsByDids, TypeInv, ConnsType
  <1>5. r(c) \in ConnectionRecords
    BY <1>4 DEF SoundRecords
  <1>6. o \in OobRecords
    BY <1>2, <1>3 DEF DxCompleteAcceptable, TypeInv, OobType, OobRoles
  <1> HIDE DEF r, o
  <1>7. n(c) \in Tasks /\ n(c).pc \in {"dx-processComplete", "dx-closeInvitation"}
        /\ n(c).inv = m.inv /\ n(c).oob = o /\ n(c).id = c /\ n(c).conn = r(c)
    BY <1>2, <1>5, <1>6 DEF Tasks, Steps
  <1> HIDE DEF n
  <1>8. n(c) \in SoundTasks(h)
    BY <1>2, <1>4, <1>6, <1>7
    DEF SoundTasks, UsesMessage, UsesInvitation, UsesOob, UsesRecord
  <1> QED
    BY <1>1, <1>3, <1>8, ContinueKeepsType
    DEF DxReceiveComplete, TypeInv, OobType, ConnsType, DidsType

LEMMA DxCloseInvitationType ==
  ASSUME TypeInv, NEW a \in Agents, NEW h \in Handlers, DxCloseInvitation(a, h)
  PROVE  TypeInv'
  <1> DEFINE k == tasks[a][h]
             o == [k.oob EXCEPT !.state = "done"]
             n == [k EXCEPT !.pc = "dx-processComplete"]
  <1>1. h \in Slots /\ k \in SoundTasks(h) /\ k \in Tasks /\ k.inv \in Invitations
        /\ k.oob \in OobRecords /\ k.id \in ConnIds /\ k.conn \in SoundRecords
    BY TaskIsSound DEF DxCloseInvitation, At, Slots, SoundTasks, UsesOob, UsesRecord
  <1>2. o \in OobRecords
    BY <1>1 DEF OobRecords, OobStates
  <1>3. SaveOob(a, "sender", k.inv, o) /\ Continue(a, h, n)
    BY DEF DxCloseInvitation
  <1> HIDE DEF o
  <1>4. n \in Tasks /\ n.pc = "dx-processComplete" /\ n.id = k.id /\ n.conn = k.conn
    BY <1>1 DEF Tasks, Steps
  <1> HIDE DEF n
  <1>5. n \in SoundTasks(h)
    BY <1>1, <1>4 DEF SoundTasks, UsesMessage, UsesInvitation, UsesOob, UsesRecord
  <1> QED
    BY <1>1, <1>2, <1>3, <1>5, SaveOobKeepsType, ContinueKeepsType
    DEF DxCloseInvitation, TypeInv, ConnsType, DidsType, NetType, OobRoles

LEMMA DxProcessCompleteType ==
  ASSUME TypeInv, NEW a \in Agents, NEW h \in Handlers, DxProcessComplete(a, h)
  PROVE  TypeInv'
  <1> DEFINE k == tasks[a][h]
             r == [k.conn EXCEPT !.state = NextState("dx-complete", k.conn)]
  <1>1. h \in Slots /\ k.id \in ConnIds /\ k.conn \in SoundRecords
    BY TaskIsSound DEF DxProcessComplete, At, Slots, SoundTasks, UsesRecord
  <1>2. TasksType'
    BY <1>1, FinishKeepsType DEF DxProcessComplete, TypeInv
  <1>3. ASSUME CanProcess("dx-complete", k.conn), SaveConnection(a, k.id, r)
        PROVE  ConnsType'
    <2>1. k.conn.role = "responder" /\ k.conn.state = "response-sent"
      BY <1>3 DEF CanProcess, ProcessMessageRules, Rule
    <2>2. NextState("dx-complete", k.conn) = "completed"
      BY <2>1, ResponderNextStates
    <2>3. r \in SoundRecords
      BY <1>1, <2>1, <2>2 DEF SoundRecords, ConnectionRecords, ConnStates
    <2> QED
      BY <1>1, <1>3, <2>3, SaveConnectionKeepsType DEF TypeInv
  <1>4. ConnsType'
    BY <1>3 DEF DxProcessComplete, TypeInv, ConnsType
  <1> QED
    BY <1>2, <1>4 DEF DxProcessComplete, TypeInv, OobType, DidsType, NetType

LEMMA DidExchangeKeepsType ==
  ASSUME TypeInv, DidExchangeNext
  PROVE  TypeInv'
  <1>1. Callers \subseteq Slots /\ Handlers \subseteq Slots
    BY DEF Slots
  <1> QED
    BY <1>1, DxCreateConnectionType, DxCreateRequestDidType, DxSendRequestType,
       DxReceiveRequestType, DxSaveRequesterDidType, DxCreateResponderType,
       DxCreateResponseDidType, DxSendResponseType, DxReceiveResponseType,
       DxSaveResponderDidType, DxResponseReceivedType, DxCreateCompleteType,
       DxSendCompleteType, DxReceiveCompleteType, DxCloseInvitationType,
       DxProcessCompleteType
    DEF DidExchangeNext

-------------------------------------------------------------------------------
(* The connection protocol keeps the types *)

LEMMA CxCreateRequestDidType ==
  ASSUME TypeInv, NEW a \in Agents, NEW s \in Callers, CxCreateRequestDid(a, s)
  PROVE  TypeInv'
  <1> DEFINE k == tasks[a][s]
             d == [key |-> RoutingKey(a), n |-> 0]
             r == [role |-> "requester", state |-> "invitation-received",
                   protocol |-> "connections", thread |-> None,
                   inv |-> k.inv, did |-> d, theirDid |-> None]
             n == [k EXCEPT !.pc = "cx-createConnection", !.conn = r]
  <1>1. s \in Slots /\ k \in SoundTasks(s) /\ k \in Tasks /\ k.inv \in Invitations
    BY TaskIsSound DEF CxCreateRequestDid, At, Slots, SoundTasks, UsesInvitation
  <1>2. d \in PeerDids
    BY KeysAreKeys DEF PeerDids, TypeInv
  <1>3. CASE k.oob.state = "prepare-response"
    <2>1. SaveDid(a, "created", d) /\ Continue(a, s, n)
      BY <1>3 DEF CxCreateRequestDid
    <2> HIDE DEF d
    <2>2. r \in SoundRecords /\ r \in ConnectionRecords /\ r.role = "requester" /\ r.did = d
      BY <1>1, <1>2
      DEF SoundRecords, ConnectionRecords, ConnRoles, ConnStates, ConnectionProtocols
    <2> HIDE DEF r
    <2>3. n \in Tasks /\ n.pc = "cx-createConnection" /\ n.conn = r /\ n.inv = k.inv
      BY <1>1, <2>2 DEF Tasks, Steps
    <2> HIDE DEF n
    <2>4. n \in SoundTasks(s)
      BY <1>1, <1>2, <2>2, <2>3
      DEF SoundTasks, UsesMessage, UsesInvitation, UsesOob, UsesRecord
    <2> QED
      BY <1>1, <1>2, <2>1, <2>4, SaveDidKeepsType, ContinueKeepsType
      DEF CxCreateRequestDid, TypeInv, OobType, ConnsType, NetType, DidRoles
  <1>4. CASE k.oob.state # "prepare-response"
    BY <1>1, <1>4, FinishKeepsType
    DEF CxCreateRequestDid, TypeInv, OobType, ConnsType, DidsType, NetType
  <1> QED
    BY <1>3, <1>4

LEMMA CxCreateConnectionType ==
  ASSUME TypeInv, NEW a \in Agents, NEW s \in Callers, CxCreateConnection(a, s)
  PROVE  TypeInv'
  <1> DEFINE k == tasks[a][s]
             r(c) == [k.conn EXCEPT !.thread = [agent |-> a, conn |-> c]]
             n(c) == [k EXCEPT !.pc = "cx-sendRequest", !.id = c, !.conn = r(c)]
  <1>1. s \in Slots /\ k \in SoundTasks(s) /\ k \in Tasks /\ k.inv \in Invitations
        /\ k.conn \in SoundRecords /\ k.conn.role = "requester" /\ k.conn.did \in PeerDids
    BY TaskIsSound DEF CxCreateConnection, At, Slots, SoundTasks, UsesInvitation
  <1>2. PICK c \in ConnIds : SaveConnection(a, c, r(c)) /\ Continue(a, s, n(c))
    BY DEF CxCreateConnection
  <1>3. r(c) \in SoundRecords /\ r(c) \in ConnectionRecords /\ r(c).role = "requester"
        /\ r(c).did \in PeerDids
    BY <1>1 DEF SoundRecords, ConnectionRecords, Threads
  <1> HIDE DEF r
  <1>4. n(c) \in Tasks /\ n(c).pc = "cx-sendRequest" /\ n(c).id = c
        /\ n(c).conn = r(c) /\ n(c).inv = k.inv
    BY <1>1, <1>3 DEF Tasks, Steps
  <1> HIDE DEF n
  <1>5. n(c) \in SoundTasks(s)
    BY <1>1, <1>3, <1>4 DEF SoundTasks, UsesMessage, UsesInvitation, UsesOob, UsesRecord
  <1> QED
    BY <1>1, <1>2, <1>3, <1>5, SaveConnectionKeepsType, ContinueKeepsType
    DEF CxCreateConnection, TypeInv, OobType, DidsType, NetType

LEMMA CxSendRequestType ==
  ASSUME TypeInv, NEW a \in Agents, NEW s \in Callers, CxSendRequest(a, s)
  PROVE  TypeInv'
  <1> DEFINE k == tasks[a][s]
             r == [k.conn EXCEPT !.state = "request-sent"]
             m == [type |-> "cx-request", from |-> r.did.key, to |-> InvitationKey(k.inv),
                   thread |-> r.thread, inv |-> k.inv, did |-> r.did]
  <1>1. s \in Slots /\ k.inv \in Invitations /\ k.id \in ConnIds /\ k.conn \in SoundRecords
        /\ k.conn.did \in PeerDids
    BY TaskIsSound DEF CxSendRequest, At, Slots, SoundTasks, UsesInvitation, UsesRecord
  <1>2. r \in SoundRecords /\ r \in ConnectionRecords /\ r.did \in PeerDids
    BY <1>1 DEF SoundRecords, ConnectionRecords, ConnStates
  <1>3. SaveConnection(a, k.id, r) /\ Send(m) /\ Finish(a, s)
    BY DEF CxSendRequest
  <1> HIDE DEF r
  <1>4. m \in SoundMessages
    BY <1>1, <1>2, KeysAreKeys
    DEF SoundMessages, Messages, MessageTypes, PeerDids, ConnectionRecords, TypeInv
  <1> HIDE DEF m
  <1> QED
    BY <1>1, <1>2, <1>3, <1>4, SaveConnectionKeepsType, SendKeepsType, FinishKeepsType
    DEF CxSendRequest, TypeInv, OobType, DidsType

LEMMA CxReceiveRequestType ==
  ASSUME TypeInv, NEW a \in Agents, NEW h \in Handlers, NEW m \in net,
         CxReceiveRequest(a, h, m)
  PROVE  TypeInv'
  <1> DEFINE o(i) == oob[a]["sender"][i]
             n(i) == [Idle EXCEPT !.pc = "cx-saveRequesterDid", !.msg = m,
                                  !.inv = i, !.oob = o(i)]
  <1>1. h \in Slots /\ m \in SoundMessages /\ m.type = "cx-request" /\ NetType'
    BY DeliveredMessage DEF CxReceiveRequest
  <1>2. m \in Messages /\ m.did \in PeerDids
    BY <1>1 DEF SoundMessages
  <1>3. PICK i \in Invitations : CxRequestAcceptable(a, i, m) /\ Continue(a, h, n(i))
    BY DEF CxReceiveRequest
  <1>4. o(i) \in OobRecords
    BY <1>3 DEF CxRequestAcceptable, OobsByKey, TypeInv, OobType, OobRoles
  <1> HIDE DEF o
  <1>5. n(i) \in Tasks /\ n(i).pc = "cx-saveRequesterDid" /\ n(i).msg = m /\ n(i).inv = i
    BY <1>2, <1>4 DEF Idle, Tasks, Steps
  <1> HIDE DEF n
  <1>6. n(i) \in SoundTasks(h)
    BY <1>1, <1>2, <1>5 DEF SoundTasks, UsesMessage, UsesInvitation, UsesOob, UsesRecord
  <1> QED
    BY <1>1, <1>3, <1>6, ContinueKeepsType
    DEF CxReceiveRequest, TypeInv, OobType, ConnsType, DidsType

LEMMA CxSaveRequesterDidType ==
  ASSUME TypeInv, NEW a \in Agents, NEW h \in Handlers, CxSaveRequesterDid(a, h)
  PROVE  TypeInv'
  <1> DEFINE k == tasks[a][h]
             n == [k EXCEPT !.pc = "cx-createResponder"]
  <1>1. h \in Slots /\ k \in SoundTasks(h) /\ k \in Tasks /\ k.inv \in Invitations
        /\ k.msg \in SoundMessages /\ k.msg.did \in PeerDids
    BY TaskIsSound
    DEF CxSaveRequesterDid, At, Slots, SoundTasks, UsesInvitation, UsesMessage
  <1>2. SaveDid(a, "received", k.msg.did) /\ Continue(a, h, n)
    BY DEF CxSaveRequesterDid
  <1>3. n \in Tasks /\ n.pc = "cx-createResponder" /\ n.msg = k.msg /\ n.inv = k.inv
    BY <1>1 DEF Tasks, Steps
  <1> HIDE DEF n
  <1>4. n \in SoundTasks(h)
    BY <1>1, <1>3 DEF SoundTasks, UsesMessage, UsesInvitation, UsesOob, UsesRecord
  <1> QED
    BY <1>1, <1>2, <1>4, SaveDidKeepsType, ContinueKeepsType
    DEF CxSaveRequesterDid, TypeInv, OobType, ConnsType, NetType, DidRoles

LEMMA CxCreateResponderType ==
  ASSUME TypeInv, NEW a \in Agents, NEW h \in Handlers, CxCreateResponder(a, h)
  PROVE  TypeInv'
  <1> DEFINE k == tasks[a][h]
             r == [role |-> "responder", state |-> "request-received",
                   protocol |-> "connections", thread |-> k.msg.thread, inv |-> k.inv,
                   did |-> None, theirDid |-> k.msg.did]
             n(c) == [k EXCEPT !.pc = "cx-createResponseDid", !.id = c, !.conn = r]
  <1>1. h \in Slots /\ k \in SoundTasks(h) /\ k \in Tasks /\ k.inv \in Invitations
        /\ k.msg \in SoundMessages /\ k.msg \in Messages /\ k.msg.did \in PeerDids
    BY TaskIsSound
    DEF CxCreateResponder, At, Slots, SoundTasks, UsesInvitation, UsesMessage, SoundMessages
  <1>2. r \in SoundRecords /\ r \in ConnectionRecords /\ r.role = "responder"
    BY <1>1 DEF SoundRecords, ConnectionRecords, ConnRoles, ConnStates,
                ConnectionProtocols, Messages
  <1>3. PICK c \in ConnIds :
          SaveConnection(a, c, r) /\ (Continue(a, h, n(c)) \/ Finish(a, h))
    BY DEF CxCreateResponder
  <1> HIDE DEF r
  <1>4. n(c) \in Tasks /\ n(c).pc = "cx-createResponseDid" /\ n(c).id = c
        /\ n(c).conn = r /\ n(c).inv = k.inv
    BY <1>1, <1>2 DEF Tasks, Steps
  <1> HIDE DEF n
  <1>5. n(c) \in SoundTasks(h)
    BY <1>1, <1>2, <1>4 DEF SoundTasks, UsesMessage, UsesInvitation, UsesOob, UsesRecord
  <1>6. TasksType'
    BY <1>1, <1>3, <1>5, ContinueKeepsType, FinishKeepsType DEF TypeInv
  <1> QED
    BY <1>2, <1>3, <1>6, SaveConnectionKeepsType
    DEF CxCreateResponder, TypeInv, OobType, DidsType, NetType

LEMMA CxCreateResponseDidType ==
  ASSUME TypeInv, NEW a \in Agents, NEW t \in Slots, CxCreateResponseDid(a, t)
  PROVE  TypeInv'
  <1> DEFINE k == tasks[a][t]
             d == [key |-> IF Reusable[k.inv] THEN RoutingKey(a) ELSE InvitationKey(k.inv),
                   n |-> 0]
             r == [k.conn EXCEPT !.did = d]
             n == [k EXCEPT !.pc = "cx-sendResponse", !.conn = r]
             accepted == k.conn.state = "request-received" /\ k.conn.role = "responder"
  <1>1. k \in SoundTasks(t) /\ k \in Tasks /\ k.inv \in Invitations
        /\ k.id \in ConnIds /\ k.conn \in SoundRecords
    BY TaskIsSound DEF CxCreateResponseDid, At, SoundTasks, UsesInvitation, UsesRecord
  <1>2. d \in PeerDids
    BY <1>1, KeysAreKeys DEF PeerDids, TypeInv
  <1>3. CASE accepted
    <2>1. SaveDid(a, "created", d) /\ Continue(a, t, n)
      BY <1>3 DEF CxCreateResponseDid
    <2> HIDE DEF d
    <2>2. r \in SoundRecords /\ r \in ConnectionRecords /\ r.role = "responder" /\ r.did = d
      BY <1>1, <1>2, <1>3, RecordWithDid
    <2> HIDE DEF r
    <2>3. n \in Tasks /\ n.pc = "cx-sendResponse" /\ n.id = k.id /\ n.conn = r /\ n.inv = k.inv
      BY <1>1, <2>2 DEF Tasks, Steps
    <2> HIDE DEF n
    <2>4. n \in SoundTasks(t)
      BY <1>1, <1>2, <2>2, <2>3
      DEF SoundTasks, UsesMessage, UsesInvitation, UsesOob, UsesRecord
    <2> QED
      BY <1>2, <2>1, <2>4, SaveDidKeepsType, ContinueKeepsType
      DEF CxCreateResponseDid, TypeInv, OobType, ConnsType, NetType, DidRoles
  <1>4. CASE ~accepted
    BY <1>4, FinishKeepsType
    DEF CxCreateResponseDid, TypeInv, OobType, ConnsType, DidsType, NetType
  <1> QED
    BY <1>3, <1>4

LEMMA CxSendResponseType ==
  ASSUME TypeInv, NEW a \in Agents, NEW t \in Slots, CxSendResponse(a, t)
  PROVE  TypeInv'
  <1> DEFINE k == tasks[a][t]
             r == [k.conn EXCEPT !.state = "response-sent"]
             m == [type |-> "cx-response", from |-> r.did.key, to |-> r.theirDid.key,
                   thread |-> r.thread, inv |-> k.inv, did |-> r.did]
  <1>1. k.id \in ConnIds /\ k.inv \in Invitations /\ k.conn \in SoundRecords
        /\ k.conn.role = "responder" /\ k.conn.did \in PeerDids
    BY TaskIsSound DEF CxSendResponse, At, SoundTasks, UsesInvitation, UsesRecord
  <1>2. r \in SoundRecords /\ r \in ConnectionRecords
        /\ r.did \in PeerDids /\ r.theirDid \in PeerDids
    BY <1>1 DEF SoundRecords, ConnectionRecords, ConnStates
  <1>3. SaveConnection(a, k.id, r) /\ Send(m) /\ Finish(a, t)
    BY DEF CxSendResponse
  <1> HIDE DEF r
  <1>4. m \in SoundMessages
    BY <1>1, <1>2 DEF SoundMessages, Messages, MessageTypes, PeerDids, ConnectionRecords
  <1> HIDE DEF m
  <1> QED
    BY <1>1, <1>2, <1>3, <1>4, SaveConnectionKeepsType, SendKeepsType, FinishKeepsType
    DEF CxSendResponse, TypeInv, OobType, DidsType

LEMMA CxReceiveResponseType ==
  ASSUME TypeInv, NEW a \in Agents, NEW h \in Handlers, NEW m \in net,
         CxReceiveResponse(a, h, m)
  PROVE  TypeInv'
  <1> DEFINE r(c) == conns[a][c]
             o(c) == oob[a]["receiver"][r(c).inv]
             n(c) == [pc |-> "cx-saveResponderDid", msg |-> m, inv |-> r(c).inv,
                      oob |-> o(c), id |-> c, conn |-> r(c)]
  <1>1. h \in Slots /\ m \in SoundMessages /\ m.type = "cx-response" /\ NetType'
    BY DeliveredMessage DEF CxReceiveResponse
  <1>2. m \in Messages /\ m.did \in PeerDids
    BY <1>1 DEF SoundMessages
  <1>3. PICK c \in ConnIds : CxResponseAcceptable(a, c, m) /\ Continue(a, h, n(c))
    BY DEF CxReceiveResponse
  <1>4. r(c) \in SoundRecords /\ r(c).role = "requester" /\ r(c).did # None
    BY <1>3 DEF CxResponseAcceptable, ConnectionsByThread, TypeInv, ConnsType
  <1>5. r(c) \in ConnectionRecords /\ r(c).did \in PeerDids /\ r(c).inv \in Invitations
    BY <1>4 DEF SoundRecords, ConnectionRecords
  <1>6. o(c) \in OobRecords
    BY <1>3, <1>5 DEF CxResponseAcceptable, TypeInv, OobType, OobRoles
  <1> HIDE DEF r, o
  <1>7. n(c) \in Tasks /\ n(c).pc = "cx-saveResponderDid" /\ n(c).msg = m
        /\ n(c).id = c /\ n(c).conn = r(c)
    BY <1>2, <1>5, <1>6 DEF Tasks, Steps
  <1> HIDE DEF n
  <1>8. n(c) \in SoundTasks(h)
    BY <1>1, <1>2, <1>4, <1>5, <1>7
    DEF SoundTasks, UsesMessage, UsesInvitation, UsesOob, UsesRecord
  <1> QED
    BY <1>1, <1>3, <1>8, ContinueKeepsType
    DEF CxReceiveResponse, TypeInv, OobType, ConnsType, DidsType

LEMMA CxSaveResponderDidType ==
  ASSUME TypeInv, NEW a \in Agents, NEW h \in Handlers, CxSaveResponderDid(a, h)
  PROVE  TypeInv'
  <1> DEFINE k == tasks[a][h]
             n == [k EXCEPT !.pc = "cx-responseReceived"]
  <1>1. h \in Slots /\ k \in SoundTasks(h) /\ k \in Tasks
        /\ k.msg \in SoundMessages /\ k.msg.did \in PeerDids
        /\ k.id \in ConnIds /\ k.conn \in SoundRecords
        /\ k.conn.role = "requester" /\ k.conn.did \in PeerDids
    BY TaskIsSound DEF CxSaveResponderDid, At, Slots, SoundTasks, UsesMessage, UsesRecord
  <1>2. SaveDid(a, "received", k.msg.did) /\ Continue(a, h, n)
    BY DEF CxSaveResponderDid
  <1>3. n \in Tasks /\ n.pc = "cx-responseReceived" /\ n.msg = k.msg
        /\ n.id = k.id /\ n.conn = k.conn
    BY <1>1 DEF Tasks, Steps
  <1> HIDE DEF n
  <1>4. n \in SoundTasks(h)
    BY <1>1, <1>3 DEF SoundTasks, UsesMessage, UsesInvitation, UsesOob, UsesRecord
  <1> QED
    BY <1>1, <1>2, <1>4, SaveDidKeepsType, ContinueKeepsType
    DEF CxSaveResponderDid, TypeInv, OobType, ConnsType, NetType, DidRoles

LEMMA CxResponseReceivedType ==
  ASSUME TypeInv, NEW a \in Agents, NEW h \in Handlers, CxResponseReceived(a, h)
  PROVE  TypeInv'
  <1> DEFINE k == tasks[a][h]
             r == [k.conn EXCEPT !.theirDid = k.msg.did, !.thread = k.msg.thread,
                                 !.state = "response-received"]
             n == [k EXCEPT !.pc = "cx-sendPing", !.conn = r]
  <1>1. h \in Slots /\ k \in SoundTasks(h) /\ k \in Tasks /\ k.msg \in Messages
        /\ k.msg.did \in PeerDids /\ k.id \in ConnIds /\ k.conn \in SoundRecords
        /\ k.conn.role = "requester" /\ k.conn.did \in PeerDids
    BY TaskIsSound
    DEF CxResponseReceived, At, Slots, SoundTasks, UsesMessage, UsesRecord, SoundMessages
  <1>2. r \in SoundRecords /\ r \in ConnectionRecords
    BY <1>1 DEF SoundRecords, ConnectionRecords, ConnStates, Messages
  <1>3. SaveConnection(a, k.id, r) /\ (Continue(a, h, n) \/ Finish(a, h))
    BY DEF CxResponseReceived
  <1> HIDE DEF r
  <1>4. n \in Tasks /\ n.pc = "cx-sendPing" /\ n.id = k.id /\ n.conn = r
    BY <1>1, <1>2 DEF Tasks, Steps
  <1> HIDE DEF n
  <1>5. n \in SoundTasks(h)
    BY <1>1, <1>2, <1>4 DEF SoundTasks, UsesMessage, UsesInvitation, UsesOob, UsesRecord
  <1>6. TasksType'
    BY <1>1, <1>3, <1>5, ContinueKeepsType, FinishKeepsType DEF TypeInv
  <1> QED
    BY <1>1, <1>2, <1>3, <1>6, SaveConnectionKeepsType
    DEF CxResponseReceived, TypeInv, OobType, DidsType, NetType

LEMMA CxSendPingType ==
  ASSUME TypeInv, NEW a \in Agents, NEW t \in Slots, CxSendPing(a, t)
  PROVE  TypeInv'
  <1> DEFINE k == tasks[a][t]
             r == [k.conn EXCEPT !.state = "completed"]
             m == [type |-> "ping", from |-> k.conn.did.key, to |-> k.conn.theirDid.key,
                   thread |-> None, inv |-> None, did |-> None]
  <1>1. k.id \in ConnIds /\ k.conn \in SoundRecords
    BY TaskIsSound DEF CxSendPing, At, SoundTasks, UsesRecord
  <1>2. TasksType'
    BY FinishKeepsType DEF CxSendPing, TypeInv
  <1>3. CASE k.conn.state \in {"response-received", "completed"}
    <2>1. k.conn \in ConnectionRecords /\ k.conn.did \in PeerDids /\ k.conn.theirDid \in PeerDids
      BY <1>1, <1>3 DEF SoundRecords
    <2>2. r \in SoundRecords
      BY <2>1, <1>1 DEF SoundRecords, ConnectionRecords, ConnStates
    <2>3. (SaveConnection(a, k.id, r) \/ UNCHANGED conns) /\ Send(m)
      BY <1>3 DEF CxSendPing
    <2>4. m \in SoundMessages
      BY <2>1 DEF SoundMessages, Messages, MessageTypes, PeerDids
    <2> HIDE DEF r, m
    <2>5. NetType'
      BY <2>3, <2>4, SendKeepsType DEF TypeInv
    <2>6. ConnsType'
      BY <1>1, <2>2, <2>3, SaveConnectionKeepsType DEF TypeInv, ConnsType
    <2> QED
      BY <1>2, <2>5, <2>6 DEF CxSendPing, TypeInv, OobType, DidsType
  <1>4. CASE k.conn.state \notin {"response-received", "completed"}
    BY <1>2, <1>4 DEF CxSendPing, TypeInv, OobType, ConnsType, DidsType, NetType
  <1> QED
    BY <1>3, <1>4

LEMMA CxReceivePingType ==
  ASSUME TypeInv, NEW a \in Agents, NEW h \in Handlers, NEW m \in net,
         CxReceivePing(a, h, m)
  PROVE  TypeInv'
  <1> DEFINE r(c) == conns[a][c]
             n(c) == [Idle EXCEPT !.pc = "cx-complete", !.msg = m, !.id = c, !.conn = r(c)]
  <1>1. h \in Slots /\ m \in SoundMessages /\ m \in Messages /\ NetType'
    BY DeliveredMessage DEF CxReceivePing, SoundMessages
  <1>2. PICK c \in ConnIds : PingCompletes(a, c, m) /\ Continue(a, h, n(c))
    BY DEF CxReceivePing
  <1>3. r(c) \in SoundRecords /\ IsReady(r(c))
    BY <1>2 DEF PingCompletes, ContextConnections, FindByKeys, ByKeys,
                ConnectionsByDids, IsReady, TypeInv, ConnsType
  <1>4. r(c) \in ConnectionRecords
    BY <1>3 DEF SoundRecords
  <1> HIDE DEF r
  <1>5. n(c) \in Tasks /\ n(c).pc = "cx-complete" /\ n(c).id = c /\ n(c).conn = r(c)
    BY <1>1, <1>4 DEF Idle, Tasks, Steps
  <1> HIDE DEF n
  <1>6. n(c) \in SoundTasks(h)
    BY <1>3, <1>5 DEF SoundTasks, UsesMessage, UsesInvitation, UsesOob, UsesRecord
  <1> QED
    BY <1>1, <1>2, <1>6, ContinueKeepsType
    DEF CxReceivePing, TypeInv, OobType, ConnsType, DidsType

LEMMA CxCompleteType ==
  ASSUME TypeInv, NEW a \in Agents, NEW h \in Handlers, CxComplete(a, h)
  PROVE  TypeInv'
  <1> DEFINE k == tasks[a][h]
             r == [k.conn EXCEPT !.state = "completed"]
  <1>1. h \in Slots /\ k.id \in ConnIds /\ k.conn \in SoundRecords /\ IsReady(k.conn)
    BY TaskIsSound DEF CxComplete, At, Slots, SoundTasks, UsesRecord
  <1>2. r \in SoundRecords
    BY <1>1 DEF SoundRecords, ConnectionRecords, ConnStates, IsReady
  <1>3. SaveConnection(a, k.id, r) /\ Finish(a, h)
    BY DEF CxComplete
  <1> HIDE DEF r
  <1> QED
    BY <1>1, <1>2, <1>3, SaveConnectionKeepsType, FinishKeepsType
    DEF CxComplete, TypeInv, OobType, DidsType, NetType

LEMMA PeerReportsProblemType ==
  ASSUME TypeInv, NEW a \in Agents, NEW c \in ConnIds, PeerReportsProblem(a, c)
  PROVE  TypeInv'
  <1> DEFINE r == conns[a][c]
             m == [type |-> "problem-report", from |-> r.did.key, to |-> r.theirDid.key,
                   thread |-> None, inv |-> None, did |-> None]
  <1>1. r \in ConnectionRecords /\ r.did \in PeerDids /\ r.theirDid \in PeerDids
    BY DEF PeerReportsProblem, TypeInv, ConnsType, SoundRecords, ConnectionRecords
  <1>2. Send(m)
    BY DEF PeerReportsProblem
  <1> HIDE DEF r
  <1>3. m \in SoundMessages
    BY <1>1 DEF SoundMessages, Messages, MessageTypes, PeerDids
  <1> HIDE DEF m
  <1> QED
    BY <1>2, <1>3, SendKeepsType
    DEF PeerReportsProblem, TypeInv, OobType, ConnsType, DidsType, TasksType

LEMMA CxReceiveProblemReportType ==
  ASSUME TypeInv, NEW a \in Agents, NEW h \in Handlers, NEW m \in net,
         CxReceiveProblemReport(a, h, m)
  PROVE  TypeInv'
  <1> DEFINE r(c) == conns[a][c]
             n(c) == [Idle EXCEPT !.pc = "cx-abandon", !.msg = m, !.id = c, !.conn = r(c)]
  <1>1. h \in Slots /\ m \in SoundMessages /\ m \in Messages /\ NetType'
    BY DeliveredMessage DEF CxReceiveProblemReport, SoundMessages
  <1>2. PICK c \in ConnIds : ReportConcerns(a, c, m) /\ Continue(a, h, n(c))
    BY DEF CxReceiveProblemReport
  <1>3. r(c) \in SoundRecords
    BY <1>2 DEF ReportConcerns, ConnectionsByOurDid, TypeInv, ConnsType
  <1>4. r(c) \in ConnectionRecords
    BY <1>3 DEF SoundRecords
  <1> HIDE DEF r
  <1>5. n(c) \in Tasks /\ n(c).pc = "cx-abandon" /\ n(c).id = c /\ n(c).conn = r(c)
    BY <1>1, <1>4 DEF Idle, Tasks, Steps
  <1> HIDE DEF n
  <1>6. n(c) \in SoundTasks(h)
    BY <1>3, <1>5 DEF SoundTasks, UsesMessage, UsesInvitation, UsesOob, UsesRecord
  <1> QED
    BY <1>1, <1>2, <1>6, ContinueKeepsType
    DEF CxReceiveProblemReport, TypeInv, OobType, ConnsType, DidsType

LEMMA CxAbandonType ==
  ASSUME TypeInv, NEW a \in Agents, NEW h \in Handlers, CxAbandon(a, h)
  PROVE  TypeInv'
  <1> DEFINE k == tasks[a][h]
             r == [k.conn EXCEPT !.state = "abandoned"]
  <1>1. h \in Slots /\ k.id \in ConnIds /\ k.conn \in SoundRecords
    BY TaskIsSound DEF CxAbandon, At, Slots, SoundTasks, UsesRecord
  <1>2. r \in SoundRecords
    BY <1>1 DEF SoundRecords, ConnectionRecords, ConnStates
  <1>3. SaveConnection(a, k.id, r) /\ Finish(a, h)
    BY DEF CxAbandon
  <1> HIDE DEF r
  <1> QED
    BY <1>1, <1>2, <1>3, SaveConnectionKeepsType, FinishKeepsType
    DEF CxAbandon, TypeInv, OobType, DidsType, NetType

LEMMA ConnectionProtocolKeepsType ==
  ASSUME TypeInv, ConnectionProtocolNext
  PROVE  TypeInv'
  <1>1. Callers \subseteq Slots /\ Handlers \subseteq Slots
    BY DEF Slots
  <1> QED
    BY <1>1, CxCreateRequestDidType, CxCreateConnectionType, CxSendRequestType,
       CxReceiveRequestType, CxSaveRequesterDidType, CxCreateResponderType,
       CxCreateResponseDidType, CxSendResponseType, CxReceiveResponseType,
       CxSaveResponderDidType, CxResponseReceivedType, CxSendPingType,
       CxReceivePingType, CxCompleteType, PeerReportsProblemType,
       CxReceiveProblemReportType, CxAbandonType
    DEF ConnectionProtocolNext

-------------------------------------------------------------------------------
(* The out-of-band protocol keeps the types *)

LEMMA CreateInvitationType ==
  ASSUME TypeInv, NEW a \in Agents, NEW i \in Invitations, CreateInvitation(a, i)
  PROVE  TypeInv'
  <1> DEFINE o == [state |-> "await-response", reuse |-> None]
  <1>1. o \in OobRecords
    BY DEF OobRecords, OobStates
  <1>2. SaveOob(a, "sender", i, o)
    BY DEF CreateInvitation
  <1> HIDE DEF o
  <1> QED
    BY <1>1, <1>2, SaveOobKeepsType
    DEF CreateInvitation, TypeInv, ConnsType, DidsType, NetType, TasksType, OobRoles

LEMMA ReceiveInvitationType ==
  ASSUME TypeInv, NEW a \in Agents, NEW i \in Invitations, ReceiveInvitation(a, i)
  PROVE  TypeInv'
  <1> DEFINE o == [state |-> "initial", reuse |-> None]
  <1>1. o \in OobRecords
    BY DEF OobRecords, OobStates
  <1>2. SaveOob(a, "receiver", i, o)
    BY DEF ReceiveInvitation
  <1> HIDE DEF o
  <1> QED
    BY <1>1, <1>2, SaveOobKeepsType
    DEF ReceiveInvitation, TypeInv, ConnsType, DidsType, NetType, TasksType, OobRoles

LEMMA AcceptInvitationType ==
  ASSUME TypeInv, NEW a \in Agents, NEW s \in Callers, NEW i \in Invitations,
         AcceptInvitation(a, s, i)
  PROVE  TypeInv'
  <1> DEFINE o == [oob[a]["receiver"][i] EXCEPT !.state = "prepare-response"]
             reusing(c) == [Idle EXCEPT !.pc = "oob-createReuse", !.inv = i, !.oob = o,
                                        !.id = c, !.conn = conns[a][c]]
             asking == [Idle EXCEPT !.pc = RequestPc(i), !.inv = i, !.oob = o]
  <1>1. s \in Slots /\ o \in OobRecords
    <2>1. oob[a]["receiver"][i] # None
      BY DEF AcceptInvitation
    <2>2. oob[a]["receiver"][i] \in OobRecords
      BY <2>1 DEF TypeInv, OobType, OobRoles
    <2> QED
      BY <2>2 DEF OobRecords, OobStates, Slots
  <1>2. /\ SaveOob(a, "receiver", i, o)
        /\ \/ \E c \in ExistingConnections(a, i) : Continue(a, s, reusing(c))
           \/ Continue(a, s, asking)
    BY DEF AcceptInvitation
  <1> HIDE DEF o
  <1>3. ASSUME NEW c \in ExistingConnections(a, i)
        PROVE  reusing(c) \in SoundTasks(s)
    <2>1. c \in ConnIds /\ conns[a][c] \in SoundRecords /\ conns[a][c] \in ConnectionRecords
      BY DEF ExistingConnections, TypeInv, ConnsType, SoundRecords
    <2>2. reusing(c) \in Tasks /\ reusing(c).pc = "oob-createReuse" /\ reusing(c).inv = i
          /\ reusing(c).oob = o /\ reusing(c).id = c /\ reusing(c).conn = conns[a][c]
      BY <1>1, <2>1 DEF Idle, Tasks, Steps
    <2> HIDE DEF reusing
    <2> QED
      BY <1>1, <2>1, <2>2 DEF SoundTasks, UsesMessage, UsesInvitation, UsesOob, UsesRecord
  <1>4. asking \in SoundTasks(s)
    <2>1. RequestPc(i) \in {"dx-createConnection", "cx-createRequestDid"}
      BY DEF RequestPc
    <2>2. asking \in Tasks /\ asking.pc = RequestPc(i) /\ asking.inv = i
      BY <1>1, <2>1 DEF Idle, Tasks, Steps
    <2> HIDE DEF asking
    <2> QED
      BY <2>1, <2>2 DEF SoundTasks, UsesMessage, UsesInvitation, UsesOob, UsesRecord
  <1> HIDE DEF reusing, asking
  <1>5. TasksType'
    BY <1>1, <1>2, <1>3, <1>4, ContinueKeepsType DEF TypeInv
  <1> QED
    BY <1>1, <1>2, <1>5, SaveOobKeepsType
    DEF AcceptInvitation, TypeInv, ConnsType, DidsType, NetType, OobRoles

LEMMA CreateHandshakeReuseType ==
  ASSUME TypeInv, NEW a \in Agents, NEW s \in Callers, CreateHandshakeReuse(a, s)
  PROVE  TypeInv'
  <1> DEFINE k == tasks[a][s]
             o == [k.oob EXCEPT !.reuse = k.id]
             m == [type |-> "reuse", from |-> k.conn.did.key, to |-> k.conn.theirDid.key,
                   thread |-> None, inv |-> k.inv, did |-> None]
             n == [k EXCEPT !.pc = "oob-awaitReuse", !.oob = o]
  <1>1. s \in Slots /\ k \in SoundTasks(s) /\ k \in Tasks /\ k.inv \in Invitations
        /\ k.oob \in OobRecords /\ k.id \in ConnIds /\ k.conn \in SoundRecords
    BY TaskIsSound DEF CreateHandshakeReuse, At, Slots, SoundTasks, UsesOob, UsesRecord
  <1>2. o \in OobRecords
    BY <1>1 DEF OobRecords
  <1>3. OobType'
    BY <1>1, <1>2, SaveOobKeepsType DEF CreateHandshakeReuse, TypeInv, OobRoles
  <1>4. CASE k.conn.did # None /\ k.conn.theirDid # None
    <2>1. Send(m) /\ Continue(a, s, n)
      BY <1>4 DEF CreateHandshakeReuse
    <2> HIDE DEF o
    <2>2. k.conn.did \in PeerDids /\ k.conn.theirDid \in PeerDids
      BY <1>1, <1>4 DEF SoundRecords, ConnectionRecords
    <2>3. m \in SoundMessages
      BY <1>1, <2>2 DEF SoundMessages, Messages, MessageTypes, PeerDids
    <2>4. n \in Tasks /\ n.pc = "oob-awaitReuse" /\ n.inv = k.inv
      BY <1>1, <1>2 DEF Tasks, Steps
    <2> HIDE DEF n, m
    <2>5. n \in SoundTasks(s)
      BY <1>1, <2>4 DEF SoundTasks, UsesMessage, UsesInvitation, UsesOob, UsesRecord
    <2> QED
      BY <1>1, <1>3, <2>1, <2>3, <2>5, SendKeepsType, ContinueKeepsType
      DEF CreateHandshakeReuse, TypeInv, ConnsType, DidsType
  <1>5. CASE ~(k.conn.did # None /\ k.conn.theirDid # None)
    BY <1>1, <1>3, <1>5, FinishKeepsType
    DEF CreateHandshakeReuse, TypeInv, ConnsType, DidsType, NetType
  <1> QED
    BY <1>4, <1>5

LEMMA ReuseTimesOutType ==
  ASSUME TypeInv, NEW a \in Agents, NEW s \in Callers, ReuseTimesOut(a, s)
  PROVE  TypeInv'
  <1> DEFINE k == tasks[a][s]
             n == [k EXCEPT !.pc = RequestPc(k.inv), !.id = None, !.conn = None]
  <1>1. s \in Slots /\ k \in SoundTasks(s) /\ k \in Tasks /\ k.inv \in Invitations
    BY TaskIsSound DEF ReuseTimesOut, At, Slots, SoundTasks, UsesInvitation
  <1>2. RequestPc(k.inv) \in {"dx-createConnection", "cx-createRequestDid"}
    BY DEF RequestPc
  <1>3. Continue(a, s, n)
    BY DEF ReuseTimesOut
  <1>4. n \in Tasks /\ n.pc = RequestPc(k.inv) /\ n.inv = k.inv
    BY <1>1, <1>2 DEF Tasks, Steps
  <1> HIDE DEF n
  <1>5. n \in SoundTasks(s)
    BY <1>1, <1>2, <1>4 DEF SoundTasks, UsesMessage, UsesInvitation, UsesOob, UsesRecord
  <1> QED
    BY <1>1, <1>3, <1>5, ContinueKeepsType
    DEF ReuseTimesOut, TypeInv, OobType, ConnsType, DidsType, NetType

LEMMA ReceiveReuseType ==
  ASSUME TypeInv, NEW a \in Agents, NEW h \in Handlers, NEW m \in net,
         ReceiveReuse(a, h, m)
  PROVE  TypeInv'
  <1> DEFINE r(c) == conns[a][c]
             o == oob[a]["sender"][m.inv]
             n(c) == [pc |-> IF Reusable[m.inv] THEN "oob-acceptReuse" ELSE "oob-closeReused",
                      msg |-> m, inv |-> m.inv, oob |-> o, id |-> c, conn |-> r(c)]
  <1>1. h \in Slots /\ m \in SoundMessages /\ m.type = "reuse" /\ NetType'
    BY DeliveredMessage DEF ReceiveReuse
  <1>2. m \in Messages /\ m.inv \in Invitations
    BY <1>1 DEF SoundMessages
  <1>3. PICK c \in ContextConnections(a, m) : Continue(a, h, n(c))
    BY DEF ReceiveReuse
  <1>4. c \in ConnIds /\ r(c) \in SoundRecords /\ IsReady(r(c))
    BY <1>3 DEF ContextConnections, FindByKeys, ByKeys, ConnectionsByDids, TypeInv, ConnsType
  <1>5. r(c) \in ConnectionRecords
    BY <1>4 DEF SoundRecords
  <1>6. o \in OobRecords
    BY <1>2 DEF ReceiveReuse, ReuseAllowed, TypeInv, OobType, OobRoles
  <1> HIDE DEF r, o
  <1>7. n(c) \in Tasks /\ n(c).pc \in {"oob-acceptReuse", "oob-closeReused"}
        /\ n(c).inv = m.inv /\ n(c).oob = o /\ n(c).id = c /\ n(c).conn = r(c)
    BY <1>2, <1>4, <1>5, <1>6 DEF Tasks, Steps
  <1> HIDE DEF n
  <1>8. n(c) \in SoundTasks(h)
    BY <1>2, <1>4, <1>6, <1>7
    DEF SoundTasks, UsesMessage, UsesInvitation, UsesOob, UsesRecord
  <1> QED
    BY <1>1, <1>3, <1>8, ContinueKeepsType
    DEF ReceiveReuse, TypeInv, OobType, ConnsType, DidsType

LEMMA CloseReusedInvitationType ==
  ASSUME TypeInv, NEW a \in Agents, NEW h \in Handlers, CloseReusedInvitation(a, h)
  PROVE  TypeInv'
  <1> DEFINE k == tasks[a][h]
             o == [k.oob EXCEPT !.state = "done"]
             n == [k EXCEPT !.pc = "oob-acceptReuse", !.oob = o]
  <1>1. h \in Slots /\ k \in SoundTasks(h) /\ k \in Tasks /\ k.inv \in Invitations
        /\ k.oob \in OobRecords /\ k.id \in ConnIds /\ k.conn \in SoundRecords
        /\ IsReady(k.conn)
    BY TaskIsSound DEF CloseReusedInvitation, At, Slots, SoundTasks, UsesOob, UsesRecord
  <1>2. o \in OobRecords
    BY <1>1 DEF OobRecords, OobStates
  <1>3. SaveOob(a, "sender", k.inv, o) /\ Continue(a, h, n)
    BY DEF CloseReusedInvitation
  <1> HIDE DEF o
  <1>4. n \in Tasks /\ n.pc = "oob-acceptReuse" /\ n.inv = k.inv
        /\ n.id = k.id /\ n.conn = k.conn
    BY <1>1, <1>2 DEF Tasks, Steps
  <1> HIDE DEF n
  <1>5. n \in SoundTasks(h)
    BY <1>1, <1>4 DEF SoundTasks, UsesMessage, UsesInvitation, UsesOob, UsesRecord
  <1> QED
    BY <1>1, <1>2, <1>3, <1>5, SaveOobKeepsType, ContinueKeepsType
    DEF CloseReusedInvitation, TypeInv, ConnsType, DidsType, NetType, OobRoles

LEMMA SendReuseAcceptedType ==
  ASSUME TypeInv, NEW a \in Agents, NEW h \in Handlers, SendReuseAccepted(a, h)
  PROVE  TypeInv'
  <1> DEFINE k == tasks[a][h]
             m == [type |-> "reuse-accepted", from |-> k.conn.did.key,
                   to |-> k.conn.theirDid.key, thread |-> None,
                   inv |-> k.inv, did |-> None]
  <1>1. h \in Slots /\ k.inv \in Invitations /\ k.conn \in SoundRecords /\ IsReady(k.conn)
    BY TaskIsSound DEF SendReuseAccepted, At, Slots, SoundTasks, UsesInvitation, UsesRecord
  <1>2. k.conn.did \in PeerDids /\ k.conn.theirDid \in PeerDids
    BY <1>1 DEF SoundRecords, IsReady
  <1>3. m \in SoundMessages
    BY <1>1, <1>2 DEF SoundMessages, Messages, MessageTypes, PeerDids
  <1>4. Send(m) /\ Finish(a, h)
    BY DEF SendReuseAccepted
  <1> HIDE DEF m
  <1> QED
    BY <1>1, <1>3, <1>4, SendKeepsType, FinishKeepsType
    DEF SendReuseAccepted, TypeInv, OobType, ConnsType, DidsType

LEMMA ReceiveReuseAcceptedType ==
  ASSUME TypeInv, NEW a \in Agents, NEW h \in Handlers, NEW m \in net,
         ReceiveReuseAccepted(a, h, m)
  PROVE  TypeInv'
  <1> DEFINE o == oob[a]["receiver"][m.inv]
             n == [Idle EXCEPT !.pc = "oob-closeReceived", !.msg = m,
                               !.inv = m.inv, !.oob = o]
             woken == {s \in Callers : /\ At(a, s, "oob-awaitReuse")
                                       /\ tasks[a][s].inv = m.inv /\ tasks[a][s].id = o.reuse}
             f == [t \in Slots |-> IF t = h THEN n
                                   ELSE IF t \in woken THEN Idle ELSE tasks[a][t]]
  <1>1. m \in SoundMessages /\ m.type = "reuse-accepted" /\ NetType'
    BY DeliveredMessage DEF ReceiveReuseAccepted
  <1>2. m \in Messages /\ m.inv \in Invitations
    BY <1>1 DEF SoundMessages
  <1>3. o \in OobRecords
    BY <1>2 DEF ReceiveReuseAccepted, ReuseAnswersRequest, TypeInv, OobType, OobRoles
  <1>4. tasks' = [tasks EXCEPT ![a] = f]
    BY DEF ReceiveReuseAccepted
  <1> HIDE DEF o
  <1>5. n \in Tasks /\ n.pc = "oob-closeReceived" /\ n.inv = m.inv /\ n.oob = o
    BY <1>2, <1>3 DEF Idle, Tasks, Steps
  <1> HIDE DEF n, woken
  <1>6. n \in SoundTasks(h)
    BY <1>2, <1>3, <1>5 DEF SoundTasks, UsesMessage, UsesInvitation, UsesOob, UsesRecord
  <1>7. \A t \in Slots : f[t] \in SoundTasks(t)
    BY <1>6, IdleIsSound, TaskIsSound
  <1>8. f \in [Slots -> Tasks]
    BY <1>7 DEF SoundTasks
  <1> HIDE DEF f
  <1>9. TasksType'
    BY <1>4, <1>7, <1>8 DEF TypeInv, TasksType
  <1> QED
    BY <1>1, <1>9 DEF ReceiveReuseAccepted, TypeInv, OobType, ConnsType, DidsType

LEMMA CloseReceivedInvitationType ==
  ASSUME TypeInv, NEW a \in Agents, NEW h \in Handlers, CloseReceivedInvitation(a, h)
  PROVE  TypeInv'
  <1> DEFINE k == tasks[a][h]
             o == [k.oob EXCEPT !.state = "done"]
  <1>1. h \in Slots /\ k.inv \in Invitations /\ k.oob \in OobRecords
    BY TaskIsSound DEF CloseReceivedInvitation, At, Slots, SoundTasks, UsesOob
  <1>2. o \in OobRecords
    BY <1>1 DEF OobRecords, OobStates
  <1>3. SaveOob(a, "receiver", k.inv, o) /\ Finish(a, h)
    BY DEF CloseReceivedInvitation
  <1> HIDE DEF o
  <1> QED
    BY <1>1, <1>2, <1>3, SaveOobKeepsType, FinishKeepsType
    DEF CloseReceivedInvitation, TypeInv, ConnsType, DidsType, NetType, OobRoles

LEMMA OutOfBandKeepsType ==
  ASSUME TypeInv, OutOfBandNext
  PROVE  TypeInv'
  BY CreateInvitationType, ReceiveInvitationType, AcceptInvitationType,
     CreateHandshakeReuseType, ReuseTimesOutType, ReceiveReuseType,
     ReceiveReuseAcceptedType, CloseReusedInvitationType, SendReuseAcceptedType,
     CloseReceivedInvitationType
  DEF OutOfBandNext

-------------------------------------------------------------------------------
(* The application's calls, ignored messages and faults keep the types *)

LEMMA StartCallType ==
  ASSUME TypeInv, NEW a \in Agents, NEW s \in Callers, NEW c \in ConnIds,
         NEW pc \in {"dx-createResponseDid", "cx-createResponseDid",
                     "dx-createComplete", "cx-sendPing"},
         StartCall(a, s, c, pc)
  PROVE  TypeInv'
  <1> DEFINE r == conns[a][c]
             n == [Idle EXCEPT !.pc = pc, !.inv = r.inv, !.id = c, !.conn = r]
  <1>1. s \in Slots /\ s \notin Handlers
    BY ConstantsAssumption DEF Slots
  <1>2. r \in SoundRecords /\ r \in ConnectionRecords /\ r.inv \in Invitations
    BY DEF StartCall, TypeInv, ConnsType, SoundRecords, ConnectionRecords
  <1>3. Continue(a, s, n)
    BY DEF StartCall
  <1> HIDE DEF r
  <1>4. n \in Tasks /\ n.pc = pc /\ n.inv = r.inv /\ n.id = c /\ n.conn = r
    BY <1>2 DEF Idle, Tasks, Steps
  <1> HIDE DEF n
  <1>5. n \in SoundTasks(s)
    BY <1>1, <1>2, <1>4 DEF SoundTasks, UsesMessage, UsesInvitation, UsesOob, UsesRecord
  <1> QED
    BY <1>1, <1>3, <1>5, ContinueKeepsType
    DEF StartCall, TypeInv, OobType, ConnsType, DidsType, NetType

LEMMA ConnectionsApiKeepsType ==
  ASSUME TypeInv, ConnectionsApiNext
  PROVE  TypeInv'
  BY StartCallType DEF ConnectionsApiNext, AcceptRequest, AcceptResponse, SendPing

LEMMA IgnoreMessageType ==
  ASSUME TypeInv, NEW a, NEW h, NEW m, IgnoreMessage(a, h, m)
  PROVE  TypeInv'
  BY DEF IgnoreMessage, TypeInv, OobType, ConnsType, DidsType, NetType, TasksType

LEMMA FaultsKeepType ==
  ASSUME TypeInv, FaultNext
  PROVE  TypeInv'
  <1>1. ASSUME NEW m \in net, LoseMessage(m)
        PROVE  TypeInv'
    BY <1>1 DEF LoseMessage, TypeInv, OobType, ConnsType, DidsType, NetType, TasksType
  <1>2. ASSUME NEW a \in Agents, Crash(a)
        PROVE  TypeInv'
    <2> DEFINE f == [t \in Slots |-> Idle]
    <2>1. \A t \in Slots : f[t] \in SoundTasks(t)
      BY IdleIsSound
    <2>2. f \in [Slots -> Tasks]
      BY <2>1 DEF SoundTasks
    <2>3. tasks' = [tasks EXCEPT ![a] = f]
      BY <1>2 DEF Crash
    <2> HIDE DEF f
    <2>4. TasksType'
      BY <2>1, <2>2, <2>3 DEF TypeInv, TasksType
    <2> QED
      BY <1>2, <2>4 DEF Crash, TypeInv, OobType, ConnsType, DidsType, NetType
  <1> QED
    BY <1>1, <1>2 DEF FaultNext

-------------------------------------------------------------------------------

LEMMA TypeInvInitially ==
  ASSUME Init
  PROVE  TypeInv
  <1>1. OobType /\ ConnsType /\ NetType
    BY DEF Init, OobType, ConnsType, NetType
  <1>2. DidsType
    BY DEF Init, DidsType
  <1>3. TasksType
    <2>1. \A t : Idle \in Tasks /\ Idle \in SoundTasks(t)
      BY IdleIsSound DEF SoundTasks
    <2> QED
      BY <2>1 DEF Init, TasksType
  <1> QED
    BY <1>1, <1>2, <1>3 DEF TypeInv

LEMMA TypeInvKept ==
  ASSUME TypeInv, [Next]_vars
  PROVE  TypeInv'
  <1>1. CASE UNCHANGED vars
    BY <1>1 DEF vars, TypeInv, OobType, ConnsType, DidsType, NetType, TasksType
  <1> QED
    BY <1>1, OutOfBandKeepsType, DidExchangeKeepsType, ConnectionProtocolKeepsType,
       ConnectionsApiKeepsType, IgnoreMessageType, FaultsKeepType
    DEF Next

LEMMA TypeInvIsStronger ==
  ASSUME TypeInv
  PROVE  TypeOK
  <1>1. SoundRecords \subseteq ConnectionRecords /\ SoundMessages \subseteq Messages
    BY DEF SoundRecords, SoundMessages
  <1> QED
    BY <1>1 DEF TypeInv, TypeOK, OobType, ConnsType, DidsType, NetType, TasksType

\* Every record, message and task keeps its type, whatever is lost, repeated or
\* interrupted; in particular no step sends to, or answers from, a DID that is missing.
THEOREM TypesHold == Spec => []TypeInv
  BY TypeInvInitially, TypeInvKept, PTL DEF Spec

\* The types of the wallet's records (OutOfBandRecord, ConnectionRecord, DidRecord),
\* of the messages and of the tasks.
THEOREM TypeCorrect == Spec => []TypeOK
  BY TypesHold, TypeInvIsStronger, PTL
-------------------------------------------------------------------------------
(***************************************************************************)
(* The proof of DidsStored: a connection never refers to a DID without a   *)
(* record.  DID records are never removed; every step that puts a DID in a *)
(* connection record follows the step that stores the DID.  Between the    *)
(* two the DID is in a task's copy, or in the message the task handles, so *)
(* the invariant speaks of those as well.                                  *)
(***************************************************************************)

StoredIn(ds, role, d) == \E n \in DOMAIN ds : ds[n] = [role |-> role, did |-> d]

RecordStoredIn(ds, r) ==
  /\ r.did # None => StoredIn(ds, "created", r.did)
  /\ r.theirDid # None => StoredIn(ds, "received", r.theirDid)

\* The steps that use the DID in the message after it was stored.
UsesSavedDid == {"dx-createResponder", "dx-responseReceived",
                 "cx-createResponder", "cx-responseReceived"}

TaskStoredIn(ds, k) ==
  /\ k.pc \in UsesRecord \cup {"cx-createConnection"} => RecordStoredIn(ds, k.conn)
  /\ k.pc \in UsesSavedDid => StoredIn(ds, "received", k.msg.did)

StoredInv ==
  \A a \in Agents :
    /\ \A c \in ConnIds : conns[a][c] # None => RecordStoredIn(dids[a], conns[a][c])
    /\ \A t \in Slots : TaskStoredIn(dids[a], tasks[a][t])

-------------------------------------------------------------------------------
(* Stored DIDs stay stored *)

Grown(ds, more) == \A role, d : StoredIn(ds, role, d) => StoredIn(more, role, d)

LEMMA SavedDidIsStored ==
  ASSUME DidsType, NEW a \in Agents, NEW role, NEW d, SaveDid(a, role, d)
  PROVE  /\ \A b \in Agents : Grown(dids[b], dids'[b])
         /\ StoredIn(dids'[a], role, d)
  <1> DEFINE new == [role |-> role, did |-> d]
             ds == dids[a]
  <1>1. ds \in Seq(DidRecords)
    BY DEF DidsType
  <1>2. /\ dids'[a] = Append(ds, new)
        /\ \A b \in Agents : b # a => dids'[b] = dids[b]
    BY DEF SaveDid, DidsType
  <1> HIDE DEF new, ds
  <1>3. /\ Len(Append(ds, new)) = Len(ds) + 1
        /\ DOMAIN Append(ds, new) = 1 .. Len(ds) + 1
        /\ Append(ds, new)[Len(ds) + 1] = new
        /\ \A n \in 1 .. Len(ds) : Append(ds, new)[n] = ds[n]
        /\ DOMAIN ds = 1 .. Len(ds) /\ Len(ds) \in Nat
    BY <1>1
  <1>4. StoredIn(dids'[a], role, d)
    BY <1>2, <1>3 DEF StoredIn, new
  <1>5. Grown(ds, dids'[a])
    BY <1>2, <1>3 DEF Grown, StoredIn
  <1>6. \A b \in Agents : b # a => Grown(dids[b], dids'[b])
    BY <1>2 DEF Grown
  <1> QED
    BY <1>4, <1>5, <1>6 DEF ds

LEMMA GrownKeepsStored ==
  ASSUME NEW ds, NEW more, Grown(ds, more)
  PROVE  /\ \A r : RecordStoredIn(ds, r) => RecordStoredIn(more, r)
         /\ \A k : TaskStoredIn(ds, k) => TaskStoredIn(more, k)
  BY DEF Grown, RecordStoredIn, TaskStoredIn

LEMMA IdleIsStored ==
  ASSUME NEW ds
  PROVE  TaskStoredIn(ds, Idle)
  <1>1. Idle.pc = "idle"
    BY DEF Idle
  <1> QED
    BY <1>1 DEF TaskStoredIn, UsesRecord, UsesSavedDid

-------------------------------------------------------------------------------
(* The shapes of a step: only tasks change, a DID is saved, a connection is  *)
(* saved.                                                                    *)

LEMMA OthersKeepStored ==
  ASSUME StoredInv, UNCHANGED <<conns, dids, tasks>>
  PROVE  StoredInv'
  BY DEF StoredInv

LEMMA TaskKeepsStored ==
  ASSUME TypeInv, StoredInv, NEW a \in Agents, NEW t \in Slots, NEW k,
         UNCHANGED <<conns, dids>>, Continue(a, t, k), TaskStoredIn(dids[a], k)
  PROVE  StoredInv'
  <1>1. \A b \in Agents, s \in Slots :
          tasks'[b][s] = tasks[b][s] \/ (b = a /\ tasks'[b][s] = k)
    BY DEF Continue, TypeInv, TasksType
  <1> QED
    BY <1>1 DEF StoredInv

LEMMA FinishKeepsStored ==
  ASSUME TypeInv, StoredInv, NEW a \in Agents, NEW t \in Slots,
         UNCHANGED <<conns, dids>>, Finish(a, t)
  PROVE  StoredInv'
  BY TaskKeepsStored, IdleIsStored DEF Finish

LEMMA DidKeepsStored ==
  ASSUME TypeInv, StoredInv, NEW a \in Agents, NEW t \in Slots, NEW k,
         NEW role, NEW d, SaveDid(a, role, d), UNCHANGED conns,
         Continue(a, t, k), TaskStoredIn(dids'[a], k)
  PROVE  StoredInv'
  <1>1. \A b \in Agents, s \in Slots :
          tasks'[b][s] = tasks[b][s] \/ (b = a /\ tasks'[b][s] = k)
    BY DEF Continue, TypeInv, TasksType
  <1>2. \A b \in Agents : Grown(dids[b], dids'[b])
    BY SavedDidIsStored DEF TypeInv
  <1>3. \A b \in Agents :
          /\ \A r : RecordStoredIn(dids[b], r) => RecordStoredIn(dids'[b], r)
          /\ \A j : TaskStoredIn(dids[b], j) => TaskStoredIn(dids'[b], j)
    BY <1>2, GrownKeepsStored
  <1> QED
    BY <1>1, <1>3 DEF StoredInv

LEMMA RecordKeepsStored ==
  ASSUME TypeInv, StoredInv, NEW a \in Agents, NEW t \in Slots, NEW k,
         NEW c \in ConnIds, NEW r, SaveConnection(a, c, r), UNCHANGED dids,
         RecordStoredIn(dids[a], r), Continue(a, t, k), TaskStoredIn(dids[a], k)
  PROVE  StoredInv'
  <1>1. \A b \in Agents, s \in Slots :
          tasks'[b][s] = tasks[b][s] \/ (b = a /\ tasks'[b][s] = k)
    BY DEF Continue, TypeInv, TasksType
  <1>2. \A b \in Agents, e \in ConnIds :
          conns'[b][e] = conns[b][e] \/ (b = a /\ conns'[b][e] = r)
    BY DEF SaveConnection, TypeInv, ConnsType
  <1> QED
    BY <1>1, <1>2 DEF StoredInv

LEMMA LastRecordKeepsStored ==
  ASSUME TypeInv, StoredInv, NEW a \in Agents, NEW t \in Slots,
         NEW c \in ConnIds, NEW r, SaveConnection(a, c, r), UNCHANGED dids,
         RecordStoredIn(dids[a], r), Finish(a, t)
  PROVE  StoredInv'
  BY RecordKeepsStored, IdleIsStored DEF Finish

LEMMA TaskIsStored ==
  ASSUME StoredInv, NEW a \in Agents, NEW t \in Slots
  PROVE  TaskStoredIn(dids[a], tasks[a][t])
  BY DEF StoredInv

-------------------------------------------------------------------------------
(* The DID exchange *)

LEMMA DxCreateConnectionStored ==
  ASSUME TypeInv, StoredInv, NEW a \in Agents, NEW s \in Callers, DxCreateConnection(a, s)
  PROVE  StoredInv'
  <1> DEFINE k == tasks[a][s]
             r == [role |-> "requester", state |-> "invitation-received",
                   protocol |-> "did-exchange", thread |-> None, inv |-> k.inv,
                   did |-> None, theirDid |-> None]
             n(c) == [k EXCEPT !.pc = "dx-createRequestDid", !.id = c, !.conn = r]
  <1>1. s \in Slots /\ k \in Tasks
    BY TaskIsSound DEF Slots, SoundTasks
  <1>2. PICK c \in ConnIds : SaveConnection(a, c, r) /\ Continue(a, s, n(c))
    BY DEF DxCreateConnection
  <1>3. RecordStoredIn(dids[a], r)
    BY DEF RecordStoredIn
  <1> HIDE DEF r
  <1>4. n(c).pc = "dx-createRequestDid" /\ n(c).conn = r
    BY <1>1 DEF Tasks
  <1> HIDE DEF n
  <1>5. TaskStoredIn(dids[a], n(c))
    BY <1>3, <1>4 DEF TaskStoredIn, UsesSavedDid
  <1> QED
    BY <1>1, <1>2, <1>3, <1>5, RecordKeepsStored DEF DxCreateConnection

LEMMA DxCreateRequestDidStored ==
  ASSUME TypeInv, StoredInv, NEW a \in Agents, NEW s \in Callers, DxCreateRequestDid(a, s)
  PROVE  StoredInv'
  <1> DEFINE k == tasks[a][s]
             d == [key |-> RoutingKey(a), n |-> NextDid(a)]
             r == [k.conn EXCEPT !.did = d]
             n == [k EXCEPT !.pc = "dx-sendRequest", !.conn = r]
  <1>1. s \in Slots /\ k \in Tasks /\ k.conn \in ConnectionRecords
        /\ RecordStoredIn(dids[a], k.conn)
    BY TaskIsSound, TaskIsStored
    DEF DxCreateRequestDid, At, Slots, SoundTasks, SoundRecords, TaskStoredIn, UsesRecord
  <1>2. SaveDid(a, "created", d) /\ Continue(a, s, n) /\ UNCHANGED conns
    BY DEF DxCreateRequestDid
  <1> HIDE DEF d
  <1>3. r.did = d /\ r.theirDid = k.conn.theirDid
    BY <1>1 DEF ConnectionRecords
  <1>4. RecordStoredIn(dids'[a], r)
    BY <1>1, <1>2, <1>3, SavedDidIsStored DEF RecordStoredIn, Grown, TypeInv
  <1> HIDE DEF r
  <1>5. n.pc = "dx-sendRequest" /\ n.conn = r
    BY <1>1 DEF Tasks
  <1> HIDE DEF n
  <1>6. TaskStoredIn(dids'[a], n)
    BY <1>4, <1>5 DEF TaskStoredIn, UsesSavedDid
  <1> QED
    BY <1>1, <1>2, <1>6, DidKeepsStored

LEMMA DxSendRequestStored ==
  ASSUME TypeInv, StoredInv, NEW a \in Agents, NEW s \in Callers, DxSendRequest(a, s)
  PROVE  StoredInv'
  <1> DEFINE k == tasks[a][s]
             th == [agent |-> a, conn |-> k.id]
             r == [k.conn EXCEPT !.state = NextState("dx-request", k.conn), !.thread = th]
  <1>1. s \in Slots /\ k.id \in ConnIds /\ k.conn \in ConnectionRecords
        /\ RecordStoredIn(dids[a], k.conn)
    BY TaskIsSound, TaskIsStored
    DEF DxSendRequest, At, Slots, SoundTasks, SoundRecords, TaskStoredIn, UsesRecord
  <1>2. SaveConnection(a, k.id, r) /\ Finish(a, s)
    BY DEF DxSendRequest
  <1>3. RecordStoredIn(dids[a], r)
    BY <1>1 DEF RecordStoredIn, ConnectionRecords
  <1> HIDE DEF r
  <1> QED
    BY <1>1, <1>2, <1>3, LastRecordKeepsStored DEF DxSendRequest

LEMMA DxReceiveRequestStored ==
  ASSUME TypeInv, StoredInv, NEW a \in Agents, NEW h \in Handlers, NEW m \in net,
         DxReceiveRequest(a, h, m)
  PROVE  StoredInv'
  <1> DEFINE n == [Idle EXCEPT !.pc = "dx-saveRequesterDid", !.msg = m,
                               !.inv = m.inv, !.oob = oob[a]["sender"][m.inv]]
  <1>1. Continue(a, h, n)
    BY DEF DxReceiveRequest
  <1>2. n.pc = "dx-saveRequesterDid"
    BY DEF Idle
  <1> HIDE DEF n
  <1>3. TaskStoredIn(dids[a], n)
    BY <1>2 DEF TaskStoredIn, UsesRecord, UsesSavedDid
  <1> QED
    BY <1>1, <1>3, TaskKeepsStored DEF DxReceiveRequest, Slots

LEMMA DxSaveRequesterDidStored ==
  ASSUME TypeInv, StoredInv, NEW a \in Agents, NEW h \in Handlers, DxSaveRequesterDid(a, h)
  PROVE  StoredInv'
  <1> DEFINE k == tasks[a][h]
             n == [k EXCEPT !.pc = "dx-createResponder"]
  <1>1. h \in Slots /\ k \in Tasks
    BY TaskIsSound DEF Slots, SoundTasks
  <1>2. SaveDid(a, "received", k.msg.did) /\ Continue(a, h, n) /\ UNCHANGED conns
    BY DEF DxSaveRequesterDid
  <1>3. n.pc = "dx-createResponder" /\ n.msg = k.msg
    BY <1>1 DEF Tasks
  <1> HIDE DEF n
  <1>4. TaskStoredIn(dids'[a], n)
    BY <1>2, <1>3, SavedDidIsStored DEF TaskStoredIn, UsesRecord, TypeInv
  <1> QED
    BY <1>1, <1>2, <1>4, DidKeepsStored

LEMMA DxCreateResponderStored ==
  ASSUME TypeInv, StoredInv, NEW a \in Agents, NEW h \in Handlers, DxCreateResponder(a, h)
  PROVE  StoredInv'
  <1> DEFINE k == tasks[a][h]
             r == [role |-> "responder", state |-> "request-received",
                   protocol |-> "did-exchange", thread |-> k.msg.thread, inv |-> k.inv,
                   did |-> None, theirDid |-> k.msg.did]
             n(c) == [k EXCEPT !.pc = "dx-createResponseDid", !.id = c, !.conn = r]
  <1>1. h \in Slots /\ k \in Tasks /\ StoredIn(dids[a], "received", k.msg.did)
    BY TaskIsSound, TaskIsStored
    DEF DxCreateResponder, At, Slots, SoundTasks, TaskStoredIn, UsesSavedDid
  <1>2. PICK c \in ConnIds :
          SaveConnection(a, c, r) /\ (Continue(a, h, n(c)) \/ Finish(a, h))
    BY DEF DxCreateResponder
  <1>3. RecordStoredIn(dids[a], r)
    BY <1>1 DEF RecordStoredIn
  <1> HIDE DEF r
  <1>4. n(c).pc = "dx-createResponseDid" /\ n(c).conn = r
    BY <1>1 DEF Tasks
  <1> HIDE DEF n
  <1>5. TaskStoredIn(dids[a], n(c))
    BY <1>3, <1>4 DEF TaskStoredIn, UsesSavedDid
  <1> QED
    BY <1>1, <1>2, <1>3, <1>5, RecordKeepsStored, LastRecordKeepsStored
    DEF DxCreateResponder

LEMMA DxCreateResponseDidStored ==
  ASSUME TypeInv, StoredInv, NEW a \in Agents, NEW t \in Slots, DxCreateResponseDid(a, t)
  PROVE  StoredInv'
  <1> DEFINE k == tasks[a][t]
             d == [key |-> IF Reusable[k.inv] THEN RoutingKey(a) ELSE InvitationKey(k.inv),
                   n |-> NextDid(a)]
             r == [k.conn EXCEPT !.did = d]
             n == [k EXCEPT !.pc = "dx-sendResponse", !.conn = r]
  <1>1. k \in Tasks /\ k.conn \in ConnectionRecords /\ RecordStoredIn(dids[a], k.conn)
    BY TaskIsSound, TaskIsStored
    DEF DxCreateResponseDid, At, SoundTasks, SoundRecords, TaskStoredIn, UsesRecord
  <1>2. CASE ~CanCreate("dx-response", k.conn)
    BY <1>2, FinishKeepsStored DEF DxCreateResponseDid
  <1>3. CASE CanCreate("dx-response", k.conn)
    <2>1. SaveDid(a, "created", d) /\ Continue(a, t, n) /\ UNCHANGED conns
      BY <1>3 DEF DxCreateResponseDid
    <2> HIDE DEF d
    <2>2. r.did = d /\ r.theirDid = k.conn.theirDid
      BY <1>1 DEF ConnectionRecords
    <2>3. RecordStoredIn(dids'[a], r)
      BY <1>1, <2>1, <2>2, SavedDidIsStored DEF RecordStoredIn, Grown, TypeInv
    <2> HIDE DEF r
    <2>4. n.pc = "dx-sendResponse" /\ n.conn = r
      BY <1>1 DEF Tasks
    <2> HIDE DEF n
    <2>5. TaskStoredIn(dids'[a], n)
      BY <2>3, <2>4 DEF TaskStoredIn, UsesSavedDid
    <2> QED
      BY <2>1, <2>5, DidKeepsStored
  <1> QED
    BY <1>2, <1>3

LEMMA DxSendResponseStored ==
  ASSUME TypeInv, StoredInv, NEW a \in Agents, NEW t \in Slots, DxSendResponse(a, t)
  PROVE  StoredInv'
  <1> DEFINE k == tasks[a][t]
             r == [k.conn EXCEPT !.state = NextState("dx-response", k.conn)]
  <1>1. k.id \in ConnIds /\ k.conn \in ConnectionRecords /\ RecordStoredIn(dids[a], k.conn)
    BY TaskIsSound, TaskIsStored
    DEF DxSendResponse, At, SoundTasks, SoundRecords, TaskStoredIn, UsesRecord
  <1>2. SaveConnection(a, k.id, r) /\ Finish(a, t)
    BY DEF DxSendResponse
  <1>3. RecordStoredIn(dids[a], r)
    BY <1>1 DEF RecordStoredIn, ConnectionRecords
  <1> HIDE DEF r
  <1> QED
    BY <1>1, <1>2, <1>3, LastRecordKeepsStored DEF DxSendResponse

LEMMA DxReceiveResponseStored ==
  ASSUME TypeInv, StoredInv, NEW a \in Agents, NEW h \in Handlers, NEW m \in net,
         DxReceiveResponse(a, h, m)
  PROVE  StoredInv'
  <1> DEFINE r(c) == conns[a][c]
             n(c) == [pc |-> "dx-saveResponderDid", msg |-> m, inv |-> r(c).inv,
                      oob |-> oob[a]["receiver"][r(c).inv], id |-> c, conn |-> r(c)]
  <1>1. PICK c \in ConnIds : DxResponseAcceptable(a, c, m) /\ Continue(a, h, n(c))
    BY DEF DxReceiveResponse
  <1>2. RecordStoredIn(dids[a], r(c))
    BY <1>1 DEF DxResponseAcceptable, ConnectionsByThread, StoredInv
  <1> HIDE DEF r
  <1>3. n(c).pc = "dx-saveResponderDid" /\ n(c).conn = r(c)
    OBVIOUS
  <1> HIDE DEF n
  <1>4. TaskStoredIn(dids[a], n(c))
    BY <1>2, <1>3 DEF TaskStoredIn, UsesSavedDid
  <1> QED
    BY <1>1, <1>4, TaskKeepsStored DEF DxReceiveResponse, Slots

LEMMA DxSaveResponderDidStored ==
  ASSUME TypeInv, StoredInv, NEW a \in Agents, NEW h \in Handlers, DxSaveResponderDid(a, h)
  PROVE  StoredInv'
  <1> DEFINE k == tasks[a][h]
             n == [k EXCEPT !.pc = "dx-responseReceived"]
  <1>1. h \in Slots /\ k \in Tasks /\ RecordStoredIn(dids[a], k.conn)
    BY TaskIsSound, TaskIsStored
    DEF DxSaveResponderDid, At, Slots, SoundTasks, TaskStoredIn, UsesRecord
  <1>2. SaveDid(a, "received", k.msg.did) /\ Continue(a, h, n) /\ UNCHANGED conns
    BY DEF DxSaveResponderDid
  <1>3. n.pc = "dx-responseReceived" /\ n.msg = k.msg /\ n.conn = k.conn
    BY <1>1 DEF Tasks
  <1> HIDE DEF n
  <1>4. TaskStoredIn(dids'[a], n)
    BY <1>1, <1>2, <1>3, SavedDidIsStored, GrownKeepsStored DEF TaskStoredIn, TypeInv
  <1> QED
    BY <1>1, <1>2, <1>4, DidKeepsStored

LEMMA DxResponseReceivedStored ==
  ASSUME TypeInv, StoredInv, NEW a \in Agents, NEW h \in Handlers, DxResponseReceived(a, h)
  PROVE  StoredInv'
  <1> DEFINE k == tasks[a][h]
             r == [k.conn EXCEPT !.theirDid = k.msg.did,
                                 !.state = NextState("dx-response", k.conn)]
             n == [k EXCEPT !.pc = "dx-createComplete", !.conn = r]
  <1>1. h \in Slots /\ k \in Tasks /\ k.id \in ConnIds /\ k.conn \in ConnectionRecords
        /\ RecordStoredIn(dids[a], k.conn) /\ StoredIn(dids[a], "received", k.msg.did)
    BY TaskIsSound, TaskIsStored
    DEF DxResponseReceived, At, Slots, SoundTasks, SoundRecords, TaskStoredIn,
        UsesRecord, UsesSavedDid
  <1>2. SaveConnection(a, k.id, r) /\ (Continue(a, h, n) \/ Finish(a, h))
    BY DEF DxResponseReceived
  <1>3. RecordStoredIn(dids[a], r)
    BY <1>1 DEF RecordStoredIn, ConnectionRecords
  <1> HIDE DEF r
  <1>4. n.pc = "dx-createComplete" /\ n.conn = r
    BY <1>1 DEF Tasks
  <1> HIDE DEF n
  <1>5. TaskStoredIn(dids[a], n)
    BY <1>3, <1>4 DEF TaskStoredIn, UsesSavedDid
  <1> QED
    BY <1>1, <1>2, <1>3, <1>5, RecordKeepsStored, LastRecordKeepsStored
    DEF DxResponseReceived

LEMMA DxCreateCompleteStored ==
  ASSUME TypeInv, StoredInv, NEW a \in Agents, NEW t \in Slots, DxCreateComplete(a, t)
  PROVE  StoredInv'
  <1> DEFINE k == tasks[a][t]
             r == [k.conn EXCEPT !.state = NextState("dx-complete", k.conn)]
             n == [k EXCEPT !.pc = "dx-sendComplete", !.conn = r]
  <1>1. k \in Tasks /\ k.id \in ConnIds /\ k.conn \in ConnectionRecords
        /\ RecordStoredIn(dids[a], k.conn)
    BY TaskIsSound, TaskIsStored
    DEF DxCreateComplete, At, SoundTasks, SoundRecords, TaskStoredIn, UsesRecord
  <1>2. \/ SaveConnection(a, k.id, r) /\ (Continue(a, t, n) \/ Finish(a, t))
        \/ UNCHANGED conns /\ Finish(a, t)
    BY DEF DxCreateComplete
  <1>3. RecordStoredIn(dids[a], r)
    BY <1>1 DEF RecordStoredIn, ConnectionRecords
  <1> HIDE DEF r
  <1>4. n.pc = "dx-sendComplete" /\ n.conn = r
    BY <1>1 DEF Tasks
  <1> HIDE DEF n
  <1>5. TaskStoredIn(dids[a], n)
    BY <1>3, <1>4 DEF TaskStoredIn, UsesSavedDid
  <1> QED
    BY <1>1, <1>2, <1>3, <1>5, RecordKeepsStored, LastRecordKeepsStored, FinishKeepsStored
    DEF DxCreateComplete

LEMMA DxReceiveCompleteStored ==
  ASSUME TypeInv, StoredInv, NEW a \in Agents, NEW h \in Handlers, NEW m \in net,
         DxReceiveComplete(a, h, m)
  PROVE  StoredInv'
  <1> DEFINE r(c) == conns[a][c]
             n(c) == [pc |-> IF Reusable[m.inv] THEN "dx-processComplete"
                                                ELSE "dx-closeInvitation",
                      msg |-> m, inv |-> m.inv, oob |-> oob[a]["sender"][m.inv],
                      id |-> c, conn |-> r(c)]
  <1>1. PICK c \in ConnIds : DxCompleteAcceptable(a, c, m) /\ Continue(a, h, n(c))
    BY DEF DxReceiveComplete
  <1>2. RecordStoredIn(dids[a], r(c))
    BY <1>1 DEF DxCompleteAcceptable, ContextConnections, FindByKeys, ByKeys,
                ConnectionsByDids, StoredInv
  <1> HIDE DEF r
  <1>3. n(c).pc \in {"dx-processComplete", "dx-closeInvitation"} /\ n(c).conn = r(c)
    OBVIOUS
  <1> HIDE DEF n
  <1>4. TaskStoredIn(dids[a], n(c))
    BY <1>2, <1>3 DEF TaskStoredIn, UsesSavedDid
  <1> QED
    BY <1>1, <1>4, TaskKeepsStored DEF DxReceiveComplete, Slots

LEMMA DxCloseInvitationStored ==
  ASSUME TypeInv, StoredInv, NEW a \in Agents, NEW h \in Handlers, DxCloseInvitation(a, h)
  PROVE  StoredInv'
  <1> DEFINE k == tasks[a][h]
             n == [k EXCEPT !.pc = "dx-processComplete"]
  <1>1. h \in Slots /\ k \in Tasks /\ RecordStoredIn(dids[a], k.conn)
    BY TaskIsSound, TaskIsStored
    DEF DxCloseInvitation, At, Slots, SoundTasks, TaskStoredIn, UsesRecord
  <1>2. Continue(a, h, n)
    BY DEF DxCloseInvitation
  <1>3. n.pc = "dx-processComplete" /\ n.conn = k.conn
    BY <1>1 DEF Tasks
  <1> HIDE DEF n
  <1>4. TaskStoredIn(dids[a], n)
    BY <1>1, <1>3 DEF TaskStoredIn, UsesSavedDid
  <1> QED
    BY <1>1, <1>2, <1>4, TaskKeepsStored DEF DxCloseInvitation

LEMMA DxProcessCompleteStored ==
  ASSUME TypeInv, StoredInv, NEW a \in Agents, NEW h \in Handlers, DxProcessComplete(a, h)
  PROVE  StoredInv'
  <1> DEFINE k == tasks[a][h]
             r == [k.conn EXCEPT !.state = NextState("dx-complete", k.conn)]
  <1>1. h \in Slots /\ k.id \in ConnIds /\ k.conn \in ConnectionRecords
        /\ RecordStoredIn(dids[a], k.conn)
    BY TaskIsSound, TaskIsStored
    DEF DxProcessComplete, At, Slots, SoundTasks, SoundRecords, TaskStoredIn, UsesRecord
  <1>2. (SaveConnection(a, k.id, r) \/ UNCHANGED conns) /\ Finish(a, h) /\ UNCHANGED dids
    BY DEF DxProcessComplete
  <1>3. RecordStoredIn(dids[a], r)
    BY <1>1 DEF RecordStoredIn, ConnectionRecords
  <1> HIDE DEF r
  <1> QED
    BY <1>1, <1>2, <1>3, LastRecordKeepsStored, FinishKeepsStored

LEMMA DidExchangeKeepsStored ==
  ASSUME TypeInv, StoredInv, DidExchangeNext
  PROVE  StoredInv'
  <1>1. Callers \subseteq Slots /\ Handlers \subseteq Slots
    BY DEF Slots
  <1>2. ASSUME NEW a \in Agents, NEW h \in Handlers, DxSendComplete(a, h)
        PROVE  StoredInv'
    BY <1>1, <1>2, FinishKeepsStored DEF DxSendComplete
  <1> QED
    BY <1>1, <1>2, DxCreateConnectionStored, DxCreateRequestDidStored, DxSendRequestStored,
       DxReceiveRequestStored, DxSaveRequesterDidStored, DxCreateResponderStored,
       DxCreateResponseDidStored, DxSendResponseStored, DxReceiveResponseStored,
       DxSaveResponderDidStored, DxResponseReceivedStored, DxCreateCompleteStored,
       DxReceiveCompleteStored, DxCloseInvitationStored, DxProcessCompleteStored
    DEF DidExchangeNext

-------------------------------------------------------------------------------
(* The connection protocol *)

LEMMA CxCreateRequestDidStored ==
  ASSUME TypeInv, StoredInv, NEW a \in Agents, NEW s \in Callers, CxCreateRequestDid(a, s)
  PROVE  StoredInv'
  <1> DEFINE k == tasks[a][s]
             d == [key |-> RoutingKey(a), n |-> 0]
             r == [role |-> "requester", state |-> "invitation-received",
                   protocol |-> "connections", thread |-> None,
                   inv |-> k.inv, did |-> d, theirDid |-> None]
             n == [k EXCEPT !.pc = "cx-createConnection", !.conn = r]
  <1>1. s \in Slots /\ k \in Tasks
    BY TaskIsSound DEF Slots, SoundTasks
  <1>2. CASE k.oob.state # "prepare-response"
    BY <1>1, <1>2, FinishKeepsStored DEF CxCreateRequestDid
  <1>3. CASE k.oob.state = "prepare-response"
    <2>1. SaveDid(a, "created", d) /\ Continue(a, s, n) /\ UNCHANGED conns
      BY <1>3 DEF CxCreateRequestDid
    <2> HIDE DEF d
    <2>2. RecordStoredIn(dids'[a], r)
      BY <2>1, SavedDidIsStored DEF RecordStoredIn, TypeInv
    <2> HIDE DEF r
    <2>3. n.pc = "cx-createConnection" /\ n.conn = r
      BY <1>1 DEF Tasks
    <2> HIDE DEF n
    <2>4. TaskStoredIn(dids'[a], n)
      BY <2>2, <2>3 DEF TaskStoredIn, UsesSavedDid
    <2> QED
      BY <1>1, <2>1, <2>4, DidKeepsStored
  <1> QED
    BY <1>2, <1>3

LEMMA CxCreateConnectionStored ==
  ASSUME TypeInv, StoredInv, NEW a \in Agents, NEW s \in Callers, CxCreateConnection(a, s)
  PROVE  StoredInv'
  <1> DEFINE k == tasks[a][s]
             r(c) == [k.conn EXCEPT !.thread = [agent |-> a, conn |-> c]]
             n(c) == [k EXCEPT !.pc = "cx-sendRequest", !.id = c, !.conn = r(c)]
  <1>1. s \in Slots /\ k \in Tasks /\ k.conn \in ConnectionRecords
        /\ RecordStoredIn(dids[a], k.conn)
    BY TaskIsSound, TaskIsStored
    DEF CxCreateConnection, At, Slots, SoundTasks, SoundRecords, TaskStoredIn
  <1>2. PICK c \in ConnIds : SaveConnection(a, c, r(c)) /\ Continue(a, s, n(c))
    BY DEF CxCreateConnection
  <1>3. RecordStoredIn(dids[a], r(c))
    BY <1>1 DEF RecordStoredIn, ConnectionRecords
  <1> HIDE DEF r
  <1>4. n(c).pc = "cx-sendRequest" /\ n(c).conn = r(c)
    BY <1>1 DEF Tasks
  <1> HIDE DEF n
  <1>5. TaskStoredIn(dids[a], n(c))
    BY <1>3, <1>4 DEF TaskStoredIn, UsesSavedDid
  <1> QED
    BY <1>1, <1>2, <1>3, <1>5, RecordKeepsStored DEF CxCreateConnection

LEMMA CxSendRequestStored ==
  ASSUME TypeInv, StoredInv, NEW a \in Agents, NEW s \in Callers, CxSendRequest(a, s)
  PROVE  StoredInv'
  <1> DEFINE k == tasks[a][s]
             r == [k.conn EXCEPT !.state = "request-sent"]
  <1>1. s \in Slots /\ k.id \in ConnIds /\ k.conn \in ConnectionRecords
        /\ RecordStoredIn(dids[a], k.conn)
    BY TaskIsSound, TaskIsStored
    DEF CxSendRequest, At, Slots, SoundTasks, SoundRecords, TaskStoredIn, UsesRecord
  <1>2. SaveConnection(a, k.id, r) /\ Finish(a, s)
    BY DEF CxSendRequest
  <1>3. RecordStoredIn(dids[a], r)
    BY <1>1 DEF RecordStoredIn, ConnectionRecords
  <1> HIDE DEF r
  <1> QED
    BY <1>1, <1>2, <1>3, LastRecordKeepsStored DEF CxSendRequest

LEMMA CxReceiveRequestStored ==
  ASSUME TypeInv, StoredInv, NEW a \in Agents, NEW h \in Handlers, NEW m \in net,
         CxReceiveRequest(a, h, m)
  PROVE  StoredInv'
  <1> DEFINE n(i) == [Idle EXCEPT !.pc = "cx-saveRequesterDid", !.msg = m,
                                  !.inv = i, !.oob = oob[a]["sender"][i]]
  <1>1. PICK i \in Invitations : Continue(a, h, n(i))
    BY DEF CxReceiveRequest
  <1>2. n(i).pc = "cx-saveRequesterDid"
    BY DEF Idle
  <1> HIDE DEF n
  <1>3. TaskStoredIn(dids[a], n(i))
    BY <1>2 DEF TaskStoredIn, UsesRecord, UsesSavedDid
  <1> QED
    BY <1>1, <1>3, TaskKeepsStored DEF CxReceiveRequest, Slots

LEMMA CxSaveRequesterDidStored ==
  ASSUME TypeInv, StoredInv, NEW a \in Agents, NEW h \in Handlers, CxSaveRequesterDid(a, h)
  PROVE  StoredInv'
  <1> DEFINE k == tasks[a][h]
             n == [k EXCEPT !.pc = "cx-createResponder"]
  <1>1. h \in Slots /\ k \in Tasks
    BY TaskIsSound DEF Slots, SoundTasks
  <1>2. SaveDid(a, "received", k.msg.did) /\ Continue(a, h, n) /\ UNCHANGED conns
    BY DEF CxSaveRequesterDid
  <1>3. n.pc = "cx-createResponder" /\ n.msg = k.msg
    BY <1>1 DEF Tasks
  <1> HIDE DEF n
  <1>4. TaskStoredIn(dids'[a], n)
    BY <1>2, <1>3, SavedDidIsStored DEF TaskStoredIn, UsesRecord, TypeInv
  <1> QED
    BY <1>1, <1>2, <1>4, DidKeepsStored

LEMMA CxCreateResponderStored ==
  ASSUME TypeInv, StoredInv, NEW a \in Agents, NEW h \in Handlers, CxCreateResponder(a, h)
  PROVE  StoredInv'
  <1> DEFINE k == tasks[a][h]
             r == [role |-> "responder", state |-> "request-received",
                   protocol |-> "connections", thread |-> k.msg.thread, inv |-> k.inv,
                   did |-> None, theirDid |-> k.msg.did]
             n(c) == [k EXCEPT !.pc = "cx-createResponseDid", !.id = c, !.conn = r]
  <1>1. h \in Slots /\ k \in Tasks /\ StoredIn(dids[a], "received", k.msg.did)
    BY TaskIsSound, TaskIsStored
    DEF CxCreateResponder, At, Slots, SoundTasks, TaskStoredIn, UsesSavedDid
  <1>2. PICK c \in ConnIds :
          SaveConnection(a, c, r) /\ (Continue(a, h, n(c)) \/ Finish(a, h))
    BY DEF CxCreateResponder
  <1>3. RecordStoredIn(dids[a], r)
    BY <1>1 DEF RecordStoredIn
  <1> HIDE DEF r
  <1>4. n(c).pc = "cx-createResponseDid" /\ n(c).conn = r
    BY <1>1 DEF Tasks
  <1> HIDE DEF n
  <1>5. TaskStoredIn(dids[a], n(c))
    BY <1>3, <1>4 DEF TaskStoredIn, UsesSavedDid
  <1> QED
    BY <1>1, <1>2, <1>3, <1>5, RecordKeepsStored, LastRecordKeepsStored
    DEF CxCreateResponder

LEMMA CxCreateResponseDidStored ==
  ASSUME TypeInv, StoredInv, NEW a \in Agents, NEW t \in Slots, CxCreateResponseDid(a, t)
  PROVE  StoredInv'
  <1> DEFINE k == tasks[a][t]
             d == [key |-> IF Reusable[k.inv] THEN RoutingKey(a) ELSE InvitationKey(k.inv),
                   n |-> 0]
             r == [k.conn EXCEPT !.did = d]
             n == [k EXCEPT !.pc = "cx-sendResponse", !.conn = r]
             accepted == k.conn.state = "request-received" /\ k.conn.role = "responder"
  <1>1. k \in Tasks /\ k.conn \in ConnectionRecords /\ RecordStoredIn(dids[a], k.conn)
    BY TaskIsSound, TaskIsStored
    DEF CxCreateResponseDid, At, SoundTasks, SoundRecords, TaskStoredIn, UsesRecord
  <1>2. CASE ~accepted
    BY <1>2, FinishKeepsStored DEF CxCreateResponseDid
  <1>3. CASE accepted
    <2>1. SaveDid(a, "created", d) /\ Continue(a, t, n) /\ UNCHANGED conns
      BY <1>3 DEF CxCreateResponseDid
    <2> HIDE DEF d
    <2>2. r.did = d /\ r.theirDid = k.conn.theirDid
      BY <1>1 DEF ConnectionRecords
    <2>3. RecordStoredIn(dids'[a], r)
      BY <1>1, <2>1, <2>2, SavedDidIsStored DEF RecordStoredIn, Grown, TypeInv
    <2> HIDE DEF r
    <2>4. n.pc = "cx-sendResponse" /\ n.conn = r
      BY <1>1 DEF Tasks
    <2> HIDE DEF n
    <2>5. TaskStoredIn(dids'[a], n)
      BY <2>3, <2>4 DEF TaskStoredIn, UsesSavedDid
    <2> QED
      BY <2>1, <2>5, DidKeepsStored
  <1> QED
    BY <1>2, <1>3

LEMMA CxSendResponseStored ==
  ASSUME TypeInv, StoredInv, NEW a \in Agents, NEW t \in Slots, CxSendResponse(a, t)
  PROVE  StoredInv'
  <1> DEFINE k == tasks[a][t]
             r == [k.conn EXCEPT !.state = "response-sent"]
  <1>1. k.id \in ConnIds /\ k.conn \in ConnectionRecords /\ RecordStoredIn(dids[a], k.conn)
    BY TaskIsSound, TaskIsStored
    DEF CxSendResponse, At, SoundTasks, SoundRecords, TaskStoredIn, UsesRecord
  <1>2. SaveConnection(a, k.id, r) /\ Finish(a, t)
    BY DEF CxSendResponse
  <1>3. RecordStoredIn(dids[a], r)
    BY <1>1 DEF RecordStoredIn, ConnectionRecords
  <1> HIDE DEF r
  <1> QED
    BY <1>1, <1>2, <1>3, LastRecordKeepsStored DEF CxSendResponse

LEMMA CxReceiveResponseStored ==
  ASSUME TypeInv, StoredInv, NEW a \in Agents, NEW h \in Handlers, NEW m \in net,
         CxReceiveResponse(a, h, m)
  PROVE  StoredInv'
  <1> DEFINE r(c) == conns[a][c]
             n(c) == [pc |-> "cx-saveResponderDid", msg |-> m, inv |-> r(c).inv,
                      oob |-> oob[a]["receiver"][r(c).inv], id |-> c, conn |-> r(c)]
  <1>1. PICK c \in ConnIds : CxResponseAcceptable(a, c, m) /\ Continue(a, h, n(c))
    BY DEF CxReceiveResponse
  <1>2. RecordStoredIn(dids[a], r(c))
    BY <1>1 DEF CxResponseAcceptable, ConnectionsByThread, StoredInv
  <1> HIDE DEF r
  <1>3. n(c).pc = "cx-saveResponderDid" /\ n(c).conn = r(c)
    OBVIOUS
  <1> HIDE DEF n
  <1>4. TaskStoredIn(dids[a], n(c))
    BY <1>2, <1>3 DEF TaskStoredIn, UsesSavedDid
  <1> QED
    BY <1>1, <1>4, TaskKeepsStored DEF CxReceiveResponse, Slots

LEMMA CxSaveResponderDidStored ==
  ASSUME TypeInv, StoredInv, NEW a \in Agents, NEW h \in Handlers, CxSaveResponderDid(a, h)
  PROVE  StoredInv'
  <1> DEFINE k == tasks[a][h]
             n == [k EXCEPT !.pc = "cx-responseReceived"]
  <1>1. h \in Slots /\ k \in Tasks /\ RecordStoredIn(dids[a], k.conn)
    BY TaskIsSound, TaskIsStored
    DEF CxSaveResponderDid, At, Slots, SoundTasks, TaskStoredIn, UsesRecord
  <1>2. SaveDid(a, "received", k.msg.did) /\ Continue(a, h, n) /\ UNCHANGED conns
    BY DEF CxSaveResponderDid
  <1>3. n.pc = "cx-responseReceived" /\ n.msg = k.msg /\ n.conn = k.conn
    BY <1>1 DEF Tasks
  <1> HIDE DEF n
  <1>4. TaskStoredIn(dids'[a], n)
    BY <1>1, <1>2, <1>3, SavedDidIsStored, GrownKeepsStored DEF TaskStoredIn, TypeInv
  <1> QED
    BY <1>1, <1>2, <1>4, DidKeepsStored

LEMMA CxResponseReceivedStored ==
  ASSUME TypeInv, StoredInv, NEW a \in Agents, NEW h \in Handlers, CxResponseReceived(a, h)
  PROVE  StoredInv'
  <1> DEFINE k == tasks[a][h]
             r == [k.conn EXCEPT !.theirDid = k.msg.did, !.thread = k.msg.thread,
                                 !.state = "response-received"]
             n == [k EXCEPT !.pc = "cx-sendPing", !.conn = r]
  <1>1. h \in Slots /\ k \in Tasks /\ k.id \in ConnIds /\ k.conn \in ConnectionRecords
        /\ RecordStoredIn(dids[a], k.conn) /\ StoredIn(dids[a], "received", k.msg.did)
    BY TaskIsSound, TaskIsStored
    DEF CxResponseReceived, At, Slots, SoundTasks, SoundRecords, TaskStoredIn,
        UsesRecord, UsesSavedDid
  <1>2. SaveConnection(a, k.id, r) /\ (Continue(a, h, n) \/ Finish(a, h))
    BY DEF CxResponseReceived
  <1>3. RecordStoredIn(dids[a], r)
    BY <1>1 DEF RecordStoredIn, ConnectionRecords
  <1> HIDE DEF r
  <1>4. n.pc = "cx-sendPing" /\ n.conn = r
    BY <1>1 DEF Tasks
  <1> HIDE DEF n
  <1>5. TaskStoredIn(dids[a], n)
    BY <1>3, <1>4 DEF TaskStoredIn, UsesSavedDid
  <1> QED
    BY <1>1, <1>2, <1>3, <1>5, RecordKeepsStored, LastRecordKeepsStored
    DEF CxResponseReceived

LEMMA CxSendPingStored ==
  ASSUME TypeInv, StoredInv, NEW a \in Agents, NEW t \in Slots, CxSendPing(a, t)
  PROVE  StoredInv'
  <1> DEFINE k == tasks[a][t]
             r == [k.conn EXCEPT !.state = "completed"]
  <1>1. k.id \in ConnIds /\ k.conn \in ConnectionRecords /\ RecordStoredIn(dids[a], k.conn)
    BY TaskIsSound, TaskIsStored
    DEF CxSendPing, At, SoundTasks, SoundRecords, TaskStoredIn, UsesRecord
  <1>2. (SaveConnection(a, k.id, r) \/ UNCHANGED conns) /\ Finish(a, t) /\ UNCHANGED dids
    BY DEF CxSendPing
  <1>3. RecordStoredIn(dids[a], r)
    BY <1>1 DEF RecordStoredIn, ConnectionRecords
  <1> HIDE DEF r
  <1> QED
    BY <1>1, <1>2, <1>3, LastRecordKeepsStored, FinishKeepsStored

LEMMA CxReceivePingStored ==
  ASSUME TypeInv, StoredInv, NEW a \in Agents, NEW h \in Handlers, NEW m \in net,
         CxReceivePing(a, h, m)
  PROVE  StoredInv'
  <1> DEFINE r(c) == conns[a][c]
             n(c) == [Idle EXCEPT !.pc = "cx-complete", !.msg = m, !.id = c, !.conn = r(c)]
  <1>1. PICK c \in ConnIds : PingCompletes(a, c, m) /\ Continue(a, h, n(c))
    BY DEF CxReceivePing
  <1>2. RecordStoredIn(dids[a], r(c))
    BY <1>1 DEF PingCompletes, ContextConnections, FindByKeys, ByKeys,
                ConnectionsByDids, StoredInv
  <1> HIDE DEF r
  <1>3. n(c).pc = "cx-complete" /\ n(c).conn = r(c)
    BY DEF Idle
  <1> HIDE DEF n
  <1>4. TaskStoredIn(dids[a], n(c))
    BY <1>2, <1>3 DEF TaskStoredIn, UsesSavedDid
  <1> QED
    BY <1>1, <1>4, TaskKeepsStored DEF CxReceivePing, Slots

LEMMA CxCompleteStored ==
  ASSUME TypeInv, StoredInv, NEW a \in Agents, NEW h \in Handlers, CxComplete(a, h)
  PROVE  StoredInv'
  <1> DEFINE k == tasks[a][h]
             r == [k.conn EXCEPT !.state = "completed"]
  <1>1. h \in Slots /\ k.id \in ConnIds /\ k.conn \in ConnectionRecords
        /\ RecordStoredIn(dids[a], k.conn)
    BY TaskIsSound, TaskIsStored
    DEF CxComplete, At, Slots, SoundTasks, SoundRecords, TaskStoredIn, UsesRecord
  <1>2. SaveConnection(a, k.id, r) /\ Finish(a, h)
    BY DEF CxComplete
  <1>3. RecordStoredIn(dids[a], r)
    BY <1>1 DEF RecordStoredIn, ConnectionRecords
  <1> HIDE DEF r
  <1> QED
    BY <1>1, <1>2, <1>3, LastRecordKeepsStored DEF CxComplete

LEMMA CxReceiveProblemReportStored ==
  ASSUME TypeInv, StoredInv, NEW a \in Agents, NEW h \in Handlers, NEW m \in net,
         CxReceiveProblemReport(a, h, m)
  PROVE  StoredInv'
  <1> DEFINE r(c) == conns[a][c]
             n(c) == [Idle EXCEPT !.pc = "cx-abandon", !.msg = m, !.id = c, !.conn = r(c)]
  <1>1. PICK c \in ConnIds : ReportConcerns(a, c, m) /\ Continue(a, h, n(c))
    BY DEF CxReceiveProblemReport
  <1>2. RecordStoredIn(dids[a], r(c))
    BY <1>1 DEF ReportConcerns, ConnectionsByOurDid, StoredInv
  <1> HIDE DEF r
  <1>3. n(c).pc = "cx-abandon" /\ n(c).conn = r(c)
    BY DEF Idle
  <1> HIDE DEF n
  <1>4. TaskStoredIn(dids[a], n(c))
    BY <1>2, <1>3 DEF TaskStoredIn, UsesSavedDid
  <1> QED
    BY <1>1, <1>4, TaskKeepsStored DEF CxReceiveProblemReport, Slots

LEMMA CxAbandonStored ==
  ASSUME TypeInv, StoredInv, NEW a \in Agents, NEW h \in Handlers, CxAbandon(a, h)
  PROVE  StoredInv'
  <1> DEFINE k == tasks[a][h]
             r == [k.conn EXCEPT !.state = "abandoned"]
  <1>1. h \in Slots /\ k.id \in ConnIds /\ k.conn \in ConnectionRecords
        /\ RecordStoredIn(dids[a], k.conn)
    BY TaskIsSound, TaskIsStored
    DEF CxAbandon, At, Slots, SoundTasks, SoundRecords, TaskStoredIn, UsesRecord
  <1>2. SaveConnection(a, k.id, r) /\ Finish(a, h)
    BY DEF CxAbandon
  <1>3. RecordStoredIn(dids[a], r)
    BY <1>1 DEF RecordStoredIn, ConnectionRecords
  <1> HIDE DEF r
  <1> QED
    BY <1>1, <1>2, <1>3, LastRecordKeepsStored DEF CxAbandon

LEMMA ConnectionProtocolKeepsStored ==
  ASSUME TypeInv, StoredInv, ConnectionProtocolNext
  PROVE  StoredInv'
  <1>1. Callers \subseteq Slots /\ Handlers \subseteq Slots
    BY DEF Slots
  <1>2. ASSUME NEW a \in Agents, NEW c \in ConnIds, PeerReportsProblem(a, c)
        PROVE  StoredInv'
    BY <1>2, OthersKeepStored DEF PeerReportsProblem
  <1> QED
    BY <1>1, <1>2, CxCreateRequestDidStored, CxCreateConnectionStored, CxSendRequestStored,
       CxReceiveRequestStored, CxSaveRequesterDidStored, CxCreateResponderStored,
       CxCreateResponseDidStored, CxSendResponseStored, CxReceiveResponseStored,
       CxSaveResponderDidStored, CxResponseReceivedStored, CxSendPingStored,
       CxReceivePingStored, CxCompleteStored, CxReceiveProblemReportStored,
       CxAbandonStored
    DEF ConnectionProtocolNext

-------------------------------------------------------------------------------
(* The out-of-band protocol *)

LEMMA AcceptInvitationStored ==
  ASSUME TypeInv, StoredInv, NEW a \in Agents, NEW s \in Callers, NEW i \in Invitations,
         AcceptInvitation(a, s, i)
  PROVE  StoredInv'
  <1> DEFINE o == [oob[a]["receiver"][i] EXCEPT !.state = "prepare-response"]
             reusing(c) == [Idle EXCEPT !.pc = "oob-createReuse", !.inv = i, !.oob = o,
                                        !.id = c, !.conn = conns[a][c]]
             asking == [Idle EXCEPT !.pc = RequestPc(i), !.inv = i, !.oob = o]
  <1>1. /\ \/ \E c \in ExistingConnections(a, i) : Continue(a, s, reusing(c))
           \/ Continue(a, s, asking)
        /\ UNCHANGED <<conns, dids>> /\ s \in Slots
    BY DEF AcceptInvitation, Slots
  <1> HIDE DEF o
  <1>2. ASSUME NEW c \in ExistingConnections(a, i)
        PROVE  TaskStoredIn(dids[a], reusing(c))
    <2>1. RecordStoredIn(dids[a], conns[a][c])
      BY DEF ExistingConnections, StoredInv
    <2>2. reusing(c).pc = "oob-createReuse" /\ reusing(c).conn = conns[a][c]
      BY DEF Idle
    <2> HIDE DEF reusing
    <2> QED
      BY <2>1, <2>2 DEF TaskStoredIn, UsesSavedDid
  <1>3. TaskStoredIn(dids[a], asking)
    <2>1. asking.pc \in {"dx-createConnection", "cx-createRequestDid"}
      BY DEF Idle, RequestPc
    <2> HIDE DEF asking
    <2> QED
      BY <2>1 DEF TaskStoredIn, UsesRecord, UsesSavedDid
  <1> HIDE DEF reusing, asking
  <1> QED
    BY <1>1, <1>2, <1>3, TaskKeepsStored

LEMMA CreateHandshakeReuseStored ==
  ASSUME TypeInv, StoredInv, NEW a \in Agents, NEW s \in Callers, CreateHandshakeReuse(a, s)
  PROVE  StoredInv'
  <1> DEFINE k == tasks[a][s]
             n == [k EXCEPT !.pc = "oob-awaitReuse", !.oob = [k.oob EXCEPT !.reuse = k.id]]
  <1>1. s \in Slots /\ k \in Tasks
    BY TaskIsSound DEF Slots, SoundTasks
  <1>2. (Continue(a, s, n) \/ Finish(a, s)) /\ UNCHANGED <<conns, dids>>
    BY DEF CreateHandshakeReuse
  <1>3. n.pc = "oob-awaitReuse"
    BY <1>1 DEF Tasks
  <1> HIDE DEF n
  <1>4. TaskStoredIn(dids[a], n)
    BY <1>3 DEF TaskStoredIn, UsesRecord, UsesSavedDid
  <1> QED
    BY <1>1, <1>2, <1>4, TaskKeepsStored, FinishKeepsStored

LEMMA ReuseTimesOutStored ==
  ASSUME TypeInv, StoredInv, NEW a \in Agents, NEW s \in Callers, ReuseTimesOut(a, s)
  PROVE  StoredInv'
  <1> DEFINE k == tasks[a][s]
             n == [k EXCEPT !.pc = RequestPc(k.inv), !.id = None, !.conn = None]
  <1>1. s \in Slots /\ k \in Tasks
    BY TaskIsSound DEF Slots, SoundTasks
  <1>2. Continue(a, s, n) /\ UNCHANGED <<conns, dids>>
    BY DEF ReuseTimesOut
  <1>3. n.pc \in {"dx-createConnection", "cx-createRequestDid"}
    BY <1>1 DEF Tasks, RequestPc
  <1> HIDE DEF n
  <1>4. TaskStoredIn(dids[a], n)
    BY <1>3 DEF TaskStoredIn, UsesRecord, UsesSavedDid
  <1> QED
    BY <1>1, <1>2, <1>4, TaskKeepsStored

LEMMA ReceiveReuseStored ==
  ASSUME TypeInv, StoredInv, NEW a \in Agents, NEW h \in Handlers, NEW m \in net,
         ReceiveReuse(a, h, m)
  PROVE  StoredInv'
  <1> DEFINE r(c) == conns[a][c]
             n(c) == [pc |-> IF Reusable[m.inv] THEN "oob-acceptReuse" ELSE "oob-closeReused",
                      msg |-> m, inv |-> m.inv, oob |-> oob[a]["sender"][m.inv],
                      id |-> c, conn |-> r(c)]
  <1>1. PICK c \in ContextConnections(a, m) : Continue(a, h, n(c))
    BY DEF ReceiveReuse
  <1>2. RecordStoredIn(dids[a], r(c))
    BY <1>1 DEF ContextConnections, FindByKeys, ByKeys, ConnectionsByDids, StoredInv
  <1> HIDE DEF r
  <1>3. n(c).pc \in {"oob-acceptReuse", "oob-closeReused"} /\ n(c).conn = r(c)
    OBVIOUS
  <1> HIDE DEF n
  <1>4. TaskStoredIn(dids[a], n(c))
    BY <1>2, <1>3 DEF TaskStoredIn, UsesSavedDid
  <1> QED
    BY <1>1, <1>4, TaskKeepsStored DEF ReceiveReuse, Slots

LEMMA CloseReusedInvitationStored ==
  ASSUME TypeInv, StoredInv, NEW a \in Agents, NEW h \in Handlers, CloseReusedInvitation(a, h)
  PROVE  StoredInv'
  <1> DEFINE k == tasks[a][h]
             n == [k EXCEPT !.pc = "oob-acceptReuse", !.oob = [k.oob EXCEPT !.state = "done"]]
  <1>1. h \in Slots /\ k \in Tasks /\ RecordStoredIn(dids[a], k.conn)
    BY TaskIsSound, TaskIsStored
    DEF CloseReusedInvitation, At, Slots, SoundTasks, TaskStoredIn, UsesRecord
  <1>2. Continue(a, h, n) /\ UNCHANGED <<conns, dids>>
    BY DEF CloseReusedInvitation
  <1>3. n.pc = "oob-acceptReuse" /\ n.conn = k.conn
    BY <1>1 DEF Tasks
  <1> HIDE DEF n
  <1>4. TaskStoredIn(dids[a], n)
    BY <1>1, <1>3 DEF TaskStoredIn, UsesSavedDid
  <1> QED
    BY <1>1, <1>2, <1>4, TaskKeepsStored

LEMMA ReceiveReuseAcceptedStored ==
  ASSUME TypeInv, StoredInv, NEW a \in Agents, NEW h \in Handlers, NEW m \in net,
         ReceiveReuseAccepted(a, h, m)
  PROVE  StoredInv'
  <1> DEFINE o == oob[a]["receiver"][m.inv]
             n == [Idle EXCEPT !.pc = "oob-closeReceived", !.msg = m,
                               !.inv = m.inv, !.oob = o]
             woken == {s \in Callers : /\ At(a, s, "oob-awaitReuse")
                                       /\ tasks[a][s].inv = m.inv /\ tasks[a][s].id = o.reuse}
             f == [t \in Slots |-> IF t = h THEN n
                                   ELSE IF t \in woken THEN Idle ELSE tasks[a][t]]
  <1>1. tasks' = [tasks EXCEPT ![a] = f] /\ UNCHANGED <<conns, dids>>
    BY DEF ReceiveReuseAccepted
  <1> HIDE DEF o
  <1>2. n.pc = "oob-closeReceived"
    BY DEF Idle
  <1> HIDE DEF n, woken
  <1>3. TaskStoredIn(dids[a], n)
    BY <1>2 DEF TaskStoredIn, UsesRecord, UsesSavedDid
  <1>4. \A t \in Slots : TaskStoredIn(dids[a], f[t])
    BY <1>3, IdleIsStored, TaskIsStored
  <1> HIDE DEF f
  <1>5. \A b \in Agents : tasks'[b] = tasks[b] \/ (b = a /\ tasks'[b] = f)
    BY <1>1 DEF TypeInv, TasksType
  <1> QED
    BY <1>1, <1>4, <1>5 DEF StoredInv

LEMMA OutOfBandKeepsStored ==
  ASSUME TypeInv, StoredInv, OutOfBandNext
  PROVE  StoredInv'
  <1>1. Handlers \subseteq Slots
    BY DEF Slots
  <1>2. ASSUME NEW a \in Agents, NEW i \in Invitations,
               CreateInvitation(a, i) \/ ReceiveInvitation(a, i)
        PROVE  StoredInv'
    BY <1>2, OthersKeepStored DEF CreateInvitation, ReceiveInvitation
  <1>3. ASSUME NEW a \in Agents, NEW h \in Handlers,
               SendReuseAccepted(a, h) \/ CloseReceivedInvitation(a, h)
        PROVE  StoredInv'
    BY <1>1, <1>3, FinishKeepsStored DEF SendReuseAccepted, CloseReceivedInvitation
  <1> QED
    BY <1>2, <1>3, AcceptInvitationStored, CreateHandshakeReuseStored, ReuseTimesOutStored,
       ReceiveReuseStored, ReceiveReuseAcceptedStored, CloseReusedInvitationStored
    DEF OutOfBandNext

-------------------------------------------------------------------------------
(* Calls by hand, ignored messages, faults *)

LEMMA StartCallStored ==
  ASSUME TypeInv, StoredInv, NEW a \in Agents, NEW s \in Callers, NEW c \in ConnIds,
         NEW pc \in {"dx-createResponseDid", "cx-createResponseDid",
                     "dx-createComplete", "cx-sendPing"},
         StartCall(a, s, c, pc)
  PROVE  StoredInv'
  <1> DEFINE r == conns[a][c]
             n == [Idle EXCEPT !.pc = pc, !.inv = r.inv, !.id = c, !.conn = r]
  <1>1. Continue(a, s, n) /\ UNCHANGED <<conns, dids>> /\ s \in Slots
    BY DEF StartCall, Slots
  <1>2. RecordStoredIn(dids[a], r)
    BY DEF StartCall, StoredInv
  <1> HIDE DEF r
  <1>3. n.pc = pc /\ n.conn = r
    BY DEF Idle
  <1> HIDE DEF n
  <1>4. TaskStoredIn(dids[a], n)
    BY <1>2, <1>3 DEF TaskStoredIn, UsesSavedDid
  <1> QED
    BY <1>1, <1>4, TaskKeepsStored

LEMMA ConnectionsApiKeepsStored ==
  ASSUME TypeInv, StoredInv, ConnectionsApiNext
  PROVE  StoredInv'
  BY StartCallStored DEF ConnectionsApiNext, AcceptRequest, AcceptResponse, SendPing

LEMMA IgnoreMessageStored ==
  ASSUME StoredInv, NEW a, NEW h, NEW m, IgnoreMessage(a, h, m)
  PROVE  StoredInv'
  BY OthersKeepStored DEF IgnoreMessage

LEMMA FaultsKeepStored ==
  ASSUME TypeInv, StoredInv, FaultNext
  PROVE  StoredInv'
  <1>1. ASSUME NEW m \in net, LoseMessage(m)
        PROVE  StoredInv'
    BY <1>1, OthersKeepStored DEF LoseMessage
  <1>2. ASSUME NEW a \in Agents, Crash(a)
        PROVE  StoredInv'
    <2>1. \A b \in Agents, t \in Slots : tasks'[b][t] = tasks[b][t] \/ tasks'[b][t] = Idle
      BY <1>2 DEF Crash, TypeInv, TasksType
    <2> QED
      BY <1>2, <2>1, IdleIsStored DEF Crash, StoredInv
  <1> QED
    BY <1>1, <1>2 DEF FaultNext

-------------------------------------------------------------------------------

LEMMA StoredInvInitially ==
  ASSUME Init
  PROVE  StoredInv
  BY IdleIsStored DEF Init, StoredInv

LEMMA StoredInvKept ==
  ASSUME TypeInv, StoredInv, [Next]_vars
  PROVE  StoredInv'
  <1>1. CASE UNCHANGED vars
    BY <1>1, OthersKeepStored DEF vars
  <1> QED
    BY <1>1, OutOfBandKeepsStored, DidExchangeKeepsStored, ConnectionProtocolKeepsStored,
       ConnectionsApiKeepsStored, IgnoreMessageStored, FaultsKeepStored
    DEF Next

\* Every DID of a connection record has its DID record, whatever is lost, repeated or
\* interrupted, and however many handlers and calls run at once: the code always saves
\* the DID (createDid, PeerDidRegistrar.create) before the connection that names it.
THEOREM DidsAreStored == Spec => []DidsStored
  <1>1. Init => StoredInv
    BY StoredInvInitially
  <1>2. TypeInv /\ StoredInv /\ [Next]_vars => StoredInv'
    BY StoredInvKept
  <1>3. StoredInv => DidsStored
    BY DEF StoredInv, DidsStored, RecordStoredIn, StoredIn
  <1> QED
    BY <1>1, <1>2, <1>3, TypesHold, PTL DEF Spec
===============================================================================
