----------------------------- MODULE AgentRecords -----------------------------
(***************************************************************************)
(* The state that the connection protocols share: the records every agent  *)
(* keeps in its wallet storage (out-of-band records, connection records,   *)
(* DID records), the messages in flight between agents, and the            *)
(* asynchronous tasks (message handlers and API calls) every agent is      *)
(* running, each with the copies of records it has read.                   *)
(*                                                                         *)
(* Granularity.  A task is a JavaScript async function: it runs from one   *)
(* `await` to the next without interruption.  One action of the modules    *)
(* built on this one performs one write to storage (or one send), with the *)
(* computation in front of it; reads that directly follow each other are   *)
(* one step.  Storage hands out fresh copies, so a task that resumes works *)
(* on the copy it read earlier, however stale.                             *)
(***************************************************************************)
EXTENDS Naturals, Sequences

CONSTANTS
  Agents,        \* agents (tenants are agents of their own)
  Handlers,      \* message handlers an agent can run concurrently: one when
                 \* messages come through Agent.ts's concatMap, several when
                 \* inbound transports call MessageReceiver directly
  Callers,       \* application calls of the API that run concurrently
  Invitations,   \* invitations that are ever created
  Owner,         \* the agent that creates an invitation
  Reusable,      \* is it a multi-use invitation?
  ServiceKey,    \* number of the key in the invitation's service block
  Protocol,      \* the handshake protocol the invitation leads to
  ConnIds,       \* connection record ids (bounds the connections per agent)
  AutoAccept,    \* agents that accept connections automatically
  Faults,        \* faults of the environment that may happen
  None           \* "undefined" / "null"

ConnectionProtocols == {"did-exchange", "connections"}

FaultKinds == {"loss", "duplication", "crash", "session-closed",
               "reuse-timeout", "peer-report"}

ASSUME ConstantsAssumption ==
  /\ Handlers \cap Callers = {}
  /\ ConnIds \subseteq Nat
  /\ Owner \in [Invitations -> Agents]
  /\ Reusable \in [Invitations -> BOOLEAN]
  /\ ServiceKey \in [Invitations -> Nat]
  /\ Protocol \in [Invitations -> ConnectionProtocols]
  /\ AutoAccept \subseteq Agents
  /\ Faults \subseteq FaultKinds

VARIABLES
  oob,      \* oob[a][role][i]: a's out-of-band record of invitation i
  conns,    \* conns[a][c]: a's connection record with id c
  dids,     \* dids[a]: a's DID records, in the order they were saved
  net,      \* messages in flight
  tasks     \* tasks[a][t]: what handler or caller t of agent a is doing

vars == <<oob, conns, dids, net, tasks>>

-------------------------------------------------------------------------------
(* Values *)

OobRoles  == {"sender", "receiver"}
OobStates == {"initial", "await-response", "prepare-response", "done"}

ConnRoles  == {"requester", "responder"}
ConnStates == {"invitation-received", "request-sent", "request-received",
               "response-sent", "response-received", "completed", "abandoned"}

DidRoles == {"created", "received"}

\* A public key.  It belongs to one agent; it is the key of an invitation's
\* service block, or one made by RoutingService.getRouting for the DID record
\* that its agent saves as number n.
Keys == [agent : Agents, use : {"service", "routing"}, n : Nat]

\* A peer DID: the hash of a DID document.  DID exchange puts random key ids in
\* the document, so every document has a DID of its own (n); the connection
\* protocol's document depends on the key alone (n = 0).
PeerDids == [key : Keys, n : Nat]

DidRecords == [role : DidRoles, did : PeerDids]

\* A thread is named after the requester's connection that opened it.
Threads == [agent : Agents, conn : ConnIds]

OobRecords == [state : OobStates, reuse : ConnIds \cup {None}]

ConnectionRecords ==
  [role : ConnRoles, state : ConnStates, protocol : ConnectionProtocols,
   thread : Threads \cup {None}, inv : Invitations,
   did : PeerDids \cup {None}, theirDid : PeerDids \cup {None}]

MessageTypes == {"dx-request", "dx-response", "dx-complete",
                 "cx-request", "cx-response", "ping", "problem-report",
                 "reuse", "reuse-accepted"}

Messages ==
  [type : MessageTypes, from : Keys, to : Keys, thread : Threads \cup {None},
   inv : Invitations \cup {None}, did : PeerDids \cup {None}]

\* The steps of a handler or call, each named for the write that is next.
Steps == {
  "idle",
  "oob-createReuse", "oob-awaitReuse", "oob-closeReused", "oob-acceptReuse",
  "oob-closeReceived",
  "dx-createConnection", "dx-createRequestDid", "dx-sendRequest",
  "dx-saveRequesterDid", "dx-createResponder", "dx-createResponseDid", "dx-sendResponse",
  "dx-saveResponderDid", "dx-responseReceived", "dx-createComplete", "dx-sendComplete",
  "dx-closeInvitation", "dx-processComplete",
  "cx-createRequestDid", "cx-createConnection", "cx-sendRequest",
  "cx-saveRequesterDid", "cx-createResponder", "cx-createResponseDid", "cx-sendResponse",
  "cx-saveResponderDid", "cx-responseReceived", "cx-sendPing", "cx-complete", "cx-abandon"}

Tasks ==
  [pc : Steps, msg : Messages \cup {None}, inv : Invitations \cup {None},
   oob : OobRecords \cup {None}, id : ConnIds \cup {None},
   conn : ConnectionRecords \cup {None}]

Idle == [pc |-> "idle", msg |-> None, inv |-> None, oob |-> None,
         id |-> None, conn |-> None]

ASSUME NoneAssumption ==
  /\ None \notin ConnIds \cup Invitations
  /\ None \notin PeerDids \cup Threads \cup OobRecords \cup ConnectionRecords

Slots == Handlers \cup Callers

-------------------------------------------------------------------------------
(* Storage *)

InvitationKey(i) == [agent |-> Owner[i], use |-> "service", n |-> ServiceKey[i]]

SaveOob(a, role, i, r) == oob' = [oob EXCEPT ![a][role][i] = r]

SaveConnection(a, c, r) == conns' = [conns EXCEPT ![a][c] = r]

SaveDid(a, role, d) == dids' = [dids EXCEPT ![a] = Append(@, [role |-> role, did |-> d])]

\* Ids are handed out in order: they are only names.
FreshConnId(a, c) ==
  /\ c \in ConnIds /\ conns[a][c] = None
  /\ \A b \in ConnIds : b < c => conns[a][b] # None

\* The number of the next DID record, and the key and DID made for it.
NextDid(a)    == Len(dids[a]) + 1
RoutingKey(a) == [agent |-> a, use |-> "routing", n |-> NextDid(a)]

\* Repository.findSingleByQuery throws RecordDuplicateError on several records.
Several(S) == \E x, y \in S : x # y

DidsByKey(a, role, k) ==
  {n \in DOMAIN dids[a] : dids[a][n].role = role /\ dids[a][n].did.key = k}

ConnectionsByDids(a, ours, theirs) ==
  {c \in ConnIds : /\ conns[a][c] # None
                   /\ conns[a][c].did = ours /\ conns[a][c].theirDid = theirs}

ConnectionsByThread(a, role, th) ==
  {c \in ConnIds : /\ conns[a][c] # None
                   /\ conns[a][c].role = role /\ conns[a][c].thread = th}

ConnectionsByOurDid(a, ours) ==
  {c \in ConnIds : conns[a][c] # None /\ conns[a][c].did = ours}

OobsByKey(a, k) ==
  {i \in Invitations : oob[a]["sender"][i] # None /\ InvitationKey(i) = k}

IsReady(r) == r.state \in {"completed", "response-sent"}

\* ConnectionService.findByKeys: the connections whose DIDs are the one received
\* with the sender's key and the one created for the recipient's key.
ByKeys(a, sender, recipient) ==
  {c \in ConnIds :
     \E m \in DidsByKey(a, "received", sender),
        n \in DidsByKey(a, "created", recipient) :
       c \in ConnectionsByDids(a, dids[a][n].did, dids[a][m].did)}

FindByKeysThrows(a, sender, recipient) ==
  \/ Several(DidsByKey(a, "received", sender))
  \/ /\ DidsByKey(a, "received", sender) # {}
     /\ Several(DidsByKey(a, "created", recipient))
  \/ Several(ByKeys(a, sender, recipient))

FindByKeys(a, sender, recipient) ==
  {c \in ByKeys(a, sender, recipient) : IsReady(conns[a][c])}

\* The connection in the context of an inbound message: at most one, and ready.
ContextConnections(a, m) == FindByKeys(a, m.from, m.to)

-------------------------------------------------------------------------------
(* Tasks and messages *)

At(a, t, pc) == tasks[a][t].pc = pc

Continue(a, t, task) == tasks' = [tasks EXCEPT ![a][t] = task]

Finish(a, t) == Continue(a, t, Idle)

\* An inbound transport may deliver a message more than once: the sender tries
\* the next service, or picks the message up again, when an answer is missing.
Consume(m) ==
  \/ net' = net \ {m}
  \/ "duplication" \in Faults /\ net' = net

\* MessageReceiver hands message m to the idle handler h of agent a.
Delivers(a, h, m, type) ==
  /\ h \in Handlers /\ At(a, h, "idle")
  /\ m \in net /\ m.to.agent = a /\ m.type = type
  /\ Consume(m)

\* The message is unpacked and its connection looked up without an error.
Resolvable(a, m) == ~FindByKeysThrows(a, m.from, m.to)

Send(m) == net' = net \cup {m}

-------------------------------------------------------------------------------
TypeOK ==
  /\ oob \in [Agents -> [OobRoles -> [Invitations -> OobRecords \cup {None}]]]
  /\ conns \in [Agents -> [ConnIds -> ConnectionRecords \cup {None}]]
  /\ dids \in [Agents -> Seq(DidRecords)]
  /\ net \subseteq Messages
  /\ tasks \in [Agents -> [Slots -> Tasks]]

Init ==
  /\ oob = [a \in Agents |-> [r \in OobRoles |-> [i \in Invitations |-> None]]]
  /\ conns = [a \in Agents |-> [c \in ConnIds |-> None]]
  /\ dids = [a \in Agents |-> <<>>]
  /\ net = {}
  /\ tasks = [a \in Agents |-> [t \in Slots |-> Idle]]
===============================================================================
