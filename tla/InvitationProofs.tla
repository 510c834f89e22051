--------------------------- MODULE InvitationProofs ----------------------------
(***************************************************************************)
(* The proofs about invitations: what closes one, and what an invitee that *)
(* reuses a connection can rely on.                                        *)
(*                                                                         *)
(* An invitation, the connections made from it and the messages about it   *)
(* belong to two agents.  The invariant says what a message proves about   *)
(* the records of its sender, and at the step of a task at which a record  *)
(* is closed, why it may be.  A message names its connection by keys only, *)
(* so the keys come first: no two requests have the same, and no answer    *)
(* has that of a request.                                                  *)
(***************************************************************************)
EXTENDS ContractProofs

\* The invitees of a single-use invitation accept connections automatically: by hand
\* one can send a trust ping, which completes the inviter's end of a DID exchange too.
InviteesAccept ==
  \A i \in Invitations : ~Reusable[i] => Invited[i] \subseteq AutoAccept

\* No peer gives up a connection.
NoReports == "peer-report" \notin Faults

-------------------------------------------------------------------------------
(* The keys of answers *)

AnswersWith(cs, a, d) == cs[a][d] # None /\ cs[a][d].role = "responder" /\ cs[a][d].did # None

\* A key of agent b that is not the key of a request of its own.
NotAsked(b, key) ==
  key.use = "routing" =>
    /\ IsOwnKey(dids, b, key)
    /\ \A c \in ConnIds : AsksWith(conns, b, c) => conns[b][c].did.key # key
    /\ \A u \in Slots : tasks[b][u].pc \in UnsavedSteps => tasks[b][u].conn.did.key # key

\* The steps of a task that has made the DID of an answer and not saved it yet.
AnswerSteps == {"dx-sendResponse", "cx-sendResponse"}

AnswerKeyInv ==
  /\ \A b \in Agents, d \in ConnIds : AnswersWith(conns, b, d) => NotAsked(b, conns[b][d].did.key)
  /\ \A b \in Agents, t \in Slots :
       tasks[b][t].pc \in AnswerSteps => NotAsked(b, tasks[b][t].conn.did.key)

OwnKeysInv == KeyInv /\ AnswerKeyInv

-------------------------------------------------------------------------------
(* What the records of two agents prove *)

InvOf(cs, th) == cs[th.agent][th.conn].inv

\* Thread th is a request by this protocol.
AskedIn(cs, th, protocol) ==
  LET r == cs[th.agent][th.conn] IN
  th \in Threads /\ r # None /\ r.role = "requester" /\ r.protocol = protocol

\* The request of a connection, or its response, was sent with the DID in the record.
AskedWith(cs, b, c)    == AsksWith(cs, b, c) /\ cs[b][c].state \notin Young
AnsweredWith(cs, b, d) == AnswersWith(cs, b, d) /\ cs[b][d].state \notin Young

\* A connection of agent b with the DID of this key at the other end has been answered.
AnsweredKeyIn(cs, b, key) ==
  \E d \in ConnIds : AnsweredWith(cs, b, d) /\ cs[b][d].theirDid.key = key

\* The creator of invitation i has answered a request for it.
AnsweredIn(cs, i) ==
  \E c \in ConnIds : LET r == cs[Owner[i]][c] IN
    r # None /\ r.role = "responder" /\ r.inv = i /\ r.state \notin Young

\* An invitee has answered invitation i with a connection it had.
ReusedIn(ob, i) ==
  \E b \in Invited[i] : ob[b]["receiver"][i] # None /\ ob[b]["receiver"][i].reuse # None

UsedIn(cs, ob, i) == AnsweredIn(cs, i) \/ ReusedIn(ob, i)

ClosedIn(ob, i) ==
  ob[Owner[i]]["sender"][i] # None /\ ob[Owner[i]]["sender"][i].state = "done"

\* Connection c of agent a is one that it made itself ...
OwnIn(cs, a, c) == cs[a][c] # None /\ cs[a][c].role = "requester"

\* ... and it stands for invitation i, as the creator of i sees it too.
StandsIn(cs, ob, a, c, i) ==
  /\ OwnIn(cs, a, c) /\ cs[a][c].state \notin Young
  /\ \E d \in ConnIds : LET r == cs[Owner[i]][d] IN
       r # None /\ r.role = "responder" /\ r.state \notin Young /\ r.thread = cs[a][c].thread
  /\ ~Reusable[i] => ClosedIn(ob, i)

-------------------------------------------------------------------------------
(* The invariant *)

\* What holds of a record of agent a, stored or about to be.
UsedRecord(cs, ob, a, r) ==
  /\ r.role = "requester" =>
       /\ a \in Invited[r.inv]
       /\ r.state \in {"invitation-received", "request-sent"} => r.theirDid = None
       /\ r.protocol = "did-exchange" /\ r.state \in {"response-received", "completed"}
          => AnsweredIn(cs, r.inv)
  /\ r.role = "responder" =>
       /\ AskedIn(cs, r.thread, r.protocol)
       /\ r.protocol = "did-exchange" => InvOf(cs, r.thread) = r.inv
       /\ InviteesAccept /\ r.protocol = "did-exchange" /\ r.state = "completed" /\ ~Reusable[r.inv]
          => ClosedIn(ob, r.inv)
  /\ NoReports => r.state # "abandoned"

\* What a message proves.
UsedMessage(cs, ob, m) ==
  /\ m.type \in {"dx-request", "dx-complete"} =>
       AskedIn(cs, m.thread, "did-exchange") /\ InvOf(cs, m.thread) = m.inv
  /\ m.type = "dx-response" =>
       AskedIn(cs, m.thread, "did-exchange") /\ AnsweredIn(cs, InvOf(cs, m.thread))
  /\ m.type \in {"cx-request", "cx-response"} => AskedIn(cs, m.thread, "connections")
  /\ m.type = "dx-complete" => AnsweredIn(cs, m.inv)
  /\ m.type = "ping" =>
       \E b \in Agents, c \in ConnIds :
         /\ \/ AnsweredWith(cs, b, c)
            \/ AskedWith(cs, b, c) /\ (cs[b][c].protocol = "connections" \/ b \notin AutoAccept)
         /\ cs[b][c].did.key = m.from
  /\ m.type = "problem-report" => ~NoReports
  /\ m.type = "reuse" =>
       /\ UsedIn(cs, ob, m.inv)
       /\ NoReports =>
            /\ \E b \in Agents, c \in ConnIds : AskedWith(cs, b, c) /\ cs[b][c].did.key = m.from
            /\ \E b \in Agents, d \in ConnIds : AnsweredWith(cs, b, d) /\ cs[b][d].did.key = m.to
  /\ m.type = "reuse-accepted" /\ NoReports =>
       /\ AnsweredKeyIn(cs, Owner[m.inv], m.to)
       /\ ~Reusable[m.inv] => ClosedIn(ob, m.inv)

\* What holds of an invitee's out-of-band record, stored or about to be.
UsedOob(cs, ob, a, i, r) ==
  /\ r.reuse # None => OwnIn(cs, a, r.reuse)
  /\ r.state = "done" /\ NoReports =>
       \/ \E c \in ConnIds : OwnIn(cs, a, c) /\ cs[a][c].inv = i
       \/ r.reuse # None /\ StandsIn(cs, ob, a, r.reuse, i)

StartSteps == {"dx-createConnection", "cx-createRequestDid", "oob-createReuse", "oob-awaitReuse"}

DxSteps ==
  {"dx-createRequestDid", "dx-sendRequest", "dx-createResponseDid", "dx-sendResponse",
   "dx-saveResponderDid", "dx-responseReceived", "dx-createComplete", "dx-sendComplete"}

CxSteps ==
  {"cx-createConnection", "cx-sendRequest", "cx-createResponseDid", "cx-sendResponse",
   "cx-saveResponderDid", "cx-responseReceived"}

\* The steps of an invitee that has its answer.
LearnSteps == {"dx-saveResponderDid", "dx-responseReceived", "dx-createComplete", "dx-sendComplete"}

UsedTask(cs, ob, a, k) ==
  /\ k.pc \in StartSteps => a \in Invited[k.inv]
  /\ k.pc \in {"dx-saveRequesterDid", "dx-createResponder"} =>
       k.msg.type = "dx-request" /\ k.inv = k.msg.inv /\ UsedMessage(cs, ob, k.msg)
  /\ k.pc \in {"cx-saveRequesterDid", "cx-createResponder"} =>
       k.msg.type = "cx-request" /\ UsedMessage(cs, ob, k.msg)
  /\ k.pc \in {"dx-saveResponderDid", "dx-responseReceived"} =>
       k.msg.type = "dx-response" /\ UsedMessage(cs, ob, k.msg)
  /\ k.pc \in {"dx-closeInvitation", "dx-processComplete"} =>
       /\ k.msg \in SoundMessages /\ k.msg.type = "dx-complete"
       /\ k.inv = k.msg.inv /\ Owner[k.inv] = a /\ UsedMessage(cs, ob, k.msg)
  /\ k.pc = "dx-processComplete" /\ ~Reusable[k.inv] => ClosedIn(ob, k.inv)
  /\ k.pc \in DxSteps => k.conn.protocol = "did-exchange"
  /\ k.pc \in CxSteps => k.conn.protocol = "connections"
  /\ k.pc = "cx-createConnection" => UsedRecord(cs, ob, a, k.conn)
  /\ k.pc \in YoungSteps \cup LateSteps =>
       UsedRecord(cs, ob, a, k.conn) /\ cs[a][k.id].protocol = k.conn.protocol
  /\ k.pc \in LearnSteps => k.conn.role = "requester" /\ k.conn.inv = k.inv
  /\ k.pc \in LearnSteps /\ k.oob # None /\ k.oob.reuse # None => OwnIn(cs, a, k.oob.reuse)
  /\ k.pc = "dx-sendComplete" => k.conn.state = "completed"
  /\ k.pc = "cx-sendPing" /\ k.conn.role = "requester" =>
       k.conn.protocol = "connections" \/ a \notin AutoAccept
  /\ k.pc = "cx-complete" /\ InviteesAccept =>
       k.conn.role = "responder" /\ (k.conn.protocol = "did-exchange" => Reusable[k.conn.inv])
  /\ k.pc = "cx-abandon" => ~NoReports
  /\ k.pc = "oob-createReuse" =>
       /\ OwnIn(cs, a, k.id) /\ k.oob.state = "prepare-response"
       /\ k.conn.did # None /\ k.conn.theirDid # None /\ NoReports =>
            /\ cs[a][k.id].state \notin Young /\ cs[a][k.id].did = k.conn.did
            /\ \E b \in Agents, d \in ConnIds :
                 AnsweredWith(cs, b, d) /\ cs[b][d].did = k.conn.theirDid
  /\ k.pc \in {"oob-closeReused", "oob-acceptReuse"} =>
       /\ Owner[k.inv] = a /\ UsedIn(cs, ob, k.inv)
       /\ NoReports => AnsweredKeyIn(cs, a, k.conn.theirDid.key)
  /\ k.pc = "oob-acceptReuse" /\ ~Reusable[k.inv] => ClosedIn(ob, k.inv)
  /\ k.pc = "oob-closeReceived" =>
       /\ a \in Invited[k.inv] /\ k.oob.reuse # None /\ OwnIn(cs, a, k.oob.reuse)
       /\ NoReports => StandsIn(cs, ob, a, k.oob.reuse, k.inv)

InvitationInv ==
  /\ \A a \in Agents, c \in ConnIds : conns[a][c] # None => UsedRecord(conns, oob, a, conns[a][c])
  /\ \A m \in net : UsedMessage(conns, oob, m)
  /\ \A a \in Agents, t \in Slots : UsedTask(conns, oob, a, tasks[a][t])
  /\ \A a \in Agents, i \in Invitations :
       LET r == oob[a]["sender"][i] IN
       r # None => Owner[i] = a /\ (r.state = "done" => UsedIn(conns, oob, i))
  /\ \A a \in Agents, i \in Invitations :
       LET r == oob[a]["receiver"][i] IN
       r # None => a \in Invited[i] /\ UsedOob(conns, oob, a, i, r)

-------------------------------------------------------------------------------
(* The keys stay apart *)

\* What an agent answers with after a step it answered with before.
AnswersAsBefore ==
  \A b \in Agents, d \in ConnIds :
    AnswersWith(conns', b, d) => AnswersWith(conns, b, d) /\ conns'[b][d].did = conns[b][d].did

\* The keys of requests after a step were keys of requests, or are new.
KeysAsBefore ==
  \A b \in Agents :
    /\ \A c \in ConnIds :
         AsksWith(conns', b, c) =>
           \/ AsksWith(conns, b, c) /\ conns'[b][c].did = conns[b][c].did
           \/ \E u \in Slots : tasks[b][u].pc \in UnsavedSteps
                               /\ conns'[b][c].did = tasks[b][u].conn.did
    /\ \A u \in Slots :
         tasks'[b][u].pc \in UnsavedSteps =>
           tasks'[b][u] = tasks[b][u] \/ ~IsOwnKey(dids, b, tasks'[b][u].conn.did.key)

LEMMA NotAskedKept ==
  ASSUME MoreDids, KeysAsBefore, NEW b \in Agents, NEW key, NotAsked(b, key)
  PROVE  NotAsked(b, key)'
  <1> SUFFICES ASSUME key.use = "routing"
               PROVE  /\ IsOwnKey(dids', b, key)
                      /\ \A c \in ConnIds : AsksWith(conns', b, c) => conns'[b][c].did.key # key
                      /\ \A u \in Slots :
                           tasks'[b][u].pc \in UnsavedSteps => tasks'[b][u].conn.did.key # key
    BY DEF NotAsked
  <1>1. /\ IsOwnKey(dids, b, key)
        /\ \A c \in ConnIds : AsksWith(conns, b, c) => conns[b][c].did.key # key
        /\ \A u \in Slots : tasks[b][u].pc \in UnsavedSteps => tasks[b][u].conn.did.key # key
    BY DEF NotAsked
  <1>2. IsOwnKey(dids', b, key)
    BY <1>1 DEF MoreDids, IsOwnKey
  <1>3. ASSUME NEW c \in ConnIds, AsksWith(conns', b, c)
        PROVE  conns'[b][c].did.key # key
    BY <1>1, <1>3 DEF KeysAsBefore
  <1>4. ASSUME NEW u \in Slots, tasks'[b][u].pc \in UnsavedSteps
        PROVE  tasks'[b][u].conn.did.key # key
    BY <1>1, <1>4 DEF KeysAsBefore
  <1> QED
    BY <1>2, <1>3, <1>4

LEMMA AnswersKept ==
  ASSUME AnswerKeyInv, MoreDids, KeysAsBefore,
         \A b \in Agents, d \in ConnIds :
           AnswersWith(conns', b, d) =>
             \/ AnswersWith(conns, b, d) /\ conns'[b][d].did = conns[b][d].did
             \/ \E t \in Slots : tasks[b][t].pc \in AnswerSteps
                                 /\ conns'[b][d].did = tasks[b][t].conn.did,
         \A b \in Agents, t \in Slots :
           tasks'[b][t].pc \in AnswerSteps =>
             \/ tasks'[b][t] = tasks[b][t]
             \/ \E key : NotAsked(b, key)' /\ tasks'[b][t].conn.did.key = key
  PROVE  AnswerKeyInv'
  <1>1. ASSUME NEW b \in Agents, NEW d \in ConnIds, AnswersWith(conns', b, d)
        PROVE  \E key : NotAsked(b, key)' /\ conns'[b][d].did.key = key
    <2>1. PICK key : NotAsked(b, key) /\ conns'[b][d].did.key = key
      BY <1>1 DEF AnswerKeyInv
    <2> QED
      BY <2>1, NotAskedKept
  <1>2. ASSUME NEW b \in Agents, NEW t \in Slots, tasks'[b][t].pc \in AnswerSteps
        PROVE  \E key : NotAsked(b, key)' /\ tasks'[b][t].conn.did.key = key
    <2>1. CASE tasks'[b][t] = tasks[b][t]
      <3>1. PICK key : NotAsked(b, key) /\ tasks'[b][t].conn.did.key = key
        BY <1>2, <2>1 DEF AnswerKeyInv
      <3> QED
        BY <3>1, NotAskedKept
    <2> QED
      BY <1>2, <2>1
  <1> QED
    BY <1>1, <1>2 DEF AnswerKeyInv

\* A step that makes no DID for a request or an answer, and saves none.
LEMMA OwnKeysKept ==
  ASSUME TypeInv, AgreementInv, OwnKeysInv, MoreDids, AsksAsBefore, AnswersAsBefore,
         \A b \in Agents, u \in Slots :
           tasks'[b][u] = tasks[b][u] \/ tasks'[b][u].pc \notin KeySteps \cup AnswerSteps
  PROVE  OwnKeysInv'
  <1>1. KeyInv'
    BY KeysKept DEF OwnKeysInv
  <1>2. UnsavedSteps \subseteq KeySteps
    BY DEF UnsavedSteps, KeySteps
  <1>3. KeysAsBefore
    BY <1>2 DEF KeysAsBefore, AsksAsBefore, AsksWith
  <1>4. AnswerKeyInv'
    BY <1>3, AnswersKept DEF OwnKeysInv, AnswersAsBefore
  <1> QED
    BY <1>1, <1>4 DEF OwnKeysInv

LEMMA TaskKeepsKeys ==
  ASSUME TypeInv, AgreementInv, OwnKeysInv, MoreDids, AsksAsBefore, AnswersAsBefore,
         NEW a \in Agents, NEW t,
         Finish(a, t) \/ \E k : Continue(a, t, k) /\ k.pc \notin KeySteps \cup AnswerSteps
  PROVE  OwnKeysInv'
  <1>1. Idle.pc \notin KeySteps \cup AnswerSteps
    BY DEF Idle, KeySteps, AnswerSteps
  <1>2. PICK k : Continue(a, t, k) /\ k.pc \notin KeySteps \cup AnswerSteps
    BY <1>1 DEF Finish
  <1>3. \A b \in Agents, u \in Slots : tasks'[b][u] = tasks[b][u] \/ tasks'[b][u] = k
    BY <1>2 DEF Continue, TypeInv, TasksType
  <1> QED
    BY <1>2, <1>3, OwnKeysKept

LEMMA SameConnsAsBefore ==
  ASSUME UNCHANGED conns
  PROVE  AsksAsBefore /\ AnswersAsBefore
  BY DEF AsksAsBefore, AnswersAsBefore

\* A task writes a record of which a message was sent, or makes one without a DID.
LEMMA WriteAsksAsBefore ==
  ASSUME TypeInv, NEW a \in Agents, NEW c \in ConnIds, NEW r \in ConnectionRecords,
         SaveConnection(a, c, r),
         IF conns[a][c] = None THEN r.did = None
         ELSE r.role = conns[a][c].role /\ r.did = conns[a][c].did
  PROVE  AsksAsBefore /\ AnswersAsBefore
  <1>1. /\ r # None /\ conns'[a][c] = r
        /\ \A b \in Agents, d \in ConnIds : b # a \/ d # c => conns'[b][d] = conns[b][d]
    BY SavedRecord
  <1> QED
    BY <1>1 DEF AsksAsBefore, AnswersAsBefore, AsksWith, AnswersWith

\* A call makes the DID of a request ...
LEMMA NewDidKeepsOwnKeys ==
  ASSUME TypeInv, AgreementInv, OwnKeysInv, UNCHANGED conns, NEW a \in Agents, NEW s \in Slots,
         NEW d, d.key = RoutingKey(a), SaveDid(a, "created", d),
         NEW k, Continue(a, s, k), k.pc \in UnsavedSteps, k.conn.did = d
  PROVE  OwnKeysInv'
  <1>1. KeyInv'
    BY NewDidKeepsKeys DEF OwnKeysInv
  <1>2. \A b \in Agents, u \in Slots : tasks'[b][u] = IF b = a /\ u = s THEN k ELSE tasks[b][u]
    BY DEF Continue, TypeInv, TasksType
  <1>3. MoreDids
    BY DidsGrow
  <1>4. ~IsOwnKey(dids, a, d.key)
    BY NewKeyIsOwn
  <1>5. KeysAsBefore
    BY <1>2, <1>4 DEF KeysAsBefore
  <1>6. k.pc \notin AnswerSteps
    BY DEF UnsavedSteps, AnswerSteps
  <1> QED
    BY <1>1, <1>2, <1>3, <1>5, <1>6, AnswersKept DEF OwnKeysInv

\* ... and saves it.
LEMMA SavedDidKeepsOwnKeys ==
  ASSUME TypeInv, AgreementInv, OwnKeysInv, UNCHANGED dids, NEW a \in Agents, NEW s \in Slots,
         tasks[a][s].pc \in UnsavedSteps, NEW c \in ConnIds, NEW r \in ConnectionRecords,
         SaveConnection(a, c, r), r.did = tasks[a][s].conn.did, r.role = "requester",
         conns[a][c] = None \/ Writes(a, s, c),
         NEW k, Continue(a, s, k), k.pc \notin UnsavedSteps \cup AnswerSteps,
         k.pc = "cx-sendRequest" => k.id = c /\ k.conn.did = r.did
  PROVE  OwnKeysInv'
  <1>1. KeyInv'
    BY SavedDidKeepsKeys DEF OwnKeysInv
  <1>2. /\ r # None /\ conns'[a][c] = r
        /\ \A b \in Agents, d \in ConnIds : b # a \/ d # c => conns'[b][d] = conns[b][d]
    BY SavedRecord
  <1>3. \A b \in Agents, u \in Slots : tasks'[b][u] = IF b = a /\ u = s THEN k ELSE tasks[b][u]
    BY DEF Continue, TypeInv, TasksType
  <1>4. MoreDids
    BY DidsGrow
  <1>5. KeysAsBefore
    <2>1. ASSUME NEW b \in Agents, NEW d \in ConnIds, AsksWith(conns', b, d)
          PROVE  \/ AsksWith(conns, b, d) /\ conns'[b][d].did = conns[b][d].did
                 \/ \E u \in Slots : tasks[b][u].pc \in UnsavedSteps
                                     /\ conns'[b][d].did = tasks[b][u].conn.did
      <3>1. CASE b = a /\ d = c
        BY <1>2, <3>1
      <3>2. CASE b # a \/ d # c
        BY <1>2, <2>1, <3>2 DEF AsksWith
      <3> QED
        BY <3>1, <3>2
    <2> QED
      BY <1>3, <2>1 DEF KeysAsBefore
  <1>6. \A b \in Agents, d \in ConnIds :
          AnswersWith(conns', b, d) => AnswersWith(conns, b, d) /\ conns'[b][d].did = conns[b][d].did
    BY <1>2 DEF AnswersWith
  <1> QED
    BY <1>1, <1>3, <1>4, <1>5, <1>6, AnswersKept DEF OwnKeysInv

\* A task makes the DID of an answer, with a key of its own or that of an invitation ...
LEMMA AnswerDidKeepsOwnKeys ==
  ASSUME TypeInv, AgreementInv, OwnKeysInv, UNCHANGED conns, NEW a \in Agents, NEW t \in Slots,
         NEW d, d.key = RoutingKey(a) \/ d.key.use = "service", SaveDid(a, "created", d),
         NEW k, Continue(a, t, k), k.pc \in AnswerSteps, k.conn.did = d
  PROVE  OwnKeysInv'
  <1>1. \A b \in Agents, u \in Slots : tasks'[b][u] = IF b = a /\ u = t THEN k ELSE tasks[b][u]
    BY DEF Continue, TypeInv, TasksType
  <1>2. MoreDids
    BY DidsGrow
  <1>3. k.pc \notin KeySteps /\ k.pc \notin UnsavedSteps
    BY DEF KeySteps, AnswerSteps, UnsavedSteps
  <1>4. KeyInv' /\ KeysAsBefore
    <2>1. AsksAsBefore
      BY SameConnsAsBefore
    <2>2. \A b \in Agents, u \in Slots : tasks'[b][u] = tasks[b][u] \/ tasks'[b][u].pc \notin KeySteps
      BY <1>1, <1>3
    <2>3. KeyInv'
      BY <1>2, <2>1, <2>2, KeysKept DEF OwnKeysInv
    <2> QED
      BY <1>1, <1>3, <2>3 DEF KeysAsBefore
  <1>5. NotAsked(a, d.key)'
    <2>1. CASE d.key.use = "service"
      BY <2>1 DEF NotAsked
    <2>2. CASE d.key = RoutingKey(a)
      <3> DEFINE key == RoutingKey(a)
      <3>1. ~IsOwnKey(dids, a, key) /\ IsOwnKey(dids', a, key)
        BY NewKeyIsOwn
      <3> HIDE DEF key
      <3>2. \A c \in ConnIds : AsksWith(conns, a, c) => conns[a][c].did.key # key
        BY <3>1 DEF OwnKeysInv, KeyInv
      <3>3. \A u \in Slots : tasks[a][u].pc \in UnsavedSteps => tasks[a][u].conn.did.key # key
        BY <3>1 DEF OwnKeysInv, KeyInv
      <3>4. \A u \in Slots : tasks'[a][u].pc \in UnsavedSteps => tasks'[a][u].conn.did.key # key
        BY <1>1, <1>3, <3>3
      <3>5. d.key = key
        BY <2>2 DEF key
      <3> QED
        BY <3>1, <3>2, <3>4, <3>5 DEF NotAsked
    <2> QED
      BY <2>1, <2>2
  <1>6. \A b \in Agents, u \in Slots :
          tasks'[b][u].pc \in AnswerSteps =>
            \/ tasks'[b][u] = tasks[b][u]
            \/ \E key : NotAsked(b, key)' /\ tasks'[b][u].conn.did.key = key
    BY <1>1, <1>5
  <1>7. AnswerKeyInv'
    BY <1>2, <1>4, <1>6, AnswersKept DEF OwnKeysInv
  <1> QED
    BY <1>4, <1>7 DEF OwnKeysInv

\* ... and saves it.
LEMMA SavedAnswerKeepsOwnKeys ==
  ASSUME TypeInv, AgreementInv, OwnKeysInv, UNCHANGED dids, NEW a \in Agents, NEW t \in Slots,
         tasks[a][t].pc \in AnswerSteps, NEW c \in ConnIds, NEW r \in ConnectionRecords,
         SaveConnection(a, c, r), r.did = tasks[a][t].conn.did, r.role = "responder",
         conns[a][c] # None /\ conns[a][c].role = "responder" /\ conns[a][c].did = None,
         Finish(a, t)
  PROVE  OwnKeysInv'
  <1>1. /\ r # None /\ conns'[a][c] = r
        /\ \A b \in Agents, d \in ConnIds : b # a \/ d # c => conns'[b][d] = conns[b][d]
    BY SavedRecord
  <1>2. \A b \in Agents, u \in Slots : tasks'[b][u] = tasks[b][u] \/ tasks'[b][u].pc = "idle"
    BY DEF Finish, Continue, TypeInv, TasksType, Idle
  <1>3. MoreDids
    BY DidsGrow
  <1>4. "idle" \notin KeySteps /\ "idle" \notin UnsavedSteps /\ "idle" \notin AnswerSteps
    BY DEF KeySteps, UnsavedSteps, AnswerSteps
  <1>5. \A b \in Agents, d \in ConnIds :
          AsksWith(conns', b, d) => AsksWith(conns, b, d) /\ conns'[b][d].did = conns[b][d].did
    BY <1>1 DEF AsksWith
  <1>6. ASSUME NEW b \in Agents, NEW d \in ConnIds, AnswersWith(conns', b, d)
        PROVE  \/ AnswersWith(conns, b, d) /\ conns'[b][d].did = conns[b][d].did
               \/ \E u \in Slots : tasks[b][u].pc \in AnswerSteps
                                   /\ conns'[b][d].did = tasks[b][u].conn.did
    <2>1. CASE b = a /\ d = c
      BY <1>1, <2>1
    <2>2. CASE b # a \/ d # c
      BY <1>1, <1>6, <2>2 DEF AnswersWith
    <2> QED
      BY <2>1, <2>2
  <1>7. KeysAsBefore
    BY <1>2, <1>4, <1>5 DEF KeysAsBefore
  <1>8. AnswerKeyInv'
    BY <1>2, <1>3, <1>4, <1>6, <1>7, AnswersKept DEF OwnKeysInv
  <1>9. \A b \in Agents, d \in ConnIds :
          conns[b][d] # None /\ conns[b][d].role = "requester" => conns'[b][d].did = conns[b][d].did
    BY <1>1
  <1>10. AsksAsBefore
    BY <1>5, <1>9 DEF AsksAsBefore
  <1>11. KeyInv'
    BY <1>2, <1>3, <1>4, <1>10, KeysKept DEF OwnKeysInv
  <1> QED
    BY <1>8, <1>11 DEF OwnKeysInv

-------------------------------------------------------------------------------
(* What is proved stays proved *)

\* The records cs, ob have become ds, op.
Onward(cs, ob, ds, op) ==
  /\ LaterIn(cs, ds)
  /\ \A a \in Agents, c \in ConnIds : cs[a][c] # None => ds[a][c].protocol = cs[a][c].protocol
  /\ \A i \in Invitations : /\ ClosedIn(ob, i) => ClosedIn(op, i)
                            /\ UsedIn(cs, ob, i) => UsedIn(ds, op, i)

LEMMA AskedLater ==
  ASSUME NEW cs, NEW ob, NEW ds, NEW op, Onward(cs, ob, ds, op), NEW th, NEW protocol,
         AskedIn(cs, th, protocol)
  PROVE  AskedIn(ds, th, protocol) /\ InvOf(ds, th) = InvOf(cs, th)
  <1>1. th \in Threads /\ th.agent \in Agents /\ th.conn \in ConnIds
    BY DEF AskedIn, Threads
  <1> QED
    BY <1>1 DEF AskedIn, InvOf, Onward, LaterIn, Extends

LEMMA AnsweredLater ==
  ASSUME NEW cs, NEW ob, NEW ds, NEW op, Onward(cs, ob, ds, op)
  PROVE  /\ \A i \in Invitations : AnsweredIn(cs, i) => AnsweredIn(ds, i)
         /\ \A b \in Agents, d \in ConnIds :
              AnsweredWith(cs, b, d) =>
                AnsweredWith(ds, b, d) /\ ds[b][d].did = cs[b][d].did
                /\ ds[b][d].theirDid = cs[b][d].theirDid
         /\ \A b \in Agents, c \in ConnIds :
              AskedWith(cs, b, c) => AskedWith(ds, b, c) /\ ds[b][c].did = cs[b][c].did
         /\ \A b \in Agents : \A key : AnsweredKeyIn(cs, b, key) => AnsweredKeyIn(ds, b, key)
  <1>1. LaterIn(cs, ds)
    BY DEF Onward
  <1>2. ASSUME NEW i \in Invitations, AnsweredIn(cs, i)
        PROVE  AnsweredIn(ds, i)
    <2>1. Owner[i] \in Agents
      BY ConstantsAssumption
    <2> QED
      BY <1>1, <1>2, <2>1 DEF AnsweredIn, LaterIn, Extends
  <1>3. \A b \in Agents, d \in ConnIds :
          AnsweredWith(cs, b, d) =>
            AnsweredWith(ds, b, d) /\ ds[b][d].did = cs[b][d].did
            /\ ds[b][d].theirDid = cs[b][d].theirDid
    BY <1>1 DEF AnsweredWith, AnswersWith, LaterIn, Extends
  <1>4. \A b \in Agents, c \in ConnIds :
          AskedWith(cs, b, c) => AskedWith(ds, b, c) /\ ds[b][c].did = cs[b][c].did
    BY <1>1 DEF AskedWith, AsksWith, LaterIn, Extends
  <1>5. \A b \in Agents : \A key : AnsweredKeyIn(cs, b, key) => AnsweredKeyIn(ds, b, key)
    BY <1>3 DEF AnsweredKeyIn
  <1> QED
    BY <1>2, <1>3, <1>4, <1>5

LEMMA OwnLater ==
  ASSUME NEW cs, NEW ob, NEW ds, NEW op, Onward(cs, ob, ds, op), NEW a \in Agents,
         NEW c \in ConnIds
  PROVE  /\ OwnIn(cs, a, c) => OwnIn(ds, a, c) /\ ds[a][c].inv = cs[a][c].inv
         /\ \A i \in Invitations : StandsIn(cs, ob, a, c, i) => StandsIn(ds, op, a, c, i)
  <1>1. OwnIn(cs, a, c) => OwnIn(ds, a, c) /\ ds[a][c].inv = cs[a][c].inv
    BY DEF OwnIn, Onward, LaterIn, Extends
  <1>2. ASSUME NEW i \in Invitations, StandsIn(cs, ob, a, c, i)
        PROVE  StandsIn(ds, op, a, c, i)
    <2>1. Owner[i] \in Agents
      BY ConstantsAssumption
    <2>2. ds[a][c].state \notin Young /\ ds[a][c].thread = cs[a][c].thread
      BY <1>2 DEF StandsIn, OwnIn, Onward, LaterIn, Extends
    <2>3. PICK d \in ConnIds : LET r == cs[Owner[i]][d] IN
            r # None /\ r.role = "responder" /\ r.state \notin Young /\ r.thread = cs[a][c].thread
      BY <1>2 DEF StandsIn
    <2>4. LET r == ds[Owner[i]][d] IN
            r # None /\ r.role = "responder" /\ r.state \notin Young /\ r.thread = ds[a][c].thread
      BY <2>1, <2>2, <2>3 DEF Onward, LaterIn, Extends
    <2>5. ~Reusable[i] => ClosedIn(op, i)
      BY <1>2 DEF StandsIn, Onward
    <2> QED
      BY <1>1, <1>2, <2>2, <2>4, <2>5 DEF StandsIn
  <1> QED
    BY <1>1, <1>2

LEMMA RecordStaysUsed ==
  ASSUME NEW cs, NEW ob, NEW ds, NEW op, Onward(cs, ob, ds, op), NEW a,
         NEW r \in ConnectionRecords, UsedRecord(cs, ob, a, r)
  PROVE  UsedRecord(ds, op, a, r)
  <1>1. r.inv \in Invitations
    BY DEF ConnectionRecords
  <1>2. AnsweredIn(cs, r.inv) => AnsweredIn(ds, r.inv)
    BY <1>1, AnsweredLater
  <1>3. ClosedIn(ob, r.inv) => ClosedIn(op, r.inv)
    BY <1>1 DEF Onward
  <1>4. AskedIn(cs, r.thread, r.protocol) =>
          AskedIn(ds, r.thread, r.protocol) /\ InvOf(ds, r.thread) = InvOf(cs, r.thread)
    BY AskedLater
  <1> QED
    BY <1>2, <1>3, <1>4 DEF UsedRecord

LEMMA MessageStaysUsed ==
  ASSUME NEW cs, NEW ob, NEW ds, NEW op, Onward(cs, ob, ds, op),
         \A a \in Agents, c \in ConnIds : cs[a][c] # None => cs[a][c] \in ConnectionRecords,
         NEW m \in SoundMessages, UsedMessage(cs, ob, m)
  PROVE  UsedMessage(ds, op, m)
  <1>1. m.type \in {"dx-request", "dx-complete", "reuse", "reuse-accepted"} =>
          /\ m.inv \in Invitations /\ Owner[m.inv] \in Agents
          /\ AnsweredIn(cs, m.inv) => AnsweredIn(ds, m.inv)
          /\ UsedIn(cs, ob, m.inv) => UsedIn(ds, op, m.inv)
          /\ ClosedIn(ob, m.inv) => ClosedIn(op, m.inv)
    <2>1. m.type \in {"dx-request", "dx-complete", "reuse", "reuse-accepted"}
          => m.inv \in Invitations
      BY DEF SoundMessages
    <2> QED
      BY <2>1, AnsweredLater, ConstantsAssumption DEF Onward
  <1>2. \A protocol : AskedIn(cs, m.thread, protocol) =>
          /\ AskedIn(ds, m.thread, protocol) /\ InvOf(ds, m.thread) = InvOf(cs, m.thread)
          /\ AnsweredIn(cs, InvOf(cs, m.thread)) => AnsweredIn(ds, InvOf(ds, m.thread))
    <2>1. ASSUME NEW protocol, AskedIn(cs, m.thread, protocol)
          PROVE  /\ AskedIn(ds, m.thread, protocol) /\ InvOf(ds, m.thread) = InvOf(cs, m.thread)
                 /\ InvOf(cs, m.thread) \in Invitations
      <3>1. InvOf(cs, m.thread) \in Invitations
        BY <2>1 DEF AskedIn, InvOf, Threads, ConnectionRecords
      <3> QED
        BY <2>1, <3>1, AskedLater
    <2> QED
      BY <2>1, AnsweredLater
  <1>3. ASSUME m.type \in {"dx-request", "dx-complete"}
        PROVE  UsedMessage(ds, op, m)
    BY <1>1, <1>2, <1>3 DEF UsedMessage
  <1>4. ASSUME m.type \in {"dx-response", "cx-request", "cx-response"}
        PROVE  UsedMessage(ds, op, m)
    BY <1>2, <1>4 DEF UsedMessage
  <1>5. ASSUME m.type = "ping"
        PROVE  UsedMessage(ds, op, m)
    <2>1. PICK b \in Agents, c \in ConnIds :
            /\ \/ AnsweredWith(cs, b, c)
               \/ AskedWith(cs, b, c) /\ (cs[b][c].protocol = "connections" \/ b \notin AutoAccept)
            /\ cs[b][c].did.key = m.from
      BY <1>5 DEF UsedMessage
    <2>2. /\ \/ AnsweredWith(ds, b, c)
             \/ AskedWith(ds, b, c) /\ (ds[b][c].protocol = "connections" \/ b \notin AutoAccept)
          /\ ds[b][c].did.key = m.from
      <3>1. cs[b][c] # None => ds[b][c].protocol = cs[b][c].protocol
        BY DEF Onward
      <3>2. AskedWith(cs, b, c) => cs[b][c] # None
        BY DEF AskedWith, AsksWith
      <3> QED
        BY <2>1, <3>1, <3>2, AnsweredLater
    <2> QED
      BY <1>5, <2>2 DEF UsedMessage
  <1>6. ASSUME m.type = "reuse"
        PROVE  UsedMessage(ds, op, m)
    <2>1. ASSUME NoReports
          PROVE  /\ \E b \in Agents, c \in ConnIds : AskedWith(ds, b, c) /\ ds[b][c].did.key = m.from
                 /\ \E b \in Agents, d \in ConnIds : AnsweredWith(ds, b, d) /\ ds[b][d].did.key = m.to
      <3>1. PICK b \in Agents, c \in ConnIds : AskedWith(cs, b, c) /\ cs[b][c].did.key = m.from
        BY <1>6, <2>1 DEF UsedMessage
      <3>2. PICK e \in Agents, d \in ConnIds : AnsweredWith(cs, e, d) /\ cs[e][d].did.key = m.to
        BY <1>6, <2>1 DEF UsedMessage
      <3> QED
        BY <3>1, <3>2, AnsweredLater
    <2> QED
      BY <1>1, <1>6, <2>1 DEF UsedMessage
  <1>7. ASSUME m.type = "reuse-accepted"
        PROVE  UsedMessage(ds, op, m)
    BY <1>1, <1>7, AnsweredLater DEF UsedMessage
  <1>8. ASSUME m.type = "problem-report"
        PROVE  UsedMessage(ds, op, m)
    BY <1>8 DEF UsedMessage
  <1> QED
    BY <1>3, <1>4, <1>5, <1>6, <1>7, <1>8 DEF SoundMessages, Messages, MessageTypes

LEMMA OobStaysUsed ==
  ASSUME NEW cs, NEW ob, NEW ds, NEW op, Onward(cs, ob, ds, op), NEW a \in Agents,
         NEW i \in Invitations, NEW r \in OobRecords, UsedOob(cs, ob, a, i, r)
  PROVE  UsedOob(ds, op, a, i, r)
  <1>1. r.reuse \in ConnIds \cup {None}
    BY DEF OobRecords
  <1>2. \A c \in ConnIds :
          /\ OwnIn(cs, a, c) => OwnIn(ds, a, c) /\ ds[a][c].inv = cs[a][c].inv
          /\ StandsIn(cs, ob, a, c, i) => StandsIn(ds, op, a, c, i)
    BY OwnLater
  <1> QED
    BY <1>1, <1>2 DEF UsedOob

\* What a task uses at the steps that the invariant is about.
LEMMA TaskFields ==
  ASSUME NEW t, NEW k \in SoundTasks(t)
  PROVE  /\ k.pc \in YoungSteps \cup LateSteps \cup {"oob-createReuse", "oob-closeReused", "oob-acceptReuse"}
            => k.id \in ConnIds /\ k.conn \in ConnectionRecords /\ k.conn \in SoundRecords
         /\ k.pc = "cx-createConnection" => k.conn \in ConnectionRecords
         /\ k.pc \in RequestSteps \cup ResponseSteps => k.msg \in SoundMessages
         /\ k.pc \in {"oob-createReuse", "oob-closeReused", "oob-acceptReuse", "oob-closeReceived"}
            => k.inv \in Invitations
         /\ k.pc = "oob-closeReceived" => k.oob \in OobRecords
         /\ k.oob \in OobRecords \cup {None} /\ k.pc \in Steps
  BY DEF SoundTasks, SoundRecords, UsesRecord, UsesMessage, UsesInvitation, UsesOob, Tasks,
         YoungSteps, RequesterSteps, ResponderSteps, LateSteps, RequestSteps, ResponseSteps

LEMMA TaskStaysUsed ==
  ASSUME NEW cs, NEW ob, NEW ds, NEW op, Onward(cs, ob, ds, op),
         \A a \in Agents, c \in ConnIds : cs[a][c] # None => cs[a][c] \in ConnectionRecords,
         NEW a \in Agents, NEW t, NEW k \in SoundTasks(t),
         k.pc \in YoungSteps \cup LateSteps => cs[a][k.id] # None,
         UsedTask(cs, ob, a, k)
  PROVE  UsedTask(ds, op, a, k)
  <1>1. /\ k.pc \in YoungSteps \cup LateSteps => UsedRecord(ds, op, a, k.conn)
        /\ k.pc = "cx-createConnection" => UsedRecord(ds, op, a, k.conn)
    BY TaskFields, RecordStaysUsed DEF UsedTask
  <1>2. k.pc \in YoungSteps \cup LateSteps => ds[a][k.id].protocol = k.conn.protocol
    BY TaskFields DEF UsedTask, Onward
  <1>3. k.pc \in RequestSteps \cup {"dx-saveResponderDid", "dx-responseReceived",
                                    "dx-closeInvitation", "dx-processComplete"}
        => UsedMessage(ds, op, k.msg)
    <2>1. k.pc \in RequestSteps \cup {"dx-saveResponderDid", "dx-responseReceived",
                                      "dx-closeInvitation", "dx-processComplete"}
          => k.msg \in SoundMessages /\ UsedMessage(cs, ob, k.msg)
      BY TaskFields DEF UsedTask, RequestSteps, ResponseSteps
    <2> QED
      BY <2>1, MessageStaysUsed
  <1>4. k.pc = "dx-processComplete" /\ ~Reusable[k.inv] => ClosedIn(op, k.inv)
    <2>1. k.pc = "dx-processComplete" => k.inv \in Invitations
      BY DEF UsedTask, SoundMessages
    <2> QED
      BY <2>1 DEF UsedTask, Onward
  <1>5. k.pc \in LearnSteps /\ k.oob # None /\ k.oob.reuse # None => OwnIn(ds, a, k.oob.reuse)
    <2>1. k.oob # None /\ k.oob.reuse # None => k.oob.reuse \in ConnIds
      BY TaskFields DEF OobRecords
    <2> QED
      BY <2>1, OwnLater DEF UsedTask
  <1>6. k.pc = "oob-createReuse" =>
          /\ OwnIn(ds, a, k.id)
          /\ k.conn.did # None /\ k.conn.theirDid # None /\ NoReports =>
               /\ ds[a][k.id].state \notin Young /\ ds[a][k.id].did = k.conn.did
               /\ \E b \in Agents, d \in ConnIds :
                    AnsweredWith(ds, b, d) /\ ds[b][d].did = k.conn.theirDid
    <2> SUFFICES ASSUME k.pc = "oob-createReuse"
                 PROVE  /\ OwnIn(ds, a, k.id)
                        /\ k.conn.did # None /\ k.conn.theirDid # None /\ NoReports =>
                             /\ ds[a][k.id].state \notin Young /\ ds[a][k.id].did = k.conn.did
                             /\ \E b \in Agents, d \in ConnIds :
                                  AnsweredWith(ds, b, d) /\ ds[b][d].did = k.conn.theirDid
      OBVIOUS
    <2>1. k.id \in ConnIds /\ OwnIn(cs, a, k.id)
      BY TaskFields DEF UsedTask
    <2>2. OwnIn(ds, a, k.id)
      BY <2>1, OwnLater
    <2>3. ASSUME k.conn.did # None, k.conn.theirDid # None, NoReports
          PROVE  /\ ds[a][k.id].state \notin Young /\ ds[a][k.id].did = k.conn.did
                 /\ \E b \in Agents, d \in ConnIds :
                      AnsweredWith(ds, b, d) /\ ds[b][d].did = k.conn.theirDid
      <3>1. /\ cs[a][k.id].state \notin Young /\ cs[a][k.id].did = k.conn.did
            /\ \E b \in Agents, d \in ConnIds :
                 AnsweredWith(cs, b, d) /\ cs[b][d].did = k.conn.theirDid
        BY <2>3 DEF UsedTask
      <3>2. ds[a][k.id].state \notin Young /\ ds[a][k.id].did = k.conn.did
        BY <2>1, <3>1 DEF OwnIn, Onward, LaterIn, Extends
      <3>3. PICK b \in Agents, d \in ConnIds :
              AnsweredWith(cs, b, d) /\ cs[b][d].did = k.conn.theirDid
        BY <3>1
      <3>4. AnsweredWith(ds, b, d) /\ ds[b][d].did = k.conn.theirDid
        BY <3>3, AnsweredLater
      <3> QED
        BY <3>2, <3>4
    <2> QED
      BY <2>2, <2>3
  <1>7. /\ k.pc \in {"oob-closeReused", "oob-acceptReuse"} =>
             /\ UsedIn(ds, op, k.inv)
             /\ NoReports => AnsweredKeyIn(ds, a, k.conn.theirDid.key)
        /\ k.pc = "oob-acceptReuse" /\ ~Reusable[k.inv] => ClosedIn(op, k.inv)
    <2>1. k.pc \in {"oob-closeReused", "oob-acceptReuse"} => k.inv \in Invitations
      BY TaskFields
    <2>2. \A key : AnsweredKeyIn(cs, a, key) => AnsweredKeyIn(ds, a, key)
      BY AnsweredLater
    <2>3. /\ \A i \in Invitations : ClosedIn(ob, i) => ClosedIn(op, i)
          /\ \A i \in Invitations : UsedIn(cs, ob, i) => UsedIn(ds, op, i)
      BY DEF Onward
    <2> QED
      BY <2>1, <2>2, <2>3 DEF UsedTask
  <1>8. k.pc = "oob-closeReceived" =>
          /\ OwnIn(ds, a, k.oob.reuse)
          /\ NoReports => StandsIn(ds, op, a, k.oob.reuse, k.inv)
    <2>1. k.pc = "oob-closeReceived" => k.oob.reuse \in ConnIds /\ k.inv \in Invitations
      BY TaskFields DEF OobRecords, UsedTask
    <2> QED
      BY <2>1, OwnLater DEF UsedTask
  <1>9. RequestSteps =
          {"dx-saveRequesterDid", "dx-createResponder", "cx-saveRequesterDid", "cx-createResponder"}
    BY DEF RequestSteps
  <1> QED
    BY <1>1, <1>2, <1>3, <1>4, <1>5, <1>6, <1>7, <1>8, <1>9 DEF UsedTask

-------------------------------------------------------------------------------
(* The shapes of a step *)

\* The messages in flight after a step are ones there were and ones that prove enough.
SentAreUsed == \A m \in net' : m \in net \/ UsedMessage(conns', oob', m)

SoundSender(cs, ob, a, i, r) == Owner[i] = a /\ (r.state = "done" => UsedIn(cs, ob, i))

SoundReceiver(cs, ob, a, i, r) == a \in Invited[i] /\ UsedOob(cs, ob, a, i, r)

LEMMA StepKeepsUsed ==
  ASSUME TypeInv, AgreementInv, InvitationInv, Onward(conns, oob, conns', oob'), SentAreUsed,
         \A a \in Agents, c \in ConnIds :
           conns'[a][c] # None =>
             conns'[a][c] = conns[a][c] \/ UsedRecord(conns', oob', a, conns'[a][c]),
         \A a \in Agents, t \in Slots :
           tasks'[a][t] = tasks[a][t] \/ UsedTask(conns', oob', a, tasks'[a][t]),
         \A a \in Agents, i \in Invitations :
           oob'[a]["sender"][i] # None =>
             \/ oob'[a]["sender"][i] = oob[a]["sender"][i]
             \/ SoundSender(conns', oob', a, i, oob'[a]["sender"][i]),
         \A a \in Agents, i \in Invitations :
           oob'[a]["receiver"][i] # None =>
             \/ oob'[a]["receiver"][i] = oob[a]["receiver"][i]
             \/ SoundReceiver(conns', oob', a, i, oob'[a]["receiver"][i])
  PROVE  InvitationInv'
  <1>1. \A a \in Agents, c \in ConnIds : conns[a][c] # None => conns[a][c] \in ConnectionRecords
    BY DEF TypeInv, ConnsType, SoundRecords
  <1>2. ASSUME NEW a \in Agents, NEW c \in ConnIds, conns'[a][c] # None
        PROVE  UsedRecord(conns', oob', a, conns'[a][c])
    <2>1. CASE conns'[a][c] = conns[a][c]
      <3>1. conns[a][c] \in ConnectionRecords /\ UsedRecord(conns, oob, a, conns[a][c])
        BY <1>1, <1>2, <2>1 DEF InvitationInv
      <3> QED
        BY <2>1, <3>1, RecordStaysUsed
    <2> QED
      BY <1>2, <2>1
  <1>3. ASSUME NEW m \in net'
        PROVE  UsedMessage(conns', oob', m)
    <2>1. CASE m \in net
      <3>1. m \in SoundMessages /\ UsedMessage(conns, oob, m)
        BY <2>1 DEF InvitationInv, TypeInv, NetType
      <3> QED
        BY <1>1, <3>1, MessageStaysUsed
    <2> QED
      BY <2>1 DEF SentAreUsed
  <1>4. ASSUME NEW a \in Agents, NEW t \in Slots
        PROVE  UsedTask(conns', oob', a, tasks'[a][t])
    <2>1. CASE tasks'[a][t] = tasks[a][t]
      <3> DEFINE k == tasks[a][t]
      <3>1. k \in SoundTasks(t) /\ UsedTask(conns, oob, a, k) /\ SoundTask(conns, a, t, k)
        BY TaskIsSound, TaskAgrees DEF InvitationInv
      <3> HIDE DEF k
      <3>2. k.pc \in YoungSteps \cup LateSteps => conns[a][k.id] # None
        BY <3>1 DEF SoundTask, YoungCopy
      <3>3. UsedTask(conns', oob', a, k)
        BY <1>1, <3>1, <3>2, TaskStaysUsed
      <3> QED
        BY <2>1, <3>3 DEF k
    <2> QED
      BY <2>1
  <1>5. ASSUME NEW a \in Agents, NEW i \in Invitations, oob'[a]["sender"][i] # None
        PROVE  SoundSender(conns', oob', a, i, oob'[a]["sender"][i])
    <2>1. CASE oob'[a]["sender"][i] = oob[a]["sender"][i]
      BY <1>5, <2>1 DEF InvitationInv, SoundSender, Onward
    <2> QED
      BY <1>5, <2>1
  <1>6. ASSUME NEW a \in Agents, NEW i \in Invitations, oob'[a]["receiver"][i] # None
        PROVE  SoundReceiver(conns', oob', a, i, oob'[a]["receiver"][i])
    <2>1. CASE oob'[a]["receiver"][i] = oob[a]["receiver"][i]
      <3> DEFINE r == oob[a]["receiver"][i]
      <3>1. r \in OobRecords /\ a \in Invited[i] /\ UsedOob(conns, oob, a, i, r)
        BY <1>6, <2>1 DEF InvitationInv, TypeInv, OobType, OobRoles
      <3> HIDE DEF r
      <3>2. UsedOob(conns', oob', a, i, r)
        BY <3>1, OobStaysUsed
      <3> QED
        BY <2>1, <3>1, <3>2 DEF r, SoundReceiver
    <2> QED
      BY <1>6, <2>1
  <1> QED
    BY <1>2, <1>3, <1>4, <1>5, <1>6 DEF InvitationInv, SoundSender, SoundReceiver

LEMMA NothingSentIsUsed ==
  ASSUME UNCHANGED net \/ net' \subseteq net
  PROVE  SentAreUsed
  BY DEF SentAreUsed

LEMMA OneSentIsUsed ==
  ASSUME NEW m, Send(m), UsedMessage(conns', oob', m)
  PROVE  SentAreUsed
  BY DEF SentAreUsed, Send

LEMMA DeliveredIsUsed ==
  ASSUME InvitationInv, NEW a, NEW h, NEW m, NEW type, Delivers(a, h, m, type)
  PROVE  UsedMessage(conns, oob, m) /\ SentAreUsed
  BY DEF Delivers, Consume, SentAreUsed, InvitationInv

LEMMA IdleIsUsed ==
  ASSUME NEW cs, NEW ob, NEW a
  PROVE  UsedTask(cs, ob, a, Idle)
  <1>1. Idle.pc = "idle"
    BY DEF Idle
  <1> HIDE DEF Idle
  <1> QED
    BY <1>1 DEF UsedTask, StartSteps, DxSteps, CxSteps, LearnSteps, YoungSteps, RequesterSteps,
                ResponderSteps, LateSteps, ResponseSteps

LEMMA SameIsOnward ==
  ASSUME UNCHANGED <<conns, oob>>
  PROVE  Onward(conns, oob, conns', oob')
  BY DEF Onward, LaterIn, Extends

\* No record changes.
LEMMA QuietKeepsUsed ==
  ASSUME TypeInv, AgreementInv, InvitationInv, UNCHANGED <<conns, oob>>, SentAreUsed,
         \A a \in Agents, t \in Slots :
           tasks'[a][t] = tasks[a][t] \/ UsedTask(conns, oob, a, tasks'[a][t])
  PROVE  InvitationInv'
  <1>1. Onward(conns, oob, conns', oob')
    BY SameIsOnward
  <1>2. \A a \in Agents, t \in Slots :
          tasks'[a][t] = tasks[a][t] \/ UsedTask(conns', oob', a, tasks'[a][t])
    OBVIOUS
  <1> QED
    BY <1>1, <1>2, StepKeepsUsed

LEMMA TaskKeepsUsed ==
  ASSUME TypeInv, AgreementInv, InvitationInv, UNCHANGED <<conns, oob>>, SentAreUsed,
         NEW a \in Agents, NEW t,
         Finish(a, t) \/ \E k : Continue(a, t, k) /\ UsedTask(conns, oob, a, k)
  PROVE  InvitationInv'
  <1>1. PICK k : Continue(a, t, k) /\ UsedTask(conns, oob, a, k)
    BY IdleIsUsed DEF Finish
  <1>2. \A b \in Agents, u \in Slots :
          tasks'[b][u] = tasks[b][u] \/ (b = a /\ tasks'[b][u] = k)
    BY <1>1 DEF Continue, TypeInv, TasksType
  <1>3. \A b \in Agents, u \in Slots :
          tasks'[b][u] = tasks[b][u] \/ UsedTask(conns, oob, b, tasks'[b][u])
    BY <1>1, <1>2
  <1> QED
    BY <1>3, QuietKeepsUsed

\* A task writes record r of a connection, or creates it.
LEMMA WriteIsOnward ==
  ASSUME TypeInv, UNCHANGED oob, NEW a \in Agents, NEW c \in ConnIds,
         NEW r \in ConnectionRecords, SaveConnection(a, c, r),
         conns[a][c] # None => Extends(conns[a][c], r) /\ r.protocol = conns[a][c].protocol
  PROVE  /\ Onward(conns, oob, conns', oob')
         /\ conns'[a][c] = r /\ r # None
         /\ \A b \in Agents, d \in ConnIds : b # a \/ d # c => conns'[b][d] = conns[b][d]
  <1>1. /\ r # None /\ conns'[a][c] = r
        /\ \A b \in Agents, d \in ConnIds : b # a \/ d # c => conns'[b][d] = conns[b][d]
    BY SavedRecord
  <1>2. LaterIn(conns, conns')
    BY <1>1, WriteIsLater
  <1>3. \A b \in Agents, d \in ConnIds :
          conns[b][d] # None => conns'[b][d].protocol = conns[b][d].protocol
    BY <1>1
  <1>4. ASSUME NEW i \in Invitations, AnsweredIn(conns, i)
        PROVE  AnsweredIn(conns', i)
    <2>1. Owner[i] \in Agents
      BY ConstantsAssumption
    <2> QED
      BY <1>2, <1>4, <2>1 DEF AnsweredIn, LaterIn, Extends
  <1>5. \A i \in Invitations : UsedIn(conns, oob, i) => UsedIn(conns', oob', i)
    BY <1>4 DEF UsedIn
  <1>6. \A i \in Invitations : ClosedIn(oob, i) => ClosedIn(oob', i)
    OBVIOUS
  <1> QED
    BY <1>1, <1>2, <1>3, <1>5, <1>6 DEF Onward

LEMMA WriteKeepsUsed ==
  ASSUME TypeInv, AgreementInv, InvitationInv, UNCHANGED oob, SentAreUsed,
         NEW a \in Agents, NEW t, NEW c \in ConnIds,
         NEW r \in ConnectionRecords, SaveConnection(a, c, r),
         conns[a][c] # None => Extends(conns[a][c], r) /\ r.protocol = conns[a][c].protocol,
         UsedRecord(conns', oob', a, r),
         Finish(a, t) \/ \E k : Continue(a, t, k) /\ UsedTask(conns', oob', a, k)
  PROVE  InvitationInv'
  <1>1. /\ Onward(conns, oob, conns', oob') /\ conns'[a][c] = r /\ r # None
        /\ \A b \in Agents, d \in ConnIds : b # a \/ d # c => conns'[b][d] = conns[b][d]
    BY WriteIsOnward
  <1>2. PICK k : Continue(a, t, k) /\ UsedTask(conns', oob', a, k)
    BY IdleIsUsed DEF Finish
  <1>3. \A b \in Agents, u \in Slots :
          tasks'[b][u] = tasks[b][u] \/ (b = a /\ tasks'[b][u] = k)
    BY <1>2 DEF Continue, TypeInv, TasksType
  <1>4. \A b \in Agents, u \in Slots :
          tasks'[b][u] = tasks[b][u] \/ UsedTask(conns', oob', b, tasks'[b][u])
    BY <1>2, <1>3
  <1>5. \A b \in Agents, d \in ConnIds :
          conns'[b][d] # None =>
            conns'[b][d] = conns[b][d] \/ UsedRecord(conns', oob', b, conns'[b][d])
    BY <1>1
  <1>6. \A b \in Agents, i \in Invitations :
          /\ oob'[b]["sender"][i] = oob[b]["sender"][i]
          /\ oob'[b]["receiver"][i] = oob[b]["receiver"][i]
    OBVIOUS
  <1> QED
    BY <1>1, <1>4, <1>5, <1>6, StepKeepsUsed

LEMMA TaskIsUsed ==
  ASSUME InvitationInv, NEW a \in Agents, NEW t \in Slots
  PROVE  UsedTask(conns, oob, a, tasks[a][t])
  BY DEF InvitationInv

\* The record that a task writes when a message about it was sent already.
LEMMA LateWriteKeepsUsed ==
  ASSUME TypeInv, AgreementInv, InvitationInv, UNCHANGED oob, SentAreUsed,
         NEW a \in Agents, NEW t \in Slots, tasks[a][t].pc \in LateSteps,
         NEW r \in ConnectionRecords, SaveConnection(a, tasks[a][t].id, r),
         Extends(tasks[a][t].conn, r), r.protocol = tasks[a][t].conn.protocol,
         UsedRecord(conns', oob', a, r),
         Finish(a, t) \/ \E k : Continue(a, t, k) /\ UsedTask(conns', oob', a, k)
  PROVE  InvitationInv'
  <1> DEFINE id == tasks[a][t].id
  <1>1. id \in ConnIds /\ conns[a][id] # None /\ conns[a][id].state \notin Young
        /\ Extends(conns[a][id], tasks[a][t].conn) /\ tasks[a][t].conn.state \notin Young
    BY LateTask
  <1>2. conns[a][id].protocol = tasks[a][t].conn.protocol
    BY TaskIsUsed DEF UsedTask
  <1>3. Extends(conns[a][id], r)
    BY <1>1 DEF Extends
  <1>4. SaveConnection(a, id, r)
    OBVIOUS
  <1> HIDE DEF id
  <1> QED
    BY <1>1, <1>2, <1>3, <1>4, WriteKeepsUsed

\* An agent writes its record of an invitation of its own.
LEMMA SenderIsOnward ==
  ASSUME TypeInv, UNCHANGED conns, NEW a \in Agents, NEW i \in Invitations,
         NEW r \in OobRecords, SaveOob(a, "sender", i, r),
         oob[a]["sender"][i] = None \/ r.state = "done"
  PROVE  /\ Onward(conns, oob, conns', oob')
         /\ oob'[a]["sender"][i] = r
         /\ \A b \in Agents, j \in Invitations :
              /\ oob'[b]["receiver"][j] = oob[b]["receiver"][j]
              /\ b # a \/ j # i => oob'[b]["sender"][j] = oob[b]["sender"][j]
  <1>1. /\ oob'[a]["sender"][i] = r /\ r # None
        /\ \A b \in Agents, j \in Invitations :
             /\ oob'[b]["receiver"][j] = oob[b]["receiver"][j]
             /\ b # a \/ j # i => oob'[b]["sender"][j] = oob[b]["sender"][j]
    BY NoneAssumption DEF SaveOob, TypeInv, OobType, OobRoles
  <1>2. LaterIn(conns, conns')
    BY DEF LaterIn, Extends
  <1>3. \A j \in Invitations : Owner[j] \in Agents /\ Invited[j] \subseteq Agents
    BY ConstantsAssumption, InvitedAssumption
  <1>4. \A j \in Invitations : ClosedIn(oob, j) => ClosedIn(oob', j)
    BY <1>1, <1>3 DEF ClosedIn
  <1>5. \A j \in Invitations : UsedIn(conns, oob, j) => UsedIn(conns', oob', j)
    BY <1>1, <1>3 DEF UsedIn, ReusedIn
  <1> QED
    BY <1>1, <1>2, <1>4, <1>5 DEF Onward

LEMMA SenderKeepsUsed ==
  ASSUME TypeInv, AgreementInv, InvitationInv, UNCHANGED <<conns, net>>,
         NEW a \in Agents, NEW i \in Invitations, NEW r \in OobRecords,
         SaveOob(a, "sender", i, r), Owner[i] = a,
         IF r.state = "done" THEN UsedIn(conns, oob, i) ELSE oob[a]["sender"][i] = None,
         \A b \in Agents, t \in Slots :
           tasks'[b][t] = tasks[b][t] \/ UsedTask(conns', oob', b, tasks'[b][t])
  PROVE  InvitationInv'
  <1>1. /\ Onward(conns, oob, conns', oob') /\ oob'[a]["sender"][i] = r
        /\ \A b \in Agents, j \in Invitations :
             /\ oob'[b]["receiver"][j] = oob[b]["receiver"][j]
             /\ b # a \/ j # i => oob'[b]["sender"][j] = oob[b]["sender"][j]
    BY SenderIsOnward
  <1>2. r.state = "done" => UsedIn(conns', oob', i)
    BY <1>1 DEF Onward
  <1>3. SoundSender(conns', oob', a, i, oob'[a]["sender"][i])
    BY <1>1, <1>2 DEF SoundSender
  <1>4. \A b \in Agents, j \in Invitations :
          oob'[b]["sender"][j] # None =>
             \/ oob'[b]["sender"][j] = oob[b]["sender"][j]
             \/ SoundSender(conns', oob', b, j, oob'[b]["sender"][j])
    BY <1>1, <1>3
  <1> QED
    BY <1>1, <1>4, NothingSentIsUsed, StepKeepsUsed

\* An invitee writes its record of an invitation.
LEMMA ReceiverIsOnward ==
  ASSUME TypeInv, UNCHANGED conns, NEW a \in Agents, NEW i \in Invitations,
         NEW r \in OobRecords, SaveOob(a, "receiver", i, r),
         \/ oob[a]["receiver"][i] = None
         \/ oob[a]["receiver"][i].reuse # None => r.reuse # None
         \/ AnsweredIn(conns, i)
  PROVE  /\ Onward(conns, oob, conns', oob')
         /\ oob'[a]["receiver"][i] = r /\ r # None
         /\ \A b \in Agents, j \in Invitations :
              /\ oob'[b]["sender"][j] = oob[b]["sender"][j]
              /\ b # a \/ j # i => oob'[b]["receiver"][j] = oob[b]["receiver"][j]
  <1>1. /\ oob'[a]["receiver"][i] = r /\ r # None
        /\ \A b \in Agents, j \in Invitations :
             /\ oob'[b]["sender"][j] = oob[b]["sender"][j]
             /\ b # a \/ j # i => oob'[b]["receiver"][j] = oob[b]["receiver"][j]
    BY NoneAssumption DEF SaveOob, TypeInv, OobType, OobRoles
  <1>2. LaterIn(conns, conns')
    BY DEF LaterIn, Extends
  <1>3. \A j \in Invitations : Owner[j] \in Agents /\ Invited[j] \subseteq Agents
    BY ConstantsAssumption, InvitedAssumption
  <1>4. \A j \in Invitations : ClosedIn(oob, j) => ClosedIn(oob', j)
    BY <1>1, <1>3 DEF ClosedIn
  <1>5. ASSUME NEW j \in Invitations, UsedIn(conns, oob, j)
        PROVE  UsedIn(conns', oob', j)
    <2>1. CASE AnsweredIn(conns, j)
      BY <2>1 DEF UsedIn
    <2>2. ASSUME NEW b \in Invited[j], oob[b]["receiver"][j] # None,
                 oob[b]["receiver"][j].reuse # None
          PROVE  UsedIn(conns', oob', j)
      <3>1. CASE b = a /\ j = i
        BY <1>1, <2>2, <3>1 DEF UsedIn, ReusedIn
      <3>2. CASE b # a \/ j # i
        BY <1>1, <1>3, <2>2, <3>2 DEF UsedIn, ReusedIn
      <3> QED
        BY <3>1, <3>2
    <2> QED
      BY <1>5, <2>1, <2>2 DEF UsedIn, ReusedIn
  <1> QED
    BY <1>1, <1>2, <1>4, <1>5 DEF Onward

LEMMA ReceiverKeepsUsed ==
  ASSUME TypeInv, AgreementInv, InvitationInv, UNCHANGED conns, SentAreUsed,
         NEW a \in Agents, NEW i \in Invitations, NEW r \in OobRecords,
         SaveOob(a, "receiver", i, r),
         \/ oob[a]["receiver"][i] = None
         \/ oob[a]["receiver"][i].reuse # None => r.reuse # None
         \/ AnsweredIn(conns, i),
         SoundReceiver(conns, oob, a, i, r),
         \A b \in Agents, t \in Slots :
           tasks'[b][t] = tasks[b][t] \/ UsedTask(conns', oob', b, tasks'[b][t])
  PROVE  InvitationInv'
  <1>1. /\ Onward(conns, oob, conns', oob') /\ oob'[a]["receiver"][i] = r
        /\ \A b \in Agents, j \in Invitations :
             /\ oob'[b]["sender"][j] = oob[b]["sender"][j]
             /\ b # a \/ j # i => oob'[b]["receiver"][j] = oob[b]["receiver"][j]
    BY ReceiverIsOnward
  <1>2. SoundReceiver(conns', oob', a, i, r)
    BY <1>1, OobStaysUsed DEF SoundReceiver
  <1>3. \A b \in Agents, j \in Invitations :
          oob'[b]["receiver"][j] # None =>
             \/ oob'[b]["receiver"][j] = oob[b]["receiver"][j]
             \/ SoundReceiver(conns', oob', b, j, oob'[b]["receiver"][j])
    BY <1>1, <1>2
  <1> QED
    BY <1>1, <1>3, StepKeepsUsed

\* A task writes the invitee's record of an invitation.
LEMMA ReceiverTaskKeepsUsed ==
  ASSUME TypeInv, AgreementInv, OwnKeysInv, InvitationInv, UNCHANGED <<conns, dids>>, SentAreUsed,
         NEW a \in Agents, NEW i \in Invitations, NEW r \in OobRecords,
         SaveOob(a, "receiver", i, r),
         oob[a]["receiver"][i] # None /\ oob[a]["receiver"][i].reuse # None => r.reuse # None,
         SoundReceiver(conns, oob, a, i, r), NEW t,
         \/ Finish(a, t)
         \/ \E k : /\ Continue(a, t, k) /\ UsedTask(conns, oob', a, k)
                   /\ k.pc \notin KeySteps \cup AnswerSteps
  PROVE  OwnKeysInv' /\ InvitationInv'
  <1>1. \/ oob[a]["receiver"][i] = None
        \/ oob[a]["receiver"][i].reuse # None => r.reuse # None
    OBVIOUS
  <1>2. Idle.pc \notin KeySteps \cup AnswerSteps
    BY DEF Idle, KeySteps, AnswerSteps
  <1>3. PICK k : /\ Continue(a, t, k) /\ UsedTask(conns', oob', a, k)
                 /\ k.pc \notin KeySteps \cup AnswerSteps
    BY <1>2, IdleIsUsed DEF Finish
  <1>4. \A b \in Agents, u \in Slots :
          tasks'[b][u] = tasks[b][u] \/ (b = a /\ tasks'[b][u] = k)
    BY <1>3 DEF Continue, TypeInv, TasksType
  <1>5. \A b \in Agents, u \in Slots :
          tasks'[b][u] = tasks[b][u] \/ UsedTask(conns', oob', b, tasks'[b][u])
    BY <1>3, <1>4
  <1>6. OwnKeysInv'
    BY <1>3, SameConnsAsBefore, DidsGrow, TaskKeepsKeys
  <1> QED
    BY <1>1, <1>5, <1>6, ReceiverKeepsUsed

\* The task of a young record.
LEMMA YoungTaskIsUsed ==
  ASSUME NEW cs, NEW ob, NEW a, NEW k, k.pc \in YoungSteps,
         UsedRecord(cs, ob, a, k.conn), cs[a][k.id].protocol = k.conn.protocol,
         k.pc \in DxSteps => k.conn.protocol = "did-exchange",
         k.pc \in CxSteps => k.conn.protocol = "connections"
  PROVE  UsedTask(cs, ob, a, k)
  BY DEF UsedTask, StartSteps, LearnSteps, YoungSteps, RequesterSteps, ResponderSteps

\* A task that handles a request.
LEMMA RequestTaskIsUsed ==
  ASSUME NEW cs, NEW ob, NEW a, NEW k, k.pc \in RequestSteps, UsedMessage(cs, ob, k.msg),
         k.pc \in {"dx-saveRequesterDid", "dx-createResponder"} =>
           k.msg.type = "dx-request" /\ k.inv = k.msg.inv,
         k.pc \in {"cx-saveRequesterDid", "cx-createResponder"} => k.msg.type = "cx-request"
  PROVE  UsedTask(cs, ob, a, k)
  BY DEF UsedTask, StartSteps, LearnSteps, DxSteps, CxSteps, YoungSteps, RequesterSteps,
         ResponderSteps, LateSteps, RequestSteps, ResponseSteps

\* What UsedRecord reads of a record.
LEMMA SameUse ==
  ASSUME NEW cs, NEW ob, NEW a, NEW q, NEW r, UsedRecord(cs, ob, a, q),
         r.role = q.role, r.inv = q.inv, r.state = q.state, r.theirDid = q.theirDid,
         r.protocol = q.protocol, r.thread = q.thread
  PROVE  UsedRecord(cs, ob, a, r)
  BY DEF UsedRecord

-------------------------------------------------------------------------------
(* The DID exchange *)

LEMMA DxCreateConnectionInvited ==
  ASSUME TypeInv, AgreementInv, OwnKeysInv, InvitationInv,
         NEW a \in Agents, NEW s \in Callers, DxCreateConnection(a, s)
  PROVE  OwnKeysInv' /\ InvitationInv'
  <1> DEFINE k == tasks[a][s]
             r == [role |-> "requester", state |-> "invitation-received",
                   protocol |-> "did-exchange", thread |-> None, inv |-> k.inv,
                   did |-> None, theirDid |-> None]
             n(c) == [k EXCEPT !.pc = "dx-createRequestDid", !.id = c, !.conn = r]
  <1>1. s \in Slots /\ k \in Tasks /\ k.inv \in Invitations /\ k.pc = "dx-createConnection"
    BY TaskIsSound DEF DxCreateConnection, At, Slots, SoundTasks, UsesInvitation
  <1>2. a \in Invited[k.inv]
    BY <1>1, TaskIsUsed DEF UsedTask, StartSteps
  <1>3. PICK c \in ConnIds : conns[a][c] = None /\ SaveConnection(a, c, r) /\ Continue(a, s, n(c))
    BY DEF DxCreateConnection, FreshConnId
  <1>4. UNCHANGED <<oob, dids, net>>
    BY DEF DxCreateConnection
  <1>5. r \in ConnectionRecords /\ r.role = "requester" /\ r.state = "invitation-received"
        /\ r.did = None /\ r.theirDid = None /\ r.protocol = "did-exchange" /\ r.inv = k.inv
    BY <1>1, NoneAssumption DEF ConnectionRecords, ConnRoles, ConnStates, ConnectionProtocols
  <1> HIDE DEF r
  <1>6. n(c).pc = "dx-createRequestDid" /\ n(c).id = c /\ n(c).conn = r
    BY <1>1 DEF Tasks
  <1> HIDE DEF n
  <1>7. n(c).pc \notin KeySteps \cup AnswerSteps
    BY <1>6 DEF KeySteps, AnswerSteps
  <1>8. AsksAsBefore /\ AnswersAsBefore /\ MoreDids
    BY <1>3, <1>4, <1>5, WriteAsksAsBefore, DidsGrow
  <1>9. OwnKeysInv'
    BY <1>3, <1>7, <1>8, TaskKeepsKeys
  <1>10. UsedRecord(conns', oob', a, r)
    BY <1>2, <1>5 DEF UsedRecord
  <1>11. conns'[a][c] = r
    BY <1>3, <1>5, SavedRecord
  <1>12. UsedTask(conns', oob', a, n(c))
    BY <1>5, <1>6, <1>10, <1>11, YoungTaskIsUsed DEF YoungSteps, RequesterSteps, DxSteps, CxSteps
  <1>13. InvitationInv'
    BY <1>3, <1>4, <1>5, <1>10, <1>12, NothingSentIsUsed, WriteKeepsUsed
  <1> QED
    BY <1>9, <1>13

LEMMA DxCreateRequestDidInvited ==
  ASSUME TypeInv, AgreementInv, OwnKeysInv, InvitationInv,
         NEW a \in Agents, NEW s \in Callers, DxCreateRequestDid(a, s)
  PROVE  OwnKeysInv' /\ InvitationInv'
  <1> DEFINE k == tasks[a][s]
             d == [key |-> RoutingKey(a), n |-> NextDid(a)]
             n == [k EXCEPT !.pc = "dx-sendRequest", !.conn.did = d]
  <1>1. s \in Slots /\ k.pc = "dx-createRequestDid" /\ k.pc \in YoungSteps /\ k.pc \in DxSteps
    BY DEF DxCreateRequestDid, At, Slots, YoungSteps, RequesterSteps, DxSteps
  <1>2. k \in Tasks /\ k.conn \in ConnectionRecords
    BY <1>1, YoungTask
  <1>3. Continue(a, s, n) /\ SaveDid(a, "created", d) /\ UNCHANGED <<oob, conns, net>>
    BY DEF DxCreateRequestDid
  <1>4. d.key = RoutingKey(a)
    OBVIOUS
  <1> HIDE DEF d
  <1>5. /\ n.pc = "dx-sendRequest" /\ n.conn.did = d /\ n.id = k.id
        /\ n.conn.role = k.conn.role /\ n.conn.inv = k.conn.inv /\ n.conn.state = k.conn.state
        /\ n.conn.theirDid = k.conn.theirDid /\ n.conn.protocol = k.conn.protocol
        /\ n.conn.thread = k.conn.thread
    BY <1>2 DEF Tasks, ConnectionRecords
  <1>6. /\ UsedRecord(conns, oob, a, k.conn) /\ conns[a][k.id].protocol = k.conn.protocol
        /\ k.conn.protocol = "did-exchange"
    BY <1>1, TaskIsUsed DEF UsedTask
  <1> HIDE DEF n, k
  <1>7. OwnKeysInv'
    BY <1>1, <1>3, <1>4, <1>5, NewDidKeepsOwnKeys DEF UnsavedSteps
  <1>8. UsedRecord(conns, oob, a, n.conn)
    BY <1>5, <1>6, SameUse
  <1>9. UsedTask(conns, oob, a, n)
    BY <1>5, <1>6, <1>8, YoungTaskIsUsed DEF YoungSteps, RequesterSteps, CxSteps
  <1>10. InvitationInv'
    BY <1>3, <1>9, NothingSentIsUsed, TaskKeepsUsed
  <1> QED
    BY <1>7, <1>10

LEMMA DxSendRequestInvited ==
  ASSUME TypeInv, AgreementInv, OwnKeysInv, InvitationInv,
         NEW a \in Agents, NEW s \in Callers, DxSendRequest(a, s)
  PROVE  OwnKeysInv' /\ InvitationInv'
  <1> DEFINE k  == tasks[a][s]
             th == [agent |-> a, conn |-> k.id]
             r  == [k.conn EXCEPT !.state = NextState("dx-request", k.conn), !.thread = th]
             m  == [type |-> "dx-request", from |-> r.did.key, to |-> InvitationKey(k.inv),
                    thread |-> th, inv |-> k.inv, did |-> r.did]
  <1>1. s \in Slots /\ k.pc = "dx-sendRequest" /\ k.pc \in YoungSteps /\ k.pc \in UnsavedSteps
    BY DEF DxSendRequest, At, Slots, YoungSteps, RequesterSteps, UnsavedSteps
  <1>2. k.id \in ConnIds /\ k.conn \in ConnectionRecords
        /\ YoungCopy(conns[a][k.id], k.conn) /\ Writes(a, s, k.id)
        /\ SoundRecord(conns, a, k.id, conns[a][k.id])
    BY <1>1, YoungTask
  <1>3. k.conn.role = "requester" /\ k.conn.did \in PeerDids /\ k.conn.inv = k.inv
    <2>1. k \in SoundTasks(s) /\ SoundTask(conns, a, s, k)
      BY <1>1, TaskIsSound, TaskAgrees
    <2> HIDE DEF k
    <2> QED
      BY <1>1, <2>1 DEF SoundTasks, SoundTask, RequesterSteps
  <1>4. th \in Threads /\ NextState("dx-request", k.conn) = "request-sent"
        /\ th.agent = a /\ th.conn = k.id
    BY <1>2, <1>3, RequesterNextStates DEF Threads
  <1>5. r \in ConnectionRecords /\ r.role = "requester" /\ r.state = "request-sent"
        /\ r.did = k.conn.did /\ r.theirDid = k.conn.theirDid /\ r.inv = k.inv
        /\ r.protocol = k.conn.protocol
    BY <1>2, <1>3, <1>4 DEF ConnectionRecords, ConnStates
  <1>6. SaveConnection(a, k.id, r) /\ Send(m) /\ Continue(a, s, Idle) /\ UNCHANGED <<oob, dids>>
    BY DEF DxSendRequest, Finish
  <1>7. m.type = "dx-request" /\ m.thread = th /\ m.inv = k.inv
    OBVIOUS
  <1>8. /\ UsedRecord(conns, oob, a, k.conn) /\ conns[a][k.id].protocol = k.conn.protocol
        /\ k.conn.protocol = "did-exchange"
    BY <1>1, TaskIsUsed DEF UsedTask, DxSteps
  <1> HIDE DEF r, m, th, k
  <1>9. conns[a][k.id].role = "requester" /\ conns[a][k.id] # None /\ k.conn.theirDid = None
        /\ conns[a][k.id].inv = k.inv /\ conns[a][k.id].state \in Young
    BY <1>2, <1>3 DEF YoungCopy, SoundRecord
  <1>10. Idle.pc = "idle"
    BY DEF Idle
  <1>11. Idle.pc \notin UnsavedSteps \cup AnswerSteps
    BY <1>10 DEF UnsavedSteps, AnswerSteps
  <1>12. OwnKeysInv'
    BY <1>1, <1>2, <1>5, <1>6, <1>10, <1>11, SavedDidKeepsOwnKeys DEF k
  <1>13. UsedRecord(conns', oob', a, r)
    BY <1>3, <1>5, <1>8, <1>9 DEF UsedRecord
  <1>14. conns'[a][k.id] = r /\ r # None
    BY <1>2, <1>5, <1>6, SavedRecord
  <1>15. UsedMessage(conns', oob', m)
    BY <1>4, <1>5, <1>7, <1>8, <1>14 DEF UsedMessage, AskedIn, InvOf
  <1>16. Extends(conns[a][k.id], r)
    BY <1>5, <1>9 DEF Extends
  <1>17. InvitationInv'
    BY <1>2, <1>5, <1>6, <1>8, <1>13, <1>15, <1>16, OneSentIsUsed, WriteKeepsUsed DEF Finish
  <1> QED
    BY <1>12, <1>17

LEMMA DxReceiveRequestInvited ==
  ASSUME TypeInv, AgreementInv, OwnKeysInv, InvitationInv,
         NEW a \in Agents, NEW h \in Handlers, NEW m \in net, DxReceiveRequest(a, h, m)
  PROVE  OwnKeysInv' /\ InvitationInv'
  <1> DEFINE n == [Idle EXCEPT !.pc = "dx-saveRequesterDid", !.msg = m,
                   !.inv = m.inv, !.oob = oob[a]["sender"][m.inv]]
  <1>1. Delivers(a, h, m, "dx-request") /\ Continue(a, h, n) /\ UNCHANGED <<oob, conns, dids>>
    BY DEF DxReceiveRequest
  <1>2. n.pc = "dx-saveRequesterDid" /\ n.msg = m /\ n.inv = m.inv
    BY DEF Idle
  <1>3. m.type = "dx-request"
    BY <1>1 DEF Delivers
  <1> HIDE DEF n
  <1>4. UsedMessage(conns, oob, m) /\ SentAreUsed
    BY <1>1, DeliveredIsUsed
  <1>5. UsedTask(conns, oob, a, n)
    BY <1>2, <1>3, <1>4, RequestTaskIsUsed DEF RequestSteps
  <1>6. n.pc \notin KeySteps \cup AnswerSteps
    BY <1>2 DEF KeySteps, AnswerSteps
  <1>7. OwnKeysInv'
    BY <1>1, <1>6, SameConnsAsBefore, DidsGrow, TaskKeepsKeys
  <1> QED
    BY <1>1, <1>4, <1>5, <1>7, TaskKeepsUsed

\* The steps that save the DID in a message, and go on with the same copy.
LEMMA SavedDidInvited ==
  ASSUME TypeInv, AgreementInv, OwnKeysInv, InvitationInv, NEW a \in Agents, NEW h \in Handlers,
         UNCHANGED <<oob, conns, net>>, NEW d, SaveDid(a, "received", d),
         NEW pc, Continue(a, h, [tasks[a][h] EXCEPT !.pc = pc]),
         \/ tasks[a][h].pc = "dx-saveRequesterDid" /\ pc = "dx-createResponder"
         \/ tasks[a][h].pc = "cx-saveRequesterDid" /\ pc = "cx-createResponder"
         \/ tasks[a][h].pc = "dx-saveResponderDid" /\ pc = "dx-responseReceived"
         \/ tasks[a][h].pc = "cx-saveResponderDid" /\ pc = "cx-responseReceived"
  PROVE  OwnKeysInv' /\ InvitationInv'
  <1> DEFINE k == tasks[a][h]
             n == [k EXCEPT !.pc = pc]
  <1>1. h \in Slots
    BY DEF Slots
  <1>2. k \in Tasks /\ UsedTask(conns, oob, a, k)
    BY <1>1, TaskIsSound, TaskIsUsed DEF SoundTasks
  <1>3. n.pc = pc /\ n.msg = k.msg /\ n.inv = k.inv /\ n.oob = k.oob /\ n.id = k.id /\ n.conn = k.conn
    BY <1>2 DEF Tasks
  <1>4. \/ k.pc = "dx-saveRequesterDid" /\ pc = "dx-createResponder"
        \/ k.pc = "cx-saveRequesterDid" /\ pc = "cx-createResponder"
        \/ k.pc = "dx-saveResponderDid" /\ pc = "dx-responseReceived"
        \/ k.pc = "cx-saveResponderDid" /\ pc = "cx-responseReceived"
    OBVIOUS
  <1>5. Continue(a, h, n)
    OBVIOUS
  <1> HIDE DEF n, k
  <1>6. UsedTask(conns, oob, a, n)
    BY <1>2, <1>3, <1>4 DEF UsedTask, StartSteps, LearnSteps, DxSteps, CxSteps, YoungSteps,
         RequesterSteps, ResponderSteps, LateSteps, ResponseSteps
  <1>7. n.pc \notin KeySteps \cup AnswerSteps
    BY <1>3, <1>4 DEF KeySteps, AnswerSteps
  <1>8. OwnKeysInv'
    BY <1>5, <1>7, SameConnsAsBefore, DidsGrow, TaskKeepsKeys
  <1> QED
    BY <1>5, <1>6, <1>8, NothingSentIsUsed, TaskKeepsUsed

LEMMA DxSaveRequesterDidInvited ==
  ASSUME TypeInv, AgreementInv, OwnKeysInv, InvitationInv,
         NEW a \in Agents, NEW h \in Handlers, DxSaveRequesterDid(a, h)
  PROVE  OwnKeysInv' /\ InvitationInv'
  BY SavedDidInvited DEF DxSaveRequesterDid, At

LEMMA DxSaveResponderDidInvited ==
  ASSUME TypeInv, AgreementInv, OwnKeysInv, InvitationInv,
         NEW a \in Agents, NEW h \in Handlers, DxSaveResponderDid(a, h)
  PROVE  OwnKeysInv' /\ InvitationInv'
  BY SavedDidInvited DEF DxSaveResponderDid, At

\* A handler makes the connection of a request, and goes on to answer or stops.
LEMMA NewResponderInvited ==
  ASSUME TypeInv, AgreementInv, OwnKeysInv, InvitationInv,
         NEW a \in Agents, NEW h \in Handlers, NEW c \in ConnIds, NEW r \in ConnectionRecords,
         conns[a][c] = None, SaveConnection(a, c, r), UNCHANGED <<oob, dids, net>>,
         r.role = "responder", r.state = "request-received", r.did = None,
         AskedIn(conns, r.thread, r.protocol),
         r.protocol = "did-exchange" => InvOf(conns, r.thread) = r.inv,
         Finish(a, h) \/ \E n : Continue(a, h, n) /\ n.id = c /\ n.conn = r
                                /\ n.pc = IF r.protocol = "did-exchange"
                                          THEN "dx-createResponseDid" ELSE "cx-createResponseDid"
  PROVE  OwnKeysInv' /\ InvitationInv'
  <1>1. Onward(conns, oob, conns', oob') /\ conns'[a][c] = r
    BY WriteIsOnward
  <1>2. AskedIn(conns', r.thread, r.protocol) /\ InvOf(conns', r.thread) = InvOf(conns, r.thread)
    BY <1>1, AskedLater
  <1>3. UsedRecord(conns', oob', a, r)
    BY <1>2 DEF UsedRecord
  <1>4. AsksAsBefore /\ AnswersAsBefore /\ MoreDids
    BY WriteAsksAsBefore, DidsGrow
  <1>5. r.protocol \in {"did-exchange", "connections"}
    BY DEF ConnectionRecords, ConnectionProtocols
  <1>6. CASE Finish(a, h)
    <2>1. OwnKeysInv'
      BY <1>4, <1>6, TaskKeepsKeys
    <2>2. InvitationInv'
      BY <1>3, <1>6, NothingSentIsUsed, WriteKeepsUsed
    <2> QED
      BY <2>1, <2>2
  <1>7. ASSUME NEW n, Continue(a, h, n), n.id = c, n.conn = r,
               n.pc = IF r.protocol = "did-exchange"
                      THEN "dx-createResponseDid" ELSE "cx-createResponseDid"
        PROVE  OwnKeysInv' /\ InvitationInv'
    <2>1. UsedTask(conns', oob', a, n)
      BY <1>1, <1>3, <1>5, <1>7, YoungTaskIsUsed DEF YoungSteps, ResponderSteps, DxSteps, CxSteps
    <2>2. n.pc \notin KeySteps \cup AnswerSteps
      BY <1>7 DEF KeySteps, AnswerSteps
    <2>3. OwnKeysInv'
      BY <1>4, <1>7, <2>2, TaskKeepsKeys
    <2>4. InvitationInv'
      BY <1>3, <1>7, <2>1, NothingSentIsUsed, WriteKeepsUsed
    <2> QED
      BY <2>3, <2>4
  <1> QED
    BY <1>6, <1>7

LEMMA DxCreateResponderInvited ==
  ASSUME TypeInv, AgreementInv, OwnKeysInv, InvitationInv,
         NEW a \in Agents, NEW h \in Handlers, DxCreateResponder(a, h)
  PROVE  OwnKeysInv' /\ InvitationInv'
  <1> DEFINE k == tasks[a][h]
             r == [role |-> "responder", state |-> "request-received",
                   protocol |-> "did-exchange", thread |-> k.msg.thread, inv |-> k.inv,
                   did |-> None, theirDid |-> k.msg.did]
             n(c) == [k EXCEPT !.pc = "dx-createResponseDid", !.id = c, !.conn = r]
  <1>1. h \in Slots /\ k \in Tasks /\ k.inv \in Invitations /\ k.msg \in Messages
        /\ k.msg.did \in PeerDids /\ k.pc = "dx-createResponder"
    BY TaskIsSound
    DEF DxCreateResponder, At, Slots, SoundTasks, UsesInvitation, UsesMessage, SoundMessages
  <1>2. AskedIn(conns, k.msg.thread, "did-exchange") /\ InvOf(conns, k.msg.thread) = k.inv
    BY <1>1, TaskIsUsed DEF UsedTask, UsedMessage
  <1>3. PICK c \in ConnIds :
          /\ conns[a][c] = None /\ SaveConnection(a, c, r)
          /\ Continue(a, h, n(c)) \/ Finish(a, h)
    BY DEF DxCreateResponder, FreshConnId
  <1>4. k.msg.thread \in Threads
    BY <1>2 DEF AskedIn
  <1>5. r \in ConnectionRecords /\ r.role = "responder" /\ r.state = "request-received"
        /\ r.did = None /\ r.thread = k.msg.thread /\ r.inv = k.inv /\ r.protocol = "did-exchange"
    BY <1>1, <1>4 DEF ConnectionRecords, ConnRoles, ConnStates, ConnectionProtocols
  <1> HIDE DEF r
  <1>6. n(c).pc = "dx-createResponseDid" /\ n(c).id = c /\ n(c).conn = r
    BY <1>1 DEF Tasks
  <1> HIDE DEF n
  <1>7. UNCHANGED <<oob, dids, net>>
    BY DEF DxCreateResponder
  <1> HIDE DEF k
  <1> QED
    BY <1>2, <1>3, <1>5, <1>6, <1>7, NewResponderInvited

\* A task makes the DID that it answers with.
LEMMA AnswerDidInvited ==
  ASSUME TypeInv, AgreementInv, OwnKeysInv, InvitationInv, NEW a \in Agents, NEW t \in Slots,
         NEW d, d.key = RoutingKey(a) \/ d.key.use = "service", SaveDid(a, "created", d),
         NEW pc, Continue(a, t, [tasks[a][t] EXCEPT !.pc = pc, !.conn.did = d]),
         UNCHANGED <<oob, conns, net>>,
         \/ tasks[a][t].pc = "dx-createResponseDid" /\ pc = "dx-sendResponse"
         \/ tasks[a][t].pc = "cx-createResponseDid" /\ pc = "cx-sendResponse"
  PROVE  OwnKeysInv' /\ InvitationInv'
  <1> DEFINE k == tasks[a][t]
             n == [k EXCEPT !.pc = pc, !.conn.did = d]
  <1>1. k.pc \in YoungSteps
    BY DEF YoungSteps, ResponderSteps
  <1>2. k \in Tasks /\ k.conn \in ConnectionRecords /\ UsedTask(conns, oob, a, k)
    BY <1>1, YoungTask, TaskIsUsed
  <1>3. Continue(a, t, n)
    OBVIOUS
  <1>4. \/ k.pc = "dx-createResponseDid" /\ pc = "dx-sendResponse"
        \/ k.pc = "cx-createResponseDid" /\ pc = "cx-sendResponse"
    OBVIOUS
  <1>5. /\ n.pc = pc /\ n.conn.did = d /\ n.id = k.id
        /\ n.conn.role = k.conn.role /\ n.conn.inv = k.conn.inv /\ n.conn.state = k.conn.state
        /\ n.conn.theirDid = k.conn.theirDid /\ n.conn.protocol = k.conn.protocol
        /\ n.conn.thread = k.conn.thread
    BY <1>2 DEF Tasks, ConnectionRecords
  <1> HIDE DEF n, k
  <1>6. UsedRecord(conns, oob, a, k.conn) /\ conns[a][k.id].protocol = k.conn.protocol
    BY <1>1, <1>2 DEF UsedTask
  <1>7. UsedRecord(conns, oob, a, n.conn)
    BY <1>5, <1>6, SameUse
  <1>8. k.conn.protocol = IF pc = "dx-sendResponse" THEN "did-exchange" ELSE "connections"
    BY <1>2, <1>4 DEF UsedTask, DxSteps, CxSteps
  <1>9. UsedTask(conns, oob, a, n)
    BY <1>4, <1>5, <1>6, <1>7, <1>8, YoungTaskIsUsed
    DEF YoungSteps, ResponderSteps, DxSteps, CxSteps
  <1>10. OwnKeysInv'
    BY <1>3, <1>4, <1>5, AnswerDidKeepsOwnKeys DEF AnswerSteps
  <1> QED
    BY <1>3, <1>9, <1>10, NothingSentIsUsed, TaskKeepsUsed

\* A task stops and has changed nothing.
LEMMA StopInvited ==
  ASSUME TypeInv, AgreementInv, OwnKeysInv, InvitationInv, NEW a \in Agents, NEW t,
         Finish(a, t), UNCHANGED <<oob, conns, dids, net>>
  PROVE  OwnKeysInv' /\ InvitationInv'
  <1>1. OwnKeysInv'
    BY SameConnsAsBefore, DidsGrow, TaskKeepsKeys
  <1> QED
    BY <1>1, NothingSentIsUsed, TaskKeepsUsed

LEMMA DxCreateResponseDidInvited ==
  ASSUME TypeInv, AgreementInv, OwnKeysInv, InvitationInv,
         NEW a \in Agents, NEW t \in Slots, DxCreateResponseDid(a, t)
  PROVE  OwnKeysInv' /\ InvitationInv'
  <1> DEFINE d == [key |-> IF Reusable[tasks[a][t].inv] THEN RoutingKey(a)
                           ELSE InvitationKey(tasks[a][t].inv),
                   n |-> NextDid(a)]
  <1>1. d.key = RoutingKey(a) \/ d.key.use = "service"
    BY DEF InvitationKey
  <1>2. CASE ~CanCreate("dx-response", tasks[a][t].conn)
    BY <1>2, StopInvited DEF DxCreateResponseDid
  <1>3. CASE CanCreate("dx-response", tasks[a][t].conn)
    <2>1. /\ SaveDid(a, "created", d) /\ UNCHANGED <<oob, conns, net>>
          /\ Continue(a, t, [tasks[a][t] EXCEPT !.pc = "dx-sendResponse", !.conn.did = d])
          /\ tasks[a][t].pc = "dx-createResponseDid"
      BY <1>3 DEF DxCreateResponseDid, At
    <2> HIDE DEF d
    <2> QED
      BY <1>1, <2>1, AnswerDidInvited
  <1> QED
    BY <1>2, <1>3

\* A task saves the connection that it has answered, and sends the response.
LEMMA SendResponseInvited ==
  ASSUME TypeInv, AgreementInv, OwnKeysInv, InvitationInv, NEW a \in Agents, NEW t \in Slots,
         tasks[a][t].pc \in AnswerSteps,
         NEW r \in ConnectionRecords, SaveConnection(a, tasks[a][t].id, r),
         r.state = "response-sent", r.role = tasks[a][t].conn.role, r.inv = tasks[a][t].conn.inv,
         r.thread = tasks[a][t].conn.thread, r.did = tasks[a][t].conn.did,
         r.theirDid = tasks[a][t].conn.theirDid, r.protocol = tasks[a][t].conn.protocol,
         NEW m, Send(m), m.thread = r.thread,
         m.type = IF tasks[a][t].pc = "dx-sendResponse" THEN "dx-response" ELSE "cx-response",
         Finish(a, t), UNCHANGED <<oob, dids>>
  PROVE  OwnKeysInv' /\ InvitationInv'
  <1> DEFINE k == tasks[a][t]
             c == k.id
             q == conns[a][c]
  <1>1. k.pc \in YoungSteps /\ k.pc \in {"dx-sendResponse", "cx-sendResponse"}
    BY DEF AnswerSteps, YoungSteps, ResponderSteps
  <1>2. /\ k \in Tasks /\ c \in ConnIds /\ k.conn \in ConnectionRecords
        /\ YoungCopy(q, k.conn) /\ SoundRecord(conns, a, c, q)
        /\ UsedTask(conns, oob, a, k)
    BY <1>1, YoungTask, TaskIsUsed
  <1>3. k.conn.role = "responder"
    BY <1>1, TaskIsSound DEF SoundTasks
  <1>4. /\ SaveConnection(a, c, r) /\ r.did = tasks[a][t].conn.did
        /\ m.type = IF k.pc = "dx-sendResponse" THEN "dx-response" ELSE "cx-response"
        /\ r.role = k.conn.role /\ r.inv = k.conn.inv /\ r.thread = k.conn.thread
        /\ r.did = k.conn.did /\ r.theirDid = k.conn.theirDid /\ r.protocol = k.conn.protocol
    OBVIOUS
  <1> HIDE DEF c, k
  <1>5. q # None /\ q.role = "responder" /\ q.state \in Young /\ q.did = None
        /\ q.inv = r.inv /\ q.thread = r.thread /\ q.theirDid = r.theirDid
        /\ RequestIn(conns, r.thread, r.theirDid, a)
    BY <1>2, <1>3, <1>4 DEF YoungCopy, SoundRecord
  <1>6. OwnKeysInv'
    BY <1>2, <1>3, <1>4, <1>5, SavedAnswerKeepsOwnKeys
  <1>7. UsedRecord(conns, oob, a, k.conn) /\ q.protocol = r.protocol
    BY <1>1, <1>2, <1>4 DEF UsedTask, c
  <1>8. r.protocol = IF m.type = "dx-response" THEN "did-exchange" ELSE "connections"
    BY <1>1, <1>2, <1>4 DEF UsedTask, DxSteps, CxSteps
  <1>9. /\ AskedIn(conns, r.thread, r.protocol)
        /\ r.protocol = "did-exchange" => InvOf(conns, r.thread) = r.inv
        /\ NoReports => r.state # "abandoned"
    BY <1>3, <1>4, <1>7 DEF UsedRecord
  <1>10. Extends(q, r)
    BY <1>3, <1>4, <1>5 DEF Extends, Young
  <1>11. Onward(conns, oob, conns', oob') /\ conns'[a][c] = r /\ r # None
    BY <1>2, <1>4, <1>7, <1>10, WriteIsOnward
  <1>12. AskedIn(conns', r.thread, r.protocol) /\ InvOf(conns', r.thread) = InvOf(conns, r.thread)
    BY <1>9, <1>11, AskedLater
  <1>13. UsedRecord(conns', oob', a, r)
    BY <1>3, <1>4, <1>9, <1>12 DEF UsedRecord
  <1>14. ASSUME r.protocol = "did-exchange"
         PROVE  AnsweredIn(conns', InvOf(conns', r.thread))
    <2>1. InvOf(conns', r.thread) = r.inv /\ Owner[r.inv] = a
      BY <1>5, <1>9, <1>12, <1>14 DEF RequestIn, InvOf
    <2> QED
      BY <1>2, <1>3, <1>4, <1>11, <2>1 DEF AnsweredIn, Young
  <1>15. UsedMessage(conns', oob', m)
    <2>1. m.type \in {"dx-response", "cx-response"}
      BY <1>4
    <2> QED
      BY <1>8, <1>12, <1>14, <2>1 DEF UsedMessage
  <1> QED
    BY <1>2, <1>4, <1>6, <1>7, <1>10, <1>13, <1>15, OneSentIsUsed, WriteKeepsUsed

LEMMA DxSendResponseInvited ==
  ASSUME TypeInv, AgreementInv, OwnKeysInv, InvitationInv,
         NEW a \in Agents, NEW t \in Slots, DxSendResponse(a, t)
  PROVE  OwnKeysInv' /\ InvitationInv'
  <1> DEFINE k == tasks[a][t]
             r == [k.conn EXCEPT !.state = NextState("dx-response", k.conn)]
             m == [type |-> "dx-response", from |-> r.did.key, to |-> r.theirDid.key,
                   thread |-> r.thread, inv |-> None, did |-> r.did]
  <1>1. k.pc = "dx-sendResponse" /\ k.pc \in YoungSteps /\ k.pc \in AnswerSteps
    BY DEF DxSendResponse, At, YoungSteps, ResponderSteps, AnswerSteps
  <1>2. k.conn \in ConnectionRecords /\ k.conn.role = "responder"
    BY <1>1, YoungTask, TaskIsSound DEF SoundTasks
  <1>3. NextState("dx-response", k.conn) = "response-sent"
    BY <1>2, ResponderNextStates
  <1>4. /\ r \in ConnectionRecords /\ r.state = "response-sent" /\ r.role = k.conn.role
        /\ r.inv = k.conn.inv /\ r.thread = k.conn.thread /\ r.did = k.conn.did
        /\ r.theirDid = k.conn.theirDid /\ r.protocol = k.conn.protocol
    BY <1>2, <1>3 DEF ConnectionRecords, ConnStates
  <1>5. SaveConnection(a, k.id, r) /\ Send(m) /\ Finish(a, t) /\ UNCHANGED <<oob, dids>>
    BY DEF DxSendResponse
  <1>6. m.type = "dx-response" /\ m.thread = r.thread
    OBVIOUS
  <1> HIDE DEF r, m
  <1> QED
    BY <1>1, <1>4, <1>5, <1>6, SendResponseInvited

LEMMA CxSendResponseInvited ==
  ASSUME TypeInv, AgreementInv, OwnKeysInv, InvitationInv,
         NEW a \in Agents, NEW t \in Slots, CxSendResponse(a, t)
  PROVE  OwnKeysInv' /\ InvitationInv'
  <1> DEFINE k == tasks[a][t]
             r == [k.conn EXCEPT !.state = "response-sent"]
             m == [type |-> "cx-response", from |-> r.did.key, to |-> r.theirDid.key,
                   thread |-> r.thread, inv |-> k.inv, did |-> r.did]
  <1>1. k.pc = "cx-sendResponse" /\ k.pc \in YoungSteps /\ k.pc \in AnswerSteps
    BY DEF CxSendResponse, At, YoungSteps, ResponderSteps, AnswerSteps
  <1>2. k.conn \in ConnectionRecords
    BY <1>1, YoungTask
  <1>3. /\ r \in ConnectionRecords /\ r.state = "response-sent" /\ r.role = k.conn.role
        /\ r.inv = k.conn.inv /\ r.thread = k.conn.thread /\ r.did = k.conn.did
        /\ r.theirDid = k.conn.theirDid /\ r.protocol = k.conn.protocol
    BY <1>2 DEF ConnectionRecords, ConnStates
  <1>4. SaveConnection(a, k.id, r) /\ Send(m) /\ Finish(a, t) /\ UNCHANGED <<oob, dids>>
    BY DEF CxSendResponse
  <1>5. m.type = "cx-response" /\ m.thread = r.thread
    OBVIOUS
  <1> HIDE DEF r, m
  <1> QED
    BY <1>1, <1>3, <1>4, <1>5, SendResponseInvited


-------------------------------------------------------------------------------
(* The steps that work on a record of which a message was sent *)

\* A task that is about to learn the DID in a response.
LEMMA ReceiveResponseInvited ==
  ASSUME TypeInv, AgreementInv, OwnKeysInv, InvitationInv, NEW a \in Agents, NEW h \in Handlers,
         NEW m \in net, NEW type, Delivers(a, h, m, type), UNCHANGED <<oob, conns, dids>>,
         NEW c \in ConnIds, conns[a][c] # None, conns[a][c].role = "requester",
         NEW n, Continue(a, h, n), n.msg = m, n.inv = conns[a][c].inv, n.id = c,
         n.conn = conns[a][c], n.oob = oob[a]["receiver"][conns[a][c].inv],
         \/ /\ type = "dx-response" /\ n.pc = "dx-saveResponderDid"
            /\ conns[a][c].protocol = "did-exchange"
         \/ /\ type = "cx-response" /\ n.pc = "cx-saveResponderDid"
            /\ conns[a][c].protocol = "connections"
  PROVE  OwnKeysInv' /\ InvitationInv'
  <1> DEFINE r == conns[a][c]
             o == oob[a]["receiver"][r.inv]
  <1>1. /\ n.msg = m /\ n.inv = r.inv /\ n.id = c /\ n.conn = r /\ n.oob = o
        /\ n.conn = conns[a][n.id] /\ n.conn.role = "requester"
        /\ \/ m.type = "dx-response" /\ n.pc = "dx-saveResponderDid" /\ r.protocol = "did-exchange"
           \/ m.type = "cx-response" /\ n.pc = "cx-saveResponderDid" /\ r.protocol = "connections"
    BY DEF Delivers
  <1>2. UsedMessage(conns, oob, m) /\ SentAreUsed
    BY DeliveredIsUsed
  <1>3. UsedRecord(conns, oob, a, r)
    BY DEF InvitationInv
  <1>4. o # None /\ o.reuse # None => OwnIn(conns, a, o.reuse)
    <2>1. r.inv \in Invitations
      BY ReadRecord DEF ConnectionRecords
    <2> QED
      BY <2>1 DEF InvitationInv, UsedOob
  <1> HIDE DEF r, o
  <1>5. UsedTask(conns, oob, a, n)
    BY <1>1, <1>2, <1>3, <1>4 DEF UsedTask, StartSteps, LearnSteps, DxSteps, CxSteps,
       YoungSteps, RequesterSteps, ResponderSteps
  <1>6. n.pc \notin KeySteps \cup AnswerSteps
    BY <1>1 DEF KeySteps, AnswerSteps
  <1>7. OwnKeysInv'
    BY <1>6, SameConnsAsBefore, DidsGrow, TaskKeepsKeys
  <1> QED
    BY <1>2, <1>5, <1>7, TaskKeepsUsed

LEMMA DxReceiveResponseInvited ==
  ASSUME TypeInv, AgreementInv, OwnKeysInv, InvitationInv,
         NEW a \in Agents, NEW h \in Handlers, NEW m \in net, DxReceiveResponse(a, h, m)
  PROVE  OwnKeysInv' /\ InvitationInv'
  <1> DEFINE n(c) == [pc |-> "dx-saveResponderDid", msg |-> m, inv |-> conns[a][c].inv,
                      oob |-> oob[a]["receiver"][conns[a][c].inv], id |-> c,
                      conn |-> conns[a][c]]
  <1>1. PICK c \in ConnIds : DxResponseAcceptable(a, c, m) /\ Continue(a, h, n(c))
    BY DEF DxReceiveResponse
  <1>2. conns[a][c] # None /\ conns[a][c].role = "requester" /\ conns[a][c].protocol = "did-exchange"
    BY <1>1 DEF DxResponseAcceptable, ConnectionsByThread
  <1>3. /\ n(c).pc = "dx-saveResponderDid" /\ n(c).msg = m /\ n(c).inv = conns[a][c].inv
        /\ n(c).id = c /\ n(c).conn = conns[a][c]
        /\ n(c).oob = oob[a]["receiver"][conns[a][c].inv]
    OBVIOUS
  <1> HIDE DEF n
  <1> QED
    BY <1>1, <1>2, <1>3, ReceiveResponseInvited DEF DxReceiveResponse

LEMMA CxReceiveResponseInvited ==
  ASSUME TypeInv, AgreementInv, OwnKeysInv, InvitationInv,
         NEW a \in Agents, NEW h \in Handlers, NEW m \in net, CxReceiveResponse(a, h, m)
  PROVE  OwnKeysInv' /\ InvitationInv'
  <1> DEFINE n(c) == [pc |-> "cx-saveResponderDid", msg |-> m, inv |-> conns[a][c].inv,
                      oob |-> oob[a]["receiver"][conns[a][c].inv], id |-> c,
                      conn |-> conns[a][c]]
  <1>1. PICK c \in ConnIds : CxResponseAcceptable(a, c, m) /\ Continue(a, h, n(c))
    BY DEF CxReceiveResponse
  <1>2. /\ conns[a][c] # None /\ conns[a][c].role = "requester"
        /\ conns[a][c].thread = m.thread /\ conns[a][c].state = "request-sent"
    BY <1>1 DEF CxResponseAcceptable, ConnectionsByThread
  <1>3. m.thread = [agent |-> a, conn |-> c]
    BY <1>2, ReadRecord DEF SoundRecord, Young
  <1>4. conns[a][c].protocol = "connections"
    <2>1. UsedMessage(conns, oob, m) /\ m.type = "cx-response"
      BY DeliveredIsUsed DEF CxReceiveResponse, Delivers
    <2>2. AskedIn(conns, m.thread, "connections")
      BY <2>1 DEF UsedMessage
    <2> QED
      BY <1>3, <2>2 DEF AskedIn
  <1>5. /\ n(c).pc = "cx-saveResponderDid" /\ n(c).msg = m /\ n(c).inv = conns[a][c].inv
        /\ n(c).id = c /\ n(c).conn = conns[a][c]
        /\ n(c).oob = oob[a]["receiver"][conns[a][c].inv]
    OBVIOUS
  <1> HIDE DEF n
  <1> QED
    BY <1>1, <1>2, <1>4, <1>5, ReceiveResponseInvited DEF CxReceiveResponse

LEMMA CxSaveRequesterDidInvited ==
  ASSUME TypeInv, AgreementInv, OwnKeysInv, InvitationInv,
         NEW a \in Agents, NEW h \in Handlers, CxSaveRequesterDid(a, h)
  PROVE  OwnKeysInv' /\ InvitationInv'
  BY SavedDidInvited DEF CxSaveRequesterDid, At

LEMMA CxSaveResponderDidInvited ==
  ASSUME TypeInv, AgreementInv, OwnKeysInv, InvitationInv,
         NEW a \in Agents, NEW h \in Handlers, CxSaveResponderDid(a, h)
  PROVE  OwnKeysInv' /\ InvitationInv'
  BY SavedDidInvited DEF CxSaveResponderDid, At


\* The write of a record of which a message was sent.
LEMMA LateWriteIsOnward ==
  ASSUME TypeInv, AgreementInv, InvitationInv, UNCHANGED oob,
         NEW a \in Agents, NEW t \in Slots, tasks[a][t].pc \in LateSteps,
         NEW r \in ConnectionRecords, SaveConnection(a, tasks[a][t].id, r),
         Extends(tasks[a][t].conn, r), r.protocol = tasks[a][t].conn.protocol
  PROVE  /\ Onward(conns, oob, conns', oob')
         /\ conns'[a][tasks[a][t].id] = r /\ r # None
  <1> DEFINE id == tasks[a][t].id
  <1>1. id \in ConnIds /\ conns[a][id] # None /\ conns[a][id].state \notin Young
        /\ Extends(conns[a][id], tasks[a][t].conn) /\ tasks[a][t].conn.state \notin Young
    BY LateTask
  <1>2. conns[a][id].protocol = tasks[a][t].conn.protocol
    BY TaskIsUsed DEF UsedTask
  <1>3. Extends(conns[a][id], r)
    BY <1>1 DEF Extends
  <1>4. SaveConnection(a, id, r)
    OBVIOUS
  <1> HIDE DEF id
  <1>5. Onward(conns, oob, conns', oob') /\ conns'[a][id] = r /\ r # None
    BY <1>1, <1>2, <1>3, <1>4, WriteIsOnward
  <1> QED
    BY <1>5 DEF id

LEMMA LateWriteInvited ==
  ASSUME TypeInv, AgreementInv, OwnKeysInv, InvitationInv, UNCHANGED <<oob, dids>>, SentAreUsed,
         NEW a \in Agents, NEW t \in Slots, tasks[a][t].pc \in LateSteps,
         NEW r \in ConnectionRecords, SaveConnection(a, tasks[a][t].id, r),
         Extends(tasks[a][t].conn, r), r.protocol = tasks[a][t].conn.protocol,
         UsedRecord(conns', oob', a, r),
         \/ Finish(a, t)
         \/ \E k : /\ Continue(a, t, k) /\ UsedTask(conns', oob', a, k)
                   /\ k.pc \notin KeySteps \cup AnswerSteps
  PROVE  OwnKeysInv' /\ InvitationInv'
  <1> DEFINE id == tasks[a][t].id
  <1>1. id \in ConnIds /\ conns[a][id] # None /\ conns[a][id].state \notin Young
        /\ Extends(conns[a][id], tasks[a][t].conn) /\ tasks[a][t].conn.state \notin Young
    BY LateTask
  <1>2. r.role = conns[a][id].role /\ r.did = conns[a][id].did
    BY <1>1 DEF Extends
  <1>3. SaveConnection(a, id, r)
    OBVIOUS
  <1> HIDE DEF id
  <1>4. AsksAsBefore /\ AnswersAsBefore /\ MoreDids
    BY <1>1, <1>2, <1>3, WriteAsksAsBefore, DidsGrow
  <1>5. OwnKeysInv'
    BY <1>4, TaskKeepsKeys
  <1>6. InvitationInv'
    BY LateWriteKeepsUsed
  <1> QED
    BY <1>5, <1>6

LEMMA DxResponseReceivedInvited ==
  ASSUME TypeInv, AgreementInv, OwnKeysInv, InvitationInv,
         NEW a \in Agents, NEW h \in Handlers, DxResponseReceived(a, h)
  PROVE  OwnKeysInv' /\ InvitationInv'
  <1> DEFINE k == tasks[a][h]
             r == [k.conn EXCEPT !.theirDid = k.msg.did,
                                 !.state = NextState("dx-response", k.conn)]
             n == [k EXCEPT !.pc = "dx-createComplete", !.conn = r]
  <1>1. h \in Slots /\ k.pc = "dx-responseReceived" /\ k.pc \in LateSteps
    BY DEF DxResponseReceived, At, Slots, ResponseSteps, LateSteps
  <1>2. /\ k \in Tasks /\ k.id \in ConnIds /\ k.conn \in ConnectionRecords
        /\ SoundRecord(conns, a, k.id, k.conn) /\ Extends(conns[a][k.id], k.conn)
        /\ conns[a][k.id] # None /\ k.conn.state \notin Young
        /\ UsedTask(conns, oob, a, k) /\ SoundTask(conns, a, h, k) /\ k \in SoundTasks(h)
    BY <1>1, LateTask, TaskAgrees, TaskIsUsed, TaskIsSound
  <1>3. k.msg.did \in PeerDids /\ k.conn.role = "requester" /\ k.msg.thread = k.conn.thread
        /\ k.oob \in OobRecords
    <2> HIDE DEF k
    <2> QED
      BY <1>1, <1>2 DEF SoundTasks, UsesMessage, UsesOob, SoundTask, ResponseSteps
  <1>4. NextState("dx-response", k.conn) = "response-received"
    BY <1>2, <1>3, RequesterNextStates
  <1>5. r \in ConnectionRecords /\ r.role = "requester" /\ r.state = "response-received"
        /\ r.inv = k.conn.inv /\ r.thread = k.conn.thread /\ r.did = k.conn.did
        /\ r.theirDid = k.msg.did /\ r.protocol = k.conn.protocol
    BY <1>2, <1>3, <1>4 DEF ConnectionRecords, ConnStates
  <1>6. SaveConnection(a, k.id, r) /\ (Continue(a, h, n) \/ Finish(a, h))
        /\ UNCHANGED <<oob, dids, net>>
    BY DEF DxResponseReceived
  <1> HIDE DEF r
  <1>7. n.pc = "dx-createComplete" /\ n.id = k.id /\ n.conn = r /\ n.inv = k.inv /\ n.oob = k.oob
    BY <1>2 DEF Tasks
  <1> HIDE DEF n
  <1>8. Extends(k.conn, r)
    BY <1>2, <1>3, <1>5 DEF Extends, Young
  <1>9. Onward(conns, oob, conns', oob') /\ conns'[a][k.id] = r
    BY <1>1, <1>5, <1>6, <1>8, LateWriteIsOnward
  <1> HIDE DEF k
  <1>10. /\ UsedRecord(conns, oob, a, k.conn) /\ k.conn.protocol = "did-exchange"
         /\ k.conn.inv = k.inv
         /\ k.msg.type = "dx-response" /\ UsedMessage(conns, oob, k.msg)
         /\ k.oob.reuse # None => OwnIn(conns, a, k.oob.reuse)
    BY <1>1, <1>2, <1>3, NoneAssumption DEF UsedTask, LearnSteps, DxSteps
  <1>11. AnsweredIn(conns', r.inv)
    <2>1. k.conn.thread = [agent |-> a, conn |-> k.id]
      BY <1>2, <1>3 DEF SoundRecord
    <2>2. InvOf(conns, k.msg.thread) = r.inv
      BY <1>2, <1>3, <1>5, <2>1 DEF InvOf, Extends
    <2>3. AnsweredIn(conns, r.inv)
      BY <1>10, <2>2 DEF UsedMessage
    <2>4. r.inv \in Invitations
      BY <1>5 DEF ConnectionRecords
    <2> QED
      BY <1>9, <2>3, <2>4, AnsweredLater
  <1>12. UsedRecord(conns', oob', a, r)
    BY <1>3, <1>5, <1>10, <1>11 DEF UsedRecord
  <1>13. k.oob.reuse # None => OwnIn(conns', a, k.oob.reuse)
    BY <1>3, <1>9, <1>10, OwnLater DEF OobRecords
  <1>14. UsedTask(conns', oob', a, n)
    BY <1>5, <1>7, <1>9, <1>10, <1>12, <1>13
    DEF UsedTask, StartSteps, LearnSteps, DxSteps, CxSteps, YoungSteps, RequesterSteps,
        ResponderSteps
  <1>15. n.pc \notin KeySteps \cup AnswerSteps
    BY <1>7 DEF KeySteps, AnswerSteps
  <1> QED
    BY <1>1, <1>5, <1>6, <1>8, <1>12, <1>14, <1>15, NothingSentIsUsed, LateWriteInvited DEF k


LEMMA DxCreateCompleteInvited ==
  ASSUME TypeInv, AgreementInv, OwnKeysInv, InvitationInv,
         NEW a \in Agents, NEW t \in Slots, DxCreateComplete(a, t)
  PROVE  OwnKeysInv' /\ InvitationInv'
  <1> DEFINE k == tasks[a][t]
             r == [k.conn EXCEPT !.state = NextState("dx-complete", k.conn)]
             n == [k EXCEPT !.pc = "dx-sendComplete", !.conn = r]
             m == CompleteMessage(r)
  <1>1. k.pc = "dx-createComplete" /\ k.pc \in LateSteps
    BY DEF DxCreateComplete, At, LateSteps
  <1>2. /\ k \in Tasks /\ k.id \in ConnIds /\ k.conn \in ConnectionRecords
        /\ SoundRecord(conns, a, k.id, k.conn) /\ k.conn.state \notin Young
        /\ UsedTask(conns, oob, a, k) /\ k \in SoundTasks(t)
    BY <1>1, LateTask, TaskIsUsed, TaskIsSound
  <1>3. CASE ~CanCreate("dx-complete", k.conn)
    BY <1>3, StopInvited DEF DxCreateComplete
  <1>4. CASE CanCreate("dx-complete", k.conn)
    <2>1. k.conn.role = "requester" /\ k.conn.state = "response-received"
      BY <1>4 DEF CanCreate, CreateMessageRules, Rule
    <2>2. r \in ConnectionRecords /\ r.role = "requester" /\ r.state = "completed"
          /\ r.inv = k.conn.inv /\ r.thread = k.conn.thread /\ r.did = k.conn.did
          /\ r.theirDid = k.conn.theirDid /\ r.protocol = k.conn.protocol
      BY <1>2, <2>1, RequesterNextStates DEF ConnectionRecords, ConnStates
    <2>3. /\ SaveConnection(a, k.id, r) /\ UNCHANGED <<oob, dids>>
          /\ \/ Continue(a, t, n) /\ UNCHANGED net
             \/ Finish(a, t) /\ Send(m)
      BY <1>4 DEF DxCreateComplete
    <2>4. m.type = "dx-complete" /\ m.thread = r.thread /\ m.inv = r.inv
      BY DEF CompleteMessage
    <2> HIDE DEF r, m
    <2>5. n.pc = "dx-sendComplete" /\ n.id = k.id /\ n.conn = r /\ n.inv = k.inv /\ n.oob = k.oob
      BY <1>2 DEF Tasks
    <2> HIDE DEF n
    <2>6. Extends(k.conn, r)
      BY <2>1, <2>2 DEF Extends, Young
    <2>7. Onward(conns, oob, conns', oob') /\ conns'[a][k.id] = r /\ r # None
      BY <1>1, <2>2, <2>3, <2>6, LateWriteIsOnward
    <2> HIDE DEF k
    <2>8. /\ UsedRecord(conns, oob, a, k.conn) /\ k.conn.protocol = "did-exchange"
          /\ k.conn.inv = k.inv /\ k.oob \in OobRecords \cup {None}
          /\ k.oob # None /\ k.oob.reuse # None => OwnIn(conns, a, k.oob.reuse)
      BY <1>1, <1>2, TaskFields DEF UsedTask, LearnSteps, DxSteps
    <2>9. AnsweredIn(conns', r.inv)
      <3>1. AnsweredIn(conns, r.inv) /\ r.inv \in Invitations
        BY <2>1, <2>2, <2>8 DEF UsedRecord, ConnectionRecords
      <3> QED
        BY <2>7, <3>1, AnsweredLater
    <2>10. UsedRecord(conns', oob', a, r)
      BY <2>1, <2>2, <2>8, <2>9 DEF UsedRecord
    <2>11. UsedMessage(conns', oob', m)
      <3>1. r.thread = [agent |-> a, conn |-> k.id] /\ r.thread \in Threads
        BY <1>2, <2>1, <2>2 DEF SoundRecord, Threads
      <3>2. AskedIn(conns', m.thread, "did-exchange") /\ InvOf(conns', m.thread) = m.inv
        BY <2>2, <2>4, <2>7, <2>8, <3>1 DEF AskedIn, InvOf
      <3> QED
        BY <2>4, <2>9, <3>2 DEF UsedMessage
    <2>12. SentAreUsed
      BY <2>3, <2>11, NothingSentIsUsed, OneSentIsUsed
    <2>13. k.oob # None /\ k.oob.reuse # None => OwnIn(conns', a, k.oob.reuse)
      BY <2>7, <2>8, OwnLater DEF OobRecords
    <2>14. UsedTask(conns', oob', a, n)
      BY <2>1, <2>2, <2>5, <2>7, <2>8, <2>10, <2>13
      DEF UsedTask, StartSteps, LearnSteps, DxSteps, CxSteps, YoungSteps, RequesterSteps,
          ResponderSteps
    <2>15. n.pc \notin KeySteps \cup AnswerSteps
      BY <2>5 DEF KeySteps, AnswerSteps
    <2> QED
      BY <1>1, <2>2, <2>3, <2>6, <2>10, <2>12, <2>14, <2>15, LateWriteInvited DEF k
  <1> QED
    BY <1>3, <1>4

LEMMA DxSendCompleteInvited ==
  ASSUME TypeInv, AgreementInv, OwnKeysInv, InvitationInv,
         NEW a \in Agents, NEW h \in Handlers, DxSendComplete(a, h)
  PROVE  OwnKeysInv' /\ InvitationInv'
  <1> DEFINE k == tasks[a][h]
             r == [k.oob EXCEPT !.state = "done"]
             m == CompleteMessage(k.conn)
  <1>1. h \in Slots /\ k.pc = "dx-sendComplete" /\ k.pc \in LateSteps
    BY DEF DxSendComplete, At, Slots, LateSteps
  <1>2. /\ k.id \in ConnIds /\ k.conn \in ConnectionRecords
        /\ SoundRecord(conns, a, k.id, k.conn) /\ k.conn.state \notin Young
        /\ conns[a][k.id] # None /\ Extends(conns[a][k.id], k.conn)
        /\ UsedTask(conns, oob, a, k) /\ k \in SoundTasks(h)
    BY <1>1, LateTask, TaskIsUsed, TaskIsSound
  <1>3. /\ SaveOob(a, "receiver", k.inv, r) /\ Send(m) /\ Finish(a, h)
        /\ UNCHANGED <<conns, dids>>
    BY DEF DxSendComplete
  <1>4. m.type = "dx-complete" /\ m.thread = k.conn.thread /\ m.inv = k.conn.inv
    BY DEF CompleteMessage
  <1> HIDE DEF m, k
  <1>5. k.oob \in OobRecords /\ k.inv \in Invitations
    BY <1>1, <1>2 DEF SoundTasks, UsesOob
  <1>6. r \in OobRecords /\ r.state = "done" /\ r.reuse = k.oob.reuse
    BY <1>5 DEF OobRecords, OobStates
  <1> HIDE DEF r
  <1>7. /\ UsedRecord(conns, oob, a, k.conn) /\ k.conn.protocol = "did-exchange"
        /\ k.conn.role = "requester" /\ k.conn.inv = k.inv /\ k.conn.state = "completed"
        /\ conns[a][k.id].protocol = k.conn.protocol
        /\ r.reuse # None => OwnIn(conns, a, r.reuse)
    BY <1>1, <1>2, <1>5, <1>6, NoneAssumption DEF UsedTask, LearnSteps, DxSteps
  <1>8. a \in Invited[k.inv] /\ AnsweredIn(conns, k.inv)
    BY <1>7 DEF UsedRecord
  <1>9. OwnIn(conns, a, k.id) /\ conns[a][k.id].inv = k.inv
    BY <1>2, <1>7 DEF OwnIn, Extends
  <1>10. SoundReceiver(conns, oob, a, k.inv, r)
    BY <1>2, <1>7, <1>8, <1>9 DEF SoundReceiver, UsedOob
  <1>11. Onward(conns, oob, conns', oob')
    BY <1>3, <1>5, <1>6, <1>8, ReceiverIsOnward
  <1>12. UsedMessage(conns', oob', m)
    <2>1. k.conn.thread = [agent |-> a, conn |-> k.id] /\ k.conn.thread \in Threads
      BY <1>2, <1>7 DEF SoundRecord, Threads
    <2>2. AskedIn(conns, m.thread, "did-exchange") /\ InvOf(conns, m.thread) = m.inv
      BY <1>2, <1>4, <1>7, <1>9, <2>1 DEF AskedIn, InvOf, OwnIn
    <2> QED
      BY <1>3, <1>4, <1>7, <1>8, <2>2 DEF UsedMessage
  <1>13. \A b \in Agents, t \in Slots :
           tasks'[b][t] = tasks[b][t] \/ UsedTask(conns', oob', b, tasks'[b][t])
    <2>1. \A b \in Agents, t \in Slots : tasks'[b][t] = tasks[b][t] \/ tasks'[b][t] = Idle
      BY <1>3 DEF Finish, Continue, TypeInv, TasksType
    <2> QED
      BY <2>1, IdleIsUsed
  <1>14. OwnKeysInv'
    BY <1>3, SameConnsAsBefore, DidsGrow, TaskKeepsKeys
  <1>15. InvitationInv'
    BY <1>3, <1>5, <1>6, <1>8, <1>10, <1>12, <1>13, OneSentIsUsed, ReceiverKeepsUsed
  <1> QED
    BY <1>14, <1>15


\* The connection in the context of a message.
LEMMA ContextConnection ==
  ASSUME NEW a, NEW m, NEW c \in ContextConnections(a, m)
  PROVE  /\ c \in ConnIds /\ conns[a][c] # None /\ IsReady(conns[a][c])
         /\ conns[a][c].state \notin Young
         /\ conns[a][c].did.key = m.to /\ conns[a][c].theirDid.key = m.from
  <1>1. c \in ByKeys(a, m.from, m.to) /\ IsReady(conns[a][c])
    BY DEF ContextConnections, FindByKeys
  <1>2. c \in ConnIds
    BY <1>1 DEF ByKeys
  <1>3. PICK p \in DidsByKey(a, "received", m.from), n \in DidsByKey(a, "created", m.to) :
          c \in ConnectionsByDids(a, dids[a][n].did, dids[a][p].did)
    BY <1>1 DEF ByKeys
  <1> QED
    BY <1>1, <1>2, <1>3 DEF DidsByKey, ConnectionsByDids, IsReady, Young

LEMMA DxReceiveCompleteInvited ==
  ASSUME TypeInv, AgreementInv, OwnKeysInv, InvitationInv,
         NEW a \in Agents, NEW h \in Handlers, NEW m \in net, DxReceiveComplete(a, h, m)
  PROVE  OwnKeysInv' /\ InvitationInv'
  <1> DEFINE n(c) == [pc |-> IF Reusable[m.inv] THEN "dx-processComplete"
                                                ELSE "dx-closeInvitation",
                      msg |-> m, inv |-> m.inv, oob |-> oob[a]["sender"][m.inv],
                      id |-> c, conn |-> conns[a][c]]
  <1>1. /\ UsedMessage(conns, oob, m) /\ SentAreUsed /\ m.type = "dx-complete"
        /\ m \in SoundMessages /\ UNCHANGED <<oob, conns, dids>>
    BY DeliveredIsUsed, DeliveredAgrees DEF DxReceiveComplete
  <1>2. PICK c \in ConnIds : DxCompleteAcceptable(a, c, m) /\ Continue(a, h, n(c))
    BY DEF DxReceiveComplete
  <1>3. conns[a][c] # None /\ oob[a]["sender"][m.inv] # None
    BY <1>2, ContextConnection DEF DxCompleteAcceptable
  <1>4. m.inv \in Invitations
    BY <1>1 DEF SoundMessages
  <1>5. Owner[m.inv] = a /\ UsedRecord(conns, oob, a, conns[a][c])
    BY <1>3, <1>4 DEF InvitationInv
  <1>6. /\ n(c).pc = IF Reusable[m.inv] THEN "dx-processComplete" ELSE "dx-closeInvitation"
        /\ n(c).msg = m /\ n(c).inv = m.inv /\ n(c).id = c /\ n(c).conn = conns[a][c]
    OBVIOUS
  <1> HIDE DEF n
  <1>7. UsedTask(conns, oob, a, n(c))
    BY <1>1, <1>5, <1>6 DEF UsedTask, StartSteps, LearnSteps, DxSteps, CxSteps,
       YoungSteps, RequesterSteps, ResponderSteps
  <1>8. n(c).pc \notin KeySteps \cup AnswerSteps
    BY <1>6 DEF KeySteps, AnswerSteps
  <1>9. OwnKeysInv'
    BY <1>1, <1>2, <1>8, SameConnsAsBefore, DidsGrow, TaskKeepsKeys
  <1> QED
    BY <1>1, <1>2, <1>7, <1>9, TaskKeepsUsed

LEMMA DxCloseInvitationInvited ==
  ASSUME TypeInv, AgreementInv, OwnKeysInv, InvitationInv,
         NEW a \in Agents, NEW h \in Handlers, DxCloseInvitation(a, h)
  PROVE  OwnKeysInv' /\ InvitationInv'
  <1> DEFINE k == tasks[a][h]
             r == [k.oob EXCEPT !.state = "done"]
             n == [k EXCEPT !.pc = "dx-processComplete"]
  <1>1. h \in Slots /\ k.pc = "dx-closeInvitation" /\ k.pc \in LateSteps
    BY DEF DxCloseInvitation, At, Slots, LateSteps
  <1>2. /\ k \in Tasks /\ k \in SoundTasks(h) /\ UsedTask(conns, oob, a, k)
        /\ conns[a][k.id] # None
    BY <1>1, LateTask, TaskIsUsed, TaskIsSound
  <1>3. /\ SaveOob(a, "sender", k.inv, r) /\ Continue(a, h, n)
        /\ UNCHANGED <<conns, dids, net>>
    BY DEF DxCloseInvitation
  <1>4. /\ n.pc = "dx-processComplete" /\ n.msg = k.msg /\ n.inv = k.inv /\ n.id = k.id
        /\ n.conn = k.conn
    BY <1>2 DEF Tasks
  <1> HIDE DEF n, k
  <1>5. k.oob \in OobRecords /\ k.inv \in Invitations
    BY <1>1, <1>2 DEF SoundTasks, UsesOob
  <1>6. r \in OobRecords /\ r.state = "done"
    BY <1>5 DEF OobRecords, OobStates
  <1> HIDE DEF r
  <1>7. Owner[k.inv] = a /\ AnsweredIn(conns, k.inv)
    BY <1>1, <1>2 DEF UsedTask, UsedMessage
  <1>8. Onward(conns, oob, conns', oob') /\ oob'[a]["sender"][k.inv] = r
    BY <1>3, <1>5, <1>6, SenderIsOnward
  <1>9. UsedTask(conns', oob', a, k)
    <2>1. \A b \in Agents, c \in ConnIds : conns[b][c] # None => conns[b][c] \in ConnectionRecords
      BY DEF TypeInv, ConnsType, SoundRecords
    <2> QED
      BY <1>2, <1>8, <2>1, TaskStaysUsed
  <1>10. ClosedIn(oob', k.inv)
    BY <1>6, <1>7, <1>8, NoneAssumption DEF ClosedIn
  <1>11. UsedTask(conns', oob', a, n)
    BY <1>1, <1>4, <1>9, <1>10 DEF UsedTask, StartSteps, LearnSteps, DxSteps, CxSteps,
       YoungSteps, RequesterSteps, ResponderSteps, LateSteps
  <1>12. \A b \in Agents, t \in Slots :
           tasks'[b][t] = tasks[b][t] \/ UsedTask(conns', oob', b, tasks'[b][t])
    <2>1. \A b \in Agents, t \in Slots :
            tasks'[b][t] = tasks[b][t] \/ (b = a /\ tasks'[b][t] = n)
      BY <1>3 DEF Continue, TypeInv, TasksType
    <2> QED
      BY <1>11, <2>1
  <1>13. InvitationInv'
    BY <1>3, <1>5, <1>6, <1>7, <1>12, SenderKeepsUsed DEF UsedIn
  <1>14. n.pc \notin KeySteps \cup AnswerSteps
    BY <1>4 DEF KeySteps, AnswerSteps
  <1>15. OwnKeysInv'
    BY <1>3, <1>14, SameConnsAsBefore, DidsGrow, TaskKeepsKeys
  <1> QED
    BY <1>13, <1>15

LEMMA DxProcessCompleteInvited ==
  ASSUME TypeInv, AgreementInv, OwnKeysInv, InvitationInv,
         NEW a \in Agents, NEW h \in Handlers, DxProcessComplete(a, h)
  PROVE  OwnKeysInv' /\ InvitationInv'
  <1> DEFINE k == tasks[a][h]
             r == [k.conn EXCEPT !.state = NextState("dx-complete", k.conn)]
  <1>1. h \in Slots /\ k.pc = "dx-processComplete" /\ k.pc \in LateSteps
    BY DEF DxProcessComplete, At, Slots, LateSteps
  <1>2. /\ k.id \in ConnIds /\ k.conn \in ConnectionRecords
        /\ SoundRecord(conns, a, k.id, k.conn) /\ k.conn.state \notin Young
        /\ UsedTask(conns, oob, a, k)
    BY <1>1, LateTask, TaskIsUsed
  <1>3. Finish(a, h) /\ UNCHANGED <<oob, dids, net>>
    BY DEF DxProcessComplete
  <1>4. CASE UNCHANGED conns
    BY <1>3, <1>4, StopInvited
  <1>5. CASE CanProcess("dx-complete", k.conn) /\ SaveConnection(a, k.id, r)
             /\ k.msg.thread = k.conn.thread
    <2>1. k.conn.role = "responder"
      BY <1>5 DEF CanProcess, ProcessMessageRules, Rule
    <2>2. r \in ConnectionRecords /\ r.role = "responder" /\ r.state = "completed"
          /\ r.inv = k.conn.inv /\ r.thread = k.conn.thread /\ r.did = k.conn.did
          /\ r.theirDid = k.conn.theirDid /\ r.protocol = k.conn.protocol
      BY <1>2, <2>1, ResponderNextStates DEF ConnectionRecords, ConnStates
    <2> HIDE DEF r
    <2>3. Extends(k.conn, r)
      BY <2>1, <2>2 DEF Extends, Young
    <2>4. Onward(conns, oob, conns', oob')
      BY <1>1, <1>3, <1>5, <2>2, <2>3, LateWriteIsOnward
    <2> HIDE DEF k
    <2>5. /\ UsedRecord(conns, oob, a, k.conn) /\ UsedMessage(conns, oob, k.msg)
          /\ k.msg.type = "dx-complete" /\ k.inv = k.msg.inv
          /\ ~Reusable[k.inv] => ClosedIn(oob, k.inv)
      BY <1>1, <1>2 DEF UsedTask
    <2>6. /\ AskedIn(conns, r.thread, r.protocol)
          /\ r.protocol = "did-exchange" => InvOf(conns, r.thread) = r.inv
          /\ InvOf(conns, r.thread) = k.inv
      BY <1>5, <2>1, <2>2, <2>5 DEF UsedRecord, UsedMessage
    <2>7. AskedIn(conns', r.thread, r.protocol) /\ InvOf(conns', r.thread) = InvOf(conns, r.thread)
      BY <2>4, <2>6, AskedLater
    <2>8. r.protocol = "did-exchange" /\ ~Reusable[r.inv] => ClosedIn(oob', r.inv)
      BY <1>3, <2>5, <2>6
    <2>9. UsedRecord(conns', oob', a, r)
      BY <2>2, <2>6, <2>7, <2>8 DEF UsedRecord
    <2> QED
      BY <1>1, <1>3, <1>5, <2>2, <2>3, <2>9, NothingSentIsUsed, LateWriteInvited DEF k
  <1> QED
    BY <1>4, <1>5 DEF DxProcessComplete

LEMMA DidExchangeInvited ==
  ASSUME TypeInv, AgreementInv, OwnKeysInv, InvitationInv, DidExchangeNext
  PROVE  OwnKeysInv' /\ InvitationInv'
  BY DxCreateConnectionInvited, DxCreateRequestDidInvited, DxSendRequestInvited,
     DxReceiveRequestInvited, DxSaveRequesterDidInvited, DxCreateResponderInvited,
     DxCreateResponseDidInvited, DxSendResponseInvited, DxReceiveResponseInvited,
     DxSaveResponderDidInvited, DxResponseReceivedInvited, DxCreateCompleteInvited,
     DxSendCompleteInvited, DxReceiveCompleteInvited, DxCloseInvitationInvited,
     DxProcessCompleteInvited
  DEF DidExchangeNext


-------------------------------------------------------------------------------
(* The connection protocol *)

LEMMA CxCreateRequestDidInvited ==
  ASSUME TypeInv, AgreementInv, OwnKeysInv, InvitationInv,
         NEW a \in Agents, NEW s \in Callers, CxCreateRequestDid(a, s)
  PROVE  OwnKeysInv' /\ InvitationInv'
  <1> DEFINE k == tasks[a][s]
             d == [key |-> RoutingKey(a), n |-> 0]
             r == [role |-> "requester", state |-> "invitation-received",
                   protocol |-> "connections", thread |-> None,
                   inv |-> k.inv, did |-> d, theirDid |-> None]
             n == [k EXCEPT !.pc = "cx-createConnection", !.conn = r]
  <1>1. s \in Slots /\ k.pc = "cx-createRequestDid"
    BY DEF CxCreateRequestDid, At, Slots
  <1>2. k \in Tasks /\ UsedTask(conns, oob, a, k)
    BY <1>1, TaskIsUsed, TaskIsSound DEF SoundTasks
  <1>3. UNCHANGED <<oob, conns, net>>
    BY DEF CxCreateRequestDid
  <1>4. \/ Finish(a, s) /\ UNCHANGED dids
        \/ SaveDid(a, "created", d) /\ Continue(a, s, n)
    BY DEF CxCreateRequestDid
  <1>5. CASE Finish(a, s) /\ UNCHANGED dids
    BY <1>3, <1>5, StopInvited
  <1>6. CASE SaveDid(a, "created", d) /\ Continue(a, s, n)
    <2>1. d.key = RoutingKey(a)
      OBVIOUS
    <2>2. /\ r.role = "requester" /\ r.state = "invitation-received" /\ r.theirDid = None
          /\ r.protocol = "connections" /\ r.inv = k.inv /\ r.did = d
      OBVIOUS
    <2> HIDE DEF d, r
    <2>3. n.pc = "cx-createConnection" /\ n.conn = r /\ n.inv = k.inv
      BY <1>2 DEF Tasks
    <2> HIDE DEF n
    <2>4. OwnKeysInv'
      BY <1>1, <1>3, <1>6, <2>1, <2>2, <2>3, NewDidKeepsOwnKeys DEF UnsavedSteps
    <2>5. a \in Invited[k.inv]
      BY <1>1, <1>2 DEF UsedTask, StartSteps
    <2>6. UsedRecord(conns, oob, a, r)
      BY <2>2, <2>5 DEF UsedRecord
    <2>7. UsedTask(conns, oob, a, n)
      BY <2>2, <2>3, <2>6 DEF UsedTask, StartSteps, LearnSteps, DxSteps, CxSteps, YoungSteps,
         RequesterSteps, ResponderSteps, LateSteps, ResponseSteps
    <2>8. InvitationInv'
      BY <1>3, <1>6, <2>7, NothingSentIsUsed, TaskKeepsUsed
    <2> QED
      BY <2>4, <2>8
  <1> QED
    BY <1>4, <1>5, <1>6

LEMMA CxCreateConnectionInvited ==
  ASSUME TypeInv, AgreementInv, OwnKeysInv, InvitationInv,
         NEW a \in Agents, NEW s \in Callers, CxCreateConnection(a, s)
  PROVE  OwnKeysInv' /\ InvitationInv'
  <1> DEFINE k == tasks[a][s]
             r(c) == [k.conn EXCEPT !.thread = [agent |-> a, conn |-> c]]
             n(c) == [k EXCEPT !.pc = "cx-sendRequest", !.id = c, !.conn = r(c)]
  <1>1. s \in Slots /\ k.pc = "cx-createConnection"
    BY DEF CxCreateConnection, At, Slots
  <1>2. /\ k \in Tasks /\ k \in SoundTasks(s) /\ UsedTask(conns, oob, a, k)
        /\ SoundTask(conns, a, s, k)
    BY <1>1, TaskIsUsed, TaskIsSound, TaskAgrees DEF SoundTasks
  <1>3. PICK c \in ConnIds :
          conns[a][c] = None /\ SaveConnection(a, c, r(c)) /\ Continue(a, s, n(c))
    BY DEF CxCreateConnection, FreshConnId
  <1>4. UNCHANGED <<oob, dids, net>>
    BY DEF CxCreateConnection
  <1>5. /\ k.conn \in ConnectionRecords /\ k.conn.role = "requester"
        /\ k.conn.state = "invitation-received" /\ k.conn.theirDid = None
        /\ k.conn.protocol = "connections" /\ UsedRecord(conns, oob, a, k.conn)
    <2> HIDE DEF k
    <2> QED
      BY <1>1, <1>2, TaskFields DEF SoundTask, UsedTask, CxSteps
  <1>6. [agent |-> a, conn |-> c] \in Threads
    BY DEF Threads
  <1>7. /\ r(c) \in ConnectionRecords /\ r(c).role = "requester" /\ r(c).theirDid = None
        /\ r(c).state = "invitation-received" /\ r(c).protocol = "connections"
        /\ r(c).inv = k.conn.inv /\ r(c).did = k.conn.did
    BY <1>5, <1>6 DEF ConnectionRecords
  <1> HIDE DEF r
  <1>8. n(c).pc = "cx-sendRequest" /\ n(c).id = c /\ n(c).conn = r(c)
    BY <1>2 DEF Tasks
  <1> HIDE DEF n
  <1>9. OwnKeysInv'
    <2>1. n(c).pc \notin UnsavedSteps \cup AnswerSteps /\ tasks[a][s].pc \in UnsavedSteps
      BY <1>1, <1>8 DEF UnsavedSteps, AnswerSteps
    <2> QED
      BY <1>1, <1>3, <1>4, <1>7, <1>8, <2>1, SavedDidKeepsOwnKeys
  <1>10. UsedRecord(conns', oob', a, r(c))
    BY <1>5, <1>7 DEF UsedRecord
  <1>11. conns'[a][c] = r(c)
    BY <1>3, <1>7, SavedRecord
  <1>12. UsedTask(conns', oob', a, n(c))
    BY <1>7, <1>8, <1>10, <1>11, YoungTaskIsUsed DEF YoungSteps, RequesterSteps, DxSteps
  <1>13. InvitationInv'
    BY <1>3, <1>4, <1>7, <1>10, <1>12, NothingSentIsUsed, WriteKeepsUsed
  <1> QED
    BY <1>9, <1>13

LEMMA CxSendRequestInvited ==
  ASSUME TypeInv, AgreementInv, OwnKeysInv, InvitationInv,
         NEW a \in Agents, NEW s \in Callers, CxSendRequest(a, s)
  PROVE  OwnKeysInv' /\ InvitationInv'
  <1> DEFINE k == tasks[a][s]
             c == k.id
             r == [k.conn EXCEPT !.state = "request-sent"]
             m == [type |-> "cx-request", from |-> r.did.key, to |-> InvitationKey(k.inv),
                   thread |-> r.thread, inv |-> k.inv, did |-> r.did]
  <1>1. s \in Slots /\ k.pc = "cx-sendRequest" /\ k.pc \in YoungSteps
    BY DEF CxSendRequest, At, Slots, YoungSteps, RequesterSteps
  <1>2. /\ c \in ConnIds /\ k.conn \in ConnectionRecords
        /\ YoungCopy(conns[a][c], k.conn) /\ SoundRecord(conns, a, c, conns[a][c])
        /\ UsedTask(conns, oob, a, k) /\ SoundTask(conns, a, s, k)
    BY <1>1, YoungTask, TaskAgrees, TaskIsUsed
  <1>3. conns[a][c].did = k.conn.did
    BY <1>1 DEF OwnKeysInv, KeyInv
  <1>4. /\ r \in ConnectionRecords /\ r.state = "request-sent" /\ r.role = k.conn.role
        /\ r.inv = k.conn.inv /\ r.thread = k.conn.thread /\ r.did = k.conn.did
        /\ r.theirDid = k.conn.theirDid /\ r.protocol = k.conn.protocol
    BY <1>2 DEF ConnectionRecords, ConnStates
  <1>5. SaveConnection(a, c, r) /\ Send(m) /\ Finish(a, s) /\ UNCHANGED <<oob, dids>>
    BY DEF CxSendRequest
  <1>6. m.type = "cx-request" /\ m.thread = r.thread
    OBVIOUS
  <1> HIDE DEF r, m
  <1>7. k.conn.role = "requester" /\ k.conn.thread = [agent |-> a, conn |-> c]
        /\ k.conn.protocol = "connections" /\ UsedRecord(conns, oob, a, k.conn)
        /\ conns[a][c].protocol = k.conn.protocol
    <2>1. c = k.id
      OBVIOUS
    <2> HIDE DEF c, k
    <2> QED
      BY <1>1, <1>2, <2>1 DEF SoundTask, RequesterSteps, UsedTask, CxSteps
  <1> HIDE DEF c, k
  <1>8. /\ conns[a][c] # None /\ conns[a][c].role = "requester"
        /\ conns[a][c].inv = r.inv /\ conns[a][c].state \in Young /\ r.theirDid = None
    BY <1>2, <1>4, <1>7 DEF YoungCopy, SoundRecord
  <1>9. AsksAsBefore /\ AnswersAsBefore /\ MoreDids
    BY <1>2, <1>3, <1>4, <1>5, <1>7, <1>8, WriteAsksAsBefore, DidsGrow
  <1>10. OwnKeysInv'
    BY <1>5, <1>9, TaskKeepsKeys
  <1>11. Extends(conns[a][c], r)
    BY <1>4, <1>7, <1>8 DEF Extends
  <1>12. UsedRecord(conns', oob', a, r)
    BY <1>4, <1>7, <1>8 DEF UsedRecord
  <1>13. conns'[a][c] = r /\ r # None
    BY <1>2, <1>4, <1>5, SavedRecord
  <1>14. UsedMessage(conns', oob', m)
    <2>1. r.thread \in Threads
      BY <1>2, <1>4, <1>7 DEF Threads
    <2> QED
      BY <1>4, <1>6, <1>7, <1>13, <2>1 DEF UsedMessage, AskedIn
  <1>15. InvitationInv'
    BY <1>2, <1>4, <1>5, <1>7, <1>11, <1>12, <1>14, OneSentIsUsed, WriteKeepsUsed
  <1> QED
    BY <1>10, <1>15

LEMMA CxReceiveRequestInvited ==
  ASSUME TypeInv, AgreementInv, OwnKeysInv, InvitationInv,
         NEW a \in Agents, NEW h \in Handlers, NEW m \in net, CxReceiveRequest(a, h, m)
  PROVE  OwnKeysInv' /\ InvitationInv'
  <1> DEFINE n(i) == [Idle EXCEPT !.pc = "cx-saveRequesterDid", !.msg = m,
                      !.inv = i, !.oob = oob[a]["sender"][i]]
  <1>1. PICK i \in Invitations : Continue(a, h, n(i))
    BY DEF CxReceiveRequest
  <1>2. UsedMessage(conns, oob, m) /\ SentAreUsed /\ m.type = "cx-request"
        /\ UNCHANGED <<oob, conns, dids>>
    BY DeliveredIsUsed DEF CxReceiveRequest, Delivers
  <1>3. n(i).pc = "cx-saveRequesterDid" /\ n(i).msg = m
    BY DEF Idle
  <1> HIDE DEF n
  <1>4. UsedTask(conns, oob, a, n(i))
    BY <1>2, <1>3, RequestTaskIsUsed DEF RequestSteps
  <1>5. n(i).pc \notin KeySteps \cup AnswerSteps
    BY <1>3 DEF KeySteps, AnswerSteps
  <1>6. OwnKeysInv'
    BY <1>1, <1>2, <1>5, SameConnsAsBefore, DidsGrow, TaskKeepsKeys
  <1> QED
    BY <1>1, <1>2, <1>4, <1>6, TaskKeepsUsed

LEMMA CxCreateResponderInvited ==
  ASSUME TypeInv, AgreementInv, OwnKeysInv, InvitationInv,
         NEW a \in Agents, NEW h \in Handlers, CxCreateResponder(a, h)
  PROVE  OwnKeysInv' /\ InvitationInv'
  <1> DEFINE k == tasks[a][h]
             r == [role |-> "responder", state |-> "request-received",
                   protocol |-> "connections", thread |-> k.msg.thread, inv |-> k.inv,
                   did |-> None, theirDid |-> k.msg.did]
             n(c) == [k EXCEPT !.pc = "cx-createResponseDid", !.id = c, !.conn = r]
  <1>1. h \in Slots /\ k \in Tasks /\ k.inv \in Invitations /\ k.msg \in Messages
        /\ k.msg.did \in PeerDids /\ k.pc = "cx-createResponder"
    BY TaskIsSound
    DEF CxCreateResponder, At, Slots, SoundTasks, UsesInvitation, UsesMessage, SoundMessages
  <1>2. AskedIn(conns, k.msg.thread, "connections")
    BY <1>1, TaskIsUsed DEF UsedTask, UsedMessage
  <1>3. PICK c \in ConnIds :
          /\ conns[a][c] = None /\ SaveConnection(a, c, r)
          /\ Continue(a, h, n(c)) \/ Finish(a, h)
    BY DEF CxCreateResponder, FreshConnId
  <1>4. k.msg.thread \in Threads
    BY <1>2 DEF AskedIn
  <1>5. r \in ConnectionRecords /\ r.role = "responder" /\ r.state = "request-received"
        /\ r.did = None /\ r.thread = k.msg.thread /\ r.protocol = "connections"
    BY <1>1, <1>4 DEF ConnectionRecords, ConnRoles, ConnStates, ConnectionProtocols
  <1> HIDE DEF r
  <1>6. n(c).pc = "cx-createResponseDid" /\ n(c).id = c /\ n(c).conn = r
    BY <1>1 DEF Tasks
  <1> HIDE DEF n
  <1>7. UNCHANGED <<oob, dids, net>>
    BY DEF CxCreateResponder
  <1> HIDE DEF k
  <1> QED
    BY <1>2, <1>3, <1>5, <1>6, <1>7, NewResponderInvited

LEMMA CxCreateResponseDidInvited ==
  ASSUME TypeInv, AgreementInv, OwnKeysInv, InvitationInv,
         NEW a \in Agents, NEW t \in Slots, CxCreateResponseDid(a, t)
  PROVE  OwnKeysInv' /\ InvitationInv'
  <1> DEFINE d == [key |-> IF Reusable[tasks[a][t].inv] THEN RoutingKey(a)
                           ELSE InvitationKey(tasks[a][t].inv),
                   n |-> 0]
  <1>1. d.key = RoutingKey(a) \/ d.key.use = "service"
    BY DEF InvitationKey
  <1>2. tasks[a][t].pc = "cx-createResponseDid" /\ UNCHANGED <<oob, conns, net>>
    BY DEF CxCreateResponseDid, At
  <1>3. \/ Finish(a, t) /\ UNCHANGED dids
        \/ /\ SaveDid(a, "created", d)
           /\ Continue(a, t, [tasks[a][t] EXCEPT !.pc = "cx-sendResponse", !.conn.did = d])
    BY DEF CxCreateResponseDid
  <1> HIDE DEF d
  <1> QED
    BY <1>1, <1>2, <1>3, AnswerDidInvited, StopInvited


LEMMA CxResponseReceivedInvited ==
  ASSUME TypeInv, AgreementInv, OwnKeysInv, InvitationInv,
         NEW a \in Agents, NEW h \in Handlers, CxResponseReceived(a, h)
  PROVE  OwnKeysInv' /\ InvitationInv'
  <1> DEFINE k == tasks[a][h]
             r == [k.conn EXCEPT !.theirDid = k.msg.did, !.thread = k.msg.thread,
                                 !.state = "response-received"]
             n == [k EXCEPT !.pc = "cx-sendPing", !.conn = r]
  <1>1. h \in Slots /\ k.pc = "cx-responseReceived" /\ k.pc \in LateSteps
    BY DEF CxResponseReceived, At, Slots, ResponseSteps, LateSteps
  <1>2. /\ k \in Tasks /\ k.id \in ConnIds /\ k.conn \in ConnectionRecords
        /\ k.conn.state \notin Young
        /\ UsedTask(conns, oob, a, k) /\ SoundTask(conns, a, h, k) /\ k \in SoundTasks(h)
    BY <1>1, LateTask, TaskAgrees, TaskIsUsed, TaskIsSound
  <1>3. k.msg.did \in PeerDids /\ k.conn.role = "requester" /\ k.msg.thread = k.conn.thread
    <2> HIDE DEF k
    <2> QED
      BY <1>1, <1>2 DEF SoundTasks, UsesMessage, SoundTask, ResponseSteps
  <1>4. r \in ConnectionRecords /\ r.role = "requester" /\ r.state = "response-received"
        /\ r.inv = k.conn.inv /\ r.thread = k.conn.thread /\ r.did = k.conn.did
        /\ r.theirDid = k.msg.did /\ r.protocol = k.conn.protocol
    BY <1>2, <1>3 DEF ConnectionRecords, ConnStates
  <1>5. SaveConnection(a, k.id, r) /\ (Continue(a, h, n) \/ Finish(a, h))
        /\ UNCHANGED <<oob, dids, net>>
    BY DEF CxResponseReceived
  <1> HIDE DEF r
  <1>6. n.pc = "cx-sendPing" /\ n.id = k.id /\ n.conn = r
    BY <1>2 DEF Tasks
  <1> HIDE DEF n
  <1>7. Extends(k.conn, r)
    BY <1>2, <1>3, <1>4 DEF Extends, Young
  <1>8. conns'[a][k.id] = r
    BY <1>1, <1>4, <1>5, <1>7, LateWriteIsOnward
  <1> HIDE DEF k
  <1>9. UsedRecord(conns, oob, a, k.conn) /\ k.conn.protocol = "connections"
    BY <1>1, <1>2 DEF UsedTask, CxSteps
  <1>10. UsedRecord(conns', oob', a, r)
    BY <1>3, <1>4, <1>9 DEF UsedRecord
  <1>11. UsedTask(conns', oob', a, n)
    BY <1>4, <1>6, <1>8, <1>9, <1>10
    DEF UsedTask, StartSteps, LearnSteps, DxSteps, CxSteps, YoungSteps, RequesterSteps,
        ResponderSteps
  <1>12. n.pc \notin KeySteps \cup AnswerSteps
    BY <1>6 DEF KeySteps, AnswerSteps
  <1> QED
    BY <1>1, <1>4, <1>5, <1>7, <1>10, <1>11, <1>12, NothingSentIsUsed, LateWriteInvited DEF k

LEMMA CxSendPingInvited ==
  ASSUME TypeInv, AgreementInv, OwnKeysInv, InvitationInv,
         NEW a \in Agents, NEW t \in Slots, CxSendPing(a, t)
  PROVE  OwnKeysInv' /\ InvitationInv'
  <1> DEFINE k == tasks[a][t]
             c == k.id
             r == [k.conn EXCEPT !.state = "completed"]
             m == [type |-> "ping", from |-> k.conn.did.key,
                   to |-> k.conn.theirDid.key, thread |-> None, inv |-> None, did |-> None]
  <1>1. k.pc = "cx-sendPing" /\ k.pc \in LateSteps
    BY DEF CxSendPing, At, LateSteps
  <1>2. /\ c \in ConnIds /\ k.conn \in ConnectionRecords /\ k.conn \in SoundRecords
        /\ SoundRecord(conns, a, c, k.conn) /\ k.conn.state \notin Young
        /\ conns[a][c] # None /\ conns[a][c].state \notin Young /\ Extends(conns[a][c], k.conn)
        /\ UsedTask(conns, oob, a, k)
    BY <1>1, LateTask, TaskIsUsed
  <1>3. Finish(a, t) /\ UNCHANGED <<oob, dids>>
    BY DEF CxSendPing
  <1>4. CASE UNCHANGED <<conns, net>>
    BY <1>3, <1>4, StopInvited
  <1>5. CASE /\ k.conn.state \in {"response-received", "completed"} /\ Send(m)
             /\ IF k.conn.state # "completed" THEN SaveConnection(a, c, r)
                                              ELSE UNCHANGED conns
    <2>1. m.type = "ping" /\ m.from = k.conn.did.key
      OBVIOUS
    <2>2. /\ r \in ConnectionRecords /\ r.role = k.conn.role /\ r.state = "completed"
          /\ r.inv = k.conn.inv /\ r.thread = k.conn.thread /\ r.did = k.conn.did
          /\ r.theirDid = k.conn.theirDid /\ r.protocol = k.conn.protocol
      BY <1>2 DEF ConnectionRecords, ConnStates
    <2>3. k.conn.did # None
      BY <1>2, <1>5, NoneAssumption DEF SoundRecords
    <2>4. /\ UsedRecord(conns, oob, a, k.conn) /\ conns[a][c].protocol = k.conn.protocol
          /\ k.conn.role = "requester" => k.conn.protocol = "connections" \/ a \notin AutoAccept
      <3>1. c = k.id
        OBVIOUS
      <3> HIDE DEF k, c
      <3> QED
        BY <1>1, <1>2, <3>1 DEF UsedTask
    <2>5. conns[a][c].did = k.conn.did /\ conns[a][c].role = k.conn.role
      BY <1>2 DEF Extends
    <2>6. k.conn.role \in {"requester", "responder"}
      BY <1>2 DEF ConnectionRecords, ConnRoles
    <2> HIDE DEF r, m
    <2>7. CASE UNCHANGED conns
      <3>1. UsedMessage(conns', oob', m)
        BY <1>2, <2>1, <2>3, <2>4, <2>5, <2>6, <2>7
        DEF UsedMessage, AnsweredWith, AnswersWith, AskedWith, AsksWith
      <3>2. SentAreUsed
        BY <1>5, <3>1, OneSentIsUsed
      <3>3. OwnKeysInv'
        BY <1>3, <2>7, SameConnsAsBefore, DidsGrow, TaskKeepsKeys
      <3> QED
        BY <1>3, <2>7, <3>2, <3>3, TaskKeepsUsed
    <2>8. CASE k.conn.state = "response-received" /\ SaveConnection(a, c, r)
      <3>1. k.conn.role = "requester"
        BY <1>2, <2>6, <2>8 DEF SoundRecord, ResponderStates
      <3>2. Extends(k.conn, r)
        BY <2>2, <3>1 DEF Extends, Young
      <3>3. c = k.id
        OBVIOUS
      <3>4. Onward(conns, oob, conns', oob') /\ conns'[a][c] = r /\ r # None
        BY <1>1, <1>3, <2>2, <2>8, <3>2, LateWriteIsOnward
      <3>5. r.protocol = "did-exchange" => AnsweredIn(conns', r.inv)
        <4>1. r.protocol = "did-exchange" => AnsweredIn(conns, r.inv)
          BY <2>2, <2>4, <2>8, <3>1 DEF UsedRecord
        <4>2. r.inv \in Invitations
          BY <2>2 DEF ConnectionRecords
        <4> QED
          BY <3>4, <4>1, <4>2, AnsweredLater
      <3>6. UsedRecord(conns', oob', a, r)
        BY <2>2, <2>4, <3>1, <3>5 DEF UsedRecord
      <3>7. UsedMessage(conns', oob', m)
        BY <1>2, <2>1, <2>2, <2>3, <2>4, <3>1, <3>4
        DEF UsedMessage, AskedWith, AsksWith, Young
      <3>8. SentAreUsed
        BY <1>5, <3>7, OneSentIsUsed
      <3> QED
        BY <1>1, <1>3, <2>2, <2>8, <3>2, <3>6, <3>8, LateWriteInvited
    <2> QED
      BY <1>5, <2>7, <2>8
  <1> QED
    BY <1>4, <1>5 DEF CxSendPing

\* The key of a request is that of no other request, and of no answer.
LEMMA RequestKeyIsItsOwn ==
  ASSUME TypeInv, OwnKeysInv, NEW th, NEW did \in PeerDids, NEW x, RequestIn(conns, th, did, x)
  PROVE  /\ th.agent \in Agents /\ th.conn \in ConnIds
         /\ AsksWith(conns, th.agent, th.conn) /\ conns[th.agent][th.conn].did = did
         /\ \A b \in Agents, c \in ConnIds :
              AsksWith(conns, b, c) /\ conns[b][c].did.key = did.key => b = th.agent /\ c = th.conn
         /\ \A b \in Agents, c \in ConnIds :
              AnswersWith(conns, b, c) => conns[b][c].did.key # did.key
  <1>1. /\ th.agent \in Agents /\ th.conn \in ConnIds
        /\ AsksWith(conns, th.agent, th.conn) /\ conns[th.agent][th.conn].did = did
    BY NoneAssumption DEF RequestIn, Threads, AsksWith
  <1>2. did.key.agent = th.agent /\ did.key.use = "routing"
    BY <1>1 DEF OwnKeysInv, KeyInv, IsOwnKey
  <1>3. ASSUME NEW b \in Agents, NEW c \in ConnIds, AsksWith(conns, b, c),
               conns[b][c].did.key = did.key
        PROVE  b = th.agent /\ c = th.conn
    <2>1. b = th.agent
      BY <1>2, <1>3 DEF OwnKeysInv, KeyInv, IsOwnKey
    <2> QED
      BY <1>1, <1>3, <2>1 DEF OwnKeysInv, KeyInv
  <1>4. ASSUME NEW b \in Agents, NEW c \in ConnIds, AnswersWith(conns, b, c)
        PROVE  conns[b][c].did.key # did.key
    <2>1. NotAsked(b, conns[b][c].did.key)
      BY <1>4 DEF OwnKeysInv, AnswerKeyInv
    <2> QED
      BY <1>1, <1>2, <2>1 DEF NotAsked, IsOwnKey
  <1> QED
    BY <1>1, <1>3, <1>4


\* A ping completes no DID exchange that the invitee has still to complete.
LEMMA PingedConnection ==
  ASSUME TypeInv, AgreementInv, OwnKeysInv, InvitationInv, InviteesAccept,
         NEW a \in Agents, NEW m \in net, m.type = "ping",
         NEW c \in ContextConnections(a, m), conns[a][c].state = "response-sent"
  PROVE  /\ conns[a][c].role = "responder"
         /\ conns[a][c].protocol = "did-exchange" => Reusable[conns[a][c].inv]
  <1> DEFINE r == conns[a][c]
  <1>1. c \in ConnIds /\ r # None /\ r.theirDid.key = m.from
    BY ContextConnection
  <1>2. /\ r \in SoundRecords /\ r \in ConnectionRecords /\ SoundRecord(conns, a, c, r)
        /\ UsedRecord(conns, oob, a, r)
    BY <1>1, ReadRecord DEF InvitationInv
  <1>3. r.state = "response-sent" /\ UsedMessage(conns, oob, m)
    BY DEF InvitationInv
  <1> HIDE DEF r
  <1>4. r.role = "responder"
    BY <1>2, <1>3 DEF ConnectionRecords, ConnRoles, SoundRecord, RequesterStates
  <1>5. SUFFICES ASSUME r.protocol = "did-exchange", ~Reusable[r.inv] PROVE FALSE
    BY <1>4 DEF r
  <1>6. /\ r.theirDid \in PeerDids /\ RequestIn(conns, r.thread, r.theirDid, a)
        /\ AskedIn(conns, r.thread, "did-exchange") /\ InvOf(conns, r.thread) = r.inv
    BY <1>2, <1>4, <1>5 DEF SoundRecords, SoundRecord, UsedRecord
  <1> DEFINE th == r.thread
             did == r.theirDid
  <1>7. /\ th.agent \in Agents /\ th.conn \in ConnIds
        /\ conns[th.agent][th.conn] # None /\ conns[th.agent][th.conn].role = "requester"
        /\ conns[th.agent][th.conn].protocol = "did-exchange"
        /\ conns[th.agent][th.conn].inv = r.inv
    BY <1>6 DEF AskedIn, InvOf, Threads
  <1>8. th.agent \in Invited[r.inv]
    BY <1>7 DEF InvitationInv, UsedRecord
  <1>9. th.agent \in AutoAccept
    BY <1>2, <1>5, <1>8 DEF InviteesAccept, ConnectionRecords
  <1>10. PICK b \in Agents, d \in ConnIds :
           /\ \/ AnsweredWith(conns, b, d)
              \/ AskedWith(conns, b, d)
                 /\ (conns[b][d].protocol = "connections" \/ b \notin AutoAccept)
           /\ conns[b][d].did.key = did.key
    BY <1>1, <1>3 DEF UsedMessage, r
  <1>11. did \in PeerDids /\ RequestIn(conns, th, did, a)
    BY <1>6
  <1> HIDE DEF th, did
  <1>12. /\ AsksWith(conns, b, d) => b = th.agent /\ d = th.conn
         /\ ~AnswersWith(conns, b, d)
    <2>1. \A e \in Agents, f \in ConnIds :
            /\ AsksWith(conns, e, f) /\ conns[e][f].did.key = did.key => e = th.agent /\ f = th.conn
            /\ AnswersWith(conns, e, f) => conns[e][f].did.key # did.key
      BY <1>11, RequestKeyIsItsOwn
    <2> QED
      BY <1>10, <2>1
  <1> QED
    BY <1>7, <1>9, <1>10, <1>12 DEF AnsweredWith, AskedWith

LEMMA CxReceivePingInvited ==
  ASSUME TypeInv, AgreementInv, OwnKeysInv, InvitationInv,
         NEW a \in Agents, NEW h \in Handlers, NEW m \in net, CxReceivePing(a, h, m)
  PROVE  OwnKeysInv' /\ InvitationInv'
  <1> DEFINE n(c) == [Idle EXCEPT !.pc = "cx-complete", !.msg = m, !.id = c, !.conn = conns[a][c]]
  <1>1. PICK c \in ConnIds : PingCompletes(a, c, m) /\ Continue(a, h, n(c))
    BY DEF CxReceivePing
  <1>2. /\ SentAreUsed /\ m.type = "ping" /\ UNCHANGED <<oob, conns, dids>>
    BY DeliveredIsUsed DEF CxReceivePing, Delivers
  <1>3. c \in ContextConnections(a, m) /\ conns[a][c].state = "response-sent"
    BY <1>1 DEF PingCompletes
  <1>4. conns[a][c] # None /\ UsedRecord(conns, oob, a, conns[a][c])
    BY <1>3, ContextConnection DEF InvitationInv
  <1>5. InviteesAccept => /\ conns[a][c].role = "responder"
                          /\ conns[a][c].protocol = "did-exchange" => Reusable[conns[a][c].inv]
    BY <1>2, <1>3, PingedConnection
  <1>6. n(c).pc = "cx-complete" /\ n(c).id = c /\ n(c).conn = conns[a][c]
    BY DEF Idle
  <1> HIDE DEF n
  <1>7. UsedTask(conns, oob, a, n(c))
    BY <1>4, <1>5, <1>6
    DEF UsedTask, StartSteps, LearnSteps, DxSteps, CxSteps, YoungSteps, RequesterSteps,
        ResponderSteps
  <1>8. n(c).pc \notin KeySteps \cup AnswerSteps
    BY <1>6 DEF KeySteps, AnswerSteps
  <1>9. OwnKeysInv'
    BY <1>1, <1>2, <1>8, SameConnsAsBefore, DidsGrow, TaskKeepsKeys
  <1> QED
    BY <1>1, <1>2, <1>7, <1>9, TaskKeepsUsed

LEMMA CxCompleteInvited ==
  ASSUME TypeInv, AgreementInv, OwnKeysInv, InvitationInv,
         NEW a \in Agents, NEW h \in Handlers, CxComplete(a, h)
  PROVE  OwnKeysInv' /\ InvitationInv'
  <1> DEFINE k == tasks[a][h]
             r == [k.conn EXCEPT !.state = "completed"]
  <1>1. h \in Slots /\ k.pc = "cx-complete" /\ k.pc \in LateSteps
    BY DEF CxComplete, At, Slots, LateSteps
  <1>2. /\ k.conn \in ConnectionRecords /\ SoundRecord(conns, a, k.id, k.conn)
        /\ k.conn.state \notin Young /\ UsedTask(conns, oob, a, k) /\ k \in SoundTasks(h)
    BY <1>1, LateTask, TaskIsUsed, TaskIsSound
  <1>3. /\ r \in ConnectionRecords /\ r.role = k.conn.role /\ r.state = "completed"
        /\ r.inv = k.conn.inv /\ r.thread = k.conn.thread /\ r.did = k.conn.did
        /\ r.theirDid = k.conn.theirDid /\ r.protocol = k.conn.protocol
    BY <1>2 DEF ConnectionRecords, ConnStates
  <1>4. SaveConnection(a, k.id, r) /\ Finish(a, h) /\ UNCHANGED <<oob, dids, net>>
    BY DEF CxComplete
  <1> HIDE DEF r
  <1>5. Extends(k.conn, r)
    BY <1>2, <1>3 DEF Extends, Young
  <1>6. Onward(conns, oob, conns', oob')
    BY <1>1, <1>3, <1>4, <1>5, LateWriteIsOnward
  <1> HIDE DEF k
  <1>7. /\ UsedRecord(conns, oob, a, k.conn) /\ IsReady(k.conn)
        /\ InviteesAccept =>
             k.conn.role = "responder" /\ (k.conn.protocol = "did-exchange" => Reusable[k.conn.inv])
    BY <1>1, <1>2 DEF UsedTask, SoundTasks
  <1>8. CASE r.role = "requester"
    <2>1. k.conn.state = "completed"
      BY <1>2, <1>3, <1>7, <1>8 DEF IsReady, SoundRecord, RequesterStates
    <2>2. r.protocol = "did-exchange" => AnsweredIn(conns, r.inv)
      BY <1>3, <1>7, <1>8, <2>1 DEF UsedRecord
    <2>3. r.inv \in Invitations
      BY <1>3 DEF ConnectionRecords
    <2>4. r.protocol = "did-exchange" => AnsweredIn(conns', r.inv)
      BY <1>6, <2>2, <2>3, AnsweredLater
    <2> QED
      <3>1. UsedRecord(conns', oob', a, r)
        BY <1>3, <1>7, <1>8, <2>4 DEF UsedRecord
      <3> QED
        BY <1>1, <1>3, <1>4, <1>5, <3>1, NothingSentIsUsed, LateWriteInvited DEF k
  <1>9. CASE r.role = "responder"
    <2>1. /\ AskedIn(conns, r.thread, r.protocol)
          /\ r.protocol = "did-exchange" => InvOf(conns, r.thread) = r.inv
      BY <1>3, <1>7, <1>9 DEF UsedRecord
    <2>2. AskedIn(conns', r.thread, r.protocol) /\ InvOf(conns', r.thread) = InvOf(conns, r.thread)
      BY <1>6, <2>1, AskedLater
    <2>3. UsedRecord(conns', oob', a, r)
      BY <1>3, <1>7, <1>9, <2>1, <2>2 DEF UsedRecord
    <2> QED
      BY <1>1, <1>3, <1>4, <1>5, <2>3, NothingSentIsUsed, LateWriteInvited DEF k
  <1> QED
    BY <1>3, <1>8, <1>9 DEF ConnectionRecords, ConnRoles

LEMMA PeerReportsProblemInvited ==
  ASSUME TypeInv, AgreementInv, OwnKeysInv, InvitationInv,
         NEW a \in Agents, NEW c \in ConnIds, PeerReportsProblem(a, c)
  PROVE  OwnKeysInv' /\ InvitationInv'
  <1> DEFINE m == [type |-> "problem-report", from |-> conns[a][c].did.key,
                   to |-> conns[a][c].theirDid.key, thread |-> None, inv |-> None, did |-> None]
  <1>1. ~NoReports /\ Send(m) /\ UNCHANGED <<oob, conns, dids, tasks>>
    BY DEF PeerReportsProblem, NoReports
  <1>2. m.type = "problem-report"
    OBVIOUS
  <1> HIDE DEF m
  <1>3. SentAreUsed
    BY <1>1, <1>2, OneSentIsUsed DEF UsedMessage
  <1>4. OwnKeysInv'
    BY <1>1, SameConnsAsBefore, DidsGrow, OwnKeysKept
  <1> QED
    BY <1>1, <1>3, <1>4, QuietKeepsUsed

LEMMA CxReceiveProblemReportInvited ==
  ASSUME TypeInv, AgreementInv, OwnKeysInv, InvitationInv,
         NEW a \in Agents, NEW h \in Handlers, NEW m \in net, CxReceiveProblemReport(a, h, m)
  PROVE  OwnKeysInv' /\ InvitationInv'
  <1> DEFINE n(c) == [Idle EXCEPT !.pc = "cx-abandon", !.msg = m, !.id = c, !.conn = conns[a][c]]
  <1>1. PICK c \in ConnIds : ReportConcerns(a, c, m) /\ Continue(a, h, n(c))
    BY DEF CxReceiveProblemReport
  <1>2. /\ SentAreUsed /\ m.type = "problem-report" /\ UsedMessage(conns, oob, m)
        /\ UNCHANGED <<oob, conns, dids>>
    BY DeliveredIsUsed DEF CxReceiveProblemReport, Delivers
  <1>3. conns[a][c] # None
    BY <1>1 DEF ReportConcerns, ConnectionsByOurDid
  <1>4. UsedRecord(conns, oob, a, conns[a][c]) /\ ~NoReports
    BY <1>2, <1>3 DEF InvitationInv, UsedMessage
  <1>5. n(c).pc = "cx-abandon" /\ n(c).id = c /\ n(c).conn = conns[a][c]
    BY DEF Idle
  <1> HIDE DEF n
  <1>6. UsedTask(conns, oob, a, n(c))
    BY <1>4, <1>5
    DEF UsedTask, StartSteps, LearnSteps, DxSteps, CxSteps, YoungSteps, RequesterSteps,
        ResponderSteps
  <1>7. n(c).pc \notin KeySteps \cup AnswerSteps
    BY <1>5 DEF KeySteps, AnswerSteps
  <1>8. OwnKeysInv'
    BY <1>1, <1>2, <1>7, SameConnsAsBefore, DidsGrow, TaskKeepsKeys
  <1> QED
    BY <1>1, <1>2, <1>6, <1>8, TaskKeepsUsed

LEMMA CxAbandonInvited ==
  ASSUME TypeInv, AgreementInv, OwnKeysInv, InvitationInv,
         NEW a \in Agents, NEW h \in Handlers, CxAbandon(a, h)
  PROVE  OwnKeysInv' /\ InvitationInv'
  <1> DEFINE k == tasks[a][h]
             r == [k.conn EXCEPT !.state = "abandoned"]
  <1>1. h \in Slots /\ k.pc = "cx-abandon" /\ k.pc \in LateSteps
    BY DEF CxAbandon, At, Slots, LateSteps
  <1>2. /\ k.conn \in ConnectionRecords /\ k.conn.state \notin Young
        /\ UsedTask(conns, oob, a, k)
    BY <1>1, LateTask, TaskIsUsed
  <1>3. /\ r \in ConnectionRecords /\ r.role = k.conn.role /\ r.state = "abandoned"
        /\ r.inv = k.conn.inv /\ r.thread = k.conn.thread /\ r.did = k.conn.did
        /\ r.theirDid = k.conn.theirDid /\ r.protocol = k.conn.protocol
    BY <1>2 DEF ConnectionRecords, ConnStates
  <1>4. SaveConnection(a, k.id, r) /\ Finish(a, h) /\ UNCHANGED <<oob, dids, net>>
    BY DEF CxAbandon
  <1> HIDE DEF r
  <1>5. Extends(k.conn, r)
    BY <1>2, <1>3 DEF Extends, Young
  <1>6. Onward(conns, oob, conns', oob')
    BY <1>1, <1>3, <1>4, <1>5, LateWriteIsOnward
  <1> HIDE DEF k
  <1>7. UsedRecord(conns, oob, a, k.conn) /\ ~NoReports
    BY <1>1, <1>2 DEF UsedTask
  <1>8. r.role = "responder" =>
          /\ AskedIn(conns', r.thread, r.protocol)
          /\ r.protocol = "did-exchange" => InvOf(conns', r.thread) = r.inv
    BY <1>3, <1>6, <1>7, AskedLater DEF UsedRecord
  <1>9. UsedRecord(conns', oob', a, r)
    BY <1>3, <1>7, <1>8 DEF UsedRecord
  <1> QED
    BY <1>1, <1>3, <1>4, <1>5, <1>9, NothingSentIsUsed, LateWriteInvited DEF k

LEMMA ConnectionProtocolInvited ==
  ASSUME TypeInv, AgreementInv, OwnKeysInv, InvitationInv, ConnectionProtocolNext
  PROVE  OwnKeysInv' /\ InvitationInv'
  BY CxCreateRequestDidInvited, CxCreateConnectionInvited, CxSendRequestInvited,
     CxReceiveRequestInvited, CxSaveRequesterDidInvited, CxCreateResponderInvited,
     CxCreateResponseDidInvited, CxSendResponseInvited, CxReceiveResponseInvited,
     CxSaveResponderDidInvited, CxResponseReceivedInvited, CxSendPingInvited,
     CxReceivePingInvited, CxCompleteInvited, PeerReportsProblemInvited,
     CxReceiveProblemReportInvited, CxAbandonInvited
  DEF ConnectionProtocolNext


-------------------------------------------------------------------------------
(* The out-of-band protocol *)

LEMMA CreateInvitationInvited ==
  ASSUME TypeInv, AgreementInv, OwnKeysInv, InvitationInv,
         NEW a \in Agents, NEW i \in Invitations, CreateInvitation(a, i)
  PROVE  OwnKeysInv' /\ InvitationInv'
  <1> DEFINE r == [state |-> "await-response", reuse |-> None]
  <1>1. /\ Owner[i] = a /\ oob[a]["sender"][i] = None /\ SaveOob(a, "sender", i, r)
        /\ UNCHANGED <<conns, dids, net, tasks>>
    BY DEF CreateInvitation
  <1>2. r \in OobRecords /\ r.state # "done"
    BY DEF OobRecords, OobStates
  <1> HIDE DEF r
  <1>3. InvitationInv'
    BY <1>1, <1>2, SenderKeepsUsed
  <1>4. OwnKeysInv'
    BY <1>1, SameConnsAsBefore, DidsGrow, OwnKeysKept
  <1> QED
    BY <1>3, <1>4

LEMMA ReceiveInvitationInvited ==
  ASSUME TypeInv, AgreementInv, OwnKeysInv, InvitationInv,
         NEW a \in Agents, NEW i \in Invitations, ReceiveInvitation(a, i)
  PROVE  OwnKeysInv' /\ InvitationInv'
  <1> DEFINE r == [state |-> "initial", reuse |-> None]
  <1>1. /\ a \in Invited[i] /\ oob[a]["receiver"][i] = None /\ SaveOob(a, "receiver", i, r)
        /\ UNCHANGED <<conns, dids, net, tasks>>
    BY DEF ReceiveInvitation
  <1>2. r \in OobRecords /\ r.state = "initial" /\ r.reuse = None
    BY DEF OobRecords, OobStates
  <1> HIDE DEF r
  <1>3. SoundReceiver(conns, oob, a, i, r)
    BY <1>1, <1>2 DEF SoundReceiver, UsedOob
  <1>4. InvitationInv'
    BY <1>1, <1>2, <1>3, NothingSentIsUsed, ReceiverKeepsUsed
  <1>5. OwnKeysInv'
    BY <1>1, SameConnsAsBefore, DidsGrow, OwnKeysKept
  <1> QED
    BY <1>4, <1>5

\* A connection to reuse has both DIDs only if its request was answered.
LEMMA ReusableConnection ==
  ASSUME TypeInv, AgreementInv, InvitationInv, NEW a \in Agents, NEW c \in ConnIds,
         OwnIn(conns, a, c), conns[a][c].did # None, conns[a][c].theirDid # None, NoReports
  PROVE  /\ conns[a][c].state \notin Young
         /\ \E b \in Agents, d \in ConnIds :
              AnsweredWith(conns, b, d) /\ conns[b][d].did = conns[a][c].theirDid
  <1> DEFINE r == conns[a][c]
  <1>1. /\ r \in SoundRecords /\ r \in ConnectionRecords /\ SoundRecord(conns, a, c, r)
        /\ r.role = "requester" /\ r.theirDid # None
    BY ReadRecord DEF OwnIn
  <1>2. UsedRecord(conns, oob, a, r)
    BY DEF OwnIn, InvitationInv
  <1> HIDE DEF r
  <1>3. r.state \in {"response-received", "completed"}
    BY <1>1, <1>2 DEF UsedRecord, SoundRecord, RequesterStates
  <1>4. MatchedIn(conns, r) /\ Owner[r.inv] \in Agents
    BY <1>1, <1>3, ConstantsAssumption DEF SoundRecord, ConnectionRecords
  <1>5. PICK d \in ConnIds : AnswerIn(conns, Owner[r.inv], d, r.thread, r.theirDid)
    BY <1>4 DEF MatchedIn
  <1>6. AnsweredWith(conns, Owner[r.inv], d) /\ conns[Owner[r.inv]][d].did = r.theirDid
    BY <1>1, <1>5 DEF AnswerIn, AnsweredWith, AnswersWith
  <1> QED
    BY <1>3, <1>4, <1>6 DEF r, Young

LEMMA AcceptInvitationInvited ==
  ASSUME TypeInv, AgreementInv, OwnKeysInv, InvitationInv,
         NEW a \in Agents, NEW s \in Callers, NEW i \in Invitations, AcceptInvitation(a, s, i)
  PROVE  OwnKeysInv' /\ InvitationInv'
  <1> DEFINE old == oob[a]["receiver"][i]
             r == [old EXCEPT !.state = "prepare-response"]
             n(c) == [Idle EXCEPT !.pc = "oob-createReuse", !.inv = i, !.oob = r,
                                  !.id = c, !.conn = conns[a][c]]
             p == [Idle EXCEPT !.pc = RequestPc(i), !.inv = i, !.oob = r]
  <1>1. /\ old # None /\ SaveOob(a, "receiver", i, r) /\ UNCHANGED <<conns, dids, net>>
        /\ \/ \E c \in ExistingConnections(a, i) : Continue(a, s, n(c))
           \/ Continue(a, s, p)
    BY DEF AcceptInvitation
  <1>2. old \in OobRecords /\ SoundReceiver(conns, oob, a, i, old)
    <2>1. oob[a]["receiver"][i] \in OobRecords \cup {None} /\ old # None
      <3>1. oob[a]["receiver"][i] \in OobRecords \cup {None}
        BY DEF TypeInv, OobType, OobRoles
      <3>2. old # None
        BY <1>1
      <3> QED
        BY <3>1, <3>2
    <2>2. a \in Invited[i] /\ UsedOob(conns, oob, a, i, old)
      BY <2>1 DEF InvitationInv
    <2> HIDE DEF old
    <2>3. SoundReceiver(conns, oob, a, i, old)
      BY <2>2 DEF SoundReceiver
    <2>4. old \in OobRecords
      BY <2>1 DEF old
    <2> QED
      BY <2>3, <2>4
  <1>3. r \in OobRecords /\ r.state = "prepare-response" /\ r.reuse = old.reuse
    BY <1>2 DEF OobRecords, OobStates
  <1>4. /\ \A c : /\ n(c).pc = "oob-createReuse" /\ n(c).inv = i /\ n(c).oob = r
                  /\ n(c).id = c /\ n(c).conn = conns[a][c]
        /\ p.pc = RequestPc(i) /\ p.inv = i /\ p.oob = r
    BY DEF Idle
  <1> HIDE DEF n, p
  <1>5. /\ SoundReceiver(conns, oob, a, i, r) /\ a \in Invited[i]
        /\ old.reuse # None => r.reuse # None
    BY <1>2, <1>3 DEF SoundReceiver, UsedOob
  <1>6. ASSUME NEW k, Continue(a, s, k), UsedTask(conns, oob', a, k),
               k.pc \notin KeySteps \cup AnswerSteps
        PROVE  OwnKeysInv' /\ InvitationInv'
    <2>1. SentAreUsed /\ SaveOob(a, "receiver", i, r) /\ UNCHANGED <<conns, dids>>
          /\ (oob[a]["receiver"][i] # None /\ oob[a]["receiver"][i].reuse # None
              => r.reuse # None)
      BY <1>1, <1>5, NothingSentIsUsed
    <2> HIDE DEF r, old
    <2> QED
      BY <1>3, <1>5, <1>6, <2>1, ReceiverTaskKeepsUsed
  <1>7. CASE Continue(a, s, p)
    <2>1. RequestPc(i) \in {"dx-createConnection", "cx-createRequestDid"}
      BY DEF RequestPc
    <2>2. UsedTask(conns, oob', a, p)
      BY <1>4, <1>5, <2>1 DEF UsedTask, StartSteps, LearnSteps, DxSteps, CxSteps, YoungSteps,
         RequesterSteps, ResponderSteps, LateSteps, ResponseSteps
    <2> QED
      BY <1>4, <1>6, <1>7, <2>1, <2>2 DEF KeySteps, AnswerSteps
  <1>8. ASSUME NEW c \in ExistingConnections(a, i), Continue(a, s, n(c))
        PROVE  OwnKeysInv' /\ InvitationInv'
    <2>1. c \in ConnIds /\ OwnIn(conns, a, c)
      BY DEF ExistingConnections, OwnIn
    <2>2. conns[a][c].did # None /\ conns[a][c].theirDid # None /\ NoReports =>
            /\ conns[a][c].state \notin Young
            /\ \E b \in Agents, d \in ConnIds :
                 AnsweredWith(conns, b, d) /\ conns[b][d].did = conns[a][c].theirDid
      BY <2>1, ReusableConnection
    <2>3. PICK k : k = n(c)
      OBVIOUS
    <2>4. /\ k.pc = "oob-createReuse" /\ k.inv = i /\ k.oob.state = "prepare-response"
          /\ k.id = c /\ k.conn = conns[a][c] /\ Continue(a, s, k)
      BY <1>3, <1>4, <1>8, <2>3
    <2>5. /\ OwnIn(conns, a, k.id) /\ a \in Invited[k.inv]
          /\ k.conn.did # None /\ k.conn.theirDid # None /\ NoReports =>
               /\ conns[a][k.id].state \notin Young /\ conns[a][k.id].did = k.conn.did
               /\ \E b \in Agents, d \in ConnIds :
                    AnsweredWith(conns, b, d) /\ conns[b][d].did = k.conn.theirDid
      BY <1>5, <2>1, <2>2, <2>4
    <2>6. UsedTask(conns, oob', a, k)
      BY <2>4, <2>5
      DEF UsedTask, StartSteps, LearnSteps, DxSteps, CxSteps, YoungSteps,
         RequesterSteps, ResponderSteps, LateSteps, ResponseSteps
    <2> QED
      BY <1>6, <2>4, <2>6 DEF KeySteps, AnswerSteps
  <1> QED
    BY <1>1, <1>7, <1>8


LEMMA CreateHandshakeReuseInvited ==
  ASSUME TypeInv, AgreementInv, OwnKeysInv, InvitationInv,
         NEW a \in Agents, NEW s \in Callers, CreateHandshakeReuse(a, s)
  PROVE  OwnKeysInv' /\ InvitationInv'
  <1> DEFINE k == tasks[a][s]
             r == [k.oob EXCEPT !.reuse = k.id]
             n == [k EXCEPT !.pc = "oob-awaitReuse", !.oob = r]
             m == [type |-> "reuse", from |-> k.conn.did.key,
                   to |-> k.conn.theirDid.key, thread |-> None,
                   inv |-> k.inv, did |-> None]
  <1>1. s \in Slots /\ k.pc = "oob-createReuse" /\ SaveOob(a, "receiver", k.inv, r)
        /\ UNCHANGED <<conns, dids>>
    BY DEF CreateHandshakeReuse, At, Slots
  <1>2. k \in Tasks /\ k \in SoundTasks(s) /\ UsedTask(conns, oob, a, k)
    BY <1>1, TaskIsUsed, TaskIsSound DEF SoundTasks
  <1>3. \/ /\ k.conn.did # None /\ k.conn.theirDid # None
           /\ Send(m) /\ Continue(a, s, n)
        \/ Finish(a, s) /\ UNCHANGED net
    BY DEF CreateHandshakeReuse
  <1>4. n.pc = "oob-awaitReuse" /\ n.inv = k.inv
    BY <1>2 DEF Tasks
  <1>5. m.type = "reuse" /\ m.from = k.conn.did.key /\ m.to = k.conn.theirDid.key /\ m.inv = k.inv
    OBVIOUS
  <1> HIDE DEF n, m, k
  <1>6. /\ k.oob \in OobRecords /\ k.inv \in Invitations /\ k.id \in ConnIds
        /\ k.conn \in SoundRecords
    BY <1>1, <1>2 DEF SoundTasks, UsesOob, UsesRecord
  <1>7. /\ a \in Invited[k.inv] /\ OwnIn(conns, a, k.id) /\ k.oob.state = "prepare-response"
        /\ k.conn.did # None /\ k.conn.theirDid # None /\ NoReports =>
             /\ conns[a][k.id].state \notin Young /\ conns[a][k.id].did = k.conn.did
             /\ \E b \in Agents, d \in ConnIds :
                  AnsweredWith(conns, b, d) /\ conns[b][d].did = k.conn.theirDid
    BY <1>1, <1>2 DEF UsedTask, StartSteps
  <1>8. /\ r \in OobRecords /\ r.state = "prepare-response" /\ r.reuse = k.id /\ r.reuse # None
    BY <1>6, <1>7, NoneAssumption DEF OobRecords
  <1> HIDE DEF r
  <1>9. SoundReceiver(conns, oob, a, k.inv, r)
    BY <1>7, <1>8 DEF SoundReceiver, UsedOob
  <1>10. ReusedIn(oob', k.inv)
    <2>1. oob'[a]["receiver"][k.inv] = r /\ r # None
      BY <1>1, <1>6, <1>8, NoneAssumption DEF SaveOob, TypeInv, OobType, OobRoles
    <2> QED
      BY <1>7, <1>8, <2>1 DEF ReusedIn
  <1>11. SentAreUsed
    <2>1. CASE UNCHANGED net
      BY <2>1, NothingSentIsUsed
    <2>2. CASE k.conn.did # None /\ k.conn.theirDid # None /\ Send(m)
      <3>1. ASSUME NoReports
            PROVE  /\ AskedWith(conns, a, k.id) /\ conns[a][k.id].did.key = m.from
                   /\ \E b \in Agents, d \in ConnIds :
                        AnsweredWith(conns, b, d) /\ conns[b][d].did.key = m.to
        BY <1>5, <1>7, <2>2, <3>1 DEF OwnIn, AskedWith, AsksWith
      <3>2. UsedMessage(conns', oob', m)
        <4>1. UNCHANGED conns
          BY <1>1
        <4>2. NoReports =>
                /\ \E b \in Agents, c \in ConnIds : AskedWith(conns', b, c) /\ conns'[b][c].did.key = m.from
                /\ \E b \in Agents, d \in ConnIds : AnsweredWith(conns', b, d) /\ conns'[b][d].did.key = m.to
          BY <1>6, <3>1, <4>1
        <4>3. UsedIn(conns', oob', m.inv)
          BY <1>5, <1>10 DEF UsedIn
        <4> QED
          BY <1>5, <4>2, <4>3 DEF UsedMessage
      <3> QED
        BY <2>2, <3>2, OneSentIsUsed
    <2> QED
      BY <1>3, <2>1, <2>2
  <1>12. UsedTask(conns, oob', a, n) /\ n.pc \notin KeySteps \cup AnswerSteps
    BY <1>4, <1>7 DEF UsedTask, StartSteps, LearnSteps, DxSteps, CxSteps, YoungSteps,
       RequesterSteps, ResponderSteps, LateSteps, ResponseSteps, KeySteps, AnswerSteps
  <1> QED
    BY <1>1, <1>3, <1>6, <1>8, <1>9, <1>11, <1>12, ReceiverTaskKeepsUsed

LEMMA ReuseTimesOutInvited ==
  ASSUME TypeInv, AgreementInv, OwnKeysInv, InvitationInv,
         NEW a \in Agents, NEW s \in Callers, ReuseTimesOut(a, s)
  PROVE  OwnKeysInv' /\ InvitationInv'
  <1> DEFINE k == tasks[a][s]
             n == [k EXCEPT !.pc = RequestPc(k.inv), !.id = None, !.conn = None]
  <1>1. s \in Slots /\ k.pc = "oob-awaitReuse" /\ Continue(a, s, n)
        /\ UNCHANGED <<oob, conns, dids, net>>
    BY DEF ReuseTimesOut, At, Slots
  <1>2. k \in Tasks /\ UsedTask(conns, oob, a, k)
    BY <1>1, TaskIsUsed, TaskIsSound DEF SoundTasks
  <1>3. n.pc = RequestPc(k.inv) /\ n.inv = k.inv
    BY <1>2 DEF Tasks
  <1> HIDE DEF n, k
  <1>4. RequestPc(k.inv) \in {"dx-createConnection", "cx-createRequestDid"}
    BY DEF RequestPc
  <1>5. a \in Invited[k.inv]
    BY <1>1, <1>2 DEF UsedTask, StartSteps
  <1>6. UsedTask(conns, oob, a, n)
    BY <1>3, <1>4, <1>5 DEF UsedTask, StartSteps, LearnSteps, DxSteps, CxSteps, YoungSteps,
       RequesterSteps, ResponderSteps, LateSteps, ResponseSteps
  <1>7. n.pc \notin KeySteps \cup AnswerSteps
    BY <1>3, <1>4 DEF KeySteps, AnswerSteps
  <1>8. OwnKeysInv'
    BY <1>1, <1>7, SameConnsAsBefore, DidsGrow, TaskKeepsKeys
  <1> QED
    BY <1>1, <1>6, <1>8, NothingSentIsUsed, TaskKeepsUsed


LEMMA AnswerKeyIsNotAsked ==
  ASSUME OwnKeysInv, NEW a \in Agents, NEW c \in ConnIds, AsksWith(conns, a, c),
         NEW b \in Agents, NEW d \in ConnIds, AnswersWith(conns, b, d)
  PROVE  conns[b][d].did.key # conns[a][c].did.key
  <1>1. NotAsked(b, conns[b][d].did.key)
    BY DEF OwnKeysInv, AnswerKeyInv
  <1>2. IsOwnKey(dids, a, conns[a][c].did.key)
    BY DEF OwnKeysInv, KeyInv
  <1> QED
    BY <1>1, <1>2 DEF NotAsked, IsOwnKey

\* The connection that is reused is one that its creator answered.
LEMMA ReusedConnection ==
  ASSUME TypeInv, OwnKeysInv, InvitationInv, NEW a \in Agents, NEW m \in net, m.type = "reuse",
         NEW c \in ContextConnections(a, m), NoReports
  PROVE  AnsweredKeyIn(conns, a, conns[a][c].theirDid.key)
  <1> DEFINE r == conns[a][c]
  <1>1. /\ c \in ConnIds /\ r # None /\ IsReady(r) /\ r.state \notin Young /\ r.did.key = m.to
    BY ContextConnection
  <1>2. r \in SoundRecords \cup {None}
    BY <1>1 DEF TypeInv, ConnsType
  <1> HIDE DEF r
  <1>3. r.did # None /\ r.role \in {"requester", "responder"}
    BY <1>1, <1>2, NoneAssumption DEF SoundRecords, IsReady, ConnectionRecords, ConnRoles
  <1>4. PICK e \in Agents, d \in ConnIds : AnsweredWith(conns, e, d) /\ conns[e][d].did.key = m.to
    BY DEF InvitationInv, UsedMessage
  <1>5. r.role # "requester"
    <2>1. SUFFICES ASSUME AsksWith(conns, a, c) PROVE FALSE
      BY <1>1, <1>3 DEF AsksWith, r
    <2>2. conns[e][d].did.key # conns[a][c].did.key
      BY <1>1, <1>4, <2>1, AnswerKeyIsNotAsked DEF AnsweredWith
    <2> QED
      BY <1>1, <1>4, <2>2 DEF r
  <1>6. AnsweredWith(conns, a, c)
    BY <1>1, <1>3, <1>5 DEF AnsweredWith, AnswersWith, r
  <1> QED
    BY <1>1, <1>6 DEF AnsweredKeyIn

LEMMA ReceiveReuseInvited ==
  ASSUME TypeInv, AgreementInv, OwnKeysInv, InvitationInv,
         NEW a \in Agents, NEW h \in Handlers, NEW m \in net, ReceiveReuse(a, h, m)
  PROVE  OwnKeysInv' /\ InvitationInv'
  <1> DEFINE n(c) == [pc |-> IF Reusable[m.inv] THEN "oob-acceptReuse" ELSE "oob-closeReused",
                      msg |-> m, inv |-> m.inv, oob |-> oob[a]["sender"][m.inv],
                      id |-> c, conn |-> conns[a][c]]
  <1>1. /\ UsedMessage(conns, oob, m) /\ SentAreUsed /\ m.type = "reuse"
        /\ m \in SoundMessages /\ UNCHANGED <<oob, conns, dids>>
    BY DeliveredIsUsed, DeliveredAgrees DEF ReceiveReuse, Delivers, TypeInv, NetType
  <1>2. PICK c \in ContextConnections(a, m) : Continue(a, h, n(c))
    BY DEF ReceiveReuse
  <1>3. m.inv \in Invitations /\ oob[a]["sender"][m.inv] # None
    BY <1>1 DEF SoundMessages, ReceiveReuse, ReuseAllowed
  <1>4. Owner[m.inv] = a
    BY <1>3 DEF InvitationInv
  <1>5. UsedIn(conns, oob, m.inv)
    BY <1>1 DEF UsedMessage
  <1>6. NoReports => AnsweredKeyIn(conns, a, conns[a][c].theirDid.key)
    BY <1>1, ReusedConnection
  <1>7. PICK k : k = n(c)
    OBVIOUS
  <1>8. /\ k.pc = IF Reusable[m.inv] THEN "oob-acceptReuse" ELSE "oob-closeReused"
        /\ k.inv = m.inv /\ k.id = c /\ k.conn = conns[a][c] /\ Continue(a, h, k)
    BY <1>2, <1>7
  <1> HIDE DEF n
  <1>9. UsedTask(conns, oob, a, k)
    BY <1>4, <1>5, <1>6, <1>8 DEF UsedTask, StartSteps, LearnSteps, DxSteps, CxSteps,
       YoungSteps, RequesterSteps, ResponderSteps, LateSteps, ResponseSteps
  <1>10. k.pc \notin KeySteps \cup AnswerSteps
    BY <1>8 DEF KeySteps, AnswerSteps
  <1>11. OwnKeysInv'
    BY <1>1, <1>8, <1>10, SameConnsAsBefore, DidsGrow, TaskKeepsKeys
  <1> QED
    BY <1>1, <1>8, <1>9, <1>11, TaskKeepsUsed

LEMMA CloseReusedInvitationInvited ==
  ASSUME TypeInv, AgreementInv, OwnKeysInv, InvitationInv,
         NEW a \in Agents, NEW h \in Handlers, CloseReusedInvitation(a, h)
  PROVE  OwnKeysInv' /\ InvitationInv'
  <1> DEFINE k == tasks[a][h]
             r == [k.oob EXCEPT !.state = "done"]
             n == [k EXCEPT !.pc = "oob-acceptReuse", !.oob = r]
  <1>1. /\ h \in Slots /\ k.pc = "oob-closeReused" /\ SaveOob(a, "sender", k.inv, r)
        /\ Continue(a, h, n) /\ UNCHANGED <<conns, dids, net>>
    BY DEF CloseReusedInvitation, At, Slots
  <1>2. k \in Tasks /\ k \in SoundTasks(h) /\ UsedTask(conns, oob, a, k)
    BY <1>1, TaskIsUsed, TaskIsSound DEF SoundTasks
  <1>3. n.pc = "oob-acceptReuse" /\ n.inv = k.inv /\ n.conn = k.conn
    BY <1>2 DEF Tasks
  <1> HIDE DEF n, k
  <1>4. k.oob \in OobRecords /\ k.inv \in Invitations
    BY <1>1, <1>2 DEF SoundTasks, UsesOob
  <1>5. r \in OobRecords /\ r.state = "done"
    BY <1>4 DEF OobRecords, OobStates
  <1> HIDE DEF r
  <1>6. /\ Owner[k.inv] = a /\ UsedIn(conns, oob, k.inv)
        /\ NoReports => AnsweredKeyIn(conns, a, k.conn.theirDid.key)
    BY <1>1, <1>2 DEF UsedTask
  <1>7. Onward(conns, oob, conns', oob') /\ oob'[a]["sender"][k.inv] = r
    BY <1>1, <1>4, <1>5, SenderIsOnward
  <1>8. ClosedIn(oob', k.inv)
    BY <1>4, <1>5, <1>6, <1>7, NoneAssumption DEF ClosedIn
  <1>9. UsedIn(conns', oob', k.inv)
    BY <1>4, <1>6, <1>7 DEF Onward
  <1>10. UsedTask(conns', oob', a, n)
    BY <1>1, <1>3, <1>6, <1>8, <1>9 DEF UsedTask, StartSteps, LearnSteps, DxSteps, CxSteps,
       YoungSteps, RequesterSteps, ResponderSteps, LateSteps, ResponseSteps
  <1>11. \A b \in Agents, t \in Slots :
           tasks'[b][t] = tasks[b][t] \/ UsedTask(conns', oob', b, tasks'[b][t])
    <2>1. \A b \in Agents, t \in Slots :
            tasks'[b][t] = tasks[b][t] \/ (b = a /\ tasks'[b][t] = n)
      BY <1>1 DEF Continue, TypeInv, TasksType
    <2> QED
      BY <1>10, <2>1
  <1>12. InvitationInv'
    BY <1>1, <1>4, <1>5, <1>6, <1>11, SenderKeepsUsed
  <1>13. n.pc \notin KeySteps \cup AnswerSteps
    BY <1>3 DEF KeySteps, AnswerSteps
  <1>14. OwnKeysInv'
    BY <1>1, <1>13, SameConnsAsBefore, DidsGrow, TaskKeepsKeys
  <1> QED
    BY <1>12, <1>14

LEMMA SendReuseAcceptedInvited ==
  ASSUME TypeInv, AgreementInv, OwnKeysInv, InvitationInv,
         NEW a \in Agents, NEW h \in Handlers, SendReuseAccepted(a, h)
  PROVE  OwnKeysInv' /\ InvitationInv'
  <1> DEFINE k == tasks[a][h]
             m == [type |-> "reuse-accepted", from |-> k.conn.did.key,
                   to |-> k.conn.theirDid.key, thread |-> None,
                   inv |-> k.inv, did |-> None]
  <1>1. /\ h \in Slots /\ k.pc = "oob-acceptReuse" /\ Send(m) /\ Finish(a, h)
        /\ UNCHANGED <<oob, conns, dids>>
    BY DEF SendReuseAccepted, At, Slots
  <1>2. UsedTask(conns, oob, a, k)
    BY <1>1, TaskIsUsed
  <1>3. m.type = "reuse-accepted" /\ m.to = k.conn.theirDid.key /\ m.inv = k.inv
    OBVIOUS
  <1> HIDE DEF k, m
  <1>4. UsedMessage(conns, oob, m)
    BY <1>1, <1>2, <1>3 DEF UsedTask, UsedMessage
  <1>5. SentAreUsed
    BY <1>1, <1>4, OneSentIsUsed
  <1>6. OwnKeysInv'
    BY <1>1, SameConnsAsBefore, DidsGrow, TaskKeepsKeys
  <1> QED
    BY <1>1, <1>5, <1>6, TaskKeepsUsed


\* The creator of the invitation holds the other end of the connection that is reused.
LEMMA AcceptedConnection ==
  ASSUME TypeInv, AgreementInv, OwnKeysInv, InvitationInv,
         NEW a \in Agents, NEW m \in net, m.type = "reuse-accepted",
         NEW c \in ContextConnections(a, m), OwnIn(conns, a, c), NoReports
  PROVE  StandsIn(conns, oob, a, c, m.inv)
  <1> DEFINE r == conns[a][c]
             b == Owner[m.inv]
  <1>1. /\ c \in ConnIds /\ r # None /\ IsReady(r) /\ r.state \notin Young /\ r.did.key = m.to
        /\ r.role = "requester"
    BY ContextConnection DEF OwnIn
  <1>2. r \in SoundRecords \cup {None}
    BY <1>1 DEF TypeInv, ConnsType
  <1>3. AsksWith(conns, a, c)
    BY <1>1, <1>2, NoneAssumption DEF AsksWith, SoundRecords, IsReady
  <1>4. m.inv \in Invitations
    BY DEF TypeInv, NetType, SoundMessages
  <1>5. b \in Agents /\ AnsweredKeyIn(conns, b, m.to) /\ (~Reusable[m.inv] => ClosedIn(oob, m.inv))
    BY <1>4, ConstantsAssumption DEF InvitationInv, UsedMessage
  <1> HIDE DEF b
  <1>6. PICK d \in ConnIds : AnsweredWith(conns, b, d) /\ conns[b][d].theirDid.key = m.to
    BY <1>5 DEF AnsweredKeyIn
  <1> DEFINE q == conns[b][d]
             th == q.thread
             did == q.theirDid
  <1>7. /\ q # None /\ q.role = "responder" /\ q.state \notin Young
        /\ q \in SoundRecords /\ SoundRecord(conns, b, d, q)
    BY <1>5, <1>6, ReadRecord DEF AnsweredWith, AnswersWith
  <1>8. did \in PeerDids /\ RequestIn(conns, th, did, b) /\ did.key = r.did.key
    <2>1. did.key = r.did.key
      BY <1>1, <1>6
    <2> HIDE DEF q, r
    <2> QED
      BY <1>7, <2>1 DEF SoundRecords, SoundRecord
  <1> HIDE DEF did, th
  <1>9. /\ a = th.agent /\ c = th.conn
        /\ conns[th.agent][th.conn].thread = th
    <2>1. \A e \in Agents, f \in ConnIds :
            AsksWith(conns, e, f) /\ conns[e][f].did.key = did.key => e = th.agent /\ f = th.conn
      BY <1>8, RequestKeyIsItsOwn
    <2>2. conns[th.agent][th.conn].thread = th
      BY <1>8 DEF RequestIn
    <2> QED
      BY <1>1, <1>3, <1>8, <2>1, <2>2
  <1>10. q.thread = r.thread
    BY <1>9 DEF th
  <1> QED
    BY <1>1, <1>5, <1>7, <1>10 DEF StandsIn, OwnIn, b

LEMMA ReceiveReuseAcceptedInvited ==
  ASSUME TypeInv, AgreementInv, OwnKeysInv, InvitationInv,
         NEW a \in Agents, NEW h \in Handlers, NEW m \in net, ReceiveReuseAccepted(a, h, m)
  PROVE  OwnKeysInv' /\ InvitationInv'
  <1> DEFINE r == oob[a]["receiver"][m.inv]
             n == [Idle EXCEPT !.pc = "oob-closeReceived", !.msg = m, !.inv = m.inv, !.oob = r]
  <1>1. /\ SentAreUsed /\ m.type = "reuse-accepted"
        /\ ReuseAnswersRequest(a, m) /\ UNCHANGED <<oob, conns, dids>>
    BY DeliveredIsUsed DEF ReceiveReuseAccepted, Delivers
  <1>2. \A b \in Agents, t \in Slots :
          tasks'[b][t] = tasks[b][t] \/ tasks'[b][t] = Idle \/ (b = a /\ tasks'[b][t] = n)
    BY DEF ReceiveReuseAccepted, TypeInv, TasksType
  <1>3. n.pc = "oob-closeReceived" /\ n.inv = m.inv /\ n.oob = r
    BY DEF Idle
  <1> HIDE DEF n
  <1>4. PICK c \in ContextConnections(a, m) : r # None /\ r.reuse = c
    BY <1>1 DEF ReuseAnswersRequest
  <1>5. m.inv \in Invitations
    BY <1>1 DEF TypeInv, NetType, SoundMessages
  <1>6. a \in Invited[m.inv] /\ UsedOob(conns, oob, a, m.inv, r)
    BY <1>4, <1>5 DEF InvitationInv
  <1> HIDE DEF r
  <1>7. c \in ConnIds
    BY ContextConnection
  <1>8. r.reuse # None /\ OwnIn(conns, a, c)
    BY <1>4, <1>6, <1>7, NoneAssumption DEF UsedOob
  <1>9. NoReports => StandsIn(conns, oob, a, c, m.inv)
    BY <1>1, <1>8, AcceptedConnection
  <1>10. UsedTask(conns, oob, a, n)
    BY <1>3, <1>4, <1>6, <1>8, <1>9 DEF UsedTask, StartSteps, LearnSteps, DxSteps, CxSteps,
       YoungSteps, RequesterSteps, ResponderSteps, LateSteps, ResponseSteps
  <1>11. /\ n.pc \notin KeySteps \cup AnswerSteps
         /\ Idle.pc \notin KeySteps \cup AnswerSteps
    BY <1>3 DEF KeySteps, AnswerSteps, Idle
  <1>12. OwnKeysInv'
    BY <1>1, <1>2, <1>11, SameConnsAsBefore, DidsGrow, OwnKeysKept
  <1>13. \A b \in Agents, t \in Slots :
           tasks'[b][t] = tasks[b][t] \/ UsedTask(conns, oob, b, tasks'[b][t])
    BY <1>2, <1>10, IdleIsUsed
  <1> QED
    BY <1>1, <1>12, <1>13, QuietKeepsUsed

LEMMA CloseReceivedInvitationInvited ==
  ASSUME TypeInv, AgreementInv, OwnKeysInv, InvitationInv,
         NEW a \in Agents, NEW h \in Handlers, CloseReceivedInvitation(a, h)
  PROVE  OwnKeysInv' /\ InvitationInv'
  <1> DEFINE k == tasks[a][h]
             r == [k.oob EXCEPT !.state = "done"]
  <1>1. /\ h \in Slots /\ k.pc = "oob-closeReceived" /\ SaveOob(a, "receiver", k.inv, r)
        /\ Finish(a, h) /\ UNCHANGED <<conns, dids, net>>
    BY DEF CloseReceivedInvitation, At, Slots
  <1>2. k \in SoundTasks(h) /\ UsedTask(conns, oob, a, k)
    BY <1>1, TaskIsUsed, TaskIsSound
  <1> HIDE DEF k
  <1>3. k.oob \in OobRecords /\ k.inv \in Invitations
    BY <1>1, <1>2 DEF SoundTasks, UsesOob
  <1>4. /\ a \in Invited[k.inv] /\ k.oob.reuse # None /\ OwnIn(conns, a, k.oob.reuse)
        /\ NoReports => StandsIn(conns, oob, a, k.oob.reuse, k.inv)
    BY <1>1, <1>2 DEF UsedTask
  <1>5. r \in OobRecords /\ r.state = "done" /\ r.reuse = k.oob.reuse
    BY <1>3 DEF OobRecords, OobStates
  <1> HIDE DEF r
  <1>6. SoundReceiver(conns, oob, a, k.inv, r)
    BY <1>4, <1>5 DEF SoundReceiver, UsedOob
  <1>7. SentAreUsed
    BY <1>1, NothingSentIsUsed
  <1> QED
    BY <1>1, <1>3, <1>4, <1>5, <1>6, <1>7, ReceiverTaskKeepsUsed

LEMMA OutOfBandInvited ==
  ASSUME TypeInv, AgreementInv, OwnKeysInv, InvitationInv, OutOfBandNext
  PROVE  OwnKeysInv' /\ InvitationInv'
  BY CreateInvitationInvited, ReceiveInvitationInvited, AcceptInvitationInvited,
     CreateHandshakeReuseInvited, ReuseTimesOutInvited, ReceiveReuseInvited,
     CloseReusedInvitationInvited, SendReuseAcceptedInvited, ReceiveReuseAcceptedInvited,
     CloseReceivedInvitationInvited
  DEF OutOfBandNext


-------------------------------------------------------------------------------
(* Calls of ConnectionsApi, messages that come to nothing, faults *)

LEMMA CallInvited ==
  ASSUME TypeInv, AgreementInv, OwnKeysInv, InvitationInv,
         NEW a \in Agents, NEW s \in Callers, NEW c \in ConnIds,
         NEW pc \in {"dx-createResponseDid", "cx-createResponseDid", "dx-createComplete",
                     "cx-sendPing"},
         StartCall(a, s, c, pc),
         pc \in {"dx-createResponseDid", "dx-createComplete"}
           => conns[a][c].protocol = "did-exchange",
         pc = "cx-createResponseDid" => conns[a][c].protocol = "connections",
         pc = "dx-createComplete" => conns[a][c].role = "requester"
  PROVE  OwnKeysInv' /\ InvitationInv'
  <1> DEFINE r == conns[a][c]
             n == [Idle EXCEPT !.pc = pc, !.inv = r.inv, !.id = c, !.conn = r]
  <1>1. /\ r # None /\ a \notin AutoAccept /\ Continue(a, s, n)
        /\ UNCHANGED <<oob, conns, dids, net>>
    BY DEF StartCall
  <1>2. UsedRecord(conns, oob, a, r)
    BY <1>1 DEF InvitationInv
  <1>3. PICK k : k = n
    OBVIOUS
  <1>4. /\ k.pc = pc /\ k.inv = r.inv /\ k.id = c /\ k.conn = r /\ k.oob = None
        /\ Continue(a, s, k)
    BY <1>1, <1>3 DEF Idle
  <1>5. conns[a][k.id].protocol = k.conn.protocol
    BY <1>4
  <1> HIDE DEF n, r
  <1>6. UsedRecord(conns, oob, a, k.conn)
    BY <1>2, <1>4
  <1>7. /\ k.pc \in {"dx-createResponseDid", "dx-createComplete"} => k.conn.protocol = "did-exchange"
        /\ k.pc = "cx-createResponseDid" => k.conn.protocol = "connections"
        /\ k.pc = "dx-createComplete" => k.conn.role = "requester" /\ k.conn.inv = k.inv
    BY <1>4 DEF r
  <1>8. UsedTask(conns, oob, a, k)
    BY <1>1, <1>4, <1>5, <1>6, <1>7 DEF UsedTask, StartSteps, LearnSteps, DxSteps, CxSteps
  <1>9. k.pc \notin KeySteps \cup AnswerSteps
    BY <1>4 DEF KeySteps, AnswerSteps
  <1>10. OwnKeysInv'
    BY <1>1, <1>4, <1>9, SameConnsAsBefore, DidsGrow, TaskKeepsKeys
  <1> QED
    BY <1>1, <1>4, <1>8, <1>10, NothingSentIsUsed, TaskKeepsUsed

LEMMA ConnectionsApiInvited ==
  ASSUME TypeInv, AgreementInv, OwnKeysInv, InvitationInv, ConnectionsApiNext
  PROVE  OwnKeysInv' /\ InvitationInv'
  <1>1. PICK a \in Agents, s \in Callers, c \in ConnIds :
          AcceptRequest(a, s, c) \/ AcceptResponse(a, s, c) \/ SendPing(a, s, c)
    BY DEF ConnectionsApiNext
  <1>2. conns[a][c] # None
    BY <1>1 DEF AcceptRequest, AcceptResponse, SendPing
  <1>3. conns[a][c].protocol \in {"did-exchange", "connections"}
    BY <1>2, ReadRecord DEF ConnectionRecords, ConnectionProtocols
  <1>4. CASE AcceptRequest(a, s, c)
    <2>1. StartCall(a, s, c, IF conns[a][c].protocol = "did-exchange"
                             THEN "dx-createResponseDid" ELSE "cx-createResponseDid")
      BY <1>4 DEF AcceptRequest
    <2>2. CASE conns[a][c].protocol = "did-exchange"
      <3>1. StartCall(a, s, c, "dx-createResponseDid")
        BY <2>1, <2>2
      <3> QED
        BY <2>2, <3>1, CallInvited
    <2>3. CASE conns[a][c].protocol = "connections"
      <3>1. StartCall(a, s, c, "cx-createResponseDid")
        BY <2>1, <2>3
      <3> QED
        BY <2>3, <3>1, CallInvited
    <2> QED
      BY <1>3, <2>2, <2>3
  <1>5. CASE AcceptResponse(a, s, c)
    <2>1. /\ conns[a][c].role = "requester"
          /\ StartCall(a, s, c, IF conns[a][c].protocol = "did-exchange"
                                THEN "dx-createComplete" ELSE "cx-sendPing")
      BY <1>5 DEF AcceptResponse
    <2>2. CASE conns[a][c].protocol = "did-exchange"
      <3>1. StartCall(a, s, c, "dx-createComplete")
        BY <2>1, <2>2
      <3> QED
        BY <2>1, <2>2, <3>1, CallInvited
    <2>3. CASE conns[a][c].protocol # "did-exchange"
      <3>1. StartCall(a, s, c, "cx-sendPing")
        BY <2>1, <2>3
      <3> QED
        BY <3>1, CallInvited
    <2> QED
      BY <2>2, <2>3
  <1>6. CASE SendPing(a, s, c)
    <2>1. StartCall(a, s, c, "cx-sendPing")
      BY <1>6 DEF SendPing
    <2> QED
      BY <2>1, CallInvited
  <1> QED
    BY <1>1, <1>4, <1>5, <1>6

\* Tasks end, messages are gone, and nothing is written.
LEMMA NothingWrittenInvited ==
  ASSUME TypeInv, AgreementInv, OwnKeysInv, InvitationInv, UNCHANGED <<oob, conns, dids>>,
         net' \subseteq net,
         \A a \in Agents, t \in Slots : tasks'[a][t] = tasks[a][t] \/ tasks'[a][t] = Idle
  PROVE  OwnKeysInv' /\ InvitationInv'
  <1>1. Idle.pc \notin KeySteps \cup AnswerSteps
    BY DEF Idle, KeySteps, AnswerSteps
  <1>2. \A a \in Agents, t \in Slots :
          tasks'[a][t] = tasks[a][t] \/ tasks'[a][t].pc \notin KeySteps \cup AnswerSteps
    BY <1>1
  <1>3. OwnKeysInv'
    BY <1>2, SameConnsAsBefore, DidsGrow, OwnKeysKept
  <1>4. \A a \in Agents, t \in Slots :
          tasks'[a][t] = tasks[a][t] \/ UsedTask(conns, oob, a, tasks'[a][t])
    BY IdleIsUsed
  <1> QED
    BY <1>3, <1>4, NothingSentIsUsed, QuietKeepsUsed

LEMMA FaultsInvited ==
  ASSUME TypeInv, AgreementInv, OwnKeysInv, InvitationInv, FaultNext
  PROVE  OwnKeysInv' /\ InvitationInv'
  <1>1. ASSUME NEW m \in net, LoseMessage(m)
        PROVE  OwnKeysInv' /\ InvitationInv'
    BY <1>1, NothingWrittenInvited DEF LoseMessage
  <1>2. ASSUME NEW a \in Agents, Crash(a)
        PROVE  OwnKeysInv' /\ InvitationInv'
    <2>1. \A b \in Agents, t \in Slots : tasks'[b][t] = tasks[b][t] \/ tasks'[b][t] = Idle
      BY <1>2 DEF Crash, TypeInv, TasksType
    <2> QED
      BY <1>2, <2>1, NothingWrittenInvited DEF Crash
  <1> QED
    BY <1>1, <1>2 DEF FaultNext

-------------------------------------------------------------------------------
(* The theorems *)

LEMMA InvitationInvInitially ==
  ASSUME Init
  PROVE  OwnKeysInv /\ InvitationInv
  <1>1. \A a \in Agents, t \in Slots : tasks[a][t] = Idle
    BY DEF Init
  <1>2. Idle.pc = "idle"
    BY DEF Idle
  <1>3. \A a \in Agents, c \in ConnIds : conns[a][c] = None
    BY DEF Init
  <1>4. OwnKeysInv
    BY <1>1, <1>2, <1>3
    DEF OwnKeysInv, KeyInv, AnswerKeyInv, AsksWith, AnswersWith, UnsavedSteps, AnswerSteps
  <1>5. \A a \in Agents, t \in Slots : UsedTask(conns, oob, a, tasks[a][t])
    BY <1>1, IdleIsUsed
  <1>6. /\ net = {}
        /\ \A a \in Agents, i \in Invitations :
             oob[a]["sender"][i] = None /\ oob[a]["receiver"][i] = None
    BY DEF Init, OobRoles
  <1> QED
    BY <1>3, <1>4, <1>5, <1>6 DEF InvitationInv

LEMMA InvitationInvKept ==
  ASSUME TypeInv, AgreementInv, OwnKeysInv, InvitationInv, [Next]_vars
  PROVE  OwnKeysInv' /\ InvitationInv'
  <1>1. CASE UNCHANGED vars
    BY <1>1, NothingWrittenInvited DEF vars
  <1>2. ASSUME NEW a \in Agents, NEW h \in Handlers, NEW m \in net, IgnoreMessage(a, h, m)
        PROVE  OwnKeysInv' /\ InvitationInv'
    BY <1>2, NothingWrittenInvited DEF IgnoreMessage
  <1> QED
    BY <1>1, <1>2, OutOfBandInvited, DidExchangeInvited, ConnectionProtocolInvited,
       ConnectionsApiInvited, FaultsInvited DEF Next

LEMMA InvitationInvHolds ==
  ASSUME CallsDoNotOverlap
  PROVE  Spec => [](OwnKeysInv /\ InvitationInv)
  <1>1. Init => OwnKeysInv /\ InvitationInv
    BY InvitationInvInitially
  <1>2. /\ TypeInv /\ AgreementInv /\ OwnKeysInv /\ InvitationInv /\ [Next]_vars
        => OwnKeysInv' /\ InvitationInv'
    BY InvitationInvKept
  <1> QED
    BY <1>1, <1>2, TypesHold, AgreementInvHolds, PTL DEF Spec


\* An invitation is closed at its creator only because it was used: what closes it is a
\* dx-complete of a request that its creator answered, or a handshake-reuse of an invitee
\* that has remembered the connection it reuses.
THEOREM ClosedInvitationsWereUsed ==
  ASSUME CallsDoNotOverlap
  PROVE  Spec => []ClosedInvitationWasUsed
  <1>1. TypeInv /\ AgreementInv /\ InvitationInv => ClosedInvitationWasUsed
    <2> SUFFICES ASSUME TypeInv, AgreementInv, InvitationInv,
                        NEW a \in Agents, NEW i \in Invitations,
                        oob[a]["sender"][i] # None, oob[a]["sender"][i].state = "done"
                 PROVE  \/ \E c \in ConnIds :
                             /\ Connection(a, c, "responder") /\ conns[a][c].inv = i
                             /\ conns[a][c].state \in {"response-sent", "completed", "abandoned"}
                        \/ ReusedIn(oob, i)
      BY DEF ClosedInvitationWasUsed, ReusedIn
    <2>1. Owner[i] = a /\ UsedIn(conns, oob, i)
      BY DEF InvitationInv
    <2>2. ASSUME AnsweredIn(conns, i)
          PROVE  \E c \in ConnIds :
                   /\ Connection(a, c, "responder") /\ conns[a][c].inv = i
                   /\ conns[a][c].state \in {"response-sent", "completed", "abandoned"}
      <3>1. PICK c \in ConnIds : /\ conns[a][c] # None /\ conns[a][c].role = "responder"
                                 /\ conns[a][c].inv = i /\ conns[a][c].state \notin Young
        BY <2>1, <2>2 DEF AnsweredIn
      <3>2. conns[a][c].state \in {"response-sent", "completed", "abandoned"}
        BY <3>1, ReadRecord DEF SoundRecord, ResponderStates, Young
      <3> QED
        BY <3>1, <3>2 DEF Connection
    <2> QED
      BY <2>1, <2>2 DEF UsedIn
  <1> QED
    BY <1>1, TypesHold, AgreementInvHolds, InvitationInvHolds, PTL

\* A DID exchange that is complete at the responder has closed its single-use invitation.
\* The invitees accept automatically: one that accepts by hand can send a trust ping
\* before its dx-complete, and the ping completes the responder's connection alone.
THEOREM UsedInvitationsAreClosed ==
  ASSUME CallsDoNotOverlap, InviteesAccept
  PROVE  Spec => []UsedInvitationIsClosed
  <1>1. TypeInv /\ AgreementInv /\ InvitationInv => UsedInvitationIsClosed
    <2> SUFFICES ASSUME TypeInv, AgreementInv, InvitationInv,
                        NEW a \in Agents, NEW c \in ConnIds,
                        Connection(a, c, "responder"), conns[a][c].state = "completed",
                        conns[a][c].protocol = "did-exchange", ~Reusable[conns[a][c].inv]
                 PROVE  oob[a]["sender"][conns[a][c].inv].state = "done"
      BY DEF UsedInvitationIsClosed
    <2> DEFINE r == conns[a][c]
    <2>1. /\ SoundRecord(conns, a, c, r) /\ UsedRecord(conns, oob, a, r)
      BY DEF Connection, AgreementInv, InvitationInv
    <2>2. RequestIn(conns, r.thread, r.theirDid, a) /\ InvOf(conns, r.thread) = r.inv
      BY <2>1 DEF Connection, SoundRecord, UsedRecord
    <2>3. Owner[r.inv] = a
      BY <2>2 DEF RequestIn, InvOf
    <2>4. ClosedIn(oob, r.inv)
      BY <2>1 DEF Connection, UsedRecord
    <2> QED
      BY <2>3, <2>4 DEF ClosedIn
  <1> QED
    BY <1>1, TypesHold, AgreementInvHolds, InvitationInvHolds, PTL

\* An invitee that closed an invitation without a connection of its own for it reuses one
\* whose other end its creator holds, ready for use: handshake-reuse-accepted is sent for a
\* connection that is answered, and the keys it is packed with belong to one request.  A
\* problem report of a peer can abandon either end at any time.
THEOREM ReuseIsAgreed ==
  ASSUME CallsDoNotOverlap, NoReports
  PROVE  Spec => []ReuseAgreement
  <1>1. TypeInv /\ AgreementInv /\ InvitationInv => ReuseAgreement
    <2> SUFFICES ASSUME TypeInv, AgreementInv, InvitationInv,
                        NEW b \in Agents, NEW i \in Invitations,
                        oob[b]["receiver"][i] # None, oob[b]["receiver"][i].state = "done",
                        \A c \in ConnIds : Connection(b, c, "requester") => conns[b][c].inv # i
                 PROVE  LET c == oob[b]["receiver"][i].reuse IN
                        /\ c # None /\ Connection(b, c, "requester")
                        /\ \E d \in ConnIds :
                             /\ Connection(Owner[i], d, "responder")
                             /\ conns[Owner[i]][d].thread = conns[b][c].thread
                             /\ IsReady(conns[Owner[i]][d])
                        /\ ~Reusable[i] => oob[Owner[i]]["sender"][i].state = "done"
      BY DEF ReuseAgreement
    <2> DEFINE c == oob[b]["receiver"][i].reuse
               a == Owner[i]
    <2>1. UsedOob(conns, oob, b, i, oob[b]["receiver"][i]) /\ a \in Agents
      BY ConstantsAssumption DEF InvitationInv
    <2>2. c # None /\ StandsIn(conns, oob, b, c, i)
      BY <2>1 DEF UsedOob, OwnIn, Connection
    <2>3. PICK d \in ConnIds :
            /\ conns[a][d] # None /\ conns[a][d].role = "responder" /\ conns[a][d].state \notin Young
            /\ conns[a][d].thread = conns[b][c].thread
      BY <2>2 DEF StandsIn
    <2>4. conns[a][d].state # "abandoned"
      BY <2>1, <2>3 DEF InvitationInv, UsedRecord
    <2>5. IsReady(conns[a][d])
      BY <2>1, <2>3, <2>4, ReadRecord DEF SoundRecord, ResponderStates, Young, IsReady
    <2> QED
      BY <2>2, <2>3, <2>5 DEF StandsIn, OwnIn, ClosedIn, Connection
  <1> QED
    BY <1>1, TypesHold, AgreementInvHolds, InvitationInvHolds, PTL

================================================================================
