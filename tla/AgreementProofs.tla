---------------------------- MODULE AgreementProofs -----------------------------
(***************************************************************************)
(* The proof that the two ends of a connection agree, and that a request   *)
(* leads to one connection.                                                *)
(*                                                                         *)
(* Neither is inductive.  An end trusts the message it receives, and a     *)
(* task writes a whole record from a copy it took some writes ago.  So the *)
(* invariant says what a message proves about the records of its sender,   *)
(* and how a copy may differ from the record that it is written over: a    *)
(* record is young until its request or response is sent, while one task   *)
(* alone writes it, and what the ends agree on never changes afterwards.   *)
(***************************************************************************)
EXTENDS HandshakeProofs

\* Calls of the API do not overlap at an agent that accepts by hand: two calls of
\* acceptRequest for one connection would answer with two DIDs and store one of them.
CallsDoNotOverlap == AutoAccept = Agents \/ \A s, u \in Callers : s = u

\* Messages come through the concatMap of Agent.ts, one after another.
OneHandler == \A g, h \in Handlers : g = h

-------------------------------------------------------------------------------
(* What never changes *)

Young == {"invitation-received", "request-received"}

\* What a record that is written over r keeps of it.
Extends(r, s) ==
  /\ s.role = r.role /\ s.inv = r.inv
  /\ r.state \notin Young => s.state \notin Young /\ s.thread = r.thread /\ s.did = r.did
  /\ r.role = "responder" => s.thread = r.thread /\ s.theirDid = r.theirDid

\* The connection records cs have become ds.
LaterIn(cs, ds) ==
  \A a \in Agents, c \in ConnIds :
    cs[a][c] # None => ds[a][c] # None /\ Extends(cs[a][c], ds[a][c])

\* Request th was sent to agent b, with the DID that the requester uses.
RequestIn(cs, th, did, b) ==
  LET r == cs[th.agent][th.conn] IN
  /\ th \in Threads /\ r # None
  /\ r.role = "requester" /\ r.state \notin Young
  /\ r.thread = th /\ r.did = did /\ Owner[r.inv] = b

\* Connection d of agent b has answered request th with the DID did.
AnswerIn(cs, b, d, th, did) ==
  LET r == cs[b][d] IN
  /\ r # None
  /\ r.role = "responder" /\ r.state \notin Young
  /\ r.thread = th /\ r.did = did

\* The inviter's end of the requester's connection q.
MatchedIn(cs, q) ==
  \E d \in ConnIds : /\ AnswerIn(cs, Owner[q.inv], d, q.thread, q.theirDid)
                     /\ cs[Owner[q.inv]][d].theirDid = q.did

\* Agent b has no connection for request th.
UnansweredIn(cs, b, th) ==
  \A d \in ConnIds : cs[b][d] # None /\ cs[b][d].role = "responder" => cs[b][d].thread # th

-------------------------------------------------------------------------------
(* The invariant *)

RequesterStates ==
  {"invitation-received", "request-sent", "response-received", "completed", "abandoned"}

ResponderStates == {"request-received", "response-sent", "completed", "abandoned"}

\* What holds of a record of agent a with id c, stored or about to be.
SoundRecord(cs, a, c, r) ==
  /\ r.role = "requester" =>
       /\ r.state \in RequesterStates
       /\ r.state \in Young => r.theirDid = None
       /\ r.state \notin Young => r.thread = [agent |-> a, conn |-> c]
       /\ r.state \in {"response-received", "completed"} => MatchedIn(cs, r)
  /\ r.role = "responder" =>
       /\ r.state \in ResponderStates
       /\ r.state \in Young => r.did = None
       /\ RequestIn(cs, r.thread, r.theirDid, a)

Requests  == {"dx-request", "cx-request"}
Responses == {"dx-response", "cx-response"}

\* What a message proves.
SoundMessage(cs, m) ==
  /\ m.type \in Requests =>
       RequestIn(cs, m.thread, m.did, m.to.agent) /\ m.from = m.did.key
  /\ m.type \in Responses =>
       \E b \in Agents, d \in ConnIds : AnswerIn(cs, b, d, m.thread, m.did)

RequestSteps  == {"dx-saveRequesterDid", "dx-createResponder",
                  "cx-saveRequesterDid", "cx-createResponder"}
ResponseSteps == {"dx-saveResponderDid", "dx-responseReceived",
                  "cx-saveResponderDid", "cx-responseReceived"}

\* The steps of the task that writes a young record ...
RequesterSteps == {"dx-createRequestDid", "dx-sendRequest", "cx-sendRequest"}
ResponderSteps == {"dx-createResponseDid", "dx-sendResponse",
                   "cx-createResponseDid", "cx-sendResponse"}
YoungSteps     == RequesterSteps \cup ResponderSteps

\* ... and those of tasks that write one of which a message was sent.
LateSteps == ResponseSteps \cup
  {"dx-createComplete", "dx-sendComplete", "dx-closeInvitation", "dx-processComplete",
   "cx-sendPing", "cx-complete", "cx-abandon"}

\* A young record but for the DID, which the task has made since.
YoungCopy(r, q) ==
  /\ r # None /\ r.state \in Young /\ q.state = r.state
  /\ q.role = r.role /\ q.inv = r.inv /\ q.thread = r.thread /\ q.theirDid = r.theirDid

SoundTask(cs, a, t, k) ==
  /\ k.pc \in RequestSteps =>
       /\ t \in Handlers
       /\ k.msg.type \in Requests /\ SoundMessage(cs, k.msg) /\ k.msg.to.agent = a
       /\ OneHandler => UnansweredIn(cs, a, k.msg.thread)
  /\ k.pc \in ResponseSteps =>
       /\ k.msg.type \in Responses /\ SoundMessage(cs, k.msg)
       /\ k.conn.role = "requester" /\ k.msg.thread = k.conn.thread
  /\ k.pc = "cx-createConnection" =>
       k.conn.role = "requester" /\ k.conn.state = "invitation-received" /\ k.conn.theirDid = None
  /\ k.pc \in RequesterSteps => k.conn.role = "requester"
  /\ k.pc \in RequesterSteps \cup {"cx-createConnection"} => k.conn.inv = k.inv
  /\ k.pc \in ResponderSteps =>
       k.conn.role = "responder" /\ (t \in Handlers => a \in AutoAccept)
  /\ k.pc \in YoungSteps => YoungCopy(cs[a][k.id], k.conn)
  /\ k.pc = "cx-sendRequest" => k.conn.thread = [agent |-> a, conn |-> k.id]
  /\ k.pc \in LateSteps =>
       /\ cs[a][k.id] # None /\ cs[a][k.id].state \notin Young
       /\ Extends(cs[a][k.id], k.conn) /\ SoundRecord(cs, a, k.id, k.conn)

Writes(a, t, c) == tasks[a][t].pc \in YoungSteps /\ tasks[a][t].id = c

AgreementInv ==
  /\ \A a \in Agents, c \in ConnIds :
       conns[a][c] # None => SoundRecord(conns, a, c, conns[a][c])
  /\ \A m \in net : SoundMessage(conns, m)
  /\ \A a \in Agents, t \in Slots : SoundTask(conns, a, t, tasks[a][t])
  /\ \A a \in Agents, c \in ConnIds, t, u \in Slots : Writes(a, t, c) /\ Writes(a, u, c) => t = u
  /\ OneHandler => OneConnectionPerRequest

-------------------------------------------------------------------------------
(* What is proved by a record stays proved *)

LEMMA RequestLater ==
  ASSUME NEW cs, NEW ds, LaterIn(cs, ds), NEW th, NEW did, NEW b, RequestIn(cs, th, did, b)
  PROVE  RequestIn(ds, th, did, b)
  <1>1. th.agent \in Agents /\ th.conn \in ConnIds
    BY DEF RequestIn, Threads
  <1> QED
    BY <1>1 DEF RequestIn, LaterIn, Extends

LEMMA AnswerLater ==
  ASSUME NEW cs, NEW ds, LaterIn(cs, ds), NEW b \in Agents, NEW d \in ConnIds,
         NEW th, NEW did, AnswerIn(cs, b, d, th, did)
  PROVE  AnswerIn(ds, b, d, th, did) /\ ds[b][d].theirDid = cs[b][d].theirDid
  BY DEF AnswerIn, LaterIn, Extends

LEMMA MatchedLater ==
  ASSUME NEW cs, NEW ds, LaterIn(cs, ds), NEW q \in ConnectionRecords, MatchedIn(cs, q)
  PROVE  MatchedIn(ds, q)
  <1>1. Owner[q.inv] \in Agents
    BY ConstantsAssumption DEF ConnectionRecords
  <1> QED
    BY <1>1, AnswerLater DEF MatchedIn

LEMMA MessageLater ==
  ASSUME NEW cs, NEW ds, LaterIn(cs, ds), NEW m, SoundMessage(cs, m)
  PROVE  SoundMessage(ds, m)
  BY RequestLater, AnswerLater DEF SoundMessage

LEMMA RecordLater ==
  ASSUME NEW cs, NEW ds, LaterIn(cs, ds), NEW a, NEW c, NEW r \in ConnectionRecords,
         SoundRecord(cs, a, c, r)
  PROVE  SoundRecord(ds, a, c, r)
  BY RequestLater, MatchedLater DEF SoundRecord

LEMMA ExtendsBoth ==
  ASSUME NEW r, NEW q, NEW s, r.state \notin Young, Extends(r, q), Extends(r, s)
  PROVE  Extends(q, s) /\ q.state \notin Young
  BY DEF Extends

\* A task's copy stays sound when the record it was taken from is written over, unless
\* the task is the one that writes a young record.
LEMMA TaskLater ==
  ASSUME NEW cs, NEW ds, LaterIn(cs, ds), NEW a \in Agents, NEW t,
         NEW k \in SoundTasks(t), SoundTask(cs, a, t, k),
         k.pc \in YoungSteps => ds[a][k.id] = cs[a][k.id],
         k.pc \in LateSteps => Extends(ds[a][k.id], k.conn),
         k.pc \in RequestSteps /\ OneHandler => UnansweredIn(ds, a, k.msg.thread)
  PROVE  SoundTask(ds, a, t, k)
  <1>1. k.pc \in LateSteps => k.id \in ConnIds /\ k.conn \in ConnectionRecords
    BY DEF SoundTasks, SoundRecords, LateSteps, ResponseSteps, UsesRecord
  <1>2. k.pc \in LateSteps =>
          /\ ds[a][k.id] # None /\ ds[a][k.id].state \notin Young
          /\ SoundRecord(ds, a, k.id, k.conn)
    BY <1>1, RecordLater DEF SoundTask, LaterIn, Extends
  <1>3. SoundMessage(cs, k.msg) => SoundMessage(ds, k.msg)
    BY MessageLater
  <1> QED
    BY <1>2, <1>3 DEF SoundTask

-------------------------------------------------------------------------------
(* The steps of a task that wait for nothing a record proves *)

QuietSteps ==
  {"idle", "oob-createReuse", "oob-awaitReuse", "oob-closeReused", "oob-acceptReuse",
   "oob-closeReceived", "dx-createConnection", "cx-createRequestDid"}

LEMMA QuietIsSound ==
  ASSUME NEW cs, NEW a, NEW t, NEW k, k.pc \in QuietSteps
  PROVE  SoundTask(cs, a, t, k) /\ k.pc \notin YoungSteps
  BY DEF QuietSteps, SoundTask, RequestSteps, ResponseSteps, RequesterSteps,
         ResponderSteps, YoungSteps, LateSteps

LEMMA IdleIsQuiet == Idle.pc \in QuietSteps
  BY DEF Idle, QuietSteps

-------------------------------------------------------------------------------
(* The shapes of a step *)

\* The messages in flight after a step are ones there were and sound ones.
SentAreSound == \A m \in net' : m \in net \/ SoundMessage(conns', m)

LEMMA QuietKeeps ==
  ASSUME AgreementInv, UNCHANGED conns, SentAreSound,
         \A a \in Agents, t \in Slots :
           tasks'[a][t] = tasks[a][t] \/ tasks'[a][t].pc \in QuietSteps
  PROVE  AgreementInv'
  <1>1. \A a \in Agents, t \in Slots :
          /\ SoundTask(conns, a, t, tasks'[a][t])
          /\ tasks'[a][t].pc \in YoungSteps => tasks'[a][t] = tasks[a][t]
    BY QuietIsSound DEF AgreementInv
  <1>2. \A a \in Agents, c \in ConnIds, t \in Slots : Writes(a, t, c)' => Writes(a, t, c)
    BY <1>1 DEF Writes
  <1> QED
    BY <1>1, <1>2 DEF AgreementInv, SentAreSound, OneConnectionPerRequest, Connection

LEMMA TaskKeeps ==
  ASSUME TypeInv, AgreementInv, UNCHANGED conns, SentAreSound,
         NEW a \in Agents, NEW t \in Slots, NEW k, Continue(a, t, k),
         SoundTask(conns, a, t, k),
         k.pc \in YoungSteps => \A u \in Slots : Writes(a, u, k.id) => u = t
  PROVE  AgreementInv'
  <1>1. /\ tasks'[a][t] = k
        /\ \A b \in Agents, s \in Slots : b # a \/ s # t => tasks'[b][s] = tasks[b][s]
    BY DEF Continue, TypeInv, TasksType
  <1>2. \A b \in Agents, s \in Slots : SoundTask(conns, b, s, tasks'[b][s])
    BY <1>1 DEF AgreementInv
  <1>3. ASSUME NEW b \in Agents, NEW c \in ConnIds, NEW s \in Slots, NEW u \in Slots,
               Writes(b, s, c)', Writes(b, u, c)'
        PROVE  s = u
    BY <1>1, <1>3 DEF Writes, AgreementInv
  <1> QED
    BY <1>2, <1>3 DEF AgreementInv, SentAreSound, OneConnectionPerRequest, Connection

LEMMA FinishKeeps ==
  ASSUME TypeInv, AgreementInv, UNCHANGED conns, SentAreSound,
         NEW a \in Agents, NEW t \in Slots, Finish(a, t)
  PROVE  AgreementInv'
  BY TaskKeeps, IdleIsQuiet, QuietIsSound DEF Finish

\* Task t of agent a writes record r over the record with id c, or creates it.
LEMMA WriteIsLater ==
  ASSUME TypeInv, NEW a \in Agents, NEW c \in ConnIds, NEW r, SaveConnection(a, c, r),
         r # None, conns[a][c] # None => Extends(conns[a][c], r)
  PROVE  /\ LaterIn(conns, conns')
         /\ conns'[a][c] = r
         /\ \A b \in Agents, d \in ConnIds : b # a \/ d # c => conns'[b][d] = conns[b][d]
  BY DEF SaveConnection, TypeInv, ConnsType, LaterIn, Extends

LEMMA WriteKeeps ==
  ASSUME TypeInv, AgreementInv,
         NEW a \in Agents, NEW t \in Slots, NEW c \in ConnIds, NEW r, NEW k,
         SaveConnection(a, c, r), Continue(a, t, k), SentAreSound, r \in ConnectionRecords,
         \/ conns[a][c] = None
         \/ Extends(conns[a][c], r) /\ (conns[a][c].state \notin Young \/ Writes(a, t, c)),
         SoundRecord(conns', a, c, r), SoundTask(conns', a, t, k),
         k.pc \in YoungSteps => k.id = c /\ conns[a][c] = None,
         conns[a][c] = None /\ r.role = "responder" =>
           t \in Handlers /\ (OneHandler => UnansweredIn(conns, a, r.thread))
  PROVE  AgreementInv'
  <1>1. /\ LaterIn(conns, conns')
        /\ conns'[a][c] = r /\ r # None
        /\ \A b \in Agents, d \in ConnIds : b # a \/ d # c => conns'[b][d] = conns[b][d]
    BY WriteIsLater, NoneAssumption
  <1>2. /\ tasks'[a][t] = k
        /\ \A b \in Agents, s \in Slots : b # a \/ s # t => tasks'[b][s] = tasks[b][s]
    BY DEF Continue, TypeInv, TasksType
  <1>3. ASSUME NEW b \in Agents, NEW d \in ConnIds, conns'[b][d] # None
        PROVE  SoundRecord(conns', b, d, conns'[b][d])
    <2>1. CASE b = a /\ d = c
      BY <2>1, <1>1
    <2>2. CASE b # a \/ d # c
      <3>1. conns'[b][d] = conns[b][d] /\ conns[b][d] \in ConnectionRecords
        BY <2>2, <1>1, <1>3 DEF TypeInv, ConnsType, SoundRecords
      <3> QED
        BY <3>1, <1>1, <1>3, RecordLater DEF AgreementInv
    <2> QED
      BY <2>1, <2>2
  <1>4. ASSUME NEW m \in net'
        PROVE  SoundMessage(conns', m)
    BY <1>1, MessageLater DEF AgreementInv, SentAreSound
  <1>5. ASSUME NEW b \in Agents, NEW s \in Slots
        PROVE  SoundTask(conns', b, s, tasks'[b][s])
    <2>1. CASE b = a /\ s = t
      BY <2>1, <1>2
    <2>2. CASE b # a \/ s # t
      <3> DEFINE j == tasks[b][s]
      <3>1. j \in SoundTasks(s) /\ SoundTask(conns, b, s, j) /\ tasks'[b][s] = j
        BY <2>2, <1>2, TaskIsSound DEF AgreementInv
      <3>2. ASSUME j.pc \in YoungSteps
            PROVE  conns'[b][j.id] = conns[b][j.id]
        <4>1. j.id \in ConnIds /\ conns[b][j.id] # None /\ conns[b][j.id].state \in Young
          BY <3>1, <3>2 DEF SoundTask, YoungCopy, SoundTasks, YoungSteps, RequesterSteps,
                            ResponderSteps, UsesRecord
        <4>2. b # a \/ j.id # c
          <5> SUFFICES ASSUME b = a, j.id = c PROVE FALSE
            OBVIOUS
          <5>1. Writes(a, t, c) /\ Writes(a, s, c)
            BY <4>1, <3>2 DEF Writes
          <5> QED
            BY <5>1, <2>2 DEF AgreementInv
        <4> QED
          BY <4>1, <4>2, <1>1
      <3>3. ASSUME j.pc \in LateSteps
            PROVE  Extends(conns'[b][j.id], j.conn)
        <4>1. j.id \in ConnIds /\ conns[b][j.id] # None /\ conns[b][j.id].state \notin Young
              /\ Extends(conns[b][j.id], j.conn)
          BY <3>1, <3>3 DEF SoundTask, SoundTasks, LateSteps, ResponseSteps, UsesRecord
        <4>2. Extends(conns[b][j.id], conns'[b][j.id])
          BY <4>1, <1>1 DEF LaterIn
        <4> QED
          BY <4>1, <4>2, ExtendsBoth
      <3>4. ASSUME j.pc \in RequestSteps, OneHandler
            PROVE  UnansweredIn(conns', b, j.msg.thread)
        <4>1. s \in Handlers /\ UnansweredIn(conns, b, j.msg.thread)
          BY <3>1, <3>4 DEF SoundTask
        <4>2. CASE b # a
          BY <4>1, <4>2, <1>1 DEF UnansweredIn
        <4>3. CASE b = a
          <5>1. t \notin Handlers
            BY <4>1, <4>3, <2>2, <3>4 DEF OneHandler
          <5> QED
            BY <5>1, <4>1, <4>3, <1>1 DEF UnansweredIn, Extends
        <4> QED
          BY <4>2, <4>3
      <3> HIDE DEF j
      <3> QED
        BY <3>1, <3>2, <3>3, <3>4, <1>1, TaskLater
    <2> QED
      BY <2>1, <2>2
  <1>6. ASSUME NEW b \in Agents, NEW d \in ConnIds, NEW s \in Slots, NEW u \in Slots,
               Writes(b, s, d)', Writes(b, u, d)'
        PROVE  s = u
    <2>1. \A w \in Slots : w # t /\ k.pc \in YoungSteps => ~Writes(a, w, k.id)
      BY DEF Writes, AgreementInv, SoundTask, YoungCopy
    <2> QED
      BY <2>1, <1>2, <1>6 DEF Writes, AgreementInv
  <1>7. ASSUME OneHandler
        PROVE  OneConnectionPerRequest'
    <2>1. OneConnectionPerRequest
      BY <1>7 DEF AgreementInv
    <2>2. CASE conns[a][c] # None
      BY <2>1, <2>2, <1>1 DEF OneConnectionPerRequest, Connection, Extends
    <2>3. CASE conns[a][c] = None
      BY <2>1, <2>3, <1>1, <1>7 DEF OneConnectionPerRequest, Connection, UnansweredIn
    <2> QED
      BY <2>2, <2>3
  <1> QED
    BY <1>3, <1>4, <1>5, <1>6, <1>7 DEF AgreementInv

\* The last write of a task.
LEMMA LastWriteKeeps ==
  ASSUME TypeInv, AgreementInv,
         NEW a \in Agents, NEW t \in Slots, NEW c \in ConnIds, NEW r,
         SaveConnection(a, c, r), Finish(a, t), SentAreSound, r \in ConnectionRecords,
         \/ conns[a][c] = None
         \/ Extends(conns[a][c], r) /\ (conns[a][c].state \notin Young \/ Writes(a, t, c)),
         SoundRecord(conns', a, c, r),
         conns[a][c] = None /\ r.role = "responder" =>
           t \in Handlers /\ (OneHandler => UnansweredIn(conns, a, r.thread))
  PROVE  AgreementInv'
  BY WriteKeeps, IdleIsQuiet, QuietIsSound DEF Finish

-------------------------------------------------------------------------------
(* What a step starts from *)

LEMMA TaskAgrees ==
  ASSUME AgreementInv, NEW a \in Agents, NEW t \in Slots
  PROVE  SoundTask(conns, a, t, tasks[a][t])
  BY DEF AgreementInv

LEMMA NothingSent ==
  ASSUME UNCHANGED net \/ net' \subseteq net
  PROVE  SentAreSound
  BY DEF SentAreSound

LEMMA OneSent ==
  ASSUME NEW m, Send(m), SoundMessage(conns', m)
  PROVE  SentAreSound
  BY DEF SentAreSound, Send

\* Only requests and responses prove anything.
LEMMA OthersProveNothing ==
  ASSUME NEW cs, NEW m, m.type \notin Requests \cup Responses
  PROVE  SoundMessage(cs, m)
  BY DEF SoundMessage

LEMMA DeliveredAgrees ==
  ASSUME TypeInv, AgreementInv, NEW a, NEW h, NEW m, NEW type, Delivers(a, h, m, type)
  PROVE  /\ h \in Slots /\ h \in Handlers /\ At(a, h, "idle")
         /\ m \in SoundMessages /\ m.type = type /\ m.to.agent = a
         /\ SoundMessage(conns, m) /\ SentAreSound
  <1>1. m \in net /\ net' \subseteq net
    BY DEF Delivers, Consume
  <1> QED
    BY <1>1, DeliveredMessage, NothingSent DEF AgreementInv, Delivers

\* A copy of the record of a request or response that was sent, just taken or written.
LEMMA LateCopyIsSound ==
  ASSUME NEW cs, NEW a, NEW t, NEW k, k.pc \in LateSteps \ ResponseSteps,
         cs[a][k.id] # None, cs[a][k.id].state \notin Young,
         Extends(cs[a][k.id], k.conn), SoundRecord(cs, a, k.id, k.conn)
  PROVE  SoundTask(cs, a, t, k) /\ k.pc \notin YoungSteps
  BY DEF SoundTask, RequestSteps, ResponseSteps, RequesterSteps, ResponderSteps,
         YoungSteps, LateSteps

\* What the copy of a task has at a step that needs the record.
LEMMA LateTask ==
  ASSUME TypeInv, AgreementInv, NEW a \in Agents, NEW t \in Slots,
         tasks[a][t].pc \in LateSteps
  PROVE  /\ tasks[a][t] \in Tasks
         /\ tasks[a][t].id \in ConnIds
         /\ tasks[a][t].conn \in SoundRecords /\ tasks[a][t].conn \in ConnectionRecords
         /\ conns[a][tasks[a][t].id] # None
         /\ conns[a][tasks[a][t].id].state \notin Young
         /\ Extends(conns[a][tasks[a][t].id], tasks[a][t].conn)
         /\ tasks[a][t].conn.state \notin Young
         /\ SoundRecord(conns, a, tasks[a][t].id, tasks[a][t].conn)
  <1>1. tasks[a][t] \in SoundTasks(t) /\ SoundTask(conns, a, t, tasks[a][t])
    BY TaskIsSound, TaskAgrees
  <1>2. /\ tasks[a][t] \in Tasks
        /\ tasks[a][t].id \in ConnIds
        /\ tasks[a][t].conn \in SoundRecords /\ tasks[a][t].conn \in ConnectionRecords
    BY <1>1 DEF SoundTasks, SoundRecords, LateSteps, ResponseSteps, UsesRecord
  <1>3. /\ conns[a][tasks[a][t].id] # None
        /\ conns[a][tasks[a][t].id].state \notin Young
        /\ Extends(conns[a][tasks[a][t].id], tasks[a][t].conn)
        /\ SoundRecord(conns, a, tasks[a][t].id, tasks[a][t].conn)
    BY <1>1 DEF SoundTask
  <1> QED
    BY <1>2, <1>3 DEF Extends

LEMMA YoungTask ==
  ASSUME TypeInv, AgreementInv, NEW a \in Agents, NEW t \in Slots,
         tasks[a][t].pc \in YoungSteps
  PROVE  /\ tasks[a][t] \in Tasks
         /\ tasks[a][t].id \in ConnIds
         /\ tasks[a][t].conn \in SoundRecords /\ tasks[a][t].conn \in ConnectionRecords
         /\ YoungCopy(conns[a][tasks[a][t].id], tasks[a][t].conn)
         /\ SoundRecord(conns, a, tasks[a][t].id, conns[a][tasks[a][t].id])
         /\ Writes(a, t, tasks[a][t].id)
         /\ \A u \in Slots : Writes(a, u, tasks[a][t].id) => u = t
  <1>1. tasks[a][t] \in SoundTasks(t) /\ SoundTask(conns, a, t, tasks[a][t])
    BY TaskIsSound, TaskAgrees
  <1>2. /\ tasks[a][t] \in Tasks
        /\ tasks[a][t].id \in ConnIds
        /\ tasks[a][t].conn \in SoundRecords /\ tasks[a][t].conn \in ConnectionRecords
    BY <1>1 DEF SoundTasks, SoundRecords, YoungSteps, RequesterSteps, ResponderSteps, UsesRecord
  <1>3. YoungCopy(conns[a][tasks[a][t].id], tasks[a][t].conn)
    BY <1>1 DEF SoundTask
  <1>4. Writes(a, t, tasks[a][t].id)
    BY DEF Writes
  <1> QED
    BY <1>2, <1>3, <1>4 DEF AgreementInv, YoungCopy

\* The record of a connection whose request or response was sent, as a task reads it.
LEMMA ReadRecord ==
  ASSUME TypeInv, AgreementInv, NEW a \in Agents, NEW c \in ConnIds, conns[a][c] # None
  PROVE  /\ conns[a][c] \in SoundRecords /\ conns[a][c] \in ConnectionRecords
         /\ SoundRecord(conns, a, c, conns[a][c])
         /\ Extends(conns[a][c], conns[a][c])
  BY DEF AgreementInv, TypeInv, ConnsType, SoundRecords, Extends

-------------------------------------------------------------------------------
(* The DID exchange *)

LEMMA DxCreateConnectionAgrees ==
  ASSUME TypeInv, AgreementInv, NEW a \in Agents, NEW s \in Callers, DxCreateConnection(a, s)
  PROVE  AgreementInv'
  <1> DEFINE k == tasks[a][s]
             r == [role |-> "requester", state |-> "invitation-received",
                   protocol |-> "did-exchange", thread |-> None, inv |-> k.inv,
                   did |-> None, theirDid |-> None]
             n(c) == [k EXCEPT !.pc = "dx-createRequestDid", !.id = c, !.conn = r]
  <1>1. s \in Slots /\ k \in Tasks /\ k.inv \in Invitations
    BY TaskIsSound DEF DxCreateConnection, At, Slots, SoundTasks, UsesInvitation
  <1>2. PICK c \in ConnIds : conns[a][c] = None /\ SaveConnection(a, c, r) /\ Continue(a, s, n(c))
    BY DEF DxCreateConnection, FreshConnId
  <1>3. r \in ConnectionRecords /\ r.role = "requester" /\ r.state = "invitation-received"
        /\ r.theirDid = None /\ r.inv = k.inv /\ r # None
    BY <1>1, NoneAssumption DEF ConnectionRecords, ConnRoles, ConnStates, ConnectionProtocols
  <1> HIDE DEF r
  <1>4. n(c).pc = "dx-createRequestDid" /\ n(c).id = c /\ n(c).conn = r /\ n(c).inv = k.inv
    BY <1>1 DEF Tasks
  <1> HIDE DEF n
  <1>5. conns'[a][c] = r
    BY <1>2, <1>3, WriteIsLater
  <1>6. SoundRecord(conns', a, c, r)
    BY <1>3 DEF SoundRecord, RequesterStates, Young
  <1>7. SoundTask(conns', a, s, n(c))
    BY <1>3, <1>4, <1>5
    DEF SoundTask, YoungCopy, Young, RequestSteps, ResponseSteps, RequesterSteps,
        ResponderSteps, LateSteps
  <1> QED
    BY <1>1, <1>2, <1>3, <1>4, <1>6, <1>7, WriteKeeps, NothingSent DEF DxCreateConnection

LEMMA DxCreateRequestDidAgrees ==
  ASSUME TypeInv, AgreementInv, NEW a \in Agents, NEW s \in Callers, DxCreateRequestDid(a, s)
  PROVE  AgreementInv'
  <1> DEFINE k == tasks[a][s]
             d == [key |-> RoutingKey(a), n |-> NextDid(a)]
             n == [k EXCEPT !.pc = "dx-sendRequest", !.conn.did = d]
  <1>1. s \in Slots /\ k.pc = "dx-createRequestDid" /\ k.pc \in YoungSteps
    BY DEF DxCreateRequestDid, At, Slots, YoungSteps, RequesterSteps
  <1>2. k \in Tasks /\ k.conn \in ConnectionRecords /\ SoundTask(conns, a, s, k)
        /\ YoungCopy(conns[a][k.id], k.conn) /\ \A u \in Slots : Writes(a, u, k.id) => u = s
    BY <1>1, YoungTask, TaskAgrees
  <1>3. Continue(a, s, n)
    BY DEF DxCreateRequestDid
  <1> HIDE DEF d
  <1>4. n.pc = "dx-sendRequest" /\ n.id = k.id /\ n.inv = k.inv /\ n.conn.role = k.conn.role
        /\ n.conn.state = k.conn.state /\ n.conn.inv = k.conn.inv
        /\ n.conn.thread = k.conn.thread /\ n.conn.theirDid = k.conn.theirDid
    BY <1>2 DEF Tasks, ConnectionRecords
  <1> HIDE DEF n
  <1>5. SoundTask(conns, a, s, n)
    BY <1>1, <1>2, <1>4
    DEF SoundTask, YoungCopy, YoungSteps, RequestSteps, ResponseSteps, RequesterSteps,
        ResponderSteps, LateSteps
  <1> QED
    BY <1>1, <1>2, <1>3, <1>4, <1>5, TaskKeeps, NothingSent DEF DxCreateRequestDid

LEMMA DxSendRequestAgrees ==
  ASSUME TypeInv, AgreementInv, NEW a \in Agents, NEW s \in Callers, DxSendRequest(a, s)
  PROVE  AgreementInv'
  <1> DEFINE k  == tasks[a][s]
             th == [agent |-> a, conn |-> k.id]
             r  == [k.conn EXCEPT !.state = NextState("dx-request", k.conn), !.thread = th]
             m  == [type |-> "dx-request", from |-> r.did.key, to |-> InvitationKey(k.inv),
                    thread |-> th, inv |-> k.inv, did |-> r.did]
  <1>1. s \in Slots /\ k.pc = "dx-sendRequest" /\ k.pc \in YoungSteps
    BY DEF DxSendRequest, At, Slots, YoungSteps, RequesterSteps
  <1>2. k.id \in ConnIds /\ k.conn \in ConnectionRecords /\ SoundTask(conns, a, s, k)
        /\ YoungCopy(conns[a][k.id], k.conn) /\ Writes(a, s, k.id)
    BY <1>1, YoungTask, TaskAgrees
  <1>3. k.conn.role = "requester" /\ k.conn.inv = k.inv
    BY <1>1, <1>2 DEF SoundTask, RequesterSteps
  <1>4. th \in Threads /\ NextState("dx-request", k.conn) = "request-sent"
    BY <1>2, <1>3, RequesterNextStates DEF Threads
  <1>5. r \in ConnectionRecords /\ r.role = "requester" /\ r.state = "request-sent"
        /\ r.thread = th /\ r.inv = k.inv /\ r.did = k.conn.did
    BY <1>2, <1>3, <1>4 DEF ConnectionRecords, ConnStates
  <1>6. SaveConnection(a, k.id, r) /\ Send(m) /\ Finish(a, s)
    BY DEF DxSendRequest
  <1> HIDE DEF r
  <1>7. conns[a][k.id] # None /\ Extends(conns[a][k.id], r)
    BY <1>2, <1>3, <1>5 DEF YoungCopy, Extends
  <1>8. conns'[a][k.id] = r /\ r # None
    BY <1>2, <1>5, <1>6, <1>7, WriteIsLater, NoneAssumption
  <1>9. SoundRecord(conns', a, k.id, r)
    BY <1>5 DEF SoundRecord, RequesterStates, Young
  <1>10. m.type = "dx-request" /\ m.from = m.did.key /\ m.thread = th /\ m.did = r.did
         /\ m.to.agent = Owner[k.inv] /\ th.agent = a /\ th.conn = k.id
    BY DEF InvitationKey
  <1> HIDE DEF th, m
  <1>11. SoundMessage(conns', m)
    BY <1>4, <1>5, <1>8, <1>10 DEF SoundMessage, Requests, Responses, RequestIn, Young
  <1> QED
    BY <1>1, <1>2, <1>5, <1>6, <1>7, <1>9, <1>11, LastWriteKeeps, OneSent

\* A request whose DID is not stored yet has no connection: one would refer to the DID.
LEMMA NewRequestIsUnanswered ==
  ASSUME TypeInv, AgreementInv, DidsStored, NEW a \in Agents, NEW m \in SoundMessages,
         m.type \in Requests, m.to.agent = a, SoundMessage(conns, m),
         DidsByKey(a, "received", m.from) = {}
  PROVE  UnansweredIn(conns, a, m.thread)
  <1> SUFFICES ASSUME NEW d \in ConnIds, conns[a][d] # None, conns[a][d].role = "responder",
                      conns[a][d].thread = m.thread
               PROVE  FALSE
    BY DEF UnansweredIn
  <1>1. RequestIn(conns, m.thread, m.did, a) /\ m.from = m.did.key
    BY DEF SoundMessage
  <1>2. RequestIn(conns, m.thread, conns[a][d].theirDid, a)
    BY ReadRecord DEF SoundRecord
  <1>3. conns[a][d].theirDid = m.did
    BY <1>1, <1>2 DEF RequestIn
  <1>4. m.did # None
    BY NoneAssumption DEF SoundMessages, Requests
  <1>5. conns[a][d].theirDid # None
    BY <1>3, <1>4
  <1>6. PICK n \in DOMAIN dids[a] :
          dids[a][n] = [role |-> "received", did |-> conns[a][d].theirDid]
    BY <1>5 DEF DidsStored
  <1>7. dids[a][n].role = "received" /\ dids[a][n].did.key = m.from
    BY <1>1, <1>3, <1>6
  <1> QED
    BY <1>7 DEF DidsByKey

LEMMA DxReceiveRequestAgrees ==
  ASSUME TypeInv, AgreementInv, DidsStored, NEW a \in Agents, NEW h \in Handlers, NEW m \in net,
         DxReceiveRequest(a, h, m)
  PROVE  AgreementInv'
  <1> DEFINE n == [Idle EXCEPT !.pc = "dx-saveRequesterDid", !.msg = m,
                               !.inv = m.inv, !.oob = oob[a]["sender"][m.inv]]
  <1>1. /\ h \in Slots /\ m \in SoundMessages /\ m.type = "dx-request" /\ m.to.agent = a
        /\ SoundMessage(conns, m) /\ SentAreSound
    BY DeliveredAgrees DEF DxReceiveRequest
  <1>2. UnansweredIn(conns, a, m.thread)
    BY <1>1, NewRequestIsUnanswered DEF DxReceiveRequest, DxRequestAcceptable, Requests
  <1>3. Continue(a, h, n) /\ UNCHANGED conns
    BY DEF DxReceiveRequest
  <1>4. n.pc = "dx-saveRequesterDid" /\ n.msg = m
    BY DEF Idle
  <1> HIDE DEF n
  <1>5. SoundTask(conns, a, h, n)
    BY <1>1, <1>2, <1>4
    DEF SoundTask, RequestSteps, ResponseSteps, RequesterSteps, ResponderSteps, YoungSteps,
        LateSteps, Requests
  <1> QED
    BY <1>1, <1>3, <1>4, <1>5, TaskKeeps DEF YoungSteps, RequesterSteps, ResponderSteps

LEMMA DxSaveRequesterDidAgrees ==
  ASSUME TypeInv, AgreementInv, NEW a \in Agents, NEW h \in Handlers, DxSaveRequesterDid(a, h)
  PROVE  AgreementInv'
  <1> DEFINE k == tasks[a][h]
             n == [k EXCEPT !.pc = "dx-createResponder"]
  <1>1. h \in Slots /\ k.pc = "dx-saveRequesterDid"
    BY DEF DxSaveRequesterDid, At, Slots
  <1>2. k \in Tasks /\ SoundTask(conns, a, h, k)
    BY <1>1, TaskIsSound, TaskAgrees DEF SoundTasks
  <1>3. Continue(a, h, n)
    BY DEF DxSaveRequesterDid
  <1>4. n.pc = "dx-createResponder" /\ n.msg = k.msg
    BY <1>2 DEF Tasks
  <1> HIDE DEF n
  <1>5. SoundTask(conns, a, h, n)
    BY <1>1, <1>2, <1>4
    DEF SoundTask, RequestSteps, ResponseSteps, RequesterSteps, ResponderSteps, YoungSteps,
        LateSteps
  <1> QED
    BY <1>1, <1>3, <1>4, <1>5, TaskKeeps, NothingSent
    DEF DxSaveRequesterDid, YoungSteps, RequesterSteps, ResponderSteps

LEMMA DxCreateResponderAgrees ==
  ASSUME TypeInv, AgreementInv, NEW a \in Agents, NEW h \in Handlers, DxCreateResponder(a, h)
  PROVE  AgreementInv'
  <1> DEFINE k == tasks[a][h]
             r == [role |-> "responder", state |-> "request-received",
                   protocol |-> "did-exchange", thread |-> k.msg.thread, inv |-> k.inv,
                   did |-> None, theirDid |-> k.msg.did]
             n(c) == [k EXCEPT !.pc = "dx-createResponseDid", !.id = c, !.conn = r]
  <1>1. h \in Slots /\ k \in Tasks /\ k.inv \in Invitations /\ k.msg \in Messages
        /\ k.msg.did \in PeerDids
    BY TaskIsSound
    DEF DxCreateResponder, At, Slots, SoundTasks, UsesInvitation, UsesMessage, SoundMessages
  <1>2. /\ k.msg.type \in Requests /\ SoundMessage(conns, k.msg) /\ k.msg.to.agent = a
        /\ OneHandler => UnansweredIn(conns, a, k.msg.thread)
    BY <1>1, TaskAgrees DEF DxCreateResponder, At, SoundTask, RequestSteps
  <1>3. PICK c \in ConnIds :
          /\ conns[a][c] = None /\ SaveConnection(a, c, r)
          /\ (a \in AutoAccept /\ Continue(a, h, n(c))) \/ Finish(a, h)
    BY DEF DxCreateResponder, FreshConnId
  <1>4. r \in ConnectionRecords /\ r.role = "responder" /\ r.state = "request-received"
        /\ r.did = None /\ r.thread = k.msg.thread /\ r.theirDid = k.msg.did
    BY <1>1 DEF ConnectionRecords, ConnRoles, ConnStates, ConnectionProtocols, Messages
  <1> HIDE DEF r
  <1>5. n(c).pc = "dx-createResponseDid" /\ n(c).id = c /\ n(c).conn = r
    BY <1>1 DEF Tasks
  <1> HIDE DEF n
  <1>6. conns'[a][c] = r /\ LaterIn(conns, conns') /\ r # None
    BY <1>3, <1>4, WriteIsLater, NoneAssumption
  <1>7. SoundRecord(conns', a, c, r)
    BY <1>2, <1>4, <1>6, RequestLater DEF SoundRecord, SoundMessage, ResponderStates
  <1>8. a \in AutoAccept => SoundTask(conns', a, h, n(c))
    BY <1>4, <1>5, <1>6
    DEF SoundTask, YoungCopy, Young, RequestSteps, ResponseSteps, RequesterSteps,
        ResponderSteps, LateSteps
  <1>9. SentAreSound
    BY NothingSent DEF DxCreateResponder
  <1> QED
    BY <1>1, <1>2, <1>3, <1>4, <1>5, <1>7, <1>8, <1>9, WriteKeeps, LastWriteKeeps

LEMMA DxCreateResponseDidAgrees ==
  ASSUME TypeInv, AgreementInv, NEW a \in Agents, NEW t \in Slots, DxCreateResponseDid(a, t)
  PROVE  AgreementInv'
  <1> DEFINE k == tasks[a][t]
             d == [key |-> IF Reusable[k.inv] THEN RoutingKey(a) ELSE InvitationKey(k.inv),
                   n |-> NextDid(a)]
             n == [k EXCEPT !.pc = "dx-sendResponse", !.conn.did = d]
  <1>1. k.pc = "dx-createResponseDid" /\ k.pc \in YoungSteps
    BY DEF DxCreateResponseDid, At, YoungSteps, ResponderSteps
  <1>2. k \in Tasks /\ k.conn \in ConnectionRecords /\ SoundTask(conns, a, t, k)
        /\ YoungCopy(conns[a][k.id], k.conn) /\ \A u \in Slots : Writes(a, u, k.id) => u = t
    BY <1>1, YoungTask, TaskAgrees
  <1>3. Continue(a, t, n) \/ Finish(a, t)
    BY DEF DxCreateResponseDid
  <1> HIDE DEF d
  <1>4. n.pc = "dx-sendResponse" /\ n.id = k.id /\ n.inv = k.inv /\ n.conn.role = k.conn.role
        /\ n.conn.state = k.conn.state /\ n.conn.inv = k.conn.inv
        /\ n.conn.thread = k.conn.thread /\ n.conn.theirDid = k.conn.theirDid
    BY <1>2 DEF Tasks, ConnectionRecords
  <1> HIDE DEF n
  <1>5. SoundTask(conns, a, t, n)
    BY <1>1, <1>2, <1>4
    DEF SoundTask, YoungCopy, YoungSteps, RequestSteps, ResponseSteps, RequesterSteps,
        ResponderSteps, LateSteps
  <1>6. UNCHANGED conns /\ SentAreSound
    BY NothingSent DEF DxCreateResponseDid
  <1> QED
    BY <1>2, <1>3, <1>4, <1>5, <1>6, TaskKeeps, FinishKeeps

LEMMA DxSendResponseAgrees ==
  ASSUME TypeInv, AgreementInv, NEW a \in Agents, NEW t \in Slots, DxSendResponse(a, t)
  PROVE  AgreementInv'
  <1> DEFINE k == tasks[a][t]
             r == [k.conn EXCEPT !.state = NextState("dx-response", k.conn)]
             m == [type |-> "dx-response", from |-> r.did.key, to |-> r.theirDid.key,
                   thread |-> r.thread, inv |-> None, did |-> r.did]
  <1>1. k.pc = "dx-sendResponse" /\ k.pc \in YoungSteps
    BY DEF DxSendResponse, At, YoungSteps, ResponderSteps
  <1>2. k.id \in ConnIds /\ k.conn \in ConnectionRecords /\ SoundTask(conns, a, t, k)
        /\ YoungCopy(conns[a][k.id], k.conn) /\ Writes(a, t, k.id)
        /\ SoundRecord(conns, a, k.id, conns[a][k.id])
    BY <1>1, YoungTask, TaskAgrees
  <1>3. k.conn.role = "responder"
    BY <1>1, <1>2 DEF SoundTask, ResponderSteps
  <1>4. NextState("dx-response", k.conn) = "response-sent"
    BY <1>3, ResponderNextStates
  <1>5. r \in ConnectionRecords /\ r.role = "responder" /\ r.state = "response-sent"
        /\ r.thread = k.conn.thread /\ r.inv = k.conn.inv /\ r.theirDid = k.conn.theirDid
    BY <1>2, <1>3, <1>4 DEF ConnectionRecords, ConnStates
  <1>6. SaveConnection(a, k.id, r) /\ Send(m) /\ Finish(a, t)
    BY DEF DxSendResponse
  <1> HIDE DEF r
  <1>7. conns[a][k.id] # None /\ Extends(conns[a][k.id], r)
    BY <1>2, <1>3, <1>5 DEF YoungCopy, Extends
  <1>8. conns'[a][k.id] = r /\ LaterIn(conns, conns') /\ r # None
    BY <1>2, <1>5, <1>6, <1>7, WriteIsLater, NoneAssumption
  <1>9. RequestIn(conns', r.thread, r.theirDid, a)
    BY <1>2, <1>3, <1>5, <1>8, RequestLater DEF YoungCopy, SoundRecord
  <1>10. SoundRecord(conns', a, k.id, r)
    BY <1>5, <1>9 DEF SoundRecord, ResponderStates, Young
  <1>11. m.type = "dx-response" /\ m.thread = r.thread /\ m.did = r.did
    OBVIOUS
  <1> HIDE DEF m
  <1>12. AnswerIn(conns', a, k.id, m.thread, m.did)
    BY <1>5, <1>8, <1>11 DEF AnswerIn, Young
  <1>13. SoundMessage(conns', m)
    BY <1>2, <1>11, <1>12 DEF SoundMessage, Requests, Responses
  <1> QED
    BY <1>2, <1>5, <1>6, <1>7, <1>10, <1>13, LastWriteKeeps, OneSent

LEMMA DxReceiveResponseAgrees ==
  ASSUME TypeInv, AgreementInv, NEW a \in Agents, NEW h \in Handlers, NEW m \in net,
         DxReceiveResponse(a, h, m)
  PROVE  AgreementInv'
  <1> DEFINE r(c) == conns[a][c]
             n(c) == [pc |-> "dx-saveResponderDid", msg |-> m, inv |-> r(c).inv,
                      oob |-> oob[a]["receiver"][r(c).inv], id |-> c, conn |-> r(c)]
  <1>1. /\ h \in Slots /\ m.type = "dx-response" /\ SoundMessage(conns, m) /\ SentAreSound
    BY DeliveredAgrees DEF DxReceiveResponse
  <1>2. PICK c \in ConnIds : DxResponseAcceptable(a, c, m) /\ Continue(a, h, n(c))
    BY DEF DxReceiveResponse
  <1>3. /\ r(c) # None /\ r(c).role = "requester" /\ r(c).thread = m.thread
        /\ CanProcess("dx-response", r(c))
    BY <1>2 DEF DxResponseAcceptable, ConnectionsByThread
  <1>4. r(c).state = "request-sent"
    BY <1>3 DEF CanProcess, ProcessMessageRules, Rule
  <1>5. SoundRecord(conns, a, c, r(c)) /\ Extends(r(c), r(c))
    BY <1>3, ReadRecord
  <1>6. n(c).pc = "dx-saveResponderDid" /\ n(c).msg = m /\ n(c).id = c /\ n(c).conn = conns[a][c]
    OBVIOUS
  <1> HIDE DEF n
  <1>7. SoundTask(conns, a, h, n(c))
    BY <1>1, <1>3, <1>4, <1>5, <1>6
    DEF SoundTask, Young, RequestSteps, ResponseSteps, RequesterSteps, ResponderSteps,
        YoungSteps, LateSteps, Responses
  <1> QED
    BY <1>1, <1>2, <1>6, <1>7, TaskKeeps
    DEF DxReceiveResponse, YoungSteps, RequesterSteps, ResponderSteps

LEMMA DxSaveResponderDidAgrees ==
  ASSUME TypeInv, AgreementInv, NEW a \in Agents, NEW h \in Handlers, DxSaveResponderDid(a, h)
  PROVE  AgreementInv'
  <1> DEFINE k == tasks[a][h]
             n == [k EXCEPT !.pc = "dx-responseReceived"]
  <1>1. h \in Slots /\ k.pc = "dx-saveResponderDid"
    BY DEF DxSaveResponderDid, At, Slots
  <1>2. k \in Tasks /\ SoundTask(conns, a, h, k)
    BY <1>1, TaskIsSound, TaskAgrees DEF SoundTasks
  <1>3. Continue(a, h, n)
    BY DEF DxSaveResponderDid
  <1>4. n.pc = "dx-responseReceived" /\ n.msg = k.msg /\ n.id = k.id /\ n.conn = k.conn
    BY <1>2 DEF Tasks
  <1> HIDE DEF n
  <1>5. SoundTask(conns, a, h, n)
    BY <1>1, <1>2, <1>4
    DEF SoundTask, RequestSteps, ResponseSteps, RequesterSteps, ResponderSteps, YoungSteps,
        LateSteps
  <1> QED
    BY <1>1, <1>3, <1>4, <1>5, TaskKeeps, NothingSent
    DEF DxSaveResponderDid, YoungSteps, RequesterSteps, ResponderSteps

\* A response names the record that answered, and that record the request it answers:
\* the one the requester's copy is of.
LEMMA ResponseMatches ==
  ASSUME TypeInv, AgreementInv, NEW a \in Agents, NEW t \in Slots,
         tasks[a][t].pc \in ResponseSteps
  PROVE  LET k == tasks[a][t] IN
         \E d \in ConnIds :
           /\ AnswerIn(conns, Owner[k.conn.inv], d, k.conn.thread, k.msg.did)
           /\ conns[Owner[k.conn.inv]][d].theirDid = k.conn.did
  <1> DEFINE k == tasks[a][t]
  <1>1. k.pc \in LateSteps
    BY DEF LateSteps
  <1>2. /\ k.id \in ConnIds /\ conns[a][k.id].state \notin Young
        /\ Extends(conns[a][k.id], k.conn) /\ SoundRecord(conns, a, k.id, k.conn)
        /\ k.conn.state \notin Young
    BY <1>1, LateTask
  <1>3. /\ k.msg.type \in Responses /\ SoundMessage(conns, k.msg)
        /\ k.conn.role = "requester" /\ k.msg.thread = k.conn.thread
    BY TaskAgrees DEF SoundTask
  <1> HIDE DEF k
  <1>4. PICK b \in Agents, d \in ConnIds : AnswerIn(conns, b, d, k.msg.thread, k.msg.did)
    BY <1>3 DEF SoundMessage
  <1>5. RequestIn(conns, k.msg.thread, conns[b][d].theirDid, b)
    BY <1>4, ReadRecord DEF AnswerIn, SoundRecord
  <1>6. k.conn.thread = [agent |-> a, conn |-> k.id]
    BY <1>2, <1>3 DEF SoundRecord
  <1>7. conns[a][k.id].did = conns[b][d].theirDid /\ Owner[conns[a][k.id].inv] = b
    BY <1>3, <1>5, <1>6 DEF RequestIn
  <1>8. k.conn.did = conns[b][d].theirDid /\ Owner[k.conn.inv] = b
    BY <1>2, <1>7 DEF Extends
  <1> QED
    BY <1>3, <1>4, <1>8 DEF k

\* The write of a record of which a message was sent: what the ends agree on stays.
LEMMA LateWriteIsLater ==
  ASSUME TypeInv, AgreementInv, NEW a \in Agents, NEW t \in Slots,
         tasks[a][t].pc \in LateSteps, NEW r \in ConnectionRecords,
         SaveConnection(a, tasks[a][t].id, r),
         Extends(tasks[a][t].conn, r), r.state \notin Young
  PROVE  /\ Extends(conns[a][tasks[a][t].id], r)
         /\ LaterIn(conns, conns')
         /\ conns'[a][tasks[a][t].id] = r
         /\ conns'[a][tasks[a][t].id] # None
  <1> DEFINE k == tasks[a][t]
  <1>1. /\ k.id \in ConnIds /\ conns[a][k.id].state \notin Young
        /\ Extends(conns[a][k.id], k.conn) /\ k.conn.state \notin Young
    BY LateTask
  <1>2. Extends(conns[a][k.id], r)
    BY <1>1 DEF Extends
  <1>3. r # None
    BY NoneAssumption
  <1> QED
    BY <1>1, <1>2, <1>3, WriteIsLater

LEMMA LateWriteKeeps ==
  ASSUME TypeInv, AgreementInv, NEW a \in Agents, NEW t \in Slots,
         tasks[a][t].pc \in LateSteps, NEW r \in ConnectionRecords,
         SaveConnection(a, tasks[a][t].id, r), SentAreSound,
         Extends(tasks[a][t].conn, r), r.state \notin Young,
         SoundRecord(conns', a, tasks[a][t].id, r),
         \/ Finish(a, t)
         \/ \E k : /\ Continue(a, t, k) /\ k.pc \in LateSteps \ ResponseSteps
                   /\ k.id = tasks[a][t].id /\ k.conn = r
  PROVE  AgreementInv'
  <1> DEFINE id == tasks[a][t].id
  <1>1. /\ Extends(conns[a][id], r) /\ conns'[a][id] = r /\ conns'[a][id] # None
    BY LateWriteIsLater
  <1>2. id \in ConnIds /\ conns[a][id] # None /\ conns[a][id].state \notin Young
    BY LateTask
  <1>3. CASE Finish(a, t)
    <2> HIDE DEF id
    <2> QED
      BY <1>1, <1>2, <1>3, LastWriteKeeps DEF id
  <1>4. ASSUME NEW k, Continue(a, t, k), k.pc \in LateSteps \ ResponseSteps,
               k.id = id, k.conn = r
        PROVE  AgreementInv'
    <2>1. Extends(r, r)
      BY DEF Extends
    <2>2. SoundTask(conns', a, t, k) /\ k.pc \notin YoungSteps
      BY <1>1, <1>4, <2>1, LateCopyIsSound
    <2> HIDE DEF id
    <2> QED
      BY <1>1, <1>2, <1>4, <2>2, WriteKeeps DEF id
  <1> QED
    BY <1>3, <1>4

LEMMA DxResponseReceivedAgrees ==
  ASSUME TypeInv, AgreementInv, NEW a \in Agents, NEW h \in Handlers, DxResponseReceived(a, h)
  PROVE  AgreementInv'
  <1> DEFINE k == tasks[a][h]
             r == [k.conn EXCEPT !.theirDid = k.msg.did,
                                 !.state = NextState("dx-response", k.conn)]
             n == [k EXCEPT !.pc = "dx-createComplete", !.conn = r]
  <1>1. h \in Slots /\ k.pc = "dx-responseReceived" /\ k.pc \in ResponseSteps
        /\ k.pc \in LateSteps
    BY DEF DxResponseReceived, At, Slots, ResponseSteps, LateSteps
  <1>2. /\ k \in Tasks /\ k.id \in ConnIds /\ k.conn \in ConnectionRecords
        /\ k.conn.role = "requester" /\ SoundRecord(conns, a, k.id, k.conn)
        /\ k.conn.state \notin Young
    BY <1>1, LateTask, TaskAgrees DEF SoundTask
  <1>3. k.msg.did \in PeerDids
    BY <1>1, TaskIsSound DEF SoundTasks, UsesMessage
  <1>4. NextState("dx-response", k.conn) = "response-received"
    BY <1>2, RequesterNextStates
  <1>5. r \in ConnectionRecords /\ r.role = "requester" /\ r.state = "response-received"
        /\ r.inv = k.conn.inv /\ r.thread = k.conn.thread /\ r.did = k.conn.did
        /\ r.theirDid = k.msg.did
    BY <1>2, <1>3, <1>4 DEF ConnectionRecords, ConnStates
  <1>6. SaveConnection(a, k.id, r) /\ (Continue(a, h, n) \/ Finish(a, h))
    BY DEF DxResponseReceived
  <1> HIDE DEF r
  <1>7. Extends(k.conn, r) /\ r.state \notin Young
    BY <1>2, <1>5 DEF Extends, Young
  <1>8. LaterIn(conns, conns')
    BY <1>1, <1>5, <1>6, <1>7, LateWriteIsLater
  <1>9. MatchedIn(conns, r)
    BY <1>1, <1>5, ResponseMatches DEF MatchedIn
  <1>10. SoundRecord(conns', a, k.id, r)
    BY <1>2, <1>5, <1>7, <1>8, <1>9, MatchedLater DEF SoundRecord, RequesterStates
  <1>11. n.pc = "dx-createComplete" /\ n.id = k.id /\ n.conn = r
    BY <1>2 DEF Tasks
  <1> HIDE DEF n
  <1> QED
    BY <1>1, <1>5, <1>6, <1>7, <1>10, <1>11, LateWriteKeeps, NothingSent
    DEF DxResponseReceived, LateSteps, ResponseSteps

LEMMA DxCreateCompleteAgrees ==
  ASSUME TypeInv, AgreementInv, NEW a \in Agents, NEW t \in Slots, DxCreateComplete(a, t)
  PROVE  AgreementInv'
  <1> DEFINE k == tasks[a][t]
             r == [k.conn EXCEPT !.state = NextState("dx-complete", k.conn)]
             n == [k EXCEPT !.pc = "dx-sendComplete", !.conn = r]
  <1>1. k.pc = "dx-createComplete" /\ k.pc \in LateSteps
    BY DEF DxCreateComplete, At, LateSteps
  <1>2. /\ k \in Tasks /\ k.id \in ConnIds /\ k.conn \in ConnectionRecords
        /\ SoundRecord(conns, a, k.id, k.conn) /\ k.conn.state \notin Young
    BY <1>1, LateTask
  <1>3. CASE ~CanCreate("dx-complete", k.conn)
    BY <1>3, FinishKeeps, NothingSent DEF DxCreateComplete
  <1>4. CASE CanCreate("dx-complete", k.conn)
    <2>1. k.conn.role = "requester" /\ k.conn.state = "response-received"
      BY <1>4 DEF CanCreate, CreateMessageRules, Rule
    <2>2. r \in ConnectionRecords /\ r.role = "requester" /\ r.state = "completed"
          /\ r.inv = k.conn.inv /\ r.thread = k.conn.thread /\ r.did = k.conn.did
          /\ r.theirDid = k.conn.theirDid
      BY <1>2, <2>1, RequesterNextStates DEF ConnectionRecords, ConnStates
    <2>3. /\ SaveConnection(a, k.id, r)
          /\ \/ Continue(a, t, n) /\ UNCHANGED net
             \/ Finish(a, t) /\ Send(CompleteMessage(r))
      BY <1>4 DEF DxCreateComplete
    <2> HIDE DEF r
    <2>4. Extends(k.conn, r) /\ r.state \notin Young
      BY <2>1, <2>2 DEF Extends, Young
    <2>5. LaterIn(conns, conns')
      BY <1>1, <2>2, <2>3, <2>4, LateWriteIsLater
    <2>6. MatchedIn(conns, r)
      BY <1>2, <2>1, <2>2 DEF MatchedIn, SoundRecord
    <2>7. SoundRecord(conns', a, k.id, r)
      BY <1>2, <2>1, <2>2, <2>4, <2>5, <2>6, MatchedLater DEF SoundRecord, RequesterStates
    <2>8. n.pc = "dx-sendComplete" /\ n.id = k.id /\ n.conn = r
      BY <1>2 DEF Tasks
    <2> HIDE DEF n
    <2>9. SentAreSound
      BY <2>3, NothingSent, OneSent, OthersProveNothing
      DEF CompleteMessage, Requests, Responses
    <2> QED
      BY <1>1, <2>2, <2>3, <2>4, <2>7, <2>8, <2>9, LateWriteKeeps DEF LateSteps, ResponseSteps
  <1> QED
    BY <1>3, <1>4

LEMMA DxSendCompleteAgrees ==
  ASSUME TypeInv, AgreementInv, NEW a \in Agents, NEW h \in Handlers, DxSendComplete(a, h)
  PROVE  AgreementInv'
  <1>1. SentAreSound
    BY OneSent, OthersProveNothing DEF DxSendComplete, CompleteMessage, Requests, Responses
  <1> QED
    BY <1>1, FinishKeeps DEF DxSendComplete, Slots

LEMMA DxReceiveCompleteAgrees ==
  ASSUME TypeInv, AgreementInv, NEW a \in Agents, NEW h \in Handlers, NEW m \in net,
         DxReceiveComplete(a, h, m)
  PROVE  AgreementInv'
  <1> DEFINE n(c) == [pc |-> IF Reusable[m.inv] THEN "dx-processComplete"
                                                ELSE "dx-closeInvitation",
                      msg |-> m, inv |-> m.inv, oob |-> oob[a]["sender"][m.inv],
                      id |-> c, conn |-> conns[a][c]]
  <1>1. h \in Slots /\ SentAreSound
    BY DeliveredAgrees DEF DxReceiveComplete
  <1>2. PICK c \in ConnIds : DxCompleteAcceptable(a, c, m) /\ Continue(a, h, n(c))
    BY DEF DxReceiveComplete
  <1>3. conns[a][c] # None /\ IsReady(conns[a][c])
    BY <1>2
    DEF DxCompleteAcceptable, ContextConnections, FindByKeys, ByKeys, ConnectionsByDids
  <1>4. conns[a][c].state \notin Young
    BY <1>3 DEF IsReady, Young
  <1>5. n(c).pc \in LateSteps \ ResponseSteps /\ n(c).id = c /\ n(c).conn = conns[a][c]
    BY DEF LateSteps, ResponseSteps
  <1> HIDE DEF n
  <1>6. SoundTask(conns, a, h, n(c)) /\ n(c).pc \notin YoungSteps
    BY <1>3, <1>4, <1>5, LateCopyIsSound, ReadRecord
  <1> QED
    BY <1>1, <1>2, <1>6, TaskKeeps DEF DxReceiveComplete

LEMMA DxCloseInvitationAgrees ==
  ASSUME TypeInv, AgreementInv, NEW a \in Agents, NEW h \in Handlers, DxCloseInvitation(a, h)
  PROVE  AgreementInv'
  <1> DEFINE k == tasks[a][h]
             n == [k EXCEPT !.pc = "dx-processComplete"]
  <1>1. h \in Slots /\ k.pc \in LateSteps
    BY DEF DxCloseInvitation, At, Slots, LateSteps
  <1>2. /\ k \in Tasks /\ conns[a][k.id] # None /\ conns[a][k.id].state \notin Young
        /\ Extends(conns[a][k.id], k.conn) /\ SoundRecord(conns, a, k.id, k.conn)
    BY <1>1, LateTask
  <1>3. Continue(a, h, n) /\ SentAreSound
    BY NothingSent DEF DxCloseInvitation
  <1>4. n.pc \in LateSteps \ ResponseSteps /\ n.id = k.id /\ n.conn = k.conn
    BY <1>2 DEF Tasks, LateSteps, ResponseSteps
  <1> HIDE DEF n
  <1>5. SoundTask(conns, a, h, n) /\ n.pc \notin YoungSteps
    BY <1>2, <1>4, LateCopyIsSound
  <1> QED
    BY <1>1, <1>3, <1>5, TaskKeeps DEF DxCloseInvitation

LEMMA DxProcessCompleteAgrees ==
  ASSUME TypeInv, AgreementInv, NEW a \in Agents, NEW h \in Handlers, DxProcessComplete(a, h)
  PROVE  AgreementInv'
  <1> DEFINE k == tasks[a][h]
             r == [k.conn EXCEPT !.state = NextState("dx-complete", k.conn)]
  <1>1. h \in Slots /\ k.pc \in LateSteps
    BY DEF DxProcessComplete, At, Slots, LateSteps
  <1>2. /\ k.id \in ConnIds /\ k.conn \in ConnectionRecords
        /\ SoundRecord(conns, a, k.id, k.conn) /\ k.conn.state \notin Young
    BY <1>1, LateTask
  <1>3. Finish(a, h) /\ SentAreSound
    BY NothingSent DEF DxProcessComplete
  <1>4. CASE UNCHANGED conns
    BY <1>1, <1>3, <1>4, FinishKeeps
  <1>5. CASE CanProcess("dx-complete", k.conn) /\ SaveConnection(a, k.id, r)
    <2>1. k.conn.role = "responder"
      BY <1>5 DEF CanProcess, ProcessMessageRules, Rule
    <2>2. r \in ConnectionRecords /\ r.role = "responder" /\ r.state = "completed"
          /\ r.inv = k.conn.inv /\ r.thread = k.conn.thread /\ r.did = k.conn.did
          /\ r.theirDid = k.conn.theirDid
      BY <1>2, <2>1, ResponderNextStates DEF ConnectionRecords, ConnStates
    <2> HIDE DEF r
    <2>3. Extends(k.conn, r) /\ r.state \notin Young
      BY <2>1, <2>2 DEF Extends, Young
    <2>4. LaterIn(conns, conns')
      BY <1>1, <1>5, <2>2, <2>3, LateWriteIsLater
    <2>5. SoundRecord(conns', a, k.id, r)
      BY <1>2, <2>1, <2>2, <2>3, <2>4, RequestLater DEF SoundRecord, ResponderStates
    <2> QED
      BY <1>1, <1>3, <1>5, <2>2, <2>3, <2>5, LateWriteKeeps
  <1> QED
    BY <1>4, <1>5 DEF DxProcessComplete

LEMMA DidExchangeAgrees ==
  ASSUME TypeInv, DidsStored, AgreementInv, DidExchangeNext
  PROVE  AgreementInv'
  <1>1. PICK a \in Agents :
    \/ \E s \in Callers :
         DxCreateConnection(a, s) \/ DxCreateRequestDid(a, s) \/ DxSendRequest(a, s)
    \/ \E t \in Slots :
         DxCreateResponseDid(a, t) \/ DxSendResponse(a, t) \/ DxCreateComplete(a, t)
    \/ \E h \in Handlers :
         \/ \E m \in net : \/ DxReceiveRequest(a, h, m)
                           \/ DxReceiveResponse(a, h, m)
                           \/ DxReceiveComplete(a, h, m)
         \/ DxSaveRequesterDid(a, h)  \/ DxCreateResponder(a, h)
         \/ DxSaveResponderDid(a, h)  \/ DxResponseReceived(a, h)
         \/ DxSendComplete(a, h)
         \/ DxCloseInvitation(a, h)   \/ DxProcessComplete(a, h)
    BY DEF DidExchangeNext
  <1> QED
    BY <1>1, DxCreateConnectionAgrees, DxCreateRequestDidAgrees, DxSendRequestAgrees,
       DxCreateResponseDidAgrees, DxSendResponseAgrees, DxCreateCompleteAgrees,
       DxReceiveRequestAgrees, DxReceiveResponseAgrees, DxReceiveCompleteAgrees,
       DxSaveRequesterDidAgrees, DxCreateResponderAgrees, DxSaveResponderDidAgrees,
       DxResponseReceivedAgrees, DxSendCompleteAgrees, DxCloseInvitationAgrees,
       DxProcessCompleteAgrees

-------------------------------------------------------------------------------
(* The connection protocol *)

LEMMA CxCreateRequestDidAgrees ==
  ASSUME TypeInv, AgreementInv, NEW a \in Agents, NEW s \in Callers, CxCreateRequestDid(a, s)
  PROVE  AgreementInv'
  <1> DEFINE k == tasks[a][s]
             d == [key |-> RoutingKey(a), n |-> 0]
             r == [role |-> "requester", state |-> "invitation-received",
                   protocol |-> "connections", thread |-> None,
                   inv |-> k.inv, did |-> d, theirDid |-> None]
             n == [k EXCEPT !.pc = "cx-createConnection", !.conn = r]
  <1>1. s \in Slots /\ k \in Tasks
    BY TaskIsSound DEF Slots, SoundTasks
  <1>2. Continue(a, s, n) \/ Finish(a, s)
    BY DEF CxCreateRequestDid
  <1>3. r.role = "requester" /\ r.state = "invitation-received" /\ r.inv = k.inv
        /\ r.theirDid = None
    OBVIOUS
  <1> HIDE DEF r
  <1>4. n.pc = "cx-createConnection" /\ n.conn = r /\ n.inv = k.inv
    BY <1>1 DEF Tasks
  <1> HIDE DEF n
  <1>5. SoundTask(conns, a, s, n)
    BY <1>3, <1>4
    DEF SoundTask, RequestSteps, ResponseSteps, RequesterSteps, ResponderSteps, YoungSteps,
        LateSteps
  <1>6. UNCHANGED conns /\ SentAreSound
    BY NothingSent DEF CxCreateRequestDid
  <1> QED
    BY <1>1, <1>2, <1>4, <1>5, <1>6, TaskKeeps, FinishKeeps
    DEF YoungSteps, RequesterSteps, ResponderSteps

LEMMA CxCreateConnectionAgrees ==
  ASSUME TypeInv, AgreementInv, NEW a \in Agents, NEW s \in Callers, CxCreateConnection(a, s)
  PROVE  AgreementInv'
  <1> DEFINE k == tasks[a][s]
             r(c) == [k.conn EXCEPT !.thread = [agent |-> a, conn |-> c]]
             n(c) == [k EXCEPT !.pc = "cx-sendRequest", !.id = c, !.conn = r(c)]
  <1>1. s \in Slots /\ k.pc = "cx-createConnection"
    BY DEF CxCreateConnection, At, Slots
  <1>2. /\ k \in Tasks /\ k.conn \in ConnectionRecords
        /\ k.conn.role = "requester" /\ k.conn.state = "invitation-received"
        /\ k.conn.theirDid = None /\ k.conn.inv = k.inv
    <2>1. k \in SoundTasks(s) /\ SoundTask(conns, a, s, k)
      BY <1>1, TaskIsSound, TaskAgrees
    <2>2. k \in Tasks /\ k.conn \in ConnectionRecords
      BY <1>1, <2>1 DEF SoundTasks, SoundRecords
    <2> QED
      BY <1>1, <2>1, <2>2 DEF SoundTask
  <1>3. PICK c \in ConnIds :
          conns[a][c] = None /\ SaveConnection(a, c, r(c)) /\ Continue(a, s, n(c))
    BY DEF CxCreateConnection, FreshConnId
  <1>4. r(c) \in ConnectionRecords /\ r(c).role = "requester"
        /\ r(c).state = "invitation-received" /\ r(c).theirDid = None /\ r(c).inv = k.inv
        /\ r(c).thread = [agent |-> a, conn |-> c] /\ r(c) # None
    BY <1>2, NoneAssumption DEF ConnectionRecords, Threads
  <1> HIDE DEF r
  <1>5. n(c).pc = "cx-sendRequest" /\ n(c).id = c /\ n(c).conn = r(c) /\ n(c).inv = k.inv
    BY <1>2 DEF Tasks
  <1> HIDE DEF n
  <1>6. conns'[a][c] = r(c)
    BY <1>3, <1>4, WriteIsLater
  <1>7. SoundRecord(conns', a, c, r(c))
    BY <1>4 DEF SoundRecord, RequesterStates, Young
  <1>8. SoundTask(conns', a, s, n(c))
    BY <1>4, <1>5, <1>6
    DEF SoundTask, YoungCopy, Young, RequestSteps, ResponseSteps, RequesterSteps,
        ResponderSteps, YoungSteps, LateSteps
  <1> QED
    BY <1>1, <1>3, <1>4, <1>5, <1>7, <1>8, WriteKeeps, NothingSent DEF CxCreateConnection

LEMMA CxSendRequestAgrees ==
  ASSUME TypeInv, AgreementInv, NEW a \in Agents, NEW s \in Callers, CxSendRequest(a, s)
  PROVE  AgreementInv'
  <1> DEFINE k  == tasks[a][s]
             th == [agent |-> a, conn |-> k.id]
             r  == [k.conn EXCEPT !.state = "request-sent"]
             m  == [type |-> "cx-request", from |-> r.did.key, to |-> InvitationKey(k.inv),
                    thread |-> r.thread, inv |-> k.inv, did |-> r.did]
  <1>1. s \in Slots /\ k.pc = "cx-sendRequest" /\ k.pc \in YoungSteps
    BY DEF CxSendRequest, At, Slots, YoungSteps, RequesterSteps
  <1>2. k.id \in ConnIds /\ k.conn \in ConnectionRecords /\ SoundTask(conns, a, s, k)
        /\ YoungCopy(conns[a][k.id], k.conn) /\ Writes(a, s, k.id)
    BY <1>1, YoungTask, TaskAgrees
  <1>3. k.conn.role = "requester" /\ k.conn.inv = k.inv /\ k.conn.thread = th
    BY <1>1, <1>2 DEF SoundTask, RequesterSteps
  <1>4. th \in Threads
    BY <1>2 DEF Threads
  <1>5. r \in ConnectionRecords /\ r.role = "requester" /\ r.state = "request-sent"
        /\ r.thread = th /\ r.inv = k.inv /\ r.did = k.conn.did
    BY <1>2, <1>3 DEF ConnectionRecords, ConnStates
  <1>6. SaveConnection(a, k.id, r) /\ Send(m) /\ Finish(a, s)
    BY DEF CxSendRequest
  <1> HIDE DEF r
  <1>7. conns[a][k.id] # None /\ Extends(conns[a][k.id], r)
    BY <1>2, <1>3, <1>5 DEF YoungCopy, Extends
  <1>8. conns'[a][k.id] = r /\ r # None
    BY <1>2, <1>5, <1>6, <1>7, WriteIsLater, NoneAssumption
  <1>9. SoundRecord(conns', a, k.id, r)
    BY <1>5 DEF SoundRecord, RequesterStates, Young
  <1>10. m.type = "cx-request" /\ m.from = m.did.key /\ m.thread = th /\ m.did = r.did
         /\ m.to.agent = Owner[k.inv] /\ th.agent = a /\ th.conn = k.id
    BY <1>5 DEF InvitationKey
  <1> HIDE DEF th, m
  <1>11. SoundMessage(conns', m)
    BY <1>4, <1>5, <1>8, <1>10 DEF SoundMessage, Requests, Responses, RequestIn, Young
  <1> QED
    BY <1>1, <1>2, <1>5, <1>6, <1>7, <1>9, <1>11, LastWriteKeeps, OneSent

LEMMA CxReceiveRequestAgrees ==
  ASSUME TypeInv, AgreementInv, DidsStored, NEW a \in Agents, NEW h \in Handlers, NEW m \in net,
         CxReceiveRequest(a, h, m)
  PROVE  AgreementInv'
  <1> DEFINE n(i) == [Idle EXCEPT !.pc = "cx-saveRequesterDid", !.msg = m,
                                  !.inv = i, !.oob = oob[a]["sender"][i]]
  <1>1. /\ h \in Slots /\ m \in SoundMessages /\ m.type = "cx-request" /\ m.to.agent = a
        /\ SoundMessage(conns, m) /\ SentAreSound
    BY DeliveredAgrees DEF CxReceiveRequest
  <1>2. PICK i \in Invitations : CxRequestAcceptable(a, i, m) /\ Continue(a, h, n(i))
    BY DEF CxReceiveRequest
  <1>3. UnansweredIn(conns, a, m.thread)
    BY <1>1, <1>2, NewRequestIsUnanswered DEF CxRequestAcceptable, Requests
  <1>4. n(i).pc = "cx-saveRequesterDid" /\ n(i).msg = m
    BY DEF Idle
  <1> HIDE DEF n
  <1>5. SoundTask(conns, a, h, n(i))
    BY <1>1, <1>3, <1>4
    DEF SoundTask, RequestSteps, ResponseSteps, RequesterSteps, ResponderSteps, YoungSteps,
        LateSteps, Requests
  <1> QED
    BY <1>1, <1>2, <1>4, <1>5, TaskKeeps
    DEF CxReceiveRequest, YoungSteps, RequesterSteps, ResponderSteps

LEMMA CxSaveRequesterDidAgrees ==
  ASSUME TypeInv, AgreementInv, NEW a \in Agents, NEW h \in Handlers, CxSaveRequesterDid(a, h)
  PROVE  AgreementInv'
  <1> DEFINE k == tasks[a][h]
             n == [k EXCEPT !.pc = "cx-createResponder"]
  <1>1. h \in Slots /\ k.pc = "cx-saveRequesterDid"
    BY DEF CxSaveRequesterDid, At, Slots
  <1>2. k \in Tasks /\ SoundTask(conns, a, h, k)
    BY <1>1, TaskIsSound, TaskAgrees DEF SoundTasks
  <1>3. Continue(a, h, n)
    BY DEF CxSaveRequesterDid
  <1>4. n.pc = "cx-createResponder" /\ n.msg = k.msg
    BY <1>2 DEF Tasks
  <1> HIDE DEF n
  <1>5. SoundTask(conns, a, h, n)
    BY <1>1, <1>2, <1>4
    DEF SoundTask, RequestSteps, ResponseSteps, RequesterSteps, ResponderSteps, YoungSteps,
        LateSteps
  <1> QED
    BY <1>1, <1>3, <1>4, <1>5, TaskKeeps, NothingSent
    DEF CxSaveRequesterDid, YoungSteps, RequesterSteps, ResponderSteps

LEMMA CxCreateResponderAgrees ==
  ASSUME TypeInv, AgreementInv, NEW a \in Agents, NEW h \in Handlers, CxCreateResponder(a, h)
  PROVE  AgreementInv'
  <1> DEFINE k == tasks[a][h]
             r == [role |-> "responder", state |-> "request-received",
                   protocol |-> "connections", thread |-> k.msg.thread, inv |-> k.inv,
                   did |-> None, theirDid |-> k.msg.did]
             n(c) == [k EXCEPT !.pc = "cx-createResponseDid", !.id = c, !.conn = r]
  <1>1. h \in Slots /\ k \in Tasks /\ k.inv \in Invitations /\ k.msg \in Messages
        /\ k.msg.did \in PeerDids
    BY TaskIsSound
    DEF CxCreateResponder, At, Slots, SoundTasks, UsesInvitation, UsesMessage, SoundMessages
  <1>2. /\ k.msg.type \in Requests /\ SoundMessage(conns, k.msg) /\ k.msg.to.agent = a
        /\ OneHandler => UnansweredIn(conns, a, k.msg.thread)
    BY <1>1, TaskAgrees DEF CxCreateResponder, At, SoundTask, RequestSteps
  <1>3. PICK c \in ConnIds :
          /\ conns[a][c] = None /\ SaveConnection(a, c, r)
          /\ (a \in AutoAccept /\ Continue(a, h, n(c))) \/ Finish(a, h)
    BY DEF CxCreateResponder, FreshConnId
  <1>4. r \in ConnectionRecords /\ r.role = "responder" /\ r.state = "request-received"
        /\ r.did = None /\ r.thread = k.msg.thread /\ r.theirDid = k.msg.did
    BY <1>1 DEF ConnectionRecords, ConnRoles, ConnStates, ConnectionProtocols, Messages
  <1> HIDE DEF r
  <1>5. n(c).pc = "cx-createResponseDid" /\ n(c).id = c /\ n(c).conn = r
    BY <1>1 DEF Tasks
  <1> HIDE DEF n
  <1>6. conns'[a][c] = r /\ LaterIn(conns, conns') /\ r # None
    BY <1>3, <1>4, WriteIsLater, NoneAssumption
  <1>7. SoundRecord(conns', a, c, r)
    BY <1>2, <1>4, <1>6, RequestLater DEF SoundRecord, SoundMessage, ResponderStates
  <1>8. a \in AutoAccept => SoundTask(conns', a, h, n(c))
    BY <1>4, <1>5, <1>6
    DEF SoundTask, YoungCopy, Young, RequestSteps, ResponseSteps, RequesterSteps,
        ResponderSteps, LateSteps
  <1>9. SentAreSound
    BY NothingSent DEF CxCreateResponder
  <1> QED
    BY <1>1, <1>2, <1>3, <1>4, <1>5, <1>7, <1>8, <1>9, WriteKeeps, LastWriteKeeps

LEMMA CxCreateResponseDidAgrees ==
  ASSUME TypeInv, AgreementInv, NEW a \in Agents, NEW t \in Slots, CxCreateResponseDid(a, t)
  PROVE  AgreementInv'
  <1> DEFINE k == tasks[a][t]
             d == [key |-> IF Reusable[k.inv] THEN RoutingKey(a) ELSE InvitationKey(k.inv),
                   n |-> 0]
             n == [k EXCEPT !.pc = "cx-sendResponse", !.conn.did = d]
  <1>1. k.pc = "cx-createResponseDid" /\ k.pc \in YoungSteps
    BY DEF CxCreateResponseDid, At, YoungSteps, ResponderSteps
  <1>2. k \in Tasks /\ k.conn \in ConnectionRecords /\ SoundTask(conns, a, t, k)
        /\ YoungCopy(conns[a][k.id], k.conn) /\ \A u \in Slots : Writes(a, u, k.id) => u = t
    BY <1>1, YoungTask, TaskAgrees
  <1>3. Continue(a, t, n) \/ Finish(a, t)
    BY DEF CxCreateResponseDid
  <1> HIDE DEF d
  <1>4. n.pc = "cx-sendResponse" /\ n.id = k.id /\ n.inv = k.inv /\ n.conn.role = k.conn.role
        /\ n.conn.state = k.conn.state /\ n.conn.inv = k.conn.inv
        /\ n.conn.thread = k.conn.thread /\ n.conn.theirDid = k.conn.theirDid
    BY <1>2 DEF Tasks, ConnectionRecords
  <1> HIDE DEF n
  <1>5. SoundTask(conns, a, t, n)
    BY <1>1, <1>2, <1>4
    DEF SoundTask, YoungCopy, YoungSteps, RequestSteps, ResponseSteps, RequesterSteps,
        ResponderSteps, LateSteps
  <1>6. UNCHANGED conns /\ SentAreSound
    BY NothingSent DEF CxCreateResponseDid
  <1> QED
    BY <1>2, <1>3, <1>4, <1>5, <1>6, TaskKeeps, FinishKeeps

LEMMA CxSendResponseAgrees ==
  ASSUME TypeInv, AgreementInv, NEW a \in Agents, NEW t \in Slots, CxSendResponse(a, t)
  PROVE  AgreementInv'
  <1> DEFINE k == tasks[a][t]
             r == [k.conn EXCEPT !.state = "response-sent"]
             m == [type |-> "cx-response", from |-> r.did.key, to |-> r.theirDid.key,
                   thread |-> r.thread, inv |-> k.inv, did |-> r.did]
  <1>1. k.pc = "cx-sendResponse" /\ k.pc \in YoungSteps
    BY DEF CxSendResponse, At, YoungSteps, ResponderSteps
  <1>2. k.id \in ConnIds /\ k.conn \in ConnectionRecords /\ SoundTask(conns, a, t, k)
        /\ YoungCopy(conns[a][k.id], k.conn) /\ Writes(a, t, k.id)
        /\ SoundRecord(conns, a, k.id, conns[a][k.id])
    BY <1>1, YoungTask, TaskAgrees
  <1>3. k.conn.role = "responder"
    BY <1>1, <1>2 DEF SoundTask, ResponderSteps
  <1>5. r \in ConnectionRecords /\ r.role = "responder" /\ r.state = "response-sent"
        /\ r.thread = k.conn.thread /\ r.inv = k.conn.inv /\ r.theirDid = k.conn.theirDid
    BY <1>2, <1>3 DEF ConnectionRecords, ConnStates
  <1>6. SaveConnection(a, k.id, r) /\ Send(m) /\ Finish(a, t)
    BY DEF CxSendResponse
  <1> HIDE DEF r
  <1>7. conns[a][k.id] # None /\ Extends(conns[a][k.id], r)
    BY <1>2, <1>3, <1>5 DEF YoungCopy, Extends
  <1>8. conns'[a][k.id] = r /\ LaterIn(conns, conns') /\ r # None
    BY <1>2, <1>5, <1>6, <1>7, WriteIsLater, NoneAssumption
  <1>9. RequestIn(conns', r.thread, r.theirDid, a)
    BY <1>2, <1>3, <1>5, <1>8, RequestLater DEF YoungCopy, SoundRecord
  <1>10. SoundRecord(conns', a, k.id, r)
    BY <1>5, <1>9 DEF SoundRecord, ResponderStates, Young
  <1>11. m.type = "cx-response" /\ m.thread = r.thread /\ m.did = r.did
    OBVIOUS
  <1> HIDE DEF m
  <1>12. AnswerIn(conns', a, k.id, m.thread, m.did)
    BY <1>5, <1>8, <1>11 DEF AnswerIn, Young
  <1>13. SoundMessage(conns', m)
    BY <1>2, <1>11, <1>12 DEF SoundMessage, Requests, Responses
  <1> QED
    BY <1>2, <1>5, <1>6, <1>7, <1>10, <1>13, LastWriteKeeps, OneSent

LEMMA CxReceiveResponseAgrees ==
  ASSUME TypeInv, AgreementInv, NEW a \in Agents, NEW h \in Handlers, NEW m \in net,
         CxReceiveResponse(a, h, m)
  PROVE  AgreementInv'
  <1> DEFINE r(c) == conns[a][c]
             n(c) == [pc |-> "cx-saveResponderDid", msg |-> m, inv |-> r(c).inv,
                      oob |-> oob[a]["receiver"][r(c).inv], id |-> c, conn |-> r(c)]
  <1>1. /\ h \in Slots /\ m.type = "cx-response" /\ SoundMessage(conns, m) /\ SentAreSound
    BY DeliveredAgrees DEF CxReceiveResponse
  <1>2. PICK c \in ConnIds : CxResponseAcceptable(a, c, m) /\ Continue(a, h, n(c))
    BY DEF CxReceiveResponse
  <1>3. /\ r(c) # None /\ r(c).role = "requester" /\ r(c).thread = m.thread
        /\ r(c).state = "request-sent"
    BY <1>2 DEF CxResponseAcceptable, ConnectionsByThread
  <1>5. SoundRecord(conns, a, c, r(c)) /\ Extends(r(c), r(c))
    BY <1>3, ReadRecord
  <1>6. n(c).pc = "cx-saveResponderDid" /\ n(c).msg = m /\ n(c).id = c /\ n(c).conn = conns[a][c]
    OBVIOUS
  <1> HIDE DEF n
  <1>7. SoundTask(conns, a, h, n(c))
    BY <1>1, <1>3, <1>5, <1>6
    DEF SoundTask, Young, RequestSteps, ResponseSteps, RequesterSteps, ResponderSteps,
        YoungSteps, LateSteps, Responses
  <1> QED
    BY <1>1, <1>2, <1>6, <1>7, TaskKeeps
    DEF CxReceiveResponse, YoungSteps, RequesterSteps, ResponderSteps

LEMMA CxSaveResponderDidAgrees ==
  ASSUME TypeInv, AgreementInv, NEW a \in Agents, NEW h \in Handlers, CxSaveResponderDid(a, h)
  PROVE  AgreementInv'
  <1> DEFINE k == tasks[a][h]
             n == [k EXCEPT !.pc = "cx-responseReceived"]
  <1>1. h \in Slots /\ k.pc = "cx-saveResponderDid"
    BY DEF CxSaveResponderDid, At, Slots
  <1>2. k \in Tasks /\ SoundTask(conns, a, h, k)
    BY <1>1, TaskIsSound, TaskAgrees DEF SoundTasks
  <1>3. Continue(a, h, n)
    BY DEF CxSaveResponderDid
  <1>4. n.pc = "cx-responseReceived" /\ n.msg = k.msg /\ n.id = k.id /\ n.conn = k.conn
    BY <1>2 DEF Tasks
  <1> HIDE DEF n
  <1>5. SoundTask(conns, a, h, n)
    BY <1>1, <1>2, <1>4
    DEF SoundTask, RequestSteps, ResponseSteps, RequesterSteps, ResponderSteps, YoungSteps,
        LateSteps
  <1> QED
    BY <1>1, <1>3, <1>4, <1>5, TaskKeeps, NothingSent
    DEF CxSaveResponderDid, YoungSteps, RequesterSteps, ResponderSteps

LEMMA CxResponseReceivedAgrees ==
  ASSUME TypeInv, AgreementInv, NEW a \in Agents, NEW h \in Handlers, CxResponseReceived(a, h)
  PROVE  AgreementInv'
  <1> DEFINE k == tasks[a][h]
             r == [k.conn EXCEPT !.theirDid = k.msg.did, !.thread = k.msg.thread,
                                 !.state = "response-received"]
             n == [k EXCEPT !.pc = "cx-sendPing", !.conn = r]
  <1>1. h \in Slots /\ k.pc = "cx-responseReceived" /\ k.pc \in ResponseSteps
        /\ k.pc \in LateSteps
    BY DEF CxResponseReceived, At, Slots, ResponseSteps, LateSteps
  <1>2. /\ k \in Tasks /\ k.id \in ConnIds /\ k.conn \in ConnectionRecords
        /\ SoundRecord(conns, a, k.id, k.conn) /\ k.conn.state \notin Young
    BY <1>1, LateTask
  <1>3. k.msg.did \in PeerDids
    BY <1>1, TaskIsSound DEF SoundTasks, UsesMessage
  <1>4. k.conn.role = "requester" /\ k.msg.thread = k.conn.thread
    <2>1. SoundTask(conns, a, h, k)
      BY <1>1, TaskAgrees
    <2> QED
      BY <1>1, <2>1 DEF SoundTask
  <1>5. r \in ConnectionRecords /\ r.role = "requester" /\ r.state = "response-received"
        /\ r.inv = k.conn.inv /\ r.thread = k.conn.thread /\ r.did = k.conn.did
        /\ r.theirDid = k.msg.did
    BY <1>2, <1>3, <1>4 DEF ConnectionRecords, ConnStates
  <1>6. SaveConnection(a, k.id, r) /\ (Continue(a, h, n) \/ Finish(a, h))
    BY DEF CxResponseReceived
  <1> HIDE DEF r
  <1>7. Extends(k.conn, r) /\ r.state \notin Young
    BY <1>4, <1>5 DEF Extends, Young
  <1>8. LaterIn(conns, conns')
    BY <1>1, <1>5, <1>6, <1>7, LateWriteIsLater
  <1>9. MatchedIn(conns, r)
    BY <1>1, <1>5, ResponseMatches DEF MatchedIn
  <1>10. SoundRecord(conns', a, k.id, r)
    BY <1>2, <1>4, <1>5, <1>7, <1>8, <1>9, MatchedLater DEF SoundRecord, RequesterStates
  <1>11. n.pc = "cx-sendPing" /\ n.id = k.id /\ n.conn = r
    BY <1>2 DEF Tasks
  <1> HIDE DEF n
  <1> QED
    BY <1>1, <1>5, <1>6, <1>7, <1>10, <1>11, LateWriteKeeps, NothingSent
    DEF CxResponseReceived, LateSteps, ResponseSteps

LEMMA CxSendPingAgrees ==
  ASSUME TypeInv, AgreementInv, NEW a \in Agents, NEW t \in Slots, CxSendPing(a, t)
  PROVE  AgreementInv'
  <1> DEFINE k == tasks[a][t]
             r == [k.conn EXCEPT !.state = "completed"]
             m == [type |-> "ping", from |-> k.conn.did.key, to |-> k.conn.theirDid.key,
                   thread |-> None, inv |-> None, did |-> None]
  <1>1. k.pc \in LateSteps
    BY DEF CxSendPing, At, LateSteps
  <1>2. /\ k.id \in ConnIds /\ k.conn \in ConnectionRecords
        /\ SoundRecord(conns, a, k.id, k.conn) /\ k.conn.state \notin Young
    BY <1>1, LateTask
  <1>3. Finish(a, t)
    BY DEF CxSendPing
  <1>4. SentAreSound
    <2>1. UNCHANGED net \/ Send(m)
      BY DEF CxSendPing
    <2>2. m.type \notin Requests \cup Responses
      BY DEF Requests, Responses
    <2> QED
      BY <2>1, <2>2, NothingSent, OneSent, OthersProveNothing
  <1>5. CASE UNCHANGED conns
    BY <1>3, <1>4, <1>5, FinishKeeps
  <1>6. CASE k.conn.state = "response-received" /\ SaveConnection(a, k.id, r)
    <2>1. r \in ConnectionRecords /\ r.state = "completed" /\ r.role = k.conn.role
          /\ r.inv = k.conn.inv /\ r.thread = k.conn.thread /\ r.did = k.conn.did
          /\ r.theirDid = k.conn.theirDid
      BY <1>2 DEF ConnectionRecords, ConnStates
    <2> HIDE DEF r
    <2>2. Extends(k.conn, r) /\ r.state \notin Young
      BY <2>1 DEF Extends, Young
    <2>3. LaterIn(conns, conns')
      BY <1>1, <1>6, <2>1, <2>2, LateWriteIsLater
    <2>4. k.conn.role = "requester" /\ MatchedIn(conns, r)
      BY <1>2, <1>6, <2>1
      DEF SoundRecord, ResponderStates, MatchedIn, ConnectionRecords, ConnRoles
    <2>5. SoundRecord(conns', a, k.id, r)
      BY <1>2, <2>1, <2>2, <2>3, <2>4, MatchedLater DEF SoundRecord, RequesterStates
    <2> QED
      BY <1>1, <1>3, <1>4, <1>6, <2>1, <2>2, <2>5, LateWriteKeeps
  <1> QED
    BY <1>5, <1>6 DEF CxSendPing

LEMMA CxReceivePingAgrees ==
  ASSUME TypeInv, AgreementInv, NEW a \in Agents, NEW h \in Handlers, NEW m \in net,
         CxReceivePing(a, h, m)
  PROVE  AgreementInv'
  <1> DEFINE n(c) == [Idle EXCEPT !.pc = "cx-complete", !.msg = m,
                                  !.id = c, !.conn = conns[a][c]]
  <1>1. h \in Slots /\ SentAreSound
    BY DeliveredAgrees DEF CxReceivePing
  <1>2. PICK c \in ConnIds : PingCompletes(a, c, m) /\ Continue(a, h, n(c))
    BY DEF CxReceivePing
  <1>3. conns[a][c] # None /\ conns[a][c].state = "response-sent"
    BY <1>2
    DEF PingCompletes, ContextConnections, FindByKeys, ByKeys, ConnectionsByDids
  <1>4. conns[a][c].state \notin Young
    BY <1>3 DEF Young
  <1>5. n(c).pc \in LateSteps \ ResponseSteps /\ n(c).id = c /\ n(c).conn = conns[a][c]
    BY DEF LateSteps, ResponseSteps, Idle
  <1> HIDE DEF n
  <1>6. SoundTask(conns, a, h, n(c)) /\ n(c).pc \notin YoungSteps
    BY <1>3, <1>4, <1>5, LateCopyIsSound, ReadRecord
  <1> QED
    BY <1>1, <1>2, <1>6, TaskKeeps DEF CxReceivePing

LEMMA CxCompleteAgrees ==
  ASSUME TypeInv, AgreementInv, NEW a \in Agents, NEW h \in Handlers, CxComplete(a, h)
  PROVE  AgreementInv'
  <1> DEFINE k == tasks[a][h]
             r == [k.conn EXCEPT !.state = "completed"]
  <1>1. h \in Slots /\ k.pc = "cx-complete" /\ k.pc \in LateSteps
    BY DEF CxComplete, At, Slots, LateSteps
  <1>2. /\ k.id \in ConnIds /\ k.conn \in ConnectionRecords
        /\ SoundRecord(conns, a, k.id, k.conn) /\ k.conn.state \notin Young
        /\ k.conn.state \in {"completed", "response-sent"}
    BY <1>1, LateTask, TaskIsSound DEF SoundTasks, IsReady
  <1>3. SaveConnection(a, k.id, r) /\ Finish(a, h) /\ SentAreSound
    BY NothingSent DEF CxComplete
  <1>4. r \in ConnectionRecords /\ r.state = "completed" /\ r.role = k.conn.role
        /\ r.inv = k.conn.inv /\ r.thread = k.conn.thread /\ r.did = k.conn.did
        /\ r.theirDid = k.conn.theirDid
    BY <1>2 DEF ConnectionRecords, ConnStates
  <1> HIDE DEF r
  <1>5. Extends(k.conn, r) /\ r.state \notin Young
    BY <1>4 DEF Extends, Young
  <1>6. LaterIn(conns, conns')
    BY <1>1, <1>3, <1>4, <1>5, LateWriteIsLater
  <1>7. k.conn.role = "requester" => MatchedIn(conns, r)
    BY <1>2, <1>4 DEF SoundRecord, RequesterStates, MatchedIn
  <1>8. SoundRecord(conns', a, k.id, r)
    BY <1>2, <1>4, <1>5, <1>6, <1>7, MatchedLater, RequestLater
    DEF SoundRecord, RequesterStates, ResponderStates
  <1> QED
    BY <1>1, <1>3, <1>4, <1>5, <1>8, LateWriteKeeps

LEMMA PeerReportsProblemAgrees ==
  ASSUME TypeInv, AgreementInv, NEW a \in Agents, NEW c \in ConnIds, PeerReportsProblem(a, c)
  PROVE  AgreementInv'
  <1>1. SentAreSound
    BY OneSent, OthersProveNothing DEF PeerReportsProblem, Requests, Responses
  <1> QED
    BY <1>1, QuietKeeps DEF PeerReportsProblem

\* A problem report finds its connection by the DIDs of both ends: a message was sent.
LEMMA CxReceiveProblemReportAgrees ==
  ASSUME TypeInv, AgreementInv, NEW a \in Agents, NEW h \in Handlers, NEW m \in net,
         CxReceiveProblemReport(a, h, m)
  PROVE  AgreementInv'
  <1> DEFINE n(c) == [Idle EXCEPT !.pc = "cx-abandon", !.msg = m,
                                  !.id = c, !.conn = conns[a][c]]
  <1>1. h \in Slots /\ SentAreSound
    BY DeliveredAgrees DEF CxReceiveProblemReport
  <1>2. PICK c \in ConnIds : ReportConcerns(a, c, m) /\ Continue(a, h, n(c))
    BY DEF CxReceiveProblemReport
  <1>3. PICK p \in DidsByKey(a, "created", m.to) :
          ConnectionsByOurDid(a, dids[a][p].did) = {c}
    BY <1>2 DEF ReportConcerns
  <1>4. conns[a][c] # None /\ conns[a][c].did = dids[a][p].did /\ conns[a][c].theirDid # None
    BY <1>2, <1>3 DEF ReportConcerns, ConnectionsByOurDid
  <1>5. conns[a][c].did # None
    <2>1. dids[a] \in Seq(DidRecords) /\ p \in DOMAIN dids[a]
      BY DEF TypeInv, DidsType, DidsByKey
    <2>2. dids[a][p] \in DidRecords
      BY <2>1
    <2> QED
      BY <1>4, <2>2, NoneAssumption DEF DidRecords
  <1>6. conns[a][c].state \notin Young
    BY <1>4, <1>5, ReadRecord DEF SoundRecord, ConnectionRecords, ConnRoles
  <1>7. n(c).pc \in LateSteps \ ResponseSteps /\ n(c).id = c /\ n(c).conn = conns[a][c]
    BY DEF LateSteps, ResponseSteps, Idle
  <1> HIDE DEF n
  <1>8. SoundTask(conns, a, h, n(c)) /\ n(c).pc \notin YoungSteps
    BY <1>4, <1>6, <1>7, LateCopyIsSound, ReadRecord
  <1> QED
    BY <1>1, <1>2, <1>8, TaskKeeps DEF CxReceiveProblemReport

LEMMA CxAbandonAgrees ==
  ASSUME TypeInv, AgreementInv, NEW a \in Agents, NEW h \in Handlers, CxAbandon(a, h)
  PROVE  AgreementInv'
  <1> DEFINE k == tasks[a][h]
             r == [k.conn EXCEPT !.state = "abandoned"]
  <1>1. h \in Slots /\ k.pc \in LateSteps
    BY DEF CxAbandon, At, Slots, LateSteps
  <1>2. /\ k.id \in ConnIds /\ k.conn \in ConnectionRecords
        /\ SoundRecord(conns, a, k.id, k.conn) /\ k.conn.state \notin Young
    BY <1>1, LateTask
  <1>3. SaveConnection(a, k.id, r) /\ Finish(a, h) /\ SentAreSound
    BY NothingSent DEF CxAbandon
  <1>4. r \in ConnectionRecords /\ r.state = "abandoned" /\ r.role = k.conn.role
        /\ r.inv = k.conn.inv /\ r.thread = k.conn.thread /\ r.did = k.conn.did
        /\ r.theirDid = k.conn.theirDid
    BY <1>2 DEF ConnectionRecords, ConnStates
  <1> HIDE DEF r
  <1>5. Extends(k.conn, r) /\ r.state \notin Young
    BY <1>4 DEF Extends, Young
  <1>6. LaterIn(conns, conns')
    BY <1>1, <1>3, <1>4, <1>5, LateWriteIsLater
  <1>7. SoundRecord(conns', a, k.id, r)
    BY <1>2, <1>4, <1>5, <1>6, RequestLater DEF SoundRecord, RequesterStates, ResponderStates
  <1> QED
    BY <1>1, <1>3, <1>4, <1>5, <1>7, LateWriteKeeps

LEMMA ConnectionProtocolAgrees ==
  ASSUME TypeInv, DidsStored, AgreementInv, ConnectionProtocolNext
  PROVE  AgreementInv'
  <1>1. PICK a \in Agents :
    \/ \E s \in Callers :
         CxCreateRequestDid(a, s) \/ CxCreateConnection(a, s) \/ CxSendRequest(a, s)
    \/ \E t \in Slots :
         CxCreateResponseDid(a, t) \/ CxSendResponse(a, t) \/ CxSendPing(a, t)
    \/ \E h \in Handlers :
         \/ \E m \in net : \/ CxReceiveRequest(a, h, m)
                           \/ CxReceiveResponse(a, h, m)
                           \/ CxReceivePing(a, h, m)
                           \/ CxReceiveProblemReport(a, h, m)
         \/ CxSaveRequesterDid(a, h)  \/ CxCreateResponder(a, h)
         \/ CxSaveResponderDid(a, h)  \/ CxResponseReceived(a, h)
         \/ CxComplete(a, h)          \/ CxAbandon(a, h)
    \/ \E c \in ConnIds : PeerReportsProblem(a, c)
    BY DEF ConnectionProtocolNext
  <1> QED
    BY <1>1, CxCreateRequestDidAgrees, CxCreateConnectionAgrees, CxSendRequestAgrees,
       CxCreateResponseDidAgrees, CxSendResponseAgrees, CxSendPingAgrees,
       CxReceiveRequestAgrees, CxReceiveResponseAgrees, CxReceivePingAgrees,
       CxReceiveProblemReportAgrees, CxSaveRequesterDidAgrees, CxCreateResponderAgrees,
       CxSaveResponderDidAgrees, CxResponseReceivedAgrees, CxCompleteAgrees,
       CxAbandonAgrees, PeerReportsProblemAgrees

-------------------------------------------------------------------------------
(* The out-of-band protocol: no step of it is about a record *)

\* One task moves between quiet steps.
LEMMA QuietTaskKeeps ==
  ASSUME TypeInv, AgreementInv, UNCHANGED conns, SentAreSound,
         NEW a \in Agents, NEW t, NEW k, Continue(a, t, k), k.pc \in QuietSteps
  PROVE  AgreementInv'
  <1>1. \A b \in Agents, s \in Slots : tasks'[b][s] = tasks[b][s] \/ tasks'[b][s] = k
    BY DEF Continue, TypeInv, TasksType
  <1> QED
    BY <1>1, QuietKeeps

LEMMA AcceptInvitationAgrees ==
  ASSUME TypeInv, AgreementInv, NEW a \in Agents, NEW s \in Callers, NEW i \in Invitations,
         AcceptInvitation(a, s, i)
  PROVE  AgreementInv'
  <1>1. PICK k : Continue(a, s, k) /\ k.pc \in {"oob-createReuse", RequestPc(i)}
    <2> DEFINE prepared == [oob[a]["receiver"][i] EXCEPT !.state = "prepare-response"]
               reuse(c) == [Idle EXCEPT !.pc = "oob-createReuse", !.inv = i,
                                        !.oob = prepared, !.id = c, !.conn = conns[a][c]]
               new == [Idle EXCEPT !.pc = RequestPc(i), !.inv = i, !.oob = prepared]
    <2>1. (\E c : Continue(a, s, reuse(c))) \/ Continue(a, s, new)
      BY DEF AcceptInvitation
    <2>2. (\A c : reuse(c).pc = "oob-createReuse") /\ new.pc = RequestPc(i)
      BY DEF Idle
    <2> HIDE DEF reuse, new
    <2> QED
      BY <2>1, <2>2
  <1>2. k.pc \in QuietSteps
    BY <1>1 DEF RequestPc, QuietSteps
  <1> QED
    BY <1>1, <1>2, QuietTaskKeeps, NothingSent DEF AcceptInvitation

LEMMA CreateHandshakeReuseAgrees ==
  ASSUME TypeInv, AgreementInv, NEW a \in Agents, NEW s \in Callers, CreateHandshakeReuse(a, s)
  PROVE  AgreementInv'
  <1> DEFINE k == tasks[a][s]
             m == [type |-> "reuse", from |-> k.conn.did.key, to |-> k.conn.theirDid.key,
                   thread |-> None, inv |-> k.inv, did |-> None]
             n == [k EXCEPT !.pc = "oob-awaitReuse", !.oob = [k.oob EXCEPT !.reuse = k.id]]
  <1>1. s \in Slots /\ k \in Tasks
    BY TaskIsSound DEF Slots, SoundTasks
  <1>2. Continue(a, s, n) \/ Finish(a, s)
    BY DEF CreateHandshakeReuse
  <1>3. n.pc \in QuietSteps
    BY <1>1 DEF Tasks, QuietSteps
  <1>4. UNCHANGED net \/ Send(m)
    BY DEF CreateHandshakeReuse
  <1>5. m.type \notin Requests \cup Responses
    BY DEF Requests, Responses
  <1> HIDE DEF m, n
  <1>6. SentAreSound
    BY <1>4, <1>5, NothingSent, OneSent, OthersProveNothing
  <1> QED
    BY <1>1, <1>2, <1>3, <1>6, QuietTaskKeeps, FinishKeeps DEF CreateHandshakeReuse

LEMMA ReuseTimesOutAgrees ==
  ASSUME TypeInv, AgreementInv, NEW a \in Agents, NEW s \in Callers, ReuseTimesOut(a, s)
  PROVE  AgreementInv'
  <1> DEFINE k == tasks[a][s]
             n == [k EXCEPT !.pc = RequestPc(k.inv), !.id = None, !.conn = None]
  <1>1. k \in Tasks
    BY TaskIsSound DEF Slots, SoundTasks
  <1>2. n.pc = RequestPc(k.inv) /\ Continue(a, s, n)
    BY <1>1 DEF Tasks, ReuseTimesOut
  <1> HIDE DEF n
  <1>3. n.pc \in QuietSteps
    BY <1>2 DEF RequestPc, QuietSteps
  <1> QED
    BY <1>2, <1>3, QuietTaskKeeps, NothingSent DEF ReuseTimesOut

LEMMA ReceiveReuseAgrees ==
  ASSUME TypeInv, AgreementInv, NEW a \in Agents, NEW h \in Handlers, NEW m \in net,
         ReceiveReuse(a, h, m)
  PROVE  AgreementInv'
  <1> DEFINE n(c) == [pc |-> IF Reusable[m.inv] THEN "oob-acceptReuse" ELSE "oob-closeReused",
                      msg |-> m, inv |-> m.inv, oob |-> oob[a]["sender"][m.inv],
                      id |-> c, conn |-> conns[a][c]]
  <1>1. PICK c : Continue(a, h, n(c))
    BY DEF ReceiveReuse
  <1>2. n(c).pc \in QuietSteps
    BY DEF QuietSteps
  <1>3. SentAreSound
    BY DeliveredAgrees DEF ReceiveReuse
  <1> HIDE DEF n
  <1> QED
    BY <1>1, <1>2, <1>3, QuietTaskKeeps DEF ReceiveReuse

LEMMA CloseReusedInvitationAgrees ==
  ASSUME TypeInv, AgreementInv, NEW a \in Agents, NEW h \in Handlers, CloseReusedInvitation(a, h)
  PROVE  AgreementInv'
  <1> DEFINE k == tasks[a][h]
             n == [k EXCEPT !.pc = "oob-acceptReuse", !.oob = [k.oob EXCEPT !.state = "done"]]
  <1>1. k \in Tasks
    BY TaskIsSound DEF Slots, SoundTasks
  <1>2. n.pc \in QuietSteps /\ Continue(a, h, n)
    BY <1>1 DEF Tasks, QuietSteps, CloseReusedInvitation
  <1> HIDE DEF n
  <1> QED
    BY <1>2, QuietTaskKeeps, NothingSent DEF CloseReusedInvitation

LEMMA SendReuseAcceptedAgrees ==
  ASSUME TypeInv, AgreementInv, NEW a \in Agents, NEW h \in Handlers, SendReuseAccepted(a, h)
  PROVE  AgreementInv'
  <1>1. SentAreSound
    BY OneSent, OthersProveNothing DEF SendReuseAccepted, Requests, Responses
  <1> QED
    BY <1>1, FinishKeeps DEF SendReuseAccepted, Slots

LEMMA ReceiveReuseAcceptedAgrees ==
  ASSUME TypeInv, AgreementInv, NEW a \in Agents, NEW h \in Handlers, NEW m \in net,
         ReceiveReuseAccepted(a, h, m)
  PROVE  AgreementInv'
  <1> DEFINE r == oob[a]["receiver"][m.inv]
             woken == {s \in Callers : /\ At(a, s, "oob-awaitReuse")
                                       /\ tasks[a][s].inv = m.inv /\ tasks[a][s].id = r.reuse}
             closing == [Idle EXCEPT !.pc = "oob-closeReceived", !.msg = m,
                         !.inv = m.inv, !.oob = r]
  <1>1. tasks' = [tasks EXCEPT ![a] =
                    [t \in Slots |-> IF t = h THEN closing
                                     ELSE IF t \in woken THEN Idle ELSE tasks[a][t]]]
    BY DEF ReceiveReuseAccepted
  <1>2. closing.pc \in QuietSteps
    BY DEF Idle, QuietSteps
  <1> HIDE DEF closing, woken
  <1>3. \A b \in Agents, s \in Slots :
          tasks'[b][s] \in {tasks[b][s], closing, Idle}
    BY <1>1 DEF TypeInv, TasksType
  <1>4. SentAreSound
    BY DeliveredAgrees DEF ReceiveReuseAccepted
  <1> QED
    BY <1>2, <1>3, <1>4, IdleIsQuiet, QuietKeeps DEF ReceiveReuseAccepted

LEMMA OutOfBandAgrees ==
  ASSUME TypeInv, AgreementInv, OutOfBandNext
  PROVE  AgreementInv'
  <1>1. PICK a \in Agents :
    \/ \E i \in Invitations : CreateInvitation(a, i) \/ ReceiveInvitation(a, i)
    \/ \E s \in Callers :
         \/ \E i \in Invitations : AcceptInvitation(a, s, i)
         \/ CreateHandshakeReuse(a, s)
         \/ ReuseTimesOut(a, s)
    \/ \E h \in Handlers :
         \/ \E m \in net : ReceiveReuse(a, h, m) \/ ReceiveReuseAccepted(a, h, m)
         \/ CloseReusedInvitation(a, h)
         \/ SendReuseAccepted(a, h)
         \/ CloseReceivedInvitation(a, h)
    BY DEF OutOfBandNext
  <1>2. \A i : CreateInvitation(a, i) \/ ReceiveInvitation(a, i) => AgreementInv'
    BY QuietKeeps, NothingSent DEF CreateInvitation, ReceiveInvitation
  <1>3. \A h \in Handlers : CloseReceivedInvitation(a, h) => AgreementInv'
    BY FinishKeeps, NothingSent DEF CloseReceivedInvitation, Slots
  <1> QED
    BY <1>1, <1>2, <1>3, AcceptInvitationAgrees, CreateHandshakeReuseAgrees,
       ReuseTimesOutAgrees, ReceiveReuseAgrees, ReceiveReuseAcceptedAgrees,
       CloseReusedInvitationAgrees, SendReuseAcceptedAgrees

-------------------------------------------------------------------------------
(* Calls of ConnectionsApi, messages that come to nothing, faults *)

\* Calls do not overlap: no other task writes the record whose request is accepted.
LEMMA AcceptRequestAgrees ==
  ASSUME TypeInv, AgreementInv, CallsDoNotOverlap,
         NEW a \in Agents, NEW s \in Callers, NEW c \in ConnIds, AcceptRequest(a, s, c)
  PROVE  AgreementInv'
  <1> DEFINE r == conns[a][c]
             pc == IF r.protocol = "did-exchange" THEN "dx-createResponseDid"
                                                  ELSE "cx-createResponseDid"
             n == [Idle EXCEPT !.pc = pc, !.inv = r.inv, !.id = c, !.conn = r]
  <1>1. /\ s \in Slots /\ At(a, s, "idle") /\ a \notin AutoAccept
        /\ r # None /\ r.role = "responder" /\ r.state = "request-received"
        /\ Continue(a, s, n) /\ UNCHANGED conns /\ SentAreSound
    BY NothingSent DEF AcceptRequest, StartCall, Slots
  <1>2. s \notin Handlers
    BY ConstantsAssumption
  <1>3. n.pc \in {"dx-createResponseDid", "cx-createResponseDid"} /\ n.id = c /\ n.conn = r
    BY DEF Idle
  <1> HIDE DEF n
  <1>4. SoundTask(conns, a, s, n)
    BY <1>1, <1>2, <1>3
    DEF SoundTask, YoungCopy, Young, RequestSteps, ResponseSteps, RequesterSteps,
        ResponderSteps, YoungSteps, LateSteps
  <1>5. ASSUME NEW u \in Slots, Writes(a, u, c)
        PROVE  u = s
    <2>1. /\ SoundTask(conns, a, u, tasks[a][u]) /\ tasks[a][u].pc \in YoungSteps
          /\ tasks[a][u].id = c
      BY <1>5, TaskAgrees DEF Writes
    <2>2. tasks[a][u].conn.role = "responder"
      BY <1>1, <2>1 DEF SoundTask, YoungCopy
    <2>3. tasks[a][u].pc \in ResponderSteps
      BY <2>1, <2>2 DEF SoundTask, YoungSteps
    <2>4. u \notin Handlers
      BY <1>1, <2>1, <2>3 DEF SoundTask
    <2> QED
      BY <1>1, <2>4 DEF CallsDoNotOverlap, Slots
  <1> QED
    BY <1>1, <1>3, <1>4, <1>5, TaskKeeps

\* A call for a connection of which a message was sent.
LEMMA LateCallAgrees ==
  ASSUME TypeInv, AgreementInv, NEW a \in Agents, NEW s \in Callers, NEW c \in ConnIds,
         NEW pc \in LateSteps \ ResponseSteps, StartCall(a, s, c, pc),
         conns[a][c].state \notin Young
  PROVE  AgreementInv'
  <1> DEFINE r == conns[a][c]
             n == [Idle EXCEPT !.pc = pc, !.inv = r.inv, !.id = c, !.conn = r]
  <1>1. /\ s \in Slots /\ r # None
        /\ Continue(a, s, n) /\ UNCHANGED conns /\ SentAreSound
    BY NothingSent DEF StartCall, Slots
  <1>2. n.pc = pc /\ n.id = c /\ n.conn = r
    BY DEF Idle
  <1> HIDE DEF n
  <1>3. SoundTask(conns, a, s, n) /\ n.pc \notin YoungSteps
    BY <1>1, <1>2, LateCopyIsSound, ReadRecord
  <1> QED
    BY <1>1, <1>3, TaskKeeps

LEMMA ConnectionsApiAgrees ==
  ASSUME TypeInv, AgreementInv, CallsDoNotOverlap, ConnectionsApiNext
  PROVE  AgreementInv'
  <1>1. PICK a \in Agents, s \in Callers, c \in ConnIds :
          AcceptRequest(a, s, c) \/ AcceptResponse(a, s, c) \/ SendPing(a, s, c)
    BY DEF ConnectionsApiNext
  <1>2. {"dx-createComplete", "cx-sendPing"} \subseteq LateSteps \ ResponseSteps
    BY DEF LateSteps, ResponseSteps
  <1>3. ASSUME AcceptResponse(a, s, c) \/ SendPing(a, s, c)
        PROVE  AgreementInv'
    <2>1. conns[a][c].state \notin Young
      BY <1>3 DEF AcceptResponse, SendPing, Young
    <2>2. PICK pc \in {"dx-createComplete", "cx-sendPing"} : StartCall(a, s, c, pc)
      BY <1>3 DEF AcceptResponse, SendPing
    <2> QED
      BY <1>2, <2>1, <2>2, LateCallAgrees
  <1> QED
    BY <1>1, <1>3, AcceptRequestAgrees

LEMMA FaultsAgree ==
  ASSUME TypeInv, AgreementInv, FaultNext
  PROVE  AgreementInv'
  <1>1. ASSUME NEW m \in net, LoseMessage(m)
        PROVE  AgreementInv'
    <2>1. SentAreSound
      BY <1>1, NothingSent DEF LoseMessage
    <2> QED
      BY <1>1, <2>1, QuietKeeps DEF LoseMessage
  <1>2. ASSUME NEW a \in Agents, Crash(a)
        PROVE  AgreementInv'
    <2>1. \A b \in Agents, t \in Slots : tasks'[b][t] = tasks[b][t] \/ tasks'[b][t] = Idle
      BY <1>2 DEF Crash, TypeInv, TasksType
    <2> QED
      BY <1>2, <2>1, QuietKeeps, IdleIsQuiet, NothingSent DEF Crash
  <1> QED
    BY <1>1, <1>2 DEF FaultNext

-------------------------------------------------------------------------------
(* The theorems *)

LEMMA AgreementInvInitially ==
  ASSUME Init
  PROVE  AgreementInv
  <1>1. \A a \in Agents, t \in Slots : tasks[a][t] = Idle
    BY DEF Init
  <1>2. \A a \in Agents, t \in Slots :
          SoundTask(conns, a, t, tasks[a][t]) /\ tasks[a][t].pc \notin YoungSteps
    BY <1>1, IdleIsQuiet, QuietIsSound
  <1> QED
    BY <1>2 DEF Init, AgreementInv, Writes, OneConnectionPerRequest, Connection

LEMMA AgreementInvKept ==
  ASSUME TypeInv, DidsStored, AgreementInv, CallsDoNotOverlap, [Next]_vars
  PROVE  AgreementInv'
  <1>1. CASE UNCHANGED vars
    BY <1>1, QuietKeeps, NothingSent DEF vars
  <1>2. ASSUME NEW a \in Agents, NEW h \in Handlers, NEW m \in net, IgnoreMessage(a, h, m)
        PROVE  AgreementInv'
    <2>1. SentAreSound
      BY <1>2, NothingSent DEF IgnoreMessage
    <2> QED
      BY <1>2, <2>1, QuietKeeps DEF IgnoreMessage
  <1> QED
    BY <1>1, <1>2, OutOfBandAgrees, DidExchangeAgrees, ConnectionProtocolAgrees,
       ConnectionsApiAgrees, FaultsAgree DEF Next

LEMMA AgreementInvHolds ==
  ASSUME CallsDoNotOverlap
  PROVE  Spec => []AgreementInv
  <1>1. Init => AgreementInv
    BY AgreementInvInitially
  <1>2. TypeInv /\ DidsStored /\ AgreementInv /\ [Next]_vars => AgreementInv'
    BY AgreementInvKept
  <1> QED
    BY <1>1, <1>2, TypesHold, DidsAreStored, PTL DEF Spec

\* The two ends of a connection agree on it, however messages are lost, repeated or
\* overtaken, wherever an agent stops, and however many handlers it runs: what
\* processResponse stores is what createResponse stored at the other end.
THEOREM EndsAgree ==
  ASSUME CallsDoNotOverlap
  PROVE  Spec => []Agreement
  <1>1. TypeInv /\ AgreementInv => Agreement
    <2> SUFFICES ASSUME TypeInv, AgreementInv, NEW a \in Agents, NEW c \in ConnIds,
                        Connection(a, c, "requester"),
                        conns[a][c].state \in {"response-received", "completed"}
                 PROVE  \E d \in ConnIds :
                          LET r == conns[a][c]
                              b == Owner[r.inv]
                          IN  /\ Connection(b, d, "responder")
                              /\ conns[b][d].thread = r.thread
                              /\ conns[b][d].did = r.theirDid /\ conns[b][d].theirDid = r.did
                              /\ conns[b][d].state \in {"response-sent", "completed", "abandoned"}
      BY DEF Agreement
    <2> DEFINE b == Owner[conns[a][c].inv]
    <2>1. MatchedIn(conns, conns[a][c]) /\ b \in Agents
      BY ReadRecord, ConstantsAssumption DEF Connection, SoundRecord, ConnectionRecords
    <2>2. PICK d \in ConnIds :
            /\ AnswerIn(conns, b, d, conns[a][c].thread, conns[a][c].theirDid)
            /\ conns[b][d].theirDid = conns[a][c].did
      BY <2>1 DEF MatchedIn
    <2>3. conns[b][d].state \in {"response-sent", "completed", "abandoned"}
      BY <2>1, <2>2, ReadRecord DEF AnswerIn, SoundRecord, ResponderStates, Young
    <2> QED
      BY <2>2, <2>3 DEF AnswerIn, Connection
  <1> QED
    BY <1>1, TypesHold, AgreementInvHolds, PTL

\* Messages that are handled one after another lead to one connection per request,
\* however often the request arrives: by the second time the DID in it is stored, which
\* is what the handlers of both protocols look for.
THEOREM RequestsLeadToOneConnection ==
  ASSUME CallsDoNotOverlap, OneHandler
  PROVE  Spec => []OneConnectionPerRequest
  <1>1. AgreementInv => OneConnectionPerRequest
    BY DEF AgreementInv
  <1> QED
    BY <1>1, AgreementInvHolds, PTL

================================================================================
