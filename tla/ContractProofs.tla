---------------------------- MODULE ContractProofs -----------------------------
(***************************************************************************)
(* The proof that the handshake implements HandshakeContract, where every  *)
(* agent accepts automatically and handles one message at a time.          *)
(*                                                                         *)
(* Each write of a connection record is a step of the contract.  That is   *)
(* so because the one handler writes what it has just read (no other task  *)
(* writes a record of which a message was sent), and because the messages  *)
(* that complete an inviter's end prove that the invitee's is complete:    *)
(* the complete message by its thread, the trust ping by the key that it   *)
(* comes from, which no two requests share.                                *)
(***************************************************************************)
EXTENDS AgreementProofs

\* The deployment that the contract is about: what an application does by hand is
\* outside, and messages come one after another.
Automatic == AutoAccept = Agents /\ OneHandler

-------------------------------------------------------------------------------
(* The keys of requests *)

\* A requester's record names a DID of its own.
AsksWith(cs, a, c) == cs[a][c] # None /\ cs[a][c].role = "requester" /\ cs[a][c].did # None

\* A key that getRouting made at a, for one of the DID records that a has.
IsOwnKey(ds, a, key) == key.agent = a /\ key.use = "routing" /\ key.n \in 1 .. Len(ds[a])

\* The steps of a call that has made its DID ...
KeySteps == {"dx-sendRequest", "cx-createConnection", "cx-sendRequest"}

\* ... and has not saved it in a record yet.
UnsavedSteps == {"dx-sendRequest", "cx-createConnection"}

KeyInv ==
  /\ \A a \in Agents, c \in ConnIds :
       AsksWith(conns, a, c) => IsOwnKey(dids, a, conns[a][c].did.key)
  /\ \A a \in Agents, c, d \in ConnIds :
       AsksWith(conns, a, c) /\ AsksWith(conns, a, d) /\ conns[a][c].did.key = conns[a][d].did.key
       => c = d
  /\ \A a \in Agents, t \in Slots :
       tasks[a][t].pc \in UnsavedSteps =>
         /\ IsOwnKey(dids, a, tasks[a][t].conn.did.key)
         /\ \A c \in ConnIds :
              AsksWith(conns, a, c) => conns[a][c].did.key # tasks[a][t].conn.did.key
         /\ \A u \in Slots :
              tasks[a][u].pc \in UnsavedSteps /\ tasks[a][u].conn.did.key = tasks[a][t].conn.did.key
              => u = t
  /\ \A a \in Agents, t \in Slots :
       tasks[a][t].pc = "cx-sendRequest" => conns[a][tasks[a][t].id].did = tasks[a][t].conn.did

-------------------------------------------------------------------------------
(* The invariant *)

\* The invitee's end of request th is complete, or given up since.
DoneIn(cs, th) ==
  LET r == cs[th.agent][th.conn] IN
  /\ th \in Threads /\ r # None /\ r.role = "requester" /\ r.did # None
  /\ r.state \in {"completed", "abandoned"}

\* ... of the request that was made with this key.
PingedIn(cs, key) ==
  \E th \in Threads : DoneIn(cs, th) /\ cs[th.agent][th.conn].did.key = key

FreshMessage(cs, m) ==
  /\ m.type = "dx-complete" => DoneIn(cs, m.thread)
  /\ m.type = "ping" => PingedIn(cs, m.from)

\* The handler's copy is what is stored, and what it goes on to write is in order.
FreshTask(cs, a, t, k) ==
  /\ k.pc \in LateSteps => t \in Handlers /\ cs[a][k.id] = k.conn
  /\ k.pc \in ResponseSteps => k.conn.state = "request-sent"
  /\ k.pc \in {"dx-createComplete", "dx-sendComplete", "cx-sendPing"} => k.conn.role = "requester"
  /\ k.pc = "dx-sendComplete" => k.conn.state = "completed"
  /\ k.pc \in {"dx-closeInvitation", "dx-processComplete"} => DoneIn(cs, k.msg.thread)
  /\ k.pc = "cx-complete" =>
       k.conn.role = "responder" /\ k.conn.state = "response-sent" /\ DoneIn(cs, k.conn.thread)
  /\ k.pc = "cx-abandon" => k.conn.did # None /\ k.conn.theirDid # None

ContractInv ==
  /\ \A a \in Agents, c \in ConnIds :
       Connection(a, c, "responder") /\ conns[a][c].state = "completed"
       => DoneIn(conns, conns[a][c].thread)
  /\ \A m \in net : FreshMessage(conns, m)
  /\ \A a \in Agents, t \in Slots : FreshTask(conns, a, t, tasks[a][t])

-------------------------------------------------------------------------------
(* The writes of connection records *)

\* What an invitee writes over its connection c before a response comes: a new record,
\* and then the request that it sends.
Starts(a, c, r) ==
  LET q == conns[a][c] IN
  /\ r.role = "requester"
  /\ \/ q = None /\ r.state = "invitation-received"
     \/ /\ q # None /\ q.role = "requester" /\ q.state = "invitation-received"
        /\ r.state = "request-sent" /\ r.did \in PeerDids /\ r.theirDid = None

\* What a handler writes.
Receives(a, c, r) ==
  /\ conns[a][c] = None
  /\ r.role = "responder" /\ r.state = "request-received" /\ r.did = None
  /\ RequestIn(conns, r.thread, r.theirDid, a) /\ UnansweredIn(conns, a, r.thread)

Answers(q, r) ==
  /\ q.role = "responder" /\ q.state = "request-received"
  /\ r.state = "response-sent" /\ r.did \in PeerDids /\ r.theirDid = q.theirDid

Learns(q, r) ==
  /\ q.role = "requester" /\ q.state = "request-sent"
  /\ r.state = "response-received" /\ r.did = q.did /\ r.theirDid \in PeerDids
  /\ \E b \in Agents, d \in ConnIds : AnswerIn(conns, b, d, q.thread, r.theirDid)

Completes(q, r) ==
  /\ r.state = "completed" /\ r.did = q.did /\ r.theirDid = q.theirDid
  /\ \/ q.role = "requester" /\ q.state = "response-received"
     \/ q.role = "responder" /\ q.state = "response-sent" /\ DoneIn(conns, q.thread)

Abandons(q, r) ==
  /\ q.state \notin Young /\ q.did # None /\ q.theirDid # None
  /\ r.state = "abandoned" /\ r.did = q.did /\ r.theirDid = q.theirDid

GoesOn(a, c, r) ==
  LET q == conns[a][c] IN
  \/ Receives(a, c, r)
  \/ /\ q # None /\ r.role = q.role /\ r.thread = q.thread
     /\ Answers(q, r) \/ Learns(q, r) \/ Completes(q, r) \/ Abandons(q, r)

Started ==
  \E a \in Agents, c \in ConnIds, r \in ConnectionRecords :
    SaveConnection(a, c, r) /\ Starts(a, c, r)

WentOn ==
  \E a \in Agents, c \in ConnIds, r \in ConnectionRecords :
    SaveConnection(a, c, r) /\ GoesOn(a, c, r)

-------------------------------------------------------------------------------
(* ... are steps of the contract *)

Requesters == [th \in Threads |-> RequesterEnd(th)]
Responders == [th \in Threads |-> ResponderEnd(th)]

ContractStep == [Contract!ContractNext]_<<Requesters, Responders>>

\* The three ways in which the contract changes an end.
EndOf(state, ours, theirs) == [state |-> state, ours |-> ours, theirs |-> theirs]

WithState(e, state)          == [e EXCEPT !.state = state]
WithOurs(e, state, ours)     == [e EXCEPT !.state = state, !.ours = ours]
WithTheirs(e, state, theirs) == [e EXCEPT !.state = state, !.theirs = theirs]

Put(ends, q, e)                   == [ends EXCEPT ![q] = e]
PutState(ends, q, state)          == [ends EXCEPT ![q].state = state]
PutOurs(ends, q, state, ours)     == [ends EXCEPT ![q].state = state, ![q].ours = ours]
PutTheirs(ends, q, state, theirs) == [ends EXCEPT ![q].state = state, ![q].theirs = theirs]

LEMMA ChangedEnd ==
  ASSUME NEW s, NEW o, NEW t, NEW x, NEW y
  PROVE  /\ WithState(EndOf(s, o, t), x) = EndOf(x, o, t)
         /\ WithOurs(EndOf(s, o, t), x, y) = EndOf(x, y, t)
         /\ WithTheirs(EndOf(s, o, t), x, y) = EndOf(x, o, y)
  <1>1. ASSUME NEW f, NEW e, e = EndOf(s, o, t), f = [e EXCEPT !.state = x]
        PROVE  f = EndOf(x, o, t)
    BY <1>1 DEF EndOf
  <1>2. ASSUME NEW f, NEW e, e = EndOf(s, o, t), f = [e EXCEPT !.state = x, !.ours = y]
        PROVE  f = EndOf(x, y, t)
    BY <1>2 DEF EndOf
  <1>3. ASSUME NEW f, NEW e, e = EndOf(s, o, t), f = [e EXCEPT !.state = x, !.theirs = y]
        PROVE  f = EndOf(x, o, y)
    BY <1>3 DEF EndOf
  <1> QED
    BY <1>1, <1>2, <1>3 DEF WithState, WithOurs, WithTheirs

LEMMA ChangedEnds ==
  ASSUME NEW ends, NEW q \in DOMAIN ends,
         NEW s, NEW o, NEW t, ends[q] = EndOf(s, o, t), NEW x, NEW y
  PROVE  /\ PutState(ends, q, x) = Put(ends, q, EndOf(x, o, t))
         /\ PutOurs(ends, q, x, y) = Put(ends, q, EndOf(x, y, t))
         /\ PutTheirs(ends, q, x, y) = Put(ends, q, EndOf(x, o, y))
  <1>1. PutState(ends, q, x) = Put(ends, q, WithState(ends[q], x))
    BY DEF WithState, PutState, Put
  <1>2. PutOurs(ends, q, x, y) = Put(ends, q, WithOurs(ends[q], x, y))
    BY DEF WithOurs, PutOurs, Put
  <1>3. PutTheirs(ends, q, x, y) = Put(ends, q, WithTheirs(ends[q], x, y))
    BY DEF WithTheirs, PutTheirs, Put
  <1>4. /\ WithState(ends[q], x) = EndOf(x, o, t)
        /\ WithOurs(ends[q], x, y) = EndOf(x, y, t)
        /\ WithTheirs(ends[q], x, y) = EndOf(x, o, y)
    BY ChangedEnd
  <1> QED
    BY <1>1, <1>2, <1>3, <1>4

LEMMA EndsAreEnds ==
  /\ \A r : End(r) = EndOf(r.state, r.did, r.theirDid)
  /\ NoEnd = EndOf("none", None, None) /\ Contract!NoEnd = NoEnd
  BY DEF End, NoEnd, EndOf, Contract!NoEnd

LEMMA OneResponder ==
  ASSUME NEW th, NEW a, NEW c
  PROVE  /\ RespondersTo(th) = {<<a, c>>} => ResponderEnd(th) = End(conns[a][c])
         /\ (RespondersTo(th) = {<<a, c>>})' => ResponderEnd(th)' = End(conns'[a][c])
  <1>1. ASSUME RespondersTo(th) = {<<a, c>>}
        PROVE  ResponderEnd(th) = End(conns[a][c])
    <2> DEFINE e == CHOOSE e \in RespondersTo(th) : TRUE
    <2>1. e \in RespondersTo(th)
      BY <1>1
    <2>2. e = <<a, c>>
      BY <1>1, <2>1
    <2>3. e[1] = a /\ e[2] = c
      <3> HIDE DEF e
      <3> QED
        BY <2>2
    <2>4. ResponderEnd(th) = End(conns[e[1]][e[2]])
      BY <1>1 DEF ResponderEnd
    <2> QED
      BY <2>3, <2>4
  <1>2. ASSUME (RespondersTo(th) = {<<a, c>>})'
        PROVE  ResponderEnd(th)' = End(conns'[a][c])
    <2> DEFINE e == CHOOSE e \in RespondersTo(th)' : TRUE
    <2>1. e \in RespondersTo(th)'
      BY <1>2
    <2>2. e = <<a, c>>
      BY <1>2, <2>1
    <2>3. e[1] = a /\ e[2] = c
      <3> HIDE DEF e
      <3> QED
        BY <2>2
    <2>4. ResponderEnd(th)' = End(conns'[e[1]][e[2]])
      BY <1>2 DEF ResponderEnd
    <2> QED
      BY <2>3, <2>4
  <1> QED
    BY <1>1, <1>2

LEMMA SavedRecord ==
  ASSUME TypeInv, NEW a \in Agents, NEW c \in ConnIds, NEW r \in ConnectionRecords,
         SaveConnection(a, c, r)
  PROVE  /\ r # None /\ conns'[a][c] = r
         /\ \A b \in Agents, d \in ConnIds : b # a \/ d # c => conns'[b][d] = conns[b][d]
  BY NoneAssumption DEF SaveConnection, TypeInv, ConnsType

\* An invitee's record is the end of its own thread, and of no other.
LEMMA RequesterWritten ==
  ASSUME TypeInv, NEW a \in Agents, NEW c \in ConnIds, NEW r \in ConnectionRecords,
         SaveConnection(a, c, r), r.role = "requester",
         conns[a][c] # None => conns[a][c].role = "requester"
  PROVE  LET own == [agent |-> a, conn |-> c] IN
         /\ own \in Threads
         /\ Requesters' = [Requesters EXCEPT ![own] =
                             IF r.state # "invitation-received" THEN End(r) ELSE NoEnd]
         /\ Responders' = Responders
  <1> DEFINE own == [agent |-> a, conn |-> c]
             new == IF r.state # "invitation-received" THEN End(r) ELSE NoEnd
  <1>1. /\ r # None /\ conns'[a][c] = r
        /\ \A b \in Agents, d \in ConnIds : b # a \/ d # c => conns'[b][d] = conns[b][d]
    BY SavedRecord
  <1>2. own \in Threads
    BY DEF Threads
  <1>3. RequesterEnd(own)' = new
    BY <1>1 DEF RequesterEnd, Connection
  <1>4. ASSUME NEW th \in Threads, th # own
        PROVE  RequesterEnd(th)' = RequesterEnd(th)
    <2>1. th.agent \in Agents /\ th.conn \in ConnIds /\ (th.agent # a \/ th.conn # c)
      BY <1>4 DEF Threads
    <2> QED
      BY <1>1, <2>1 DEF RequesterEnd, Connection
  <1>5. ASSUME NEW th \in Threads
        PROVE  ResponderEnd(th)' = ResponderEnd(th)
    <2>1. \A e \in Agents \X ConnIds :
            /\ e[2] \in ConnectionsByThread(e[1], "responder", th)'
               <=> e[2] \in ConnectionsByThread(e[1], "responder", th)
            /\ e[2] \in ConnectionsByThread(e[1], "responder", th)
               => conns'[e[1]][e[2]] = conns[e[1]][e[2]]
      BY <1>1 DEF ConnectionsByThread
    <2>2. RespondersTo(th)' = RespondersTo(th)
      BY <2>1 DEF RespondersTo
    <2>3. CASE RespondersTo(th) = {}
      BY <2>2, <2>3 DEF ResponderEnd
    <2>4. CASE RespondersTo(th) # {}
      <3> DEFINE e == CHOOSE e \in RespondersTo(th) : TRUE
      <3>1. e \in RespondersTo(th)
        BY <2>4
      <3>2. conns'[e[1]][e[2]] = conns[e[1]][e[2]]
        BY <3>1, <2>1 DEF RespondersTo
      <3>3. ResponderEnd(th) = End(conns[e[1]][e[2]])
        BY <2>4 DEF ResponderEnd
      <3>4. ResponderEnd(th)' = End(conns'[e[1]][e[2]])
        BY <2>2, <2>4 DEF ResponderEnd
      <3> QED
        BY <3>2, <3>3, <3>4
    <2> QED
      BY <2>3, <2>4
  <1>6. Requesters' = [Requesters EXCEPT ![own] = new]
    <2> HIDE DEF own, new
    <2> QED
      BY <1>2, <1>3, <1>4 DEF Requesters
  <1>7. Responders' = Responders
    BY <1>5 DEF Responders
  <1> QED
    BY <1>2, <1>6, <1>7

\* An inviter's record is the one end of its thread.
LEMMA OnlyResponder ==
  ASSUME AgreementInv, TypeInv, OneHandler, NEW a \in Agents, NEW c \in ConnIds,
         Connection(a, c, "responder")
  PROVE  /\ conns[a][c].thread \in Threads
         /\ RespondersTo(conns[a][c].thread) = {<<a, c>>}
         /\ ResponderEnd(conns[a][c].thread) = End(conns[a][c])
  <1> DEFINE th == conns[a][c].thread
  <1>1. \A b \in Agents, d \in ConnIds :
          Connection(b, d, "responder") /\ conns[b][d].thread = th
          => RequestIn(conns, th, conns[b][d].theirDid, b)
    BY DEF AgreementInv, SoundRecord, Connection
  <1>2. th \in Threads
    BY <1>1 DEF RequestIn
  <1>3. ASSUME NEW e \in RespondersTo(th)
        PROVE  e = <<a, c>>
    <2>1. e \in Agents \X ConnIds /\ Connection(e[1], e[2], "responder")
          /\ conns[e[1]][e[2]].thread = th
      BY DEF RespondersTo, ConnectionsByThread, Connection
    <2>2. e[1] = a
      BY <1>1, <2>1 DEF RequestIn
    <2>3. e[2] = c
      BY <2>1, <2>2 DEF AgreementInv, OneConnectionPerRequest
    <2> QED
      BY <2>1, <2>2, <2>3
  <1>4. <<a, c>> \in RespondersTo(th)
    BY DEF RespondersTo, ConnectionsByThread, Connection
  <1>5. RespondersTo(th) = {<<a, c>>}
    BY <1>3, <1>4
  <1>6. ResponderEnd(th) = End(conns[a][c])
    BY <1>5, OneResponder
  <1> QED
    BY <1>2, <1>5, <1>6

LEMMA ResponderWritten ==
  ASSUME TypeInv, AgreementInv, OneHandler,
         NEW a \in Agents, NEW c \in ConnIds, NEW r \in ConnectionRecords,
         SaveConnection(a, c, r), r.role = "responder",
         \/ /\ conns[a][c] = None /\ UnansweredIn(conns, a, r.thread)
            /\ RequestIn(conns, r.thread, r.theirDid, a)
         \/ Connection(a, c, "responder") /\ r.thread = conns[a][c].thread
  PROVE  /\ r.thread \in Threads
         /\ Requesters' = Requesters
         /\ Responders' = [Responders EXCEPT ![r.thread] = End(r)]
         /\ Responders[r.thread] = IF conns[a][c] = None THEN NoEnd ELSE End(conns[a][c])
  <1>1. /\ r # None /\ conns'[a][c] = r
        /\ \A b \in Agents, d \in ConnIds : b # a \/ d # c => conns'[b][d] = conns[b][d]
    BY SavedRecord
  <1>2. \A th \in Threads : RequesterEnd(th)' = RequesterEnd(th)
    <2> TAKE th \in Threads
    <2>1. th.agent \in Agents /\ th.conn \in ConnIds
      BY DEF Threads
    <2> QED
      BY <1>1, <2>1 DEF RequesterEnd, Connection
  <1>3. RespondersTo(r.thread) = IF conns[a][c] = None THEN {} ELSE {<<a, c>>}
    <2>1. CASE Connection(a, c, "responder") /\ r.thread = conns[a][c].thread
      BY <2>1, OnlyResponder DEF Connection
    <2>2. CASE conns[a][c] = None /\ UnansweredIn(conns, a, r.thread)
               /\ RequestIn(conns, r.thread, r.theirDid, a)
      <3> SUFFICES ASSUME NEW e \in RespondersTo(r.thread) PROVE FALSE
        BY <2>2
      <3>1. e \in Agents \X ConnIds /\ Connection(e[1], e[2], "responder")
            /\ conns[e[1]][e[2]].thread = r.thread
        BY DEF RespondersTo, ConnectionsByThread, Connection
      <3>2. RequestIn(conns, r.thread, conns[e[1]][e[2]].theirDid, e[1])
        BY <3>1 DEF AgreementInv, SoundRecord, Connection
      <3>3. e[1] = a
        BY <2>2, <3>2 DEF RequestIn
      <3> QED
        BY <2>2, <3>1, <3>3 DEF UnansweredIn, Connection
    <2> QED
      BY <2>1, <2>2
  <1>4. r.thread \in Threads
    BY OnlyResponder DEF RequestIn
  <1>5. ASSUME NEW th \in Threads
        PROVE  RespondersTo(th)' = IF th = r.thread THEN {<<a, c>>} ELSE RespondersTo(th)
    <2>1. \A e \in Agents \X ConnIds :
            e # <<a, c>> =>
              (e[2] \in ConnectionsByThread(e[1], "responder", th)'
               <=> e[2] \in ConnectionsByThread(e[1], "responder", th))
      BY <1>1 DEF ConnectionsByThread
    <2>2. c \in ConnectionsByThread(a, "responder", th)' <=> th = r.thread
      BY <1>1 DEF ConnectionsByThread
    <2>3. c \in ConnectionsByThread(a, "responder", th) => th = r.thread
      BY DEF ConnectionsByThread, Connection
    <2>4. CASE th # r.thread
      BY <2>1, <2>2, <2>3, <2>4 DEF RespondersTo
    <2>5. CASE th = r.thread
      BY <1>3, <2>1, <2>2, <2>5 DEF RespondersTo
    <2> QED
      BY <2>4, <2>5
  <1>6. ResponderEnd(r.thread)' = End(r)
    <2>1. RespondersTo(r.thread)' = {<<a, c>>}
      BY <1>4, <1>5
    <2>2. ResponderEnd(r.thread)' = End(conns'[a][c])
      BY <2>1, OneResponder
    <2> QED
      BY <1>1, <2>2
  <1>7. ASSUME NEW th \in Threads, th # r.thread
        PROVE  ResponderEnd(th)' = ResponderEnd(th)
    <2>1. RespondersTo(th)' = RespondersTo(th)
      BY <1>5, <1>7
    <2>2. CASE RespondersTo(th) = {}
      BY <2>1, <2>2 DEF ResponderEnd
    <2>3. CASE RespondersTo(th) # {}
      <3> DEFINE e == CHOOSE e \in RespondersTo(th) : TRUE
      <3>1. e \in RespondersTo(th)
        BY <2>3
      <3>2. conns'[e[1]][e[2]] = conns[e[1]][e[2]]
        <4>1. e \in Agents \X ConnIds /\ e[2] \in ConnectionsByThread(e[1], "responder", th)
          BY <3>1 DEF RespondersTo
        <4>2. e[1] # a \/ e[2] # c
          BY <4>1, <1>7 DEF ConnectionsByThread, Connection
        <4> QED
          BY <1>1, <4>1, <4>2
      <3>3. ResponderEnd(th) = End(conns[e[1]][e[2]])
        BY <2>3 DEF ResponderEnd
      <3>4. ResponderEnd(th)' = End(conns'[e[1]][e[2]])
        BY <2>1, <2>3 DEF ResponderEnd
      <3> QED
        BY <3>2, <3>3, <3>4
    <2> QED
      BY <2>2, <2>3
  <1>8. Responders' = [Responders EXCEPT ![r.thread] = End(r)]
    BY <1>4, <1>6, <1>7 DEF Responders
  <1>9. Responders[r.thread] = IF conns[a][c] = None THEN NoEnd ELSE End(conns[a][c])
    <2>1. Responders[r.thread] = ResponderEnd(r.thread)
      BY <1>4 DEF Responders
    <2>2. CASE conns[a][c] = None
      BY <1>3, <2>1, <2>2 DEF ResponderEnd
    <2>3. CASE conns[a][c] # None
      <3>1. RespondersTo(r.thread) = {<<a, c>>}
        BY <1>3, <2>3
      <3>2. ResponderEnd(r.thread) = End(conns[a][c])
        BY <3>1, OneResponder
      <3> QED
        BY <2>1, <2>3, <3>2
    <2> QED
      BY <2>2, <2>3
  <1> QED
    BY <1>2, <1>4, <1>8, <1>9 DEF Requesters

LEMMA StartIsAsk ==
  ASSUME TypeInv, AgreementInv, Started
  PROVE  ContractStep
  <1>1. PICK a \in Agents, c \in ConnIds, r \in ConnectionRecords :
          SaveConnection(a, c, r) /\ Starts(a, c, r)
    BY DEF Started
  <1> DEFINE own == [agent |-> a, conn |-> c]
             q == conns[a][c]
  <1>2. /\ own \in Threads
        /\ Requesters' = [Requesters EXCEPT ![own] =
                            IF r.state # "invitation-received" THEN End(r) ELSE NoEnd]
        /\ Responders' = Responders
    BY <1>1, RequesterWritten DEF Starts
  <1>3. q = None \/ (q # None /\ q.role = "requester" /\ q.state = "invitation-received")
    BY <1>1 DEF Starts
  <1>4. Requesters[own] = NoEnd
    BY <1>2, <1>3 DEF Requesters, RequesterEnd, Connection
  <1>5. CASE r.state = "invitation-received"
    <2>1. Requesters' = Requesters
      <3> HIDE DEF own
      <3> QED
        BY <1>2, <1>4, <1>5 DEF Requesters
    <2> QED
      BY <1>2, <2>1 DEF ContractStep
  <1>6. CASE r.state # "invitation-received"
    <2>1. r.state = "request-sent" /\ r.did \in PeerDids /\ r.theirDid = None
      BY <1>1, <1>6 DEF Starts
    <2>2. Requesters' = [Requesters EXCEPT ![own] = End(r)]
      BY <1>2, <1>6
    <2>3. End(r) = WithOurs(NoEnd, "request-sent", r.did)
      BY <2>1, EndsAreEnds, ChangedEnd
    <2>4. Requesters'[own].ours = r.did
      BY <1>2, <2>2 DEF Requesters, End
    <2> HIDE DEF own
    <2>5. Contract!Ask(own)
      BY <1>2, <1>4, <2>1, <2>2, <2>3, <2>4, EndsAreEnds
      DEF Contract!Ask, Requesters, Responders, WithOurs
    <2> QED
      BY <1>2, <2>5 DEF ContractStep, Contract!ContractNext
  <1> QED
    BY <1>5, <1>6

LEMMA EndsOfRecords ==
  ASSUME TypeInv, AgreementInv, NEW a \in Agents, NEW c \in ConnIds, conns[a][c] # None
  PROVE  LET q   == conns[a][c]
             own == [agent |-> a, conn |-> c]
         IN  /\ q.role = "requester" /\ q.state \notin Young =>
                  q.thread = own /\ Requesters[own] = End(q)
             /\ OneHandler /\ q.role = "responder" =>
                  q.thread \in Threads /\ Responders[q.thread] = End(q)
  <1> DEFINE q   == conns[a][c]
             own == [agent |-> a, conn |-> c]
  <1>1. SoundRecord(conns, a, c, q)
    BY ReadRecord
  <1>2. own \in Threads
    BY DEF Threads
  <1>3. ASSUME q.role = "requester", q.state \notin Young
        PROVE  q.thread = own /\ Requesters[own] = End(q)
    <2>1. q.thread = own
      BY <1>1, <1>3 DEF SoundRecord
    <2>2. RequesterEnd(own) = End(q)
      BY <1>3 DEF RequesterEnd, Connection, Young
    <2> QED
      BY <1>2, <2>1, <2>2 DEF Requesters
  <1>4. ASSUME OneHandler, q.role = "responder"
        PROVE  q.thread \in Threads /\ Responders[q.thread] = End(q)
    BY <1>4, OnlyResponder DEF Connection, Responders
  <1> QED
    BY <1>3, <1>4

LEMMA ReceiveIsReceive ==
  ASSUME TypeInv, AgreementInv, OneHandler,
         NEW a \in Agents, NEW c \in ConnIds, NEW r \in ConnectionRecords,
         SaveConnection(a, c, r), Receives(a, c, r)
  PROVE  ContractStep
  <1> DEFINE th == r.thread
  <1>1. /\ th \in Threads /\ Requesters' = Requesters
        /\ Responders' = [Responders EXCEPT ![th] = End(r)]
        /\ Responders[th] = NoEnd
    BY ResponderWritten DEF Receives
  <1>2. Requesters[th] # NoEnd /\ Requesters[th].ours = r.theirDid
    <2> DEFINE q == conns[th.agent][th.conn]
    <2>1. q # None /\ q.role = "requester" /\ q.state \notin Young /\ q.did = r.theirDid
          /\ th.agent \in Agents /\ th.conn \in ConnIds /\ q.thread = th
      BY <1>1 DEF Receives, RequestIn, Threads
    <2>2. Requesters[th] = End(q)
      <3> DEFINE b == th.agent
                 d == th.conn
      <3>1. q.thread = [agent |-> b, conn |-> d] /\ Requesters[[agent |-> b, conn |-> d]] = End(q)
        BY <2>1, EndsOfRecords
      <3> QED
        BY <2>1, <3>1
    <2>3. q.state # "none"
      BY <2>1, ReadRecord DEF ConnectionRecords, ConnStates
    <2> QED
      BY <2>1, <2>2, <2>3 DEF End, NoEnd
  <1>3. r.state = "request-received" /\ r.did = None
    BY DEF Receives
  <1>4. End(r) = WithTheirs(NoEnd, "request-received", Requesters[th].ours)
    BY <1>2, <1>3, EndsAreEnds, ChangedEnd
  <1> HIDE DEF th
  <1>5. Contract!Receive(th)
    BY <1>1, <1>2, <1>4, EndsAreEnds
    DEF Contract!Receive, Requesters, Responders, WithTheirs
  <1> QED
    BY <1>1, <1>5 DEF ContractStep, Contract!ContractNext

LEMMA AnswerIsAnswer ==
  ASSUME TypeInv, AgreementInv, OneHandler,
         NEW a \in Agents, NEW c \in ConnIds, NEW r \in ConnectionRecords,
         SaveConnection(a, c, r), conns[a][c] # None, r.role = conns[a][c].role,
         r.thread = conns[a][c].thread, Answers(conns[a][c], r)
  PROVE  ContractStep
  <1> DEFINE q  == conns[a][c]
             th == q.thread
  <1>1. q.role = "responder" /\ q.state = "request-received" /\ r.state = "response-sent"
        /\ r.did \in PeerDids /\ r.theirDid = q.theirDid
    BY DEF Answers
  <1>2. /\ th \in Threads /\ Requesters' = Requesters
        /\ Responders' = [Responders EXCEPT ![th] = End(r)]
        /\ Responders[th] = EndOf(q.state, q.did, q.theirDid)
    BY <1>1, ResponderWritten, EndsAreEnds DEF Connection
  <1>3. End(r) = EndOf("response-sent", r.did, q.theirDid)
    BY <1>1, EndsAreEnds
  <1>4. Responders'[th] = End(r)
    BY <1>2 DEF Responders
  <1>5. Responders'[th].ours = r.did /\ Responders[th].state = "request-received"
    BY <1>1, <1>2, <1>4 DEF End, EndOf
  <1> HIDE DEF th, q
  <1>6. Responders' = PutOurs(Responders, th, "response-sent", r.did)
    <2>1. DOMAIN Responders = Threads
      BY DEF Responders
    <2>2. th \in DOMAIN Responders /\ Responders[th] = EndOf(q.state, q.did, q.theirDid)
      BY <1>2, <2>1
    <2>3. PutOurs(Responders, th, "response-sent", r.did)
          = Put(Responders, th, EndOf("response-sent", r.did, q.theirDid))
      BY <2>2, ChangedEnds
    <2> QED
      BY <1>2, <1>3, <2>3 DEF Put
  <1>7. Contract!Answer(th)
    BY <1>1, <1>2, <1>5, <1>6 DEF Contract!Answer, Requesters, Responders, PutOurs
  <1> QED
    BY <1>2, <1>7 DEF ContractStep, Contract!ContractNext

LEMMA LearnIsLearn ==
  ASSUME TypeInv, AgreementInv, ContractInv, OneHandler,
         NEW a \in Agents, NEW c \in ConnIds, NEW r \in ConnectionRecords,
         SaveConnection(a, c, r), conns[a][c] # None, r.role = conns[a][c].role,
         r.thread = conns[a][c].thread, Learns(conns[a][c], r)
  PROVE  ContractStep
  <1> DEFINE q  == conns[a][c]
             th == [agent |-> a, conn |-> c]
  <1>1. q.role = "requester" /\ q.state = "request-sent" /\ r.state = "response-received"
        /\ r.did = q.did /\ r.theirDid \in PeerDids
    BY DEF Learns
  <1>2. PICK b \in Agents, d \in ConnIds : AnswerIn(conns, b, d, q.thread, r.theirDid)
    BY DEF Learns
  <1>3. q.thread = th /\ Requesters[th] = EndOf(q.state, q.did, q.theirDid)
    BY <1>1, EndsOfRecords, EndsAreEnds DEF Young
  <1>4. /\ th \in Threads /\ Responders' = Responders
        /\ Requesters' = [Requesters EXCEPT ![th] = End(r)]
    BY <1>1, RequesterWritten
  <1>5. End(r) = EndOf("response-received", q.did, r.theirDid)
    BY <1>1, EndsAreEnds
  <1>6. /\ Responders[th].state \in {"response-sent", "abandoned"}
        /\ Responders[th].ours = r.theirDid /\ r.theirDid # None
    <2> DEFINE e == conns[b][d]
    <2>1. e # None /\ e.role = "responder" /\ e.state \notin Young /\ e.thread = th
          /\ e.did = r.theirDid
      BY <1>2, <1>3 DEF AnswerIn
    <2>2. Responders[th] = EndOf(e.state, e.did, e.theirDid)
      BY <2>1, EndsOfRecords, EndsAreEnds
    <2>3. e.state \in ResponderStates
      BY <2>1, ReadRecord DEF SoundRecord
    <2>4. e.state # "completed"
      <3> SUFFICES ASSUME e.state = "completed" PROVE FALSE
        OBVIOUS
      <3>1. DoneIn(conns, th)
        BY <2>1 DEF ContractInv, Connection
      <3> QED
        BY <1>1, <3>1 DEF DoneIn
    <2>5. e.state \in {"response-sent", "abandoned"}
      BY <2>1, <2>3, <2>4 DEF ResponderStates, Young
    <2> QED
      BY <1>1, <2>1, <2>2, <2>5, NoneAssumption DEF EndOf
  <1> HIDE DEF th, q
  <1>7. Requesters' = PutTheirs(Requesters, th, "response-received", Responders[th].ours)
    <2>1. DOMAIN Requesters = Threads
      BY DEF Requesters
    <2>2. th \in DOMAIN Requesters /\ Requesters[th] = EndOf(q.state, q.did, q.theirDid)
      BY <1>3, <1>4, <2>1
    <2>3. PutTheirs(Requesters, th, "response-received", r.theirDid)
          = Put(Requesters, th, EndOf("response-received", q.did, r.theirDid))
      BY <2>2, ChangedEnds
    <2> QED
      BY <1>4, <1>5, <1>6, <2>3 DEF Put
  <1>8. Requesters[th].state = "request-sent"
    BY <1>1, <1>3 DEF EndOf
  <1>9. Contract!Learn(th)
    BY <1>4, <1>6, <1>7, <1>8 DEF Contract!Learn, Requesters, Responders, PutTheirs
  <1> QED
    BY <1>4, <1>9 DEF ContractStep, Contract!ContractNext

\* The steps that change the state of an end alone.
LEMMA RequesterPut ==
  ASSUME TypeInv, AgreementInv,
         NEW a \in Agents, NEW c \in ConnIds, NEW r \in ConnectionRecords,
         SaveConnection(a, c, r), conns[a][c] # None, conns[a][c].role = "requester",
         conns[a][c].state \notin Young, r.role = "requester", r.state \notin Young,
         r.did = conns[a][c].did, r.theirDid = conns[a][c].theirDid
  PROVE  LET th == [agent |-> a, conn |-> c] IN
         /\ th \in Threads /\ Responders' = Responders
         /\ Requesters' = PutState(Requesters, th, r.state)
         /\ Requesters[th].state = conns[a][c].state
         /\ Requesters[th].theirs = conns[a][c].theirDid
  <1> DEFINE q  == conns[a][c]
             th == [agent |-> a, conn |-> c]
  <1>1. Requesters[th] = EndOf(q.state, q.did, q.theirDid)
    BY EndsOfRecords, EndsAreEnds
  <1>2. /\ th \in Threads /\ Responders' = Responders
        /\ Requesters' = [Requesters EXCEPT ![th] = End(r)]
    BY RequesterWritten DEF Young
  <1>3. End(r) = EndOf(r.state, q.did, q.theirDid)
    BY EndsAreEnds
  <1>4. th \in DOMAIN Requesters
    BY <1>2 DEF Requesters
  <1> HIDE DEF th, q
  <1>5. PutState(Requesters, th, r.state) = Put(Requesters, th, EndOf(r.state, q.did, q.theirDid))
    BY <1>1, <1>4, ChangedEnds
  <1>6. Requesters[th].state = q.state /\ Requesters[th].theirs = q.theirDid
    BY <1>1 DEF EndOf
  <1> QED
    BY <1>2, <1>3, <1>5, <1>6 DEF Put, th, q

LEMMA ResponderPut ==
  ASSUME TypeInv, AgreementInv, OneHandler,
         NEW a \in Agents, NEW c \in ConnIds, NEW r \in ConnectionRecords,
         SaveConnection(a, c, r), conns[a][c] # None, conns[a][c].role = "responder",
         r.role = "responder", r.thread = conns[a][c].thread,
         r.did = conns[a][c].did, r.theirDid = conns[a][c].theirDid
  PROVE  LET th == conns[a][c].thread IN
         /\ th \in Threads /\ Requesters' = Requesters
         /\ Responders' = PutState(Responders, th, r.state)
         /\ Responders[th].state = conns[a][c].state
         /\ Responders[th].ours = conns[a][c].did
  <1> DEFINE q  == conns[a][c]
             th == q.thread
  <1>1. Responders[th] = EndOf(q.state, q.did, q.theirDid)
    BY EndsOfRecords, EndsAreEnds
  <1>2. /\ th \in Threads /\ Requesters' = Requesters
        /\ Responders' = [Responders EXCEPT ![th] = End(r)]
    BY ResponderWritten DEF Connection
  <1>3. End(r) = EndOf(r.state, q.did, q.theirDid)
    BY EndsAreEnds
  <1>4. th \in DOMAIN Responders
    BY <1>2 DEF Responders
  <1> HIDE DEF th, q
  <1>5. PutState(Responders, th, r.state) = Put(Responders, th, EndOf(r.state, q.did, q.theirDid))
    BY <1>1, <1>4, ChangedEnds
  <1>6. Responders[th].state = q.state /\ Responders[th].ours = q.did
    BY <1>1 DEF EndOf
  <1> QED
    BY <1>2, <1>3, <1>5, <1>6 DEF Put, th, q

LEMMA CompleteIsComplete ==
  ASSUME TypeInv, AgreementInv, OneHandler,
         NEW a \in Agents, NEW c \in ConnIds, NEW r \in ConnectionRecords,
         SaveConnection(a, c, r), conns[a][c] # None, r.role = conns[a][c].role,
         r.thread = conns[a][c].thread, Completes(conns[a][c], r)
  PROVE  ContractStep
  <1> DEFINE q == conns[a][c]
  <1>1. r.state = "completed" /\ r.did = q.did /\ r.theirDid = q.theirDid
    BY DEF Completes
  <1>2. CASE q.role = "requester" /\ q.state = "response-received"
    <2> DEFINE th == [agent |-> a, conn |-> c]
    <2>1. /\ th \in Threads /\ Responders' = Responders
          /\ Requesters' = PutState(Requesters, th, "completed")
          /\ Requesters[th].state = "response-received"
      BY <1>1, <1>2, RequesterPut DEF Young
    <2> HIDE DEF th
    <2>2. Contract!RequesterCompletes(th)
      BY <2>1 DEF Contract!RequesterCompletes, Requesters, Responders, PutState
    <2> QED
      BY <2>1, <2>2 DEF ContractStep, Contract!ContractNext
  <1>3. CASE q.role = "responder" /\ q.state = "response-sent" /\ DoneIn(conns, q.thread)
    <2> DEFINE th == q.thread
               p  == conns[th.agent][th.conn]
    <2>1. /\ th \in Threads /\ Requesters' = Requesters
          /\ Responders' = PutState(Responders, th, "completed")
          /\ Responders[th].state = "response-sent"
      BY <1>1, <1>3, ResponderPut
    <2>2. /\ th.agent \in Agents /\ th.conn \in ConnIds
          /\ p # None /\ p.role = "requester" /\ p.state \in {"completed", "abandoned"}
      BY <1>3 DEF DoneIn, Threads
    <2>3. Requesters[th] = End(p)
      BY <2>1, <2>2 DEF Requesters, RequesterEnd, Connection
    <2>4. Requesters[th].state \in {"completed", "abandoned"}
      <3> HIDE DEF th, p
      <3>1. End(p).state = p.state
        BY DEF End
      <3> QED
        BY <2>2, <2>3, <3>1
    <2> HIDE DEF th, p
    <2>5. Contract!ResponderCompletes(th)
      BY <2>1, <2>4 DEF Contract!ResponderCompletes, Requesters, Responders, PutState
    <2> QED
      BY <2>1, <2>5 DEF ContractStep, Contract!ContractNext
  <1> QED
    BY <1>2, <1>3 DEF Completes

LEMMA AbandonIsAbandon ==
  ASSUME TypeInv, AgreementInv, OneHandler,
         NEW a \in Agents, NEW c \in ConnIds, NEW r \in ConnectionRecords,
         SaveConnection(a, c, r), conns[a][c] # None, r.role = conns[a][c].role,
         r.thread = conns[a][c].thread, Abandons(conns[a][c], r)
  PROVE  ContractStep
  <1> DEFINE q == conns[a][c]
  <1>1. r.state = "abandoned" /\ r.did = q.did /\ r.theirDid = q.theirDid
        /\ q.did # None /\ q.theirDid # None /\ q.state \notin Young
    BY DEF Abandons
  <1>2. CASE q.role = "requester"
    <2> DEFINE th == [agent |-> a, conn |-> c]
    <2>1. /\ th \in Threads /\ Responders' = Responders
          /\ Requesters' = PutState(Requesters, th, "abandoned")
          /\ Requesters[th].theirs # None
      BY <1>1, <1>2, RequesterPut DEF Young
    <2> HIDE DEF th
    <2>2. Contract!RequesterAbandons(th)
      BY <2>1 DEF Contract!RequesterAbandons, Requesters, Responders, PutState
    <2> QED
      BY <2>1, <2>2 DEF ContractStep, Contract!ContractNext
  <1>3. CASE q.role = "responder"
    <2> DEFINE th == q.thread
    <2>1. /\ th \in Threads /\ Requesters' = Requesters
          /\ Responders' = PutState(Responders, th, "abandoned")
          /\ Responders[th].ours # None
      BY <1>1, <1>3, ResponderPut
    <2> HIDE DEF th
    <2>2. Contract!ResponderAbandons(th)
      BY <2>1 DEF Contract!ResponderAbandons, Requesters, Responders, PutState
    <2> QED
      BY <2>1, <2>2 DEF ContractStep, Contract!ContractNext
  <1>4. q.role \in ConnRoles
    BY ReadRecord DEF ConnectionRecords
  <1> QED
    BY <1>2, <1>3, <1>4 DEF ConnRoles

\* Every write of a connection record is a step of the contract, or changes no end.
LEMMA WritesAreContractSteps ==
  ASSUME TypeInv, AgreementInv, ContractInv, OneHandler,
         UNCHANGED conns \/ Started \/ WentOn
  PROVE  ContractStep
  <1>1. CASE UNCHANGED conns
    BY <1>1
    DEF ContractStep, Requesters, Responders, RequesterEnd, ResponderEnd, RespondersTo,
        Connection, ConnectionsByThread
  <1>2. CASE Started
    BY <1>2, StartIsAsk
  <1>3. CASE WentOn
    <2>1. PICK a \in Agents, c \in ConnIds, r \in ConnectionRecords :
            SaveConnection(a, c, r) /\ GoesOn(a, c, r)
      BY <1>3 DEF WentOn
    <2> QED
      BY <2>1, ReceiveIsReceive, AnswerIsAnswer, LearnIsLearn, CompleteIsComplete,
         AbandonIsAbandon DEF GoesOn
  <1> QED
    BY <1>1, <1>2, <1>3

-------------------------------------------------------------------------------
(* What these writes keep *)

Moves == UNCHANGED conns \/ Started \/ WentOn

\* An invitee that is done stays done, with the DID that it asked with.
LEMMA MovesKeepDone ==
  ASSUME TypeInv, Moves, NEW th, DoneIn(conns, th)
  PROVE  /\ DoneIn(conns', th)
         /\ conns'[th.agent][th.conn].did = conns[th.agent][th.conn].did
  <1> DEFINE b == th.agent
             d == th.conn
             q == conns[b][d]
  <1>1. /\ th \in Threads /\ b \in Agents /\ d \in ConnIds
        /\ q # None /\ q.role = "requester" /\ q.state \in {"completed", "abandoned"}
    BY DEF DoneIn, Threads
  <1>2. CASE UNCHANGED conns
    BY <1>2
  <1>3. CASE Started
    <2>1. PICK a \in Agents, c \in ConnIds, r \in ConnectionRecords :
            SaveConnection(a, c, r) /\ Starts(a, c, r)
      BY <1>3 DEF Started
    <2>2. a # b \/ c # d
      BY <1>1, <2>1 DEF Starts
    <2>3. conns'[b][d] = q
      BY <1>1, <2>1, <2>2, SavedRecord
    <2> QED
      BY <2>3 DEF DoneIn
  <1>4. CASE WentOn
    <2>1. PICK a \in Agents, c \in ConnIds, r \in ConnectionRecords :
            SaveConnection(a, c, r) /\ GoesOn(a, c, r)
      BY <1>4 DEF WentOn
    <2>2. CASE a # b \/ c # d
      <3>1. conns'[b][d] = q
        BY <1>1, <2>1, <2>2, SavedRecord
      <3> QED
        BY <3>1 DEF DoneIn
    <2>3. CASE a = b /\ c = d
      <3>1. conns'[b][d] = r /\ r # None
        BY <2>1, <2>3, SavedRecord
      <3>2. r.role = "requester" /\ r.state = "abandoned" /\ r.did = q.did
        BY <1>1, <2>1, <2>3
        DEF GoesOn, Receives, Answers, Learns, Completes, Abandons
      <3> QED
        BY <1>1, <3>1, <3>2 DEF DoneIn
    <2> QED
      BY <2>2, <2>3
  <1> QED
    BY <1>2, <1>3, <1>4 DEF Moves

LEMMA MovesKeepFresh ==
  ASSUME TypeInv, Moves, NEW m, FreshMessage(conns, m)
  PROVE  FreshMessage(conns', m)
  <1>1. ASSUME m.type = "ping"
        PROVE  PingedIn(conns', m.from)
    <2>1. PICK th \in Threads :
            DoneIn(conns, th) /\ conns[th.agent][th.conn].did.key = m.from
      BY <1>1 DEF FreshMessage, PingedIn
    <2>2. /\ DoneIn(conns', th)
          /\ conns'[th.agent][th.conn].did = conns[th.agent][th.conn].did
      BY <2>1, MovesKeepDone
    <2> QED
      BY <2>1, <2>2 DEF PingedIn
  <1>2. m.type = "dx-complete" => DoneIn(conns', m.thread)
    BY MovesKeepDone DEF FreshMessage
  <1> QED
    BY <1>1, <1>2 DEF FreshMessage

\* The inviter's end is the last to be complete.
LEMMA MovesCompleteLast ==
  ASSUME TypeInv, ContractInv, Moves, NEW a \in Agents, NEW c \in ConnIds,
         Connection(a, c, "responder")', conns'[a][c].state = "completed"
  PROVE  DoneIn(conns', conns'[a][c].thread)
  <1>1. CASE conns'[a][c] = conns[a][c]
    BY <1>1, MovesKeepDone DEF ContractInv, Connection
  <1>2. CASE conns'[a][c] # conns[a][c]
    <2>1. CASE UNCHANGED conns
      BY <1>2, <2>1
    <2>2. CASE Started
      <3>1. PICK b \in Agents, d \in ConnIds, r \in ConnectionRecords :
              SaveConnection(b, d, r) /\ Starts(b, d, r)
        BY <2>2 DEF Started
      <3>2. conns'[a][c] = r
        BY <1>2, <3>1, SavedRecord
      <3> QED
        BY <3>1, <3>2 DEF Starts, Connection
    <2>3. CASE WentOn
      <3>1. PICK b \in Agents, d \in ConnIds, r \in ConnectionRecords :
              SaveConnection(b, d, r) /\ GoesOn(b, d, r)
        BY <2>3 DEF WentOn
      <3>2. a = b /\ c = d /\ conns'[a][c] = r
        BY <1>2, <3>1, SavedRecord
      <3>3. DoneIn(conns, r.thread)
        BY <3>1, <3>2 DEF Connection, GoesOn, Receives, Answers, Learns, Completes, Abandons
      <3> QED
        BY <3>2, <3>3, MovesKeepDone
    <2> QED
      BY <2>1, <2>2, <2>3 DEF Moves
  <1> QED
    BY <1>1, <1>2

\* An invitee asks with the DIDs that it asked with before.
AsksAsBefore ==
  \A a \in Agents, c \in ConnIds :
    /\ AsksWith(conns', a, c) => AsksWith(conns, a, c)
    /\ conns[a][c] # None /\ conns[a][c].role = "requester"
       => conns'[a][c].did = conns[a][c].did

LEMMA WentOnAsks ==
  ASSUME TypeInv, UNCHANGED conns \/ WentOn
  PROVE  AsksAsBefore
  <1>1. CASE UNCHANGED conns
    BY <1>1 DEF AsksAsBefore
  <1>2. CASE WentOn
    <2>1. PICK b \in Agents, d \in ConnIds, r \in ConnectionRecords :
            SaveConnection(b, d, r) /\ GoesOn(b, d, r)
      BY <1>2 DEF WentOn
    <2>2. SUFFICES ASSUME NEW a \in Agents, NEW c \in ConnIds
                   PROVE  /\ AsksWith(conns', a, c) => AsksWith(conns, a, c)
                          /\ conns[a][c] # None /\ conns[a][c].role = "requester"
                             => conns'[a][c].did = conns[a][c].did
      BY DEF AsksAsBefore
    <2>3. CASE a # b \/ c # d
      <3>1. conns'[a][c] = conns[a][c]
        BY <2>1, <2>3, SavedRecord
      <3> QED
        BY <3>1 DEF AsksWith
    <2>4. CASE a = b /\ c = d
      <3>1. conns'[a][c] = r /\ r # None
        BY <2>1, <2>4, SavedRecord
      <3>2. r.role = "requester" =>
              conns[a][c] # None /\ conns[a][c].role = "requester" /\ r.did = conns[a][c].did
        BY <2>1, <2>4 DEF GoesOn, Receives, Answers, Learns, Completes, Abandons
      <3>3. conns[a][c] # None => r.role = conns[a][c].role
        BY <2>1, <2>4 DEF GoesOn, Receives
      <3> QED
        BY <3>1, <3>2, <3>3 DEF AsksWith
    <2> QED
      BY <2>3, <2>4
  <1> QED
    BY <1>1, <1>2

MoreDids == \A a \in Agents : Len(dids[a]) \in Nat /\ Len(dids'[a]) \in Nat
                           /\ Len(dids[a]) <= Len(dids'[a])

LEMMA DidsGrow ==
  ASSUME TypeInv, UNCHANGED dids \/ \E a \in Agents : \E role, d : SaveDid(a, role, d)
  PROVE  MoreDids
  <1>1. \A a \in Agents : dids[a] \in Seq(DidRecords) /\ Len(dids[a]) \in Nat
    BY DEF TypeInv, DidsType
  <1>2. CASE UNCHANGED dids
    BY <1>1, <1>2 DEF MoreDids
  <1>3. CASE \E a \in Agents : \E role, d : SaveDid(a, role, d)
    <2>1. PICK a \in Agents : \E role, d : SaveDid(a, role, d)
      BY <1>3
    <2>2. PICK role, d : SaveDid(a, role, d)
      BY <2>1
    <2> DEFINE x == [role |-> role, did |-> d]
    <2>3. \A b \in Agents : dids'[b] = IF b = a THEN Append(dids[a], x) ELSE dids[b]
      BY <2>2 DEF SaveDid, TypeInv, DidsType
    <2> HIDE DEF x
    <2>4. ASSUME NEW q \in Seq(DidRecords)
          PROVE  Len(Append(q, x)) = Len(q) + 1 /\ Len(q) \in Nat
      OBVIOUS
    <2>5. \A b \in Agents : Len(dids'[b]) \in {Len(dids[b]), Len(dids[b]) + 1}
      BY <1>1, <2>3, <2>4
    <2> QED
      BY <1>1, <2>5 DEF MoreDids
  <1> QED
    BY <1>2, <1>3

LEMMA KeysKept ==
  ASSUME TypeInv, AgreementInv, KeyInv, MoreDids, AsksAsBefore,
         \A b \in Agents, u \in Slots :
           tasks'[b][u] = tasks[b][u] \/ tasks'[b][u].pc \notin KeySteps
  PROVE  KeyInv'
  <1>1. \A a \in Agents : \A key : IsOwnKey(dids, a, key) => IsOwnKey(dids', a, key)
    BY DEF MoreDids, IsOwnKey
  <1>2. \A a \in Agents, c \in ConnIds :
          AsksWith(conns', a, c) => AsksWith(conns, a, c) /\ conns'[a][c].did = conns[a][c].did
    BY DEF AsksAsBefore, AsksWith
  <1>3. \A a \in Agents, t \in Slots :
          tasks'[a][t].pc \in KeySteps => tasks'[a][t] = tasks[a][t]
    OBVIOUS
  <1>4. \A a \in Agents, c \in ConnIds :
          AsksWith(conns', a, c) => IsOwnKey(dids', a, conns'[a][c].did.key)
    BY <1>1, <1>2 DEF KeyInv
  <1>5. \A a \in Agents, c, d \in ConnIds :
          AsksWith(conns', a, c) /\ AsksWith(conns', a, d)
          /\ conns'[a][c].did.key = conns'[a][d].did.key => c = d
    BY <1>2 DEF KeyInv
  <1>6. ASSUME NEW a \in Agents, NEW t \in Slots, tasks'[a][t].pc \in UnsavedSteps
        PROVE  /\ IsOwnKey(dids', a, tasks'[a][t].conn.did.key)
               /\ \A c \in ConnIds :
                    AsksWith(conns', a, c) => conns'[a][c].did.key # tasks'[a][t].conn.did.key
               /\ \A u \in Slots :
                    tasks'[a][u].pc \in UnsavedSteps
                    /\ tasks'[a][u].conn.did.key = tasks'[a][t].conn.did.key => u = t
    <2>1. UnsavedSteps \subseteq KeySteps
      BY DEF UnsavedSteps, KeySteps
    <2>2. tasks'[a][t] = tasks[a][t]
      BY <1>3, <1>6, <2>1
    <2> QED
      BY <1>1, <1>2, <1>3, <1>6, <2>1, <2>2 DEF KeyInv
  <1>7. ASSUME NEW a \in Agents, NEW t \in Slots, tasks'[a][t].pc = "cx-sendRequest"
        PROVE  conns'[a][tasks'[a][t].id].did = tasks'[a][t].conn.did
    <2>1. tasks'[a][t] = tasks[a][t]
      BY <1>3, <1>7 DEF KeySteps
    <2>2. /\ tasks[a][t].id \in ConnIds
          /\ YoungCopy(conns[a][tasks[a][t].id], tasks[a][t].conn)
      BY <1>7, <2>1, YoungTask DEF YoungSteps, RequesterSteps
    <2>3. tasks[a][t].conn.role = "requester"
      BY <1>7, <2>1, TaskIsSound DEF SoundTasks
    <2>4. conns[a][tasks[a][t].id].did = tasks[a][t].conn.did
      BY <1>7, <2>1 DEF KeyInv
    <2>5. conns[a][tasks[a][t].id] # None /\ conns[a][tasks[a][t].id].role = "requester"
      BY <2>2, <2>3 DEF YoungCopy
    <2> QED
      BY <2>1, <2>2, <2>4, <2>5 DEF AsksAsBefore
  <1> QED
    BY <1>4, <1>5, <1>6, <1>7 DEF KeyInv

-------------------------------------------------------------------------------
(* The shapes of a step *)

ImplInv == KeyInv /\ ContractInv

\* The messages in flight after a step are ones there were and fresh ones.
SentAreFresh == \A m \in net' : m \in net \/ FreshMessage(conns', m)

LEMMA NothingSentIsFresh ==
  ASSUME UNCHANGED net \/ net' \subseteq net
  PROVE  SentAreFresh
  BY DEF SentAreFresh

LEMMA OneSentIsFresh ==
  ASSUME NEW m, Send(m), FreshMessage(conns', m)
  PROVE  SentAreFresh
  BY DEF SentAreFresh, Send

LEMMA DeliveredIsFresh ==
  ASSUME ContractInv, NEW a, NEW h, NEW m, NEW type, Delivers(a, h, m, type)
  PROVE  FreshMessage(conns, m) /\ SentAreFresh
  BY DEF Delivers, Consume, SentAreFresh, ContractInv

LEMMA EarlyIsFresh ==
  ASSUME NEW cs, NEW a, NEW t, NEW k, k.pc \notin LateSteps
  PROVE  FreshTask(cs, a, t, k)
  BY DEF FreshTask, LateSteps, ResponseSteps

\* Task t of agent a goes on as k; if it wrote a record, the record was its own or it is
\* the one handler.
LEMMA StepKeepsContract ==
  ASSUME TypeInv, AgreementInv, ContractInv, OneHandler, Moves, SentAreFresh,
         NEW a \in Agents, NEW t \in Slots, NEW k, Continue(a, t, k),
         FreshTask(conns', a, t, k),
         \/ UNCHANGED conns
         \/ \E c \in ConnIds, r \in ConnectionRecords :
              /\ SaveConnection(a, c, r)
              /\ t \in Handlers \/ conns[a][c] = None \/ conns[a][c].state \in Young
  PROVE  ContractInv'
  <1>1. \A b \in Agents, c \in ConnIds :
          (Connection(b, c, "responder") /\ conns[b][c].state = "completed")'
          => DoneIn(conns', conns'[b][c].thread)
    BY MovesCompleteLast
  <1>2. \A m \in net' : FreshMessage(conns', m)
    BY MovesKeepFresh DEF SentAreFresh, ContractInv
  <1>3. ASSUME NEW b \in Agents, NEW u \in Slots
        PROVE  FreshTask(conns', b, u, tasks'[b][u])
    <2>1. CASE b = a /\ u = t
      BY <2>1 DEF Continue, TypeInv, TasksType
    <2>2. CASE b # a \/ u # t
      <3> DEFINE j == tasks[b][u]
      <3>1. tasks'[b][u] = j
        BY <2>2 DEF Continue, TypeInv, TasksType
      <3>2. FreshTask(conns, b, u, j)
        BY DEF ContractInv
      <3>3. CASE j.pc \notin LateSteps
        BY <3>1, <3>3, EarlyIsFresh
      <3>4. CASE j.pc \in LateSteps
        <4>1. /\ j.id \in ConnIds /\ conns[b][j.id] # None
              /\ conns[b][j.id].state \notin Young /\ u \in Handlers
              /\ conns[b][j.id] = j.conn
          BY <3>2, <3>4, LateTask DEF FreshTask
        <4>2. conns'[b][j.id] = conns[b][j.id]
          <5>1. CASE UNCHANGED conns
            BY <5>1
          <5>2. ASSUME NEW c \in ConnIds, NEW r \in ConnectionRecords, SaveConnection(a, c, r),
                       t \in Handlers \/ conns[a][c] = None \/ conns[a][c].state \in Young
                PROVE  conns'[b][j.id] = conns[b][j.id]
            <6>1. b # a \/ j.id # c
              BY <2>2, <4>1, <5>2 DEF OneHandler
            <6> QED
              BY <4>1, <5>2, <6>1, SavedRecord
          <5> QED
            BY <5>1, <5>2
        <4>3. \A th : DoneIn(conns, th) => DoneIn(conns', th)
          BY MovesKeepDone
        <4> HIDE DEF j
        <4>4. FreshTask(conns', b, u, j)
          BY <3>2, <4>1, <4>2, <4>3 DEF FreshTask
        <4> QED
          BY <3>1, <4>4
      <3> QED
        BY <3>3, <3>4
    <2> QED
      BY <2>1, <2>2
  <1> QED
    BY <1>1, <1>2, <1>3 DEF ContractInv

\* A step that writes no connection record.
LEMMA TaskKeepsImpl ==
  ASSUME TypeInv, AgreementInv, ImplInv, OneHandler, UNCHANGED conns, MoreDids, SentAreFresh,
         NEW a \in Agents, NEW t \in Slots, NEW k, Continue(a, t, k),
         FreshTask(conns, a, t, k), k.pc \notin KeySteps
  PROVE  ImplInv' /\ Moves
  <1>1. Moves /\ AsksAsBefore
    BY WentOnAsks DEF Moves
  <1>2. FreshTask(conns', a, t, k)
    OBVIOUS
  <1>3. \A b \in Agents, u \in Slots :
          tasks'[b][u] = tasks[b][u] \/ tasks'[b][u].pc \notin KeySteps
    BY DEF Continue, TypeInv, TasksType
  <1> QED
    BY <1>1, <1>2, <1>3, StepKeepsContract, KeysKept DEF ImplInv

\* No task comes to a step that the invariant is about.
LEMMA EarlyKeepsImpl ==
  ASSUME TypeInv, AgreementInv, ImplInv, UNCHANGED conns, MoreDids, SentAreFresh,
         \A b \in Agents, u \in Slots :
           tasks'[b][u] = tasks[b][u] \/ tasks'[b][u].pc \notin LateSteps \cup KeySteps
  PROVE  ImplInv' /\ Moves
  <1>1. Moves /\ AsksAsBefore
    BY WentOnAsks DEF Moves
  <1>2. KeyInv'
    BY <1>1, KeysKept DEF ImplInv
  <1>3. \A m \in net' : FreshMessage(conns', m)
    BY DEF SentAreFresh, ImplInv, ContractInv
  <1>4. \A b \in Agents, u \in Slots : FreshTask(conns', b, u, tasks'[b][u])
    BY EarlyIsFresh DEF ImplInv, ContractInv
  <1>5. \A b \in Agents, c \in ConnIds :
          (Connection(b, c, "responder") /\ conns[b][c].state = "completed")'
          => DoneIn(conns', conns'[b][c].thread)
    BY <1>1, MovesCompleteLast DEF ImplInv
  <1> QED
    BY <1>1, <1>2, <1>3, <1>4, <1>5 DEF ImplInv, ContractInv

LEMMA EarlyTaskKeepsImpl ==
  ASSUME TypeInv, AgreementInv, ImplInv, UNCHANGED conns, MoreDids, SentAreFresh,
         NEW a \in Agents, NEW t, NEW k, Continue(a, t, k), k.pc \notin LateSteps \cup KeySteps
  PROVE  ImplInv' /\ Moves
  <1>1. \A b \in Agents, u \in Slots : tasks'[b][u] = tasks[b][u] \/ tasks'[b][u] = k
    BY DEF Continue, TypeInv, TasksType
  <1> QED
    BY <1>1, EarlyKeepsImpl

LEMMA FinishKeepsImpl ==
  ASSUME TypeInv, AgreementInv, ImplInv, UNCHANGED conns, MoreDids, SentAreFresh,
         NEW a \in Agents, NEW t, Finish(a, t)
  PROVE  ImplInv' /\ Moves
  <1>1. Idle.pc \notin LateSteps \cup KeySteps
    BY DEF Idle, LateSteps, ResponseSteps, KeySteps
  <1> QED
    BY <1>1, EarlyTaskKeepsImpl DEF Finish

\* A handler goes on with a connection.
LEMMA WriteKeepsImpl ==
  ASSUME TypeInv, AgreementInv, ImplInv, OneHandler, UNCHANGED dids, SentAreFresh,
         NEW a \in Agents, NEW t \in Slots, NEW c \in ConnIds, NEW r \in ConnectionRecords,
         SaveConnection(a, c, r), GoesOn(a, c, r),
         t \in Handlers \/ conns[a][c] = None \/ conns[a][c].state \in Young,
         \/ Finish(a, t)
         \/ \E k : Continue(a, t, k) /\ FreshTask(conns', a, t, k) /\ k.pc \notin KeySteps
  PROVE  ImplInv' /\ Moves
  <1>1. Idle.pc \notin LateSteps \cup KeySteps
    BY DEF Idle, LateSteps, ResponseSteps, KeySteps
  <1>2. PICK k : Continue(a, t, k) /\ FreshTask(conns', a, t, k) /\ k.pc \notin KeySteps
    BY <1>1, EarlyIsFresh DEF Finish
  <1>3. WentOn
    BY DEF WentOn
  <1>4. Moves /\ AsksAsBefore /\ MoreDids
    BY <1>3, WentOnAsks, DidsGrow DEF Moves
  <1>5. \A b \in Agents, u \in Slots :
          tasks'[b][u] = tasks[b][u] \/ tasks'[b][u].pc \notin KeySteps
    BY <1>2 DEF Continue, TypeInv, TasksType
  <1> QED
    BY <1>2, <1>4, <1>5, StepKeepsContract, KeysKept DEF ImplInv

\* A caller writes what it starts a connection with.
LEMMA StartKeepsContract ==
  ASSUME TypeInv, AgreementInv, ImplInv, OneHandler, SentAreFresh,
         NEW a \in Agents, NEW t \in Slots, NEW c \in ConnIds, NEW r \in ConnectionRecords,
         SaveConnection(a, c, r), Starts(a, c, r),
         NEW k, Continue(a, t, k), k.pc \notin LateSteps
  PROVE  ContractInv' /\ Moves
  <1>1. Moves
    BY DEF Moves, Started
  <1>2. FreshTask(conns', a, t, k)
    BY EarlyIsFresh
  <1>3. conns[a][c] = None \/ conns[a][c].state \in Young
    BY DEF Starts, Young
  <1> QED
    BY <1>1, <1>2, <1>3, StepKeepsContract DEF ImplInv

-------------------------------------------------------------------------------
(* The keys of requests are new *)

LEMMA NewKeyIsOwn ==
  ASSUME TypeInv, NEW a \in Agents, NEW d, SaveDid(a, "created", d)
  PROVE  /\ ~IsOwnKey(dids, a, RoutingKey(a))
         /\ IsOwnKey(dids', a, RoutingKey(a))
         /\ \A b \in Agents : \A key : IsOwnKey(dids, b, key) => IsOwnKey(dids', b, key)
  <1> DEFINE x == [role |-> "created", did |-> d]
  <1>1. \A b \in Agents : dids[b] \in Seq(DidRecords) /\ Len(dids[b]) \in Nat
    BY DEF TypeInv, DidsType
  <1>2. \A b \in Agents : dids'[b] = IF b = a THEN Append(dids[a], x) ELSE dids[b]
    BY DEF SaveDid, TypeInv, DidsType
  <1> HIDE DEF x
  <1>3. ASSUME NEW q \in Seq(DidRecords)
        PROVE  Len(Append(q, x)) = Len(q) + 1
    OBVIOUS
  <1>4. \A b \in Agents : Len(dids'[b]) = IF b = a THEN Len(dids[b]) + 1 ELSE Len(dids[b])
    BY <1>1, <1>2, <1>3
  <1> QED
    BY <1>1, <1>4 DEF IsOwnKey, RoutingKey, NextDid

\* A call makes a DID for the connection it starts.
LEMMA NewDidKeepsKeys ==
  ASSUME TypeInv, AgreementInv, KeyInv, UNCHANGED conns, NEW a \in Agents, NEW s \in Slots,
         NEW d, d.key = RoutingKey(a), SaveDid(a, "created", d),
         NEW k, Continue(a, s, k), k.pc \in UnsavedSteps, k.conn.did = d
  PROVE  KeyInv'
  <1>1. /\ ~IsOwnKey(dids, a, d.key) /\ IsOwnKey(dids', a, d.key)
        /\ \A b \in Agents : \A key : IsOwnKey(dids, b, key) => IsOwnKey(dids', b, key)
    BY NewKeyIsOwn
  <1>2. \A b \in Agents, u \in Slots : tasks'[b][u] = IF b = a /\ u = s THEN k ELSE tasks[b][u]
    BY DEF Continue, TypeInv, TasksType
  <1>3. \A c \in ConnIds : AsksWith(conns, a, c) => conns[a][c].did.key # d.key
    BY <1>1 DEF KeyInv
  <1>4. \A u \in Slots : tasks[a][u].pc \in UnsavedSteps => tasks[a][u].conn.did.key # d.key
    BY <1>1 DEF KeyInv
  <1>5. ASSUME NEW b \in Agents, NEW t \in Slots, tasks'[b][t].pc \in UnsavedSteps
        PROVE  /\ IsOwnKey(dids', b, tasks'[b][t].conn.did.key)
               /\ \A c \in ConnIds :
                    AsksWith(conns', b, c) => conns'[b][c].did.key # tasks'[b][t].conn.did.key
               /\ \A u \in Slots :
                    tasks'[b][u].pc \in UnsavedSteps
                    /\ tasks'[b][u].conn.did.key = tasks'[b][t].conn.did.key => u = t
    <2>1. CASE b = a /\ t = s
      BY <1>1, <1>2, <1>3, <1>4, <2>1
    <2>2. CASE b # a \/ t # s
      <3>1. tasks'[b][t] = tasks[b][t]
        BY <1>2, <2>2
      <3> QED
        BY <1>1, <1>2, <1>4, <1>5, <2>2, <3>1 DEF KeyInv
    <2> QED
      BY <2>1, <2>2
  <1>6. ASSUME NEW b \in Agents, NEW t \in Slots, tasks'[b][t].pc = "cx-sendRequest"
        PROVE  conns'[b][tasks'[b][t].id].did = tasks'[b][t].conn.did
    <2>1. tasks'[b][t] = tasks[b][t]
      BY <1>2, <1>6 DEF UnsavedSteps
    <2> QED
      BY <1>6, <2>1 DEF KeyInv
  <1> QED
    BY <1>1, <1>5, <1>6 DEF KeyInv

\* ... and saves it in the record.
LEMMA SavedDidKeepsKeys ==
  ASSUME TypeInv, AgreementInv, KeyInv, UNCHANGED dids, NEW a \in Agents, NEW s \in Slots,
         tasks[a][s].pc \in UnsavedSteps, NEW c \in ConnIds, NEW r \in ConnectionRecords,
         SaveConnection(a, c, r), r.did = tasks[a][s].conn.did,
         conns[a][c] = None \/ Writes(a, s, c),
         NEW k, Continue(a, s, k), k.pc \notin UnsavedSteps,
         k.pc = "cx-sendRequest" => k.id = c /\ k.conn.did = r.did
  PROVE  KeyInv'
  <1>1. /\ r # None /\ conns'[a][c] = r
        /\ \A b \in Agents, d \in ConnIds : b # a \/ d # c => conns'[b][d] = conns[b][d]
    BY SavedRecord
  <1>2. \A b \in Agents, u \in Slots : tasks'[b][u] = IF b = a /\ u = s THEN k ELSE tasks[b][u]
    BY DEF Continue, TypeInv, TasksType
  <1>3. /\ IsOwnKey(dids, a, r.did.key)
        /\ \A d \in ConnIds : AsksWith(conns, a, d) => conns[a][d].did.key # r.did.key
        /\ \A u \in Slots :
             tasks[a][u].pc \in UnsavedSteps /\ tasks[a][u].conn.did.key = r.did.key => u = s
    BY DEF KeyInv
  <1>4. \A b \in Agents, d \in ConnIds :
          b # a \/ d # c =>
            (AsksWith(conns', b, d) <=> AsksWith(conns, b, d)) /\ conns'[b][d] = conns[b][d]
    BY <1>1 DEF AsksWith
  <1>5. ASSUME NEW b \in Agents, NEW d \in ConnIds, AsksWith(conns', b, d)
        PROVE  IsOwnKey(dids', b, conns'[b][d].did.key)
    BY <1>1, <1>3, <1>4, <1>5 DEF KeyInv
  <1>6. ASSUME NEW b \in Agents, NEW d \in ConnIds, NEW e \in ConnIds,
               AsksWith(conns', b, d), AsksWith(conns', b, e),
               conns'[b][d].did.key = conns'[b][e].did.key
        PROVE  d = e
    <2>1. CASE b # a \/ (d # c /\ e # c)
      <3>1. /\ AsksWith(conns, b, d) /\ AsksWith(conns, b, e)
            /\ conns[b][d].did.key = conns[b][e].did.key
        BY <1>4, <1>6, <2>1
      <3> QED
        BY <3>1 DEF KeyInv
    <2>2. CASE b = a /\ d = c /\ e # c
      BY <1>1, <1>3, <1>4, <1>6, <2>2
    <2>3. CASE b = a /\ d # c /\ e = c
      BY <1>1, <1>3, <1>4, <1>6, <2>3
    <2> QED
      BY <2>1, <2>2, <2>3
  <1>7. ASSUME NEW b \in Agents, NEW t \in Slots, tasks'[b][t].pc \in UnsavedSteps
        PROVE  /\ IsOwnKey(dids', b, tasks'[b][t].conn.did.key)
               /\ \A d \in ConnIds :
                    AsksWith(conns', b, d) => conns'[b][d].did.key # tasks'[b][t].conn.did.key
               /\ \A u \in Slots :
                    tasks'[b][u].pc \in UnsavedSteps
                    /\ tasks'[b][u].conn.did.key = tasks'[b][t].conn.did.key => u = t
    <2>1. (b # a \/ t # s) /\ tasks'[b][t] = tasks[b][t]
      BY <1>2, <1>7
    <2>2. \A u \in Slots :
            tasks'[b][u].pc \in UnsavedSteps => tasks'[b][u] = tasks[b][u]
      BY <1>2
    <2>3. \A d \in ConnIds :
            AsksWith(conns', b, d) => conns'[b][d].did.key # tasks'[b][t].conn.did.key
      BY <1>1, <1>3, <1>4, <1>7, <2>1 DEF KeyInv
    <2> QED
      BY <1>7, <2>1, <2>2, <2>3 DEF KeyInv
  <1>8. ASSUME NEW b \in Agents, NEW t \in Slots, tasks'[b][t].pc = "cx-sendRequest"
        PROVE  conns'[b][tasks'[b][t].id].did = tasks'[b][t].conn.did
    <2>1. CASE b = a /\ t = s
      BY <1>1, <1>2, <1>8, <2>1
    <2>2. CASE b # a \/ t # s
      <3>1. tasks'[b][t] = tasks[b][t] /\ tasks[b][t].pc \in YoungSteps
        BY <1>2, <1>8, <2>2 DEF YoungSteps, RequesterSteps
      <3>2. /\ tasks[b][t].id \in ConnIds /\ conns[b][tasks[b][t].id] # None
            /\ Writes(b, t, tasks[b][t].id)
        BY <3>1, YoungTask DEF YoungCopy
      <3>3. b # a \/ tasks[b][t].id # c
        BY <2>2, <3>2 DEF AgreementInv
      <3> QED
        BY <1>1, <1>8, <3>1, <3>2, <3>3 DEF KeyInv
    <2> QED
      BY <2>1, <2>2
  <1> QED
    BY <1>5, <1>6, <1>7, <1>8 DEF KeyInv

-------------------------------------------------------------------------------
(* The DID exchange *)

LEMMA DxCreateConnectionImpl ==
  ASSUME TypeInv, AgreementInv, ImplInv, OneHandler,
         NEW a \in Agents, NEW s \in Callers, DxCreateConnection(a, s)
  PROVE  ImplInv' /\ Moves
  <1> DEFINE k == tasks[a][s]
             r == [role |-> "requester", state |-> "invitation-received",
                   protocol |-> "did-exchange", thread |-> None, inv |-> k.inv,
                   did |-> None, theirDid |-> None]
             n(c) == [k EXCEPT !.pc = "dx-createRequestDid", !.id = c, !.conn = r]
  <1>1. s \in Slots /\ k \in Tasks /\ k.inv \in Invitations
    BY TaskIsSound DEF DxCreateConnection, At, Slots, SoundTasks, UsesInvitation
  <1>2. PICK c \in ConnIds : conns[a][c] = None /\ SaveConnection(a, c, r) /\ Continue(a, s, n(c))
    BY DEF DxCreateConnection, FreshConnId
  <1>3. r \in ConnectionRecords /\ r.role = "requester" /\ r.state = "invitation-received"
        /\ r.did = None
    BY <1>1, NoneAssumption DEF ConnectionRecords, ConnRoles, ConnStates, ConnectionProtocols
  <1> HIDE DEF r
  <1>4. n(c).pc = "dx-createRequestDid"
    BY <1>1 DEF Tasks
  <1> HIDE DEF n
  <1>5. n(c).pc \notin LateSteps \cup KeySteps
    BY <1>4 DEF LateSteps, ResponseSteps, KeySteps
  <1>6. Starts(a, c, r)
    BY <1>2, <1>3 DEF Starts
  <1>7. ContractInv' /\ Moves
    BY <1>1, <1>2, <1>3, <1>5, <1>6, StartKeepsContract, NothingSentIsFresh DEF DxCreateConnection
  <1>8. AsksAsBefore
    BY <1>2, <1>3, SavedRecord DEF AsksAsBefore, AsksWith
  <1>9. MoreDids
    BY DidsGrow DEF DxCreateConnection
  <1>10. \A b \in Agents, u \in Slots : tasks'[b][u] = tasks[b][u] \/ tasks'[b][u].pc \notin KeySteps
    BY <1>2, <1>5 DEF Continue, TypeInv, TasksType
  <1> QED
    BY <1>7, <1>8, <1>9, <1>10, KeysKept DEF ImplInv

LEMMA DxCreateRequestDidImpl ==
  ASSUME TypeInv, AgreementInv, ImplInv, OneHandler,
         NEW a \in Agents, NEW s \in Callers, DxCreateRequestDid(a, s)
  PROVE  ImplInv' /\ Moves
  <1> DEFINE k == tasks[a][s]
             d == [key |-> RoutingKey(a), n |-> NextDid(a)]
             n == [k EXCEPT !.pc = "dx-sendRequest", !.conn.did = d]
  <1>1. s \in Slots /\ k.pc \in YoungSteps
    BY DEF DxCreateRequestDid, At, Slots, YoungSteps, RequesterSteps
  <1>2. k \in Tasks /\ k.conn \in ConnectionRecords
    BY <1>1, YoungTask
  <1>3. Continue(a, s, n) /\ SaveDid(a, "created", d) /\ UNCHANGED <<conns, net>>
    BY DEF DxCreateRequestDid
  <1>4. d.key = RoutingKey(a)
    OBVIOUS
  <1> HIDE DEF d
  <1>5. n.pc = "dx-sendRequest" /\ n.conn.did = d
    BY <1>2 DEF Tasks, ConnectionRecords
  <1> HIDE DEF n
  <1>6. n.pc \in UnsavedSteps /\ n.pc \notin LateSteps
    BY <1>5 DEF UnsavedSteps, LateSteps, ResponseSteps
  <1>7. KeyInv'
    BY <1>1, <1>3, <1>4, <1>5, <1>6, NewDidKeepsKeys DEF ImplInv
  <1>8. Moves /\ SentAreFresh
    BY <1>3, NothingSentIsFresh DEF Moves
  <1>9. FreshTask(conns', a, s, n)
    BY <1>6, EarlyIsFresh
  <1> QED
    BY <1>1, <1>3, <1>7, <1>8, <1>9, StepKeepsContract DEF ImplInv

LEMMA DxSendRequestImpl ==
  ASSUME TypeInv, AgreementInv, ImplInv, OneHandler,
         NEW a \in Agents, NEW s \in Callers, DxSendRequest(a, s)
  PROVE  ImplInv' /\ Moves
  <1> DEFINE k  == tasks[a][s]
             th == [agent |-> a, conn |-> k.id]
             r  == [k.conn EXCEPT !.state = NextState("dx-request", k.conn), !.thread = th]
             m  == [type |-> "dx-request", from |-> r.did.key, to |-> InvitationKey(k.inv),
                    thread |-> th, inv |-> k.inv, did |-> r.did]
  <1>1. s \in Slots /\ k.pc = "dx-sendRequest" /\ k.pc \in YoungSteps /\ k.pc \in UnsavedSteps
    BY DEF DxSendRequest, At, Slots, YoungSteps, RequesterSteps, UnsavedSteps
  <1>2. k.id \in ConnIds /\ k.conn \in ConnectionRecords
        /\ YoungCopy(conns[a][k.id], k.conn) /\ Writes(a, s, k.id)
        /\ SoundRecord(conns, a, k.id, conns[a][k.id])
    BY <1>1, YoungTask
  <1>3. k.conn.role = "requester" /\ k.conn.did \in PeerDids
    BY <1>1, TaskIsSound DEF SoundTasks
  <1>4. th \in Threads /\ NextState("dx-request", k.conn) = "request-sent"
    BY <1>2, <1>3, RequesterNextStates DEF Threads
  <1>5. r \in ConnectionRecords /\ r.role = "requester" /\ r.state = "request-sent"
        /\ r.did = k.conn.did /\ r.theirDid = k.conn.theirDid
    BY <1>2, <1>3, <1>4 DEF ConnectionRecords, ConnStates
  <1>6. SaveConnection(a, k.id, r) /\ Send(m) /\ Continue(a, s, Idle) /\ UNCHANGED dids
    BY DEF DxSendRequest, Finish
  <1>7. m.type = "dx-request"
    OBVIOUS
  <1> HIDE DEF r, m
  <1>8. conns[a][k.id].role = "requester" /\ conns[a][k.id].state = "invitation-received"
        /\ conns[a][k.id] # None /\ k.conn.theirDid = None
    BY <1>2, <1>3 DEF YoungCopy, SoundRecord, RequesterStates, Young
  <1>9. Starts(a, k.id, r)
    BY <1>3, <1>5, <1>8 DEF Starts
  <1>10. SentAreFresh
    BY <1>6, <1>7, OneSentIsFresh DEF FreshMessage
  <1>11. Idle.pc = "idle"
    BY DEF Idle
  <1>12. Idle.pc \notin LateSteps /\ Idle.pc \notin UnsavedSteps
    BY <1>11 DEF LateSteps, ResponseSteps, UnsavedSteps
  <1>13. ContractInv' /\ Moves
    BY <1>1, <1>2, <1>5, <1>6, <1>9, <1>10, <1>12, StartKeepsContract
  <1>14. KeyInv'
    BY <1>1, <1>2, <1>5, <1>6, <1>11, <1>12, SavedDidKeepsKeys DEF ImplInv
  <1> QED
    BY <1>13, <1>14 DEF ImplInv

LEMMA DxReceiveRequestImpl ==
  ASSUME TypeInv, AgreementInv, ImplInv, NEW a \in Agents, NEW h \in Handlers, NEW m \in net,
         DxReceiveRequest(a, h, m)
  PROVE  ImplInv' /\ Moves
  <1> DEFINE n == [Idle EXCEPT !.pc = "dx-saveRequesterDid", !.msg = m,
                               !.inv = m.inv, !.oob = oob[a]["sender"][m.inv]]
  <1>1. Continue(a, h, n) /\ SentAreFresh
    BY DeliveredIsFresh DEF DxReceiveRequest, ImplInv
  <1>2. n.pc \notin LateSteps \cup KeySteps
    BY DEF Idle, LateSteps, ResponseSteps, KeySteps
  <1> HIDE DEF n
  <1> QED
    BY <1>1, <1>2, EarlyTaskKeepsImpl, DidsGrow DEF DxReceiveRequest

LEMMA DxSaveRequesterDidImpl ==
  ASSUME TypeInv, AgreementInv, ImplInv, NEW a \in Agents, NEW h \in Handlers,
         DxSaveRequesterDid(a, h)
  PROVE  ImplInv' /\ Moves
  <1> DEFINE n == [tasks[a][h] EXCEPT !.pc = "dx-createResponder"]
  <1>1. tasks[a][h] \in Tasks
    BY TaskIsSound DEF Slots, SoundTasks
  <1>2. Continue(a, h, n) /\ n.pc \notin LateSteps \cup KeySteps
    BY <1>1 DEF DxSaveRequesterDid, Tasks, LateSteps, ResponseSteps, KeySteps
  <1>3. MoreDids
    BY DidsGrow DEF DxSaveRequesterDid
  <1> HIDE DEF n
  <1> QED
    BY <1>2, <1>3, EarlyTaskKeepsImpl, NothingSentIsFresh DEF DxSaveRequesterDid

LEMMA DxCreateResponderImpl ==
  ASSUME TypeInv, AgreementInv, ImplInv, OneHandler, NEW a \in Agents, NEW h \in Handlers,
         DxCreateResponder(a, h)
  PROVE  ImplInv' /\ Moves
  <1> DEFINE k == tasks[a][h]
             r == [role |-> "responder", state |-> "request-received",
                   protocol |-> "did-exchange", thread |-> k.msg.thread, inv |-> k.inv,
                   did |-> None, theirDid |-> k.msg.did]
             n(c) == [k EXCEPT !.pc = "dx-createResponseDid", !.id = c, !.conn = r]
  <1>1. h \in Slots /\ k \in Tasks /\ k.inv \in Invitations /\ k.msg \in Messages
        /\ k.msg.did \in PeerDids
    BY TaskIsSound
    DEF DxCreateResponder, At, Slots, SoundTasks, UsesInvitation, UsesMessage, SoundMessages
  <1>2. /\ k.msg.type \in Requests /\ SoundMessage(conns, k.msg) /\ k.msg.to.agent = a
        /\ UnansweredIn(conns, a, k.msg.thread)
    BY <1>1, TaskAgrees DEF DxCreateResponder, At, SoundTask, RequestSteps
  <1>3. PICK c \in ConnIds :
          /\ conns[a][c] = None /\ SaveConnection(a, c, r)
          /\ Continue(a, h, n(c)) \/ Finish(a, h)
    BY DEF DxCreateResponder, FreshConnId
  <1>4. r \in ConnectionRecords /\ r.role = "responder" /\ r.state = "request-received"
        /\ r.did = None /\ r.thread = k.msg.thread /\ r.theirDid = k.msg.did
    BY <1>1 DEF ConnectionRecords, ConnRoles, ConnStates, ConnectionProtocols, Messages
  <1> HIDE DEF r
  <1>5. n(c).pc \notin LateSteps \cup KeySteps
    BY <1>1 DEF Tasks, LateSteps, ResponseSteps, KeySteps
  <1> HIDE DEF n
  <1>6. RequestIn(conns, r.thread, r.theirDid, a)
    BY <1>2, <1>4 DEF SoundMessage
  <1>7. GoesOn(a, c, r)
    BY <1>2, <1>3, <1>4, <1>6 DEF GoesOn, Receives
  <1>8. FreshTask(conns', a, h, n(c))
    BY <1>5, EarlyIsFresh
  <1>9. SentAreFresh /\ UNCHANGED dids
    BY NothingSentIsFresh DEF DxCreateResponder
  <1> QED
    BY <1>1, <1>3, <1>4, <1>5, <1>7, <1>8, <1>9, WriteKeepsImpl

LEMMA DxCreateResponseDidImpl ==
  ASSUME TypeInv, AgreementInv, ImplInv, NEW a \in Agents, NEW t \in Slots,
         DxCreateResponseDid(a, t)
  PROVE  ImplInv' /\ Moves
  <1> DEFINE d == [key |-> IF Reusable[tasks[a][t].inv] THEN RoutingKey(a)
                           ELSE InvitationKey(tasks[a][t].inv),
                   n |-> NextDid(a)]
             n == [tasks[a][t] EXCEPT !.pc = "dx-sendResponse", !.conn.did = d]
  <1>1. tasks[a][t] \in Tasks
    BY TaskIsSound DEF SoundTasks
  <1>2. n.pc \notin LateSteps \cup KeySteps
    BY <1>1 DEF Tasks, LateSteps, ResponseSteps, KeySteps
  <1>3. /\ Continue(a, t, n) \/ Finish(a, t)
        /\ SaveDid(a, "created", d) \/ UNCHANGED dids
        /\ UNCHANGED <<conns, net>>
    BY DEF DxCreateResponseDid
  <1> HIDE DEF n, d
  <1>4. MoreDids /\ SentAreFresh
    BY <1>3, DidsGrow, NothingSentIsFresh
  <1> QED
    BY <1>2, <1>3, <1>4, EarlyTaskKeepsImpl, FinishKeepsImpl

\* What a handler or call answers with: the copy of the young record it created.
LEMMA YoungAnswers ==
  ASSUME TypeInv, AgreementInv, NEW a \in Agents, NEW t \in Slots,
         tasks[a][t].pc \in {"dx-sendResponse", "cx-sendResponse"},
         NEW r, r.state = "response-sent", r.role = "responder",
         r.did = tasks[a][t].conn.did, r.theirDid = tasks[a][t].conn.theirDid,
         r.thread = tasks[a][t].conn.thread
  PROVE  /\ tasks[a][t].id \in ConnIds
         /\ GoesOn(a, tasks[a][t].id, r)
         /\ conns[a][tasks[a][t].id].state \in Young
  <1> DEFINE k == tasks[a][t]
             q == conns[a][k.id]
  <1>1. k.pc \in YoungSteps
    BY DEF YoungSteps, ResponderSteps
  <1>2. k.id \in ConnIds /\ YoungCopy(q, k.conn) /\ SoundRecord(conns, a, k.id, q)
    BY <1>1, YoungTask
  <1>3. k.conn.role = "responder" /\ k.conn.did \in PeerDids
    BY TaskIsSound DEF SoundTasks
  <1>4. q # None /\ q.role = "responder" /\ q.state \in Young
        /\ q.thread = k.conn.thread /\ q.theirDid = k.conn.theirDid
    BY <1>2, <1>3 DEF YoungCopy
  <1>5. q.state = "request-received"
    BY <1>2, <1>4 DEF SoundRecord, ResponderStates, Young
  <1> QED
    BY <1>2, <1>3, <1>4, <1>5 DEF GoesOn, Answers

LEMMA DxSendResponseImpl ==
  ASSUME TypeInv, AgreementInv, ImplInv, OneHandler, NEW a \in Agents, NEW t \in Slots,
         DxSendResponse(a, t)
  PROVE  ImplInv' /\ Moves
  <1> DEFINE k == tasks[a][t]
             r == [k.conn EXCEPT !.state = NextState("dx-response", k.conn)]
             m == [type |-> "dx-response", from |-> r.did.key, to |-> r.theirDid.key,
                   thread |-> r.thread, inv |-> None, did |-> r.did]
  <1>1. k.pc = "dx-sendResponse" /\ k.pc \in YoungSteps
    BY DEF DxSendResponse, At, YoungSteps, ResponderSteps
  <1>2. k.conn \in ConnectionRecords /\ k.conn.role = "responder"
    BY <1>1, YoungTask, TaskIsSound DEF SoundTasks
  <1>3. NextState("dx-response", k.conn) = "response-sent"
    BY <1>2, ResponderNextStates
  <1>4. r \in ConnectionRecords /\ r.role = "responder" /\ r.state = "response-sent"
        /\ r.thread = k.conn.thread /\ r.did = k.conn.did /\ r.theirDid = k.conn.theirDid
    BY <1>2, <1>3 DEF ConnectionRecords, ConnStates
  <1>5. SaveConnection(a, k.id, r) /\ Send(m) /\ Finish(a, t) /\ UNCHANGED dids
    BY DEF DxSendResponse
  <1>6. m.type = "dx-response"
    OBVIOUS
  <1> HIDE DEF r, m
  <1>7. SentAreFresh
    BY <1>5, <1>6, OneSentIsFresh DEF FreshMessage
  <1>8. k.id \in ConnIds /\ GoesOn(a, k.id, r) /\ conns[a][k.id].state \in Young
    BY <1>1, <1>4, YoungAnswers
  <1> QED
    BY <1>4, <1>5, <1>7, <1>8, WriteKeepsImpl

LEMMA DxReceiveResponseImpl ==
  ASSUME TypeInv, AgreementInv, ImplInv, OneHandler, NEW a \in Agents, NEW h \in Handlers,
         NEW m \in net, DxReceiveResponse(a, h, m)
  PROVE  ImplInv' /\ Moves
  <1> DEFINE n(c) == [pc |-> "dx-saveResponderDid", msg |-> m, inv |-> conns[a][c].inv,
                      oob |-> oob[a]["receiver"][conns[a][c].inv], id |-> c,
                      conn |-> conns[a][c]]
  <1>1. SentAreFresh /\ UNCHANGED <<conns, dids>>
    BY DeliveredIsFresh DEF DxReceiveResponse, ImplInv
  <1>2. PICK c \in ConnIds : DxResponseAcceptable(a, c, m) /\ Continue(a, h, n(c))
    BY DEF DxReceiveResponse
  <1>3. conns[a][c].state = "request-sent"
    BY <1>2 DEF DxResponseAcceptable, CanProcess, ProcessMessageRules, Rule
  <1>4. FreshTask(conns, a, h, n(c)) /\ n(c).pc \notin KeySteps
    BY <1>3 DEF FreshTask, KeySteps
  <1> HIDE DEF n
  <1> QED
    BY <1>1, <1>2, <1>4, TaskKeepsImpl, DidsGrow DEF Slots

\* A handler goes on with the copy that it has.
LEMMA NextStepIsFresh ==
  ASSUME TypeInv, ContractInv, NEW a \in Agents, NEW t \in Slots, NEW pc,
         \/ tasks[a][t].pc = "dx-saveResponderDid" /\ pc = "dx-responseReceived"
         \/ tasks[a][t].pc = "cx-saveResponderDid" /\ pc = "cx-responseReceived"
         \/ tasks[a][t].pc = "dx-closeInvitation" /\ pc = "dx-processComplete"
  PROVE  LET k == [tasks[a][t] EXCEPT !.pc = pc] IN
         FreshTask(conns, a, t, k) /\ k.pc \notin KeySteps
  <1> DEFINE k == [tasks[a][t] EXCEPT !.pc = pc]
  <1>1. tasks[a][t] \in Tasks
    BY TaskIsSound DEF SoundTasks
  <1>2. k.pc = pc /\ k.msg = tasks[a][t].msg /\ k.id = tasks[a][t].id /\ k.conn = tasks[a][t].conn
    BY <1>1 DEF Tasks
  <1>3. FreshTask(conns, a, t, tasks[a][t])
    BY DEF ContractInv
  <1> HIDE DEF k
  <1>4. FreshTask(conns, a, t, k) /\ k.pc \notin KeySteps
    BY <1>2, <1>3 DEF FreshTask, LateSteps, ResponseSteps, KeySteps
  <1> QED
    BY <1>4 DEF k

LEMMA DxSaveResponderDidImpl ==
  ASSUME TypeInv, AgreementInv, ImplInv, OneHandler, NEW a \in Agents, NEW h \in Handlers,
         DxSaveResponderDid(a, h)
  PROVE  ImplInv' /\ Moves
  <1> DEFINE n == [tasks[a][h] EXCEPT !.pc = "dx-responseReceived"]
  <1>1. h \in Slots /\ tasks[a][h].pc = "dx-saveResponderDid" /\ Continue(a, h, n)
        /\ UNCHANGED <<conns, net>>
    BY DEF DxSaveResponderDid, At, Slots
  <1>2. MoreDids
    BY DidsGrow DEF DxSaveResponderDid
  <1>3. FreshTask(conns, a, h, n) /\ n.pc \notin KeySteps
    BY <1>1, NextStepIsFresh DEF ImplInv
  <1> HIDE DEF n
  <1> QED
    BY <1>1, <1>2, <1>3, TaskKeepsImpl, NothingSentIsFresh

\* What the handler of a response learns.
LEMMA ResponseTeaches ==
  ASSUME TypeInv, AgreementInv, ContractInv, NEW a \in Agents, NEW t \in Slots,
         tasks[a][t].pc \in {"dx-responseReceived", "cx-responseReceived"},
         NEW r, r.state = "response-received", r.role = "requester",
         r.did = tasks[a][t].conn.did, r.theirDid = tasks[a][t].msg.did,
         r.thread = tasks[a][t].conn.thread
  PROVE  GoesOn(a, tasks[a][t].id, r)
  <1> DEFINE k == tasks[a][t]
             q == conns[a][k.id]
  <1>1. k.pc \in ResponseSteps /\ k.pc \in LateSteps
    BY DEF ResponseSteps, LateSteps
  <1>2. q = k.conn /\ k.conn.state = "request-sent"
    BY <1>1 DEF ContractInv, FreshTask
  <1>3. q # None /\ k.conn \in ConnectionRecords
    BY <1>1, LateTask
  <1>4. k.conn.role = "requester" /\ k.msg.did \in PeerDids
    BY TaskIsSound DEF SoundTasks, UsesMessage
  <1>5. Owner[k.conn.inv] \in Agents
    BY <1>3, ConstantsAssumption DEF ConnectionRecords
  <1>6. \E d \in ConnIds : AnswerIn(conns, Owner[k.conn.inv], d, k.conn.thread, k.msg.did)
    BY <1>1, ResponseMatches
  <1>7. Learns(q, r)
    BY <1>2, <1>4, <1>5, <1>6 DEF Learns
  <1> QED
    BY <1>2, <1>3, <1>4, <1>7 DEF GoesOn

LEMMA DxResponseReceivedImpl ==
  ASSUME TypeInv, AgreementInv, ImplInv, OneHandler, NEW a \in Agents, NEW h \in Handlers,
         DxResponseReceived(a, h)
  PROVE  ImplInv' /\ Moves
  <1> DEFINE k == tasks[a][h]
             r == [k.conn EXCEPT !.theirDid = k.msg.did,
                                 !.state = NextState("dx-response", k.conn)]
             n == [k EXCEPT !.pc = "dx-createComplete", !.conn = r]
  <1>1. h \in Slots /\ k.pc = "dx-responseReceived" /\ k.pc \in LateSteps
    BY DEF DxResponseReceived, At, Slots, ResponseSteps, LateSteps
  <1>2. k \in Tasks /\ k.id \in ConnIds /\ k.conn \in ConnectionRecords
    BY <1>1, LateTask
  <1>3. k.conn.role = "requester" /\ k.msg.did \in PeerDids
    BY <1>1, TaskIsSound DEF SoundTasks, UsesMessage
  <1>4. NextState("dx-response", k.conn) = "response-received"
    BY <1>3, RequesterNextStates
  <1>5. r \in ConnectionRecords /\ r.role = "requester" /\ r.state = "response-received"
        /\ r.thread = k.conn.thread /\ r.did = k.conn.did /\ r.theirDid = k.msg.did
    BY <1>2, <1>3, <1>4 DEF ConnectionRecords, ConnStates
  <1>6. SaveConnection(a, k.id, r) /\ (Continue(a, h, n) \/ Finish(a, h)) /\ UNCHANGED <<dids, net>>
    BY DEF DxResponseReceived
  <1> HIDE DEF r
  <1>7. n.pc = "dx-createComplete" /\ n.id = k.id /\ n.conn = r
    BY <1>2 DEF Tasks
  <1> HIDE DEF n
  <1>8. GoesOn(a, k.id, r)
    BY <1>1, <1>5, ResponseTeaches DEF ImplInv
  <1>9. conns'[a][k.id] = r
    BY <1>2, <1>5, <1>6, SavedRecord
  <1>10. FreshTask(conns', a, h, n) /\ n.pc \notin KeySteps
    BY <1>5, <1>7, <1>9 DEF FreshTask, ResponseSteps, KeySteps
  <1> QED
    BY <1>1, <1>2, <1>5, <1>6, <1>8, <1>10, WriteKeepsImpl, NothingSentIsFresh

LEMMA DxCreateCompleteImpl ==
  ASSUME TypeInv, AgreementInv, ImplInv, OneHandler, NEW a \in Agents, NEW t \in Slots,
         DxCreateComplete(a, t)
  PROVE  ImplInv' /\ Moves
  <1> DEFINE k == tasks[a][t]
             r == [k.conn EXCEPT !.state = NextState("dx-complete", k.conn)]
             n == [k EXCEPT !.pc = "dx-sendComplete", !.conn = r]
  <1>1. k.pc = "dx-createComplete" /\ k.pc \in LateSteps
    BY DEF DxCreateComplete, At, LateSteps
  <1>2. k \in Tasks /\ k.id \in ConnIds /\ k.conn \in ConnectionRecords /\ conns[a][k.id] # None
    BY <1>1, LateTask
  <1>3. t \in Handlers /\ conns[a][k.id] = k.conn /\ k.conn.role = "requester"
    BY <1>1 DEF ImplInv, ContractInv, FreshTask
  <1>4. CASE ~CanCreate("dx-complete", k.conn)
    BY <1>4, FinishKeepsImpl, DidsGrow, NothingSentIsFresh DEF DxCreateComplete
  <1>5. CASE CanCreate("dx-complete", k.conn)
    <2>1. k.conn.state = "response-received"
      BY <1>5 DEF CanCreate, CreateMessageRules, Rule
    <2>2. r \in ConnectionRecords /\ r.role = "requester" /\ r.state = "completed"
          /\ r.thread = k.conn.thread /\ r.did = k.conn.did /\ r.theirDid = k.conn.theirDid
      BY <1>2, <1>3, RequesterNextStates DEF ConnectionRecords, ConnStates
    <2>3. SaveConnection(a, k.id, r) /\ Continue(a, t, n) /\ UNCHANGED <<dids, net>>
      BY <1>3, <1>5 DEF DxCreateComplete
    <2> HIDE DEF r
    <2>4. n.pc = "dx-sendComplete" /\ n.id = k.id /\ n.conn = r
      BY <1>2 DEF Tasks
    <2> HIDE DEF n
    <2>5. GoesOn(a, k.id, r)
      BY <1>2, <1>3, <2>1, <2>2 DEF GoesOn, Completes
    <2>6. conns'[a][k.id] = r
      BY <1>2, <2>2, <2>3, SavedRecord
    <2>7. FreshTask(conns', a, t, n) /\ n.pc \notin KeySteps
      BY <1>3, <2>2, <2>4, <2>6 DEF FreshTask, ResponseSteps, KeySteps
    <2> QED
      BY <1>2, <1>3, <2>2, <2>3, <2>5, <2>7, WriteKeepsImpl, NothingSentIsFresh
  <1> QED
    BY <1>4, <1>5

LEMMA DxSendCompleteImpl ==
  ASSUME TypeInv, AgreementInv, ImplInv, NEW a \in Agents, NEW h \in Handlers,
         DxSendComplete(a, h)
  PROVE  ImplInv' /\ Moves
  <1> DEFINE k == tasks[a][h]
             m == CompleteMessage(k.conn)
  <1>1. h \in Slots /\ k.pc = "dx-sendComplete" /\ k.pc \in LateSteps
    BY DEF DxSendComplete, At, LateSteps, Slots
  <1>2. k.id \in ConnIds /\ conns[a][k.id] # None /\ SoundRecord(conns, a, k.id, k.conn)
    BY <1>1, LateTask
  <1>3. conns[a][k.id] = k.conn /\ k.conn.role = "requester" /\ k.conn.state = "completed"
    BY <1>1 DEF ImplInv, ContractInv, FreshTask
  <1>4. k.conn.thread = [agent |-> a, conn |-> k.id] /\ k.conn.did # None
    BY <1>2, <1>3, ReadRecord, NoneAssumption DEF SoundRecord, SoundRecords, Young
  <1>5. DoneIn(conns, k.conn.thread)
    BY <1>2, <1>3, <1>4 DEF DoneIn, Threads
  <1>6. m.type = "dx-complete" /\ m.thread = k.conn.thread
    BY DEF CompleteMessage
  <1>7. Send(m) /\ Finish(a, h) /\ UNCHANGED <<conns, dids>>
    BY DEF DxSendComplete
  <1> HIDE DEF m
  <1>8. SentAreFresh
    BY <1>5, <1>6, <1>7, OneSentIsFresh DEF FreshMessage
  <1> QED
    BY <1>7, <1>8, FinishKeepsImpl, DidsGrow

LEMMA DxReceiveCompleteImpl ==
  ASSUME TypeInv, AgreementInv, ImplInv, OneHandler, NEW a \in Agents, NEW h \in Handlers,
         NEW m \in net, DxReceiveComplete(a, h, m)
  PROVE  ImplInv' /\ Moves
  <1> DEFINE n(c) == [pc |-> IF Reusable[m.inv] THEN "dx-processComplete"
                                                ELSE "dx-closeInvitation",
                      msg |-> m, inv |-> m.inv, oob |-> oob[a]["sender"][m.inv],
                      id |-> c, conn |-> conns[a][c]]
  <1>1. SentAreFresh /\ FreshMessage(conns, m) /\ m.type = "dx-complete"
        /\ UNCHANGED <<conns, dids>>
    BY DeliveredIsFresh DEF DxReceiveComplete, Delivers, ImplInv
  <1>2. PICK c \in ConnIds : Continue(a, h, n(c))
    BY DEF DxReceiveComplete
  <1>3. DoneIn(conns, m.thread)
    BY <1>1 DEF FreshMessage
  <1>4. FreshTask(conns, a, h, n(c)) /\ n(c).pc \notin KeySteps
    BY <1>3 DEF FreshTask, ResponseSteps, KeySteps
  <1> HIDE DEF n
  <1> QED
    BY <1>1, <1>2, <1>4, TaskKeepsImpl, DidsGrow DEF Slots

LEMMA DxCloseInvitationImpl ==
  ASSUME TypeInv, AgreementInv, ImplInv, OneHandler, NEW a \in Agents, NEW h \in Handlers,
         DxCloseInvitation(a, h)
  PROVE  ImplInv' /\ Moves
  <1> DEFINE n == [tasks[a][h] EXCEPT !.pc = "dx-processComplete"]
  <1>1. h \in Slots /\ tasks[a][h].pc = "dx-closeInvitation" /\ Continue(a, h, n)
        /\ UNCHANGED <<conns, dids, net>>
    BY DEF DxCloseInvitation, At, Slots
  <1>2. FreshTask(conns, a, h, n) /\ n.pc \notin KeySteps
    BY <1>1, NextStepIsFresh DEF ImplInv
  <1> HIDE DEF n
  <1> QED
    BY <1>1, <1>2, TaskKeepsImpl, NothingSentIsFresh, DidsGrow

LEMMA DxProcessCompleteImpl ==
  ASSUME TypeInv, AgreementInv, ImplInv, OneHandler, NEW a \in Agents, NEW h \in Handlers,
         DxProcessComplete(a, h)
  PROVE  ImplInv' /\ Moves
  <1> DEFINE k == tasks[a][h]
             r == [k.conn EXCEPT !.state = NextState("dx-complete", k.conn)]
  <1>1. h \in Slots /\ k.pc = "dx-processComplete" /\ k.pc \in LateSteps
    BY DEF DxProcessComplete, At, LateSteps, Slots
  <1>2. k.id \in ConnIds /\ k.conn \in ConnectionRecords /\ conns[a][k.id] # None
    BY <1>1, LateTask
  <1>3. conns[a][k.id] = k.conn /\ DoneIn(conns, k.msg.thread)
    BY <1>1 DEF ImplInv, ContractInv, FreshTask
  <1>4. SentAreFresh /\ Finish(a, h) /\ UNCHANGED dids
    BY NothingSentIsFresh DEF DxProcessComplete
  <1>5. CASE ~(CanProcess("dx-complete", k.conn) /\ k.msg.thread = k.conn.thread)
    BY <1>4, <1>5, FinishKeepsImpl, DidsGrow DEF DxProcessComplete
  <1>6. CASE CanProcess("dx-complete", k.conn) /\ k.msg.thread = k.conn.thread
    <2>1. k.conn.role = "responder" /\ k.conn.state = "response-sent"
      BY <1>6 DEF CanProcess, ProcessMessageRules, Rule
    <2>2. r \in ConnectionRecords /\ r.role = "responder" /\ r.state = "completed"
          /\ r.thread = k.conn.thread /\ r.did = k.conn.did /\ r.theirDid = k.conn.theirDid
      BY <1>2, <2>1, ResponderNextStates DEF ConnectionRecords, ConnStates
    <2>3. SaveConnection(a, k.id, r)
      BY <1>6 DEF DxProcessComplete
    <2> HIDE DEF r
    <2>4. GoesOn(a, k.id, r)
      BY <1>2, <1>3, <1>6, <2>1, <2>2 DEF GoesOn, Completes
    <2> QED
      BY <1>1, <1>2, <1>4, <2>2, <2>3, <2>4, WriteKeepsImpl
  <1> QED
    BY <1>5, <1>6

LEMMA DidExchangeImpl ==
  ASSUME TypeInv, AgreementInv, ImplInv, OneHandler, DidExchangeNext
  PROVE  ImplInv' /\ Moves
  <1>1. PICK a \in Agents :
    \/ \E s \in Callers :
         DxCreateConnection(a, s) \/ DxCreateRequestDid(a, s) \/ DxSendRequest(a, s)
    \/ \E t \in Slots :
         DxCreateResponseDid(a, t) \/ DxSendResponse(a, t) \/ DxCreateComplete(a, t)
    \/ \E h \in Handlers :
         \/ \E m \in net : \/ DxReceiveRequest(a, h, m)
                           \/ DxReceiveResponse(a, h, m)
                           \/ DxReceiveComplete(a, h, m)
         \/ DxSaveRequesterDid(a, h)  \/ DxCreateResponder(a, h)
         \/ DxSaveResponderDid(a, h)  \/ DxResponseReceived(a, h)
         \/ DxSendComplete(a, h)
         \/ DxCloseInvitation(a, h)   \/ DxProcessComplete(a, h)
    BY DEF DidExchangeNext
  <1> QED
    BY <1>1, DxCreateConnectionImpl, DxCreateRequestDidImpl, DxSendRequestImpl,
       DxReceiveRequestImpl, DxSaveRequesterDidImpl, DxCreateResponderImpl,
       DxCreateResponseDidImpl, DxSendResponseImpl, DxReceiveResponseImpl,
       DxSaveResponderDidImpl, DxResponseReceivedImpl, DxCreateCompleteImpl,
       DxSendCompleteImpl, DxReceiveCompleteImpl, DxCloseInvitationImpl,
       DxProcessCompleteImpl

-------------------------------------------------------------------------------
(* The connection protocol *)

LEMMA CxCreateRequestDidImpl ==
  ASSUME TypeInv, AgreementInv, ImplInv, OneHandler,
         NEW a \in Agents, NEW s \in Callers, CxCreateRequestDid(a, s)
  PROVE  ImplInv' /\ Moves
  <1> DEFINE k == tasks[a][s]
             d == [key |-> RoutingKey(a), n |-> 0]
             r == [role |-> "requester", state |-> "invitation-received",
                   protocol |-> "connections", thread |-> None,
                   inv |-> k.inv, did |-> d, theirDid |-> None]
             n == [k EXCEPT !.pc = "cx-createConnection", !.conn = r]
  <1>1. s \in Slots /\ k \in Tasks
    BY TaskIsSound DEF Slots, SoundTasks
  <1>2. d.key = RoutingKey(a) /\ r.did = d
    OBVIOUS
  <1>3. UNCHANGED <<conns, net>>
    BY DEF CxCreateRequestDid
  <1>4. CASE k.oob.state # "prepare-response"
    BY <1>3, <1>4, FinishKeepsImpl, DidsGrow, NothingSentIsFresh DEF CxCreateRequestDid
  <1>5. CASE k.oob.state = "prepare-response"
    <2>1. Continue(a, s, n) /\ SaveDid(a, "created", d)
      BY <1>5 DEF CxCreateRequestDid
    <2> HIDE DEF d, r
    <2>2. n.pc = "cx-createConnection" /\ n.conn.did = d
      BY <1>1, <1>2 DEF Tasks
    <2> HIDE DEF n
    <2>3. n.pc \in UnsavedSteps /\ n.pc \notin LateSteps
      BY <2>2 DEF UnsavedSteps, LateSteps, ResponseSteps
    <2>4. KeyInv'
      BY <1>1, <1>2, <1>3, <2>1, <2>2, <2>3, NewDidKeepsKeys DEF ImplInv
    <2>5. Moves /\ SentAreFresh
      BY <1>3, NothingSentIsFresh DEF Moves
    <2>6. FreshTask(conns', a, s, n)
      BY <2>3, EarlyIsFresh
    <2> QED
      BY <1>1, <1>3, <2>1, <2>4, <2>5, <2>6, StepKeepsContract DEF ImplInv
  <1> QED
    BY <1>4, <1>5

LEMMA CxCreateConnectionImpl ==
  ASSUME TypeInv, AgreementInv, ImplInv, OneHandler,
         NEW a \in Agents, NEW s \in Callers, CxCreateConnection(a, s)
  PROVE  ImplInv' /\ Moves
  <1> DEFINE k    == tasks[a][s]
             r(c) == [k.conn EXCEPT !.thread = [agent |-> a, conn |-> c]]
             n(c) == [k EXCEPT !.pc = "cx-sendRequest", !.id = c, !.conn = r(c)]
  <1>1. s \in Slots /\ k \in Tasks /\ k.pc = "cx-createConnection" /\ k.pc \in UnsavedSteps
        /\ k.conn \in ConnectionRecords
    BY TaskIsSound DEF CxCreateConnection, At, Slots, SoundTasks, SoundRecords, UnsavedSteps
  <1>2. k.conn.role = "requester" /\ k.conn.state = "invitation-received"
    <2>1. SoundTask(conns, a, s, k)
      BY <1>1, TaskAgrees
    <2> HIDE DEF k
    <2> QED
      BY <1>1, <2>1 DEF SoundTask
  <1>3. PICK c \in ConnIds :
          conns[a][c] = None /\ SaveConnection(a, c, r(c)) /\ Continue(a, s, n(c))
    BY DEF CxCreateConnection, FreshConnId
  <1>4. [agent |-> a, conn |-> c] \in Threads
    BY DEF Threads
  <1>5. r(c) \in ConnectionRecords /\ r(c).role = "requester"
        /\ r(c).state = "invitation-received" /\ r(c).did = k.conn.did
    BY <1>1, <1>2, <1>4 DEF ConnectionRecords
  <1> HIDE DEF r
  <1>6. n(c).pc = "cx-sendRequest" /\ n(c).id = c /\ n(c).conn = r(c)
    BY <1>1 DEF Tasks
  <1> HIDE DEF n
  <1>7. n(c).pc \notin LateSteps /\ n(c).pc \notin UnsavedSteps
    BY <1>6 DEF LateSteps, ResponseSteps, UnsavedSteps
  <1>8. Starts(a, c, r(c))
    BY <1>3, <1>5 DEF Starts
  <1>9. SentAreFresh /\ UNCHANGED dids
    BY NothingSentIsFresh DEF CxCreateConnection
  <1>10. ContractInv' /\ Moves
    BY <1>1, <1>3, <1>5, <1>7, <1>8, <1>9, StartKeepsContract
  <1>11. KeyInv'
    BY <1>1, <1>3, <1>5, <1>6, <1>7, <1>9, SavedDidKeepsKeys DEF ImplInv
  <1> QED
    BY <1>10, <1>11 DEF ImplInv

LEMMA CxSendRequestImpl ==
  ASSUME TypeInv, AgreementInv, ImplInv, OneHandler,
         NEW a \in Agents, NEW s \in Callers, CxSendRequest(a, s)
  PROVE  ImplInv' /\ Moves
  <1> DEFINE k == tasks[a][s]
             q == conns[a][k.id]
             r == [k.conn EXCEPT !.state = "request-sent"]
             m == [type |-> "cx-request", from |-> r.did.key, to |-> InvitationKey(k.inv),
                   thread |-> r.thread, inv |-> k.inv, did |-> r.did]
  <1>1. s \in Slots /\ k.pc = "cx-sendRequest" /\ k.pc \in YoungSteps
    BY DEF CxSendRequest, At, Slots, YoungSteps, RequesterSteps
  <1>2. k.id \in ConnIds /\ k.conn \in ConnectionRecords
        /\ YoungCopy(q, k.conn) /\ SoundRecord(conns, a, k.id, q)
    BY <1>1, YoungTask
  <1>3. k.conn.role = "requester" /\ k.conn.did \in PeerDids
    BY <1>1, TaskIsSound DEF SoundTasks
  <1>4. r \in ConnectionRecords /\ r.role = "requester" /\ r.state = "request-sent"
        /\ r.did = k.conn.did /\ r.theirDid = k.conn.theirDid
    BY <1>2, <1>3 DEF ConnectionRecords, ConnStates
  <1>5. SaveConnection(a, k.id, r) /\ Send(m) /\ Continue(a, s, Idle) /\ UNCHANGED dids
    BY DEF CxSendRequest, Finish
  <1>6. m.type = "cx-request"
    OBVIOUS
  <1> HIDE DEF r, m
  <1>7. q # None /\ q.role = "requester" /\ q.state = "invitation-received"
        /\ k.conn.theirDid = None
    BY <1>2, <1>3 DEF YoungCopy, SoundRecord, RequesterStates, Young
  <1>8. Starts(a, k.id, r)
    BY <1>3, <1>4, <1>7 DEF Starts
  <1>9. SentAreFresh
    BY <1>5, <1>6, OneSentIsFresh DEF FreshMessage
  <1>10. Idle.pc = "idle"
    BY DEF Idle
  <1>11. Idle.pc \notin LateSteps /\ Idle.pc \notin KeySteps
    BY <1>10 DEF LateSteps, ResponseSteps, KeySteps
  <1>12. ContractInv' /\ Moves
    BY <1>1, <1>2, <1>4, <1>5, <1>8, <1>9, <1>11, StartKeepsContract
  <1>13. q.did = k.conn.did
    BY <1>1 DEF ImplInv, KeyInv
  <1>14. AsksAsBefore
    <2>1. \A b \in Agents, d \in ConnIds : b # a \/ d # k.id => conns'[b][d] = conns[b][d]
      BY <1>2, <1>4, <1>5, SavedRecord
    <2>2. conns'[a][k.id] = r
      BY <1>2, <1>4, <1>5, SavedRecord
    <2>3. q.did = r.did /\ AsksWith(conns, a, k.id)
      BY <1>3, <1>4, <1>7, <1>13, NoneAssumption DEF AsksWith
    <2> QED
      BY <2>1, <2>2, <2>3 DEF AsksAsBefore, AsksWith
  <1>15. \A b \in Agents, u \in Slots : tasks'[b][u] = tasks[b][u] \/ tasks'[b][u].pc \notin KeySteps
    BY <1>5, <1>11 DEF Continue, TypeInv, TasksType
  <1> QED
    BY <1>5, <1>12, <1>14, <1>15, KeysKept, DidsGrow DEF ImplInv

LEMMA CxReceiveRequestImpl ==
  ASSUME TypeInv, AgreementInv, ImplInv, NEW a \in Agents, NEW h \in Handlers, NEW m \in net,
         CxReceiveRequest(a, h, m)
  PROVE  ImplInv' /\ Moves
  <1> DEFINE n(i) == [Idle EXCEPT !.pc = "cx-saveRequesterDid", !.msg = m,
                                  !.inv = i, !.oob = oob[a]["sender"][i]]
  <1>1. SentAreFresh
    BY DeliveredIsFresh DEF CxReceiveRequest, ImplInv
  <1>2. PICK i : Continue(a, h, n(i))
    BY DEF CxReceiveRequest
  <1>3. n(i).pc \notin LateSteps \cup KeySteps
    BY DEF Idle, LateSteps, ResponseSteps, KeySteps
  <1> HIDE DEF n
  <1> QED
    BY <1>1, <1>2, <1>3, EarlyTaskKeepsImpl, DidsGrow DEF CxReceiveRequest

LEMMA CxSaveRequesterDidImpl ==
  ASSUME TypeInv, AgreementInv, ImplInv, NEW a \in Agents, NEW h \in Handlers,
         CxSaveRequesterDid(a, h)
  PROVE  ImplInv' /\ Moves
  <1> DEFINE n == [tasks[a][h] EXCEPT !.pc = "cx-createResponder"]
  <1>1. tasks[a][h] \in Tasks
    BY TaskIsSound DEF Slots, SoundTasks
  <1>2. Continue(a, h, n) /\ n.pc \notin LateSteps \cup KeySteps
    BY <1>1 DEF CxSaveRequesterDid, Tasks, LateSteps, ResponseSteps, KeySteps
  <1>3. MoreDids
    BY DidsGrow DEF CxSaveRequesterDid
  <1> HIDE DEF n
  <1> QED
    BY <1>2, <1>3, EarlyTaskKeepsImpl, NothingSentIsFresh DEF CxSaveRequesterDid

LEMMA CxCreateResponderImpl ==
  ASSUME TypeInv, AgreementInv, ImplInv, OneHandler, NEW a \in Agents, NEW h \in Handlers,
         CxCreateResponder(a, h)
  PROVE  ImplInv' /\ Moves
  <1> DEFINE k == tasks[a][h]
             r == [role |-> "responder", state |-> "request-received",
                   protocol |-> "connections", thread |-> k.msg.thread, inv |-> k.inv,
                   did |-> None, theirDid |-> k.msg.did]
             n(c) == [k EXCEPT !.pc = "cx-createResponseDid", !.id = c, !.conn = r]
  <1>1. h \in Slots /\ k \in Tasks /\ k.inv \in Invitations /\ k.msg \in Messages
        /\ k.msg.did \in PeerDids
    BY TaskIsSound
    DEF CxCreateResponder, At, Slots, SoundTasks, UsesInvitation, UsesMessage, SoundMessages
  <1>2. /\ k.msg.type \in Requests /\ SoundMessage(conns, k.msg) /\ k.msg.to.agent = a
        /\ UnansweredIn(conns, a, k.msg.thread)
    BY <1>1, TaskAgrees DEF CxCreateResponder, At, SoundTask, RequestSteps
  <1>3. PICK c \in ConnIds :
          /\ conns[a][c] = None /\ SaveConnection(a, c, r)
          /\ Continue(a, h, n(c)) \/ Finish(a, h)
    BY DEF CxCreateResponder, FreshConnId
  <1>4. r \in ConnectionRecords /\ r.role = "responder" /\ r.state = "request-received"
        /\ r.did = None /\ r.thread = k.msg.thread /\ r.theirDid = k.msg.did
    BY <1>1 DEF ConnectionRecords, ConnRoles, ConnStates, ConnectionProtocols, Messages
  <1> HIDE DEF r
  <1>5. n(c).pc \notin LateSteps \cup KeySteps
    BY <1>1 DEF Tasks, LateSteps, ResponseSteps, KeySteps
  <1> HIDE DEF n
  <1>6. RequestIn(conns, r.thread, r.theirDid, a)
    BY <1>2, <1>4 DEF SoundMessage
  <1>7. GoesOn(a, c, r)
    BY <1>2, <1>3, <1>4, <1>6 DEF GoesOn, Receives
  <1>8. FreshTask(conns', a, h, n(c))
    BY <1>5, EarlyIsFresh
  <1>9. SentAreFresh /\ UNCHANGED dids
    BY NothingSentIsFresh DEF CxCreateResponder
  <1> QED
    BY <1>1, <1>3, <1>4, <1>5, <1>7, <1>8, <1>9, WriteKeepsImpl

LEMMA CxCreateResponseDidImpl ==
  ASSUME TypeInv, AgreementInv, ImplInv, NEW a \in Agents, NEW t \in Slots,
         CxCreateResponseDid(a, t)
  PROVE  ImplInv' /\ Moves
  <1> DEFINE d == [key |-> IF Reusable[tasks[a][t].inv] THEN RoutingKey(a)
                           ELSE InvitationKey(tasks[a][t].inv),
                   n |-> 0]
             n == [tasks[a][t] EXCEPT !.pc = "cx-sendResponse", !.conn.did = d]
  <1>1. tasks[a][t] \in Tasks
    BY TaskIsSound DEF SoundTasks
  <1>2. n.pc \notin LateSteps \cup KeySteps
    BY <1>1 DEF Tasks, LateSteps, ResponseSteps, KeySteps
  <1>3. /\ Continue(a, t, n) \/ Finish(a, t)
        /\ SaveDid(a, "created", d) \/ UNCHANGED dids
        /\ UNCHANGED <<conns, net>>
    BY DEF CxCreateResponseDid
  <1> HIDE DEF n, d
  <1>4. MoreDids /\ SentAreFresh
    BY <1>3, DidsGrow, NothingSentIsFresh
  <1> QED
    BY <1>2, <1>3, <1>4, EarlyTaskKeepsImpl, FinishKeepsImpl

LEMMA CxSendResponseImpl ==
  ASSUME TypeInv, AgreementInv, ImplInv, OneHandler, NEW a \in Agents, NEW t \in Slots,
         CxSendResponse(a, t)
  PROVE  ImplInv' /\ Moves
  <1> DEFINE k == tasks[a][t]
             r == [k.conn EXCEPT !.state = "response-sent"]
             m == [type |-> "cx-response", from |-> r.did.key, to |-> r.theirDid.key,
                   thread |-> r.thread, inv |-> k.inv, did |-> r.did]
  <1>1. k.pc = "cx-sendResponse" /\ k.pc \in YoungSteps
    BY DEF CxSendResponse, At, YoungSteps, ResponderSteps
  <1>2. k.conn \in ConnectionRecords /\ k.conn.role = "responder"
    BY <1>1, YoungTask, TaskIsSound DEF SoundTasks
  <1>3. r \in ConnectionRecords /\ r.role = "responder" /\ r.state = "response-sent"
        /\ r.thread = k.conn.thread /\ r.did = k.conn.did /\ r.theirDid = k.conn.theirDid
    BY <1>2 DEF ConnectionRecords, ConnStates
  <1>4. SaveConnection(a, k.id, r) /\ Send(m) /\ Finish(a, t) /\ UNCHANGED dids
    BY DEF CxSendResponse
  <1>5. m.type = "cx-response"
    OBVIOUS
  <1> HIDE DEF r, m
  <1>6. SentAreFresh
    BY <1>4, <1>5, OneSentIsFresh DEF FreshMessage
  <1>7. k.id \in ConnIds /\ GoesOn(a, k.id, r) /\ conns[a][k.id].state \in Young
    BY <1>1, <1>3, YoungAnswers
  <1> QED
    BY <1>3, <1>4, <1>6, <1>7, WriteKeepsImpl

LEMMA CxReceiveResponseImpl ==
  ASSUME TypeInv, AgreementInv, ImplInv, OneHandler, NEW a \in Agents, NEW h \in Handlers,
         NEW m \in net, CxReceiveResponse(a, h, m)
  PROVE  ImplInv' /\ Moves
  <1> DEFINE n(c) == [pc |-> "cx-saveResponderDid", msg |-> m, inv |-> conns[a][c].inv,
                      oob |-> oob[a]["receiver"][conns[a][c].inv], id |-> c,
                      conn |-> conns[a][c]]
  <1>1. SentAreFresh /\ UNCHANGED <<conns, dids>>
    BY DeliveredIsFresh DEF CxReceiveResponse, ImplInv
  <1>2. PICK c \in ConnIds : CxResponseAcceptable(a, c, m) /\ Continue(a, h, n(c))
    BY DEF CxReceiveResponse
  <1>3. conns[a][c].state = "request-sent"
    BY <1>2 DEF CxResponseAcceptable
  <1>4. FreshTask(conns, a, h, n(c)) /\ n(c).pc \notin KeySteps
    BY <1>3 DEF FreshTask, KeySteps
  <1> HIDE DEF n
  <1> QED
    BY <1>1, <1>2, <1>4, TaskKeepsImpl, DidsGrow DEF Slots

LEMMA CxSaveResponderDidImpl ==
  ASSUME TypeInv, AgreementInv, ImplInv, OneHandler, NEW a \in Agents, NEW h \in Handlers,
         CxSaveResponderDid(a, h)
  PROVE  ImplInv' /\ Moves
  <1> DEFINE n == [tasks[a][h] EXCEPT !.pc = "cx-responseReceived"]
  <1>1. h \in Slots /\ tasks[a][h].pc = "cx-saveResponderDid" /\ Continue(a, h, n)
        /\ UNCHANGED <<conns, net>>
    BY DEF CxSaveResponderDid, At, Slots
  <1>2. MoreDids
    BY DidsGrow DEF CxSaveResponderDid
  <1>3. FreshTask(conns, a, h, n) /\ n.pc \notin KeySteps
    BY <1>1, NextStepIsFresh DEF ImplInv
  <1> HIDE DEF n
  <1> QED
    BY <1>1, <1>2, <1>3, TaskKeepsImpl, NothingSentIsFresh

LEMMA CxResponseReceivedImpl ==
  ASSUME TypeInv, AgreementInv, ImplInv, OneHandler, NEW a \in Agents, NEW h \in Handlers,
         CxResponseReceived(a, h)
  PROVE  ImplInv' /\ Moves
  <1> DEFINE k == tasks[a][h]
             r == [k.conn EXCEPT !.theirDid = k.msg.did, !.thread = k.msg.thread,
                                 !.state = "response-received"]
             n == [k EXCEPT !.pc = "cx-sendPing", !.conn = r]
  <1>1. h \in Slots /\ k.pc = "cx-responseReceived" /\ k.pc \in LateSteps /\ k.pc \in ResponseSteps
    BY DEF CxResponseReceived, At, Slots, ResponseSteps, LateSteps
  <1>2. k \in Tasks /\ k.id \in ConnIds /\ k.conn \in ConnectionRecords
    BY <1>1, LateTask
  <1>3. k.conn.role = "requester" /\ k.msg.did \in PeerDids
    BY <1>1, TaskIsSound DEF SoundTasks, UsesMessage
  <1>4. k.msg.thread = k.conn.thread
    <2>1. SoundTask(conns, a, h, k)
      BY <1>1, TaskAgrees
    <2> HIDE DEF k
    <2> QED
      BY <1>1, <2>1 DEF SoundTask
  <1>5. r \in ConnectionRecords /\ r.role = "requester" /\ r.state = "response-received"
        /\ r.thread = k.conn.thread /\ r.did = k.conn.did /\ r.theirDid = k.msg.did
    <2>1. k.msg.thread \in Threads \cup {None}
      BY <1>2, <1>4 DEF ConnectionRecords
    <2> QED
      BY <1>2, <1>3, <1>4, <2>1 DEF ConnectionRecords, ConnStates
  <1>6. SaveConnection(a, k.id, r) /\ (Continue(a, h, n) \/ Finish(a, h)) /\ UNCHANGED <<dids, net>>
    BY DEF CxResponseReceived
  <1> HIDE DEF r
  <1>7. n.pc = "cx-sendPing" /\ n.id = k.id /\ n.conn = r
    BY <1>2 DEF Tasks
  <1> HIDE DEF n
  <1>8. GoesOn(a, k.id, r)
    BY <1>1, <1>5, ResponseTeaches DEF ImplInv
  <1>9. conns'[a][k.id] = r
    BY <1>2, <1>5, <1>6, SavedRecord
  <1>10. FreshTask(conns', a, h, n) /\ n.pc \notin KeySteps
    BY <1>5, <1>7, <1>9 DEF FreshTask, ResponseSteps, KeySteps
  <1> QED
    BY <1>1, <1>2, <1>5, <1>6, <1>8, <1>10, WriteKeepsImpl, NothingSentIsFresh

\* The ping comes from the key of a request whose invitee is done.
LEMMA CxSendPingImpl ==
  ASSUME TypeInv, AgreementInv, ImplInv, OneHandler, NEW a \in Agents, NEW t \in Slots,
         CxSendPing(a, t)
  PROVE  ImplInv' /\ Moves
  <1> DEFINE k == tasks[a][t]
             th == [agent |-> a, conn |-> k.id]
             r == [k.conn EXCEPT !.state = "completed"]
             m == [type |-> "ping", from |-> k.conn.did.key, to |-> k.conn.theirDid.key,
                   thread |-> None, inv |-> None, did |-> None]
  <1>1. k.pc = "cx-sendPing" /\ k.pc \in LateSteps
    BY DEF CxSendPing, At, LateSteps
  <1>2. k.id \in ConnIds /\ k.conn \in ConnectionRecords /\ conns[a][k.id] # None
    BY <1>1, LateTask
  <1>3. t \in Handlers /\ conns[a][k.id] = k.conn /\ k.conn.role = "requester"
    BY <1>1 DEF ImplInv, ContractInv, FreshTask
  <1>4. th \in Threads
    BY <1>2 DEF Threads
  <1>5. Finish(a, t) /\ UNCHANGED dids
    BY DEF CxSendPing
  <1>6. k.conn.state \in {"response-received", "completed"} => k.conn.did # None
    BY <1>2, <1>3, ReadRecord, NoneAssumption DEF SoundRecords
  <1>7. m.type = "ping" /\ m.from = k.conn.did.key
    OBVIOUS
  <1>8. CASE k.conn.state \notin {"response-received", "completed"}
    BY <1>5, <1>8, FinishKeepsImpl, DidsGrow, NothingSentIsFresh DEF CxSendPing
  <1>9. CASE k.conn.state = "completed"
    <2>1. Send(m) /\ UNCHANGED conns
      BY <1>9 DEF CxSendPing
    <2> HIDE DEF m
    <2>2. PingedIn(conns, m.from)
      BY <1>2, <1>3, <1>4, <1>6, <1>7, <1>9 DEF PingedIn, DoneIn
    <2>3. SentAreFresh
      BY <1>7, <2>1, <2>2, OneSentIsFresh DEF FreshMessage
    <2> QED
      BY <1>5, <2>1, <2>3, FinishKeepsImpl, DidsGrow
  <1>10. CASE k.conn.state = "response-received"
    <2>1. Send(m) /\ SaveConnection(a, k.id, r)
      BY <1>10 DEF CxSendPing
    <2>2. r \in ConnectionRecords /\ r.role = "requester" /\ r.state = "completed"
          /\ r.thread = k.conn.thread /\ r.did = k.conn.did /\ r.theirDid = k.conn.theirDid
      BY <1>2, <1>3 DEF ConnectionRecords, ConnStates
    <2> HIDE DEF m, r
    <2>3. conns'[a][k.id] = r /\ r # None
      BY <1>2, <2>1, <2>2, SavedRecord
    <2>4. PingedIn(conns', m.from)
      BY <1>4, <1>6, <1>7, <1>10, <2>2, <2>3 DEF PingedIn, DoneIn
    <2>5. SentAreFresh
      BY <1>7, <2>1, <2>4, OneSentIsFresh DEF FreshMessage
    <2>6. GoesOn(a, k.id, r)
      BY <1>2, <1>3, <1>10, <2>2 DEF GoesOn, Completes
    <2> QED
      BY <1>2, <1>3, <1>5, <2>1, <2>2, <2>5, <2>6, WriteKeepsImpl
  <1> QED
    BY <1>8, <1>9, <1>10

\* The connection that a ping finds is the inviter's end of the request whose invitee is
\* done: no other request was made with the key that the ping comes from.
LEMMA PingProvesDone ==
  ASSUME TypeInv, AgreementInv, ImplInv, NEW a \in Agents, NEW c \in ConnIds, NEW m,
         PingedIn(conns, m.from), PingCompletes(a, c, m)
  PROVE  /\ conns[a][c].role = "responder" /\ conns[a][c].state = "response-sent"
         /\ DoneIn(conns, conns[a][c].thread)
  <1> DEFINE q == conns[a][c]
             p == q.thread
  <1>1. q.state = "response-sent" /\ c \in ByKeys(a, m.from, m.to)
    BY DEF PingCompletes, ContextConnections, FindByKeys
  <1>2. PICK n \in DidsByKey(a, "received", m.from) : q # None /\ q.theirDid = dids[a][n].did
    BY <1>1 DEF ByKeys, ConnectionsByDids
  <1>3. q.theirDid.key = m.from
    BY <1>2 DEF DidsByKey
  <1>4. SoundRecord(conns, a, c, q) /\ q \in ConnectionRecords
    BY <1>2, ReadRecord
  <1>5. q.role = "responder"
    BY <1>1, <1>4 DEF SoundRecord, RequesterStates, ConnectionRecords, ConnRoles
  <1>6. RequestIn(conns, p, q.theirDid, a)
    BY <1>4, <1>5 DEF SoundRecord
  <1>7. PICK th \in Threads : DoneIn(conns, th) /\ conns[th.agent][th.conn].did.key = m.from
    BY DEF PingedIn
  <1>8. /\ th.agent \in Agents /\ th.conn \in ConnIds
        /\ p \in Threads /\ p.agent \in Agents /\ p.conn \in ConnIds
    BY <1>6 DEF RequestIn, Threads
  <1>9. conns[p.agent][p.conn].did = q.theirDid /\ conns[p.agent][p.conn].did # None
    BY <1>1, <1>4, <1>5, <1>6, ReadRecord, NoneAssumption DEF RequestIn, SoundRecords
  <1>10. AsksWith(conns, p.agent, p.conn)
    BY <1>6, <1>9 DEF RequestIn, AsksWith
  <1>11. AsksWith(conns, th.agent, th.conn)
    BY <1>7 DEF DoneIn, AsksWith
  <1>a. \A b \in Agents, e \in ConnIds :
          AsksWith(conns, b, e) => IsOwnKey(dids, b, conns[b][e].did.key)
    BY DEF ImplInv, KeyInv
  <1>b. \A b \in Agents, d, e \in ConnIds :
          AsksWith(conns, b, d) /\ AsksWith(conns, b, e)
          /\ conns[b][d].did.key = conns[b][e].did.key => d = e
    BY DEF ImplInv, KeyInv
  <1>c. conns[p.agent][p.conn].did.key = m.from
    BY <1>3, <1>9
  <1>12. IsOwnKey(dids, p.agent, m.from) /\ IsOwnKey(dids, th.agent, m.from)
    <2>1. IsOwnKey(dids, p.agent, conns[p.agent][p.conn].did.key)
      BY <1>8, <1>10, <1>a
    <2>2. IsOwnKey(dids, th.agent, conns[th.agent][th.conn].did.key)
      BY <1>8, <1>11, <1>a
    <2> QED
      BY <1>7, <1>c, <2>1, <2>2
  <1>13. p.agent = th.agent
    BY <1>12 DEF IsOwnKey
  <1>14. p.conn = th.conn
    BY <1>7, <1>8, <1>10, <1>11, <1>13, <1>b, <1>c
  <1>15. p = th
    BY <1>8, <1>13, <1>14 DEF Threads
  <1> QED
    BY <1>1, <1>5, <1>7, <1>15

LEMMA CxReceivePingImpl ==
  ASSUME TypeInv, AgreementInv, ImplInv, OneHandler, NEW a \in Agents, NEW h \in Handlers,
         NEW m \in net, CxReceivePing(a, h, m)
  PROVE  ImplInv' /\ Moves
  <1> DEFINE n(c) == [Idle EXCEPT !.pc = "cx-complete", !.msg = m,
                                  !.id = c, !.conn = conns[a][c]]
  <1>1. SentAreFresh /\ FreshMessage(conns, m) /\ m.type = "ping" /\ UNCHANGED <<conns, dids>>
    BY DeliveredIsFresh DEF CxReceivePing, Delivers, ImplInv
  <1>2. PICK c \in ConnIds : PingCompletes(a, c, m) /\ Continue(a, h, n(c))
    BY DEF CxReceivePing
  <1>3. PingedIn(conns, m.from)
    BY <1>1 DEF FreshMessage
  <1>4. /\ conns[a][c].role = "responder" /\ conns[a][c].state = "response-sent"
        /\ DoneIn(conns, conns[a][c].thread)
    BY <1>2, <1>3, PingProvesDone
  <1>5. n(c).pc = "cx-complete" /\ n(c).id = c /\ n(c).conn = conns[a][c]
    BY DEF Idle
  <1> HIDE DEF n
  <1>6. FreshTask(conns, a, h, n(c)) /\ n(c).pc \notin KeySteps
    BY <1>4, <1>5 DEF FreshTask, ResponseSteps, KeySteps
  <1> QED
    BY <1>1, <1>2, <1>6, TaskKeepsImpl, DidsGrow DEF Slots

LEMMA CxCompleteImpl ==
  ASSUME TypeInv, AgreementInv, ImplInv, OneHandler, NEW a \in Agents, NEW h \in Handlers,
         CxComplete(a, h)
  PROVE  ImplInv' /\ Moves
  <1> DEFINE k == tasks[a][h]
             r == [k.conn EXCEPT !.state = "completed"]
  <1>1. h \in Slots /\ k.pc = "cx-complete" /\ k.pc \in LateSteps
    BY DEF CxComplete, At, LateSteps, Slots
  <1>2. k.id \in ConnIds /\ k.conn \in ConnectionRecords /\ conns[a][k.id] # None
    BY <1>1, LateTask
  <1>3. /\ conns[a][k.id] = k.conn /\ k.conn.role = "responder"
        /\ k.conn.state = "response-sent" /\ DoneIn(conns, k.conn.thread)
    BY <1>1 DEF ImplInv, ContractInv, FreshTask
  <1>4. r \in ConnectionRecords /\ r.role = "responder" /\ r.state = "completed"
        /\ r.thread = k.conn.thread /\ r.did = k.conn.did /\ r.theirDid = k.conn.theirDid
    BY <1>2, <1>3 DEF ConnectionRecords, ConnStates
  <1>5. SaveConnection(a, k.id, r) /\ Finish(a, h) /\ UNCHANGED <<dids, net>>
    BY DEF CxComplete
  <1> HIDE DEF r
  <1>6. GoesOn(a, k.id, r)
    BY <1>2, <1>3, <1>4 DEF GoesOn, Completes
  <1> QED
    BY <1>1, <1>2, <1>4, <1>5, <1>6, WriteKeepsImpl, NothingSentIsFresh

LEMMA PeerReportsProblemImpl ==
  ASSUME TypeInv, AgreementInv, ImplInv, NEW a \in Agents, NEW c \in ConnIds,
         PeerReportsProblem(a, c)
  PROVE  ImplInv' /\ Moves
  <1> DEFINE m == [type |-> "problem-report", from |-> conns[a][c].did.key,
                   to |-> conns[a][c].theirDid.key, thread |-> None, inv |-> None, did |-> None]
  <1>1. Send(m) /\ UNCHANGED <<conns, dids, tasks>>
    BY DEF PeerReportsProblem
  <1>2. m.type = "problem-report"
    OBVIOUS
  <1> HIDE DEF m
  <1>3. SentAreFresh
    BY <1>1, <1>2, OneSentIsFresh DEF FreshMessage
  <1> QED
    BY <1>1, <1>3, EarlyKeepsImpl, DidsGrow

LEMMA CxReceiveProblemReportImpl ==
  ASSUME TypeInv, AgreementInv, ImplInv, OneHandler, NEW a \in Agents, NEW h \in Handlers,
         NEW m \in net, CxReceiveProblemReport(a, h, m)
  PROVE  ImplInv' /\ Moves
  <1> DEFINE k(c) == [Idle EXCEPT !.pc = "cx-abandon", !.msg = m,
                                  !.id = c, !.conn = conns[a][c]]
  <1>1. SentAreFresh /\ UNCHANGED <<conns, dids>>
    BY DeliveredIsFresh DEF CxReceiveProblemReport, ImplInv
  <1>2. PICK c \in ConnIds : ReportConcerns(a, c, m) /\ Continue(a, h, k(c))
    BY DEF CxReceiveProblemReport
  <1>3. conns[a][c].did # None /\ conns[a][c].theirDid # None
    <2>1. PICK n \in DidsByKey(a, "created", m.to) :
            ConnectionsByOurDid(a, dids[a][n].did) = {c}
      BY <1>2 DEF ReportConcerns
    <2>2. conns[a][c].did = dids[a][n].did
      BY <2>1 DEF ConnectionsByOurDid
    <2>3. dids[a][n] \in DidRecords
      BY DEF DidsByKey, TypeInv, DidsType
    <2>4. dids[a][n].did \in PeerDids
      BY <2>3 DEF DidRecords
    <2> QED
      BY <1>2, <2>2, <2>4, NoneAssumption DEF ReportConcerns
  <1>4. k(c).pc = "cx-abandon" /\ k(c).id = c /\ k(c).conn = conns[a][c]
    BY DEF Idle
  <1> HIDE DEF k
  <1>5. FreshTask(conns, a, h, k(c)) /\ k(c).pc \notin KeySteps
    BY <1>3, <1>4 DEF FreshTask, ResponseSteps, KeySteps
  <1> QED
    BY <1>1, <1>2, <1>5, TaskKeepsImpl, DidsGrow DEF Slots

LEMMA CxAbandonImpl ==
  ASSUME TypeInv, AgreementInv, ImplInv, OneHandler, NEW a \in Agents, NEW h \in Handlers,
         CxAbandon(a, h)
  PROVE  ImplInv' /\ Moves
  <1> DEFINE k == tasks[a][h]
             r == [k.conn EXCEPT !.state = "abandoned"]
  <1>1. h \in Slots /\ k.pc = "cx-abandon" /\ k.pc \in LateSteps
    BY DEF CxAbandon, At, LateSteps, Slots
  <1>2. /\ k.id \in ConnIds /\ k.conn \in ConnectionRecords /\ conns[a][k.id] # None
        /\ k.conn.state \notin Young
    BY <1>1, LateTask
  <1>3. conns[a][k.id] = k.conn /\ k.conn.did # None /\ k.conn.theirDid # None
    BY <1>1 DEF ImplInv, ContractInv, FreshTask
  <1>4. r \in ConnectionRecords /\ r.role = k.conn.role /\ r.state = "abandoned"
        /\ r.thread = k.conn.thread /\ r.did = k.conn.did /\ r.theirDid = k.conn.theirDid
    BY <1>2 DEF ConnectionRecords, ConnStates
  <1>5. SaveConnection(a, k.id, r) /\ Finish(a, h) /\ UNCHANGED <<dids, net>>
    BY DEF CxAbandon
  <1> HIDE DEF r
  <1>6. GoesOn(a, k.id, r)
    BY <1>2, <1>3, <1>4 DEF GoesOn, Abandons
  <1> QED
    BY <1>1, <1>2, <1>4, <1>5, <1>6, WriteKeepsImpl, NothingSentIsFresh

LEMMA ConnectionProtocolImpl ==
  ASSUME TypeInv, AgreementInv, ImplInv, OneHandler, ConnectionProtocolNext
  PROVE  ImplInv' /\ Moves
  <1>1. PICK a \in Agents :
    \/ \E s \in Callers :
         CxCreateRequestDid(a, s) \/ CxCreateConnection(a, s) \/ CxSendRequest(a, s)
    \/ \E t \in Slots :
         CxCreateResponseDid(a, t) \/ CxSendResponse(a, t) \/ CxSendPing(a, t)
    \/ \E h \in Handlers :
         \/ \E m \in net : \/ CxReceiveRequest(a, h, m)
                           \/ CxReceiveResponse(a, h, m)
                           \/ CxReceivePing(a, h, m)
                           \/ CxReceiveProblemReport(a, h, m)
         \/ CxSaveRequesterDid(a, h)  \/ CxCreateResponder(a, h)
         \/ CxSaveResponderDid(a, h)  \/ CxResponseReceived(a, h)
         \/ CxComplete(a, h)          \/ CxAbandon(a, h)
    \/ \E c \in ConnIds : PeerReportsProblem(a, c)
    BY DEF ConnectionProtocolNext
  <1> QED
    BY <1>1, CxCreateRequestDidImpl, CxCreateConnectionImpl, CxSendRequestImpl,
       CxReceiveRequestImpl, CxSaveRequesterDidImpl, CxCreateResponderImpl,
       CxCreateResponseDidImpl, CxSendResponseImpl, CxReceiveResponseImpl,
       CxSaveResponderDidImpl, CxResponseReceivedImpl, CxSendPingImpl, CxReceivePingImpl,
       CxCompleteImpl, PeerReportsProblemImpl, CxReceiveProblemReportImpl, CxAbandonImpl

-------------------------------------------------------------------------------
(* The out-of-band protocol, calls, messages that come to nothing, faults *)

LEMMA QuietIsEarly ==
  ASSUME NEW k, k.pc \in QuietSteps
  PROVE  k.pc \notin LateSteps \cup KeySteps
  BY DEF QuietSteps, LateSteps, ResponseSteps, KeySteps

LEMMA QuietTaskKeepsImpl ==
  ASSUME TypeInv, AgreementInv, ImplInv, UNCHANGED <<conns, dids>>, SentAreFresh,
         NEW a \in Agents, NEW t, NEW k, Continue(a, t, k), k.pc \in QuietSteps
  PROVE  ImplInv' /\ Moves
  BY QuietIsEarly, EarlyTaskKeepsImpl, DidsGrow

LEMMA AcceptInvitationImpl ==
  ASSUME TypeInv, AgreementInv, ImplInv, NEW a \in Agents, NEW s \in Callers,
         NEW i \in Invitations, AcceptInvitation(a, s, i)
  PROVE  ImplInv' /\ Moves
  <1> DEFINE prepared == [oob[a]["receiver"][i] EXCEPT !.state = "prepare-response"]
             reuse(c) == [Idle EXCEPT !.pc = "oob-createReuse", !.inv = i,
                                      !.oob = prepared, !.id = c, !.conn = conns[a][c]]
             new == [Idle EXCEPT !.pc = RequestPc(i), !.inv = i, !.oob = prepared]
  <1>1. (\E c : Continue(a, s, reuse(c))) \/ Continue(a, s, new)
    BY DEF AcceptInvitation
  <1>2. (\A c : reuse(c).pc = "oob-createReuse") /\ new.pc = RequestPc(i)
    BY DEF Idle
  <1> HIDE DEF reuse, new
  <1>3. (\A c : reuse(c).pc \in QuietSteps) /\ new.pc \in QuietSteps
    BY <1>2 DEF RequestPc, QuietSteps
  <1> QED
    BY <1>1, <1>3, QuietTaskKeepsImpl, NothingSentIsFresh DEF AcceptInvitation

LEMMA CreateHandshakeReuseImpl ==
  ASSUME TypeInv, AgreementInv, ImplInv, NEW a \in Agents, NEW s \in Callers,
         CreateHandshakeReuse(a, s)
  PROVE  ImplInv' /\ Moves
  <1> DEFINE k == tasks[a][s]
             m == [type |-> "reuse", from |-> k.conn.did.key, to |-> k.conn.theirDid.key,
                   thread |-> None, inv |-> k.inv, did |-> None]
             n == [k EXCEPT !.pc = "oob-awaitReuse", !.oob = [k.oob EXCEPT !.reuse = k.id]]
  <1>1. k \in Tasks
    BY TaskIsSound DEF Slots, SoundTasks
  <1>2. Continue(a, s, n) \/ Finish(a, s)
    BY DEF CreateHandshakeReuse
  <1>3. n.pc \in QuietSteps
    BY <1>1 DEF Tasks, QuietSteps
  <1>4. UNCHANGED net \/ Send(m)
    BY DEF CreateHandshakeReuse
  <1>5. m.type = "reuse"
    OBVIOUS
  <1> HIDE DEF m, n
  <1>6. SentAreFresh
    BY <1>4, <1>5, NothingSentIsFresh, OneSentIsFresh DEF FreshMessage
  <1> QED
    BY <1>2, <1>3, <1>6, QuietTaskKeepsImpl, IdleIsQuiet DEF CreateHandshakeReuse, Finish

LEMMA ReuseTimesOutImpl ==
  ASSUME TypeInv, AgreementInv, ImplInv, NEW a \in Agents, NEW s \in Callers, ReuseTimesOut(a, s)
  PROVE  ImplInv' /\ Moves
  <1> DEFINE k == tasks[a][s]
             n == [k EXCEPT !.pc = RequestPc(k.inv), !.id = None, !.conn = None]
  <1>1. k \in Tasks
    BY TaskIsSound DEF Slots, SoundTasks
  <1>2. n.pc = RequestPc(k.inv) /\ Continue(a, s, n)
    BY <1>1 DEF Tasks, ReuseTimesOut
  <1> HIDE DEF n
  <1>3. n.pc \in QuietSteps
    BY <1>2 DEF RequestPc, QuietSteps
  <1> QED
    BY <1>2, <1>3, QuietTaskKeepsImpl, NothingSentIsFresh DEF ReuseTimesOut

LEMMA ReceiveReuseImpl ==
  ASSUME TypeInv, AgreementInv, ImplInv, NEW a \in Agents, NEW h \in Handlers, NEW m \in net,
         ReceiveReuse(a, h, m)
  PROVE  ImplInv' /\ Moves
  <1> DEFINE n(c) == [pc |-> IF Reusable[m.inv] THEN "oob-acceptReuse" ELSE "oob-closeReused",
                      msg |-> m, inv |-> m.inv, oob |-> oob[a]["sender"][m.inv],
                      id |-> c, conn |-> conns[a][c]]
  <1>1. PICK c : Continue(a, h, n(c))
    BY DEF ReceiveReuse
  <1>2. n(c).pc \in QuietSteps
    BY DEF QuietSteps
  <1>3. SentAreFresh
    BY DeliveredIsFresh DEF ReceiveReuse, ImplInv
  <1> HIDE DEF n
  <1> QED
    BY <1>1, <1>2, <1>3, QuietTaskKeepsImpl DEF ReceiveReuse

LEMMA CloseReusedInvitationImpl ==
  ASSUME TypeInv, AgreementInv, ImplInv, NEW a \in Agents, NEW h \in Handlers,
         CloseReusedInvitation(a, h)
  PROVE  ImplInv' /\ Moves
  <1> DEFINE k == tasks[a][h]
             n == [k EXCEPT !.pc = "oob-acceptReuse", !.oob = [k.oob EXCEPT !.state = "done"]]
  <1>1. k \in Tasks
    BY TaskIsSound DEF Slots, SoundTasks
  <1>2. n.pc \in QuietSteps /\ Continue(a, h, n)
    BY <1>1 DEF Tasks, QuietSteps, CloseReusedInvitation
  <1> HIDE DEF n
  <1> QED
    BY <1>2, QuietTaskKeepsImpl, NothingSentIsFresh DEF CloseReusedInvitation

LEMMA SendReuseAcceptedImpl ==
  ASSUME TypeInv, AgreementInv, ImplInv, NEW a \in Agents, NEW h \in Handlers,
         SendReuseAccepted(a, h)
  PROVE  ImplInv' /\ Moves
  <1> DEFINE k == tasks[a][h]
             m == [type |-> "reuse-accepted", from |-> k.conn.did.key,
                   to |-> k.conn.theirDid.key, thread |-> None, inv |-> k.inv, did |-> None]
  <1>1. Send(m) /\ m.type = "reuse-accepted"
    BY DEF SendReuseAccepted
  <1> HIDE DEF m
  <1>2. SentAreFresh
    BY <1>1, OneSentIsFresh DEF FreshMessage
  <1> QED
    BY <1>2, QuietTaskKeepsImpl, IdleIsQuiet DEF SendReuseAccepted, Finish

LEMMA ReceiveReuseAcceptedImpl ==
  ASSUME TypeInv, AgreementInv, ImplInv, NEW a \in Agents, NEW h \in Handlers, NEW m \in net,
         ReceiveReuseAccepted(a, h, m)
  PROVE  ImplInv' /\ Moves
  <1> DEFINE r == oob[a]["receiver"][m.inv]
             woken == {s \in Callers : /\ At(a, s, "oob-awaitReuse")
                                       /\ tasks[a][s].inv = m.inv /\ tasks[a][s].id = r.reuse}
             closing == [Idle EXCEPT !.pc = "oob-closeReceived", !.msg = m,
                         !.inv = m.inv, !.oob = r]
  <1>1. tasks' = [tasks EXCEPT ![a] =
                    [t \in Slots |-> IF t = h THEN closing
                                     ELSE IF t \in woken THEN Idle ELSE tasks[a][t]]]
    BY DEF ReceiveReuseAccepted
  <1>2. closing.pc \in QuietSteps
    BY DEF Idle, QuietSteps
  <1> HIDE DEF closing, woken
  <1>3. \A b \in Agents, s \in Slots :
          tasks'[b][s] \in {tasks[b][s], closing, Idle}
    BY <1>1 DEF TypeInv, TasksType
  <1>4. SentAreFresh
    BY DeliveredIsFresh DEF ReceiveReuseAccepted, ImplInv
  <1> QED
    BY <1>2, <1>3, <1>4, IdleIsQuiet, QuietIsEarly, EarlyKeepsImpl, DidsGrow
    DEF ReceiveReuseAccepted

LEMMA OutOfBandImpl ==
  ASSUME TypeInv, AgreementInv, ImplInv, OutOfBandNext
  PROVE  ImplInv' /\ Moves
  <1>1. PICK a \in Agents :
    \/ \E i \in Invitations : CreateInvitation(a, i) \/ ReceiveInvitation(a, i)
    \/ \E s \in Callers :
         \/ \E i \in Invitations : AcceptInvitation(a, s, i)
         \/ CreateHandshakeReuse(a, s)
         \/ ReuseTimesOut(a, s)
    \/ \E h \in Handlers :
         \/ \E m \in net : ReceiveReuse(a, h, m) \/ ReceiveReuseAccepted(a, h, m)
         \/ CloseReusedInvitation(a, h)
         \/ SendReuseAccepted(a, h)
         \/ CloseReceivedInvitation(a, h)
    BY DEF OutOfBandNext
  <1>2. \A i : CreateInvitation(a, i) \/ ReceiveInvitation(a, i) => ImplInv' /\ Moves
    BY EarlyKeepsImpl, NothingSentIsFresh, DidsGrow DEF CreateInvitation, ReceiveInvitation
  <1>3. \A h \in Handlers : CloseReceivedInvitation(a, h) => ImplInv' /\ Moves
    BY FinishKeepsImpl, NothingSentIsFresh, DidsGrow DEF CloseReceivedInvitation
  <1> QED
    BY <1>1, <1>2, <1>3, AcceptInvitationImpl, CreateHandshakeReuseImpl, ReuseTimesOutImpl,
       ReceiveReuseImpl, ReceiveReuseAcceptedImpl, CloseReusedInvitationImpl,
       SendReuseAcceptedImpl

LEMMA FaultsImpl ==
  ASSUME TypeInv, AgreementInv, ImplInv, FaultNext
  PROVE  ImplInv' /\ Moves
  <1>1. ASSUME NEW m \in net, LoseMessage(m)
        PROVE  ImplInv' /\ Moves
    <2>1. SentAreFresh
      BY <1>1, NothingSentIsFresh DEF LoseMessage
    <2> QED
      BY <1>1, <2>1, EarlyKeepsImpl, DidsGrow DEF LoseMessage
  <1>2. ASSUME NEW a \in Agents, Crash(a)
        PROVE  ImplInv' /\ Moves
    <2>1. \A b \in Agents, t \in Slots : tasks'[b][t] = tasks[b][t] \/ tasks'[b][t] = Idle
      BY <1>2 DEF Crash, TypeInv, TasksType
    <2> QED
      BY <1>2, <2>1, EarlyKeepsImpl, IdleIsQuiet, QuietIsEarly, NothingSentIsFresh, DidsGrow
      DEF Crash
  <1> QED
    BY <1>1, <1>2 DEF FaultNext

-------------------------------------------------------------------------------
(* The theorem *)

LEMMA ImplInvInitially ==
  ASSUME Init
  PROVE  ImplInv /\ Contract!ContractInit
  <1>1. \A a \in Agents, c \in ConnIds : conns[a][c] = None
    BY DEF Init
  <1>2. \A a \in Agents, t \in Slots : tasks[a][t] = Idle
    BY DEF Init
  <1>3. Idle.pc = "idle"
    BY DEF Idle
  <1>4. KeyInv
    BY <1>1, <1>2, <1>3 DEF KeyInv, AsksWith, UnsavedSteps
  <1>5. \A a \in Agents, t \in Slots : FreshTask(conns, a, t, tasks[a][t])
    BY <1>2, <1>3, EarlyIsFresh DEF LateSteps, ResponseSteps
  <1>6. ContractInv
    BY <1>1, <1>5 DEF Init, ContractInv, Connection
  <1>7. \A th \in Threads : RequesterEnd(th) = NoEnd /\ ResponderEnd(th) = NoEnd
    <2> TAKE th \in Threads
    <2>1. th.agent \in Agents /\ th.conn \in ConnIds
      BY DEF Threads
    <2>2. RespondersTo(th) = {}
      BY <1>1 DEF RespondersTo, ConnectionsByThread
    <2> QED
      BY <1>1, <2>1, <2>2 DEF RequesterEnd, ResponderEnd, Connection
  <1> QED
    BY <1>4, <1>6, <1>7, EndsAreEnds DEF ImplInv, Contract!ContractInit

LEMMA ImplInvKept ==
  ASSUME Automatic, TypeInv, AgreementInv, ImplInv, [Next]_vars
  PROVE  ImplInv' /\ ContractStep
  <1>1. OneHandler /\ AutoAccept = Agents
    BY DEF Automatic
  <1>2. ASSUME UNCHANGED vars
        PROVE  ImplInv' /\ Moves
    <2>1. UNCHANGED <<conns, dids, net, tasks>>
      BY <1>2 DEF vars
    <2>2. SentAreFresh
      BY <2>1, NothingSentIsFresh
    <2> QED
      BY <2>1, <2>2, EarlyKeepsImpl, DidsGrow
  <1>3. ASSUME NEW a \in Agents, NEW h \in Handlers, NEW m \in net, IgnoreMessage(a, h, m)
        PROVE  ImplInv' /\ Moves
    <2>1. SentAreFresh
      BY <1>3, NothingSentIsFresh DEF IgnoreMessage
    <2> QED
      BY <1>3, <2>1, EarlyKeepsImpl, DidsGrow DEF IgnoreMessage
  <1>4. ~ConnectionsApiNext
    <2>1. ASSUME NEW a \in Agents, NEW s \in Callers, NEW c \in ConnIds, NEW pc,
                 StartCall(a, s, c, pc)
          PROVE  FALSE
      BY <1>1, <2>1 DEF StartCall
    <2> QED
      BY <2>1 DEF ConnectionsApiNext, AcceptRequest, AcceptResponse, SendPing
  <1>5. ImplInv' /\ Moves
    <2>1. CASE OutOfBandNext
      BY <2>1, OutOfBandImpl
    <2>2. CASE DidExchangeNext
      BY <1>1, <2>2, DidExchangeImpl
    <2>3. CASE ConnectionProtocolNext
      BY <1>1, <2>3, ConnectionProtocolImpl
    <2>4. CASE FaultNext
      BY <2>4, FaultsImpl
    <2> QED
      BY <1>2, <1>3, <1>4, <2>1, <2>2, <2>3, <2>4 DEF Next
  <1> QED
    BY <1>1, <1>5, WritesAreContractSteps DEF ImplInv, Moves

\* Where agents accept automatically and handle one message at a time, the handshake
\* implements its contract, over either protocol and with any of the faults: every write
\* of a connection record by the handlers of both ends is a step of HandshakeContract, or
\* changes neither end.
THEOREM HandshakeImplementsContract ==
  ASSUME Automatic
  PROVE  Spec => ImplementsContract
  <1>1. CallsDoNotOverlap
    BY DEF Automatic, CallsDoNotOverlap
  <1>2. Spec => []AgreementInv
    BY <1>1, AgreementInvHolds
  <1>3. Init => ImplInv /\ Contract!ContractInit
    BY ImplInvInitially
  <1>4. TypeInv /\ AgreementInv /\ ImplInv /\ [Next]_vars => ImplInv' /\ ContractStep
    BY ImplInvKept
  <1>5. ContractStep <=> [Contract!ContractNext]_<<Requesters, Responders>>
    BY DEF ContractStep
  <1> QED
    BY <1>2, <1>3, <1>4, <1>5, TypesHold, PTL
    DEF Spec, ImplementsContract, Contract!ContractSpec, Requesters, Responders
===============================================================================
