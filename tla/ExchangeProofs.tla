----------------------------- MODULE ExchangeProofs -----------------------------
(***************************************************************************)
(* What is proved of credential and proof exchanges for every value of the *)
(* constants: their types, and that a thread leads to one exchange.        *)
(*                                                                         *)
(* The many actions make only a few kinds of step.  The first part names   *)
(* these shapes and proves that every step of Next has one of them; the    *)
(* invariants are then proved shape by shape.  Types alone are not         *)
(* inductive: what a task writes later must be typed while it carries it   *)
(* (ExchangeTypes).  The id of an exchange that is not saved yet is used   *)
(* by one task (IdsInv).  An agent hears of a thread only when the one     *)
(* that opened it has saved its exchange, so with one handler no second    *)
(* exchange of a thread is under way (ThreadInv).  What each agent sends   *)
(* and the states it can be in depend on its role (RolesInv), on which     *)
(* the proofs of ExchangeContentProofs rest.                               *)
(***************************************************************************)
EXTENDS ExchangeProperties, SequenceTheorems, TLAPS

-------------------------------------------------------------------------------
(* Every step of the exchanges is of one of the following shapes.  Each names *)
(* what all the actions it stands for have in common.                         *)

\* The protocol of a message kind (problem reports belong to both).
Family(k) ==
  IF k \in {"propose-credential", "offer-credential", "request-credential",
            "issue-credential", "credential-ack"}
  THEN "issue-credential" ELSE "present-proof"

\* A handler or call ends, or fails.
Stop(a, t) == Finish(a, t) /\ UNCHANGED <<exchanges, stored, wallet, opened, net>>

\* What a handler that found no exchange makes of a message: its state.
Openings ==
  {<<"propose-credential", "proposal-received">>, <<"offer-credential", "offer-received">>,
   <<"request-credential", "request-received">>,
   <<"propose-presentation", "proposal-received">>,
   <<"request-presentation", "request-received">>}

Opened(m, id, state) ==
  [pc |-> "saveReceived", id |-> id, new |-> TRUE, found |-> 0,
   ex |-> NewExchange(m.thread, TRUE, state, None), kind |-> m.kind, content |-> m.content]

OpenStep(a, h, m, id, state) ==
  /\ Delivers(a, h, m, m.kind) /\ <<m.kind, state>> \in Openings
  /\ Matching(a, m.thread) = {} /\ FreshId(a, id)
  /\ Continue(a, h, Opened(m, id, state))
  /\ UNCHANGED <<exchanges, stored, wallet, opened>>

\* The messages that an exchange awaits: the state before, the state after, and the
\* first write.
Resumptions ==
  {<<"propose-credential", "offer-sent", "proposal-received", "saveReceived">>,
   <<"offer-credential", "proposal-sent", "offer-received", "saveReceived">>,
   <<"request-credential", "offer-sent", "request-received", "saveReceived">>,
   <<"issue-credential", "request-sent", "credential-received", "storeCredential">>,
   <<"credential-ack", "credential-issued", "done", "updateReceived">>,
   <<"propose-presentation", "request-sent", "proposal-received", "saveReceived">>,
   <<"request-presentation", "proposal-sent", "request-received", "saveReceived">>,
   <<"presentation", "request-sent", "presentation-received", "saveReceived">>,
   <<"presentation-ack", "presentation-sent", "done", "updateReceived">>}

Resumed(a, m, id, after, pc, verdict) ==
  [pc |-> pc, id |-> id, new |-> FALSE, found |-> Saved(a, id, m.kind),
   ex |-> [exchanges[a][id] EXCEPT !.state = after, !.verified = verdict],
   kind |-> m.kind, content |-> m.content]

\* A verdict comes with a presentation; what is called valid, or stored, has been
\* compared with the request.
Compared(a, m, id, verdict) ==
  /\ verdict # exchanges[a][id].verified =>
       /\ m.kind = "presentation" /\ verdict \in BOOLEAN
  /\ m.kind = "presentation" /\ verdict = TRUE =>
       /\ Sole(a, id, "request-presentation")
       /\ ContentOf(a, id, "request-presentation") = m.content
  /\ m.kind = "issue-credential" =>
       /\ Sole(a, id, "request-credential")
       /\ ContentOf(a, id, "request-credential") = m.content

ResumeStep(a, h, m, id, after, pc, verdict) ==
  /\ Delivers(a, h, m, m.kind)
  /\ Matching(a, m.thread) = {id}
  /\ <<m.kind, exchanges[a][id].state, after, pc>> \in Resumptions
  /\ Compared(a, m, id, verdict)
  /\ Continue(a, h, Resumed(a, m, id, after, pc, verdict))
  /\ UNCHANGED <<exchanges, stored, wallet, opened>>

\* A task that only updates the state of an exchange.
Updates(a, id, state) ==
  [Idle EXCEPT !.pc = "updateOnly", !.id = id, !.ex = [exchanges[a][id] EXCEPT !.state = state]]

AbandonStep(a, h, m, id) ==
  /\ Delivers(a, h, m, "problem-report")
  /\ Matching(a, m.thread) = {id}
  /\ Continue(a, h, Updates(a, id, "abandoned"))
  /\ UNCHANGED <<exchanges, stored, wallet, opened>>

\* A call opens a thread: by which agent, with what message, in which state.
Starts ==
  {<<Holder, "propose-credential", "proposal-sent">>,
   <<Authority, "offer-credential", "offer-sent">>,
   <<Holder, "propose-presentation", "proposal-sent">>,
   <<Authority, "request-presentation", "request-sent">>}

Started(th, id, kind, state, connected, c, option) ==
  [pc |-> "saveResponse", id |-> id, new |-> TRUE, found |-> 0,
   ex |-> NewExchange(th, connected, state, option), kind |-> kind, content |-> c]

StartStep(a, s, th, id, kind, state, connected, c, option) ==
  /\ s \in Callers /\ At(a, s, "idle") /\ <<a, kind, state>> \in Starts
  /\ ProtocolOf[th] = Family(kind)
  /\ connected \in {TRUE, ~WithoutConnection}
  /\ th \notin opened /\ opened' = opened \cup {th}
  /\ FreshId(a, id)
  /\ Continue(a, s, Started(th, id, kind, state, connected, c, option))
  /\ UNCHANGED <<exchanges, stored, wallet, net>>

\* What a call answers by hand in which state, and the state that this leads to.
RepliesByHand ==
  {<<"proposal-received", "offer-credential", "offer-sent">>,
   <<"offer-received", "request-credential", "request-sent">>,
   <<"offer-received", "propose-credential", "proposal-sent">>,
   <<"request-received", "issue-credential", "credential-issued">>,
   <<"credential-received", "credential-ack", "done">>,
   <<"proposal-received", "request-presentation", "request-sent">>,
   <<"request-received", "presentation", "presentation-sent">>,
   <<"request-received", "propose-presentation", "proposal-sent">>,
   <<"presentation-received", "presentation-ack", "done">>}

\* How a call knows the protocol of the exchange it answers in.
KnowsFamily(a, id, kind) ==
  \/ ProtocolOf[exchanges[a][id].thread] = Family(kind)
  \/ \E x \in StoredKinds : Sole(a, id, x) /\ Family(x) = Family(kind)
  \/ exchanges[a][id].state \in {"offer-received", "credential-received"}

Replied(a, id, answer, option) ==
  [pc |-> FirstWrite(answer.kind), id |-> id, new |-> FALSE,
   ex |-> [WithOption(exchanges[a][id], option) EXCEPT !.state = answer.state],
   kind |-> answer.kind, content |-> answer.content, found |-> Saved(a, id, answer.kind)]

ReplyStep(a, s, id, answer, option) ==
  /\ s \in Callers /\ At(a, s, "idle")
  /\ exchanges[a][id] # None /\ exchanges[a][id].connected
  /\ <<exchanges[a][id].state, answer.kind, answer.state>> \in RepliesByHand
  /\ KnowsFamily(a, id, answer.kind)
  /\ answer.kind \in StoredKinds => answer.content \in Contents
  /\ answer.kind \notin StoredKinds => answer.content = None
  /\ ByHand(a, id)
  /\ Continue(a, s, Replied(a, id, answer, option))
  /\ UNCHANGED <<exchanges, stored, wallet, opened, net>>

Report(a, id) ==
  [kind |-> "problem-report", thread |-> exchanges[a][id].thread, to |-> Peer(a),
   content |-> None]

DeclineStep(a, s, id) ==
  /\ s \in Callers /\ At(a, s, "idle") /\ exchanges[a][id] # None
  /\ \/ exchanges[a][id].state = "offer-received"
     \/ /\ exchanges[a][id].state = "request-received"
        /\ ProtocolOf[exchanges[a][id].thread] = "present-proof"
  /\ ByHand(a, id)
  /\ net' \in {net, net \cup {Report(a, id)}}
  /\ Continue(a, s, Updates(a, id, "declined"))
  /\ UNCHANGED <<exchanges, stored, wallet, opened>>

ReportStep(a, id) ==
  /\ exchanges[a][id] # None
  /\ net' = net \cup {Report(a, id)}
  /\ UNCHANGED <<exchanges, stored, wallet, opened, tasks>>

\* What a handler answers with, and the state that this leads to.
Replies ==
  {<<"propose-credential", "offer-credential", "offer-sent">>,
   <<"offer-credential", "request-credential", "request-sent">>,
   <<"request-credential", "issue-credential", "credential-issued">>,
   <<"issue-credential", "credential-ack", "done">>,
   <<"propose-presentation", "request-presentation", "request-sent">>,
   <<"request-presentation", "presentation", "presentation-sent">>,
   <<"presentation", "presentation-ack", "done">>}

DecideStep(a, h, answer) ==
  LET k == tasks[a][h] IN
  /\ At(a, h, "decide")
  /\ <<k.kind, answer.kind, answer.state>> \in Replies
  /\ Sole(a, k.id, k.kind)
  /\ answer.kind \in StoredKinds => answer.content = ContentOf(a, k.id, k.kind)
  /\ answer.kind \notin StoredKinds => answer.content = None
  /\ Mode(a, k.ex) = "contentApproved" /\ answer.kind \in StoredKinds =>
       Equal(a, k, AgreedBefore[answer.kind])
  /\ AnswersNext(a, h, answer)
  /\ UNCHANGED <<exchanges, stored, wallet, opened, net>>

SaveStep(a, t) ==
  LET k == tasks[a][t] IN
  /\ k.pc \in {"saveReceived", "saveResponse"}
  /\ ~SaveFails(a, k) /\ SaveMessage(a, k)
  /\ Continue(a, t, [k EXCEPT !.pc = IF @ = "saveReceived" THEN "updateReceived"
                                                           ELSE "updateResponse"])
  /\ UNCHANGED <<exchanges, wallet, opened, net>>

AfterUpdate(k) ==
  IF k.pc = "updateReceived" /\ k.kind \in StoredKinds
  THEN [k EXCEPT !.pc = "decide", !.new = FALSE]
  ELSE IF k.pc = "updateResponse" THEN [k EXCEPT !.pc = "sendResponse"] ELSE Idle

UpdateStep(a, t) ==
  LET k == tasks[a][t] IN
  /\ k.pc \in {"updateReceived", "updateResponse", "updateOnly"}
  /\ ~UpdateFails(a, k) /\ SaveExchange(a, k)
  /\ Continue(a, t, AfterUpdate(k))
  /\ UNCHANGED <<stored, wallet, opened, net>>

\* delete removes the record of an exchange, then the messages, one by one.
RemoveStep(a, s, id) ==
  /\ "delete" \in Calls[a]
  /\ s \in Callers /\ At(a, s, "idle")
  /\ exchanges[a][id] # None
  /\ exchanges' = [exchanges EXCEPT ![a][id] = None]
  /\ \/ Continue(a, s, [Idle EXCEPT !.pc = "deleteMessages", !.id = id])
     \/ UNCHANGED tasks
  /\ UNCHANGED <<stored, wallet, opened, net>>

DeleteStep(a, s, x) ==
  /\ At(a, s, "deleteMessages")
  /\ x \in StoredKinds /\ stored[a][tasks[a][s].id][x] # <<>>
  /\ stored' = [stored EXCEPT ![a][tasks[a][s].id][x] = Tail(@)]
  /\ UNCHANGED <<exchanges, wallet, opened, net, tasks>>

\* A state of either protocol.
StateNames == CredentialStates \cup ProofStates

Answers == [state : StateNames, kind : Kinds, content : Contents \cup {None}]

Opening(a, h, m, id) == \E state \in StateNames : OpenStep(a, h, m, id, state)

Resuming(a, h, m, id) ==
  \E after \in StateNames, pc \in Steps, verdict \in BOOLEAN \cup {None} :
    ResumeStep(a, h, m, id, after, pc, verdict)

Deciding(a, h) == \E answer \in Answers : DecideStep(a, h, answer)

Replying(a, s, id) ==
  \E answer \in Answers, option \in AutoModes \cup {None} : ReplyStep(a, s, id, answer, option)

Starting(a, s, id) ==
  \E th \in Threads, kind \in StoredKinds, state \in StateNames, connected \in BOOLEAN,
     c \in Contents, option \in AutoModes \cup {None} :
    StartStep(a, s, th, id, kind, state, connected, c, option)

Receipts(a, h, m, id) == AbandonStep(a, h, m, id) \/ Opening(a, h, m, id) \/ Resuming(a, h, m, id)

CallShapes(a, s, id) ==
  \/ DeclineStep(a, s, id) \/ ReportStep(a, id) \/ RemoveStep(a, s, id)
  \/ Replying(a, s, id) \/ Starting(a, s, id)

TaskShapes(a, t) ==
  \/ Stop(a, t) \/ SaveStep(a, t) \/ UpdateStep(a, t) \/ SendResponse(a, t)
  \/ \E x \in StoredKinds : DeleteStep(a, t, x)

Shapes ==
  \/ \E a \in Agents : Crash(a)
  \/ \E a \in Agents, t \in Slots : TaskShapes(a, t)
  \/ \E a \in Agents, h \in Handlers, m \in net, id \in RecordIds : Receipts(a, h, m, id)
  \/ \E a \in Agents, h \in Handlers : StoreCredential(a, h) \/ Deciding(a, h)
  \/ \E a \in Agents, s \in Callers, id \in RecordIds : CallShapes(a, s, id)

-------------------------------------------------------------------------------
(* Types *)

\* What a task holds at each of its steps.
TypedTask(k) ==
  /\ k.pc # "idle" => k.id \in RecordIds
  /\ k.pc \notin {"idle", "deleteMessages"} => k.ex \in ExchangeRecordType
  /\ k.pc \in {"storeCredential", "saveReceived", "decide", "saveResponse"} =>
       k.kind \in StoredKinds /\ k.content \in Contents
  /\ k.pc \in {"updateReceived", "updateResponse", "sendResponse"} => k.kind \in Kinds
  /\ k.pc = "sendResponse" /\ k.kind \in StoredKinds => k.content \in Contents
  /\ k.pc \in {"updateReceived", "updateResponse"} /\ k.kind \in StoredKinds =>
       k.content \in Contents

ExchangeTypes ==
  /\ TypeOK
  /\ \A a \in Agents, t \in Slots : TypedTask(tasks[a][t])
  /\ \A m \in net : m.kind \in StoredKinds => m.content \in Contents

-------------------------------------------------------------------------------
(* Ids *)

\* A task that makes an exchange, whose record is not saved yet.
Creating(k) ==
  k.new /\ k.pc \in {"saveReceived", "updateReceived", "saveResponse", "updateResponse"}

\* A task whose exchange record exists unless it has been deleted.
Holding(k) == k.pc \notin {"idle", "deleteMessages"} /\ ~Creating(k)

CreatingKeepsId(a, t) ==
  Creating(tasks[a][t]) =>
    /\ exchanges[a][tasks[a][t].id] = None
    /\ \A u \in Slots \ {t} : ~At(a, u, "idle") => tasks[a][u].id # tasks[a][t].id

HoldingKeepsThread(a, t) ==
  Holding(tasks[a][t]) /\ exchanges[a][tasks[a][t].id] # None =>
    exchanges[a][tasks[a][t].id].thread = tasks[a][t].ex.thread

DeletedStays(a, t) ==
  At(a, t, "deleteMessages") => exchanges[a][tasks[a][t].id] = None

\* Where a task works on an exchange that it has found.
FoundBefore(a, t) ==
  tasks[a][t].pc \in {"storeCredential", "decide", "updateOnly"} => ~tasks[a][t].new

IdsInv ==
  \A a \in Agents, t \in Slots :
    /\ CreatingKeepsId(a, t) /\ HoldingKeepsThread(a, t)
    /\ DeletedStays(a, t) /\ FoundBefore(a, t)

-------------------------------------------------------------------------------
(* Threads *)

OneHandler == \A h, i \in Handlers : h = i

Active(k) == k.pc \notin {"idle", "deleteMessages"}

\* A call that opens a thread, whose exchange is not saved yet.
Beginning(a, t) == t \in Callers /\ Creating(tasks[a][t])

ThreadOf(a, t) == tasks[a][t].ex.thread

\* A thread that others can have heard of: the call that opened it has saved its
\* exchange, or has failed.
Heard(th) ==
  th \in opened /\ \A a \in Agents, t \in Slots : Beginning(a, t) => ThreadOf(a, t) # th

ThreadsOfRecords ==
  \A a \in Agents : \A id \in ExchangesOf(a) :
    exchanges[a][id].connected /\ Heard(exchanges[a][id].thread)

ThreadsOfMessages == \A m \in net : Heard(m.thread)

ThreadOfTask(a, t) ==
  Active(tasks[a][t]) =>
    /\ tasks[a][t].ex.connected
    /\ IF Beginning(a, t) THEN ThreadOf(a, t) \in opened ELSE Heard(ThreadOf(a, t))

BeginningsDiffer ==
  \A a, b \in Agents, t, u \in Slots :
    Beginning(a, t) /\ Beginning(b, u) /\ <<a, t>> # <<b, u>> => ThreadOf(a, t) # ThreadOf(b, u)

\* The exchange that a task makes is the only one of its thread.
CreatingIsFirst(a, t) ==
  Creating(tasks[a][t]) =>
    \A id \in ExchangesOf(a) : exchanges[a][id].thread # ThreadOf(a, t)

ThreadInv ==
  /\ ThreadsOfRecords /\ ThreadsOfMessages /\ BeginningsDiffer
  /\ \A a \in Agents, t \in Slots : ThreadOfTask(a, t) /\ CreatingIsFirst(a, t)
  /\ OneExchangePerThread

-------------------------------------------------------------------------------
(* Roles *)

\* The states of an exchange at an agent.
StatesOf(a, th) ==
  {"done", "abandoned"} \cup
  (IF ProtocolOf[th] = "issue-credential"
   THEN IF a = Holder
        THEN {"proposal-sent", "offer-received", "request-sent", "credential-received",
              "declined"}
        ELSE {"offer-sent", "proposal-received", "request-received", "credential-issued"}
   ELSE IF a = Holder
        THEN {"proposal-sent", "request-received", "presentation-sent", "declined"}
        ELSE {"request-sent", "proposal-received", "presentation-received"})

\* The messages that are for an agent.
ForHolder == {"offer-credential", "issue-credential", "request-presentation", "presentation-ack"}

IsFor(a, k) == (a = Holder) = (k \in ForHolder)

RolesOfRecords ==
  \A a \in Agents : \A id \in ExchangesOf(a) :
    exchanges[a][id].state \in StatesOf(a, exchanges[a][id].thread)

RolesOfMessages ==
  \A m \in net : m.kind # "problem-report" =>
    Family(m.kind) = ProtocolOf[m.thread] /\ IsFor(m.to, m.kind)

RoleOfTask(a, k) ==
  /\ Active(k) => k.ex.state \in StatesOf(a, k.ex.thread)
  /\ Active(k) /\ k.pc # "updateOnly" => Family(k.kind) = ProtocolOf[k.ex.thread]
  /\ k.pc \in {"storeCredential", "saveReceived", "updateReceived", "decide"} =>
       IsFor(a, k.kind) /\ k.kind # "problem-report"
  /\ k.pc \in {"saveResponse", "updateResponse", "sendResponse"} =>
       ~IsFor(a, k.kind) /\ k.kind # "problem-report"

RolesOfTasks == \A a \in Agents, t \in Slots : RoleOfTask(a, tasks[a][t])

RolesOfSaved ==
  \A a \in Agents, id \in RecordIds, x \in StoredKinds : stored[a][id][x] # <<>> =>
    /\ exchanges[a][id] # None => Family(x) = ProtocolOf[exchanges[a][id].thread]
    /\ \A t \in Slots : Creating(tasks[a][t]) /\ tasks[a][t].id = id =>
         Family(x) = ProtocolOf[tasks[a][t].ex.thread]

RolesInv == RolesOfRecords /\ RolesOfMessages /\ RolesOfTasks /\ RolesOfSaved

-------------------------------------------------------------------------------
(* Every step is of one of the shapes. *)

\* What is read of a record that exists.
LEMMA ReadExchange ==
  ASSUME ExchangeTypes, NEW a \in Agents, NEW id \in RecordIds, exchanges[a][id] # None
  PROVE  exchanges[a][id] \in ExchangeRecordType
  BY DEF ExchangeTypes, TypeOK

\* A message that is the only one of its kind is a content.
LEMMA ReadMessage ==
  ASSUME ExchangeTypes, NEW a \in Agents, NEW id \in RecordIds, NEW x \in StoredKinds
  PROVE  /\ stored[a][id][x] \in Seq(Contents)
         /\ Sole(a, id, x) => ContentOf(a, id, x) \in Contents
         /\ Saved(a, id, x) \in Nat
  <1>1. stored[a][id][x] \in Seq(Contents)
    BY DEF ExchangeTypes, TypeOK
  <1> QED
    BY <1>1 DEF Sole, ContentOf, Saved

LEMMA MatchingExists ==
  ASSUME NEW a, NEW th, NEW id, Matching(a, th) = {id}
  PROVE  id \in RecordIds /\ exchanges[a][id] # None /\ exchanges[a][id].thread = th
  BY DEF Matching

\* A handler makes an exchange.
LEMMA OpensShape ==
  ASSUME ExchangeTypes, NEW a \in Agents, NEW h \in Handlers, NEW m \in net, NEW state,
         Delivers(a, h, m, m.kind), Opens(a, h, m, state), <<m.kind, state>> \in Openings,
         UNCHANGED <<exchanges, stored, wallet, opened>>
  PROVE  Shapes
  <1>1. PICK id \in RecordIds :
          FreshId(a, id) /\ Continue(a, h, Opened(m, id, state))
    BY DEF Opens, Opened
  <1>2. OpenStep(a, h, m, id, state)
    BY <1>1 DEF OpenStep, Opens
  <1>3. state \in StateNames
    BY DEF Openings, StateNames, CredentialStates, ProofStates
  <1>4. Receipts(a, h, m, id)
    BY <1>2, <1>3 DEF Receipts, Opening
  <1> QED
    BY <1>4 DEF Shapes

LEMMA StateAlone ==
  ASSUME NEW e \in ExchangeRecordType, NEW state
  PROVE  [e EXCEPT !.state = state] = [e EXCEPT !.state = state, !.verified = e.verified]
  BY DEF ExchangeRecordType

\* A handler goes on with an exchange.
LEMMA ResumesShape ==
  ASSUME ExchangeTypes, NEW a \in Agents, NEW h \in Handlers, NEW m \in net,
         NEW before, NEW after, NEW pc,
         Delivers(a, h, m, m.kind), Resumes(a, h, m, before, after, pc),
         <<m.kind, before, after, pc>> \in Resumptions,
         m.kind # "presentation", m.kind = "issue-credential" => MatchesRequest(a, m),
         UNCHANGED <<exchanges, stored, wallet, opened>>
  PROVE  Shapes
  <1>1. PICK id \in Expected(a, m, before) :
          Continue(a, h, [pc |-> pc, id |-> id, new |-> FALSE,
                          found |-> Saved(a, id, m.kind),
                          ex |-> [exchanges[a][id] EXCEPT !.state = after],
                          kind |-> m.kind, content |-> m.content])
    BY DEF Resumes
  <1>2. /\ Matching(a, m.thread) = {id} /\ id \in RecordIds
        /\ exchanges[a][id] # None /\ exchanges[a][id].state = before
    BY <1>1 DEF Expected, Matching
  <1>3. exchanges[a][id] \in ExchangeRecordType
    BY <1>2, ReadExchange
  <1> DEFINE v == exchanges[a][id].verified
  <1>4. v \in BOOLEAN \cup {None}
    BY <1>3 DEF ExchangeRecordType
  <1>5. Continue(a, h, Resumed(a, m, id, after, pc, v))
    BY <1>1, <1>3, StateAlone DEF Resumed
  <1>6. Compared(a, m, id, v)
    <2>1. m.kind = "issue-credential" => /\ Sole(a, id, "request-credential")
                                         /\ ContentOf(a, id, "request-credential") = m.content
      BY <1>2 DEF MatchesRequest
    <2> QED
      BY <2>1 DEF Compared
  <1>7. ResumeStep(a, h, m, id, after, pc, v)
    BY <1>2, <1>5, <1>6 DEF ResumeStep
  <1>8. after \in StateNames /\ pc \in Steps
    BY DEF Resumptions, StateNames, CredentialStates, ProofStates, Steps
  <1>9. Receipts(a, h, m, id)
    BY <1>4, <1>7, <1>8 DEF Receipts, Resuming
  <1> QED
    BY <1>2, <1>9 DEF Shapes

\* An application answers.
LEMMA AnswersShape ==
  ASSUME ExchangeTypes, ExchangeAssumption, NEW a \in Agents, NEW s \in Callers, NEW id \in RecordIds,
         NEW before, NEW answer \in Answers,
         AnswersByHand(a, s, id, before, answer),
         <<before, answer.kind, answer.state>> \in RepliesByHand,
         KnowsFamily(a, id, answer.kind),
         answer.kind \in StoredKinds => answer.content \in Contents,
         answer.kind \notin StoredKinds => answer.content = None
  PROVE  Shapes
  <1>1. PICK option \in AutoOptions : Continue(a, s, Replied(a, id, answer, option))
    BY DEF AnswersByHand, Replied
  <1>2. ReplyStep(a, s, id, answer, option)
    BY <1>1 DEF ReplyStep, AnswersByHand
  <1>3. option \in AutoModes \cup {None}
    BY DEF ExchangeAssumption
  <1>4. CallShapes(a, s, id)
    BY <1>2, <1>3 DEF CallShapes, Replying
  <1> QED
    BY <1>4 DEF Shapes

LEMMA CredentialReceiptShapes ==
  ASSUME ExchangeTypes, NEW a \in Agents, NEW h \in Handlers, NEW m \in net,
         \/ ReceiveProposal(a, h, m)   \/ ReceiveOffer(a, h, m)
         \/ ReceiveRequest(a, h, m)    \/ ReceiveCredential(a, h, m)
         \/ ReceiveCredentialAck(a, h, m)
  PROVE  Shapes
  <1>1. CASE ReceiveProposal(a, h, m)
    <2>1. Delivers(a, h, m, m.kind) /\ m.kind = "propose-credential"
          /\ UNCHANGED <<exchanges, stored, wallet, opened>>
      BY <1>1 DEF ReceiveProposal, Delivers
    <2>2. CASE Opens(a, h, m, "proposal-received")
      BY <2>1, <2>2, OpensShape DEF Openings
    <2>3. CASE Resumes(a, h, m, "offer-sent", "proposal-received", "saveReceived")
      BY <2>1, <2>3, ResumesShape DEF Resumptions
    <2> QED
      BY <1>1, <2>2, <2>3 DEF ReceiveProposal
  <1>2. CASE ReceiveOffer(a, h, m)
    <2>1. Delivers(a, h, m, m.kind) /\ m.kind = "offer-credential"
          /\ UNCHANGED <<exchanges, stored, wallet, opened>>
      BY <1>2 DEF ReceiveOffer, Delivers
    <2>2. CASE Opens(a, h, m, "offer-received")
      BY <2>1, <2>2, OpensShape DEF Openings
    <2>3. CASE Resumes(a, h, m, "proposal-sent", "offer-received", "saveReceived")
      BY <2>1, <2>3, ResumesShape DEF Resumptions
    <2> QED
      BY <1>2, <2>2, <2>3 DEF ReceiveOffer
  <1>3. CASE ReceiveRequest(a, h, m)
    <2>1. Delivers(a, h, m, m.kind) /\ m.kind = "request-credential"
          /\ UNCHANGED <<exchanges, stored, wallet, opened>>
      BY <1>3 DEF ReceiveRequest, Delivers
    <2>2. CASE Opens(a, h, m, "request-received")
      BY <2>1, <2>2, OpensShape DEF Openings
    <2>3. CASE Resumes(a, h, m, "offer-sent", "request-received", "saveReceived")
      BY <2>1, <2>3, ResumesShape DEF Resumptions
    <2> QED
      BY <1>3, <2>2, <2>3 DEF ReceiveRequest
  <1>4. CASE ReceiveCredential(a, h, m)
    <2>1. Delivers(a, h, m, m.kind) /\ m.kind = "issue-credential" /\ MatchesRequest(a, m)
          /\ UNCHANGED <<exchanges, stored, wallet, opened>>
          /\ Resumes(a, h, m, "request-sent", "credential-received", "storeCredential")
      BY <1>4 DEF ReceiveCredential, Delivers
    <2> QED
      BY <2>1, ResumesShape DEF Resumptions
  <1>5. CASE ReceiveCredentialAck(a, h, m)
    <2>1. Delivers(a, h, m, m.kind) /\ m.kind = "credential-ack"
          /\ UNCHANGED <<exchanges, stored, wallet, opened>>
          /\ Resumes(a, h, m, "credential-issued", "done", "updateReceived")
      BY <1>5 DEF ReceiveCredentialAck, Delivers
    <2> QED
      BY <2>1, ResumesShape DEF Resumptions
  <1> QED
    BY <1>1, <1>2, <1>3, <1>4, <1>5

LEMMA StopShape ==
  ASSUME NEW a \in Agents, NEW t \in Slots,
         Finish(a, t), UNCHANGED <<exchanges, stored, wallet, opened, net>>
  PROVE  Shapes
  BY DEF Stop, TaskShapes, Shapes

LEMMA DecidesShape ==
  ASSUME NEW a \in Agents, NEW h \in Handlers,
         NEW answer \in Answers,
         DecideStep(a, h, answer)
  PROVE  Shapes
  BY DEF Shapes, Deciding

LEMMA DecideCredentialShape ==
  ASSUME ExchangeTypes, NEW a \in Agents, NEW h \in Handlers, DecideCredential(a, h)
  PROVE  Shapes
  <1> DEFINE k == tasks[a][h]
  <1>0. h \in Slots /\ At(a, h, "decide") /\ UNCHANGED <<exchanges, stored, wallet, opened, net>>
    BY DEF DecideCredential, Slots
  <1>1. k.id \in RecordIds /\ k.kind \in StoredKinds
    BY <1>0 DEF ExchangeTypes, TypedTask, At
  <1>2. CASE ~(RespondsAlone(a, k) /\ Sole(a, k.id, k.kind))
    BY <1>0, <1>2, StopShape DEF DecideCredential
  <1>3. CASE RespondsAlone(a, k) /\ Sole(a, k.id, k.kind)
    <2>1. AnswersReceived(a, h)
      BY <1>3 DEF DecideCredential
    <2> DEFINE c == ContentOf(a, k.id, k.kind)
    <2>2. c \in Contents
      BY <1>1, <1>3, ReadMessage
    <2>3. CASE k.kind = "propose-credential"
      <3> DEFINE answer == Answer("offer-sent", "offer-credential", c)
      <3>1. AnswersNext(a, h, answer)
        BY <2>1, <2>3 DEF AnswersReceived, Offers, OfferFor
      <3>2. Mode(a, k.ex) = "contentApproved" => Equal(a, k, "offer-credential")
        BY <1>3, <2>3 DEF RespondsAlone, RespondsToProposal, SameContent, Equal
      <3>3. DecideStep(a, h, answer)
        BY <1>0, <1>3, <2>3, <3>1, <3>2 DEF DecideStep, Replies, Answer, StoredKinds, AgreedBefore
      <3>4. answer \in Answers
        BY <2>2 DEF Answer, Answers, StateNames, CredentialStates, Kinds, StoredKinds
      <3> QED
        BY <3>3, <3>4, DecidesShape
    <2>4. CASE k.kind = "offer-credential"
      <3> DEFINE answer == Answer("request-sent", "request-credential", c)
      <3>1. AnswersNext(a, h, answer)
        BY <2>1, <2>4 DEF AnswersReceived, AcceptsOffer, RequestFor
      <3>2. Mode(a, k.ex) = "contentApproved" => Equal(a, k, "propose-credential")
        BY <1>3, <2>4 DEF RespondsAlone, RespondsToOffer, SameContent, Equal
      <3>3. DecideStep(a, h, answer)
        BY <1>0, <1>3, <2>4, <3>1, <3>2 DEF DecideStep, Replies, Answer, StoredKinds, AgreedBefore
      <3>4. answer \in Answers
        BY <2>2 DEF Answer, Answers, StateNames, CredentialStates, Kinds, StoredKinds
      <3> QED
        BY <3>3, <3>4, DecidesShape
    <2>5. CASE k.kind = "request-credential"
      <3> DEFINE answer == Answer("credential-issued", "issue-credential", c)
      <3>1. AnswersNext(a, h, answer)
        BY <2>1, <2>5 DEF AnswersReceived, AcceptsRequest, CredentialFor
      <3>2. Mode(a, k.ex) = "contentApproved" => Equal(a, k, "offer-credential")
        BY <1>3, <2>5 DEF RespondsAlone, RespondsToRequest, SameContent, Equal
      <3>3. DecideStep(a, h, answer)
        BY <1>0, <1>3, <2>5, <3>1, <3>2 DEF DecideStep, Replies, Answer, StoredKinds, AgreedBefore
      <3>4. answer \in Answers
        BY <2>2 DEF Answer, Answers, StateNames, CredentialStates, Kinds, StoredKinds
      <3> QED
        BY <3>3, <3>4, DecidesShape
    <2>6. CASE k.kind = "issue-credential"
      <3> DEFINE answer == Answer("done", "credential-ack", None)
      <3>1. AnswersNext(a, h, answer)
        BY <2>1, <2>6 DEF AnswersReceived, AcceptsCredential
      <3>2. DecideStep(a, h, answer)
        BY <1>0, <1>3, <2>6, <3>1 DEF DecideStep, Replies, Answer, StoredKinds
      <3>3. answer \in Answers
        BY DEF Answer, Answers, StateNames, CredentialStates, Kinds, StoredKinds
      <3> QED
        BY <3>2, <3>3, DecidesShape
    <2> QED
      BY <2>1, <2>3, <2>4, <2>5, <2>6 DEF AnswersReceived
  <1> QED
    BY <1>2, <1>3

\* A call that opens a thread.
LEMMA StartsShape ==
  ASSUME ExchangeAssumption, NEW a \in Agents, NEW s \in Callers, NEW th \in Threads,
         NEW kind \in StoredKinds, NEW state \in StateNames,
         NEW connected \in {TRUE, ~WithoutConnection},
         StartsExchange(a, s, th, kind, state, connected),
         <<a, kind, state>> \in Starts, ProtocolOf[th] = Family(kind)
  PROVE  Shapes
  <1>1. PICK id \in RecordIds, c \in Contents, option \in AutoOptions :
          FreshId(a, id) /\ Continue(a, s, Started(th, id, kind, state, connected, c, option))
    BY DEF StartsExchange, Started
  <1>2. StartStep(a, s, th, id, kind, state, connected, c, option)
    BY <1>1 DEF StartStep, StartsExchange
  <1>3. option \in AutoModes \cup {None} /\ connected \in BOOLEAN
    BY DEF ExchangeAssumption
  <1>4. CallShapes(a, s, id)
    BY <1>2, <1>3 DEF CallShapes, Starting
  <1> QED
    BY <1>4 DEF Shapes

\* The answers of an application in a credential exchange.
LEMMA CredentialCallShapes ==
  ASSUME ExchangeTypes, ExchangeAssumption, NEW a \in Agents, NEW s \in Callers,
         NEW id \in RecordIds,
         \/ AcceptProposal(a, s, id) \/ NegotiateProposal(a, s, id)
         \/ AcceptOffer(a, s, id)    \/ NegotiateOffer(a, s, id)
         \/ AcceptRequest(a, s, id)  \/ AcceptCredential(a, s, id)
         \/ DeclineOffer(a, s, id)
  PROVE  Shapes
  <1>0. \A state \in StateNames, kind \in Kinds, c \in Contents \cup {None} :
          Answer(state, kind, c) \in Answers
    BY DEF Answer, Answers
  <1>1. \A x \in StoredKinds : Sole(a, id, x) => ContentOf(a, id, x) \in Contents
    BY ReadMessage
  <1>2. CASE AcceptProposal(a, s, id)
    <2> DEFINE answer == Answer("offer-sent", "offer-credential", OfferFor(a, id))
    <2>1. /\ AnswersByHand(a, s, id, "proposal-received", answer)
          /\ Sole(a, id, "propose-credential") /\ OfferFor(a, id) \in Contents
      BY <1>1, <1>2 DEF AcceptProposal, Offers, OfferFor, StoredKinds
    <2>2. KnowsFamily(a, id, answer.kind)
      BY <2>1 DEF KnowsFamily, StoredKinds, Family, Answer
    <2>3. answer \in Answers
      BY <1>0, <2>1 DEF StateNames, CredentialStates, Kinds, StoredKinds
    <2> QED
      BY <2>1, <2>2, <2>3, AnswersShape DEF Answer, RepliesByHand, StoredKinds
  <1>3. CASE NegotiateProposal(a, s, id)
    <2>1. PICK c \in Contents : AnswersByHand(a, s, id, "proposal-received", Offers(c))
      BY <1>3 DEF NegotiateProposal
    <2> DEFINE answer == Answer("offer-sent", "offer-credential", c)
    <2>2. KnowsFamily(a, id, answer.kind)
      BY <1>3 DEF NegotiateProposal, KnowsFamily, Family, Answer
    <2>3. answer \in Answers
      BY <1>0 DEF StateNames, CredentialStates, Kinds, StoredKinds
    <2> QED
      BY <2>1, <2>2, <2>3, AnswersShape DEF Offers, Answer, RepliesByHand, StoredKinds
  <1>4. CASE AcceptOffer(a, s, id)
    <2> DEFINE answer == Answer("request-sent", "request-credential", RequestFor(a, id))
    <2>1. /\ AnswersByHand(a, s, id, "offer-received", answer)
          /\ Sole(a, id, "offer-credential") /\ RequestFor(a, id) \in Contents
      BY <1>1, <1>4 DEF AcceptOffer, AcceptsOffer, RequestFor, StoredKinds
    <2>2. KnowsFamily(a, id, answer.kind)
      BY <2>1 DEF KnowsFamily, StoredKinds, Family, Answer
    <2>3. answer \in Answers
      BY <1>0, <2>1 DEF StateNames, CredentialStates, Kinds, StoredKinds
    <2> QED
      BY <2>1, <2>2, <2>3, AnswersShape DEF Answer, RepliesByHand, StoredKinds
  <1>5. CASE NegotiateOffer(a, s, id)
    <2>1. PICK c \in Contents : AnswersByHand(a, s, id, "offer-received", Proposes(c))
      BY <1>5 DEF NegotiateOffer
    <2> DEFINE answer == Answer("proposal-sent", "propose-credential", c)
    <2>2. KnowsFamily(a, id, answer.kind)
      BY <2>1 DEF AnswersByHand, KnowsFamily
    <2>3. answer \in Answers
      BY <1>0 DEF StateNames, CredentialStates, Kinds, StoredKinds
    <2> QED
      BY <2>1, <2>2, <2>3, AnswersShape DEF Proposes, Answer, RepliesByHand, StoredKinds
  <1>6. CASE AcceptRequest(a, s, id)
    <2> DEFINE answer == Answer("credential-issued", "issue-credential", CredentialFor(a, id))
    <2>1. /\ AnswersByHand(a, s, id, "request-received", answer)
          /\ Sole(a, id, "request-credential") /\ CredentialFor(a, id) \in Contents
      BY <1>1, <1>6 DEF AcceptRequest, AcceptsRequest, CredentialFor, StoredKinds
    <2>2. KnowsFamily(a, id, answer.kind)
      BY <2>1 DEF KnowsFamily, StoredKinds, Family, Answer
    <2>3. answer \in Answers
      BY <1>0, <2>1 DEF StateNames, CredentialStates, Kinds, StoredKinds
    <2> QED
      BY <2>1, <2>2, <2>3, AnswersShape DEF Answer, RepliesByHand, StoredKinds
  <1>7. CASE AcceptCredential(a, s, id)
    <2> DEFINE answer == Answer("done", "credential-ack", None)
    <2>1. AnswersByHand(a, s, id, "credential-received", answer)
      BY <1>7 DEF AcceptCredential, AcceptsCredential
    <2>2. KnowsFamily(a, id, answer.kind)
      BY <2>1 DEF AnswersByHand, KnowsFamily
    <2>3. answer \in Answers
      BY <1>0 DEF StateNames, CredentialStates, Kinds, StoredKinds
    <2> QED
      BY <2>1, <2>2, <2>3, AnswersShape DEF Answer, RepliesByHand, StoredKinds
  <1>8. CASE DeclineOffer(a, s, id)
    <2>1. DeclineStep(a, s, id)
      BY <1>8 DEF DeclineOffer, DeclineStep, Updates
    <2> QED
      BY <2>1 DEF CallShapes, Shapes
  <1> QED
    BY <1>2, <1>3, <1>4, <1>5, <1>6, <1>7, <1>8

LEMMA CredentialShapes ==
  ASSUME ExchangeTypes, ExchangeAssumption, CredentialNext
  PROVE  Shapes
  <1>1. CASE \E a \in Agents, h \in Handlers, m \in net :
               \/ ReceiveProposal(a, h, m)   \/ ReceiveOffer(a, h, m)
               \/ ReceiveRequest(a, h, m)    \/ ReceiveCredential(a, h, m)
               \/ ReceiveCredentialAck(a, h, m)
    BY <1>1, CredentialReceiptShapes
  <1>2. CASE \E a \in Agents, h \in Handlers : StoreCredential(a, h)
    BY <1>2 DEF Shapes
  <1>3. CASE \E a \in Agents, h \in Handlers : DecideCredential(a, h)
    BY <1>3, DecideCredentialShape
  <1>4. CASE \E s \in Callers, th \in Threads : ProposeCredential(s, th)
    <2>1. PICK s \in Callers, th \in Threads : ProposeCredential(s, th)
      BY <1>4
    <2>2. /\ StartsExchange(Holder, s, th, "propose-credential", "proposal-sent", TRUE)
          /\ ProtocolOf[th] = Family("propose-credential")
      BY <2>1 DEF ProposeCredential, Family
    <2>3. Holder \in Agents /\ "propose-credential" \in StoredKinds /\ "proposal-sent" \in StateNames
          /\ <<Holder, "propose-credential", "proposal-sent">> \in Starts
      BY DEF Agents, StoredKinds, StateNames, CredentialStates, Starts
    <2> QED
      BY <2>2, <2>3, StartsShape
  <1>5. CASE \E s \in Callers, th \in Threads : OfferCredential(s, th)
    <2>1. PICK s \in Callers, th \in Threads : OfferCredential(s, th)
      BY <1>5
    <2>2. PICK connected \in {TRUE, ~WithoutConnection} :
             /\ StartsExchange(Authority, s, th, "offer-credential", "offer-sent", connected)
             /\ ProtocolOf[th] = Family("offer-credential")
      BY <2>1 DEF OfferCredential, Family
    <2>3. Authority \in Agents /\ "offer-credential" \in StoredKinds /\ "offer-sent" \in StateNames
          /\ <<Authority, "offer-credential", "offer-sent">> \in Starts
      BY DEF Agents, StoredKinds, StateNames, CredentialStates, Starts
    <2> QED
      BY <2>2, <2>3, StartsShape
  <1>6. CASE \E a \in Agents, s \in Callers, id \in RecordIds :
               \/ AcceptProposal(a, s, id) \/ NegotiateProposal(a, s, id)
               \/ AcceptOffer(a, s, id)    \/ NegotiateOffer(a, s, id)
               \/ AcceptRequest(a, s, id)  \/ AcceptCredential(a, s, id)
               \/ DeclineOffer(a, s, id)
    BY <1>6, CredentialCallShapes
  <1> QED
    BY <1>1, <1>2, <1>3, <1>4, <1>5, <1>6 DEF CredentialNext

\* A presentation that is compared with the request.
LEMMA PresentationShape ==
  ASSUME ExchangeTypes, NEW a \in Agents, NEW h \in Handlers, NEW m \in net,
         ReceivePresentation(a, h, m)
  PROVE  Shapes
  <1>1. /\ Delivers(a, h, m, m.kind) /\ m.kind = "presentation"
        /\ UNCHANGED <<exchanges, stored, wallet, opened>>
    BY DEF ReceivePresentation, Delivers
  <1>2. PICK id \in Matching(a, m.thread), verdict \in BOOLEAN, before \in AwaitsPresentation :
          /\ id \in Expected(a, m, before)
          /\ Sole(a, id, "request-presentation")
          /\ verdict \in Verdicts(a, id, m.content)
          /\ Continue(a, h, [pc |-> "saveReceived", id |-> id, new |-> FALSE,
                             ex |-> [exchanges[a][id] EXCEPT !.state = "presentation-received",
                                                             !.verified = verdict],
                             kind |-> m.kind, content |-> m.content,
                             found |-> Len(stored[a][id]["presentation"])])
    BY DEF ReceivePresentation
  <1>3. /\ Matching(a, m.thread) = {id} /\ id \in RecordIds
        /\ exchanges[a][id].state = "request-sent"
    BY <1>2 DEF Expected, Matching, AwaitsPresentation
  <1>4. Saved(a, id, m.kind) = Len(stored[a][id]["presentation"])
    BY <1>1 DEF Saved, StoredKinds
  <1>5. Continue(a, h, Resumed(a, m, id, "presentation-received", "saveReceived", verdict))
    BY <1>2, <1>4 DEF Resumed
  <1>6. Compared(a, m, id, verdict)
    BY <1>1, <1>2 DEF Compared, Verdicts
  <1>7. ResumeStep(a, h, m, id, "presentation-received", "saveReceived", verdict)
    BY <1>1, <1>3, <1>5, <1>6 DEF ResumeStep, Resumptions
  <1>8. "presentation-received" \in StateNames /\ "saveReceived" \in Steps
    BY DEF StateNames, ProofStates, Steps
  <1>9. Receipts(a, h, m, id)
    BY <1>7, <1>8 DEF Receipts, Resuming
  <1> QED
    BY <1>3, <1>9 DEF Shapes

LEMMA ProofReceiptShapes ==
  ASSUME ExchangeTypes, NEW a \in Agents, NEW h \in Handlers, NEW m \in net,
         \/ ReceiveProofProposal(a, h, m) \/ ReceiveProofRequest(a, h, m)
         \/ ReceivePresentation(a, h, m)  \/ ReceivePresentationAck(a, h, m)
  PROVE  Shapes
  <1>1. CASE ReceiveProofProposal(a, h, m)
    <2>1. Delivers(a, h, m, m.kind) /\ m.kind = "propose-presentation"
          /\ UNCHANGED <<exchanges, stored, wallet, opened>>
      BY <1>1 DEF ReceiveProofProposal, Delivers
    <2>2. CASE Opens(a, h, m, "proposal-received")
      BY <2>1, <2>2, OpensShape DEF Openings
    <2>3. CASE Resumes(a, h, m, "request-sent", "proposal-received", "saveReceived")
      BY <2>1, <2>3, ResumesShape DEF Resumptions
    <2> QED
      BY <1>1, <2>2, <2>3 DEF ReceiveProofProposal
  <1>2. CASE ReceiveProofRequest(a, h, m)
    <2>1. Delivers(a, h, m, m.kind) /\ m.kind = "request-presentation"
          /\ UNCHANGED <<exchanges, stored, wallet, opened>>
      BY <1>2 DEF ReceiveProofRequest, Delivers
    <2>2. CASE Opens(a, h, m, "request-received")
      BY <2>1, <2>2, OpensShape DEF Openings
    <2>3. CASE Resumes(a, h, m, "proposal-sent", "request-received", "saveReceived")
      BY <2>1, <2>3, ResumesShape DEF Resumptions
    <2> QED
      BY <1>2, <2>2, <2>3 DEF ReceiveProofRequest
  <1>3. CASE ReceivePresentationAck(a, h, m)
    <2>1. Delivers(a, h, m, m.kind) /\ m.kind = "presentation-ack"
          /\ UNCHANGED <<exchanges, stored, wallet, opened>>
          /\ Resumes(a, h, m, "presentation-sent", "done", "updateReceived")
      BY <1>3 DEF ReceivePresentationAck, Delivers
    <2> QED
      BY <2>1, ResumesShape DEF Resumptions
  <1> QED
    BY <1>1, <1>2, <1>3, PresentationShape

LEMMA DecideProofShape ==
  ASSUME ExchangeTypes, NEW a \in Agents, NEW h \in Handlers, DecideProof(a, h)
  PROVE  Shapes
  <1> DEFINE k == tasks[a][h]
  <1>0. h \in Slots /\ At(a, h, "decide") /\ UNCHANGED <<exchanges, stored, wallet, opened, net>>
    BY DEF DecideProof, Slots
  <1>1. k.id \in RecordIds /\ k.kind \in StoredKinds
    BY <1>0 DEF ExchangeTypes, TypedTask, At
  <1>2. PICK reply \in ProofAnswers(a, k) :
          IF reply /\ Sole(a, k.id, k.kind) THEN AnswersProof(a, h) ELSE Finish(a, h)
    BY DEF DecideProof
  <1>3. CASE ~(reply /\ Sole(a, k.id, k.kind))
    BY <1>0, <1>2, <1>3, StopShape
  <1>4. CASE reply /\ Sole(a, k.id, k.kind)
    <2>1. AnswersProof(a, h)
      BY <1>2, <1>4
    <2> DEFINE c == ContentOf(a, k.id, k.kind)
    <2>2. c \in Contents
      BY <1>1, <1>4, ReadMessage
    <2>a. \A state \in StateNames, kind \in Kinds, d \in Contents \cup {None} :
            Answer(state, kind, d) \in Answers
      BY DEF Answer, Answers
    <2>3. CASE k.kind = "propose-presentation"
      <3> DEFINE answer == Answer("request-sent", "request-presentation", c)
      <3>1. AnswersNext(a, h, answer)
        BY <2>1, <2>3 DEF AnswersProof, AcceptsProofProposal, ProofRequestFor
      <3>2. Mode(a, k.ex) = "contentApproved" => Equal(a, k, "request-presentation")
        BY <1>2, <1>4, <2>3 DEF ProofAnswers, ComparedWith
      <3>3. DecideStep(a, h, answer)
        BY <1>0, <1>4, <2>3, <3>1, <3>2 DEF DecideStep, Replies, Answer, StoredKinds, AgreedBefore
      <3>4. answer \in Answers
        BY <2>2, <2>a DEF StateNames, ProofStates, Kinds, StoredKinds
      <3> QED
        BY <3>3, <3>4, DecidesShape
    <2>4. CASE k.kind = "request-presentation"
      <3> DEFINE answer == Answer("presentation-sent", "presentation", c)
      <3>1. AnswersNext(a, h, answer)
        BY <2>1, <2>4 DEF AnswersProof, Presents, PresentationFor
      <3>2. Mode(a, k.ex) = "contentApproved" => Equal(a, k, "propose-presentation")
        BY <1>2, <1>4, <2>4 DEF ProofAnswers, ComparedWith
      <3>3. DecideStep(a, h, answer)
        BY <1>0, <1>4, <2>4, <3>1, <3>2 DEF DecideStep, Replies, Answer, StoredKinds, AgreedBefore
      <3>4. answer \in Answers
        BY <2>2, <2>a DEF StateNames, ProofStates, Kinds, StoredKinds
      <3> QED
        BY <3>3, <3>4, DecidesShape
    <2>5. CASE k.kind = "presentation"
      <3> DEFINE answer == Answer("done", "presentation-ack", None)
      <3>1. AnswersNext(a, h, answer)
        BY <2>1, <2>5 DEF AnswersProof, AcceptsPresentation
      <3>2. DecideStep(a, h, answer)
        BY <1>0, <1>4, <2>5, <3>1 DEF DecideStep, Replies, Answer, StoredKinds
      <3>3. answer \in Answers
        BY <2>a DEF StateNames, ProofStates, Kinds, StoredKinds
      <3> QED
        BY <3>2, <3>3, DecidesShape
    <2> QED
      BY <2>1, <2>3, <2>4, <2>5 DEF AnswersProof
  <1> QED
    BY <1>3, <1>4

\* The answers of an application in a proof exchange.
LEMMA ProofCallShapes ==
  ASSUME ExchangeTypes, ExchangeAssumption, NEW a \in Agents, NEW s \in Callers,
         NEW id \in RecordIds,
         \/ AcceptProofProposal(a, s, id) \/ NegotiateProofProposal(a, s, id)
         \/ AcceptProofRequest(a, s, id)  \/ NegotiateProofRequest(a, s, id)
         \/ AcceptPresentation(a, s, id)  \/ DeclineRequest(a, s, id)
  PROVE  Shapes
  <1>0. \A state \in StateNames, kind \in Kinds, c \in Contents \cup {None} :
          Answer(state, kind, c) \in Answers
    BY DEF Answer, Answers
  <1>1. \A x \in StoredKinds : Sole(a, id, x) => ContentOf(a, id, x) \in Contents
    BY ReadMessage
  <1>2. CASE AcceptProofProposal(a, s, id)
    <2> DEFINE answer == Answer("request-sent", "request-presentation", ProofRequestFor(a, id))
    <2>1. /\ AnswersByHand(a, s, id, "proposal-received", answer)
          /\ Sole(a, id, "propose-presentation") /\ ProofRequestFor(a, id) \in Contents
      BY <1>1, <1>2 DEF AcceptProofProposal, AcceptsProofProposal, ProofRequestFor, StoredKinds
    <2>2. KnowsFamily(a, id, answer.kind)
      BY <2>1 DEF KnowsFamily, StoredKinds, Family, Answer
    <2>3. answer \in Answers
      BY <1>0, <2>1 DEF StateNames, ProofStates, Kinds, StoredKinds
    <2> QED
      BY <2>1, <2>2, <2>3, AnswersShape DEF Answer, RepliesByHand, StoredKinds
  <1>3. CASE NegotiateProofProposal(a, s, id)
    <2>1. PICK c \in Contents : AnswersByHand(a, s, id, "proposal-received", RequestsProof(c))
      BY <1>3 DEF NegotiateProofProposal
    <2> DEFINE answer == Answer("request-sent", "request-presentation", c)
    <2>2. KnowsFamily(a, id, answer.kind)
      BY <1>3 DEF NegotiateProofProposal, KnowsFamily, Family, Answer
    <2>3. answer \in Answers
      BY <1>0 DEF StateNames, ProofStates, Kinds, StoredKinds
    <2> QED
      BY <2>1, <2>2, <2>3, AnswersShape DEF RequestsProof, Answer, RepliesByHand, StoredKinds
  <1>4. CASE AcceptProofRequest(a, s, id)
    <2>1. PICK c \in Contents : AnswersByHand(a, s, id, "request-received", Presents(c))
      BY <1>4 DEF AcceptProofRequest
    <2> DEFINE answer == Answer("presentation-sent", "presentation", c)
    <2>2. KnowsFamily(a, id, answer.kind)
      BY <1>4 DEF AcceptProofRequest, KnowsFamily, StoredKinds, Family, Answer
    <2>3. answer \in Answers
      BY <1>0 DEF StateNames, ProofStates, Kinds, StoredKinds
    <2> QED
      BY <2>1, <2>2, <2>3, AnswersShape DEF Presents, Answer, RepliesByHand, StoredKinds
  <1>5. CASE NegotiateProofRequest(a, s, id)
    <2>1. PICK c \in Contents : AnswersByHand(a, s, id, "request-received", ProposesProof(c))
      BY <1>5 DEF NegotiateProofRequest
    <2> DEFINE answer == Answer("proposal-sent", "propose-presentation", c)
    <2>2. KnowsFamily(a, id, answer.kind)
      BY <1>5 DEF NegotiateProofRequest, KnowsFamily, Family, Answer
    <2>3. answer \in Answers
      BY <1>0 DEF StateNames, ProofStates, Kinds, StoredKinds
    <2> QED
      BY <2>1, <2>2, <2>3, AnswersShape DEF ProposesProof, Answer, RepliesByHand, StoredKinds
  <1>6. CASE AcceptPresentation(a, s, id)
    <2> DEFINE answer == Answer("done", "presentation-ack", None)
    <2>1. AnswersByHand(a, s, id, "presentation-received", answer) /\ Sole(a, id, "presentation")
      BY <1>6 DEF AcceptPresentation, AcceptsPresentation
    <2>2. KnowsFamily(a, id, answer.kind)
      BY <2>1 DEF KnowsFamily, StoredKinds, Family, Answer
    <2>3. answer \in Answers
      BY <1>0 DEF StateNames, ProofStates, Kinds, StoredKinds
    <2> QED
      BY <2>1, <2>2, <2>3, AnswersShape DEF Answer, RepliesByHand, StoredKinds
  <1>7. CASE DeclineRequest(a, s, id)
    <2>1. DeclineStep(a, s, id)
      BY <1>7 DEF DeclineRequest, DeclineStep, Updates, Reports, Report
    <2> QED
      BY <2>1 DEF CallShapes, Shapes
  <1> QED
    BY <1>2, <1>3, <1>4, <1>5, <1>6, <1>7

LEMMA ProofShapes ==
  ASSUME ExchangeTypes, ExchangeAssumption, ProofNext
  PROVE  Shapes
  <1>1. CASE \E a \in Agents, h \in Handlers, m \in net :
               \/ ReceiveProofProposal(a, h, m) \/ ReceiveProofRequest(a, h, m)
               \/ ReceivePresentation(a, h, m)  \/ ReceivePresentationAck(a, h, m)
    BY <1>1, ProofReceiptShapes
  <1>2. CASE \E a \in Agents, h \in Handlers : DecideProof(a, h)
    BY <1>2, DecideProofShape
  <1>3. CASE \E s \in Callers, th \in Threads : ProposeProof(s, th)
    <2>1. PICK s \in Callers, th \in Threads : ProposeProof(s, th)
      BY <1>3
    <2>2. /\ StartsExchange(Holder, s, th, "propose-presentation", "proposal-sent", TRUE)
          /\ ProtocolOf[th] = Family("propose-presentation")
      BY <2>1 DEF ProposeProof, Family
    <2>3. Holder \in Agents /\ "propose-presentation" \in StoredKinds /\ "proposal-sent" \in StateNames
          /\ <<Holder, "propose-presentation", "proposal-sent">> \in Starts
      BY DEF Agents, StoredKinds, StateNames, ProofStates, Starts
    <2> QED
      BY <2>2, <2>3, StartsShape
  <1>4. CASE \E s \in Callers, th \in Threads : RequestProof(s, th)
    <2>1. PICK s \in Callers, th \in Threads : RequestProof(s, th)
      BY <1>4
    <2>2. /\ StartsExchange(Authority, s, th, "request-presentation", "request-sent", TRUE)
          /\ ProtocolOf[th] = Family("request-presentation")
      BY <2>1 DEF RequestProof, Family
    <2>3. Authority \in Agents /\ "request-presentation" \in StoredKinds /\ "request-sent" \in StateNames
          /\ <<Authority, "request-presentation", "request-sent">> \in Starts
      BY DEF Agents, StoredKinds, StateNames, ProofStates, Starts
    <2> QED
      BY <2>2, <2>3, StartsShape
  <1>5. CASE \E a \in Agents, s \in Callers, id \in RecordIds :
               \/ AcceptProofProposal(a, s, id) \/ NegotiateProofProposal(a, s, id)
               \/ AcceptProofRequest(a, s, id)  \/ NegotiateProofRequest(a, s, id)
               \/ AcceptPresentation(a, s, id)  \/ DeclineRequest(a, s, id)
    BY <1>5, ProofCallShapes
  <1> QED
    BY <1>1, <1>2, <1>3, <1>4, <1>5 DEF ProofNext

\* The writes.
LEMMA WriteShapes ==
  ASSUME NEW a \in Agents, NEW t \in Slots,
         \/ SaveReceived(a, t)   \/ UpdateReceived(a, t) \/ SaveResponse(a, t)
         \/ UpdateResponse(a, t) \/ SendResponse(a, t)   \/ UpdateOnly(a, t)
         \/ DeleteMessages(a, t)
  PROVE  Shapes
  <1> DEFINE k == tasks[a][t]
  <1>0. SUFFICES TaskShapes(a, t)
    BY DEF Shapes
  <1>1. CASE SaveReceived(a, t)
    <2>1. CASE SaveFails(a, k)
      BY <1>1, <2>1 DEF SaveReceived, Stop, TaskShapes
    <2>2. CASE ~SaveFails(a, k)
      <3>1. SaveStep(a, t)
        BY <1>1, <2>2 DEF SaveReceived, SaveStep, At
      <3> QED
        BY <3>1 DEF TaskShapes
    <2> QED
      BY <2>1, <2>2
  <1>2. CASE SaveResponse(a, t)
    <2>1. CASE SaveFails(a, k)
      BY <1>2, <2>1 DEF SaveResponse, Stop, TaskShapes
    <2>2. CASE ~SaveFails(a, k)
      <3>1. SaveStep(a, t)
        BY <1>2, <2>2 DEF SaveResponse, SaveStep, At
      <3> QED
        BY <3>1 DEF TaskShapes
    <2> QED
      BY <2>1, <2>2
  <1>3. CASE UpdateReceived(a, t)
    <2>1. CASE UpdateFails(a, k)
      BY <1>3, <2>1 DEF UpdateReceived, Stop, TaskShapes
    <2>2. CASE ~UpdateFails(a, k)
      <3>1. Continue(a, t, AfterUpdate(k)) /\ SaveExchange(a, k) /\ k.pc = "updateReceived"
        BY <1>3, <2>2 DEF UpdateReceived, AfterUpdate, At
      <3>2. UpdateStep(a, t)
        BY <1>3, <2>2, <3>1 DEF UpdateReceived, UpdateStep
      <3> QED
        BY <3>2 DEF TaskShapes
    <2> QED
      BY <2>1, <2>2
  <1>4. CASE UpdateResponse(a, t)
    <2>1. CASE UpdateFails(a, k)
      BY <1>4, <2>1 DEF UpdateResponse, Stop, TaskShapes
    <2>2. CASE ~UpdateFails(a, k)
      <3>1. Continue(a, t, AfterUpdate(k)) /\ SaveExchange(a, k) /\ k.pc = "updateResponse"
        BY <1>4, <2>2 DEF UpdateResponse, AfterUpdate, At
      <3>2. UpdateStep(a, t)
        BY <1>4, <2>2, <3>1 DEF UpdateResponse, UpdateStep
      <3> QED
        BY <3>2 DEF TaskShapes
    <2> QED
      BY <2>1, <2>2
  <1>5. CASE UpdateOnly(a, t)
    <2>1. CASE UpdateFails(a, k)
      BY <1>5, <2>1 DEF UpdateOnly, Stop, TaskShapes
    <2>2. CASE ~UpdateFails(a, k)
      <3>1. Continue(a, t, AfterUpdate(k)) /\ SaveExchange(a, k) /\ k.pc = "updateOnly"
        BY <1>5, <2>2 DEF UpdateOnly, AfterUpdate, At, Finish
      <3>2. UpdateStep(a, t)
        BY <1>5, <2>2, <3>1 DEF UpdateOnly, UpdateStep
      <3> QED
        BY <3>2 DEF TaskShapes
    <2> QED
      BY <2>1, <2>2
  <1>6. CASE SendResponse(a, t)
    BY <1>6 DEF TaskShapes
  <1>7. CASE DeleteMessages(a, t)
    <2> DEFINE left == {x \in StoredKinds : stored[a][k.id][x] # <<>>}
    <2>1. CASE left = {}
      BY <1>7, <2>1 DEF DeleteMessages, Stop, TaskShapes
    <2>2. CASE left # {}
      <3>1. PICK x \in left :
              stored' = [stored EXCEPT ![a][k.id][x] = Tail(@)]
        BY <1>7, <2>2 DEF DeleteMessages
      <3>2. DeleteStep(a, t, x)
        BY <1>7, <2>2, <3>1 DEF DeleteMessages, DeleteStep
      <3> QED
        BY <3>1, <3>2 DEF TaskShapes
    <2> QED
      BY <2>1, <2>2
  <1> QED
    BY <1>1, <1>2, <1>3, <1>4, <1>5, <1>6, <1>7

LEMMA StepShapes ==
  ASSUME ExchangeTypes, ExchangeAssumption, Next
  PROVE  Shapes
  <1>1. CASE WriteNext
    BY <1>1, WriteShapes DEF WriteNext
  <1>2. CASE \E a \in Agents, s \in Callers, id \in RecordIds : SendProblemReport(a, s, id)
    <2>1. PICK a \in Agents, s \in Callers, id \in RecordIds : SendProblemReport(a, s, id)
      BY <1>2
    <2>2. ReportStep(a, id)
      BY <2>1 DEF SendProblemReport, ReportStep, Reports, Report
    <2> QED
      BY <2>2 DEF CallShapes, Shapes
  <1>3. CASE \E a \in Agents, s \in Callers, id \in RecordIds : DeleteExchange(a, s, id)
    <2>1. PICK a \in Agents, s \in Callers, id \in RecordIds : DeleteExchange(a, s, id)
      BY <1>3
    <2>2. RemoveStep(a, s, id)
      BY <2>1 DEF DeleteExchange, RemoveStep
    <2> QED
      BY <2>2 DEF CallShapes, Shapes
  <1>4. CASE \E a \in Agents, h \in Handlers, m \in net : ReceiveProblemReport(a, h, m)
    <2>1. PICK a \in Agents, h \in Handlers, m \in net : ReceiveProblemReport(a, h, m)
      BY <1>4
    <2>2. PICK id \in RecordIds : AbandonStep(a, h, m, id)
      BY <2>1 DEF ReceiveProblemReport, AbandonStep, Updates
    <2> QED
      BY <2>2 DEF Receipts, Shapes
  <1>5. CASE \E a \in Agents : Crash(a)
    BY <1>5 DEF Shapes
  <1> QED
    BY <1>1, <1>2, <1>3, <1>4, <1>5, CredentialShapes, ProofShapes DEF Next

-------------------------------------------------------------------------------
(* Types hold. *)

\* What the other tasks do while one goes on.
LEMMA Continued ==
  ASSUME ExchangeTypes, NEW a \in Agents, NEW t \in Slots, NEW task, Continue(a, t, task)
  PROVE  /\ tasks'[a][t] = task
         /\ \A b \in Agents, u \in Slots : <<b, u>> # <<a, t>> => tasks'[b][u] = tasks[b][u]
  BY DEF ExchangeTypes, TypeOK, Continue

LEMMA ContinuedTypes ==
  ASSUME ExchangeTypes, NEW a \in Agents, NEW t \in Slots, NEW task \in TaskType,
         TypedTask(task), Continue(a, t, task)
  PROVE  /\ tasks' \in [Agents -> [Slots -> TaskType]]
         /\ \A b \in Agents, u \in Slots : TypedTask(tasks'[b][u])
  <1>1. tasks \in [Agents -> [Slots -> TaskType]]
    BY DEF ExchangeTypes, TypeOK
  <1>2. tasks' = [tasks EXCEPT ![a] = [tasks[a] EXCEPT ![t] = task]]
    BY <1>1 DEF Continue
  <1>3. [tasks[a] EXCEPT ![t] = task] \in [Slots -> TaskType]
    BY <1>1
  <1>4. tasks' \in [Agents -> [Slots -> TaskType]]
    BY <1>1, <1>2, <1>3
  <1>5. ASSUME NEW b \in Agents, NEW u \in Slots PROVE TypedTask(tasks'[b][u])
    <2>1. CASE b = a /\ u = t
      BY <2>1, Continued
    <2>2. CASE <<b, u>> # <<a, t>>
      BY <2>2, Continued DEF ExchangeTypes
    <2> QED
      BY <2>1, <2>2
  <1> QED
    BY <1>4, <1>5

LEMMA IdleTyped == Idle \in TaskType /\ TypedTask(Idle)
  BY DEF Idle, TaskType, TypedTask, Steps

\* The types of what a step leaves alone.
LEMMA SameTypes ==
  ASSUME ExchangeTypes
  PROVE  /\ UNCHANGED exchanges => (exchanges \in [Agents -> [RecordIds -> ExchangeRecordType \cup {None}]])'
         /\ UNCHANGED stored => (stored \in [Agents -> [RecordIds -> [StoredKinds -> Seq(Contents)]]])'
         /\ UNCHANGED wallet => (wallet \in [Agents -> Seq(Contents)])'
         /\ UNCHANGED opened => (opened \subseteq Threads)'
         /\ net' \subseteq net => (/\ net \subseteq MessageType
                                   /\ \A m \in net : m.kind \in StoredKinds => m.content \in Contents)'
         /\ UNCHANGED tasks => (/\ tasks \in [Agents -> [Slots -> TaskType]]
                                /\ \A a \in Agents, t \in Slots : TypedTask(tasks[a][t]))'
  BY DEF ExchangeTypes, TypeOK

\* A step that takes or continues one task, and takes at most a message.
LEMMA TaskAloneTypes ==
  ASSUME ExchangeTypes, NEW a \in Agents, NEW t \in Slots, NEW task \in TaskType,
         TypedTask(task), Continue(a, t, task), net' \subseteq net,
         UNCHANGED <<exchanges, stored, wallet, opened>>
  PROVE  ExchangeTypes'
  <1>1. /\ tasks' \in [Agents -> [Slots -> TaskType]]
        /\ \A b \in Agents, u \in Slots : TypedTask(tasks'[b][u])
    BY ContinuedTypes
  <1> QED
    BY <1>1, SameTypes DEF ExchangeTypes, TypeOK

LEMMA DeliveredTypes ==
  ASSUME ExchangeTypes, NEW a \in Agents, NEW h \in Handlers, NEW m \in net, NEW k,
         Delivers(a, h, m, k)
  PROVE  /\ net' \subseteq net /\ h \in Slots /\ m \in MessageType /\ m.kind = k
         /\ m.kind \in StoredKinds => m.content \in Contents
         /\ tasks[a][h].pc = "idle"
  BY DEF Delivers, Consume, Slots, ExchangeTypes, TypeOK, At

LEMMA NewExchangeType ==
  ASSUME NEW th \in Threads, NEW connected \in BOOLEAN, NEW state \in StateNames,
         NEW auto \in AutoModes \cup {None}
  PROVE  NewExchange(th, connected, state, auto) \in ExchangeRecordType
  BY DEF NewExchange, ExchangeRecordType, StateNames

LEMMA OpeningTypes ==
  ASSUME ExchangeTypes, NEW a \in Agents, NEW h \in Handlers, NEW m \in net,
         NEW id \in RecordIds, Opening(a, h, m, id)
  PROVE  ExchangeTypes'
  <1>1. PICK state \in StateNames : OpenStep(a, h, m, id, state)
    BY DEF Opening
  <1>2. /\ net' \subseteq net /\ h \in Slots /\ m \in MessageType
        /\ m.kind \in StoredKinds => m.content \in Contents
    BY <1>1, DeliveredTypes DEF OpenStep
  <1>3. m.kind \in StoredKinds
    BY <1>1 DEF OpenStep, Openings, StoredKinds
  <1> DEFINE task == Opened(m, id, state)
             ex == NewExchange(m.thread, TRUE, state, None)
  <1>4. ex \in ExchangeRecordType
    BY <1>2, NewExchangeType DEF MessageType
  <1> HIDE DEF ex
  <1>5. /\ task = [pc |-> "saveReceived", id |-> id, new |-> TRUE, found |-> 0,
                   ex |-> ex, kind |-> m.kind, content |-> m.content]
    BY DEF Opened, ex
  <1>6. task \in TaskType /\ TypedTask(task)
    BY <1>2, <1>3, <1>4, <1>5 DEF TaskType, TypedTask, Steps, Kinds
  <1> QED
    BY <1>1, <1>2, <1>6, TaskAloneTypes DEF OpenStep

LEMMA ResumingTypes ==
  ASSUME ExchangeTypes, NEW a \in Agents, NEW h \in Handlers, NEW m \in net,
         NEW id \in RecordIds, Resuming(a, h, m, id)
  PROVE  ExchangeTypes'
  <1>1. PICK after \in StateNames, pc \in Steps, verdict \in BOOLEAN \cup {None} :
          ResumeStep(a, h, m, id, after, pc, verdict)
    BY DEF Resuming
  <1>2. /\ net' \subseteq net /\ h \in Slots /\ m \in MessageType
        /\ m.kind \in StoredKinds => m.content \in Contents
    BY <1>1, DeliveredTypes DEF ResumeStep
  <1>3. /\ m.kind \in Kinds /\ pc \in {"saveReceived", "storeCredential", "updateReceived"}
        /\ pc # "updateReceived" => m.kind \in StoredKinds
    BY <1>1, <1>2 DEF ResumeStep, Resumptions, StoredKinds, MessageType
  <1>4. exchanges[a][id] \in ExchangeRecordType
    BY <1>1, MatchingExists, ReadExchange DEF ResumeStep
  <1> DEFINE task == Resumed(a, m, id, after, pc, verdict)
             ex == [exchanges[a][id] EXCEPT !.state = after, !.verified = verdict]
  <1>5. ex \in ExchangeRecordType
    BY <1>4 DEF ExchangeRecordType, StateNames
  <1>6. Saved(a, id, m.kind) \in Nat
    <2>1. CASE m.kind \in StoredKinds
      BY <2>1, ReadMessage
    <2>2. CASE m.kind \notin StoredKinds
      BY <2>2 DEF Saved
    <2> QED
      BY <2>1, <2>2
  <1> HIDE DEF ex
  <1>7. task = [pc |-> pc, id |-> id, new |-> FALSE, found |-> Saved(a, id, m.kind),
                ex |-> ex, kind |-> m.kind, content |-> m.content]
    BY DEF Resumed, ex
  <1>8. task \in TaskType /\ TypedTask(task)
    BY <1>2, <1>3, <1>5, <1>6, <1>7 DEF TaskType, TypedTask, MessageType
  <1> QED
    BY <1>1, <1>2, <1>8, TaskAloneTypes DEF ResumeStep

\* Declined or abandoned.
UpdateTask(id, ex) == [Idle EXCEPT !.pc = "updateOnly", !.id = id, !.ex = ex]

LEMMA UpdatesRecord ==
  ASSUME NEW id \in RecordIds, NEW ex \in ExchangeRecordType
  PROVE  /\ UpdateTask(id, ex) \in TaskType
         /\ UpdateTask(id, ex).pc = "updateOnly" /\ UpdateTask(id, ex).id = id
         /\ UpdateTask(id, ex).ex = ex /\ UpdateTask(id, ex).new = FALSE
         /\ UpdateTask(id, ex).kind = None /\ UpdateTask(id, ex).content = None
         /\ UpdateTask(id, ex).found = 0
  <1>1. Idle \in TaskType /\ Idle.new = FALSE /\ Idle.kind = None /\ Idle.content = None
        /\ Idle.found = 0 /\ "updateOnly" \in Steps
    BY IdleTyped DEF Idle, Steps
  <1> QED
    BY <1>1 DEF TaskType, UpdateTask

LEMMA UpdatesTyped ==
  ASSUME ExchangeTypes, NEW a \in Agents, NEW id \in RecordIds, exchanges[a][id] # None,
         NEW state \in StateNames
  PROVE  Updates(a, id, state) \in TaskType /\ TypedTask(Updates(a, id, state))
  <1> DEFINE ex == [exchanges[a][id] EXCEPT !.state = state]
  <1>1. exchanges[a][id] \in ExchangeRecordType
    BY ReadExchange
  <1>2. ex \in ExchangeRecordType
    BY <1>1 DEF ExchangeRecordType, StateNames
  <1>3. Updates(a, id, state) = UpdateTask(id, ex)
    BY DEF Updates, UpdateTask
  <1> HIDE DEF ex
  <1>4. /\ UpdateTask(id, ex) \in TaskType /\ UpdateTask(id, ex).pc = "updateOnly"
        /\ UpdateTask(id, ex).id = id /\ UpdateTask(id, ex).ex = ex
    BY <1>2, UpdatesRecord
  <1>5. TypedTask(UpdateTask(id, ex))
    BY <1>2, <1>4 DEF TypedTask
  <1> QED
    BY <1>3, <1>4, <1>5

LEMMA AbandonTypes ==
  ASSUME ExchangeTypes, NEW a \in Agents, NEW h \in Handlers, NEW m \in net,
         NEW id \in RecordIds, AbandonStep(a, h, m, id)
  PROVE  ExchangeTypes'
  <1>1. net' \subseteq net /\ h \in Slots
    BY DeliveredTypes DEF AbandonStep
  <1>2. Matching(a, m.thread) = {id}
    BY DEF AbandonStep
  <1>4. exchanges[a][id] # None
    BY <1>2, MatchingExists
  <1>3. "abandoned" \in StateNames
    BY DEF StateNames, CredentialStates
  <1> QED
    BY <1>1, <1>3, <1>4, UpdatesTyped, TaskAloneTypes DEF AbandonStep

\* The other agent of two.
LEMMA PeerIsAgent ==
  ASSUME ExchangeAssumption, NEW a \in Agents
  PROVE  Peer(a) \in Agents /\ Peer(a) # a
  <1>1. \E b \in Agents : b # a
    BY DEF ExchangeAssumption, Agents
  <1> QED
    BY <1>1 DEF Peer

LEMMA ReportType ==
  ASSUME ExchangeTypes, ExchangeAssumption, NEW a \in Agents, NEW id \in RecordIds,
         exchanges[a][id] # None
  PROVE  Report(a, id) \in MessageType /\ Report(a, id).kind \notin StoredKinds
  <1>1. exchanges[a][id].thread \in Threads
    BY ReadExchange DEF ExchangeRecordType
  <1> QED
    BY <1>1, PeerIsAgent DEF Report, MessageType, Kinds, StoredKinds

LEMMA DeclineTypes ==
  ASSUME ExchangeTypes, ExchangeAssumption, NEW a \in Agents, NEW s \in Callers,
         NEW id \in RecordIds, DeclineStep(a, s, id)
  PROVE  ExchangeTypes'
  <1>1. s \in Slots /\ exchanges[a][id] # None /\ "declined" \in StateNames
    BY DEF DeclineStep, Slots, StateNames, CredentialStates
  <1>2. (/\ net \subseteq MessageType
         /\ \A m \in net : m.kind \in StoredKinds => m.content \in Contents)'
    BY <1>1, ReportType DEF DeclineStep, ExchangeTypes, TypeOK
  <1>3. /\ tasks' \in [Agents -> [Slots -> TaskType]]
        /\ \A b \in Agents, u \in Slots : TypedTask(tasks'[b][u])
    BY <1>1, UpdatesTyped, ContinuedTypes DEF DeclineStep
  <1> QED
    BY <1>2, <1>3, SameTypes DEF ExchangeTypes, TypeOK, DeclineStep

LEMMA ReportTypes ==
  ASSUME ExchangeTypes, ExchangeAssumption, NEW a \in Agents, NEW id \in RecordIds,
         ReportStep(a, id)
  PROVE  ExchangeTypes'
  <1>1. (/\ net \subseteq MessageType
         /\ \A m \in net : m.kind \in StoredKinds => m.content \in Contents)'
    BY ReportType DEF ReportStep, ExchangeTypes, TypeOK
  <1> QED
    BY <1>1, SameTypes DEF ExchangeTypes, TypeOK, ReportStep

LEMMA StartingTypes ==
  ASSUME ExchangeTypes, NEW a \in Agents, NEW s \in Callers, NEW id \in RecordIds,
         Starting(a, s, id)
  PROVE  ExchangeTypes'
  <1>1. PICK th \in Threads, kind \in StoredKinds, state \in StateNames, connected \in BOOLEAN,
             c \in Contents, option \in AutoModes \cup {None} :
          StartStep(a, s, th, id, kind, state, connected, c, option)
    BY DEF Starting
  <1> DEFINE task == Started(th, id, kind, state, connected, c, option)
             ex == NewExchange(th, connected, state, option)
  <1>2. ex \in ExchangeRecordType
    BY NewExchangeType
  <1> HIDE DEF ex
  <1>3. task = [pc |-> "saveResponse", id |-> id, new |-> TRUE, found |-> 0,
                ex |-> ex, kind |-> kind, content |-> c]
    BY DEF Started, ex
  <1>4. task \in TaskType /\ TypedTask(task) /\ s \in Slots
    BY <1>2, <1>3 DEF TaskType, TypedTask, Steps, Kinds, Slots
  <1>5. /\ tasks' \in [Agents -> [Slots -> TaskType]]
        /\ \A b \in Agents, u \in Slots : TypedTask(tasks'[b][u])
    BY <1>1, <1>4, ContinuedTypes DEF StartStep
  <1>6. opened' \subseteq Threads
    BY <1>1 DEF StartStep, ExchangeTypes, TypeOK
  <1> QED
    BY <1>1, <1>5, <1>6, SameTypes DEF ExchangeTypes, TypeOK, StartStep

\* What a task holds that is about to answer.
LEMMA AnswerTyped ==
  ASSUME ExchangeTypes, NEW a \in Agents, NEW id \in RecordIds, NEW ex \in ExchangeRecordType,
         NEW kind \in Kinds, NEW content \in Contents \cup {None}, NEW new \in BOOLEAN,
         kind \in StoredKinds => content \in Contents
  PROVE  LET task == [pc |-> FirstWrite(kind), id |-> id, ex |-> ex, new |-> new,
                      kind |-> kind, content |-> content, found |-> Saved(a, id, kind)]
         IN  task \in TaskType /\ TypedTask(task)
  <1>1. CASE kind \in StoredKinds
    <2>1. Saved(a, id, kind) \in Nat /\ FirstWrite(kind) = "saveResponse"
      BY <1>1, ReadMessage DEF FirstWrite
    <2> QED
      BY <1>1, <2>1 DEF TaskType, TypedTask, Steps
  <1>2. CASE kind \notin StoredKinds
    <2>1. Saved(a, id, kind) = 0 /\ FirstWrite(kind) = "updateResponse"
      BY <1>2 DEF Saved, FirstWrite
    <2> QED
      BY <1>2, <2>1 DEF TaskType, TypedTask, Steps
  <1> QED
    BY <1>1, <1>2

LEMMA ReplyingTypes ==
  ASSUME ExchangeTypes, NEW a \in Agents, NEW s \in Callers, NEW id \in RecordIds,
         Replying(a, s, id)
  PROVE  ExchangeTypes'
  <1>1. PICK answer \in Answers, option \in AutoModes \cup {None} :
          ReplyStep(a, s, id, answer, option)
    BY DEF Replying
  <1> DEFINE task == Replied(a, id, answer, option)
             ex == [WithOption(exchanges[a][id], option) EXCEPT !.state = answer.state]
  <1>2. exchanges[a][id] \in ExchangeRecordType
    BY <1>1, ReadExchange DEF ReplyStep
  <1>3. ex \in ExchangeRecordType
    BY <1>2 DEF WithOption, ExchangeRecordType, Answers, StateNames
  <1> HIDE DEF ex
  <1>4. /\ answer.kind \in Kinds /\ answer.content \in Contents \cup {None}
        /\ answer.kind \in StoredKinds => answer.content \in Contents
    BY <1>1 DEF ReplyStep, Answers
  <1>5. task = [pc |-> FirstWrite(answer.kind), id |-> id, ex |-> ex, new |-> FALSE,
                kind |-> answer.kind, content |-> answer.content,
                found |-> Saved(a, id, answer.kind)]
    BY DEF Replied, ex
  <1>6. task \in TaskType /\ TypedTask(task) /\ s \in Slots
    BY <1>3, <1>4, <1>5, AnswerTyped DEF Slots
  <1> QED
    BY <1>1, <1>6, TaskAloneTypes DEF ReplyStep

AnswerTask(k, answer, found) ==
  [k EXCEPT !.pc = FirstWrite(answer.kind), !.ex.state = answer.state, !.kind = answer.kind,
            !.content = answer.content, !.found = found]

LEMMA AnswerRecord ==
  ASSUME NEW k \in TaskType, NEW answer \in Answers, NEW found \in Nat,
         k.ex \in ExchangeRecordType
  PROVE  /\ AnswerTask(k, answer, found) \in TaskType
         /\ AnswerTask(k, answer, found).pc = FirstWrite(answer.kind)
         /\ AnswerTask(k, answer, found).id = k.id
         /\ AnswerTask(k, answer, found).ex = [k.ex EXCEPT !.state = answer.state]
         /\ AnswerTask(k, answer, found).ex \in ExchangeRecordType
         /\ AnswerTask(k, answer, found).new = k.new
         /\ AnswerTask(k, answer, found).kind = answer.kind
         /\ AnswerTask(k, answer, found).content = answer.content
         /\ AnswerTask(k, answer, found).found = found
  <1> DEFINE ex == [k.ex EXCEPT !.state = answer.state]
             pc == FirstWrite(answer.kind)
  <1>0. ex \in ExchangeRecordType
    BY DEF ExchangeRecordType, Answers, StateNames
  <1>1. AnswerTask(k, answer, found) =
          [k EXCEPT !.pc = pc, !.ex = ex, !.kind = answer.kind,
                    !.content = answer.content, !.found = found]
    BY DEF TaskType, AnswerTask
  <1>2. pc \in Steps /\ answer.kind \in Kinds /\ answer.content \in Contents \cup {None}
    BY DEF FirstWrite, Steps, Answers
  <1> HIDE DEF ex, pc
  <1>3. LET new == [k EXCEPT !.pc = pc, !.ex = ex, !.kind = answer.kind,
                             !.content = answer.content, !.found = found]
        IN  /\ new \in TaskType
            /\ new.pc = pc /\ new.id = k.id /\ new.ex = ex /\ new.new = k.new
            /\ new.kind = answer.kind /\ new.content = answer.content /\ new.found = found
    BY <1>0, <1>2 DEF TaskType
  <1> QED
    BY <1>0, <1>1, <1>3 DEF ex, pc

LEMMA DecidingTypes ==
  ASSUME ExchangeTypes, NEW a \in Agents, NEW h \in Handlers, Deciding(a, h)
  PROVE  ExchangeTypes'
  <1> DEFINE k == tasks[a][h]
  <1>1. PICK answer \in Answers : DecideStep(a, h, answer)
    BY DEF Deciding
  <1>2. /\ h \in Slots /\ k \in TaskType /\ k.pc = "decide" /\ TypedTask(k)
    BY <1>1 DEF Slots, ExchangeTypes, TypeOK, DecideStep, At
  <1>3. k.id \in RecordIds /\ k.ex \in ExchangeRecordType /\ k.kind \in StoredKinds
    BY <1>2 DEF TypedTask
  <1>4. /\ answer.kind \in Kinds /\ answer.content \in Contents \cup {None}
        /\ answer.kind \in StoredKinds => answer.content \in Contents
    BY <1>1, <1>3, ReadMessage DEF DecideStep, Answers
  <1> DEFINE found == Saved(a, k.id, answer.kind)
             task == AnswerTask(k, answer, found)
  <1>5. Continue(a, h, task)
    BY <1>1 DEF DecideStep, AnswersNext, AnswerTask
  <1>6. found \in Nat
    BY <1>3, ReadMessage DEF Saved
  <1>7. /\ answer.kind \in StoredKinds => FirstWrite(answer.kind) = "saveResponse"
        /\ answer.kind \notin StoredKinds => FirstWrite(answer.kind) = "updateResponse"
    BY DEF FirstWrite
  <1> HIDE DEF found, k
  <1>8. /\ task \in TaskType /\ task.pc = FirstWrite(answer.kind) /\ task.id = k.id
        /\ task.ex \in ExchangeRecordType /\ task.kind = answer.kind
        /\ task.content = answer.content
    <2>1. k \in TaskType /\ k.ex \in ExchangeRecordType /\ found \in Nat
      BY <1>2, <1>3, <1>6
    <2>2. AnswerTask(k, answer, found) \in TaskType
      BY <2>1, AnswerRecord
    <2>3. AnswerTask(k, answer, found).pc = FirstWrite(answer.kind)
      BY <2>1, AnswerRecord
    <2>4. AnswerTask(k, answer, found).id = k.id
      BY <2>1, AnswerRecord
    <2>5. AnswerTask(k, answer, found).ex \in ExchangeRecordType
      BY <2>1, AnswerRecord
    <2>6. AnswerTask(k, answer, found).kind = answer.kind
      BY <2>1 DEF AnswerTask, TaskType
    <2>7. AnswerTask(k, answer, found).content = answer.content
      BY <2>1 DEF AnswerTask, TaskType
    <2> QED
      BY <2>2, <2>3, <2>4, <2>5, <2>6, <2>7
  <1> HIDE DEF task
  <1>9. TypedTask(task)
    BY <1>3, <1>4, <1>7, <1>8 DEF TypedTask
  <1> QED
    BY <1>1, <1>2, <1>5, <1>8, <1>9, TaskAloneTypes DEF DecideStep

LEMMA ReplacedFirst ==
  ASSUME NEW q \in Seq(Contents), NEW c \in Contents
  PROVE  /\ [q EXCEPT ![1] = c] \in Seq(Contents)
         /\ Len([q EXCEPT ![1] = c]) = Len(q)
         /\ q # <<>> => [q EXCEPT ![1] = c][1] = c
  <1>1. CASE q = <<>>
    <2>1. [q EXCEPT ![1] = c] = q
      BY <1>1
    <2> QED
      BY <1>1, <2>1
  <1>2. CASE q # <<>>
    <2>1. 1 \in 1 .. Len(q)
      BY <1>2
    <2> QED
      BY <2>1, ExceptSeq
  <1> QED
    BY <1>1, <1>2

LEMMA SavingTypes ==
  ASSUME ExchangeTypes, NEW a \in Agents, NEW t \in Slots, SaveStep(a, t)
  PROVE  ExchangeTypes'
  <1> DEFINE k == tasks[a][t]
             task == [k EXCEPT !.pc = IF @ = "saveReceived" THEN "updateReceived"
                                                            ELSE "updateResponse"]
  <1>1. /\ k \in TaskType /\ k.pc \in {"saveReceived", "saveResponse"} /\ TypedTask(k)
        /\ Continue(a, t, task) /\ SaveMessage(a, k)
    BY DEF SaveStep, ExchangeTypes, TypeOK
  <1>2. k.id \in RecordIds /\ k.ex \in ExchangeRecordType /\ k.kind \in StoredKinds
        /\ k.content \in Contents
    BY <1>1 DEF TypedTask
  <1>3. task \in TaskType /\ TypedTask(task)
    <2>1. task.pc \in {"updateReceived", "updateResponse"} /\ task.id = k.id /\ task.ex = k.ex
          /\ task.kind = k.kind /\ task.content = k.content /\ task \in TaskType
      BY <1>1 DEF TaskType, Steps
    <2> QED
      BY <1>2, <2>1 DEF TypedTask, Kinds
  <1>4. stored' \in [Agents -> [RecordIds -> [StoredKinds -> Seq(Contents)]]]
    <2>1. stored[a][k.id][k.kind] \in Seq(Contents)
      BY <1>2, ReadMessage
    <2>2. Append(stored[a][k.id][k.kind], k.content) \in Seq(Contents)
      BY <1>2, <2>1
    <2>3. [stored[a][k.id][k.kind] EXCEPT ![1] = k.content] \in Seq(Contents)
      BY <1>2, <2>1, ReplacedFirst
    <2> DEFINE new == IF k.found = 0 THEN Append(stored[a][k.id][k.kind], k.content)
                      ELSE [stored[a][k.id][k.kind] EXCEPT ![1] = k.content]
    <2>4. new \in Seq(Contents)
      BY <2>2, <2>3
    <2>5. stored' = [stored EXCEPT ![a][k.id][k.kind] = new]
      BY <1>1 DEF SaveMessage
    <2>6. stored \in [Agents -> [RecordIds -> [StoredKinds -> Seq(Contents)]]]
      BY DEF ExchangeTypes, TypeOK
    <2> HIDE DEF new, k
    <2> QED
      BY <1>2, <2>4, <2>5, <2>6
  <1>5. /\ tasks' \in [Agents -> [Slots -> TaskType]]
        /\ \A b \in Agents, u \in Slots : TypedTask(tasks'[b][u])
    BY <1>1, <1>3, ContinuedTypes
  <1> QED
    BY <1>4, <1>5, SameTypes DEF ExchangeTypes, TypeOK, SaveStep

LEMMA SavedExchangeType ==
  ASSUME ExchangeTypes, NEW a \in Agents, NEW id \in RecordIds,
         NEW ex \in ExchangeRecordType \cup {None}, exchanges' = [exchanges EXCEPT ![a][id] = ex]
  PROVE  exchanges' \in [Agents -> [RecordIds -> ExchangeRecordType \cup {None}]]
  <1>1. exchanges \in [Agents -> [RecordIds -> ExchangeRecordType \cup {None}]]
    BY DEF ExchangeTypes, TypeOK
  <1> QED
    BY <1>1

LEMMA UpdatingTypes ==
  ASSUME ExchangeTypes, NEW a \in Agents, NEW t \in Slots, UpdateStep(a, t)
  PROVE  ExchangeTypes'
  <1> DEFINE k == tasks[a][t]
  <1>1. /\ k \in TaskType /\ k.pc \in {"updateReceived", "updateResponse", "updateOnly"}
        /\ TypedTask(k) /\ Continue(a, t, AfterUpdate(k)) /\ SaveExchange(a, k)
    BY DEF UpdateStep, ExchangeTypes, TypeOK
  <1>2. k.id \in RecordIds /\ k.ex \in ExchangeRecordType
    BY <1>1 DEF TypedTask
  <1>3. AfterUpdate(k) \in TaskType /\ TypedTask(AfterUpdate(k))
    <2>1. CASE k.pc = "updateReceived" /\ k.kind \in StoredKinds
      <3> DEFINE task == [k EXCEPT !.pc = "decide", !.new = FALSE]
      <3>1. /\ task \in TaskType /\ task.pc = "decide" /\ task.id = k.id /\ task.ex = k.ex
            /\ task.kind = k.kind /\ task.content = k.content
        BY <1>1 DEF TaskType, Steps
      <3>2. k.content \in Contents
        BY <1>1, <2>1 DEF TypedTask
      <3>3. TypedTask(task)
        BY <1>2, <2>1, <3>1, <3>2 DEF TypedTask
      <3> QED
        BY <2>1, <3>1, <3>3 DEF AfterUpdate
    <2>2. CASE k.pc = "updateResponse"
      <3> DEFINE task == [k EXCEPT !.pc = "sendResponse"]
      <3>1. /\ task \in TaskType /\ task.pc = "sendResponse" /\ task.id = k.id /\ task.ex = k.ex
            /\ task.kind = k.kind /\ task.content = k.content
        BY <1>1 DEF TaskType, Steps
      <3>2. k.kind \in Kinds /\ (k.kind \in StoredKinds => k.content \in Contents)
        BY <1>1, <2>2 DEF TypedTask
      <3>3. TypedTask(task)
        BY <1>2, <2>2, <3>1, <3>2 DEF TypedTask
      <3> QED
        BY <2>2, <3>1, <3>3 DEF AfterUpdate
    <2>3. CASE ~(k.pc = "updateReceived" /\ k.kind \in StoredKinds) /\ k.pc # "updateResponse"
      BY <2>3, IdleTyped DEF AfterUpdate
    <2> QED
      BY <2>1, <2>2, <2>3
  <1>4. exchanges' \in [Agents -> [RecordIds -> ExchangeRecordType \cup {None}]]
    BY <1>1, <1>2, SavedExchangeType DEF SaveExchange
  <1>5. /\ tasks' \in [Agents -> [Slots -> TaskType]]
        /\ \A b \in Agents, u \in Slots : TypedTask(tasks'[b][u])
    BY <1>1, <1>3, ContinuedTypes
  <1> QED
    BY <1>4, <1>5, SameTypes DEF ExchangeTypes, TypeOK, UpdateStep

\* What a task sends.
Sent(a, k) == [kind |-> k.kind, thread |-> k.ex.thread, to |-> Peer(a), content |-> k.content]

LEMMA SendingTypes ==
  ASSUME ExchangeTypes, ExchangeAssumption, NEW a \in Agents, NEW t \in Slots, SendResponse(a, t)
  PROVE  ExchangeTypes'
  <1> DEFINE k == tasks[a][t]
  <1>1. k \in TaskType /\ k.pc = "sendResponse" /\ TypedTask(k) /\ net' = net \cup {Sent(a, k)}
        /\ Continue(a, t, Idle)
    BY DEF SendResponse, ExchangeTypes, TypeOK, At, Sent, Finish
  <1>2. /\ k.kind \in Kinds /\ k.ex.thread \in Threads /\ k.content \in Contents \cup {None}
        /\ k.kind \in StoredKinds => k.content \in Contents
    BY <1>1 DEF TypedTask, ExchangeRecordType, TaskType
  <1>3. (/\ net \subseteq MessageType
         /\ \A m \in net : m.kind \in StoredKinds => m.content \in Contents)'
    <2>1. Sent(a, k) \in MessageType /\ (Sent(a, k).kind \in StoredKinds => Sent(a, k).content \in Contents)
      BY <1>2, PeerIsAgent DEF Sent, MessageType
    <2> QED
      BY <1>1, <2>1 DEF ExchangeTypes, TypeOK
  <1>4. /\ tasks' \in [Agents -> [Slots -> TaskType]]
        /\ \A b \in Agents, u \in Slots : TypedTask(tasks'[b][u])
    BY <1>1, IdleTyped, ContinuedTypes
  <1> QED
    BY <1>3, <1>4, SameTypes DEF ExchangeTypes, TypeOK, SendResponse

LEMMA RemovingTypes ==
  ASSUME ExchangeTypes, NEW a \in Agents, NEW s \in Callers, NEW id \in RecordIds,
         RemoveStep(a, s, id)
  PROVE  ExchangeTypes'
  <1>1. exchanges' \in [Agents -> [RecordIds -> ExchangeRecordType \cup {None}]]
    BY SavedExchangeType DEF RemoveStep
  <1> DEFINE task == [Idle EXCEPT !.pc = "deleteMessages", !.id = id]
  <1>2. task \in TaskType /\ TypedTask(task) /\ s \in Slots
    BY DEF Idle, TaskType, TypedTask, Steps, Slots
  <1>3. /\ tasks' \in [Agents -> [Slots -> TaskType]]
        /\ \A b \in Agents, u \in Slots : TypedTask(tasks'[b][u])
    <2>1. CASE Continue(a, s, task)
      BY <1>2, <2>1, ContinuedTypes
    <2>2. CASE UNCHANGED tasks
      BY <2>2, SameTypes
    <2> QED
      BY <2>1, <2>2 DEF RemoveStep
  <1> QED
    BY <1>1, <1>3, SameTypes DEF ExchangeTypes, TypeOK, RemoveStep

LEMMA DeletingTypes ==
  ASSUME ExchangeTypes, NEW a \in Agents, NEW s \in Slots, NEW x \in StoredKinds,
         DeleteStep(a, s, x)
  PROVE  ExchangeTypes'
  <1> DEFINE id == tasks[a][s].id
             new == Tail(stored[a][id][x])
  <1>1. id \in RecordIds
    BY DEF DeleteStep, At, ExchangeTypes, TypedTask
  <1>2. stored[a][id][x] \in Seq(Contents) /\ stored[a][id][x] # <<>>
    BY <1>1, ReadMessage DEF DeleteStep
  <1>3. new \in Seq(Contents)
    BY <1>2
  <1>4. stored' = [stored EXCEPT ![a][id][x] = new]
    BY DEF DeleteStep
  <1>5. stored \in [Agents -> [RecordIds -> [StoredKinds -> Seq(Contents)]]]
    BY DEF ExchangeTypes, TypeOK
  <1> HIDE DEF new, id
  <1>6. stored' \in [Agents -> [RecordIds -> [StoredKinds -> Seq(Contents)]]]
    BY <1>1, <1>3, <1>4, <1>5
  <1> QED
    BY <1>6, SameTypes DEF ExchangeTypes, TypeOK, DeleteStep

LEMMA StoringTypes ==
  ASSUME ExchangeTypes, NEW a \in Agents, NEW h \in Handlers, StoreCredential(a, h)
  PROVE  ExchangeTypes'
  <1> DEFINE k == tasks[a][h]
             n == Len(wallet[a]) + 1
             ex == [k.ex EXCEPT !.credentials = @ \cup {n}]
             task == [k EXCEPT !.pc = "saveReceived", !.ex = ex]
  <1>1. /\ h \in Slots /\ k \in TaskType /\ k.pc = "storeCredential" /\ TypedTask(k)
        /\ n <= MaxCredentials /\ wallet[a] \in Seq(Contents)
    BY DEF Slots, StoreCredential, ExchangeTypes, TypeOK, At
  <1>2. /\ k.id \in RecordIds /\ k.ex \in ExchangeRecordType /\ k.kind \in StoredKinds
        /\ k.content \in Contents
    BY <1>1 DEF TypedTask
  <1>3. ex \in ExchangeRecordType
    <2>1. n \in 1 .. MaxCredentials
      BY <1>1
    <2> QED
      BY <1>2, <2>1 DEF ExchangeRecordType
  <1>4. Continue(a, h, task)
    <2>1. Continue(a, h, [k EXCEPT !.pc = "saveReceived", !.ex.credentials = @ \cup {n}])
      BY DEF StoreCredential
    <2>2. [k EXCEPT !.pc = "saveReceived", !.ex.credentials = @ \cup {n}] = task
      BY <1>1 DEF TaskType
    <2> QED
      BY <2>1, <2>2
  <1> HIDE DEF ex
  <1>5. task \in TaskType /\ TypedTask(task)
    <2>1. /\ task \in TaskType /\ task.pc = "saveReceived" /\ task.id = k.id /\ task.ex = ex
          /\ task.kind = k.kind /\ task.content = k.content
      BY <1>1, <1>3 DEF TaskType, Steps
    <2> QED
      BY <1>2, <1>3, <2>1 DEF TypedTask
  <1>6. wallet' \in [Agents -> Seq(Contents)]
    <2>1. Append(wallet[a], k.content) \in Seq(Contents)
      BY <1>1, <1>2
    <2>2. wallet' = [wallet EXCEPT ![a] = Append(wallet[a], k.content)]
      BY DEF StoreCredential
    <2>3. wallet \in [Agents -> Seq(Contents)]
      BY DEF ExchangeTypes, TypeOK
    <2> QED
      BY <2>1, <2>2, <2>3
  <1>7. /\ tasks' \in [Agents -> [Slots -> TaskType]]
        /\ \A b \in Agents, u \in Slots : TypedTask(tasks'[b][u])
    BY <1>1, <1>4, <1>5, ContinuedTypes
  <1> QED
    BY <1>6, <1>7, SameTypes DEF ExchangeTypes, TypeOK, StoreCredential

LEMMA CrashTypes ==
  ASSUME ExchangeTypes, NEW a \in Agents, Crash(a)
  PROVE  ExchangeTypes'
  <1>1. /\ tasks \in [Agents -> [Slots -> TaskType]]
        /\ tasks' = [tasks EXCEPT ![a] = [t \in Slots |-> Idle]]
    BY DEF Crash, ExchangeTypes, TypeOK
  <1>2. /\ tasks' \in [Agents -> [Slots -> TaskType]]
        /\ \A b \in Agents, u \in Slots : tasks'[b][u] = (IF b = a THEN Idle ELSE tasks[b][u])
    BY <1>1, IdleTyped
  <1>3. \A b \in Agents, u \in Slots : TypedTask(tasks'[b][u])
    BY <1>2, IdleTyped DEF ExchangeTypes
  <1> QED
    BY <1>2, <1>3, SameTypes DEF ExchangeTypes, TypeOK, Crash

LEMMA StopTypes ==
  ASSUME ExchangeTypes, NEW a \in Agents, NEW t \in Slots, Stop(a, t)
  PROVE  ExchangeTypes'
  BY IdleTyped, TaskAloneTypes DEF Stop, Finish

LEMMA ExchangeTypesKept ==
  ASSUME ExchangeTypes, ExchangeAssumption, Shapes
  PROVE  ExchangeTypes'
  <1>1. CASE \E a \in Agents : Crash(a)
    BY <1>1, CrashTypes
  <1>2. CASE \E a \in Agents, t \in Slots : TaskShapes(a, t)
    BY <1>2, StopTypes, SavingTypes, UpdatingTypes, SendingTypes, DeletingTypes DEF TaskShapes
  <1>3. CASE \E a \in Agents, h \in Handlers, m \in net, id \in RecordIds : Receipts(a, h, m, id)
    BY <1>3, AbandonTypes, OpeningTypes, ResumingTypes DEF Receipts
  <1>4. CASE \E a \in Agents, h \in Handlers : StoreCredential(a, h) \/ Deciding(a, h)
    BY <1>4, StoringTypes, DecidingTypes
  <1>5. CASE \E a \in Agents, s \in Callers, id \in RecordIds : CallShapes(a, s, id)
    BY <1>5, DeclineTypes, ReportTypes, RemovingTypes, ReplyingTypes, StartingTypes DEF CallShapes
  <1> QED
    BY <1>1, <1>2, <1>3, <1>4, <1>5 DEF Shapes

LEMMA ExchangeTypesInit ==
  ASSUME Init
  PROVE  ExchangeTypes
  <1>1. TypeOK
    BY IdleTyped DEF Init, TypeOK
  <1> QED
    BY <1>1, IdleTyped DEF Init, ExchangeTypes

\* The records, saved messages and tasks of exchanges, and the messages in flight,
\* keep their types: what every step of a handler or call goes on to use is there.
THEOREM ExchangeTypesHold == Spec => []ExchangeTypes
  <1>1. Init => ExchangeTypes
    BY ExchangeTypesInit
  <1>2. ExchangeTypes /\ [Next]_vars => ExchangeTypes'
    <2>1. ASSUME ExchangeTypes, Next PROVE ExchangeTypes'
      BY <2>1, StepShapes, ExchangeTypesKept, ExchangeAssumption
    <2>2. ASSUME ExchangeTypes, UNCHANGED vars PROVE ExchangeTypes'
      BY <2>2, SameTypes DEF vars, ExchangeTypes, TypeOK
    <2> QED
      BY <2>1, <2>2
  <1> QED
    BY <1>1, <1>2, PTL DEF Spec

\* Type correctness of credential and proof exchanges.
THEOREM ExchangesTyped == Spec => []TypeOK
  <1>1. ExchangeTypes => TypeOK
    BY DEF ExchangeTypes
  <1> QED
    BY <1>1, ExchangeTypesHold, PTL

-------------------------------------------------------------------------------
(* What a step of each shape leaves *)

\* No other task has moved, and no other record has changed.
OnlyTask(a, t) ==
  \A b \in Agents, u \in Slots : <<b, u>> # <<a, t>> => tasks'[b][u] = tasks[b][u]

OnlyRecord(a, id) ==
  \A b \in Agents, i \in RecordIds : <<b, i>> # <<a, id>> => exchanges'[b][i] = exchanges[b][i]

OnlyMessages(a, id, x) ==
  \A b \in Agents, i \in RecordIds, y \in StoredKinds :
    <<b, i, y>> # <<a, id, x>> => stored'[b][i][y] = stored[b][i][y]

\* A task takes up an exchange that exists.
TakesUp(a, t, id) ==
  LET task == tasks'[a][t] IN
  /\ t \in Slots /\ At(a, t, "idle") /\ OnlyTask(a, t)
  /\ UNCHANGED <<exchanges, stored, wallet, opened>>
  /\ exchanges[a][id] # None /\ exchanges[a][id] \in ExchangeRecordType
  /\ task.id = id /\ task.new = FALSE
  /\ task.ex.thread = exchanges[a][id].thread
  /\ task.ex.connected = exchanges[a][id].connected
  /\ task.ex.credentials = exchanges[a][id].credentials

\* A handler takes up an exchange with what it has received.
ResumesWith(a, h, m, id, after, pc, verdict) ==
  LET task == tasks'[a][h]
  IN  /\ TakesUp(a, h, id)
      /\ task.pc = pc /\ pc \in {"storeCredential", "saveReceived", "updateReceived"}
      /\ task.kind = m.kind /\ task.content = m.content
      /\ task.found = Saved(a, id, m.kind)
      /\ task.ex.state = after /\ task.ex.verified = verdict
      /\ task.ex.auto = exchanges[a][id].auto
      /\ exchanges[a][id].thread = m.thread

LEMMA ResumedTask ==
  ASSUME ExchangeTypes, NEW a \in Agents, NEW h \in Handlers, NEW m \in net,
         NEW id \in RecordIds, NEW after, NEW pc, NEW verdict,
         ResumeStep(a, h, m, id, after, pc, verdict)
  PROVE  ResumesWith(a, h, m, id, after, pc, verdict)
  <1> DEFINE task == Resumed(a, m, id, after, pc, verdict)
             ex == [exchanges[a][id] EXCEPT !.state = after, !.verified = verdict]
  <1>1. exchanges[a][id] # None /\ exchanges[a][id].thread = m.thread
    BY MatchingExists DEF ResumeStep
  <1>2. exchanges[a][id] \in ExchangeRecordType
    BY <1>1, ReadExchange
  <1>3. /\ task.id = id /\ task.new = FALSE /\ task.pc = pc
        /\ task.kind = m.kind /\ task.content = m.content
        /\ task.found = Saved(a, id, m.kind) /\ task.ex = ex
    BY DEF Resumed
  <1>4. /\ ex.thread = exchanges[a][id].thread /\ ex.state = after /\ ex.verified = verdict
        /\ ex.credentials = exchanges[a][id].credentials
        /\ ex.connected = exchanges[a][id].connected /\ ex.auto = exchanges[a][id].auto
    BY <1>2 DEF ExchangeRecordType
  <1>5. /\ pc \in {"storeCredential", "saveReceived", "updateReceived"}
        /\ Continue(a, h, task) /\ UNCHANGED <<exchanges, stored, wallet, opened>>
        /\ h \in Slots /\ At(a, h, "idle")
    BY DEF ResumeStep, Resumptions, Delivers, Slots
  <1>6. tasks'[a][h] = task /\ OnlyTask(a, h)
    BY <1>5, Continued DEF OnlyTask
  <1> HIDE DEF task, ex
  <1> QED
    BY <1>1, <1>2, <1>3, <1>4, <1>5, <1>6 DEF TakesUp, ResumesWith

LEMMA UpdatesTask ==
  ASSUME ExchangeTypes, NEW a \in Agents, NEW t \in Slots, NEW id \in RecordIds,
         exchanges[a][id] # None, NEW state, At(a, t, "idle"),
         Continue(a, t, Updates(a, id, state)), UNCHANGED <<exchanges, stored, wallet, opened>>
  PROVE  LET task == tasks'[a][t]
         IN  /\ TakesUp(a, t, id)
             /\ task.pc = "updateOnly" /\ task.kind = None
             /\ task.ex.state = state
             /\ task.ex.verified = exchanges[a][id].verified
  <1> DEFINE task == Updates(a, id, state)
             ex == [exchanges[a][id] EXCEPT !.state = state]
  <1>1. exchanges[a][id] \in ExchangeRecordType
    BY ReadExchange
  <1>2. task.id = id /\ task.new = FALSE /\ task.pc = "updateOnly" /\ task.kind = None
        /\ task.ex = ex
    BY DEF Updates, Idle
  <1>3. /\ ex.thread = exchanges[a][id].thread /\ ex.state = state
        /\ ex.verified = exchanges[a][id].verified
        /\ ex.credentials = exchanges[a][id].credentials
        /\ ex.connected = exchanges[a][id].connected
    BY <1>1 DEF ExchangeRecordType
  <1>4. tasks'[a][t] = task /\ OnlyTask(a, t)
    BY Continued DEF OnlyTask
  <1> HIDE DEF task, ex
  <1> QED
    BY <1>1, <1>2, <1>3, <1>4 DEF TakesUp

LEMMA AbandonedTask ==
  ASSUME ExchangeTypes, NEW a \in Agents, NEW h \in Handlers, NEW m \in net,
         NEW id \in RecordIds, AbandonStep(a, h, m, id)
  PROVE  LET task == tasks'[a][h]
         IN  /\ TakesUp(a, h, id)
             /\ task.pc = "updateOnly" /\ task.kind = None
             /\ task.ex.state = "abandoned"
             /\ task.ex.verified = exchanges[a][id].verified
  <1>1. exchanges[a][id] # None /\ Continue(a, h, Updates(a, id, "abandoned"))
        /\ UNCHANGED <<exchanges, stored, wallet, opened>> /\ h \in Slots /\ At(a, h, "idle")
    <2>1. Matching(a, m.thread) = {id}
      BY DEF AbandonStep
    <2>2. exchanges[a][id] # None
      BY <2>1, MatchingExists
    <2> QED
      BY <2>2 DEF AbandonStep, Delivers, Slots
  <1> QED
    BY <1>1, UpdatesTask

LEMMA DeclinedTask ==
  ASSUME ExchangeTypes, NEW a \in Agents, NEW s \in Callers, NEW id \in RecordIds,
         DeclineStep(a, s, id)
  PROVE  LET task == tasks'[a][s]
         IN  /\ TakesUp(a, s, id)
             /\ task.pc = "updateOnly" /\ task.kind = None
             /\ task.ex.state = "declined"
             /\ task.ex.verified = exchanges[a][id].verified
  <1>1. exchanges[a][id] # None /\ Continue(a, s, Updates(a, id, "declined"))
        /\ UNCHANGED <<exchanges, stored, wallet, opened>> /\ s \in Slots /\ At(a, s, "idle")
    BY DEF DeclineStep, Slots
  <1> QED
    BY <1>1, UpdatesTask

\* A call answers by hand.
RepliesWith(a, s, id, answer) ==
  LET task == tasks'[a][s]
  IN  /\ TakesUp(a, s, id)
      /\ task.pc = FirstWrite(answer.kind) /\ task.pc \in {"saveResponse", "updateResponse"}
      /\ task.kind = answer.kind /\ task.content = answer.content
      /\ task.found = Saved(a, id, answer.kind)
      /\ task.ex.state = answer.state
      /\ task.ex.verified = exchanges[a][id].verified

LEMMA RepliedTask ==
  ASSUME ExchangeTypes, NEW a \in Agents, NEW s \in Callers, NEW id \in RecordIds,
         NEW answer \in Answers, NEW option, ReplyStep(a, s, id, answer, option)
  PROVE  RepliesWith(a, s, id, answer)
  <1> DEFINE task == Replied(a, id, answer, option)
             ex == [WithOption(exchanges[a][id], option) EXCEPT !.state = answer.state]
  <1>1. exchanges[a][id] \in ExchangeRecordType /\ exchanges[a][id] # None
    BY ReadExchange DEF ReplyStep
  <1>2. /\ task.id = id /\ task.new = FALSE /\ task.pc = FirstWrite(answer.kind)
        /\ task.kind = answer.kind /\ task.content = answer.content
        /\ task.found = Saved(a, id, answer.kind) /\ task.ex = ex
    BY DEF Replied
  <1>3. /\ ex.thread = exchanges[a][id].thread /\ ex.state = answer.state
        /\ ex.verified = exchanges[a][id].verified
        /\ ex.credentials = exchanges[a][id].credentials
        /\ ex.connected = exchanges[a][id].connected
    BY <1>1 DEF WithOption, ExchangeRecordType
  <1>4. /\ FirstWrite(answer.kind) \in {"saveResponse", "updateResponse"}
        /\ Continue(a, s, task) /\ UNCHANGED <<exchanges, stored, wallet, opened>>
        /\ s \in Slots /\ At(a, s, "idle")
    BY DEF ReplyStep, FirstWrite, Slots
  <1>5. tasks'[a][s] = task /\ OnlyTask(a, s)
    BY <1>4, Continued DEF OnlyTask
  <1> HIDE DEF task, ex
  <1> QED
    BY <1>1, <1>2, <1>3, <1>4, <1>5 DEF TakesUp, RepliesWith

\* A task makes an exchange.
Makes(a, t, id, th, connected, state, kind, content) ==
  LET task == tasks'[a][t] IN
  /\ t \in Slots /\ At(a, t, "idle") /\ OnlyTask(a, t)
  /\ UNCHANGED <<exchanges, stored, wallet>>
  /\ FreshId(a, id)
  /\ task.id = id /\ task.new = TRUE /\ task.found = 0
  /\ task.kind = kind /\ task.content = content
  /\ task.ex.thread = th /\ task.ex.connected = connected /\ task.ex.state = state
  /\ task.ex.credentials = {} /\ task.ex.verified = None

LEMMA OpenedTask ==
  ASSUME ExchangeTypes, NEW a \in Agents, NEW h \in Handlers, NEW m \in net,
         NEW id \in RecordIds, NEW state, OpenStep(a, h, m, id, state)
  PROVE  /\ Makes(a, h, id, m.thread, TRUE, state, m.kind, m.content)
         /\ tasks'[a][h].pc = "saveReceived" /\ tasks'[a][h].ex.auto = None
  <1>1. /\ Continue(a, h, Opened(m, id, state)) /\ FreshId(a, id)
        /\ UNCHANGED <<exchanges, stored, wallet>> /\ h \in Slots /\ At(a, h, "idle")
    BY DEF OpenStep, Delivers, Slots
  <1>2. tasks'[a][h] = Opened(m, id, state) /\ OnlyTask(a, h)
    BY <1>1, Continued DEF OnlyTask
  <1> QED
    BY <1>1, <1>2 DEF Makes, Opened, NewExchange

LEMMA StartedTask ==
  ASSUME ExchangeTypes, NEW a \in Agents, NEW s \in Callers, NEW id \in RecordIds,
         NEW th, NEW kind, NEW state, NEW connected, NEW c, NEW option,
         StartStep(a, s, th, id, kind, state, connected, c, option)
  PROVE  /\ Makes(a, s, id, th, connected, state, kind, c)
         /\ tasks'[a][s].pc = "saveResponse"
  <1>1. /\ Continue(a, s, Started(th, id, kind, state, connected, c, option)) /\ FreshId(a, id)
        /\ UNCHANGED <<exchanges, stored, wallet>> /\ s \in Slots /\ At(a, s, "idle")
    BY DEF StartStep, Slots
  <1>2. tasks'[a][s] = Started(th, id, kind, state, connected, c, option) /\ OnlyTask(a, s)
    BY <1>1, Continued DEF OnlyTask
  <1> QED
    BY <1>1, <1>2 DEF Makes, Started, NewExchange

\* A task goes on with the exchange that it works on.
GoesOn(a, t) ==
  LET k == tasks[a][t]
      task == tasks'[a][t]
  IN  /\ t \in Slots /\ k \in TaskType /\ OnlyTask(a, t) /\ UNCHANGED opened
      /\ k.id \in RecordIds /\ k.ex \in ExchangeRecordType
      /\ task.id = k.id /\ task.ex.thread = k.ex.thread
      /\ task.ex.connected = k.ex.connected

\* A handler goes on with an answer.
AnswersWith(a, h, answer) ==
  LET k == tasks[a][h]
      task == tasks'[a][h]
  IN  /\ GoesOn(a, h) /\ UNCHANGED <<exchanges, stored, wallet, net>>
      /\ task.pc = FirstWrite(answer.kind) /\ task.pc \in {"saveResponse", "updateResponse"}
      /\ task.new = k.new
      /\ task.ex.state = answer.state /\ task.ex.verified = k.ex.verified
      /\ task.ex.credentials = k.ex.credentials /\ task.ex.auto = k.ex.auto
      /\ task.kind = answer.kind /\ task.content = answer.content
      /\ task.found = Saved(a, k.id, answer.kind)
      /\ k.pc = "decide" /\ k.kind \in StoredKinds /\ k.content \in Contents

LEMMA DecidedTask ==
  ASSUME ExchangeTypes, NEW a \in Agents, NEW h \in Handlers, NEW answer \in Answers,
         DecideStep(a, h, answer)
  PROVE  AnswersWith(a, h, answer)
  <1> DEFINE k == tasks[a][h]
             found == Saved(a, k.id, answer.kind)
             task == AnswerTask(k, answer, found)
  <1>1. /\ h \in Slots /\ k \in TaskType /\ k.pc = "decide" /\ TypedTask(k)
        /\ UNCHANGED <<exchanges, stored, wallet, net, opened>>
    BY DEF Slots, ExchangeTypes, TypeOK, DecideStep, At
  <1>2. k.id \in RecordIds /\ k.ex \in ExchangeRecordType /\ k.kind \in StoredKinds
        /\ k.content \in Contents
    BY <1>1 DEF TypedTask
  <1>3. Continue(a, h, task)
    BY DEF DecideStep, AnswersNext, AnswerTask
  <1>4. tasks'[a][h] = task /\ OnlyTask(a, h)
    BY <1>1, <1>3, Continued DEF OnlyTask
  <1>5. found \in Nat /\ FirstWrite(answer.kind) \in {"saveResponse", "updateResponse"}
    BY <1>2, ReadMessage DEF Saved, FirstWrite
  <1> HIDE DEF found
  <1>6. /\ task.pc = FirstWrite(answer.kind) /\ task.id = k.id /\ task.new = k.new
        /\ task.ex = [k.ex EXCEPT !.state = answer.state]
        /\ task.found = found
    BY <1>1, <1>2, <1>5 DEF AnswerTask, TaskType
  <1>7. task.kind = answer.kind /\ task.content = answer.content
    BY <1>1 DEF AnswerTask, TaskType
  <1> HIDE DEF task
  <1>8. /\ task.ex.state = answer.state /\ task.ex.verified = k.ex.verified
        /\ task.ex.credentials = k.ex.credentials /\ task.ex.auto = k.ex.auto
        /\ task.ex.thread = k.ex.thread /\ task.ex.connected = k.ex.connected
    BY <1>2, <1>6 DEF ExchangeRecordType
  <1> QED
    BY <1>1, <1>2, <1>4, <1>5, <1>6, <1>7, <1>8 DEF GoesOn, found, AnswersWith

\* A task saves a message and goes on.
SavesAndGoesOn(a, t) ==
  LET k == tasks[a][t]
      task == tasks'[a][t]
  IN  /\ GoesOn(a, t)
      /\ k.pc \in {"saveReceived", "saveResponse"}
      /\ task.pc = IF k.pc = "saveReceived" THEN "updateReceived" ELSE "updateResponse"
      /\ task.new = k.new /\ task.ex = k.ex /\ task.kind = k.kind
      /\ task.content = k.content
      /\ k.kind \in StoredKinds /\ k.content \in Contents

LEMMA SavedTask ==
  ASSUME ExchangeTypes, NEW a \in Agents, NEW t \in Slots, SaveStep(a, t)
  PROVE  SavesAndGoesOn(a, t)
  <1> DEFINE k == tasks[a][t]
             task == [k EXCEPT !.pc = IF @ = "saveReceived" THEN "updateReceived"
                                                            ELSE "updateResponse"]
  <1>1. /\ k \in TaskType /\ k.pc \in {"saveReceived", "saveResponse"} /\ TypedTask(k)
        /\ Continue(a, t, task) /\ UNCHANGED opened
    BY DEF SaveStep, ExchangeTypes, TypeOK
  <1>2. k.id \in RecordIds /\ k.ex \in ExchangeRecordType /\ k.kind \in StoredKinds
        /\ k.content \in Contents
    BY <1>1 DEF TypedTask
  <1>3. /\ task.pc = IF k.pc = "saveReceived" THEN "updateReceived" ELSE "updateResponse"
        /\ task.id = k.id /\ task.new = k.new /\ task.ex = k.ex /\ task.kind = k.kind
        /\ task.content = k.content
    BY <1>1 DEF TaskType
  <1>4. tasks'[a][t] = task /\ OnlyTask(a, t)
    BY <1>1, Continued DEF OnlyTask
  <1> HIDE DEF task
  <1> QED
    BY <1>1, <1>2, <1>3, <1>4 DEF GoesOn, SavesAndGoesOn

\* A message is saved: added where none was found, and written over the one found.
SavesMessage(a, t) ==
  LET k == tasks[a][t]
      old == stored[a][k.id][k.kind]
  IN  /\ k.id \in RecordIds /\ k.kind \in StoredKinds /\ k.content \in Contents
      /\ OnlyMessages(a, k.id, k.kind)
      /\ k.found = 0 => stored'[a][k.id][k.kind] = Append(old, k.content)
      /\ k.found # 0 =>
           old # <<>> /\ stored'[a][k.id][k.kind] = [old EXCEPT ![1] = k.content]

LEMMA SavedMessage ==
  ASSUME ExchangeTypes, NEW a \in Agents, NEW t \in Slots, SaveStep(a, t)
  PROVE  SavesMessage(a, t)
  <1> DEFINE k == tasks[a][t]
             old == stored[a][k.id][k.kind]
             messages == IF k.found = 0 THEN Append(old, k.content)
                         ELSE [old EXCEPT ![1] = k.content]
  <1>1. /\ k \in TaskType /\ k.pc \in {"saveReceived", "saveResponse"} /\ TypedTask(k)
        /\ SaveMessage(a, k) /\ ~SaveFails(a, k)
    BY DEF SaveStep, ExchangeTypes, TypeOK
  <1>2. k.id \in RecordIds /\ k.kind \in StoredKinds /\ k.content \in Contents
    BY <1>1 DEF TypedTask
  <1>3. stored' = [stored EXCEPT ![a][k.id][k.kind] = messages]
        /\ stored \in [Agents -> [RecordIds -> [StoredKinds -> Seq(Contents)]]]
    BY <1>1 DEF SaveMessage, ExchangeTypes, TypeOK
  <1> HIDE DEF messages
  <1>4. stored'[a][k.id][k.kind] = messages /\ OnlyMessages(a, k.id, k.kind)
    BY <1>2, <1>3 DEF OnlyMessages
  <1>5. k.found # 0 => old # <<>>
    <2>1. ~(k.found > 1) /\ ~(k.found = 1 /\ old = <<>>) /\ k.found \in Nat
      BY <1>1 DEF SaveFails, TaskType
    <2> QED
      BY <2>1
  <1> QED
    BY <1>2, <1>4, <1>5 DEF messages, SavesMessage

\* What UpdateStep writes.
WritesRecord(a, t) ==
  LET k == tasks[a][t] IN
  /\ k \in TaskType /\ k.id \in RecordIds /\ k.ex \in ExchangeRecordType
  /\ k.pc \in {"updateReceived", "updateResponse", "updateOnly"}
  /\ k.new \/ exchanges[a][k.id] # None
  /\ exchanges'[a][k.id] = k.ex /\ OnlyRecord(a, k.id)
  /\ UNCHANGED <<stored, wallet, opened, net>>

\* The task goes on if it has to answer or to send.
MovesOn(a, t) ==
  LET k == tasks[a][t]
      task == tasks'[a][t]
  IN  /\ OnlyTask(a, t)
      /\ task.pc \in {"idle", "decide", "sendResponse"}
      /\ task.pc # "idle" => /\ task.id = k.id /\ task.ex = k.ex
                             /\ task.kind = k.kind /\ task.content = k.content
      /\ task.pc = "decide" => /\ task.new = FALSE /\ k.pc = "updateReceived"
                               /\ k.kind \in StoredKinds
      /\ task.pc = "sendResponse" => k.pc = "updateResponse"

LEMMA UpdatedRecord ==
  ASSUME ExchangeTypes, NEW a \in Agents, NEW t \in Slots, UpdateStep(a, t)
  PROVE  WritesRecord(a, t)
  <1> DEFINE k == tasks[a][t]
  <1>1. /\ k \in TaskType /\ k.pc \in {"updateReceived", "updateResponse", "updateOnly"}
        /\ TypedTask(k) /\ SaveExchange(a, k)
        /\ ~UpdateFails(a, k) /\ UNCHANGED <<stored, wallet, opened, net>>
    BY DEF UpdateStep, ExchangeTypes, TypeOK
  <1>2. k.id \in RecordIds /\ k.ex \in ExchangeRecordType
    BY <1>1 DEF TypedTask
  <1>3. exchanges' = [exchanges EXCEPT ![a][k.id] = k.ex]
        /\ exchanges \in [Agents -> [RecordIds -> ExchangeRecordType \cup {None}]]
    BY <1>1 DEF SaveExchange, ExchangeTypes, TypeOK
  <1>4. exchanges'[a][k.id] = k.ex /\ OnlyRecord(a, k.id)
    BY <1>2, <1>3 DEF OnlyRecord
  <1>5. k.new \/ exchanges[a][k.id] # None
    BY <1>1 DEF UpdateFails
  <1> QED
    BY <1>1, <1>2, <1>4, <1>5 DEF WritesRecord

LEMMA UpdatedTask ==
  ASSUME ExchangeTypes, NEW a \in Agents, NEW t \in Slots, UpdateStep(a, t)
  PROVE  MovesOn(a, t)
  <1> DEFINE k == tasks[a][t]
             task == AfterUpdate(k)
  <1>1. k \in TaskType /\ Continue(a, t, task)
    BY DEF UpdateStep, ExchangeTypes, TypeOK
  <1>2. tasks'[a][t] = task /\ OnlyTask(a, t)
    BY <1>1, Continued DEF OnlyTask
  <1>3. /\ task.pc \in {"idle", "decide", "sendResponse"}
        /\ task.pc # "idle" => /\ task.id = k.id /\ task.ex = k.ex
                               /\ task.kind = k.kind /\ task.content = k.content
        /\ task.pc = "decide" => /\ task.new = FALSE /\ k.pc = "updateReceived"
                                 /\ k.kind \in StoredKinds
        /\ task.pc = "sendResponse" => k.pc = "updateResponse"
    <2>1. CASE k.pc = "updateReceived" /\ k.kind \in StoredKinds
      BY <1>1, <2>1 DEF AfterUpdate, TaskType
    <2>2. CASE k.pc = "updateResponse"
      BY <1>1, <2>2 DEF AfterUpdate, TaskType
    <2>3. CASE ~(k.pc = "updateReceived" /\ k.kind \in StoredKinds) /\ k.pc # "updateResponse"
      BY <2>3 DEF AfterUpdate, Idle
    <2> QED
      BY <2>1, <2>2, <2>3
  <1> HIDE DEF task
  <1> QED
    BY <1>2, <1>3 DEF MovesOn

LEMMA StoppedTask ==
  ASSUME ExchangeTypes, NEW a \in Agents, NEW t \in Slots, Finish(a, t)
  PROVE  tasks'[a][t] = Idle /\ tasks'[a][t].pc = "idle" /\ OnlyTask(a, t)
  BY Continued DEF Finish, Idle, OnlyTask

LEMMA CrashedTasks ==
  ASSUME ExchangeTypes, NEW a \in Agents, Crash(a)
  PROVE  /\ \A u \in Slots : tasks'[a][u] = Idle /\ tasks'[a][u].pc = "idle"
         /\ \A b \in Agents \ {a}, u \in Slots : tasks'[b][u] = tasks[b][u]
         /\ UNCHANGED <<exchanges, stored, wallet, opened, net>>
  BY DEF Crash, ExchangeTypes, TypeOK, Idle

LEMMA RemovedTask ==
  ASSUME ExchangeTypes, NEW a \in Agents, NEW s \in Callers, NEW id \in RecordIds,
         RemoveStep(a, s, id)
  PROVE  /\ s \in Slots /\ At(a, s, "idle") /\ OnlyTask(a, s)
         /\ exchanges[a][id] # None /\ exchanges'[a][id] = None /\ OnlyRecord(a, id)
         /\ UNCHANGED <<stored, wallet, opened, net>>
         /\ \/ tasks'[a][s].pc = "deleteMessages" /\ tasks'[a][s].id = id
            \/ tasks'[a][s] = tasks[a][s]
  <1>1. /\ exchanges[a][id] # None /\ exchanges'[a][id] = None /\ OnlyRecord(a, id)
        /\ s \in Slots /\ At(a, s, "idle") /\ UNCHANGED <<stored, wallet, opened, net>>
    BY DEF RemoveStep, ExchangeTypes, TypeOK, Slots, OnlyRecord
  <1>2. /\ OnlyTask(a, s)
        /\ \/ tasks'[a][s].pc = "deleteMessages" /\ tasks'[a][s].id = id
           \/ tasks'[a][s] = tasks[a][s]
    <2>1. CASE UNCHANGED tasks
      BY <2>1 DEF OnlyTask
    <2>2. CASE Continue(a, s, [Idle EXCEPT !.pc = "deleteMessages", !.id = id])
      <3> DEFINE task == [Idle EXCEPT !.pc = "deleteMessages", !.id = id]
      <3>1. Continue(a, s, task) /\ task.pc = "deleteMessages" /\ task.id = id
        BY <2>2 DEF Idle
      <3> HIDE DEF task
      <3> QED
        BY <1>1, <3>1, Continued DEF OnlyTask
    <2> QED
      BY <2>1, <2>2 DEF RemoveStep
  <1> QED
    BY <1>1, <1>2

\* A message is deleted, and nothing else changes.
DeletesMessage(a, s, x) ==
  LET id == tasks[a][s].id
  IN  /\ At(a, s, "deleteMessages") /\ id \in RecordIds
      /\ stored[a][id][x] # <<>> /\ stored'[a][id][x] = Tail(stored[a][id][x])
      /\ OnlyMessages(a, id, x)
      /\ UNCHANGED <<exchanges, wallet, opened, net, tasks>>

LEMMA DeletedMessage ==
  ASSUME ExchangeTypes, NEW a \in Agents, NEW s \in Slots, NEW x \in StoredKinds,
         DeleteStep(a, s, x)
  PROVE  DeletesMessage(a, s, x)
  <1> DEFINE id == tasks[a][s].id
             messages == Tail(stored[a][id][x])
  <1>1. /\ id \in RecordIds /\ At(a, s, "deleteMessages") /\ stored[a][id][x] # <<>>
        /\ UNCHANGED <<exchanges, wallet, opened, net, tasks>>
    BY DEF DeleteStep, At, ExchangeTypes, TypedTask
  <1>2. stored' = [stored EXCEPT ![a][id][x] = messages]
        /\ stored \in [Agents -> [RecordIds -> [StoredKinds -> Seq(Contents)]]]
    BY DEF DeleteStep, ExchangeTypes, TypeOK
  <1> HIDE DEF messages
  <1>3. stored'[a][id][x] = messages /\ OnlyMessages(a, id, x)
    BY <1>1, <1>2 DEF OnlyMessages
  <1> QED
    BY <1>1, <1>3 DEF messages, DeletesMessage

\* A credential goes into the wallet.
StoresCredential(a, h) ==
  LET k == tasks[a][h]
      task == tasks'[a][h]
      n == Len(wallet[a]) + 1
  IN  /\ GoesOn(a, h) /\ UNCHANGED <<exchanges, stored, net>>
      /\ k.pc = "storeCredential" /\ task.pc = "saveReceived"
      /\ task.new = k.new /\ task.kind = k.kind /\ task.content = k.content
      /\ task.found = k.found
      /\ task.ex.state = k.ex.state /\ task.ex.verified = k.ex.verified
      /\ task.ex.credentials = k.ex.credentials \cup {n}
      /\ task.ex.auto = k.ex.auto
      /\ k.kind \in StoredKinds /\ k.content \in Contents
      /\ wallet[a] \in Seq(Contents)
      /\ wallet'[a] = Append(wallet[a], k.content)
      /\ \A b \in Agents \ {a} : wallet'[b] = wallet[b]

LEMMA StoredTask ==
  ASSUME ExchangeTypes, NEW a \in Agents, NEW h \in Handlers, StoreCredential(a, h)
  PROVE  StoresCredential(a, h)
  <1> DEFINE k == tasks[a][h]
             n == Len(wallet[a]) + 1
             ex == [k.ex EXCEPT !.credentials = @ \cup {n}]
             task == [k EXCEPT !.pc = "saveReceived", !.ex = ex]
  <1>1. /\ h \in Slots /\ k \in TaskType /\ k.pc = "storeCredential" /\ TypedTask(k)
        /\ wallet[a] \in Seq(Contents) /\ UNCHANGED <<exchanges, stored, opened, net>>
    BY DEF Slots, StoreCredential, ExchangeTypes, TypeOK, At
  <1>2. /\ k.id \in RecordIds /\ k.ex \in ExchangeRecordType /\ k.kind \in StoredKinds
        /\ k.content \in Contents
    BY <1>1 DEF TypedTask
  <1>3. Continue(a, h, task)
    <2>1. Continue(a, h, [k EXCEPT !.pc = "saveReceived", !.ex.credentials = @ \cup {n}])
      BY DEF StoreCredential
    <2>2. [k EXCEPT !.pc = "saveReceived", !.ex.credentials = @ \cup {n}] = task
      BY <1>1 DEF TaskType
    <2> QED
      BY <2>1, <2>2
  <1>4. /\ ex.thread = k.ex.thread /\ ex.connected = k.ex.connected /\ ex.state = k.ex.state
        /\ ex.verified = k.ex.verified /\ ex.auto = k.ex.auto
        /\ ex.credentials = k.ex.credentials \cup {n}
    BY <1>2 DEF ExchangeRecordType
  <1> HIDE DEF ex
  <1>5. /\ task.pc = "saveReceived" /\ task.id = k.id /\ task.new = k.new /\ task.ex = ex
        /\ task.kind = k.kind /\ task.content = k.content /\ task.found = k.found
    BY <1>1 DEF TaskType
  <1> HIDE DEF task
  <1>6. tasks'[a][h] = task /\ OnlyTask(a, h)
    BY <1>1, <1>3, Continued DEF OnlyTask
  <1>7. wallet'[a] = Append(wallet[a], k.content)
        /\ \A b \in Agents \ {a} : wallet'[b] = wallet[b]
    <2>1. wallet' = [wallet EXCEPT ![a] = Append(wallet[a], k.content)]
          /\ wallet \in [Agents -> Seq(Contents)]
      BY DEF StoreCredential, ExchangeTypes, TypeOK
    <2> QED
      BY <2>1
  <1> QED
    BY <1>1, <1>2, <1>4, <1>5, <1>6, <1>7 DEF GoesOn, StoresCredential

-------------------------------------------------------------------------------
(* The ids that tasks work on *)

IdsOf(a, t) ==
  /\ CreatingKeepsId(a, t) /\ HoldingKeepsThread(a, t) /\ DeletedStays(a, t)
  /\ FoundBefore(a, t)

\* A task moves, and no record changes.
LEMMA MoveKeepsIds ==
  ASSUME ExchangeTypes, IdsInv, NEW a \in Agents, NEW t \in Slots,
         OnlyTask(a, t), UNCHANGED exchanges, NEW task, task = tasks'[a][t],
         \/ task.pc = "idle"
         \/ FreshId(a, task.id) /\ Creating(task)
         \/ /\ exchanges[a][task.id] # None /\ Holding(task) /\ task.new = FALSE
            /\ task.ex.thread = exchanges[a][task.id].thread
         \/ /\ task.id = tasks[a][t].id /\ task.ex.thread = tasks[a][t].ex.thread
            /\ Creating(task) <=> Creating(tasks[a][t])
            /\ Holding(task) => Holding(tasks[a][t])
            /\ task.pc # "deleteMessages"
            /\ task.pc \in {"storeCredential", "decide", "updateOnly"} => ~task.new
            /\ ~At(a, t, "idle")
  PROVE  IdsInv'
  <1>1. \A b \in Agents, u \in Slots : <<b, u>> # <<a, t>> => tasks'[b][u] = tasks[b][u]
    BY DEF OnlyTask
  <1>2. IdsOf(a, t)'
    <2>1. CASE task.pc = "idle"
      BY <2>1 DEF CreatingKeepsId, HoldingKeepsThread, DeletedStays, FoundBefore, Creating,
                  Holding, At, IdsOf
    <2>2. CASE FreshId(a, task.id) /\ Creating(task)
      <3>1. exchanges[a][task.id] = None /\ \A u \in Slots : tasks[a][u].id # task.id
        BY <2>2 DEF FreshId, Unused
      <3>2. CreatingKeepsId(a, t)'
        BY <1>1, <3>1 DEF CreatingKeepsId, At
      <3>3. task.pc \in {"saveReceived", "updateReceived", "saveResponse", "updateResponse"}
        BY <2>2 DEF Creating
      <3> QED
        BY <2>2, <3>2, <3>3 DEF HoldingKeepsThread, DeletedStays, FoundBefore, Holding, At, IdsOf
    <2>3. CASE /\ exchanges[a][task.id] # None /\ Holding(task) /\ task.new = FALSE
               /\ task.ex.thread = exchanges[a][task.id].thread
      BY <1>1, <2>3 DEF CreatingKeepsId, HoldingKeepsThread, DeletedStays, FoundBefore,
                        Creating, Holding, At, IdsOf
    <2>4. CASE /\ task.id = tasks[a][t].id /\ task.ex.thread = tasks[a][t].ex.thread
               /\ Creating(task) <=> Creating(tasks[a][t])
               /\ Holding(task) => Holding(tasks[a][t])
               /\ task.pc # "deleteMessages"
               /\ task.pc \in {"storeCredential", "decide", "updateOnly"} => ~task.new
               /\ ~At(a, t, "idle")
      <3>1. CreatingKeepsId(a, t) /\ HoldingKeepsThread(a, t)
        BY DEF IdsInv
      <3> QED
        BY <1>1, <2>4, <3>1 DEF CreatingKeepsId, HoldingKeepsThread, DeletedStays,
                                FoundBefore, At, IdsOf
    <2> QED
      BY <2>1, <2>2, <2>3, <2>4
  <1>3. ASSUME NEW b \in Agents, NEW u \in Slots, <<b, u>> # <<a, t>>
        PROVE  IdsOf(b, u)'
    <2>1. IdsOf(b, u)
      BY DEF IdsInv, IdsOf
    <2>2. tasks'[b][u] = tasks[b][u]
      BY <1>1, <1>3
    <2>3. HoldingKeepsThread(b, u)' /\ DeletedStays(b, u)' /\ FoundBefore(b, u)'
      BY <2>1, <2>2 DEF IdsOf, HoldingKeepsThread, DeletedStays, FoundBefore, At
    <2>4. ASSUME Creating(tasks[b][u]), NEW v \in Slots \ {u}, ~At(b, v, "idle")'
          PROVE  tasks'[b][v].id # tasks[b][u].id
      <3>1. CASE <<b, v>> # <<a, t>>
        BY <1>1, <2>1, <2>4, <3>1 DEF CreatingKeepsId, At, IdsOf
      <3>2. CASE b = a /\ v = t
        <4>1. ~(task.pc = "idle")
          BY <2>4, <3>2 DEF At
        <4>2. CASE FreshId(a, task.id) /\ Creating(task)
          BY <3>2, <4>2 DEF FreshId, Unused
        <4>3. CASE exchanges[a][task.id] # None
          BY <2>1, <2>4, <3>2, <4>3 DEF CreatingKeepsId, IdsOf
        <4>4. CASE task.id = tasks[a][t].id /\ ~At(a, t, "idle")
          BY <2>1, <2>4, <3>2, <4>4 DEF CreatingKeepsId, IdsOf
        <4> QED
          BY <4>1, <4>2, <4>3, <4>4
      <3> QED
        BY <3>1, <3>2
    <2>5. CreatingKeepsId(b, u)'
      BY <2>1, <2>2, <2>4 DEF CreatingKeepsId, IdsOf
    <2> QED
      BY <2>3, <2>5 DEF IdsOf
  <1> QED
    BY <1>2, <1>3 DEF IdsInv, IdsOf

LEMMA TakingUpKeepsIds ==
  ASSUME ExchangeTypes, IdsInv, NEW a \in Agents, NEW t \in Slots, NEW id \in RecordIds,
         TakesUp(a, t, id), tasks'[a][t].pc \notin {"idle", "deleteMessages"}
  PROVE  IdsInv'
  <1> DEFINE task == tasks'[a][t]
  <1>1. /\ exchanges[a][task.id] # None /\ Holding(task) /\ task.new = FALSE
        /\ task.ex.thread = exchanges[a][task.id].thread
        /\ OnlyTask(a, t) /\ UNCHANGED exchanges
    BY DEF TakesUp, Holding, Creating
  <1> QED
    BY <1>1, MoveKeepsIds

LEMMA MakingKeepsIds ==
  ASSUME ExchangeTypes, IdsInv, NEW a \in Agents, NEW t \in Slots, NEW id \in RecordIds,
         NEW th, NEW connected, NEW state, NEW kind, NEW content,
         Makes(a, t, id, th, connected, state, kind, content),
         tasks'[a][t].pc \in {"saveReceived", "saveResponse"}
  PROVE  IdsInv'
  <1> DEFINE task == tasks'[a][t]
  <1>1. FreshId(a, task.id) /\ Creating(task) /\ OnlyTask(a, t) /\ UNCHANGED exchanges
    BY DEF Makes, Creating
  <1> QED
    BY <1>1, MoveKeepsIds

LEMMA GoingOnKeepsIds ==
  ASSUME ExchangeTypes, IdsInv, NEW a \in Agents, NEW t \in Slots, GoesOn(a, t),
         UNCHANGED exchanges, tasks'[a][t].new = tasks[a][t].new,
         tasks[a][t].pc \in {"storeCredential", "saveReceived", "saveResponse", "decide"},
         tasks'[a][t].pc \in {"saveReceived", "updateReceived", "saveResponse", "updateResponse"}
  PROVE  IdsInv'
  <1> DEFINE k == tasks[a][t]
             task == tasks'[a][t]
  <1>1. k.pc \in {"storeCredential", "decide"} => ~k.new
    BY DEF IdsInv, FoundBefore
  <1>2. /\ task.id = k.id /\ task.ex.thread = k.ex.thread
        /\ Creating(task) <=> Creating(k) 
        /\ Holding(task) => Holding(k)
        /\ task.pc # "deleteMessages"
        /\ task.pc \notin {"storeCredential", "decide", "updateOnly"}
        /\ ~At(a, t, "idle") /\ OnlyTask(a, t)
    BY <1>1 DEF GoesOn, Creating, Holding, At
  <1> QED
    BY <1>2, MoveKeepsIds

LEMMA SameIds ==
  ASSUME IdsInv, UNCHANGED <<exchanges, tasks>>
  PROVE  IdsInv'
  BY DEF IdsInv, CreatingKeepsId, HoldingKeepsThread, DeletedStays, FoundBefore, At

LEMMA CrashIds ==
  ASSUME ExchangeTypes, IdsInv, NEW a \in Agents, Crash(a)
  PROVE  IdsInv'
  <1>1. /\ \A u \in Slots : tasks'[a][u].pc = "idle"
        /\ \A b \in Agents \ {a}, u \in Slots : tasks'[b][u] = tasks[b][u]
        /\ UNCHANGED exchanges
    BY CrashedTasks
  <1>2. ASSUME NEW b \in Agents, NEW u \in Slots PROVE IdsOf(b, u)'
    <2>1. CASE b = a
      BY <1>1, <2>1 DEF CreatingKeepsId, HoldingKeepsThread, DeletedStays, FoundBefore,
                        Creating, Holding, At, IdsOf
    <2>2. CASE b # a
      <3>1. IdsOf(b, u)
        BY DEF IdsInv, IdsOf
      <3> QED
        BY <1>1, <2>2, <3>1 DEF CreatingKeepsId, HoldingKeepsThread, DeletedStays,
                                FoundBefore, At, IdsOf
    <2> QED
      BY <2>1, <2>2
  <1> QED
    BY <1>2 DEF IdsInv, IdsOf

LEMMA UpdateIds ==
  ASSUME ExchangeTypes, IdsInv, NEW a \in Agents, NEW t \in Slots, UpdateStep(a, t)
  PROVE  IdsInv'
  <1> DEFINE k == tasks[a][t]
             task == tasks'[a][t]
  <1>0. WritesRecord(a, t) /\ MovesOn(a, t)
    BY UpdatedRecord, UpdatedTask
  <1>1. /\ k \in TaskType /\ k.id \in RecordIds
        /\ k.pc \in {"updateReceived", "updateResponse", "updateOnly"}
        /\ k.new \/ exchanges[a][k.id] # None
        /\ exchanges'[a][k.id] = k.ex
        /\ \A b \in Agents, id \in RecordIds :
              <<b, id>> # <<a, k.id>> => exchanges'[b][id] = exchanges[b][id]
        /\ \A b \in Agents, u \in Slots : <<b, u>> # <<a, t>> => tasks'[b][u] = tasks[b][u]
    <2>1. /\ k \in TaskType /\ k.id \in RecordIds /\ OnlyTask(a, t) /\ OnlyRecord(a, k.id)
          /\ k.pc \in {"updateReceived", "updateResponse", "updateOnly"}
          /\ k.new \/ exchanges[a][k.id] # None
          /\ exchanges'[a][k.id] = k.ex
      BY <1>0 DEF WritesRecord, MovesOn
    <2> QED
      BY <2>1 DEF OnlyTask, OnlyRecord
  <1>2. /\ task.pc \in {"idle", "decide", "sendResponse"}
        /\ task.pc # "idle" => task.id = k.id /\ task.ex = k.ex
        /\ task.pc = "decide" => task.new = FALSE
    BY <1>0 DEF MovesOn
  <1>3. CreatingKeepsId(a, t) /\ HoldingKeepsThread(a, t) /\ FoundBefore(a, t)
    BY DEF IdsInv
  <1>4. Creating(k) \/ (Holding(k) /\ exchanges[a][k.id] # None /\ k.new # TRUE)
    BY <1>1, <1>3 DEF Creating, Holding, FoundBefore, At, TaskType
  <1>5. CreatingKeepsId(a, t)' /\ HoldingKeepsThread(a, t)' /\ DeletedStays(a, t)'
        /\ FoundBefore(a, t)'
    BY <1>1, <1>2 DEF CreatingKeepsId, HoldingKeepsThread, DeletedStays, FoundBefore,
                      Creating, Holding, At
  <1>6. ASSUME NEW b \in Agents, NEW u \in Slots, <<b, u>> # <<a, t>>
        PROVE  CreatingKeepsId(b, u)' /\ HoldingKeepsThread(b, u)' /\ DeletedStays(b, u)'
               /\ FoundBefore(b, u)'
    <2> DEFINE l == tasks[b][u]
    <2>1. CreatingKeepsId(b, u) /\ HoldingKeepsThread(b, u) /\ DeletedStays(b, u)
          /\ FoundBefore(b, u) /\ tasks'[b][u] = l /\ (l.pc # "idle" => l.id \in RecordIds)
      BY <1>1, <1>6 DEF IdsInv, ExchangeTypes, TypedTask
    <2>2. \A v \in Slots : ~At(b, v, "idle")' =>
            ~At(b, v, "idle") /\ tasks'[b][v].id = tasks[b][v].id
      BY <1>1, <1>2 DEF At
    <2>3. CASE <<b, l.id>> = <<a, k.id>> /\ l.pc # "idle"
      <3>1. u \in Slots \ {t} /\ b = a /\ l.id = k.id
        BY <1>6, <2>3
      <3>2. ~Creating(k) /\ ~Creating(l)
        BY <1>1, <1>3, <2>1, <2>3, <3>1 DEF CreatingKeepsId, At
      <3>3. exchanges[a][k.id] # None /\ exchanges[a][k.id].thread = k.ex.thread
        BY <1>3, <1>4, <3>2 DEF HoldingKeepsThread
      <3> QED
        BY <1>1, <2>1, <3>1, <3>2, <3>3 DEF CreatingKeepsId, HoldingKeepsThread, DeletedStays,
                                             FoundBefore, At
    <2>4. CASE <<b, l.id>> # <<a, k.id>> /\ l.pc # "idle"
      <3>1. exchanges'[b][l.id] = exchanges[b][l.id]
        BY <1>1, <2>1, <2>4
      <3>2. HoldingKeepsThread(b, u)' /\ DeletedStays(b, u)' /\ FoundBefore(b, u)'
        BY <2>1, <3>1 DEF HoldingKeepsThread, DeletedStays, FoundBefore, At
      <3>3. CreatingKeepsId(b, u)'
        BY <2>1, <2>2, <3>1 DEF CreatingKeepsId
      <3> QED
        BY <3>2, <3>3
    <2>5. CASE l.pc = "idle"
      BY <2>1, <2>5 DEF CreatingKeepsId, HoldingKeepsThread, DeletedStays, FoundBefore,
                        Creating, Holding, At
    <2> QED
      BY <2>3, <2>4, <2>5
  <1> QED
    BY <1>5, <1>6 DEF IdsInv

LEMMA RemoveIds ==
  ASSUME ExchangeTypes, IdsInv, NEW a \in Agents, NEW s \in Callers, NEW id \in RecordIds,
         RemoveStep(a, s, id)
  PROVE  IdsInv'
  <1>1. /\ exchanges[a][id] # None /\ exchanges'[a][id] = None
        /\ \A b \in Agents, i \in RecordIds :
              <<b, i>> # <<a, id>> => exchanges'[b][i] = exchanges[b][i]
        /\ s \in Slots
    BY RemovedTask DEF OnlyRecord
  <1>2. /\ \A b \in Agents, u \in Slots : <<b, u>> # <<a, s>> => tasks'[b][u] = tasks[b][u]
        /\ \/ tasks'[a][s].pc = "deleteMessages" /\ tasks'[a][s].id = id
           \/ tasks'[a][s] = tasks[a][s] /\ tasks[a][s].pc = "idle"
    BY RemovedTask DEF OnlyTask, At
  <1>3. CreatingKeepsId(a, s)' /\ HoldingKeepsThread(a, s)' /\ DeletedStays(a, s)'
        /\ FoundBefore(a, s)'
    BY <1>1, <1>2 DEF CreatingKeepsId, HoldingKeepsThread, DeletedStays, FoundBefore,
                      Creating, Holding, At
  <1>4. ASSUME NEW b \in Agents, NEW u \in Slots, <<b, u>> # <<a, s>>
        PROVE  CreatingKeepsId(b, u)' /\ HoldingKeepsThread(b, u)' /\ DeletedStays(b, u)'
               /\ FoundBefore(b, u)'
    <2> DEFINE l == tasks[b][u]
    <2>1. CreatingKeepsId(b, u) /\ HoldingKeepsThread(b, u) /\ DeletedStays(b, u)
          /\ FoundBefore(b, u) /\ tasks'[b][u] = l /\ (l.pc # "idle" => l.id \in RecordIds)
      BY <1>2, <1>4 DEF IdsInv, ExchangeTypes, TypedTask
    <2>2. l.pc # "idle" =>
            exchanges'[b][l.id] = None \/ exchanges'[b][l.id] = exchanges[b][l.id]
      BY <1>1, <2>1
    <2>3. HoldingKeepsThread(b, u)' /\ DeletedStays(b, u)' /\ FoundBefore(b, u)'
      BY <2>1, <2>2 DEF HoldingKeepsThread, DeletedStays, FoundBefore, At, Holding
    <2>4. ASSUME Creating(l) PROVE CreatingKeepsId(b, u)'
      <3>1. exchanges[b][l.id] = None /\ l.pc # "idle"
        BY <2>1, <2>4 DEF CreatingKeepsId, Creating
      <3>2. exchanges'[b][l.id] = None /\ <<b, l.id>> # <<a, id>>
        BY <1>1, <2>2, <3>1
      <3>3. \A v \in Slots \ {u} : ~At(b, v, "idle")' => tasks'[b][v].id # l.id
        BY <1>2, <2>1, <2>4, <3>2 DEF CreatingKeepsId, At
      <3> QED
        BY <2>1, <3>2, <3>3 DEF CreatingKeepsId
    <2> QED
      BY <2>1, <2>3, <2>4 DEF CreatingKeepsId
  <1> QED
    BY <1>3, <1>4 DEF IdsInv

LEMMA IdsKept ==
  ASSUME ExchangeTypes, IdsInv, Shapes
  PROVE  IdsInv'
  <1>1. CASE \E a \in Agents : Crash(a)
    BY <1>1, CrashIds
  <1>2. ASSUME NEW a \in Agents, NEW t \in Slots, TaskShapes(a, t) PROVE IdsInv'
    <2>1. ASSUME Finish(a, t), UNCHANGED exchanges PROVE IdsInv'
      <3>1. tasks'[a][t].pc = "idle" /\ OnlyTask(a, t) /\ UNCHANGED exchanges
        BY <2>1, StoppedTask
      <3> QED
        BY <3>1, MoveKeepsIds
    <2>2. CASE SaveStep(a, t)
      <3>w. SavesAndGoesOn(a, t)
        BY <2>2, SavedTask
      <3>1. /\ GoesOn(a, t) /\ UNCHANGED exchanges /\ tasks'[a][t].new = tasks[a][t].new
            /\ tasks[a][t].pc \in {"saveReceived", "saveResponse"}
            /\ tasks'[a][t].pc \in {"updateReceived", "updateResponse"}
        BY <2>2, <3>w DEF SaveStep, SavesAndGoesOn
      <3> QED
        BY <3>1, GoingOnKeepsIds
    <2>3. CASE \E x \in StoredKinds : DeleteStep(a, t, x)
      BY <2>3, SameIds DEF DeleteStep
    <2> QED
      BY <1>2, <2>1, <2>2, <2>3, UpdateIds DEF TaskShapes, Stop, SendResponse
  <1>3. ASSUME NEW a \in Agents, NEW h \in Handlers, NEW m \in net, NEW id \in RecordIds,
               Receipts(a, h, m, id)
        PROVE  IdsInv'
    <2>1. CASE AbandonStep(a, h, m, id)
      <3>1. TakesUp(a, h, id) /\ h \in Slots /\ tasks'[a][h].pc = "updateOnly"
        BY <2>1, AbandonedTask DEF Slots
      <3> QED
        BY <3>1, TakingUpKeepsIds
    <2>2. CASE Opening(a, h, m, id)
      <3>1. PICK state \in StateNames : OpenStep(a, h, m, id, state)
        BY <2>2 DEF Opening
      <3>2. /\ Makes(a, h, id, m.thread, TRUE, state, m.kind, m.content)
            /\ tasks'[a][h].pc = "saveReceived" /\ h \in Slots
        BY <3>1, OpenedTask DEF Slots
      <3> QED
        BY <3>2, MakingKeepsIds
    <2>3. CASE Resuming(a, h, m, id)
      <3>1. PICK after \in StateNames, pc \in Steps, verdict \in BOOLEAN \cup {None} :
              ResumeStep(a, h, m, id, after, pc, verdict)
        BY <2>3 DEF Resuming
      <3>w2. ResumesWith(a, h, m, id, after, pc, verdict)
        BY <3>1, ResumedTask
      <3>2. TakesUp(a, h, id) /\ h \in Slots /\ tasks'[a][h].pc \notin {"idle", "deleteMessages"}
        BY <3>1, <3>w2 DEF Slots, ResumesWith
      <3> QED
        BY <3>2, TakingUpKeepsIds
    <2> QED
      BY <1>3, <2>1, <2>2, <2>3 DEF Receipts
  <1>4. ASSUME NEW a \in Agents, NEW h \in Handlers, StoreCredential(a, h) \/ Deciding(a, h)
        PROVE  IdsInv'
    <2>1. CASE StoreCredential(a, h)
      <3>w3. StoresCredential(a, h)
        BY <2>1, StoredTask
      <3>1. /\ GoesOn(a, h) /\ UNCHANGED exchanges /\ tasks'[a][h].new = tasks[a][h].new
            /\ tasks[a][h].pc = "storeCredential" /\ tasks'[a][h].pc = "saveReceived"
            /\ h \in Slots
        BY <2>1, <3>w3 DEF Slots, StoresCredential
      <3> QED
        BY <3>1, GoingOnKeepsIds
    <2>2. CASE Deciding(a, h)
      <3>1. PICK answer \in Answers : DecideStep(a, h, answer)
        BY <2>2 DEF Deciding
      <3>w4. AnswersWith(a, h, answer)
        BY <3>1, DecidedTask
      <3>2. /\ GoesOn(a, h) /\ UNCHANGED exchanges /\ tasks'[a][h].new = tasks[a][h].new
            /\ tasks[a][h].pc = "decide"
            /\ tasks'[a][h].pc \in {"saveResponse", "updateResponse"} /\ h \in Slots
        BY <3>1, <3>w4 DEF Slots, AnswersWith
      <3> QED
        BY <3>2, GoingOnKeepsIds
    <2> QED
      BY <1>4, <2>1, <2>2
  <1>5. ASSUME NEW a \in Agents, NEW s \in Callers, NEW id \in RecordIds, CallShapes(a, s, id)
        PROVE  IdsInv'
    <2>1. CASE DeclineStep(a, s, id)
      <3>1. TakesUp(a, s, id) /\ s \in Slots /\ tasks'[a][s].pc = "updateOnly"
        BY <2>1, DeclinedTask DEF Slots
      <3> QED
        BY <3>1, TakingUpKeepsIds
    <2>2. CASE ReportStep(a, id)
      BY <2>2, SameIds DEF ReportStep
    <2>3. CASE Replying(a, s, id)
      <3>1. PICK answer \in Answers, option \in AutoModes \cup {None} :
              ReplyStep(a, s, id, answer, option)
        BY <2>3 DEF Replying
      <3>w5. RepliesWith(a, s, id, answer)
        BY <3>1, RepliedTask
      <3>2. TakesUp(a, s, id) /\ s \in Slots /\ tasks'[a][s].pc \in {"saveResponse", "updateResponse"}
        BY <3>1, <3>w5 DEF Slots, RepliesWith
      <3> QED
        BY <3>2, TakingUpKeepsIds
    <2>4. CASE Starting(a, s, id)
      <3>1. PICK th \in Threads, kind \in StoredKinds, state \in StateNames,
                 connected \in BOOLEAN, c \in Contents, option \in AutoModes \cup {None} :
              StartStep(a, s, th, id, kind, state, connected, c, option)
        BY <2>4 DEF Starting
      <3>2. /\ Makes(a, s, id, th, connected, state, kind, c)
            /\ tasks'[a][s].pc = "saveResponse" /\ s \in Slots
        BY <3>1, StartedTask DEF Slots
      <3> QED
        BY <3>2, MakingKeepsIds
    <2> QED
      BY <1>5, <2>1, <2>2, <2>3, <2>4, RemoveIds DEF CallShapes
  <1> QED
    BY <1>1, <1>2, <1>3, <1>4, <1>5 DEF Shapes

LEMMA IdsInit ==
  ASSUME Init
  PROVE  IdsInv
  <1>1. \A a \in Agents, t \in Slots : tasks[a][t].pc = "idle"
    BY DEF Init, Idle
  <1> QED
    BY <1>1 DEF IdsInv, CreatingKeepsId, HoldingKeepsThread, DeletedStays, FoundBefore,
                Creating, Holding, At

-------------------------------------------------------------------------------
(* The threads of exchanges *)

\* What a step may make of the threads: only the task moves, no thread is opened, and
\* the messages it sends are of threads that others have heard of.
LEMMA MoveKeepsThreads ==
  ASSUME ExchangeTypes, ThreadInv, NEW a \in Agents, NEW t \in Slots,
         OnlyTask(a, t), UNCHANGED <<exchanges, opened>>,
         \A m \in net' : Heard(m.thread),
         NEW task, task = tasks'[a][t],
         \/ ~Active(task)
         \/ /\ task.ex.connected /\ Heard(task.ex.thread)
            /\ Creating(task) =>
                 /\ t \notin Callers
                 /\ \A id \in ExchangesOf(a) : exchanges[a][id].thread # task.ex.thread
         \/ /\ task.ex.connected /\ Beginning(a, t) /\ Creating(task)
            /\ task.ex.thread = ThreadOf(a, t)
  PROVE  ThreadInv'
  <1>1. \A b \in Agents, u \in Slots : <<b, u>> # <<a, t>> => tasks'[b][u] = tasks[b][u]
    BY DEF OnlyTask
  <1>2. \A b \in Agents, u \in Slots : Beginning(b, u)' =>
          Beginning(b, u) /\ ThreadOf(b, u)' = ThreadOf(b, u)
    <2> SUFFICES ASSUME NEW b \in Agents, NEW u \in Slots, Beginning(b, u)'
                 PROVE  Beginning(b, u) /\ ThreadOf(b, u)' = ThreadOf(b, u)
      OBVIOUS
    <2>1. CASE <<b, u>> # <<a, t>>
      BY <1>1, <2>1 DEF Beginning, ThreadOf
    <2>2. CASE b = a /\ u = t
      BY <2>2 DEF Beginning, ThreadOf, Creating, Active
    <2> QED
      BY <2>1, <2>2
  <1>3. \A th : Heard(th) => Heard(th)'
    BY <1>2 DEF Heard
  <1>4. ThreadsOfRecords' /\ OneExchangePerThread'
    BY <1>3 DEF ThreadInv, ThreadsOfRecords, ExchangesOf, OneExchangePerThread
  <1>5. ThreadsOfMessages'
    BY <1>3 DEF ThreadsOfMessages
  <1>6. BeginningsDiffer'
    <2>1. BeginningsDiffer
      BY DEF ThreadInv
    <2> QED
      BY <1>2, <2>1 DEF BeginningsDiffer
  <1>7. ASSUME NEW b \in Agents, NEW u \in Slots
        PROVE  ThreadOfTask(b, u)' /\ CreatingIsFirst(b, u)'
    <2>1. ThreadOfTask(b, u) /\ CreatingIsFirst(b, u)
      BY DEF ThreadInv
    <2>2. CASE <<b, u>> # <<a, t>>
      BY <1>1, <1>3, <2>1, <2>2 DEF ThreadOfTask, CreatingIsFirst, Beginning, ThreadOf, ExchangesOf
    <2>3. CASE b = a /\ u = t
      <3>1. CASE ~Active(task)
        BY <2>3, <3>1 DEF ThreadOfTask, CreatingIsFirst, Active, Creating
      <3>2. CASE /\ task.ex.connected /\ Heard(task.ex.thread)
                 /\ Creating(task) =>
                      /\ t \notin Callers
                      /\ \A id \in ExchangesOf(a) : exchanges[a][id].thread # task.ex.thread
        <4>1. Heard(task.ex.thread)'
          BY <1>3, <3>2
        <4> QED
          BY <2>3, <3>2, <4>1 DEF ThreadOfTask, CreatingIsFirst, Beginning, ThreadOf, ExchangesOf
      <3>3. CASE /\ task.ex.connected /\ Beginning(a, t) /\ Creating(task)
                 /\ task.ex.thread = ThreadOf(a, t)
        <4>1. ThreadOf(a, t) \in opened
          BY <2>1, <2>3, <3>3 DEF ThreadOfTask, Beginning, Creating, Active
        <4> QED
          BY <2>1, <2>3, <3>3, <4>1 DEF ThreadOfTask, CreatingIsFirst, Beginning, ThreadOf,
                                        ExchangesOf
      <3> QED
        BY <3>1, <3>2, <3>3
    <2> QED
      BY <2>2, <2>3
  <1> QED
    BY <1>4, <1>5, <1>6, <1>7 DEF ThreadInv

LEMMA TakingUpKeepsThreads ==
  ASSUME ExchangeTypes, ThreadInv, NEW a \in Agents, NEW t \in Slots, NEW id \in RecordIds,
         TakesUp(a, t, id), \A m \in net' : Heard(m.thread)
  PROVE  ThreadInv'
  <1> DEFINE task == tasks'[a][t]
  <1>1. exchanges[a][id].connected /\ Heard(exchanges[a][id].thread)
    BY DEF TakesUp, ThreadInv, ThreadsOfRecords, ExchangesOf
  <1>2. /\ task.ex.connected /\ Heard(task.ex.thread) /\ ~Creating(task)
        /\ OnlyTask(a, t) /\ UNCHANGED <<exchanges, opened>>
    BY <1>1 DEF TakesUp, Creating
  <1> QED
    BY <1>2, MoveKeepsThreads

LEMMA GoingOnKeepsThreads ==
  ASSUME ExchangeTypes, ThreadInv, NEW a \in Agents, NEW t \in Slots, GoesOn(a, t),
         UNCHANGED <<exchanges, net>>, Active(tasks[a][t]),
         Creating(tasks'[a][t]) <=> Creating(tasks[a][t])
  PROVE  ThreadInv'
  <1> DEFINE k == tasks[a][t]
             task == tasks'[a][t]
  <1>1. ThreadOfTask(a, t) /\ CreatingIsFirst(a, t) /\ \A m \in net' : Heard(m.thread)
    BY DEF ThreadInv, ThreadsOfMessages
  <1>2. /\ task.ex.thread = ThreadOf(a, t) /\ task.ex.connected
        /\ OnlyTask(a, t) /\ UNCHANGED <<exchanges, opened>>
    BY <1>1 DEF GoesOn, ThreadOf, ThreadOfTask
  <1>3. CASE Beginning(a, t)
    <2>1. Creating(task)
      BY <1>3 DEF Beginning
    <2> QED
      BY <1>1, <1>2, <1>3, <2>1, MoveKeepsThreads
  <1>4. CASE ~Beginning(a, t)
    <2>1. Heard(task.ex.thread)
      BY <1>1, <1>2, <1>4 DEF ThreadOfTask
    <2>2. Creating(task) =>
            /\ t \notin Callers
            /\ \A id \in ExchangesOf(a) : exchanges[a][id].thread # task.ex.thread
      BY <1>1, <1>2, <1>4 DEF Beginning, CreatingIsFirst
    <2> QED
      BY <1>1, <1>2, <2>1, <2>2, MoveKeepsThreads
  <1> QED
    BY <1>3, <1>4

\* A task ends; it may have sent something.
LEMMA EndingKeepsThreads ==
  ASSUME ExchangeTypes, ThreadInv, NEW a \in Agents, NEW t \in Slots,
         Finish(a, t), UNCHANGED <<exchanges, opened>>, \A m \in net' : Heard(m.thread)
  PROVE  ThreadInv'
  <1>1. OnlyTask(a, t) /\ ~Active(tasks'[a][t])
    BY StoppedTask DEF Active
  <1> QED
    BY <1>1, MoveKeepsThreads

LEMMA OpeningKeepsThreads ==
  ASSUME ExchangeTypes, ExchangeAssumption, ThreadInv, NEW a \in Agents, NEW h \in Handlers,
         NEW m \in net, NEW id \in RecordIds, Opening(a, h, m, id)
  PROVE  ThreadInv'
  <1> DEFINE task == tasks'[a][h]
  <1>1. PICK state \in StateNames : OpenStep(a, h, m, id, state)
    BY DEF Opening
  <1>2. Makes(a, h, id, m.thread, TRUE, state, m.kind, m.content) /\ UNCHANGED opened
    BY <1>1, OpenedTask DEF OpenStep
  <1>3. /\ OnlyTask(a, h) /\ UNCHANGED <<exchanges, opened>> /\ h \in Slots
        /\ task.ex.connected /\ task.ex.thread = m.thread
    BY <1>2 DEF Makes
  <1>4. Heard(m.thread) /\ \A n \in net' : Heard(n.thread)
    BY <1>1, DeliveredTypes DEF OpenStep, ThreadInv, ThreadsOfMessages
  <1>5. Matching(a, m.thread) = {} /\ h \notin Callers
    BY <1>1 DEF OpenStep, ExchangeAssumption
  <1>6. \A i \in ExchangesOf(a) : exchanges[a][i].thread # m.thread
    BY <1>5 DEF ThreadInv, ThreadsOfRecords, ExchangesOf, Matching
  <1> QED
    BY <1>3, <1>4, <1>5, <1>6, MoveKeepsThreads

\* A call opens a thread.
LEMMA StartingKeepsThreads ==
  ASSUME ExchangeTypes, ~WithoutConnection, ThreadInv, NEW a \in Agents, NEW s \in Callers,
         NEW id \in RecordIds, Starting(a, s, id)
  PROVE  ThreadInv'
  <1>1. PICK th \in Threads, kind \in StoredKinds, state \in StateNames, connected \in BOOLEAN,
             c \in Contents, option \in AutoModes \cup {None} :
          StartStep(a, s, th, id, kind, state, connected, c, option)
    BY DEF Starting
  <1>2. /\ OnlyTask(a, s) /\ UNCHANGED exchanges /\ s \in Slots /\ connected = TRUE
        /\ th \notin opened /\ opened' = opened \cup {th} /\ UNCHANGED net
        /\ tasks'[a][s].ex.thread = th /\ tasks'[a][s].ex.connected /\ Creating(tasks'[a][s])
    <2>1. Makes(a, s, id, th, connected, state, kind, c) /\ tasks'[a][s].pc = "saveResponse"
      BY <1>1, StartedTask
    <2>2. connected = TRUE
      BY <1>1 DEF StartStep
    <2>3. th \notin opened /\ opened' = opened \cup {th} /\ UNCHANGED net
      BY <1>1 DEF StartStep
    <2> QED
      BY <2>1, <2>2, <2>3 DEF Makes, Creating
  <1>3. /\ Beginning(a, s)' /\ ThreadOf(a, s)' = th
        /\ \A b \in Agents, u \in Slots : <<b, u>> # <<a, s>> => tasks'[b][u] = tasks[b][u]
    BY <1>2 DEF Beginning, ThreadOf, OnlyTask
  <1>4. \A b \in Agents, u \in Slots : <<b, u>> # <<a, s>> =>
          /\ Beginning(b, u)' <=> Beginning(b, u)
          /\ ThreadOf(b, u)' = ThreadOf(b, u)
    BY <1>3 DEF Beginning, ThreadOf
  <1>5. ASSUME NEW x, Heard(x) PROVE Heard(x)' /\ x # th
    <2>1. x \in opened
      BY <1>5 DEF Heard
    <2> QED
      BY <1>2, <1>3, <1>4, <1>5, <2>1 DEF Heard
  <1>6. ThreadsOfRecords' /\ OneExchangePerThread' /\ ThreadsOfMessages'
    BY <1>2, <1>5 DEF ThreadInv, ThreadsOfRecords, ExchangesOf, OneExchangePerThread,
                      ThreadsOfMessages
  <1>7. BeginningsDiffer'
    <2>1. \A b \in Agents, u \in Slots : Beginning(b, u) => ThreadOf(b, u) # th
      BY <1>2 DEF ThreadInv, ThreadOfTask, Beginning, Creating, Active
    <2>2. BeginningsDiffer
      BY DEF ThreadInv
    <2> QED
      BY <1>3, <1>4, <2>1, <2>2 DEF BeginningsDiffer
  <1>8. ASSUME NEW b \in Agents, NEW u \in Slots
        PROVE  ThreadOfTask(b, u)' /\ CreatingIsFirst(b, u)'
    <2>1. CASE <<b, u>> # <<a, s>>
      <3>1. ThreadOfTask(b, u) /\ CreatingIsFirst(b, u) /\ tasks'[b][u] = tasks[b][u]
        BY <1>3, <2>1 DEF ThreadInv
      <3>2. ThreadOfTask(b, u)'
        BY <1>2, <1>4, <1>5, <2>1, <3>1 DEF ThreadOfTask
      <3>3. CreatingIsFirst(b, u)'
        BY <1>2, <1>4, <2>1, <3>1 DEF CreatingIsFirst, ExchangesOf
      <3> QED
        BY <3>2, <3>3
    <2>2. CASE b = a /\ u = s
      <3>1. ThreadOfTask(b, u)'
        BY <1>2, <1>3, <2>2 DEF ThreadOfTask
      <3>2. CreatingIsFirst(b, u)'
        BY <1>2, <1>3, <1>5, <2>2 DEF CreatingIsFirst, ExchangesOf, ThreadInv, ThreadsOfRecords
      <3> QED
        BY <3>1, <3>2
    <2> QED
      BY <2>1, <2>2
  <1> QED
    BY <1>6, <1>7, <1>8 DEF ThreadInv

LEMMA UpdateKeepsThreads ==
  ASSUME ExchangeTypes, IdsInv, ExchangeAssumption, OneHandler, ThreadInv,
         NEW a \in Agents, NEW t \in Slots, UpdateStep(a, t)
  PROVE  ThreadInv'
  <1> DEFINE k == tasks[a][t]
             task == tasks'[a][t]
             th == ThreadOf(a, t)
  <1>0. WritesRecord(a, t) /\ MovesOn(a, t)
    BY UpdatedRecord, UpdatedTask
  <1>1. /\ k.id \in RecordIds /\ OnlyTask(a, t) /\ OnlyRecord(a, k.id)
        /\ k.pc \in {"updateReceived", "updateResponse", "updateOnly"}
        /\ k.new \/ exchanges[a][k.id] # None
        /\ exchanges'[a][k.id] = k.ex /\ UNCHANGED <<opened, net>>
    BY <1>0 DEF WritesRecord, MovesOn
  <1>2. /\ task.pc \in {"idle", "decide", "sendResponse"}
        /\ task.pc # "idle" => task.ex = k.ex
    BY <1>0 DEF MovesOn
  <1>3. /\ \A b \in Agents, i \in RecordIds :
              <<b, i>> # <<a, k.id>> => exchanges'[b][i] = exchanges[b][i]
        /\ \A b \in Agents, u \in Slots : <<b, u>> # <<a, t>> => tasks'[b][u] = tasks[b][u]
    BY <1>1 DEF OnlyTask, OnlyRecord
  <1>4. CreatingKeepsId(a, t) /\ HoldingKeepsThread(a, t) /\ FoundBefore(a, t)
        /\ ThreadOfTask(a, t) /\ CreatingIsFirst(a, t)
    BY DEF IdsInv, ThreadInv
  <1>5. k.ex.connected /\ Active(k) /\ (~Beginning(a, t) => Heard(th))
        /\ (Beginning(a, t) => th \in opened)
    BY <1>1, <1>4 DEF ThreadOfTask, Active
  <1>6. \/ Creating(k)
        \/ ~Creating(k) /\ exchanges[a][k.id] # None /\ exchanges[a][k.id].thread = th
    BY <1>1, <1>4 DEF Creating, Holding, HoldingKeepsThread, FoundBefore, ThreadOf
  <1>7. \A b \in Agents, u \in Slots : Beginning(b, u)' =>
          /\ Beginning(b, u) /\ ThreadOf(b, u)' = ThreadOf(b, u)
          /\ <<b, u>> # <<a, t>> /\ ThreadOf(b, u) # th
    <2> SUFFICES ASSUME NEW b \in Agents, NEW u \in Slots, Beginning(b, u)'
                 PROVE  /\ Beginning(b, u) /\ ThreadOf(b, u)' = ThreadOf(b, u)
                        /\ <<b, u>> # <<a, t>> /\ ThreadOf(b, u) # th
      OBVIOUS
    <2>1. <<b, u>> # <<a, t>>
      BY <1>2 DEF Beginning, Creating
    <2>2. Beginning(b, u) /\ ThreadOf(b, u)' = ThreadOf(b, u)
      BY <1>3, <2>1 DEF Beginning, ThreadOf
    <2>3. CASE Beginning(a, t)
      BY <2>1, <2>2, <2>3 DEF ThreadInv, BeginningsDiffer
    <2>4. CASE ~Beginning(a, t)
      BY <1>5, <2>2, <2>4 DEF Heard
    <2> QED
      BY <2>1, <2>2, <2>3, <2>4
  <1>8. \A x : Heard(x) \/ x = th => Heard(x)'
    BY <1>1, <1>5, <1>7 DEF Heard
  <1>9. ThreadsOfRecords'
    <2> SUFFICES ASSUME NEW b \in Agents, NEW i \in RecordIds, exchanges'[b][i] # None
                 PROVE  (exchanges[b][i].connected /\ Heard(exchanges[b][i].thread))'
      BY DEF ThreadsOfRecords, ExchangesOf
    <2>1. CASE <<b, i>> = <<a, k.id>>
      BY <1>1, <1>5, <1>8, <2>1 DEF ThreadOf
    <2>2. CASE <<b, i>> # <<a, k.id>>
      BY <1>3, <1>8, <2>2 DEF ThreadInv, ThreadsOfRecords, ExchangesOf
    <2> QED
      BY <2>1, <2>2
  <1>10. ThreadsOfMessages' /\ BeginningsDiffer'
    BY <1>1, <1>7, <1>8 DEF ThreadInv, ThreadsOfMessages, BeginningsDiffer
  <1>11. OneExchangePerThread'
    <2> SUFFICES ASSUME NEW b \in Agents, NEW i \in RecordIds, NEW j \in RecordIds,
                        exchanges'[b][i] # None, exchanges'[b][j] # None,
                        exchanges'[b][i].thread = exchanges'[b][j].thread, i # j
                 PROVE  FALSE
      BY DEF OneExchangePerThread, ExchangesOf
    <2>1. ASSUME NEW x \in RecordIds, NEW y \in RecordIds, x # y, b = a, x = k.id,
                 exchanges'[b][y] # None, exchanges'[b][y].thread = exchanges'[b][x].thread
          PROVE  FALSE
      <3>1. exchanges'[a][x].thread = th /\ exchanges'[a][y] = exchanges[a][y]
        BY <1>1, <1>3, <2>1 DEF ThreadOf
      <3>2. y \in ExchangesOf(a) /\ exchanges[a][y].thread = th
        BY <2>1, <3>1 DEF ExchangesOf
      <3>3. CASE Creating(k)
        BY <1>4, <3>2, <3>3 DEF CreatingIsFirst
      <3>4. CASE ~Creating(k) /\ exchanges[a][k.id] # None /\ exchanges[a][k.id].thread = th
        <4>1. x \in ExchangesOf(a) /\ exchanges[a][x].thread = th
          BY <2>1, <3>4 DEF ExchangesOf
        <4> QED
          BY <2>1, <3>2, <4>1 DEF ThreadInv, OneExchangePerThread
      <3> QED
        BY <1>6, <3>3, <3>4
    <2>2. CASE b = a /\ (i = k.id \/ j = k.id)
      BY <2>1, <2>2
    <2>3. CASE ~(b = a /\ (i = k.id \/ j = k.id))
      <3>1. exchanges'[b][i] = exchanges[b][i] /\ exchanges'[b][j] = exchanges[b][j]
        BY <1>3, <2>3
      <3> QED
        BY <3>1 DEF ThreadInv, OneExchangePerThread, ExchangesOf
    <2> QED
      BY <2>2, <2>3
  <1>12. ASSUME NEW b \in Agents, NEW u \in Slots
         PROVE  ThreadOfTask(b, u)' /\ CreatingIsFirst(b, u)'
    <2>1. CASE <<b, u>> # <<a, t>>
      <3>1. ThreadOfTask(b, u) /\ CreatingIsFirst(b, u) /\ tasks'[b][u] = tasks[b][u]
        BY <1>3, <2>1 DEF ThreadInv
      <3>2. ThreadOfTask(b, u)'
        BY <1>1, <1>8, <3>1 DEF ThreadOfTask, Beginning, ThreadOf
      <3>3. ASSUME Creating(tasks[b][u]), NEW i \in RecordIds, exchanges'[b][i] # None
            PROVE  exchanges'[b][i].thread # ThreadOf(b, u)
        <4>1. CASE <<b, i>> # <<a, k.id>>
          BY <1>3, <3>1, <3>3, <4>1 DEF CreatingIsFirst, ExchangesOf
        <4>2. CASE b = a /\ i = k.id
          <5>1. exchanges'[b][i].thread = th
            BY <1>1, <4>2 DEF ThreadOf
          <5>2. CASE u \in Callers
            <6>1. Beginning(b, u)'
              BY <3>1, <3>3, <5>2 DEF Beginning
            <6> QED
              BY <1>7, <5>1, <6>1
          <5>3. CASE u \notin Callers
            <6>1. u \in Handlers /\ Heard(ThreadOf(b, u))
              BY <3>1, <3>3, <5>3 DEF ThreadOfTask, Beginning, Creating, Active, Slots
            <6>2. CASE Beginning(a, t)
              BY <5>1, <6>1, <6>2 DEF Heard
            <6>3. CASE ~Beginning(a, t) /\ Creating(k)
              <7>1. t \in Handlers
                BY <6>3 DEF Beginning, Slots
              <7> QED
                BY <2>1, <4>2, <6>1, <7>1 DEF OneHandler
            <6>4. CASE ~Creating(k)
              <7>1. k.id \in ExchangesOf(a) /\ exchanges[a][k.id].thread = th
                BY <1>1, <1>6, <6>4 DEF ExchangesOf
              <7> QED
                BY <3>1, <3>3, <4>2, <5>1, <7>1 DEF CreatingIsFirst
            <6> QED
              BY <6>2, <6>3, <6>4
          <5> QED
            BY <5>2, <5>3
        <4> QED
          BY <4>1, <4>2
      <3>4. CreatingIsFirst(b, u)'
        BY <3>1, <3>3 DEF CreatingIsFirst, ExchangesOf, ThreadOf
      <3> QED
        BY <3>2, <3>4
    <2>2. CASE b = a /\ u = t
      <3>1. ~Creating(task) /\ CreatingIsFirst(b, u)'
        BY <1>2, <2>2 DEF CreatingIsFirst, Creating
      <3>2. ThreadOfTask(b, u)'
        BY <1>2, <1>5, <1>8, <2>2, <3>1 DEF ThreadOfTask, Beginning, ThreadOf, Active
      <3> QED
        BY <3>1, <3>2
    <2> QED
      BY <2>1, <2>2
  <1> QED
    BY <1>9, <1>10, <1>11, <1>12 DEF ThreadInv

LEMMA RemovingKeepsThreads ==
  ASSUME ExchangeTypes, ThreadInv, NEW a \in Agents, NEW s \in Callers, NEW id \in RecordIds,
         RemoveStep(a, s, id)
  PROVE  ThreadInv'
  <1>1. /\ s \in Slots /\ At(a, s, "idle") /\ OnlyTask(a, s)
        /\ exchanges'[a][id] = None /\ OnlyRecord(a, id)
        /\ UNCHANGED <<opened, net>>
        /\ tasks'[a][s].pc = "deleteMessages" \/ tasks'[a][s] = tasks[a][s]
    BY RemovedTask
  <1>2. /\ \A b \in Agents : \A i \in ExchangesOf(b)' :
             i \in ExchangesOf(b) /\ exchanges'[b][i] = exchanges[b][i]
        /\ \A b \in Agents, u \in Slots : Active(tasks'[b][u]) => tasks'[b][u] = tasks[b][u]
    BY <1>1 DEF OnlyRecord, OnlyTask, ExchangesOf, Active, At
  <1>3. \A b \in Agents, u \in Slots : Beginning(b, u)' =>
          Beginning(b, u) /\ ThreadOf(b, u)' = ThreadOf(b, u)
    BY <1>2 DEF Beginning, ThreadOf, Creating, Active
  <1>4. \A x : Heard(x) => Heard(x)'
    BY <1>1, <1>3 DEF Heard
  <1>5. ThreadsOfRecords' /\ OneExchangePerThread' /\ ThreadsOfMessages' /\ BeginningsDiffer'
    BY <1>1, <1>2, <1>3, <1>4 DEF ThreadInv, ThreadsOfRecords, OneExchangePerThread,
                                  ThreadsOfMessages, BeginningsDiffer
  <1>6. ASSUME NEW b \in Agents, NEW u \in Slots
        PROVE  ThreadOfTask(b, u)' /\ CreatingIsFirst(b, u)'
    <2>1. ThreadOfTask(b, u) /\ CreatingIsFirst(b, u)
      BY DEF ThreadInv
    <2>2. Active(tasks'[b][u]) => tasks'[b][u] = tasks[b][u]
      BY <1>2
    <2>3. ThreadOfTask(b, u)'
      BY <1>1, <1>4, <2>1, <2>2 DEF ThreadOfTask, Beginning, ThreadOf
    <2>4. Creating(tasks'[b][u]) => Active(tasks'[b][u])
      BY DEF Creating, Active
    <2>5. CreatingIsFirst(b, u)'
      BY <1>2, <2>1, <2>2, <2>4 DEF CreatingIsFirst, ThreadOf
    <2> QED
      BY <2>3, <2>5
  <1> QED
    BY <1>5, <1>6 DEF ThreadInv

LEMMA CrashKeepsThreads ==
  ASSUME ExchangeTypes, ThreadInv, NEW a \in Agents, Crash(a)
  PROVE  ThreadInv'
  <1>1. /\ \A u \in Slots : tasks'[a][u].pc = "idle"
        /\ \A b \in Agents \ {a}, u \in Slots : tasks'[b][u] = tasks[b][u]
        /\ UNCHANGED <<exchanges, opened, net>>
    BY CrashedTasks
  <1>2. \A b \in Agents, u \in Slots : Active(tasks'[b][u]) => tasks'[b][u] = tasks[b][u]
    BY <1>1 DEF Active
  <1>3. \A b \in Agents, u \in Slots : Beginning(b, u)' =>
          Beginning(b, u) /\ ThreadOf(b, u)' = ThreadOf(b, u)
    BY <1>2 DEF Beginning, ThreadOf, Creating, Active
  <1>4. \A x : Heard(x) => Heard(x)'
    BY <1>1, <1>3 DEF Heard
  <1>5. ThreadsOfRecords' /\ OneExchangePerThread' /\ ThreadsOfMessages' /\ BeginningsDiffer'
    BY <1>1, <1>3, <1>4 DEF ThreadInv, ThreadsOfRecords, OneExchangePerThread,
                            ThreadsOfMessages, BeginningsDiffer, ExchangesOf
  <1>6. ASSUME NEW b \in Agents, NEW u \in Slots
        PROVE  ThreadOfTask(b, u)' /\ CreatingIsFirst(b, u)'
    <2>1. ThreadOfTask(b, u) /\ CreatingIsFirst(b, u)
      BY DEF ThreadInv
    <2>2. Active(tasks'[b][u]) => tasks'[b][u] = tasks[b][u]
      BY <1>2
    <2>3. ThreadOfTask(b, u)'
      BY <1>1, <1>4, <2>1, <2>2 DEF ThreadOfTask, Beginning, ThreadOf
    <2>4. Creating(tasks'[b][u]) => Active(tasks'[b][u])
      BY DEF Creating, Active
    <2>5. CreatingIsFirst(b, u)'
      BY <1>1, <2>1, <2>2, <2>4 DEF CreatingIsFirst, ThreadOf, ExchangesOf
    <2> QED
      BY <2>3, <2>5
  <1> QED
    BY <1>5, <1>6 DEF ThreadInv

LEMMA ThreadsKept ==
  ASSUME ExchangeTypes, ExchangeAssumption, OneHandler, ~WithoutConnection, IdsInv, ThreadInv,
         Shapes
  PROVE  ThreadInv'
  <1>0. ThreadsOfMessages /\ ThreadsOfRecords
    BY DEF ThreadInv
  <1>a. UNCHANGED net => \A m \in net' : Heard(m.thread)
    BY <1>0 DEF ThreadsOfMessages
  <1>1. CASE \E a \in Agents : Crash(a)
    BY <1>1, CrashKeepsThreads
  <1>2. ASSUME NEW a \in Agents, NEW t \in Slots, TaskShapes(a, t) PROVE ThreadInv'
    <2>1. CASE Stop(a, t)
      BY <1>a, <2>1, EndingKeepsThreads DEF Stop
    <2>2. CASE SaveStep(a, t)
      <3>w. SavesAndGoesOn(a, t)
        BY <2>2, SavedTask
      <3>1. /\ GoesOn(a, t) /\ tasks'[a][t].new = tasks[a][t].new
            /\ tasks[a][t].pc \in {"saveReceived", "saveResponse"}
            /\ tasks'[a][t].pc \in {"updateReceived", "updateResponse"}
        BY <2>2, <3>w DEF SavesAndGoesOn
      <3>2. UNCHANGED <<exchanges, net>>
        BY <2>2 DEF SaveStep
      <3>3. Active(tasks[a][t]) /\ (Creating(tasks'[a][t]) <=> Creating(tasks[a][t]))
        BY <3>1 DEF Active, Creating
      <3> QED
        BY <3>1, <3>2, <3>3, GoingOnKeepsThreads
    <2>3. CASE \E x \in StoredKinds : DeleteStep(a, t, x)
      BY <1>0, <2>3 DEF DeleteStep, ThreadInv, ThreadsOfRecords, ExchangesOf, ThreadsOfMessages,
                        BeginningsDiffer, Beginning, ThreadOf, Heard, ThreadOfTask,
                        CreatingIsFirst, OneExchangePerThread
    <2>4. CASE SendResponse(a, t)
      <3>1. /\ At(a, t, "sendResponse") /\ Finish(a, t) /\ UNCHANGED <<exchanges, opened>>
            /\ net' = net \cup {Sent(a, tasks[a][t])}
        BY <2>4 DEF SendResponse, Sent
      <3>2. Heard(ThreadOf(a, t))
        BY <3>1 DEF ThreadInv, ThreadOfTask, Active, Beginning, Creating, At
      <3>3. \A m \in net' : Heard(m.thread)
        BY <1>0, <3>1, <3>2 DEF ThreadsOfMessages, Sent, ThreadOf
      <3> QED
        BY <3>1, <3>3, EndingKeepsThreads
    <2> QED
      BY <1>2, <2>1, <2>2, <2>3, <2>4, UpdateKeepsThreads DEF TaskShapes
  <1>3. ASSUME NEW a \in Agents, NEW h \in Handlers, NEW m \in net, NEW id \in RecordIds,
               Receipts(a, h, m, id)
        PROVE  ThreadInv'
    <2>1. CASE AbandonStep(a, h, m, id)
      <3>1. TakesUp(a, h, id) /\ h \in Slots
        BY <2>1, AbandonedTask DEF Slots
      <3>2. net' \subseteq net
        BY <2>1, DeliveredTypes DEF AbandonStep
      <3>3. \A n \in net' : Heard(n.thread)
        BY <1>0, <3>2 DEF ThreadsOfMessages
      <3> QED
        BY <3>1, <3>3, TakingUpKeepsThreads
    <2>2. CASE Resuming(a, h, m, id)
      <3>1. PICK after \in StateNames, pc \in Steps, verdict \in BOOLEAN \cup {None} :
              ResumeStep(a, h, m, id, after, pc, verdict)
        BY <2>2 DEF Resuming
      <3>w2. ResumesWith(a, h, m, id, after, pc, verdict)
        BY <3>1, ResumedTask
      <3>2. TakesUp(a, h, id) /\ h \in Slots
        BY <3>1, <3>w2 DEF Slots, ResumesWith
      <3>3. net' \subseteq net
        BY <3>1, DeliveredTypes DEF ResumeStep
      <3>4. \A n \in net' : Heard(n.thread)
        BY <1>0, <3>3 DEF ThreadsOfMessages
      <3> QED
        BY <3>2, <3>4, TakingUpKeepsThreads
    <2> QED
      BY <1>3, <2>1, <2>2, OpeningKeepsThreads DEF Receipts
  <1>4. ASSUME NEW a \in Agents, NEW h \in Handlers, StoreCredential(a, h) \/ Deciding(a, h)
        PROVE  ThreadInv'
    <2>1. CASE StoreCredential(a, h)
      <3>w3. StoresCredential(a, h)
        BY <2>1, StoredTask
      <3>1. /\ GoesOn(a, h) /\ UNCHANGED <<exchanges, net>>
            /\ tasks'[a][h].new = tasks[a][h].new
            /\ tasks[a][h].pc = "storeCredential" /\ tasks'[a][h].pc = "saveReceived"
            /\ h \in Slots
        BY <2>1, <3>w3 DEF Slots, StoresCredential
      <3>2. Active(tasks[a][h]) /\ (Creating(tasks'[a][h]) <=> Creating(tasks[a][h]))
        BY <3>1 DEF Active, Creating, IdsInv, FoundBefore
      <3> QED
        BY <3>1, <3>2, GoingOnKeepsThreads
    <2>2. CASE Deciding(a, h)
      <3>1. PICK answer \in Answers : DecideStep(a, h, answer)
        BY <2>2 DEF Deciding
      <3>w4. AnswersWith(a, h, answer)
        BY <3>1, DecidedTask
      <3>2. /\ GoesOn(a, h) /\ UNCHANGED <<exchanges, net>>
            /\ tasks'[a][h].new = tasks[a][h].new
            /\ tasks[a][h].pc = "decide"
            /\ tasks'[a][h].pc \in {"saveResponse", "updateResponse"} /\ h \in Slots
        BY <3>1, <3>w4 DEF Slots, AnswersWith
      <3>3. Active(tasks[a][h]) /\ (Creating(tasks'[a][h]) <=> Creating(tasks[a][h]))
        BY <3>2 DEF Active, Creating, IdsInv, FoundBefore
      <3> QED
        BY <3>2, <3>3, GoingOnKeepsThreads
    <2> QED
      BY <1>4, <2>1, <2>2
  <1>5. ASSUME NEW a \in Agents, NEW s \in Callers, NEW id \in RecordIds, CallShapes(a, s, id)
        PROVE  ThreadInv'
    <2>0. ASSUME exchanges[a][id] # None, net' \in {net, net \cup {Report(a, id)}}
          PROVE  \A m \in net' : Heard(m.thread)
      <3>1. Heard(Report(a, id).thread)
        BY <1>0, <2>0 DEF ThreadsOfRecords, ExchangesOf, Report
      <3> QED
        BY <1>0, <2>0, <3>1 DEF ThreadsOfMessages
    <2>1. CASE DeclineStep(a, s, id)
      <3>1. TakesUp(a, s, id) /\ s \in Slots
        BY <2>1, DeclinedTask DEF Slots
      <3>2. \A m \in net' : Heard(m.thread)
        BY <2>0, <2>1 DEF DeclineStep
      <3> QED
        BY <3>1, <3>2, TakingUpKeepsThreads
    <2>2. CASE ReportStep(a, id)
      <3>1. (\A m \in net' : Heard(m.thread)) /\ UNCHANGED <<exchanges, opened, tasks>>
        BY <2>0, <2>2 DEF ReportStep
      <3> QED
        BY <3>1 DEF ThreadInv, ThreadsOfRecords, ExchangesOf, ThreadsOfMessages,
                    BeginningsDiffer, Beginning, ThreadOf, Heard, ThreadOfTask,
                    CreatingIsFirst, OneExchangePerThread
    <2>3. CASE Replying(a, s, id)
      <3>1. PICK answer \in Answers, option \in AutoModes \cup {None} :
              ReplyStep(a, s, id, answer, option)
        BY <2>3 DEF Replying
      <3>w5. RepliesWith(a, s, id, answer)
        BY <3>1, RepliedTask
      <3>2. TakesUp(a, s, id) /\ s \in Slots
        BY <3>1, <3>w5 DEF Slots, RepliesWith
      <3>3. \A m \in net' : Heard(m.thread)
        BY <1>a, <3>1 DEF ReplyStep
      <3> QED
        BY <3>2, <3>3, TakingUpKeepsThreads
    <2> QED
      BY <1>5, <2>1, <2>2, <2>3, StartingKeepsThreads, RemovingKeepsThreads DEF CallShapes
  <1> QED
    BY <1>1, <1>2, <1>3, <1>4, <1>5 DEF Shapes

LEMMA ThreadsInit ==
  ASSUME Init
  PROVE  ThreadInv
  <1>1. /\ \A a \in Agents, t \in Slots : tasks[a][t].pc = "idle"
        /\ \A a \in Agents : ExchangesOf(a) = {}
        /\ net = {}
    BY DEF Init, Idle, ExchangesOf
  <1> QED
    BY <1>1 DEF ThreadInv, ThreadsOfRecords, ThreadsOfMessages, BeginningsDiffer, Beginning,
                Creating, ThreadOfTask, Active, CreatingIsFirst, OneExchangePerThread

\* A thread leads to one exchange per agent (OneExchangePerThread), where an agent
\* handles one message at a time and every exchange begins over the connection: whoever
\* opened the thread, however often its messages are delivered, and whatever is deleted
\* or crashes meanwhile.
THEOREM ThreadsLeadToOneExchange ==
  ASSUME OneHandler, ~WithoutConnection
  PROVE  Spec => []OneExchangePerThread
  <1>1. Init => IdsInv /\ ThreadInv
    BY IdsInit, ThreadsInit
  <1>2. ExchangeTypes /\ IdsInv /\ ThreadInv /\ [Next]_vars => (IdsInv /\ ThreadInv)'
    <2>1. ASSUME ExchangeTypes, IdsInv, ThreadInv, Next PROVE (IdsInv /\ ThreadInv)'
      BY <2>1, ExchangeAssumption, StepShapes, IdsKept, ThreadsKept
    <2>2. ASSUME ExchangeTypes, IdsInv, ThreadInv, UNCHANGED vars
          PROVE  (IdsInv /\ ThreadInv)'
      BY <2>2, SameIds DEF vars, ThreadInv, ThreadsOfRecords, ExchangesOf, ThreadsOfMessages,
                   BeginningsDiffer, Beginning, ThreadOf, Heard, ThreadOfTask, CreatingIsFirst,
                   OneExchangePerThread
    <2> QED
      BY <2>1, <2>2
  <1>3. ThreadInv => OneExchangePerThread
    BY DEF ThreadInv
  <1> QED
    BY <1>1, <1>2, <1>3, ExchangeTypesHold, PTL DEF Spec

-------------------------------------------------------------------------------
(* The roles of the agents *)

RoleOfMessage(m) ==
  m.kind # "problem-report" => Family(m.kind) = ProtocolOf[m.thread] /\ IsFor(m.to, m.kind)

SavedOfExchange(a, id, x) ==
  stored[a][id][x] # <<>> =>
    /\ exchanges[a][id] # None => Family(x) = ProtocolOf[exchanges[a][id].thread]
    /\ \A t \in Slots : Creating(tasks[a][t]) /\ tasks[a][t].id = id =>
         Family(x) = ProtocolOf[ThreadOf(a, t)]

LEMMA MoveKeepsRoles ==
  ASSUME RolesInv, NEW a \in Agents, NEW t \in Slots, OnlyTask(a, t),
         UNCHANGED <<exchanges, stored>>, \A m \in net' : RoleOfMessage(m),
         NEW task, task = tasks'[a][t], RoleOfTask(a, task),
         Creating(task) =>
           \/ FreshId(a, task.id)
           \/ /\ Creating(tasks[a][t]) /\ task.id = tasks[a][t].id
              /\ task.ex.thread = ThreadOf(a, t)
  PROVE  RolesInv'
  <1>1. \A b \in Agents, u \in Slots : <<b, u>> # <<a, t>> => tasks'[b][u] = tasks[b][u]
    BY DEF OnlyTask
  <1>2. RolesOfRecords' /\ RolesOfMessages'
    BY DEF RolesInv, RolesOfRecords, RolesOfMessages, RoleOfMessage, ExchangesOf
  <1>3. RolesOfTasks'
    <2> SUFFICES ASSUME NEW b \in Agents, NEW u \in Slots PROVE RoleOfTask(b, tasks'[b][u])
      BY DEF RolesOfTasks, RoleOfTask, StatesOf, Active, Family, IsFor
    <2>1. RoleOfTask(b, tasks[b][u])
      BY DEF RolesInv, RolesOfTasks
    <2> QED
      BY <1>1, <2>1
  <1>4. ASSUME NEW b \in Agents, NEW id \in RecordIds, NEW x \in StoredKinds
        PROVE  SavedOfExchange(b, id, x)'
    <2>1. SavedOfExchange(b, id, x)
      BY DEF RolesInv, RolesOfSaved, SavedOfExchange, ThreadOf
    <2>2. ASSUME stored[b][id][x] # <<>>, NEW u \in Slots, Creating(tasks'[b][u]),
                 tasks'[b][u].id = id
          PROVE  Family(x) = ProtocolOf[tasks'[b][u].ex.thread]
      <3>1. CASE <<b, u>> # <<a, t>>
        BY <1>1, <2>1, <2>2, <3>1 DEF SavedOfExchange, ThreadOf
      <3>2. CASE b = a /\ u = t
        <4>1. ~FreshId(a, task.id)
          BY <2>2, <3>2 DEF FreshId, Unused
        <4> QED
          BY <2>1, <2>2, <3>2, <4>1 DEF SavedOfExchange
      <3> QED
        BY <3>1, <3>2
    <2> QED
      BY <2>1, <2>2 DEF SavedOfExchange, ThreadOf
  <1>5. RolesOfSaved'
    BY <1>4 DEF RolesOfSaved, SavedOfExchange, ThreadOf
  <1> QED
    BY <1>2, <1>3, <1>5 DEF RolesInv

LEMMA IdleRole ==
  ASSUME NEW a, NEW k, k.pc \in {"idle", "deleteMessages"}
  PROVE  RoleOfTask(a, k) /\ ~Creating(k)
  BY DEF RoleOfTask, Active, Creating

\* The messages received and answered, and the states that they lead to.
LEMMA ResumptionRoles ==
  ASSUME NEW a \in Agents, NEW th \in Threads, NEW kind, NEW before, NEW after, NEW pc,
         <<kind, before, after, pc>> \in Resumptions,
         Family(kind) = ProtocolOf[th], IsFor(a, kind)
  PROVE  /\ after \in StatesOf(a, th) /\ kind # "problem-report"
         /\ <<before, after>> \in (IF ProtocolOf[th] = "issue-credential"
                                   THEN CredentialSteps ELSE ProofSteps)
  BY DEF Resumptions, Family, IsFor, ForHolder, StatesOf, CredentialSteps, ProofSteps

LEMMA OpeningRoles ==
  ASSUME NEW a \in Agents, NEW th \in Threads, NEW kind, NEW state,
         <<kind, state>> \in Openings, Family(kind) = ProtocolOf[th], IsFor(a, kind)
  PROVE  state \in StatesOf(a, th) /\ kind # "problem-report"
  BY DEF Openings, Family, IsFor, ForHolder, StatesOf

LEMMA StartRoles ==
  ASSUME ExchangeAssumption, NEW a \in Agents, NEW th \in Threads, NEW kind, NEW state,
         <<a, kind, state>> \in Starts, Family(kind) = ProtocolOf[th]
  PROVE  state \in StatesOf(a, th) /\ kind # "problem-report" /\ ~IsFor(a, kind)
  BY DEF Starts, Family, IsFor, ForHolder, StatesOf, ExchangeAssumption

LEMMA ReplyRoles ==
  ASSUME NEW a \in Agents, NEW th \in Threads, NEW kind, NEW answer, NEW state,
         <<kind, answer, state>> \in Replies, Family(kind) = ProtocolOf[th], IsFor(a, kind)
  PROVE  /\ state \in StatesOf(a, th) /\ answer # "problem-report" /\ ~IsFor(a, answer)
         /\ Family(answer) = ProtocolOf[th]
  BY DEF Replies, Family, IsFor, ForHolder, StatesOf

LEMMA ByHandRoles ==
  ASSUME NEW a \in Agents, NEW th \in Threads, NEW before, NEW answer, NEW state,
         <<before, answer, state>> \in RepliesByHand, before \in StatesOf(a, th),
         Family(answer) = ProtocolOf[th]
  PROVE  /\ state \in StatesOf(a, th) /\ answer # "problem-report" /\ ~IsFor(a, answer)
         /\ <<before, state>> \in (IF ProtocolOf[th] = "issue-credential"
                                   THEN CredentialSteps ELSE ProofSteps)
  BY DEF RepliesByHand, Family, IsFor, ForHolder, StatesOf, CredentialSteps, ProofSteps

\* Two states belong to one protocol only.
LEMMA StatesOfCredentials ==
  ASSUME ExchangeAssumption, NEW a \in Agents, NEW th \in Threads,
         NEW state \in {"offer-received", "credential-received"}, state \in StatesOf(a, th)
  PROVE  ProtocolOf[th] = "issue-credential"
  BY DEF StatesOf

LEMMA OneIsSome ==
  ASSUME NEW q \in Seq(Contents), Len(q) = 1
  PROVE  q # <<>>
  OBVIOUS

\* An exchange is answered with the messages of its own protocol.
LEMMA FamilyKnown ==
  ASSUME ExchangeTypes, ExchangeAssumption, RolesInv, NEW a \in Agents, NEW id \in RecordIds,
         exchanges[a][id] # None, NEW kind, NEW state,
         <<exchanges[a][id].state, kind, state>> \in RepliesByHand, KnowsFamily(a, id, kind)
  PROVE  Family(kind) = ProtocolOf[exchanges[a][id].thread]
  <1> DEFINE e == exchanges[a][id]
  <1>1. e.thread \in Threads
    BY ReadExchange DEF ExchangeRecordType
  <1>2. e.state \in StatesOf(a, e.thread)
    BY DEF RolesInv, RolesOfRecords, ExchangesOf
  <1>3. CASE ProtocolOf[e.thread] = Family(kind)
    BY <1>3
  <1>4. CASE \E x \in StoredKinds : Sole(a, id, x) /\ Family(x) = Family(kind)
    <2>1. PICK x \in StoredKinds : Sole(a, id, x) /\ Family(x) = Family(kind)
      BY <1>4
    <2>2. stored[a][id][x] # <<>>
      <3>1. Len(stored[a][id][x]) = 1 /\ stored[a][id][x] \in Seq(Contents)
        BY <2>1, ReadMessage DEF Sole
      <3> QED
        BY <3>1, OneIsSome
    <2> QED
      BY <2>1, <2>2 DEF RolesInv, RolesOfSaved
  <1>5. CASE e.state \in {"offer-received", "credential-received"}
    <2>1. ProtocolOf[e.thread] = "issue-credential"
      BY <1>1, <1>2, <1>5, StatesOfCredentials
    <2>2. Family(kind) = "issue-credential"
      BY <1>5 DEF RepliesByHand, Family
    <2> QED
      BY <2>1, <2>2
  <1> QED
    BY <1>3, <1>4, <1>5 DEF KnowsFamily

LEMMA MadeRoles ==
  ASSUME RolesInv, NEW a \in Agents, NEW t \in Slots, NEW id \in RecordIds, NEW th,
         NEW connected, NEW state, NEW kind, NEW content,
         Makes(a, t, id, th, connected, state, kind, content),
         \/ tasks'[a][t].pc = "saveReceived" /\ IsFor(a, kind)
         \/ tasks'[a][t].pc = "saveResponse" /\ ~IsFor(a, kind),
         state \in StatesOf(a, th), kind # "problem-report", Family(kind) = ProtocolOf[th],
         \A m \in net' : RoleOfMessage(m)
  PROVE  RolesInv'
  <1> DEFINE task == tasks'[a][t]
  <1>1. OnlyTask(a, t) /\ UNCHANGED <<exchanges, stored>> /\ FreshId(a, task.id)
    BY DEF Makes
  <1>2. task.kind = kind /\ task.ex.thread = th /\ task.ex.state = state
    BY DEF Makes
  <1>3. RoleOfTask(a, task)
    BY <1>2 DEF RoleOfTask
  <1> QED
    BY <1>1, <1>3, MoveKeepsRoles

LEMMA TakenUpRoles ==
  ASSUME RolesInv, NEW a \in Agents, NEW t \in Slots, NEW id \in RecordIds, TakesUp(a, t, id),
         RoleOfTask(a, tasks'[a][t]), \A m \in net' : RoleOfMessage(m)
  PROVE  RolesInv'
  <1>1. /\ OnlyTask(a, t) /\ UNCHANGED <<exchanges, stored>> /\ ~Creating(tasks'[a][t])
    BY DEF TakesUp, Creating
  <1> QED
    BY <1>1, MoveKeepsRoles

LEMMA ReceiptRoles ==
  ASSUME ExchangeTypes, RolesInv, NEW a \in Agents, NEW h \in Handlers, NEW m \in net,
         NEW id \in RecordIds, Receipts(a, h, m, id)
  PROVE  RolesInv'
  <1>1. m.to = a /\ m.thread \in Threads /\ net' \subseteq net /\ h \in Slots
    <2>1. \E k : Delivers(a, h, m, k)
      BY DEF Receipts, AbandonStep, Opening, OpenStep, Resuming, ResumeStep
    <2> QED
      BY <2>1, DeliveredTypes DEF Delivers, MessageType
  <1>2. \A n \in net' : RoleOfMessage(n)
    BY <1>1 DEF RolesInv, RolesOfMessages, RoleOfMessage
  <1>3. m.kind # "problem-report" => Family(m.kind) = ProtocolOf[m.thread] /\ IsFor(a, m.kind)
    BY <1>1 DEF RolesInv, RolesOfMessages
  <1>4. CASE AbandonStep(a, h, m, id)
    <2>1. TakesUp(a, h, id) /\ tasks'[a][h].pc = "updateOnly"
          /\ tasks'[a][h].ex.state = "abandoned"
      BY <1>4, AbandonedTask
    <2>2. RoleOfTask(a, tasks'[a][h])
      BY <2>1 DEF RoleOfTask, StatesOf
    <2> QED
      BY <1>1, <1>2, <2>1, <2>2, TakenUpRoles
  <1>5. CASE Opening(a, h, m, id)
    <2>1. PICK state \in StateNames : OpenStep(a, h, m, id, state)
      BY <1>5 DEF Opening
    <2>2. /\ Makes(a, h, id, m.thread, TRUE, state, m.kind, m.content)
          /\ tasks'[a][h].pc = "saveReceived"
      BY <2>1, OpenedTask
    <2>3. <<m.kind, state>> \in Openings /\ m.kind # "problem-report"
      BY <2>1 DEF OpenStep, Openings
    <2>4. state \in StatesOf(a, m.thread)
      BY <1>1, <1>3, <2>3, OpeningRoles
    <2> QED
      BY <1>1, <1>2, <1>3, <2>2, <2>3, <2>4, MadeRoles
  <1>6. CASE Resuming(a, h, m, id)
    <2>1. PICK after \in StateNames, pc \in Steps, verdict \in BOOLEAN \cup {None} :
            ResumeStep(a, h, m, id, after, pc, verdict)
      BY <1>6 DEF Resuming
    <2> DEFINE task == tasks'[a][h]
    <2>w. ResumesWith(a, h, m, id, after, pc, verdict)
      BY <2>1, ResumedTask
    <2>2. /\ TakesUp(a, h, id) /\ task.pc \in {"storeCredential", "saveReceived", "updateReceived"}
          /\ task.kind = m.kind /\ task.ex.state = after
          /\ exchanges[a][id].thread = m.thread
      BY <2>1, <2>w DEF ResumesWith
    <2>3. task.ex.thread = m.thread
      BY <2>2 DEF TakesUp
    <2>4. <<m.kind, exchanges[a][id].state, after, pc>> \in Resumptions /\ m.kind # "problem-report"
      BY <2>1 DEF ResumeStep, Resumptions
    <2>5. after \in StatesOf(a, m.thread)
      BY <1>1, <1>3, <2>4, ResumptionRoles
    <2>6. RoleOfTask(a, task)
      BY <1>3, <2>2, <2>3, <2>4, <2>5 DEF RoleOfTask
    <2> QED
      BY <1>1, <1>2, <2>2, <2>6, TakenUpRoles
  <1> QED
    BY <1>4, <1>5, <1>6 DEF Receipts

LEMMA ReportRole ==
  ASSUME RolesInv, NEW a, NEW id, net' \in {net, net \cup {Report(a, id)}}
  PROVE  \A m \in net' : RoleOfMessage(m)
  BY DEF RolesInv, RolesOfMessages, RoleOfMessage, Report

LEMMA SameRoles ==
  ASSUME RolesInv, UNCHANGED <<exchanges, stored, tasks>>, \A m \in net' : RoleOfMessage(m)
  PROVE  RolesInv'
  BY DEF RolesInv, RolesOfRecords, RolesOfMessages, RolesOfTasks, RolesOfSaved, ExchangesOf,
         RoleOfMessage

LEMMA CallRoles ==
  ASSUME ExchangeTypes, ExchangeAssumption, RolesInv, NEW a \in Agents, NEW s \in Callers,
         NEW id \in RecordIds,
         DeclineStep(a, s, id) \/ ReportStep(a, id) \/ Replying(a, s, id) \/ Starting(a, s, id)
  PROVE  RolesInv'
  <1>1. s \in Slots /\ (UNCHANGED net => \A m \in net' : RoleOfMessage(m))
    BY ReportRole DEF Slots
  <1>2. CASE DeclineStep(a, s, id)
    <2>1. TakesUp(a, s, id) /\ tasks'[a][s].pc = "updateOnly"
          /\ tasks'[a][s].ex.state = "declined"
      BY <1>2, DeclinedTask
    <2> DEFINE e == exchanges[a][id]
    <2>2. tasks'[a][s].ex.thread = e.thread /\ e.thread \in Threads
      BY <2>1 DEF TakesUp, ExchangeRecordType
    <2>3. e.state \in StatesOf(a, e.thread)
      BY <2>1 DEF TakesUp, RolesInv, RolesOfRecords, ExchangesOf
    <2>4. e.state = "offer-received" \/ (e.state = "request-received"
                                         /\ ProtocolOf[e.thread] = "present-proof")
      BY <1>2 DEF DeclineStep
    <2>5. "declined" \in StatesOf(a, e.thread)
      BY <2>3, <2>4 DEF StatesOf
    <2>6. RoleOfTask(a, tasks'[a][s])
      BY <2>1, <2>2, <2>5 DEF RoleOfTask
    <2>7. \A m \in net' : RoleOfMessage(m)
      BY <1>2, ReportRole DEF DeclineStep
    <2> QED
      BY <1>1, <2>1, <2>6, <2>7, TakenUpRoles
  <1>3. CASE ReportStep(a, id)
    <2>1. \A m \in net' : RoleOfMessage(m)
      BY <1>3, ReportRole DEF ReportStep
    <2> QED
      BY <1>3, <2>1, SameRoles DEF ReportStep
  <1>4. CASE Replying(a, s, id)
    <2>1. PICK answer \in Answers, option \in AutoModes \cup {None} :
            ReplyStep(a, s, id, answer, option)
      BY <1>4 DEF Replying
    <2> DEFINE task == tasks'[a][s]
               e == exchanges[a][id]
    <2>w. RepliesWith(a, s, id, answer)
      BY <2>1, RepliedTask
    <2>2. /\ TakesUp(a, s, id) /\ task.pc \in {"saveResponse", "updateResponse"}
          /\ task.kind = answer.kind /\ task.ex.state = answer.state
      BY <2>1, <2>w DEF RepliesWith
    <2>3. /\ task.ex.thread = e.thread /\ e.thread \in Threads /\ e # None
          /\ e.state \in StatesOf(a, e.thread)
      BY <2>2 DEF TakesUp, RolesInv, RolesOfRecords, ExchangesOf, ExchangeRecordType
    <2>4. /\ <<e.state, answer.kind, answer.state>> \in RepliesByHand
          /\ KnowsFamily(a, id, answer.kind) /\ UNCHANGED net
      BY <2>1 DEF ReplyStep
    <2>5. Family(answer.kind) = ProtocolOf[e.thread]
      BY <2>3, <2>4, FamilyKnown
    <2>6. /\ answer.state \in StatesOf(a, e.thread) /\ answer.kind # "problem-report"
          /\ ~IsFor(a, answer.kind)
      <3> HIDE DEF e
      <3>1. <<e.state, answer.kind, answer.state>> \in RepliesByHand
        BY <2>4
      <3> QED
        BY <2>3, <2>5, <3>1, ByHandRoles
    <2>7. RoleOfTask(a, task)
      BY <2>2, <2>3, <2>5, <2>6 DEF RoleOfTask
    <2> QED
      BY <1>1, <2>2, <2>4, <2>7, TakenUpRoles
  <1>5. CASE Starting(a, s, id)
    <2>1. PICK th \in Threads, kind \in StoredKinds, state \in StateNames,
               connected \in BOOLEAN, c \in Contents, option \in AutoModes \cup {None} :
            StartStep(a, s, th, id, kind, state, connected, c, option)
      BY <1>5 DEF Starting
    <2>2. /\ Makes(a, s, id, th, connected, state, kind, c)
          /\ tasks'[a][s].pc = "saveResponse"
      BY <2>1, StartedTask
    <2>3. /\ <<a, kind, state>> \in Starts /\ Family(kind) = ProtocolOf[th] /\ UNCHANGED net
      BY <2>1 DEF StartStep
    <2>4. state \in StatesOf(a, th) /\ kind # "problem-report" /\ ~IsFor(a, kind)
      BY <2>3, StartRoles
    <2> QED
      BY <1>1, <2>2, <2>3, <2>4, MadeRoles
  <1> QED
    BY <1>2, <1>3, <1>4, <1>5

LEMMA SentRole ==
  ASSUME ExchangeAssumption, RolesInv, NEW a \in Agents, NEW t \in Slots,
         At(a, t, "sendResponse"), net' = net \cup {Sent(a, tasks[a][t])}
  PROVE  \A m \in net' : RoleOfMessage(m)
  <1> DEFINE k == tasks[a][t]
  <1>1. Family(k.kind) = ProtocolOf[k.ex.thread] /\ ~IsFor(a, k.kind)
    BY DEF RolesInv, RolesOfTasks, RoleOfTask, At, Active
  <1>2. Peer(a) \in Agents /\ Peer(a) # a
    BY PeerIsAgent
  <1>3. IsFor(Peer(a), k.kind)
    BY <1>1, <1>2 DEF IsFor, Agents, ExchangeAssumption
  <1>4. RoleOfMessage(Sent(a, k))
    BY <1>1, <1>3 DEF RoleOfMessage, Sent
  <1>5. \A m \in net : RoleOfMessage(m)
    BY DEF RolesInv, RolesOfMessages, RoleOfMessage
  <1> QED
    BY <1>4, <1>5

\* A message is saved: it is of the exchange's protocol.
LEMMA SaveRoles ==
  ASSUME ExchangeTypes, IdsInv, RolesInv, NEW a \in Agents, NEW t \in Slots, SaveStep(a, t)
  PROVE  RolesInv'
  <1> DEFINE k == tasks[a][t]
             task == tasks'[a][t]
  <1>w. SavesAndGoesOn(a, t)
    BY SavedTask
  <1>1. /\ GoesOn(a, t) /\ UNCHANGED <<exchanges, net>>
        /\ k.pc \in {"saveReceived", "saveResponse"}
        /\ task.pc = IF k.pc = "saveReceived" THEN "updateReceived" ELSE "updateResponse"
        /\ task.new = k.new /\ task.ex = k.ex /\ task.kind = k.kind
    BY <1>w DEF SaveStep, SavesAndGoesOn
  <1>2. /\ OnlyTask(a, t) /\ task.id = k.id
    BY <1>1 DEF GoesOn
  <1>w2. SavesMessage(a, t)
    BY SavedMessage
  <1>3. OnlyMessages(a, k.id, k.kind) /\ k.id \in RecordIds /\ k.kind \in StoredKinds
    BY <1>w2 DEF SavesMessage
  <1>4. RoleOfTask(a, k) /\ CreatingKeepsId(a, t) /\ HoldingKeepsThread(a, t)
    BY DEF RolesInv, RolesOfTasks, IdsInv
  <1>5. RoleOfTask(a, task)
    BY <1>1, <1>4 DEF RoleOfTask, Active
  <1>6. /\ \A b \in Agents, u \in Slots : <<b, u>> # <<a, t>> => tasks'[b][u] = tasks[b][u]
        /\ \A b \in Agents, u \in Slots : Creating(tasks'[b][u]) =>
             /\ Creating(tasks[b][u]) /\ tasks'[b][u].id = tasks[b][u].id
             /\ tasks'[b][u].ex = tasks[b][u].ex
    BY <1>1, <1>2 DEF OnlyTask, Creating
  <1>7. RolesOfTasks'
    BY <1>5, <1>6 DEF RolesInv, RolesOfTasks, RoleOfTask, StatesOf, Active, Family, IsFor
  <1>8. ASSUME NEW b \in Agents, NEW i \in RecordIds, NEW x \in StoredKinds
        PROVE  SavedOfExchange(b, i, x)'
    <2>1. SavedOfExchange(b, i, x)
      BY DEF RolesInv, RolesOfSaved, SavedOfExchange, ThreadOf
    <2>2. CASE <<b, i, x>> # <<a, k.id, k.kind>>
      <3>1. stored'[b][i][x] = stored[b][i][x]
        BY <1>3, <2>2 DEF OnlyMessages
      <3> QED
        BY <1>1, <1>6, <2>1, <3>1 DEF SavedOfExchange, ThreadOf
    <2>3. CASE b = a /\ i = k.id /\ x = k.kind
      <3>1. Family(x) = ProtocolOf[k.ex.thread]
        BY <1>1, <1>4, <2>3 DEF RoleOfTask, Active
      <3>2. exchanges[a][i] # None => exchanges[a][i].thread = k.ex.thread
        BY <1>1, <1>4, <2>3 DEF CreatingKeepsId, HoldingKeepsThread, Holding
      <3>3. ASSUME NEW u \in Slots, Creating(tasks[a][u]), tasks[a][u].id = i, u # t PROVE FALSE
        <4>1. CreatingKeepsId(a, u)
          BY DEF IdsInv
        <4> QED
          BY <1>1, <2>3, <3>3, <4>1 DEF CreatingKeepsId, At
      <3> QED
        BY <1>1, <1>6, <2>3, <3>1, <3>2, <3>3 DEF SavedOfExchange, ThreadOf
    <2> QED
      BY <2>2, <2>3
  <1>9. RolesOfSaved'
    BY <1>8 DEF RolesOfSaved, SavedOfExchange, ThreadOf
  <1> QED
    BY <1>1, <1>7, <1>9 DEF RolesInv, RolesOfRecords, RolesOfMessages, ExchangesOf

LEMMA UpdateRoles ==
  ASSUME ExchangeTypes, IdsInv, RolesInv, NEW a \in Agents, NEW t \in Slots, UpdateStep(a, t)
  PROVE  RolesInv'
  <1> DEFINE k == tasks[a][t]
             task == tasks'[a][t]
  <1>0. WritesRecord(a, t) /\ MovesOn(a, t)
    BY UpdatedRecord, UpdatedTask
  <1>1. /\ k.id \in RecordIds /\ OnlyTask(a, t) /\ OnlyRecord(a, k.id)
        /\ k.pc \in {"updateReceived", "updateResponse", "updateOnly"}
        /\ k.new \/ exchanges[a][k.id] # None
        /\ exchanges'[a][k.id] = k.ex /\ UNCHANGED <<stored, net>>
    BY <1>0 DEF WritesRecord, MovesOn, UpdateStep
  <1>2. \/ task.pc = "idle"
        \/ /\ task.pc \in {"decide", "sendResponse"}
           /\ task.ex = k.ex /\ task.kind = k.kind
           /\ task.pc = "decide" => k.pc = "updateReceived"
           /\ task.pc = "sendResponse" => k.pc = "updateResponse"
    BY <1>0 DEF MovesOn
  <1>3. RoleOfTask(a, k) /\ CreatingKeepsId(a, t) /\ HoldingKeepsThread(a, t) /\ FoundBefore(a, t)
    BY DEF RolesInv, RolesOfTasks, IdsInv
  <1>4. RoleOfTask(a, task)
    BY <1>1, <1>2, <1>3 DEF RoleOfTask, Active
  <1>5. /\ \A b \in Agents, u \in Slots : <<b, u>> # <<a, t>> => tasks'[b][u] = tasks[b][u]
        /\ \A b \in Agents, u \in Slots : Creating(tasks'[b][u]) => tasks'[b][u] = tasks[b][u]
    BY <1>1, <1>2 DEF OnlyTask, Creating
  <1>6. RolesOfTasks'
    BY <1>4, <1>5 DEF RolesInv, RolesOfTasks, RoleOfTask, StatesOf, Active, Family, IsFor
  <1>7. RolesOfRecords'
    <2>1. k.ex.state \in StatesOf(a, k.ex.thread)
      BY <1>1, <1>3 DEF RoleOfTask, Active
    <2> SUFFICES ASSUME NEW b \in Agents, NEW i \in RecordIds, exchanges'[b][i] # None
                 PROVE  exchanges'[b][i].state \in StatesOf(b, exchanges'[b][i].thread)
      BY DEF RolesOfRecords, ExchangesOf, StatesOf
    <2>2. CASE b = a /\ i = k.id
      BY <1>1, <2>1, <2>2
    <2>3. CASE <<b, i>> # <<a, k.id>>
      BY <1>1, <2>3 DEF RolesInv, RolesOfRecords, ExchangesOf, OnlyRecord
    <2> QED
      BY <2>2, <2>3
  <1>8. ASSUME NEW b \in Agents, NEW i \in RecordIds, NEW x \in StoredKinds
        PROVE  SavedOfExchange(b, i, x)'
    <2>1. SavedOfExchange(b, i, x)
      BY DEF RolesInv, RolesOfSaved, SavedOfExchange, ThreadOf
    <2>2. CASE <<b, i>> # <<a, k.id>>
      <3>1. exchanges'[b][i] = exchanges[b][i]
        BY <1>1, <2>2 DEF OnlyRecord
      <3> QED
        BY <1>1, <1>5, <2>1, <3>1 DEF SavedOfExchange, ThreadOf
    <2>3. CASE b = a /\ i = k.id
      <3>1. stored[a][i][x] # <<>> => Family(x) = ProtocolOf[k.ex.thread]
        <4>1. CASE Creating(k)
          BY <2>1, <2>3, <4>1 DEF SavedOfExchange, ThreadOf
        <4>2. CASE ~Creating(k)
          <5>1. exchanges[a][i] # None /\ exchanges[a][i].thread = k.ex.thread
            BY <1>1, <1>3, <2>3, <4>2 DEF Creating, Holding, HoldingKeepsThread, FoundBefore
          <5> QED
            BY <2>1, <2>3, <5>1 DEF SavedOfExchange
        <4> QED
          BY <4>1, <4>2
      <3> QED
        BY <1>1, <1>5, <2>1, <2>3, <3>1 DEF SavedOfExchange, ThreadOf
    <2> QED
      BY <2>2, <2>3
  <1>9. RolesOfSaved'
    BY <1>8 DEF RolesOfSaved, SavedOfExchange, ThreadOf
  <1> QED
    BY <1>1, <1>6, <1>7, <1>9 DEF RolesInv, RolesOfMessages

\* Records and messages go, and tasks end.
LEMMA LossRoles ==
  ASSUME RolesInv,
         \A b \in Agents : \A id \in ExchangesOf(b)' :
           id \in ExchangesOf(b) /\ exchanges'[b][id] = exchanges[b][id],
         \A b \in Agents, u \in Slots :
           tasks'[b][u] = tasks[b][u] \/ tasks'[b][u].pc \in {"idle", "deleteMessages"},
         \A b \in Agents, id \in RecordIds, x \in StoredKinds :
           stored'[b][id][x] # <<>> => stored[b][id][x] # <<>>,
         UNCHANGED net
  PROVE  RolesInv'
  <1>1. RolesOfRecords' /\ RolesOfMessages'
    BY DEF RolesInv, RolesOfRecords, RolesOfMessages, StatesOf
  <1>2. RolesOfTasks'
    BY IdleRole DEF RolesInv, RolesOfTasks, RoleOfTask, StatesOf, Active, Family, IsFor
  <1>3. \A b \in Agents, u \in Slots : Creating(tasks'[b][u]) => tasks'[b][u] = tasks[b][u]
    BY DEF Creating
  <1>4. RolesOfSaved'
    BY <1>3 DEF RolesInv, RolesOfSaved, ExchangesOf
  <1> QED
    BY <1>1, <1>2, <1>4 DEF RolesInv

LEMMA RolesKept ==
  ASSUME ExchangeTypes, ExchangeAssumption, IdsInv, RolesInv, Shapes
  PROVE  RolesInv'
  <1>0. \A m \in net : RoleOfMessage(m)
    BY DEF RolesInv, RolesOfMessages, RoleOfMessage
  <1>1. CASE \E a \in Agents : Crash(a)
    <2>1. PICK a \in Agents : Crash(a)
      BY <1>1
    <2>2. /\ \A u \in Slots : tasks'[a][u].pc = "idle"
          /\ \A b \in Agents \ {a}, u \in Slots : tasks'[b][u] = tasks[b][u]
          /\ UNCHANGED <<exchanges, stored, net>>
      BY <2>1, CrashedTasks
    <2> QED
      BY <2>2, LossRoles DEF ExchangesOf
  <1>2. ASSUME NEW a \in Agents, NEW t \in Slots, TaskShapes(a, t) PROVE RolesInv'
    <2>1. ASSUME Finish(a, t), UNCHANGED <<exchanges, stored>>,
                 \A m \in net' : RoleOfMessage(m)
          PROVE  RolesInv'
      <3>1. tasks'[a][t].pc = "idle" /\ OnlyTask(a, t)
        BY <2>1, StoppedTask
      <3>2. RoleOfTask(a, tasks'[a][t]) /\ ~Creating(tasks'[a][t])
        BY <3>1, IdleRole
      <3> QED
        BY <2>1, <3>1, <3>2, MoveKeepsRoles
    <2>2. CASE Stop(a, t)
      BY <1>0, <2>1, <2>2 DEF Stop
    <2>3. CASE SendResponse(a, t)
      <3>1. /\ At(a, t, "sendResponse") /\ Finish(a, t) /\ UNCHANGED <<exchanges, stored>>
            /\ net' = net \cup {Sent(a, tasks[a][t])}
        BY <2>3 DEF SendResponse, Sent
      <3>2. \A m \in net' : RoleOfMessage(m)
        BY <3>1, SentRole
      <3> QED
        BY <2>1, <3>1, <3>2
    <2>4. ASSUME NEW x \in StoredKinds, DeleteStep(a, t, x) PROVE RolesInv'
      <3>w. DeletesMessage(a, t, x)
        BY <2>4, DeletedMessage
      <3>1. /\ OnlyMessages(a, tasks[a][t].id, x) /\ stored[a][tasks[a][t].id][x] # <<>>
            /\ UNCHANGED <<exchanges, net, tasks>>
        BY <2>4, <3>w DEF DeleteStep, DeletesMessage
      <3>2. \A b \in Agents, id \in RecordIds, y \in StoredKinds :
              stored'[b][id][y] # <<>> => stored[b][id][y] # <<>>
        BY <3>1 DEF OnlyMessages
      <3> QED
        BY <3>1, <3>2, LossRoles DEF ExchangesOf
    <2> QED
      BY <1>2, <2>2, <2>3, <2>4, SaveRoles, UpdateRoles DEF TaskShapes
  <1>3. CASE \E a \in Agents, h \in Handlers, m \in net, id \in RecordIds : Receipts(a, h, m, id)
    BY <1>3, ReceiptRoles
  <1>4. ASSUME NEW a \in Agents, NEW h \in Handlers, StoreCredential(a, h) \/ Deciding(a, h)
        PROVE  RolesInv'
    <2> DEFINE k == tasks[a][h]
               task == tasks'[a][h]
    <2>0. RoleOfTask(a, k) /\ FoundBefore(a, h) /\ h \in Slots
      BY DEF RolesInv, RolesOfTasks, IdsInv, Slots
    <2>1. CASE StoreCredential(a, h)
      <3>w2. StoresCredential(a, h)
        BY <2>1, StoredTask
      <3>1. /\ GoesOn(a, h) /\ task.new = k.new /\ task.kind = k.kind
            /\ k.pc = "storeCredential" /\ task.pc = "saveReceived"
            /\ task.ex.state = k.ex.state
        BY <2>1, <3>w2 DEF StoresCredential
      <3>2. UNCHANGED <<exchanges, stored, net>>
        BY <2>1 DEF StoreCredential
      <3>3. OnlyTask(a, h) /\ task.ex.thread = k.ex.thread
        BY <3>1 DEF GoesOn
      <3>4. RoleOfTask(a, task) /\ ~Creating(task)
        BY <2>0, <3>1, <3>3 DEF RoleOfTask, Active, Creating, FoundBefore
      <3> QED
        BY <1>0, <2>0, <3>2, <3>3, <3>4, MoveKeepsRoles
    <2>2. CASE Deciding(a, h)
      <3>1. PICK answer \in Answers : DecideStep(a, h, answer)
        BY <2>2 DEF Deciding
      <3>w3. AnswersWith(a, h, answer)
        BY <3>1, DecidedTask
      <3>2. /\ GoesOn(a, h) /\ task.new = k.new /\ task.kind = answer.kind
            /\ k.pc = "decide" /\ task.pc \in {"saveResponse", "updateResponse"}
            /\ task.ex.state = answer.state
        BY <3>1, <3>w3 DEF AnswersWith
      <3>3. UNCHANGED <<exchanges, stored, net>> /\ <<k.kind, answer.kind, answer.state>> \in Replies
        BY <3>1 DEF DecideStep
      <3>4. OnlyTask(a, h) /\ task.ex.thread = k.ex.thread /\ k.ex.thread \in Threads
        BY <3>2 DEF GoesOn, ExchangeRecordType
      <3>5. Family(k.kind) = ProtocolOf[k.ex.thread] /\ IsFor(a, k.kind)
        BY <2>0, <3>2 DEF RoleOfTask, Active
      <3>6. /\ answer.state \in StatesOf(a, k.ex.thread) /\ answer.kind # "problem-report"
            /\ ~IsFor(a, answer.kind) /\ Family(answer.kind) = ProtocolOf[k.ex.thread]
        BY <3>3, <3>4, <3>5, ReplyRoles
      <3>7. RoleOfTask(a, task) /\ ~Creating(task)
        BY <2>0, <3>2, <3>4, <3>6 DEF RoleOfTask, Creating, FoundBefore
      <3> QED
        BY <1>0, <2>0, <3>3, <3>4, <3>7, MoveKeepsRoles
    <2> QED
      BY <1>4, <2>1, <2>2
  <1>5. ASSUME NEW a \in Agents, NEW s \in Callers, NEW id \in RecordIds, CallShapes(a, s, id)
        PROVE  RolesInv'
    <2>1. CASE RemoveStep(a, s, id)
      <3>1. /\ OnlyTask(a, s) /\ exchanges'[a][id] = None /\ OnlyRecord(a, id)
            /\ tasks'[a][s].pc = "deleteMessages" \/ tasks'[a][s] = tasks[a][s]
        BY <2>1, RemovedTask
      <3>2. UNCHANGED <<stored, net>>
        BY <2>1 DEF RemoveStep
      <3>3. \A b \in Agents : \A i \in ExchangesOf(b)' :
              i \in ExchangesOf(b) /\ exchanges'[b][i] = exchanges[b][i]
        BY <3>1 DEF OnlyRecord, ExchangesOf
      <3>4. \A b \in Agents, u \in Slots :
              tasks'[b][u] = tasks[b][u] \/ tasks'[b][u].pc \in {"idle", "deleteMessages"}
        BY <3>1 DEF OnlyTask
      <3> QED
        BY <3>2, <3>3, <3>4, LossRoles
    <2> QED
      BY <1>5, <2>1, CallRoles DEF CallShapes
  <1> QED
    BY <1>1, <1>2, <1>3, <1>4, <1>5 DEF Shapes

LEMMA RolesInit ==
  ASSUME Init
  PROVE  RolesInv
  <1>1. /\ \A a \in Agents, t \in Slots : tasks[a][t].pc = "idle"
        /\ \A a \in Agents : ExchangesOf(a) = {}
        /\ \A a \in Agents, id \in RecordIds, x \in StoredKinds : stored[a][id][x] = <<>>
        /\ net = {}
    BY DEF Init, Idle, ExchangesOf
  <1> QED
    BY <1>1, IdleRole DEF RolesInv, RolesOfRecords, RolesOfMessages, RolesOfTasks, RolesOfSaved
================================================================================
