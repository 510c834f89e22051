---------------------------- MODULE ExchangeRecords ----------------------------
(***************************************************************************)
(* The state that the issue-credential and present-proof protocols share:  *)
(* exchange records, the DIDComm messages saved with them, the credentials *)
(* in the wallet, the messages in flight, and the handlers and calls under *)
(* way.  Two agents share a connection that is ready.                      *)
(*                                                                         *)
(* Granularity: as in AgentRecords, one action performs one write (or one  *)
(* send) with the computation in front of it; reads that follow each other *)
(* are one step.  Storage hands out copies, so what a task writes may rest *)
(* on reads that are stale by then.                                        *)
(***************************************************************************)
EXTENDS Naturals, Sequences, FiniteSets

CONSTANTS
  Authority,     \* the agent that issues credentials and verifies proofs
  Holder,        \* the agent that holds them and proves
  Handlers,      \* message handlers an agent can run concurrently
  Callers,       \* application calls of the API that run concurrently
  Threads,       \* message threads that may be opened
  ProtocolOf,    \* the protocol each thread belongs to
  MaxThreads,    \* how many of them are opened in a behaviour
  RecordIds,     \* exchange record ids (bounds the records per agent)
  Contents,      \* the data that is negotiated and attached to messages
  AgentAuto,     \* agent-wide automatic acceptance
  AutoOptions,   \* values an application passes for automatic acceptance
  Calls,         \* the API calls that each agent's application makes
  WithoutConnection, \* may the first message be handed over out of band?
  MaxCredentials,    \* bounds the credentials that a wallet holds
  Faults,        \* faults of the environment that may happen
  None           \* "undefined" / "null"

Agents == {Authority, Holder}

Protocols == {"issue-credential", "present-proof"}
AutoModes == {"always", "contentApproved", "never"}

ASSUME ExchangeAssumption ==
  /\ Authority # Holder
  /\ Handlers \cap Callers = {}
  /\ ProtocolOf \in [Threads -> Protocols]
  /\ MaxThreads \in Nat /\ MaxCredentials \in Nat
  /\ RecordIds \subseteq Nat
  /\ None \notin Contents /\ None \notin BOOLEAN
  /\ AgentAuto \in [Agents -> AutoModes \cup {None}]
  /\ AutoOptions \subseteq AutoModes \cup {None}
  /\ WithoutConnection \in BOOLEAN
  /\ Faults \subseteq {"duplication", "crash"}

VARIABLES
  exchanges,  \* exchanges[a][id]: a's exchange record with that id
  stored,     \* stored[a][id][k]: the DIDComm messages of kind k saved for it
  wallet,     \* wallet[a]: the contents of a's credentials, in order of arrival
  opened,     \* threads that have been opened
  net,        \* messages in flight
  tasks       \* tasks[a][t]: what handler or caller t of agent a is doing

vars == <<exchanges, stored, wallet, opened, net, tasks>>

-------------------------------------------------------------------------------
(* Values *)

CredentialStates ==
  {"proposal-sent", "proposal-received", "offer-sent", "offer-received", "declined",
   "request-sent", "request-received", "credential-issued", "credential-received",
   "done", "abandoned"}

ProofStates ==
  {"proposal-sent", "proposal-received", "request-sent", "request-received",
   "presentation-sent", "presentation-received", "declined", "abandoned", "done"}

\* Messages that are saved with the exchange; acknowledgements and problem
\* reports are not.
StoredKinds ==
  {"propose-credential", "offer-credential", "request-credential", "issue-credential",
   "propose-presentation", "request-presentation", "presentation"}

Kinds == StoredKinds \cup {"credential-ack", "presentation-ack", "problem-report"}

\* An exchange record.  credentials holds the positions of the wallet's
\* credentials that the exchange has received, verified the verdict on the
\* presentation.
ExchangeRecordType ==
  [thread : Threads, connected : BOOLEAN, state : CredentialStates \cup ProofStates,
   auto : AutoModes \cup {None}, credentials : SUBSET (1 .. MaxCredentials),
   verified : BOOLEAN \cup {None}]

\* A record that exists is told from none.
ASSUME NoneIsNoRecord == None \notin ExchangeRecordType

MessageType == [kind : Kinds, thread : Threads, to : Agents, content : Contents \cup {None}]

\* The steps of a handler or call, each named for the write that is next.
Steps == {"idle", "storeCredential", "saveReceived", "updateReceived", "decide",
          "saveResponse", "updateResponse", "sendResponse", "updateOnly", "deleteMessages"}

\* What a task works on: the record it read or makes (ex, id; new: not saved
\* yet), the message it has received or is about to send (kind, content), and
\* how many messages of that kind it found saved already.
TaskType ==
  [pc : Steps, id : RecordIds \cup {None}, ex : ExchangeRecordType \cup {None},
   new : BOOLEAN, kind : Kinds \cup {None}, content : Contents \cup {None}, found : Nat]

Idle == [pc |-> "idle", id |-> None, ex |-> None, new |-> FALSE, kind |-> None,
         content |-> None, found |-> 0]

Slots == Handlers \cup Callers

Peer(a) == CHOOSE b \in Agents : b # a

-------------------------------------------------------------------------------
(* Storage *)

\* findByThreadAndConnectionId, for a message that came over the connection.
Matching(a, th) ==
  {id \in RecordIds : /\ exchanges[a][id] # None
                      /\ exchanges[a][id].thread = th /\ exchanges[a][id].connected}

\* An id nothing has been saved under.  Ids are only names: the smallest will do.
Unused(a, id) ==
  /\ exchanges[a][id] = None
  /\ \A k \in StoredKinds : stored[a][id][k] = <<>>
  /\ \A t \in Slots : tasks[a][t].id # id

FreshId(a, id) ==
  /\ id \in RecordIds /\ Unused(a, id)
  /\ \A b \in RecordIds : b < id => ~Unused(a, b)

\* getAgentMessage and findAgentMessage find a message of this kind, and one only.
Sole(a, id, k) == Len(stored[a][id][k]) = 1

ContentOf(a, id, k) == stored[a][id][k][1]

\* How many messages of a kind are saved; acknowledgements and reports never are.
Saved(a, id, k) == IF k \in StoredKinds THEN Len(stored[a][id][k]) ELSE 0

-------------------------------------------------------------------------------
(* Tasks *)

At(a, t, pc) == tasks[a][t].pc = pc

Continue(a, t, task) == tasks' = [tasks EXCEPT ![a][t] = task]

Finish(a, t) == Continue(a, t, Idle)

\* The first write of an answer: the message, if it is one that is saved.
FirstWrite(kind) == IF kind \in StoredKinds THEN "saveResponse" ELSE "updateResponse"

\* Where messages are duplicated, one that has been handled stays in flight.  A
\* message that is lost, or whose handler throws before its first write, is one that
\* no handler ever takes.
Consume(m) == net' = IF "duplication" \in Faults THEN net ELSE net \ {m}

\* Handler h of agent a takes a message of kind k from the connection.
Delivers(a, h, m, k) ==
  /\ h \in Handlers /\ At(a, h, "idle")
  /\ m \in net /\ m.to = a /\ m.kind = k
  /\ Consume(m)

\* Mutant: what the record says of its connection is left undefined.
NewExchange_NoConnection(th, connected, state, auto) ==
  [thread |-> th, connected |-> None, state |-> state, auto |-> auto,
   credentials |-> {}, verified |-> None]

NewExchange(th, connected, state, auto) ==
  [thread |-> th, connected |-> connected, state |-> state, auto |-> auto,
   credentials |-> {}, verified |-> None]

\* Mutant: the handler makes an exchange without looking for one.
Opens_Always(a, h, m, state) ==
  \E id \in RecordIds :
    /\ FreshId(a, id)
    /\ Continue(a, h, [pc |-> "saveReceived", id |-> id, new |-> TRUE, found |-> 0,
                       ex |-> NewExchange(m.thread, TRUE, state, None),
                       kind |-> m.kind, content |-> m.content])

\* No exchange has the thread: the handler makes one.
Opens(a, h, m, state) ==
  /\ Matching(a, m.thread) = {}
  /\ \E id \in RecordIds :
       /\ FreshId(a, id)
       /\ Continue(a, h, [pc |-> "saveReceived", id |-> id, new |-> TRUE, found |-> 0,
                          ex |-> NewExchange(m.thread, TRUE, state, None),
                          kind |-> m.kind, content |-> m.content])

\* Mutant: the state of the exchange is not checked.
Expected_AnyState(a, m, state) ==
  {id \in Matching(a, m.thread) : Matching(a, m.thread) = {id}}

\* One exchange has the thread, and it is in the state expected.  (With several
\* messages of this kind, saveOrUpdateAgentMessage throws.)
Expected(a, m, state) ==
  {id \in Matching(a, m.thread) : /\ Matching(a, m.thread) = {id}
                                  /\ exchanges[a][id].state = state}

Resumes(a, h, m, before, after, pc) ==
  \E id \in Expected(a, m, before) :
    /\ Saved(a, id, m.kind) < 2
    /\ Continue(a, h, [pc |-> pc, id |-> id, new |-> FALSE,
                       found |-> Saved(a, id, m.kind),
                       ex |-> [exchanges[a][id] EXCEPT !.state = after],
                       kind |-> m.kind, content |-> m.content])

-------------------------------------------------------------------------------
(* The writes of a task *)

\* saveOrUpdateAgentMessage: a message record is added, or the one found gets the
\* new message.  It throws when several are found, and when the one found has been
\* deleted meanwhile.
SaveFails(a, k) ==
  k.found > 1 \/ (k.found = 1 /\ stored[a][k.id][k.kind] = <<>>)

\* Mutant: a message record is added even when one was found.
SaveMessage_AlwaysAdds(a, k) ==
  stored' = [stored EXCEPT ![a][k.id][k.kind] = Append(@, k.content)]

SaveMessage(a, k) ==
  stored' = [stored EXCEPT ![a][k.id][k.kind] =
               IF k.found = 0 THEN Append(@, k.content) ELSE [@ EXCEPT ![1] = k.content]]

SaveReceived(a, h) ==
  LET k == tasks[a][h] IN
  /\ At(a, h, "saveReceived")
  /\ IF SaveFails(a, k)
       THEN Finish(a, h) /\ UNCHANGED stored
       ELSE SaveMessage(a, k) /\ Continue(a, h, [k EXCEPT !.pc = "updateReceived"])
  /\ UNCHANGED <<exchanges, wallet, opened, net>>

\* Repository.update throws when the record has been deleted meanwhile.
UpdateFails(a, k) == ~k.new /\ exchanges[a][k.id] = None

SaveExchange(a, k) == exchanges' = [exchanges EXCEPT ![a][k.id] = k.ex]

\* The handler writes the record with its new state.  Only the messages that can
\* be answered are decided on.
UpdateReceived(a, h) ==
  LET k == tasks[a][h] IN
  /\ At(a, h, "updateReceived")
  /\ IF UpdateFails(a, k)
       THEN Finish(a, h) /\ UNCHANGED exchanges
       ELSE /\ SaveExchange(a, k)
            /\ Continue(a, h, IF k.kind \in StoredKinds
                              THEN [k EXCEPT !.pc = "decide", !.new = FALSE] ELSE Idle)
  /\ UNCHANGED <<stored, wallet, opened, net>>

SaveResponse(a, t) ==
  LET k == tasks[a][t] IN
  /\ At(a, t, "saveResponse")
  /\ IF SaveFails(a, k)
       THEN Finish(a, t) /\ UNCHANGED stored
       ELSE SaveMessage(a, k) /\ Continue(a, t, [k EXCEPT !.pc = "updateResponse"])
  /\ UNCHANGED <<exchanges, wallet, opened, net>>

UpdateResponse(a, t) ==
  LET k == tasks[a][t] IN
  /\ At(a, t, "updateResponse")
  /\ IF UpdateFails(a, k)
       THEN Finish(a, t) /\ UNCHANGED exchanges
       ELSE SaveExchange(a, k) /\ Continue(a, t, [k EXCEPT !.pc = "sendResponse"])
  /\ UNCHANGED <<stored, wallet, opened, net>>

SendResponse(a, t) ==
  LET k == tasks[a][t] IN
  /\ At(a, t, "sendResponse")
  /\ net' = net \cup {[kind |-> k.kind, thread |-> k.ex.thread, to |-> Peer(a),
                       content |-> k.content]}
  /\ Finish(a, t)
  /\ UNCHANGED <<exchanges, stored, wallet, opened>>

\* updateState alone: an exchange is declined or abandoned.
UpdateOnly(a, t) ==
  LET k == tasks[a][t] IN
  /\ At(a, t, "updateOnly")
  /\ IF UpdateFails(a, k) THEN UNCHANGED exchanges ELSE SaveExchange(a, k)
  /\ Finish(a, t)
  /\ UNCHANGED <<stored, wallet, opened, net>>

\* delete has removed the exchange; the messages that were saved with it go one by
\* one, in the order the storage gave them in.
DeleteMessages(a, s) ==
  LET k    == tasks[a][s]
      left == {x \in StoredKinds : stored[a][k.id][x] # <<>>}
  IN  /\ At(a, s, "deleteMessages")
      /\ IF left = {}
           THEN Finish(a, s) /\ UNCHANGED stored
           ELSE /\ stored' = [stored EXCEPT ![a][k.id][CHOOSE x \in left : TRUE] = Tail(@)]
                /\ UNCHANGED tasks
      /\ UNCHANGED <<exchanges, wallet, opened, net>>

WriteNext ==
  \E a \in Agents, t \in Slots :
    \/ SaveReceived(a, t)   \/ UpdateReceived(a, t) \/ SaveResponse(a, t)
    \/ UpdateResponse(a, t) \/ SendResponse(a, t)   \/ UpdateOnly(a, t)
    \/ DeleteMessages(a, t)

-------------------------------------------------------------------------------
(* Automatic acceptance and calls of the API *)

\* composeAutoAccept: the record's setting, else the agent's, else never.
Compose(record, agent) ==
  IF record # None THEN record ELSE IF agent # None THEN agent ELSE "never"

Mode(a, ex) == Compose(ex.auto, AgentAuto[a])

\* An option that is not given leaves the record's setting.
WithOption(ex, option) == [ex EXCEPT !.auto = IF option = None THEN @ ELSE option]

\* An application takes by hand what no handler is still working on.
ByHand(a, id) == \A h \in Handlers : tasks[a][h].id # id

\* A call that starts an exchange: the thread is new, and the record is made.
StartsExchange(a, s, th, kind, state, connected) ==
  /\ kind \in Calls[a]
  /\ s \in Callers /\ At(a, s, "idle")
  /\ th \notin opened /\ Cardinality(opened) < MaxThreads
  /\ opened' = opened \cup {th}
  /\ \E id \in RecordIds, c \in Contents, option \in AutoOptions :
       /\ FreshId(a, id)
       /\ Continue(a, s, [pc |-> "saveResponse", id |-> id, new |-> TRUE, found |-> 0,
                          ex |-> NewExchange(th, connected, state, option),
                          kind |-> kind, content |-> c])
  /\ UNCHANGED <<exchanges, stored, wallet, net>>

\* What the party does next in an exchange: a message, and the state it leads to.
Answer(state, kind, c) == [state |-> state, kind |-> kind, content |-> c]

\* A call that answers by hand in an exchange whose state is `before`.
AnswersByHand(a, s, id, before, answer) ==
  /\ answer.kind \in Calls[a]
  /\ s \in Callers /\ At(a, s, "idle")
  /\ exchanges[a][id] # None
  /\ exchanges[a][id].state = before /\ exchanges[a][id].connected
  /\ ByHand(a, id)
  /\ Saved(a, id, answer.kind) < 2
  /\ \E option \in AutoOptions :
       Continue(a, s, [pc |-> FirstWrite(answer.kind), id |-> id, new |-> FALSE,
                       ex |-> [WithOption(exchanges[a][id], option)
                                 EXCEPT !.state = answer.state],
                       kind |-> answer.kind, content |-> answer.content,
                       found |-> Saved(a, id, answer.kind)])
  /\ UNCHANGED <<exchanges, stored, wallet, opened, net>>

\* A problem report about the exchange is sent to the other party.
Reports(a, id) ==
  /\ exchanges[a][id].connected
  /\ net' = net \cup {[kind |-> "problem-report", thread |-> exchanges[a][id].thread,
                       to |-> Peer(a), content |-> None]}

\* A handler goes on to answer what it has just processed.
AnswersNext(a, h, answer) ==
  LET k == tasks[a][h] IN
  Continue(a, h, [k EXCEPT !.pc = FirstWrite(answer.kind), !.ex.state = answer.state,
                           !.kind = answer.kind, !.content = answer.content,
                           !.found = Saved(a, k.id, answer.kind)])

-------------------------------------------------------------------------------
TypeOK ==
  /\ exchanges \in [Agents -> [RecordIds -> ExchangeRecordType \cup {None}]]
  /\ stored \in [Agents -> [RecordIds -> [StoredKinds -> Seq(Contents)]]]
  /\ wallet \in [Agents -> Seq(Contents)]
  /\ opened \subseteq Threads
  /\ net \subseteq MessageType
  /\ tasks \in [Agents -> [Slots -> TaskType]]

Init ==
  /\ exchanges = [a \in Agents |-> [id \in RecordIds |-> None]]
  /\ stored = [a \in Agents |-> [id \in RecordIds |-> [k \in StoredKinds |-> <<>>]]]
  /\ wallet = [a \in Agents |-> <<>>]
  /\ opened = {}
  /\ net = {}
  /\ tasks = [a \in Agents |-> [t \in Slots |-> Idle]]
================================================================================
