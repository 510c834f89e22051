------------------------- MODULE ExchangeContentProofs -------------------------
(***************************************************************************)
(* What is proved of the order and the content of credential and proof     *)
(* exchanges, for agents that handle one message at a time and whose       *)
(* application makes one call after the other.                             *)
(*                                                                         *)
(* A handler and a call can still work on one exchange.  They do not       *)
(* disturb each other because an exchange waits either for its peer or for *)
(* its application (TurnsInv).  On it rest the number of messages saved    *)
(* (SavedInv), the order of states (StatesInv), what the saved messages    *)
(* say of the record and of the copies that tasks hold (ContentInv), what  *)
(* was compared before an automatic answer (ApprovedInv), and what the     *)
(* messages of an issuance tell of the agent that sent them (IssuedInv).   *)
(***************************************************************************)
EXTENDS ExchangeProofs

\* The application of an agent makes one call after the other.
OneCaller == \A s, t \in Callers : s = t

-------------------------------------------------------------------------------
(* One task at a time works on an exchange. *)

\* The steps at which a task has taken an exchange for itself.
Engaged(a, t) ==
  tasks[a][t].pc \in
    (IF t \in Handlers
     THEN {"storeCredential", "saveReceived", "updateReceived", "decide", "saveResponse",
           "updateResponse", "sendResponse"}
     ELSE {"saveResponse", "updateResponse", "updateOnly"})

\* The states in which the next message is the other party's.
Awaiting == {"proposal-sent", "offer-sent", "request-sent", "credential-issued",
             "presentation-sent"}

Receiving == {"storeCredential", "saveReceived", "updateReceived"}

Existing(a, t) == Holding(tasks[a][t]) /\ exchanges[a][tasks[a][t].id] # None

RecordOf(a, t) == exchanges[a][tasks[a][t].id]

OneWorks(a) ==
  \A t, u \in Slots : t # u /\ Engaged(a, t) /\ Engaged(a, u) => tasks[a][t].id # tasks[a][u].id

\* A call answers or declines, and what a handler only updates it abandons.
StepsOfTask(a, t) ==
  /\ t \in Callers => tasks[a][t].pc \notin Receiving \cup {"decide"}
  /\ t \in Handlers /\ At(a, t, "updateOnly") => tasks[a][t].ex.state = "abandoned"

\* A handler takes up an exchange that awaits a message, a call one that does not.
TakenInTurn(a, t) ==
  Existing(a, t) =>
    /\ t \in Callers /\ Engaged(a, t) => RecordOf(a, t).state \notin Awaiting
    /\ t \in Handlers /\ tasks[a][t].pc \in Receiving => RecordOf(a, t).state \in Awaiting

TurnsInv ==
  \A a \in Agents : OneWorks(a) /\ \A t \in Slots : StepsOfTask(a, t) /\ TakenInTurn(a, t)

LEMMA RolesOfSlots ==
  ASSUME ExchangeAssumption, NEW t \in Slots
  PROVE  /\ t \in Handlers <=> t \notin Callers
         /\ t \in Handlers \/ t \in Callers
  BY DEF ExchangeAssumption, Slots

\* A task moves, and no record changes.
LEMMA MoveKeepsTurns ==
  ASSUME TurnsInv, NEW a \in Agents, NEW t \in Slots, OnlyTask(a, t), UNCHANGED exchanges,
         StepsOfTask(a, t)', TakenInTurn(a, t)',
         Engaged(a, t)' => \A u \in Slots : u # t /\ Engaged(a, u) => tasks[a][u].id # tasks'[a][t].id
  PROVE  TurnsInv'
  <1>1. \A b \in Agents, u \in Slots : <<b, u>> # <<a, t>> => tasks'[b][u] = tasks[b][u]
    BY DEF OnlyTask
  <1>2. \A b \in Agents, u \in Slots : <<b, u>> # <<a, t>> => (Engaged(b, u)' <=> Engaged(b, u))
    BY <1>1 DEF Engaged
  <1>3. ASSUME NEW b \in Agents PROVE OneWorks(b)'
    <2> SUFFICES ASSUME NEW u \in Slots, NEW v \in Slots, u # v, Engaged(b, u)', Engaged(b, v)'
                 PROVE  tasks'[b][u].id # tasks'[b][v].id
      BY DEF OneWorks
    <2>1. OneWorks(b)
      BY DEF TurnsInv
    <2>2. CASE <<b, u>> # <<a, t>> /\ <<b, v>> # <<a, t>>
      BY <1>1, <1>2, <2>1, <2>2 DEF OneWorks
    <2>3. CASE b = a /\ u = t
      BY <1>1, <1>2, <2>3
    <2>4. CASE b = a /\ v = t
      BY <1>1, <1>2, <2>4
    <2> QED
      BY <2>2, <2>3, <2>4
  <1>4. ASSUME NEW b \in Agents, NEW u \in Slots, <<b, u>> # <<a, t>>
        PROVE  StepsOfTask(b, u)' /\ TakenInTurn(b, u)'
    <2>1. StepsOfTask(b, u) /\ TakenInTurn(b, u)
      BY DEF TurnsInv
    <2> QED
      BY <1>1, <1>2, <1>4, <2>1 DEF StepsOfTask, TakenInTurn, Existing, RecordOf, At
  <1> QED
    BY <1>3, <1>4 DEF TurnsInv

\* A task ends, or goes on to delete.
LEMMA EndKeepsTurns ==
  ASSUME TurnsInv, NEW a \in Agents, NEW t \in Slots, OnlyTask(a, t), UNCHANGED exchanges,
         tasks'[a][t].pc = "idle"
  PROVE  TurnsInv'
  <1>1. StepsOfTask(a, t)' /\ TakenInTurn(a, t)' /\ ~Engaged(a, t)'
    BY DEF StepsOfTask, TakenInTurn, Existing, Holding, Engaged, Receiving, At
  <1> QED
    BY <1>1, MoveKeepsTurns

LEMMA MakingKeepsTurns ==
  ASSUME ExchangeAssumption, TurnsInv, NEW a \in Agents, NEW t \in Slots, NEW id \in RecordIds,
         NEW th, NEW connected, NEW state, NEW kind, NEW content,
         Makes(a, t, id, th, connected, state, kind, content),
         \/ t \in Handlers /\ tasks'[a][t].pc = "saveReceived"
         \/ t \in Callers /\ tasks'[a][t].pc = "saveResponse"
  PROVE  TurnsInv'
  <1>1. OnlyTask(a, t) /\ UNCHANGED exchanges /\ Creating(tasks'[a][t])
        /\ \A u \in Slots : tasks[a][u].id # tasks'[a][t].id
    BY DEF Makes, Creating, FreshId, Unused
  <1>2. StepsOfTask(a, t)' /\ TakenInTurn(a, t)'
    BY <1>1, RolesOfSlots DEF StepsOfTask, TakenInTurn, Existing, Holding, Receiving, At
  <1> QED
    BY <1>1, <1>2, MoveKeepsTurns

\* A call takes up an exchange that no handler works on.
LEMMA CallKeepsTurns ==
  ASSUME ExchangeAssumption, OneCaller, TurnsInv, NEW a \in Agents, NEW s \in Callers,
         NEW id \in RecordIds, TakesUp(a, s, id), ByHand(a, id),
         tasks'[a][s].pc \in {"saveResponse", "updateResponse", "updateOnly"},
         exchanges[a][id].state \notin Awaiting
  PROVE  TurnsInv'
  <1>1. /\ s \in Slots /\ s \notin Handlers /\ OnlyTask(a, s) /\ UNCHANGED exchanges
        /\ tasks'[a][s].id = id
    BY DEF TakesUp, ExchangeAssumption
  <1>2. StepsOfTask(a, s)' /\ TakenInTurn(a, s)'
    BY <1>1 DEF StepsOfTask, TakenInTurn, Existing, RecordOf, Receiving, At
  <1>3. \A u \in Slots : u # s => tasks[a][u].id # id
    BY DEF OneCaller, Slots, ByHand
  <1> QED
    BY <1>1, <1>2, <1>3, MoveKeepsTurns

\* A handler takes up an exchange.
LEMMA ReceiptKeepsTurns ==
  ASSUME ExchangeAssumption, OneHandler, IdsInv, TurnsInv, NEW a \in Agents, NEW h \in Handlers,
         NEW id \in RecordIds, TakesUp(a, h, id),
         \/ tasks'[a][h].pc = "updateOnly" /\ tasks'[a][h].ex.state = "abandoned"
         \/ tasks'[a][h].pc \in Receiving /\ exchanges[a][id].state \in Awaiting
  PROVE  TurnsInv'
  <1>1. /\ h \in Slots /\ h \notin Callers /\ OnlyTask(a, h) /\ UNCHANGED exchanges
        /\ tasks'[a][h].id = id /\ exchanges[a][id] # None
    BY DEF TakesUp, ExchangeAssumption
  <1>2. StepsOfTask(a, h)' /\ TakenInTurn(a, h)'
    BY <1>1 DEF StepsOfTask, TakenInTurn, Existing, RecordOf, Receiving, At
  <1>3. ASSUME Engaged(a, h)', NEW u \in Slots, u # h, Engaged(a, u) PROVE tasks[a][u].id # id
    <2>1. u \in Callers /\ u \notin Handlers
      BY <1>3, RolesOfSlots DEF OneHandler
    <2>2. exchanges[a][id].state \in Awaiting
      BY <1>1, <1>3 DEF Engaged
    <2>3. CreatingKeepsId(a, u) /\ TakenInTurn(a, u)
      BY DEF IdsInv, TurnsInv
    <2>4. CASE Creating(tasks[a][u])
      BY <1>1, <2>3, <2>4 DEF CreatingKeepsId
    <2>5. CASE ~Creating(tasks[a][u])
      <3>1. Holding(tasks[a][u])
        BY <1>3, <2>1, <2>5 DEF Engaged, Holding
      <3> QED
        BY <1>1, <1>3, <2>1, <2>2, <2>3, <3>1 DEF TakenInTurn, Existing, RecordOf
    <2> QED
      BY <2>4, <2>5
  <1> QED
    BY <1>1, <1>2, <1>3, MoveKeepsTurns

\* A task goes on with the exchange that it works on.
LEMMA GoingOnKeepsTurns ==
  ASSUME ExchangeAssumption, IdsInv, TurnsInv, NEW a \in Agents, NEW t \in Slots, GoesOn(a, t),
         UNCHANGED exchanges, tasks'[a][t].new = tasks[a][t].new,
         \/ tasks[a][t].pc = "storeCredential" /\ tasks'[a][t].pc = "saveReceived"
         \/ tasks[a][t].pc = "saveReceived" /\ tasks'[a][t].pc = "updateReceived"
         \/ tasks[a][t].pc = "saveResponse" /\ tasks'[a][t].pc = "updateResponse"
         \/ tasks[a][t].pc = "decide" /\ tasks'[a][t].pc \in {"saveResponse", "updateResponse"}
  PROVE  TurnsInv'
  <1>1. OnlyTask(a, t) /\ tasks'[a][t].id = tasks[a][t].id
    BY DEF GoesOn
  <1>2. StepsOfTask(a, t) /\ TakenInTurn(a, t) /\ FoundBefore(a, t) /\ OneWorks(a)
    BY DEF TurnsInv, IdsInv
  <1>3. Existing(a, t)' => Existing(a, t)
    BY <1>1, <1>2 DEF Existing, Holding, Creating, FoundBefore
  <1>4. StepsOfTask(a, t)' /\ TakenInTurn(a, t)'
    BY <1>1, <1>2, <1>3, RolesOfSlots DEF StepsOfTask, TakenInTurn, RecordOf, Engaged, Receiving, At
  <1>5. Engaged(a, t)
    BY <1>2, RolesOfSlots DEF Engaged, StepsOfTask, Receiving
  <1>6. \A u \in Slots : u # t /\ Engaged(a, u) => tasks[a][u].id # tasks'[a][t].id
    BY <1>1, <1>2, <1>5 DEF OneWorks
  <1> QED
    BY <1>1, <1>4, <1>6, MoveKeepsTurns

\* Only what a handler abandons is written over an exchange that another task works on.
LEMMA OnlyAbandoned ==
  ASSUME ExchangeTypes, ExchangeAssumption, IdsInv, TurnsInv, NEW a \in Agents, NEW t \in Slots,
         UpdateStep(a, t), NEW u \in Slots, u # t, Engaged(a, u),
         tasks[a][u].id = tasks[a][t].id
  PROVE  /\ t \in Handlers /\ At(a, t, "updateOnly") /\ tasks[a][t].ex.state = "abandoned"
         /\ ~Creating(tasks[a][u]) /\ ~Creating(tasks[a][t])
  <1>0. WritesRecord(a, t)
    BY UpdatedRecord
  <1>1. /\ tasks[a][t].pc \in {"updateReceived", "updateResponse", "updateOnly"}
        /\ tasks[a][u].pc # "idle"
    BY <1>0 DEF WritesRecord, Engaged
  <1>2. OneWorks(a) /\ StepsOfTask(a, t) /\ CreatingKeepsId(a, t) /\ CreatingKeepsId(a, u)
    BY DEF TurnsInv, IdsInv
  <1>3. ~Engaged(a, t)
    BY <1>2 DEF OneWorks
  <1>4. t \in Handlers /\ At(a, t, "updateOnly")
    BY <1>1, <1>2, <1>3, RolesOfSlots DEF Engaged, StepsOfTask, Receiving, At
  <1> QED
    BY <1>1, <1>2, <1>4 DEF StepsOfTask, CreatingKeepsId, At

LEMMA UpdateKeepsTurns ==
  ASSUME ExchangeTypes, ExchangeAssumption, OneHandler, IdsInv, TurnsInv, NEW a \in Agents, NEW t \in Slots,
         UpdateStep(a, t)
  PROVE  TurnsInv'
  <1> DEFINE k == tasks[a][t]
             task == tasks'[a][t]
  <1>0. WritesRecord(a, t) /\ MovesOn(a, t)
    BY UpdatedRecord, UpdatedTask
  <1>1. /\ k.id \in RecordIds /\ OnlyTask(a, t) /\ OnlyRecord(a, k.id)
        /\ k.pc \in {"updateReceived", "updateResponse", "updateOnly"}
        /\ exchanges'[a][k.id] = k.ex
    BY <1>0 DEF WritesRecord, MovesOn
  <1>2. \/ task.pc = "idle"
        \/ /\ task.pc \in {"decide", "sendResponse"} /\ task.id = k.id
           /\ task.pc = "decide" => k.pc = "updateReceived"
           /\ task.pc = "sendResponse" => k.pc = "updateResponse"
    BY <1>0 DEF MovesOn
  <1>3. StepsOfTask(a, t) /\ OneWorks(a)
    BY DEF TurnsInv
  <1>4. \A b \in Agents, u \in Slots : <<b, u>> # <<a, t>> => tasks'[b][u] = tasks[b][u]
    BY <1>1 DEF OnlyTask
  <1>5. /\ Engaged(a, t)' => Engaged(a, t) /\ task.id = k.id
        /\ StepsOfTask(a, t)' /\ TakenInTurn(a, t)'
    BY <1>1, <1>2, <1>3, RolesOfSlots DEF Engaged, StepsOfTask, TakenInTurn, Receiving, At
  <1>6. ASSUME NEW b \in Agents PROVE OneWorks(b)'
    <2> SUFFICES ASSUME NEW u \in Slots, NEW v \in Slots, u # v, Engaged(b, u)', Engaged(b, v)'
                 PROVE  tasks'[b][u].id # tasks'[b][v].id
      BY DEF OneWorks
    <2>1. \A w \in Slots : Engaged(b, w)' => Engaged(b, w) /\ tasks'[b][w].id = tasks[b][w].id
      BY <1>4, <1>5 DEF Engaged
    <2>2. OneWorks(b)
      BY DEF TurnsInv
    <2> QED
      BY <2>1, <2>2 DEF OneWorks
  <1>7. ASSUME NEW b \in Agents, NEW u \in Slots, <<b, u>> # <<a, t>>
        PROVE  StepsOfTask(b, u)' /\ TakenInTurn(b, u)'
    <2> DEFINE l == tasks[b][u]
    <2>1. /\ StepsOfTask(b, u) /\ TakenInTurn(b, u) /\ tasks'[b][u] = l
          /\ l.pc # "idle" => l.id \in RecordIds
      BY <1>4, <1>7 DEF TurnsInv, ExchangeTypes, TypedTask
    <2>2. StepsOfTask(b, u)'
      BY <2>1 DEF StepsOfTask, At
    <2>3. CASE b = a /\ l.id = k.id /\ Engaged(a, u)
      <3>1. u # t
        BY <1>7, <2>3
      <3>2. k.ex.state = "abandoned" /\ At(a, t, "updateOnly") /\ t \in Handlers
        BY <2>3, <3>1, OnlyAbandoned
      <3>3. exchanges'[b][l.id].state = "abandoned"
        BY <1>1, <2>3, <3>2
      <3>4. u \in Callers /\ u \notin Handlers
        BY <3>1, <3>2, RolesOfSlots DEF OneHandler
      <3> QED
        BY <2>1, <2>2, <3>3, <3>4, RolesOfSlots DEF TakenInTurn, RecordOf, Awaiting
    <2>4. CASE <<b, l.id>> # <<a, k.id>> /\ l.pc # "idle"
      <3>1. exchanges'[b][l.id] = exchanges[b][l.id]
        BY <1>1, <2>1, <2>4 DEF OnlyRecord
      <3> QED
        BY <2>1, <2>2, <3>1 DEF TakenInTurn, Existing, RecordOf, Engaged
    <2>5. CASE l.pc = "idle" \/ ~Engaged(b, u)
      BY <2>1, <2>2, <2>5, RolesOfSlots DEF TakenInTurn, Engaged, Receiving
    <2> QED
      BY <2>3, <2>4, <2>5
  <1> QED
    BY <1>5, <1>6, <1>7 DEF TurnsInv

\* Records go, and tasks end.
LEMMA LossKeepsTurns ==
  ASSUME ExchangeTypes, TurnsInv,
         \A b \in Agents, i \in RecordIds :
           exchanges'[b][i] = None \/ exchanges'[b][i] = exchanges[b][i],
         \A b \in Agents, u \in Slots :
           tasks'[b][u] = tasks[b][u] \/ tasks'[b][u].pc \in {"idle", "deleteMessages"}
  PROVE  TurnsInv'
  <1>1. ASSUME NEW b \in Agents, NEW u \in Slots, Engaged(b, u)'
        PROVE  Engaged(b, u) /\ tasks'[b][u] = tasks[b][u]
    <2>1. tasks'[b][u].pc \notin {"idle", "deleteMessages"}
      BY <1>1 DEF Engaged
    <2> QED
      BY <1>1, <2>1 DEF Engaged
  <1>2. ASSUME NEW b \in Agents PROVE OneWorks(b)'
    <2>1. OneWorks(b)
      BY DEF TurnsInv
    <2> QED
      BY <1>1, <2>1 DEF OneWorks
  <1>3. ASSUME NEW b \in Agents, NEW u \in Slots PROVE StepsOfTask(b, u)' /\ TakenInTurn(b, u)'
    <2>1. StepsOfTask(b, u) /\ TakenInTurn(b, u)
      BY DEF TurnsInv
    <2>2. CASE tasks'[b][u].pc \in {"idle", "deleteMessages"}
      BY <2>2 DEF StepsOfTask, TakenInTurn, Existing, Holding, Receiving, At
    <2>3. CASE tasks'[b][u] = tasks[b][u] /\ tasks'[b][u].pc # "idle"
      <3>1. tasks[b][u].id \in RecordIds
        BY <2>3 DEF ExchangeTypes, TypedTask
      <3> QED
        BY <2>1, <2>3, <3>1 DEF StepsOfTask, TakenInTurn, Existing, RecordOf, Engaged, At
    <2> QED
      BY <2>2, <2>3
  <1> QED
    BY <1>2, <1>3 DEF TurnsInv

LEMMA SameTurns ==
  ASSUME TurnsInv, UNCHANGED <<exchanges, tasks>>
  PROVE  TurnsInv'
  BY DEF TurnsInv, OneWorks, StepsOfTask, TakenInTurn, Existing, RecordOf, Engaged, At

\* Whose turn the states of Resumptions and RepliesByHand are.
LEMMA AwaitingStates ==
  /\ \A kind, before, after, pc :
       <<kind, before, after, pc>> \in Resumptions => before \in Awaiting
  /\ \A before, kind, state :
       <<before, kind, state>> \in RepliesByHand => before \notin Awaiting
  BY DEF Resumptions, RepliesByHand, Awaiting

LEMMA TurnsKept ==
  ASSUME ExchangeTypes, ExchangeAssumption, OneHandler, OneCaller, IdsInv, TurnsInv, Shapes
  PROVE  TurnsInv'
  <1>1. CASE \E a \in Agents : Crash(a)
    <2>1. PICK a \in Agents : Crash(a)
      BY <1>1
    <2>2. /\ \A u \in Slots : tasks'[a][u].pc = "idle"
          /\ \A b \in Agents \ {a}, u \in Slots : tasks'[b][u] = tasks[b][u]
          /\ UNCHANGED exchanges
      BY <2>1, CrashedTasks
    <2> QED
      BY <2>2, LossKeepsTurns
  <1>2. ASSUME NEW a \in Agents, NEW t \in Slots, TaskShapes(a, t) PROVE TurnsInv'
    <2>1. ASSUME Finish(a, t), UNCHANGED exchanges PROVE TurnsInv'
      BY <2>1, StoppedTask, EndKeepsTurns
    <2>2. CASE SaveStep(a, t)
      <3>w. SavesAndGoesOn(a, t)
        BY <2>2, SavedTask
      <3>1. /\ GoesOn(a, t) /\ UNCHANGED exchanges /\ tasks'[a][t].new = tasks[a][t].new
            /\ \/ tasks[a][t].pc = "saveReceived" /\ tasks'[a][t].pc = "updateReceived"
               \/ tasks[a][t].pc = "saveResponse" /\ tasks'[a][t].pc = "updateResponse"
        BY <2>2, <3>w DEF SaveStep, SavesAndGoesOn
      <3> QED
        BY <3>1, GoingOnKeepsTurns
    <2>3. CASE \E x \in StoredKinds : DeleteStep(a, t, x)
      BY <2>3, SameTurns DEF DeleteStep
    <2> QED
      BY <1>2, <2>1, <2>2, <2>3, UpdateKeepsTurns DEF TaskShapes, Stop, SendResponse
  <1>3. ASSUME NEW a \in Agents, NEW h \in Handlers, NEW m \in net, NEW id \in RecordIds,
               Receipts(a, h, m, id)
        PROVE  TurnsInv'
    <2>1. CASE AbandonStep(a, h, m, id)
      <3>1. /\ TakesUp(a, h, id) /\ tasks'[a][h].pc = "updateOnly"
            /\ tasks'[a][h].ex.state = "abandoned"
        BY <2>1, AbandonedTask
      <3> QED
        BY <3>1, ReceiptKeepsTurns
    <2>2. CASE Opening(a, h, m, id)
      <3>1. PICK state \in StateNames : OpenStep(a, h, m, id, state)
        BY <2>2 DEF Opening
      <3>2. /\ Makes(a, h, id, m.thread, TRUE, state, m.kind, m.content)
            /\ tasks'[a][h].pc = "saveReceived" /\ h \in Slots
        BY <3>1, OpenedTask DEF Slots
      <3> QED
        BY <3>2, MakingKeepsTurns
    <2>3. CASE Resuming(a, h, m, id)
      <3>1. PICK after \in StateNames, pc \in Steps, verdict \in BOOLEAN \cup {None} :
              ResumeStep(a, h, m, id, after, pc, verdict)
        BY <2>3 DEF Resuming
      <3>w2. ResumesWith(a, h, m, id, after, pc, verdict)
        BY <3>1, ResumedTask
      <3>2. TakesUp(a, h, id) /\ tasks'[a][h].pc \in Receiving
        BY <3>1, <3>w2 DEF Receiving, ResumesWith
      <3>3. exchanges[a][id].state \in Awaiting
        BY <3>1, AwaitingStates DEF ResumeStep
      <3> QED
        BY <3>2, <3>3, ReceiptKeepsTurns
    <2> QED
      BY <1>3, <2>1, <2>2, <2>3 DEF Receipts
  <1>4. ASSUME NEW a \in Agents, NEW h \in Handlers, StoreCredential(a, h) \/ Deciding(a, h)
        PROVE  TurnsInv'
    <2>1. CASE StoreCredential(a, h)
      <3>w3. StoresCredential(a, h)
        BY <2>1, StoredTask
      <3>1. /\ GoesOn(a, h) /\ UNCHANGED exchanges /\ tasks'[a][h].new = tasks[a][h].new
            /\ tasks[a][h].pc = "storeCredential" /\ tasks'[a][h].pc = "saveReceived"
            /\ h \in Slots
        BY <2>1, <3>w3 DEF Slots, StoresCredential
      <3> QED
        BY <3>1, GoingOnKeepsTurns
    <2>2. CASE Deciding(a, h)
      <3>1. PICK answer \in Answers : DecideStep(a, h, answer)
        BY <2>2 DEF Deciding
      <3>w4. AnswersWith(a, h, answer)
        BY <3>1, DecidedTask
      <3>2. /\ GoesOn(a, h) /\ UNCHANGED exchanges /\ tasks'[a][h].new = tasks[a][h].new
            /\ tasks[a][h].pc = "decide"
            /\ tasks'[a][h].pc \in {"saveResponse", "updateResponse"} /\ h \in Slots
        BY <3>1, <3>w4 DEF Slots, AnswersWith
      <3> QED
        BY <3>2, GoingOnKeepsTurns
    <2> QED
      BY <1>4, <2>1, <2>2
  <1>5. ASSUME NEW a \in Agents, NEW s \in Callers, NEW id \in RecordIds, CallShapes(a, s, id)
        PROVE  TurnsInv'
    <2>1. CASE DeclineStep(a, s, id)
      <3>1. TakesUp(a, s, id) /\ tasks'[a][s].pc = "updateOnly"
        BY <2>1, DeclinedTask
      <3>2. ByHand(a, id) /\ exchanges[a][id].state \notin Awaiting
        BY <2>1 DEF DeclineStep, Awaiting
      <3> QED
        BY <3>1, <3>2, CallKeepsTurns
    <2>2. CASE ReportStep(a, id)
      BY <2>2, SameTurns DEF ReportStep
    <2>3. CASE Replying(a, s, id)
      <3>1. PICK answer \in Answers, option \in AutoModes \cup {None} :
              ReplyStep(a, s, id, answer, option)
        BY <2>3 DEF Replying
      <3>w5. RepliesWith(a, s, id, answer)
        BY <3>1, RepliedTask
      <3>2. TakesUp(a, s, id) /\ tasks'[a][s].pc \in {"saveResponse", "updateResponse"}
        BY <3>1, <3>w5 DEF RepliesWith
      <3>3. ByHand(a, id) /\ exchanges[a][id].state \notin Awaiting
        BY <3>1, AwaitingStates DEF ReplyStep
      <3> QED
        BY <3>2, <3>3, CallKeepsTurns
    <2>4. CASE Starting(a, s, id)
      <3>1. PICK th \in Threads, kind \in StoredKinds, state \in StateNames,
                 connected \in BOOLEAN, c \in Contents, option \in AutoModes \cup {None} :
              StartStep(a, s, th, id, kind, state, connected, c, option)
        BY <2>4 DEF Starting
      <3>2. /\ Makes(a, s, id, th, connected, state, kind, c)
            /\ tasks'[a][s].pc = "saveResponse" /\ s \in Slots
        BY <3>1, StartedTask DEF Slots
      <3> QED
        BY <3>2, MakingKeepsTurns
    <2>5. CASE RemoveStep(a, s, id)
      <3>1. /\ OnlyTask(a, s) /\ exchanges'[a][id] = None /\ OnlyRecord(a, id)
            /\ tasks'[a][s].pc = "deleteMessages" \/ tasks'[a][s] = tasks[a][s]
        BY <2>5, RemovedTask
      <3>2. \A b \in Agents, i \in RecordIds :
              exchanges'[b][i] = None \/ exchanges'[b][i] = exchanges[b][i]
        BY <3>1 DEF OnlyRecord
      <3>3. \A b \in Agents, u \in Slots :
              tasks'[b][u] = tasks[b][u] \/ tasks'[b][u].pc \in {"idle", "deleteMessages"}
        BY <3>1 DEF OnlyTask
      <3> QED
        BY <3>2, <3>3, LossKeepsTurns
    <2> QED
      BY <1>5, <2>1, <2>2, <2>3, <2>4, <2>5 DEF CallShapes
  <1> QED
    BY <1>1, <1>2, <1>3, <1>4, <1>5 DEF Shapes

LEMMA TurnsInit ==
  ASSUME Init
  PROVE  TurnsInv
  <1>1. \A a \in Agents, t \in Slots : tasks[a][t].pc = "idle"
    BY DEF Init, Idle
  <1> QED
    BY <1>1 DEF TurnsInv, OneWorks, StepsOfTask, TakenInTurn, Existing, Holding, Engaged, Receiving, At

-------------------------------------------------------------------------------
(* Saved messages *)

\* What a task has not found is not saved meanwhile.
FoundIsCurrent(a, t) ==
  LET k == tasks[a][t] IN
  k.pc \in {"storeCredential", "saveReceived", "saveResponse"} /\ k.found = 0 =>
    stored[a][k.id][k.kind] = <<>>

SavedInv == OneMessagePerKind /\ \A a \in Agents, t \in Slots : FoundIsCurrent(a, t)

LEMMA MoveKeepsSaved ==
  ASSUME SavedInv, NEW a \in Agents, NEW t \in Slots, OnlyTask(a, t), UNCHANGED stored,
         FoundIsCurrent(a, t)'
  PROVE  SavedInv'
  <1>1. ASSUME NEW b \in Agents, NEW u \in Slots, <<b, u>> # <<a, t>> PROVE FoundIsCurrent(b, u)'
    <2>1. tasks'[b][u] = tasks[b][u] /\ FoundIsCurrent(b, u)
      BY <1>1 DEF OnlyTask, SavedInv
    <2> QED
      BY <2>1 DEF FoundIsCurrent
  <1>2. OneMessagePerKind'
    BY DEF SavedInv, OneMessagePerKind
  <1> QED
    BY <1>1, <1>2 DEF SavedInv

\* What a task has looked up is what it has found.
LEMMA LookedUp ==
  ASSUME ExchangeTypes, NEW a \in Agents, NEW id \in RecordIds, NEW x \in StoredKinds,
         Saved(a, id, x) = 0
  PROVE  stored[a][id][x] = <<>>
  <1>1. stored[a][id][x] \in Seq(Contents)
    BY ReadMessage
  <1>2. Len(stored[a][id][x]) = 0
    BY DEF Saved
  <1> QED
    BY <1>1, <1>2, EmptySeq

\* A task takes up, makes or goes on with an exchange.
LEMMA FoundKeepsSaved ==
  ASSUME ExchangeTypes, (ExchangeTypes)', SavedInv, NEW a \in Agents, NEW t \in Slots,
         OnlyTask(a, t), UNCHANGED stored,
         \/ tasks'[a][t].pc \notin {"storeCredential", "saveReceived", "saveResponse"}
         \/ FreshId(a, tasks'[a][t].id)
         \/ tasks'[a][t].found = Saved(a, tasks'[a][t].id, tasks'[a][t].kind)
         \/ /\ tasks[a][t].pc \in {"storeCredential", "saveReceived", "saveResponse"}
            /\ tasks'[a][t].id = tasks[a][t].id /\ tasks'[a][t].kind = tasks[a][t].kind
            /\ tasks'[a][t].found = tasks[a][t].found
  PROVE  SavedInv'
  <1> DEFINE task == tasks'[a][t]
  <1>1. FoundIsCurrent(a, t)'
    <2> SUFFICES ASSUME task.pc \in {"storeCredential", "saveReceived", "saveResponse"},
                        task.found = 0
                 PROVE  stored'[a][task.id][task.kind] = <<>>
      BY DEF FoundIsCurrent
    <2>1. task.id \in RecordIds /\ task.kind \in StoredKinds
      BY DEF ExchangeTypes, TypedTask
    <2>2. CASE FreshId(a, task.id)
      BY <2>1, <2>2 DEF FreshId, Unused
    <2>3. CASE task.found = Saved(a, task.id, task.kind)
      BY <2>1, <2>3, LookedUp
    <2>4. CASE /\ tasks[a][t].pc \in {"storeCredential", "saveReceived", "saveResponse"}
               /\ task.id = tasks[a][t].id /\ task.kind = tasks[a][t].kind
               /\ task.found = tasks[a][t].found
      <3>1. FoundIsCurrent(a, t)
        BY DEF SavedInv
      <3> QED
        BY <2>4, <3>1 DEF FoundIsCurrent
    <2> QED
      BY <2>2, <2>3, <2>4
  <1> QED
    BY <1>1, MoveKeepsSaved

\* Tasks end, and messages are not added.
LEMMA LossKeepsSaved ==
  ASSUME ExchangeTypes, SavedInv,
         \A b \in Agents, id \in RecordIds, x \in StoredKinds :
           stored'[b][id][x] = stored[b][id][x] \/ stored'[b][id][x] = <<>>,
         \A b \in Agents, u \in Slots :
           tasks'[b][u] = tasks[b][u] \/ tasks'[b][u].pc \in {"idle", "deleteMessages"}
  PROVE  SavedInv'
  <1>1. OneMessagePerKind'
    BY DEF SavedInv, OneMessagePerKind
  <1>2. ASSUME NEW b \in Agents, NEW u \in Slots PROVE FoundIsCurrent(b, u)'
    <2>1. CASE tasks'[b][u].pc \in {"idle", "deleteMessages"}
      BY <2>1 DEF FoundIsCurrent
    <2>2. CASE tasks'[b][u] = tasks[b][u]
      <3>1. FoundIsCurrent(b, u) /\ TypedTask(tasks[b][u])
        BY DEF SavedInv, ExchangeTypes
      <3> QED
        BY <2>2, <3>1 DEF FoundIsCurrent, TypedTask
    <2> QED
      BY <2>1, <2>2
  <1> QED
    BY <1>1, <1>2 DEF SavedInv

\* The task that saves is the only one that works on the exchange.
LEMMA SaversWork ==
  ASSUME ExchangeAssumption, TurnsInv, NEW a \in Agents, NEW t \in Slots, NEW u \in Slots, t # u,
         tasks[a][t].pc \in {"storeCredential", "saveReceived", "saveResponse"},
         tasks[a][u].pc \in {"storeCredential", "saveReceived", "saveResponse"}
  PROVE  tasks[a][t].id # tasks[a][u].id
  <1>1. OneWorks(a) /\ StepsOfTask(a, t) /\ StepsOfTask(a, u)
    BY DEF TurnsInv
  <1>2. Engaged(a, t) /\ Engaged(a, u)
    BY <1>1, RolesOfSlots DEF StepsOfTask, Engaged, Receiving
  <1> QED
    BY <1>1, <1>2 DEF OneWorks

LEMMA SaveKeepsSaved ==
  ASSUME ExchangeTypes, ExchangeAssumption, TurnsInv, SavedInv, NEW a \in Agents, NEW t \in Slots,
         SaveStep(a, t)
  PROVE  SavedInv'
  <1> DEFINE k == tasks[a][t]
             old == stored[a][k.id][k.kind]
  <1>w. SavesMessage(a, t)
    BY SavedMessage
  <1>1. /\ k.id \in RecordIds /\ k.kind \in StoredKinds /\ k.content \in Contents
        /\ OnlyMessages(a, k.id, k.kind)
    BY <1>w DEF SavesMessage
  <1>w2. SavesAndGoesOn(a, t)
    BY SavedTask
  <1>2. /\ OnlyTask(a, t) /\ k.pc \in {"saveReceived", "saveResponse"}
        /\ tasks'[a][t].pc \in {"updateReceived", "updateResponse"}
    BY <1>w2 DEF GoesOn, SavesAndGoesOn
  <1>3. old \in Seq(Contents) /\ Len(old) < 2 /\ FoundIsCurrent(a, t)
    BY <1>1, ReadMessage DEF SavedInv, OneMessagePerKind
  <1>4. Len(stored'[a][k.id][k.kind]) < 2
    <2>1. CASE k.found = 0
      <3>1. old = <<>>
        BY <1>2, <1>3, <2>1 DEF FoundIsCurrent
      <3>w3. SavesMessage(a, t)
        BY <2>1, SavedMessage
      <3>2. stored'[a][k.id][k.kind] = Append(old, k.content)
        BY <2>1, <3>w3 DEF SavesMessage
      <3>3. stored'[a][k.id][k.kind] = <<k.content>>
        BY <3>1, <3>2
      <3> QED
        BY <3>3
    <2>2. CASE k.found # 0
      <3>w4. SavesMessage(a, t)
        BY <2>2, SavedMessage
      <3>1. stored'[a][k.id][k.kind] = [old EXCEPT ![1] = k.content]
        BY <2>2, <3>w4 DEF SavesMessage
      <3>2. Len([old EXCEPT ![1] = k.content]) = Len(old)
        BY <1>1, <1>3, ReplacedFirst
      <3> QED
        BY <1>3, <3>1, <3>2
    <2> QED
      BY <2>1, <2>2
  <1>5. OneMessagePerKind'
    <2> SUFFICES ASSUME NEW b \in Agents, NEW id \in RecordIds, NEW x \in StoredKinds
                 PROVE  Len(stored'[b][id][x]) < 2
      BY DEF OneMessagePerKind
    <2>1. CASE <<b, id, x>> = <<a, k.id, k.kind>>
      BY <1>4, <2>1
    <2>2. CASE <<b, id, x>> # <<a, k.id, k.kind>>
      BY <1>1, <2>2 DEF OnlyMessages, SavedInv, OneMessagePerKind
    <2> QED
      BY <2>1, <2>2
  <1>6. ASSUME NEW b \in Agents, NEW u \in Slots PROVE FoundIsCurrent(b, u)'
    <2>1. CASE <<b, u>> = <<a, t>>
      BY <1>2, <2>1 DEF FoundIsCurrent
    <2>2. CASE <<b, u>> # <<a, t>>
      <3> SUFFICES ASSUME tasks'[b][u].pc \in {"storeCredential", "saveReceived", "saveResponse"}
                   PROVE  FoundIsCurrent(b, u)'
        BY DEF FoundIsCurrent
      <3>1. /\ tasks'[b][u] = tasks[b][u] /\ FoundIsCurrent(b, u)
            /\ tasks[b][u].id \in RecordIds /\ tasks[b][u].kind \in StoredKinds
        BY <1>2, <2>2 DEF OnlyTask, SavedInv, ExchangeTypes, TypedTask
      <3>2. <<b, tasks[b][u].id>> # <<a, k.id>>
        BY <1>2, <2>2, <3>1, SaversWork
      <3>3. \A i \in RecordIds, y \in StoredKinds :
              <<b, i>> # <<a, k.id>> => stored'[b][i][y] = stored[b][i][y]
        BY <1>1 DEF OnlyMessages
      <3>4. stored'[b][tasks[b][u].id][tasks[b][u].kind] = stored[b][tasks[b][u].id][tasks[b][u].kind]
        BY <3>1, <3>2, <3>3
      <3> QED
        BY <3>1, <3>4 DEF FoundIsCurrent
    <2> QED
      BY <2>1, <2>2
  <1> QED
    BY <1>5, <1>6 DEF SavedInv

LEMMA SavedKept ==
  ASSUME ExchangeTypes, (ExchangeTypes)', ExchangeAssumption, TurnsInv, SavedInv, Shapes
  PROVE  SavedInv'
  <1>1. CASE \E a \in Agents : Crash(a)
    <2>1. PICK a \in Agents : Crash(a)
      BY <1>1
    <2>2. /\ \A u \in Slots : tasks'[a][u].pc = "idle"
          /\ \A b \in Agents \ {a}, u \in Slots : tasks'[b][u] = tasks[b][u]
          /\ UNCHANGED stored
      BY <2>1, CrashedTasks
    <2> QED
      BY <2>2, LossKeepsSaved
  <1>2. ASSUME NEW a \in Agents, NEW t \in Slots, TaskShapes(a, t) PROVE SavedInv'
    <2>1. ASSUME Finish(a, t), UNCHANGED stored PROVE SavedInv'
      <3>1. tasks'[a][t].pc = "idle" /\ OnlyTask(a, t)
        BY <2>1, StoppedTask
      <3> QED
        BY <2>1, <3>1, FoundKeepsSaved
    <2>2. CASE UpdateStep(a, t)
      <3>0. WritesRecord(a, t) /\ MovesOn(a, t)
        BY <2>2, UpdatedRecord, UpdatedTask
      <3>1. /\ OnlyTask(a, t) /\ UNCHANGED stored
            /\ tasks'[a][t].pc \in {"idle", "decide", "sendResponse"}
        BY <3>0 DEF WritesRecord, MovesOn
      <3> QED
        BY <3>1, FoundKeepsSaved
    <2>3. ASSUME NEW x \in StoredKinds, DeleteStep(a, t, x) PROVE SavedInv'
      <3> DEFINE id == tasks[a][t].id
      <3>w. DeletesMessage(a, t, x)
        BY <2>3, DeletedMessage
      <3>0. OnlyMessages(a, id, x) /\ UNCHANGED tasks
        BY <2>3, <3>w DEF DeletesMessage
      <3>w2. DeletesMessage(a, t, x)
        BY <2>3, DeletedMessage
      <3>1. /\ id \in RecordIds /\ stored[a][id][x] # <<>>
            /\ stored'[a][id][x] = Tail(stored[a][id][x])
        BY <2>3, <3>w2 DEF DeletesMessage
      <3>2. stored[a][id][x] \in Seq(Contents) /\ Len(stored[a][id][x]) < 2
        BY <3>1, ReadMessage DEF SavedInv, OneMessagePerKind
      <3>3. Tail(stored[a][id][x]) = <<>>
        BY <3>1, <3>2
      <3>4. \A b \in Agents, i \in RecordIds, y \in StoredKinds :
              stored'[b][i][y] = stored[b][i][y] \/ stored'[b][i][y] = <<>>
        <4>1. stored'[a][id][x] = <<>>
          BY <3>1, <3>3
        <4> QED
          BY <3>0, <4>1 DEF OnlyMessages
      <3> QED
        BY <3>0, <3>4, LossKeepsSaved
    <2> QED
      BY <1>2, <2>1, <2>2, <2>3, SaveKeepsSaved DEF TaskShapes, Stop, SendResponse
  <1>3. ASSUME NEW a \in Agents, NEW h \in Handlers, NEW m \in net, NEW id \in RecordIds,
               Receipts(a, h, m, id)
        PROVE  SavedInv'
    <2>0. h \in Slots
      BY DEF Slots
    <2>1. CASE AbandonStep(a, h, m, id)
      <3>1. OnlyTask(a, h) /\ UNCHANGED stored /\ tasks'[a][h].pc = "updateOnly"
        BY <2>1, AbandonedTask DEF TakesUp
      <3> QED
        BY <2>0, <3>1, FoundKeepsSaved
    <2>2. CASE Opening(a, h, m, id)
      <3>1. PICK state \in StateNames : OpenStep(a, h, m, id, state)
        BY <2>2 DEF Opening
      <3>2. Makes(a, h, id, m.thread, TRUE, state, m.kind, m.content)
        BY <3>1, OpenedTask
      <3>3. OnlyTask(a, h) /\ UNCHANGED stored /\ FreshId(a, tasks'[a][h].id)
        BY <3>2 DEF Makes
      <3> QED
        BY <2>0, <3>3, FoundKeepsSaved
    <2>3. CASE Resuming(a, h, m, id)
      <3>1. PICK after \in StateNames, pc \in Steps, verdict \in BOOLEAN \cup {None} :
              ResumeStep(a, h, m, id, after, pc, verdict)
        BY <2>3 DEF Resuming
      <3>w3. ResumesWith(a, h, m, id, after, pc, verdict)
        BY <3>1, ResumedTask
      <3>2. /\ TakesUp(a, h, id) /\ tasks'[a][h].kind = m.kind
            /\ tasks'[a][h].found = Saved(a, id, m.kind)
        BY <3>1, <3>w3 DEF ResumesWith
      <3>3. OnlyTask(a, h) /\ UNCHANGED stored /\ tasks'[a][h].id = id
        BY <3>2 DEF TakesUp
      <3> QED
        BY <2>0, <3>2, <3>3, FoundKeepsSaved
    <2> QED
      BY <1>3, <2>1, <2>2, <2>3 DEF Receipts
  <1>4. ASSUME NEW a \in Agents, NEW h \in Handlers, StoreCredential(a, h) \/ Deciding(a, h)
        PROVE  SavedInv'
    <2>0. h \in Slots
      BY DEF Slots
    <2>1. CASE StoreCredential(a, h)
      <3>w4. StoresCredential(a, h)
        BY <2>1, StoredTask
      <3>1. /\ GoesOn(a, h) /\ UNCHANGED stored /\ tasks[a][h].pc = "storeCredential"
            /\ tasks'[a][h].kind = tasks[a][h].kind /\ tasks'[a][h].found = tasks[a][h].found
        BY <2>1, <3>w4 DEF StoresCredential
      <3>2. OnlyTask(a, h) /\ tasks'[a][h].id = tasks[a][h].id
        BY <3>1 DEF GoesOn
      <3> QED
        BY <2>0, <3>1, <3>2, FoundKeepsSaved
    <2>2. CASE Deciding(a, h)
      <3>1. PICK answer \in Answers : DecideStep(a, h, answer)
        BY <2>2 DEF Deciding
      <3>w5. AnswersWith(a, h, answer)
        BY <3>1, DecidedTask
      <3>2. /\ GoesOn(a, h) /\ UNCHANGED stored /\ tasks'[a][h].kind = answer.kind
            /\ tasks'[a][h].found = Saved(a, tasks[a][h].id, answer.kind)
        BY <3>1, <3>w5 DEF AnswersWith
      <3>3. OnlyTask(a, h) /\ tasks'[a][h].id = tasks[a][h].id
        BY <3>2 DEF GoesOn
      <3> QED
        BY <2>0, <3>2, <3>3, FoundKeepsSaved
    <2> QED
      BY <1>4, <2>1, <2>2
  <1>5. ASSUME NEW a \in Agents, NEW s \in Callers, NEW id \in RecordIds, CallShapes(a, s, id)
        PROVE  SavedInv'
    <2>0. s \in Slots
      BY DEF Slots
    <2>1. CASE DeclineStep(a, s, id)
      <3>1. OnlyTask(a, s) /\ UNCHANGED stored /\ tasks'[a][s].pc = "updateOnly"
        BY <2>1, DeclinedTask DEF TakesUp
      <3> QED
        BY <2>0, <3>1, FoundKeepsSaved
    <2>2. CASE ReportStep(a, id)
      <3>1. UNCHANGED <<stored, tasks>>
        BY <2>2 DEF ReportStep
      <3> QED
        BY <3>1, LossKeepsSaved
    <2>3. CASE Replying(a, s, id)
      <3>1. PICK answer \in Answers, option \in AutoModes \cup {None} :
              ReplyStep(a, s, id, answer, option)
        BY <2>3 DEF Replying
      <3>w6. RepliesWith(a, s, id, answer)
        BY <3>1, RepliedTask
      <3>2. /\ TakesUp(a, s, id) /\ tasks'[a][s].kind = answer.kind
            /\ tasks'[a][s].found = Saved(a, id, answer.kind)
        BY <3>1, <3>w6 DEF RepliesWith
      <3>3. OnlyTask(a, s) /\ UNCHANGED stored /\ tasks'[a][s].id = id
        BY <3>2 DEF TakesUp
      <3> QED
        BY <2>0, <3>2, <3>3, FoundKeepsSaved
    <2>4. CASE Starting(a, s, id)
      <3>1. PICK th \in Threads, kind \in StoredKinds, state \in StateNames,
                 connected \in BOOLEAN, c \in Contents, option \in AutoModes \cup {None} :
              StartStep(a, s, th, id, kind, state, connected, c, option)
        BY <2>4 DEF Starting
      <3>2. Makes(a, s, id, th, connected, state, kind, c)
        BY <3>1, StartedTask
      <3>3. OnlyTask(a, s) /\ UNCHANGED stored /\ FreshId(a, tasks'[a][s].id)
        BY <3>2 DEF Makes
      <3> QED
        BY <2>0, <3>3, FoundKeepsSaved
    <2>5. CASE RemoveStep(a, s, id)
      <3>1. /\ OnlyTask(a, s) /\ UNCHANGED stored
            /\ tasks'[a][s].pc = "deleteMessages" \/ tasks'[a][s] = tasks[a][s]
        BY <2>5, RemovedTask
      <3>2. \A b \in Agents, u \in Slots :
              tasks'[b][u] = tasks[b][u] \/ tasks'[b][u].pc \in {"idle", "deleteMessages"}
        BY <3>1 DEF OnlyTask
      <3> QED
        BY <3>1, <3>2, LossKeepsSaved
    <2> QED
      BY <1>5, <2>1, <2>2, <2>3, <2>4, <2>5 DEF CallShapes
  <1> QED
    BY <1>1, <1>2, <1>3, <1>4, <1>5 DEF Shapes

LEMMA SavedInit ==
  ASSUME Init
  PROVE  SavedInv
  <1>1. /\ \A a \in Agents, t \in Slots : tasks[a][t].pc = "idle"
        /\ \A a \in Agents, id \in RecordIds, x \in StoredKinds : stored[a][id][x] = <<>>
    BY DEF Init, Idle
  <1> QED
    BY <1>1 DEF SavedInv, OneMessagePerKind, FoundIsCurrent

LEMMA TurnsAndSaved ==
  ASSUME OneHandler, OneCaller
  PROVE  Spec => [](ExchangeTypes /\ IdsInv /\ RolesInv /\ TurnsInv /\ SavedInv)
  <1> DEFINE Inv == IdsInv /\ RolesInv /\ TurnsInv /\ SavedInv
  <1>1. Init => Inv
    BY IdsInit, RolesInit, TurnsInit, SavedInit
  <1>2. ExchangeTypes /\ ExchangeTypes' /\ Inv /\ [Next]_vars => Inv'
    <2>1. ASSUME ExchangeTypes, (ExchangeTypes)', Inv, Next PROVE Inv'
      <3>1. Shapes
        BY <2>1, ExchangeAssumption, StepShapes
      <3> QED
        BY <2>1, <3>1, ExchangeAssumption, IdsKept, RolesKept, TurnsKept, SavedKept
    <2>2. ASSUME ExchangeTypes, Inv, UNCHANGED vars PROVE Inv'
      <3>1. IdsInv' /\ TurnsInv'
        BY <2>2, SameIds, SameTurns DEF vars
      <3>2. RolesInv'
        BY <2>2, SameRoles DEF vars, RolesInv, RolesOfMessages, RoleOfMessage
      <3>3. SavedInv'
        BY <2>2, LossKeepsSaved DEF vars
      <3> QED
        BY <3>1, <3>2, <3>3
    <2> QED
      BY <2>1, <2>2
  <1> QED
    BY <1>1, <1>2, ExchangeTypesHold, PTL DEF Spec

\* An exchange keeps one message of each kind (OneMessagePerKind), where an agent handles
\* one message, and its application makes one call, at a time: what a task has not found
\* no other task saves before it does.
THEOREM MessagesAreSavedOnce ==
  ASSUME OneHandler, OneCaller
  PROVE  Spec => []OneMessagePerKind
  <1>1. SavedInv => OneMessagePerKind
    BY DEF SavedInv
  <1> QED
    BY <1>1, TurnsAndSaved, PTL

-------------------------------------------------------------------------------
(* States *)

StepsOf(th) == IF ProtocolOf[th] = "issue-credential" THEN CredentialSteps ELSE ProofSteps

\* The state that a message leads to.
Received ==
  Openings \cup {<<"issue-credential", "credential-received">>,
                 <<"presentation", "presentation-received">>,
                 <<"credential-ack", "done">>, <<"presentation-ack", "done">>}

KindTells(a, t) ==
  tasks[a][t].pc \in Receiving \cup {"decide"} =>
    <<tasks[a][t].kind, tasks[a][t].ex.state>> \in Received

\* What a task is going to write follows the state that the record has by then.
Follows(a, t) ==
  LET k == tasks[a][t] IN
  Existing(a, t) /\ Engaged(a, t) /\ k.pc # "sendResponse" =>
    \/ RecordOf(a, t).state = "abandoned"
    \/ k.pc = "decide" /\ k.ex.state = RecordOf(a, t).state
    \/ k.pc # "decide" /\ <<RecordOf(a, t).state, k.ex.state>> \in StepsOf(k.ex.thread)

StatesInv == \A a \in Agents, t \in Slots : KindTells(a, t) /\ Follows(a, t)

LEMMA MoveKeepsStates ==
  ASSUME StatesInv, NEW a \in Agents, NEW t \in Slots, OnlyTask(a, t), UNCHANGED exchanges,
         KindTells(a, t)', Follows(a, t)'
  PROVE  StatesInv'
  <1>1. ASSUME NEW b \in Agents, NEW u \in Slots, <<b, u>> # <<a, t>>
        PROVE  KindTells(b, u)' /\ Follows(b, u)'
    <2>1. tasks'[b][u] = tasks[b][u] /\ KindTells(b, u) /\ Follows(b, u)
      BY <1>1 DEF OnlyTask, StatesInv
    <2> QED
      BY <2>1 DEF KindTells, Follows, Existing, Engaged, RecordOf
  <1> QED
    BY <1>1 DEF StatesInv

LEMMA RestKeepsStates ==
  ASSUME StatesInv, NEW a \in Agents, NEW t \in Slots, OnlyTask(a, t), UNCHANGED exchanges,
         \/ tasks'[a][t].pc = "idle"
         \/ t \in Handlers /\ tasks'[a][t].pc = "updateOnly"
  PROVE  StatesInv'
  <1>1. KindTells(a, t)' /\ Follows(a, t)'
    BY DEF KindTells, Follows, Existing, Holding, Engaged, Receiving
  <1> QED
    BY <1>1, MoveKeepsStates

LEMMA LossKeepsStates ==
  ASSUME ExchangeTypes, StatesInv,
         \A b \in Agents, i \in RecordIds :
           exchanges'[b][i] = None \/ exchanges'[b][i] = exchanges[b][i],
         \A b \in Agents, u \in Slots :
           tasks'[b][u] = tasks[b][u] \/ tasks'[b][u].pc \in {"idle", "deleteMessages"}
  PROVE  StatesInv'
  <1>1. ASSUME NEW b \in Agents, NEW u \in Slots PROVE KindTells(b, u)' /\ Follows(b, u)'
    <2>1. KindTells(b, u) /\ Follows(b, u)
      BY DEF StatesInv
    <2>2. CASE tasks'[b][u].pc \in {"idle", "deleteMessages"}
      BY <2>2 DEF KindTells, Follows, Existing, Holding, Receiving
    <2>3. CASE tasks'[b][u] = tasks[b][u] /\ tasks'[b][u].pc # "idle"
      <3>1. tasks[b][u].id \in RecordIds
        BY <2>3 DEF ExchangeTypes, TypedTask
      <3> QED
        BY <2>1, <2>3, <3>1 DEF KindTells, Follows, Existing, RecordOf, Engaged
    <2> QED
      BY <2>2, <2>3
  <1> QED
    BY <1>1 DEF StatesInv

\* A task makes an exchange, in a state that its message leads to.
LEMMA MakingKeepsStates ==
  ASSUME ExchangeAssumption, StatesInv, NEW a \in Agents, NEW t \in Slots, NEW id \in RecordIds,
         NEW th, NEW connected, NEW state, NEW kind, NEW content,
         Makes(a, t, id, th, connected, state, kind, content),
         \/ tasks'[a][t].pc = "saveReceived" /\ <<kind, state>> \in Openings
         \/ tasks'[a][t].pc = "saveResponse"
  PROVE  StatesInv'
  <1>1. /\ OnlyTask(a, t) /\ UNCHANGED exchanges /\ Creating(tasks'[a][t])
        /\ tasks'[a][t].kind = kind /\ tasks'[a][t].ex.state = state
    BY DEF Makes, Creating
  <1>2. KindTells(a, t)' /\ Follows(a, t)'
    BY <1>1 DEF KindTells, Follows, Existing, Holding, Receiving, Received
  <1> QED
    BY <1>1, <1>2, MoveKeepsStates

\* A task takes up an exchange.
LEMMA TakingUpKeepsStates ==
  ASSUME StatesInv, NEW a \in Agents, NEW t \in Slots, NEW id \in RecordIds, TakesUp(a, t, id),
         KindTells(a, t)', tasks'[a][t].pc # "decide",
         <<exchanges[a][id].state, tasks'[a][t].ex.state>> \in StepsOf(exchanges[a][id].thread)
  PROVE  StatesInv'
  <1>1. /\ OnlyTask(a, t) /\ UNCHANGED exchanges /\ tasks'[a][t].id = id
        /\ tasks'[a][t].ex.thread = exchanges[a][id].thread
    BY DEF TakesUp
  <1>2. Follows(a, t)'
    BY <1>1 DEF Follows, RecordOf, StepsOf
  <1> QED
    BY <1>1, <1>2, MoveKeepsStates

\* The state of what is answered, and that of the answer.
LEMMA RepliesFollow ==
  ASSUME NEW th \in Threads, NEW kind, NEW before, NEW answer, NEW after,
         <<kind, before>> \in Received, <<kind, answer, after>> \in Replies,
         Family(kind) = ProtocolOf[th]
  PROVE  <<before, after>> \in StepsOf(th)
  BY DEF Received, Openings, Replies, Family, StepsOf, CredentialSteps, ProofSteps

\* A task goes on with the same kind of message and the same state.
LEMMA GoingOnKeepsStates ==
  ASSUME ExchangeAssumption, IdsInv, StatesInv, NEW a \in Agents, NEW t \in Slots, GoesOn(a, t),
         UNCHANGED exchanges, tasks'[a][t].new = tasks[a][t].new,
         tasks'[a][t].ex.state = tasks[a][t].ex.state, tasks'[a][t].kind = tasks[a][t].kind,
         TurnsInv,
         \/ tasks[a][t].pc = "storeCredential" /\ tasks'[a][t].pc = "saveReceived"
         \/ tasks[a][t].pc = "saveReceived" /\ tasks'[a][t].pc = "updateReceived"
         \/ tasks[a][t].pc = "saveResponse" /\ tasks'[a][t].pc = "updateResponse"
  PROVE  StatesInv'
  <1>1. /\ OnlyTask(a, t) /\ tasks'[a][t].id = tasks[a][t].id
        /\ tasks'[a][t].ex.thread = tasks[a][t].ex.thread
    BY DEF GoesOn
  <1>2. /\ StepsOfTask(a, t) /\ FoundBefore(a, t)
        /\ KindTells(a, t) /\ Follows(a, t)
    BY DEF TurnsInv, IdsInv, StatesInv
  <1>3. /\ Existing(a, t)' => Existing(a, t)
        /\ RecordOf(a, t)' = RecordOf(a, t)
    BY <1>1, <1>2 DEF Existing, Holding, Creating, FoundBefore, RecordOf
  <1>4. Engaged(a, t)
    BY <1>2, RolesOfSlots DEF Engaged, StepsOfTask, Receiving
  <1>5. KindTells(a, t)'
    BY <1>2 DEF KindTells, Receiving
  <1>6. Follows(a, t)'
    BY <1>1, <1>2, <1>3, <1>4 DEF Follows, StepsOf
  <1> QED
    BY <1>1, <1>5, <1>6, MoveKeepsStates

\* A handler answers what it has processed.
LEMMA DecisionKeepsStates ==
  ASSUME ExchangeTypes, ExchangeAssumption, IdsInv, RolesInv, TurnsInv, StatesInv,
         NEW a \in Agents, NEW h \in Handlers, NEW answer \in Answers, DecideStep(a, h, answer)
  PROVE  StatesInv'
  <1> DEFINE k == tasks[a][h]
             task == tasks'[a][h]
  <1>w. AnswersWith(a, h, answer)
    BY DecidedTask
  <1>1. /\ GoesOn(a, h) /\ UNCHANGED exchanges /\ task.new = k.new
        /\ k.pc = "decide" /\ task.pc \in {"saveResponse", "updateResponse"}
        /\ task.ex.state = answer.state /\ k.kind \in StoredKinds
    BY <1>w DEF AnswersWith
  <1>2. OnlyTask(a, h) /\ task.id = k.id /\ task.ex.thread = k.ex.thread /\ k.ex.thread \in Threads
    BY <1>1 DEF GoesOn, ExchangeRecordType
  <1>3. /\ KindTells(a, h) /\ Follows(a, h) /\ FoundBefore(a, h) /\ RoleOfTask(a, k)
        /\ h \in Slots
    BY DEF StatesInv, IdsInv, RolesInv, RolesOfTasks, Slots
  <1>4. Family(k.kind) = ProtocolOf[k.ex.thread]
    BY <1>1, <1>3 DEF RoleOfTask, Active
  <1>5. <<k.kind, k.ex.state>> \in Received
    BY <1>1, <1>3 DEF KindTells
  <1>6. <<k.kind, answer.kind, answer.state>> \in Replies
    BY DEF DecideStep
  <1>7. <<k.ex.state, answer.state>> \in StepsOf(k.ex.thread)
    BY <1>2, <1>4, <1>5, <1>6, RepliesFollow
  <1>8. /\ Existing(a, h)' => Existing(a, h)
        /\ RecordOf(a, h)' = RecordOf(a, h)
    BY <1>1, <1>2, <1>3 DEF Existing, Holding, Creating, FoundBefore, RecordOf
  <1>9. Engaged(a, h)
    BY <1>1 DEF Engaged
  <1>10. Existing(a, h) => RecordOf(a, h).state \in {"abandoned", k.ex.state}
    BY <1>1, <1>3, <1>9 DEF Follows
  <1>11. KindTells(a, h)'
    BY <1>1 DEF KindTells, Receiving
  <1>12. Follows(a, h)'
    BY <1>1, <1>2, <1>7, <1>8, <1>10 DEF Follows, StepsOf
  <1> QED
    BY <1>1, <1>2, <1>3, <1>11, <1>12, MoveKeepsStates

LEMMA UpdateKeepsStates ==
  ASSUME ExchangeTypes, ExchangeAssumption, IdsInv, TurnsInv, StatesInv,
         NEW a \in Agents, NEW t \in Slots, UpdateStep(a, t)
  PROVE  StatesInv'
  <1> DEFINE k == tasks[a][t]
             task == tasks'[a][t]
  <1>0. WritesRecord(a, t) /\ MovesOn(a, t)
    BY UpdatedRecord, UpdatedTask
  <1>1. /\ k.id \in RecordIds /\ OnlyTask(a, t) /\ OnlyRecord(a, k.id)
        /\ exchanges'[a][k.id] = k.ex
    BY <1>0 DEF WritesRecord, MovesOn
  <1>2. \/ task.pc = "idle"
        \/ task.pc = "sendResponse"
        \/ /\ task.pc = "decide" /\ k.pc = "updateReceived"
           /\ task.id = k.id /\ task.ex = k.ex /\ task.kind = k.kind
    BY <1>0 DEF MovesOn
  <1>3. KindTells(a, t) /\ Follows(a, t)
    BY DEF StatesInv
  <1>4. KindTells(a, t)'
    BY <1>2, <1>3 DEF KindTells, Receiving
  <1>5. Follows(a, t)'
    BY <1>1, <1>2 DEF Follows, Existing, Holding, RecordOf
  <1>6. ASSUME NEW b \in Agents, NEW u \in Slots, <<b, u>> # <<a, t>>
        PROVE  KindTells(b, u)' /\ Follows(b, u)'
    <2> DEFINE l == tasks[b][u]
    <2>1. /\ tasks'[b][u] = l /\ KindTells(b, u) /\ Follows(b, u)
          /\ l.pc # "idle" => l.id \in RecordIds
      BY <1>1, <1>6 DEF OnlyTask, StatesInv, ExchangeTypes, TypedTask
    <2>2. KindTells(b, u)'
      BY <2>1 DEF KindTells
    <2>3. CASE b = a /\ l.id = k.id /\ Engaged(b, u)
      <3>1. k.ex.state = "abandoned"
        BY <1>6, <2>3, OnlyAbandoned
      <3>2. RecordOf(b, u)'.state = "abandoned"
        BY <1>1, <2>1, <2>3, <3>1 DEF RecordOf
      <3> QED
        BY <2>2, <3>2 DEF Follows
    <2>4. CASE <<b, l.id>> # <<a, k.id>> /\ l.pc # "idle"
      <3>1. exchanges'[b][l.id] = exchanges[b][l.id]
        BY <1>1, <2>1, <2>4 DEF OnlyRecord
      <3> QED
        BY <2>1, <2>2, <3>1 DEF Follows, Existing, RecordOf, Engaged
    <2>5. CASE l.pc = "idle" \/ ~Engaged(b, u)
      BY <2>1, <2>2, <2>5 DEF Follows, Existing, Holding, Engaged
    <2> QED
      BY <2>3, <2>4, <2>5
  <1> QED
    BY <1>4, <1>5, <1>6 DEF StatesInv

LEMMA ResumptionTells ==
  ASSUME NEW kind, NEW before, NEW after, NEW pc, <<kind, before, after, pc>> \in Resumptions
  PROVE  <<kind, after>> \in Received /\ kind # "problem-report"
  BY DEF Resumptions, Received, Openings

LEMMA ReceiptsKeepStates ==
  ASSUME ExchangeTypes, ExchangeAssumption, RolesInv, StatesInv, NEW a \in Agents,
         NEW h \in Handlers, NEW m \in net, NEW id \in RecordIds, Receipts(a, h, m, id)
  PROVE  StatesInv'
  <1>0. h \in Slots
    BY DEF Slots
  <1>1. CASE AbandonStep(a, h, m, id)
    <2>1. OnlyTask(a, h) /\ UNCHANGED exchanges /\ tasks'[a][h].pc = "updateOnly"
      BY <1>1, AbandonedTask DEF TakesUp
    <2> QED
      BY <1>0, <2>1, RestKeepsStates
  <1>2. CASE Opening(a, h, m, id)
    <2>1. PICK state \in StateNames : OpenStep(a, h, m, id, state)
      BY <1>2 DEF Opening
    <2>2. /\ Makes(a, h, id, m.thread, TRUE, state, m.kind, m.content)
          /\ tasks'[a][h].pc = "saveReceived" /\ <<m.kind, state>> \in Openings
      BY <2>1, OpenedTask DEF OpenStep
    <2> QED
      BY <1>0, <2>2, MakingKeepsStates
  <1>3. CASE Resuming(a, h, m, id)
    <2>1. PICK after \in StateNames, pc \in Steps, verdict \in BOOLEAN \cup {None} :
            ResumeStep(a, h, m, id, after, pc, verdict)
      BY <1>3 DEF Resuming
    <2>w. ResumesWith(a, h, m, id, after, pc, verdict)
      BY <2>1, ResumedTask
    <2>2. /\ TakesUp(a, h, id) /\ tasks'[a][h].pc \in Receiving
          /\ tasks'[a][h].kind = m.kind /\ tasks'[a][h].ex.state = after
          /\ exchanges[a][id].thread = m.thread
      BY <2>1, <2>w DEF Receiving, ResumesWith
    <2>3. <<m.kind, exchanges[a][id].state, after, pc>> \in Resumptions /\ m.to = a
      BY <2>1 DEF ResumeStep, Delivers
    <2>4. <<m.kind, after>> \in Received /\ m.kind # "problem-report"
      BY <2>3, ResumptionTells
    <2>5. /\ Family(m.kind) = ProtocolOf[m.thread] /\ IsFor(a, m.kind) /\ m.thread \in Threads
      BY <2>3, <2>4 DEF RolesInv, RolesOfMessages, ExchangeTypes, TypeOK, MessageType
    <2>6. <<exchanges[a][id].state, after>> \in StepsOf(m.thread)
      BY <2>3, <2>5, ResumptionRoles DEF StepsOf
    <2>7. KindTells(a, h)' /\ tasks'[a][h].pc # "decide"
      BY <2>2, <2>4 DEF KindTells, Receiving
    <2> QED
      BY <1>0, <2>2, <2>6, <2>7, TakingUpKeepsStates
  <1> QED
    BY <1>1, <1>2, <1>3 DEF Receipts

\* What a call declines is not answered.
LEMMA DeclinesFollow ==
  ASSUME ExchangeTypes, ExchangeAssumption, RolesInv, NEW a \in Agents, NEW s \in Callers,
         NEW id \in RecordIds, DeclineStep(a, s, id)
  PROVE  <<exchanges[a][id].state, "declined">> \in StepsOf(exchanges[a][id].thread)
  <1>1. exchanges[a][id] # None /\ exchanges[a][id] \in ExchangeRecordType
    BY ReadExchange DEF DeclineStep
  <1>2. /\ exchanges[a][id].thread \in Threads
        /\ exchanges[a][id].state \in StatesOf(a, exchanges[a][id].thread)
    BY <1>1 DEF ExchangeRecordType, RolesInv, RolesOfRecords, ExchangesOf
  <1>3. CASE exchanges[a][id].state = "offer-received"
    <2>1. ProtocolOf[exchanges[a][id].thread] = "issue-credential"
      BY <1>2, <1>3, StatesOfCredentials
    <2> QED
      BY <1>3, <2>1 DEF StepsOf, CredentialSteps
  <1>4. CASE /\ exchanges[a][id].state = "request-received"
             /\ ProtocolOf[exchanges[a][id].thread] = "present-proof"
    BY <1>4 DEF StepsOf, ProofSteps
  <1> QED
    BY <1>3, <1>4 DEF DeclineStep

LEMMA CallsKeepStates ==
  ASSUME ExchangeTypes, ExchangeAssumption, RolesInv, StatesInv, NEW a \in Agents,
         NEW s \in Callers, NEW id \in RecordIds, CallShapes(a, s, id)
  PROVE  StatesInv'
  <1>0. s \in Slots
    BY DEF Slots
  <1>1. CASE DeclineStep(a, s, id)
    <2>1. /\ TakesUp(a, s, id) /\ tasks'[a][s].pc = "updateOnly"
          /\ tasks'[a][s].ex.state = "declined"
      BY <1>1, DeclinedTask
    <2>2. KindTells(a, s)' /\ tasks'[a][s].pc # "decide"
      BY <2>1 DEF KindTells, Receiving
    <2> QED
      BY <1>0, <1>1, <2>1, <2>2, DeclinesFollow, TakingUpKeepsStates
  <1>2. CASE ReportStep(a, id)
    <2>1. UNCHANGED <<exchanges, tasks>>
      BY <1>2 DEF ReportStep
    <2> QED
      BY <2>1, LossKeepsStates
  <1>3. CASE Replying(a, s, id)
    <2>1. PICK answer \in Answers, option \in AutoModes \cup {None} :
            ReplyStep(a, s, id, answer, option)
      BY <1>3 DEF Replying
    <2>w. RepliesWith(a, s, id, answer)
      BY <2>1, RepliedTask
    <2>2. /\ TakesUp(a, s, id) /\ tasks'[a][s].pc \in {"saveResponse", "updateResponse"}
          /\ tasks'[a][s].ex.state = answer.state
      BY <2>1, <2>w DEF RepliesWith
    <2>3. /\ exchanges[a][id] # None /\ KnowsFamily(a, id, answer.kind)
          /\ <<exchanges[a][id].state, answer.kind, answer.state>> \in RepliesByHand
      BY <2>1 DEF ReplyStep
    <2>4. Family(answer.kind) = ProtocolOf[exchanges[a][id].thread]
      BY <2>3, FamilyKnown
    <2>5. /\ exchanges[a][id].thread \in Threads
          /\ exchanges[a][id].state \in StatesOf(a, exchanges[a][id].thread)
      BY <2>3, ReadExchange DEF ExchangeRecordType, RolesInv, RolesOfRecords, ExchangesOf
    <2>6. <<exchanges[a][id].state, answer.state>> \in StepsOf(exchanges[a][id].thread)
      BY <2>3, <2>4, <2>5, ByHandRoles DEF StepsOf
    <2>7. KindTells(a, s)' /\ tasks'[a][s].pc # "decide"
      BY <2>2 DEF KindTells, Receiving
    <2> QED
      BY <1>0, <2>2, <2>6, <2>7, TakingUpKeepsStates
  <1>4. CASE Starting(a, s, id)
    <2>1. PICK th \in Threads, kind \in StoredKinds, state \in StateNames,
               connected \in BOOLEAN, c \in Contents, option \in AutoModes \cup {None} :
            StartStep(a, s, th, id, kind, state, connected, c, option)
      BY <1>4 DEF Starting
    <2>2. /\ Makes(a, s, id, th, connected, state, kind, c)
          /\ tasks'[a][s].pc = "saveResponse"
      BY <2>1, StartedTask
    <2> QED
      BY <1>0, <2>2, MakingKeepsStates
  <1>5. CASE RemoveStep(a, s, id)
    <2>1. /\ OnlyTask(a, s) /\ exchanges'[a][id] = None /\ OnlyRecord(a, id)
          /\ tasks'[a][s].pc = "deleteMessages" \/ tasks'[a][s] = tasks[a][s]
      BY <1>5, RemovedTask
    <2>2. \A b \in Agents, i \in RecordIds :
            exchanges'[b][i] = None \/ exchanges'[b][i] = exchanges[b][i]
      BY <2>1 DEF OnlyRecord
    <2>3. \A b \in Agents, u \in Slots :
            tasks'[b][u] = tasks[b][u] \/ tasks'[b][u].pc \in {"idle", "deleteMessages"}
      BY <2>1 DEF OnlyTask
    <2> QED
      BY <2>2, <2>3, LossKeepsStates
  <1> QED
    BY <1>1, <1>2, <1>3, <1>4, <1>5 DEF CallShapes

LEMMA StatesKept ==
  ASSUME ExchangeTypes, ExchangeAssumption, IdsInv, RolesInv, TurnsInv, StatesInv, Shapes
  PROVE  StatesInv'
  <1>1. CASE \E a \in Agents : Crash(a)
    <2>1. PICK a \in Agents : Crash(a)
      BY <1>1
    <2>2. /\ \A u \in Slots : tasks'[a][u].pc = "idle"
          /\ \A b \in Agents \ {a}, u \in Slots : tasks'[b][u] = tasks[b][u]
          /\ UNCHANGED exchanges
      BY <2>1, CrashedTasks
    <2> QED
      BY <2>2, LossKeepsStates
  <1>2. ASSUME NEW a \in Agents, NEW t \in Slots, TaskShapes(a, t) PROVE StatesInv'
    <2>1. ASSUME Finish(a, t), UNCHANGED exchanges PROVE StatesInv'
      <3>1. tasks'[a][t].pc = "idle" /\ OnlyTask(a, t)
        BY <2>1, StoppedTask
      <3> QED
        BY <2>1, <3>1, RestKeepsStates
    <2>2. CASE SaveStep(a, t)
      <3>w. SavesAndGoesOn(a, t)
        BY <2>2, SavedTask
      <3>1. /\ GoesOn(a, t) /\ UNCHANGED exchanges
            /\ tasks'[a][t].new = tasks[a][t].new /\ tasks'[a][t].kind = tasks[a][t].kind
            /\ tasks'[a][t].ex.state = tasks[a][t].ex.state
            /\ \/ tasks[a][t].pc = "saveReceived" /\ tasks'[a][t].pc = "updateReceived"
               \/ tasks[a][t].pc = "saveResponse" /\ tasks'[a][t].pc = "updateResponse"
        BY <2>2, <3>w DEF SaveStep, SavesAndGoesOn
      <3> QED
        BY <3>1, GoingOnKeepsStates
    <2>3. ASSUME NEW x \in StoredKinds, DeleteStep(a, t, x) PROVE StatesInv'
      <3>1. UNCHANGED <<exchanges, tasks>>
        BY <2>3 DEF DeleteStep
      <3> QED
        BY <3>1, LossKeepsStates
    <2> QED
      BY <1>2, <2>1, <2>2, <2>3, UpdateKeepsStates DEF TaskShapes, Stop, SendResponse
  <1>3. CASE \E a \in Agents, h \in Handlers, m \in net, id \in RecordIds : Receipts(a, h, m, id)
    BY <1>3, ReceiptsKeepStates
  <1>4. ASSUME NEW a \in Agents, NEW h \in Handlers, StoreCredential(a, h) \/ Deciding(a, h)
        PROVE  StatesInv'
    <2>1. CASE StoreCredential(a, h)
      <3>w2. StoresCredential(a, h)
        BY <2>1, StoredTask
      <3>1. /\ GoesOn(a, h) /\ UNCHANGED exchanges
            /\ tasks'[a][h].new = tasks[a][h].new /\ tasks'[a][h].kind = tasks[a][h].kind
            /\ tasks'[a][h].ex.state = tasks[a][h].ex.state
            /\ tasks[a][h].pc = "storeCredential" /\ tasks'[a][h].pc = "saveReceived"
            /\ h \in Slots
        BY <2>1, <3>w2 DEF Slots, StoresCredential
      <3> QED
        BY <3>1, GoingOnKeepsStates
    <2>2. CASE Deciding(a, h)
      BY <2>2, DecisionKeepsStates DEF Deciding
    <2> QED
      BY <1>4, <2>1, <2>2
  <1>5. CASE \E a \in Agents, s \in Callers, id \in RecordIds : CallShapes(a, s, id)
    BY <1>5, CallsKeepStates
  <1> QED
    BY <1>1, <1>2, <1>3, <1>4, <1>5 DEF Shapes

LEMMA StatesInit ==
  ASSUME Init
  PROVE  StatesInv
  <1>1. \A a \in Agents, t \in Slots : tasks[a][t].pc = "idle"
    BY DEF Init, Idle
  <1> QED
    BY <1>1 DEF StatesInv, KindTells, Follows, Existing, Holding, Receiving

\* A task writes a state that follows the one that it replaces.
LEMMA UpdatesFollow ==
  ASSUME ExchangeTypes, ExchangeAssumption, IdsInv, TurnsInv, StatesInv,
         NEW a \in Agents, NEW t \in Slots, UpdateStep(a, t), exchanges[a][tasks[a][t].id] # None
  PROVE  LET before == exchanges[a][tasks[a][t].id]
             after  == exchanges'[a][tasks[a][t].id]
         IN  \/ after.state = "abandoned" \/ before.state = "abandoned"
             \/ <<before.state, after.state>> \in StepsOf(before.thread)
  <1> DEFINE k == tasks[a][t]
             before == exchanges[a][k.id]
  <1>0. WritesRecord(a, t)
    BY UpdatedRecord
  <1>1. /\ k.pc \in {"updateReceived", "updateResponse", "updateOnly"}
        /\ exchanges'[a][k.id] = k.ex
    BY <1>0 DEF WritesRecord
  <1>2. CreatingKeepsId(a, t) /\ HoldingKeepsThread(a, t) /\ StepsOfTask(a, t) /\ Follows(a, t)
    BY DEF IdsInv, TurnsInv, StatesInv
  <1>3. Existing(a, t)
    BY <1>1, <1>2 DEF Existing, Holding, CreatingKeepsId
  <1>4. before.thread = k.ex.thread
    BY <1>2, <1>3 DEF HoldingKeepsThread, Existing
  <1>5. CASE ~Engaged(a, t)
    BY <1>1, <1>2, <1>5, RolesOfSlots DEF Engaged, StepsOfTask, Receiving, At
  <1>6. CASE Engaged(a, t)
    BY <1>1, <1>2, <1>3, <1>4, <1>6 DEF Follows, RecordOf, StepsOf
  <1> QED
    BY <1>5, <1>6

\* The steps that change records.
LEMMA WhoChangesRecords ==
  ASSUME Shapes
  PROVE  \/ \E a \in Agents, t \in Slots : UpdateStep(a, t)
         \/ \E a \in Agents, s \in Callers, id \in RecordIds : RemoveStep(a, s, id)
         \/ UNCHANGED exchanges
  <1>1. ASSUME NEW a \in Agents, Crash(a) PROVE UNCHANGED exchanges
    BY <1>1 DEF Crash
  <1>2. ASSUME NEW a \in Agents, NEW t \in Slots, TaskShapes(a, t)
        PROVE  UpdateStep(a, t) \/ UNCHANGED exchanges
    BY <1>2 DEF TaskShapes, Stop, SaveStep, SendResponse, DeleteStep
  <1>3. ASSUME NEW a \in Agents, NEW h \in Handlers, NEW m \in net, NEW id \in RecordIds,
               Receipts(a, h, m, id)
        PROVE  UNCHANGED exchanges
    BY <1>3 DEF Receipts, AbandonStep, Opening, OpenStep, Resuming, ResumeStep
  <1>4. ASSUME NEW a \in Agents, NEW h \in Handlers, StoreCredential(a, h) \/ Deciding(a, h)
        PROVE  UNCHANGED exchanges
    BY <1>4 DEF StoreCredential, Deciding, DecideStep
  <1>5. ASSUME NEW a \in Agents, NEW s \in Callers, NEW id \in RecordIds, CallShapes(a, s, id)
        PROVE  RemoveStep(a, s, id) \/ UNCHANGED exchanges
    BY <1>5 DEF CallShapes, DeclineStep, ReportStep, Replying, ReplyStep, Starting, StartStep
  <1> QED
    BY <1>1, <1>2, <1>3, <1>4, <1>5 DEF Shapes

\* Exchanges go through the states of their protocols in order (StatesFollowProtocol),
\* where an agent handles one message, and its application makes one call, at a time:
\* a handler takes up an exchange when it is the other party's turn and a call when it is
\* not, so that no two write what rests on the same state.
THEOREM ExchangesFollowProtocol ==
  ASSUME OneHandler, OneCaller
  PROVE  Spec => StatesFollowProtocol
  <1> DEFINE Base == ExchangeTypes /\ IdsInv /\ RolesInv /\ TurnsInv /\ SavedInv
             Order(a, id) ==
               \/ exchanges'[a][id] = None
               \/ LET before == exchanges[a][id].state
                      after  == exchanges'[a][id].state
                  IN  \/ after \in {before, "abandoned"} \/ before = "abandoned"
                      \/ <<before, after>> \in (IF ProtocolOf[exchanges[a][id].thread]
                                                    = "issue-credential"
                                                THEN CredentialSteps ELSE ProofSteps)
             Ordered == \A a \in Agents : \A id \in ExchangesOf(a) : Order(a, id)
  <1>1. Base /\ [Next]_vars /\ StatesInv => StatesInv'
    <2>1. ASSUME Base, StatesInv, Next PROVE StatesInv'
      BY <2>1, ExchangeAssumption, StepShapes, StatesKept
    <2>2. ASSUME Base, StatesInv, UNCHANGED vars PROVE StatesInv'
      BY <2>2, LossKeepsStates DEF vars
    <2> QED
      BY <2>1, <2>2
  <1>2. Base /\ StatesInv /\ [Next]_vars => [Ordered]_vars
    <2> SUFFICES ASSUME Base, StatesInv, Next, NEW b \in Agents, NEW i \in ExchangesOf(b)
                 PROVE  Order(b, i)
      OBVIOUS
    <2>0. Shapes /\ i \in RecordIds /\ exchanges[b][i] # None
      BY ExchangeAssumption, StepShapes DEF ExchangesOf
    <2>1. ASSUME exchanges'[b][i] = exchanges[b][i] PROVE Order(b, i)
      BY <2>1
    <2>2. ASSUME NEW a \in Agents, NEW t \in Slots, UpdateStep(a, t) PROVE Order(b, i)
      <3>0. WritesRecord(a, t)
        BY <2>2, UpdatedRecord
      <3>1. OnlyRecord(a, tasks[a][t].id)
        BY <3>0 DEF WritesRecord
      <3>2. CASE <<b, i>> = <<a, tasks[a][t].id>>
        BY <2>0, <2>2, <3>2, UpdatesFollow, ExchangeAssumption DEF StepsOf
      <3>3. CASE <<b, i>> # <<a, tasks[a][t].id>>
        BY <2>0, <2>1, <3>1, <3>3 DEF OnlyRecord
      <3> QED
        BY <3>2, <3>3
    <2>3. ASSUME NEW a \in Agents, NEW s \in Callers, NEW id \in RecordIds, RemoveStep(a, s, id)
          PROVE  Order(b, i)
      <3>1. exchanges'[a][id] = None /\ OnlyRecord(a, id)
        BY <2>3, RemovedTask
      <3> QED
        BY <2>0, <2>1, <3>1 DEF OnlyRecord
    <2>4. CASE UNCHANGED exchanges
      BY <2>1, <2>4
    <2>5. \/ \E a \in Agents, t \in Slots : UpdateStep(a, t)
          \/ \E a \in Agents, s \in Callers, id \in RecordIds : RemoveStep(a, s, id)
          \/ UNCHANGED exchanges
      BY <2>0, WhoChangesRecords
    <2> QED
      BY <2>2, <2>3, <2>4, <2>5
  <1>3. [][Ordered]_vars => StatesFollowProtocol
    BY DEF StatesFollowProtocol
  <1> QED
    BY <1>1, <1>2, <1>3, StatesInit, TurnsAndSaved, PTL DEF Spec

-------------------------------------------------------------------------------
(* What verdicts and credentials rest on *)

\* What a task writes, other than what it has received, keeps the verdict and the
\* credentials of the exchange.
Carries(a, t) ==
  LET k == tasks[a][t] IN
  Existing(a, t) /\ k.pc \notin Receiving \cup {"sendResponse"} =>
    /\ k.ex.verified = RecordOf(a, t).verified
    /\ k.ex.credentials = RecordOf(a, t).credentials
    /\ k.pc = "decide" => k.ex.state = RecordOf(a, t).state

\* The presentation that is saved answers the request that is.
Answered(a, id) ==
  /\ Sole(a, id, "presentation") /\ Sole(a, id, "request-presentation")
  /\ ContentOf(a, id, "presentation") = ContentOf(a, id, "request-presentation")

\* The credentials are in the wallet, as the request that is saved asks for them.
Requested(a, id, credentials) ==
  /\ Sole(a, id, "request-credential")
  /\ \A n \in credentials :
       n \in DOMAIN wallet[a] /\ wallet[a][n] = ContentOf(a, id, "request-credential")

\* A verdict stands from when the presentation is received, and so do credentials.
VerdictStands(a, id) ==
  exchanges[a][id].verified = TRUE =>
    /\ exchanges[a][id].state \in {"presentation-received", "done", "abandoned"}
    /\ Answered(a, id)

CredentialsStand(a, id) ==
  LET e == exchanges[a][id] IN
  /\ e.credentials # {} =>
       /\ e.state \in {"credential-received", "done", "abandoned"}
       /\ Requested(a, id, e.credentials)
  /\ \/ e.state = "credential-received"
     \/ a = Holder /\ ProtocolOf[e.thread] = "issue-credential" /\ e.state = "done"
     => e.credentials # {}

RecordStands(a, id) ==
  exchanges[a][id] # None => VerdictStands(a, id) /\ CredentialsStand(a, id)

\* What a handler is going to make of a message that it has compared.
ReceivesCompared(a, t) ==
  LET k == tasks[a][t] IN
  /\ k.pc = "storeCredential" => k.kind = "issue-credential"
  /\ k.pc \in Receiving /\ Existing(a, t) =>
       /\ k.ex.verified = TRUE =>
            /\ k.kind = "presentation"
            /\ IF k.pc = "updateReceived"
               THEN Answered(a, k.id)
               ELSE /\ Sole(a, k.id, "request-presentation")
                    /\ ContentOf(a, k.id, "request-presentation") = k.content
       /\ IF k.kind = "issue-credential"
          THEN /\ Requested(a, k.id, k.ex.credentials)
               /\ IF k.pc = "storeCredential"
                  THEN ContentOf(a, k.id, "request-credential") = k.content
                  ELSE k.ex.credentials # {}
          ELSE k.ex.credentials = {}

\* What is written over a verdict, or over credentials, is not saved a message for.
WritesSettled(a, t) ==
  LET k == tasks[a][t] IN
  Existing(a, t) /\ k.pc \in {"decide", "saveResponse", "updateResponse", "updateOnly"} =>
    /\ k.ex.verified = TRUE =>
         /\ k.ex.state \in {"presentation-received", "done", "abandoned"}
         /\ k.pc = "decide" => k.kind = "presentation"
         /\ k.pc # "saveResponse"
    /\ k.ex.credentials # {} =>
         /\ k.ex.state \in {"credential-received", "done", "abandoned"}
         /\ k.pc = "decide" => k.kind = "issue-credential"
         /\ k.pc # "saveResponse"
    /\ a = Holder /\ ProtocolOf[k.ex.thread] = "issue-credential"
       /\ k.ex.state \in {"credential-received", "done"} => k.ex.credentials # {}

\* An exchange is made without a verdict and without credentials.
MadeBlank(a, t) ==
  LET k == tasks[a][t] IN
  Creating(k) => /\ k.ex.verified # TRUE /\ k.ex.credentials = {}
                 /\ k.ex.state \notin {"credential-received", "done"}

TaskStands(a, t) ==
  Carries(a, t) /\ ReceivesCompared(a, t) /\ WritesSettled(a, t) /\ MadeBlank(a, t)

ContentInv ==
  \A a \in Agents :
    (\A id \in RecordIds : RecordStands(a, id)) /\ (\A t \in Slots : TaskStands(a, t))

\* Nothing that an exchange rests on is changed.
SameContents(a, id) ==
  /\ exchanges'[a][id] = exchanges[a][id]
  /\ \A x \in StoredKinds : stored'[a][id][x] = stored[a][id][x]
  /\ \A n \in DOMAIN wallet[a] : n \in DOMAIN wallet'[a] /\ wallet'[a][n] = wallet[a][n]

LEMMA SameAnswered ==
  ASSUME NEW a, NEW id, SameContents(a, id)
  PROVE  /\ Answered(a, id) => Answered(a, id)'
         /\ \A credentials : Requested(a, id, credentials) => (Requested(a, id, credentials))'
         /\ \A x \in StoredKinds : /\ Sole(a, id, x)' = Sole(a, id, x)
                                   /\ ContentOf(a, id, x)' = ContentOf(a, id, x)
  <1>1. \A x \in StoredKinds : /\ Sole(a, id, x)' = Sole(a, id, x)
                               /\ ContentOf(a, id, x)' = ContentOf(a, id, x)
    BY DEF SameContents, Sole, ContentOf
  <1>2. {"presentation", "request-presentation", "request-credential"} \subseteq StoredKinds
    BY DEF StoredKinds
  <1>3. Answered(a, id) => Answered(a, id)'
    BY <1>1, <1>2 DEF Answered
  <1>4. ASSUME NEW credentials, Requested(a, id, credentials)
        PROVE  (Requested(a, id, credentials))'
    BY <1>1, <1>2, <1>4 DEF Requested, SameContents
  <1> QED
    BY <1>1, <1>3, <1>4

LEMMA SameRecordStands ==
  ASSUME NEW a, NEW id, RecordStands(a, id),
         exchanges'[a][id] = None \/ SameContents(a, id)
  PROVE  RecordStands(a, id)'
  <1>1. CASE exchanges'[a][id] = None
    BY <1>1 DEF RecordStands
  <1>2. CASE SameContents(a, id)
    <2>1. exchanges'[a][id] = exchanges[a][id]
      BY <1>2 DEF SameContents
    <2>2. VerdictStands(a, id) => VerdictStands(a, id)'
      BY <1>2, <2>1, SameAnswered DEF VerdictStands
    <2>3. CredentialsStand(a, id) => CredentialsStand(a, id)'
      BY <1>2, <2>1, SameAnswered DEF CredentialsStand
    <2> QED
      BY <2>1, <2>2, <2>3 DEF RecordStands
  <1> QED
    BY <1>1, <1>2

LEMMA IdleStands ==
  ASSUME NEW a, NEW t
  PROVE  /\ tasks[a][t].pc \in {"idle", "deleteMessages"} => TaskStands(a, t)
         /\ tasks'[a][t].pc \in {"idle", "deleteMessages"} => TaskStands(a, t)'
  BY DEF TaskStands, Carries, ReceivesCompared, WritesSettled, MadeBlank, Existing, Holding,
         Creating, Receiving

LEMMA SameTaskStands ==
  ASSUME NEW a, NEW t, TaskStands(a, t), tasks'[a][t] = tasks[a][t],
         exchanges'[a][tasks[a][t].id] = None \/ SameContents(a, tasks[a][t].id)
  PROVE  TaskStands(a, t)'
  <1> DEFINE k == tasks[a][t]
  <1>1. Carries(a, t) /\ ReceivesCompared(a, t) /\ WritesSettled(a, t) /\ MadeBlank(a, t)
    BY DEF TaskStands
  <1>2. MadeBlank(a, t)'
    BY <1>1 DEF MadeBlank
  <1>3. CASE exchanges'[a][k.id] = None
    BY <1>1, <1>2, <1>3 DEF TaskStands, Carries, ReceivesCompared, WritesSettled, Existing
  <1>4. CASE SameContents(a, k.id)
    <2>1. exchanges'[a][k.id] = exchanges[a][k.id]
      BY <1>4 DEF SameContents
    <2>2. Existing(a, t)' = Existing(a, t) /\ RecordOf(a, t)' = RecordOf(a, t)
      BY <2>1 DEF Existing, RecordOf
    <2>3. Carries(a, t)' /\ WritesSettled(a, t)'
      BY <1>1, <2>2 DEF Carries, WritesSettled
    <2>4. /\ Answered(a, k.id) => Answered(a, k.id)'
          /\ Requested(a, k.id, k.ex.credentials) => (Requested(a, k.id, k.ex.credentials))'
          /\ \A x \in {"request-presentation", "request-credential"} :
               /\ Sole(a, k.id, x)' = Sole(a, k.id, x)
               /\ ContentOf(a, k.id, x)' = ContentOf(a, k.id, x)
      BY <1>4, SameAnswered DEF StoredKinds
    <2>5. ReceivesCompared(a, t)'
      BY <1>1, <2>2, <2>4 DEF ReceivesCompared
    <2> QED
      BY <1>2, <2>3, <2>5 DEF TaskStands
  <1> QED
    BY <1>3, <1>4

\* Tasks move, and no exchange is changed that they rest on.
LEMMA FrameKeepsContent ==
  ASSUME ExchangeTypes, ContentInv,
         \A b \in Agents, i \in RecordIds : exchanges'[b][i] = None \/ SameContents(b, i),
         \A b \in Agents, u \in Slots : tasks'[b][u] = tasks[b][u] \/ TaskStands(b, u)'
  PROVE  ContentInv'
  <1>1. ASSUME NEW b \in Agents, NEW i \in RecordIds PROVE RecordStands(b, i)'
    BY SameRecordStands DEF ContentInv
  <1>2. ASSUME NEW b \in Agents, NEW u \in Slots PROVE TaskStands(b, u)'
    <2>1. CASE tasks'[b][u] = tasks[b][u] /\ tasks[b][u].pc # "idle"
      <3>1. tasks[b][u].id \in RecordIds /\ TaskStands(b, u)
        BY <2>1 DEF ExchangeTypes, TypedTask, ContentInv
      <3> QED
        BY <2>1, <3>1, SameTaskStands
    <2>2. CASE tasks'[b][u] = tasks[b][u] /\ tasks'[b][u].pc = "idle"
      BY <2>2, IdleStands
    <2> QED
      BY <2>1, <2>2
  <1> QED
    BY <1>1, <1>2 DEF ContentInv

LEMMA SameStorage ==
  ASSUME UNCHANGED <<exchanges, stored, wallet>>
  PROVE  \A b \in Agents, i \in RecordIds : SameContents(b, i)
  BY DEF SameContents

LEMMA MoveKeepsContent ==
  ASSUME ExchangeTypes, ContentInv, NEW a \in Agents, NEW t \in Slots, OnlyTask(a, t),
         UNCHANGED <<exchanges, stored, wallet>>, TaskStands(a, t)'
  PROVE  ContentInv'
  <1>1. \A b \in Agents, u \in Slots : tasks'[b][u] = tasks[b][u] \/ TaskStands(b, u)'
    BY DEF OnlyTask
  <1> QED
    BY <1>1, SameStorage, FrameKeepsContent

\* A task makes an exchange.
LEMMA MakingKeepsContent ==
  ASSUME ExchangeTypes, ExchangeAssumption, ContentInv, NEW a \in Agents, NEW t \in Slots,
         NEW id \in RecordIds, NEW th, NEW connected, NEW state, NEW kind, NEW content,
         Makes(a, t, id, th, connected, state, kind, content),
         state \notin {"credential-received", "done"},
         tasks'[a][t].pc \in {"saveReceived", "saveResponse"}
  PROVE  ContentInv'
  <1>1. /\ OnlyTask(a, t) /\ UNCHANGED <<exchanges, stored, wallet>> /\ Creating(tasks'[a][t])
        /\ tasks'[a][t].ex.verified = None /\ tasks'[a][t].ex.credentials = {}
        /\ tasks'[a][t].ex.state = state
    BY DEF Makes, Creating
  <1>2. None # TRUE
    BY DEF ExchangeAssumption
  <1>3. ~Existing(a, t)' /\ MadeBlank(a, t)'
    BY <1>1, <1>2 DEF Existing, Holding, MadeBlank
  <1>4. TaskStands(a, t)'
    BY <1>3 DEF TaskStands, Carries, ReceivesCompared, WritesSettled
  <1> QED
    BY <1>1, <1>4, MoveKeepsContent

\* A task takes up an exchange, to write over it.
LEMMA WriterStands ==
  ASSUME NEW a \in Agents, NEW t \in Slots, NEW id \in RecordIds, TakesUp(a, t, id),
         tasks'[a][t].ex.verified = exchanges[a][id].verified,
         tasks'[a][t].pc \in {"saveResponse", "updateResponse", "updateOnly"},
         WritesSettled(a, t)'
  PROVE  TaskStands(a, t)'
  <1>1. /\ UNCHANGED exchanges /\ tasks'[a][t].id = id /\ tasks'[a][t].new = FALSE
        /\ tasks'[a][t].ex.credentials = exchanges[a][id].credentials
    BY DEF TakesUp
  <1>2. Carries(a, t)'
    BY <1>1 DEF Carries, RecordOf
  <1>3. ReceivesCompared(a, t)' /\ MadeBlank(a, t)'
    BY <1>1 DEF ReceivesCompared, MadeBlank, Creating, Receiving
  <1> QED
    BY <1>2, <1>3 DEF TaskStands

LEMMA AbandonKeepsContent ==
  ASSUME ExchangeTypes, ContentInv, NEW a \in Agents, NEW h \in Handlers, NEW m \in net,
         NEW id \in RecordIds, AbandonStep(a, h, m, id)
  PROVE  ContentInv'
  <1>1. /\ TakesUp(a, h, id) /\ tasks'[a][h].pc = "updateOnly" /\ h \in Slots
        /\ tasks'[a][h].ex.state = "abandoned"
        /\ tasks'[a][h].ex.verified = exchanges[a][id].verified
    BY AbandonedTask DEF Slots
  <1>2. WritesSettled(a, h)'
    BY <1>1 DEF WritesSettled
  <1>3. TaskStands(a, h)'
    BY <1>1, <1>2, WriterStands
  <1>4. OnlyTask(a, h) /\ UNCHANGED <<exchanges, stored, wallet>>
    BY <1>1 DEF TakesUp
  <1> QED
    BY <1>1, <1>3, <1>4, MoveKeepsContent

\* An exchange that awaits a message has no verdict and no credentials.
LEMMA AwaitingIsBlank ==
  ASSUME NEW a \in Agents, NEW id \in RecordIds, ContentInv, exchanges[a][id] # None,
         \/ exchanges[a][id].state \in Awaiting
         \/ exchanges[a][id].state \in {"offer-received", "request-received", "proposal-received"}
  PROVE  exchanges[a][id].verified # TRUE /\ exchanges[a][id].credentials = {}
  <1>1. VerdictStands(a, id) /\ CredentialsStand(a, id)
    BY DEF ContentInv, RecordStands
  <1> QED
    BY <1>1 DEF VerdictStands, CredentialsStand, Awaiting

LEMMA ResumptionKinds ==
  ASSUME NEW kind, NEW before, NEW after, NEW pc, <<kind, before, after, pc>> \in Resumptions
  PROVE  /\ kind = "issue-credential" <=> pc = "storeCredential"
         /\ kind = "presentation" => pc = "saveReceived"
         /\ pc \in Receiving
  BY DEF Resumptions, Receiving

LEMMA ResumeKeepsContent ==
  ASSUME ExchangeTypes, ExchangeAssumption, ContentInv, NEW a \in Agents, NEW h \in Handlers,
         NEW m \in net, NEW id \in RecordIds, Resuming(a, h, m, id)
  PROVE  ContentInv'
  <1> DEFINE task == tasks'[a][h]
  <1>1. PICK after \in StateNames, pc \in Steps, verdict \in BOOLEAN \cup {None} :
          ResumeStep(a, h, m, id, after, pc, verdict)
    BY DEF Resuming
  <1>w. ResumesWith(a, h, m, id, after, pc, verdict)
    BY <1>1, ResumedTask
  <1>2. /\ TakesUp(a, h, id) /\ task.pc = pc /\ h \in Slots
        /\ task.kind = m.kind /\ task.content = m.content
        /\ task.ex.state = after /\ task.ex.verified = verdict
    BY <1>1, <1>w DEF Slots, ResumesWith
  <1>3. /\ OnlyTask(a, h) /\ UNCHANGED <<exchanges, stored, wallet>>
        /\ exchanges[a][id] # None /\ task.id = id /\ task.new = FALSE
        /\ task.ex.credentials = exchanges[a][id].credentials
    BY <1>2 DEF TakesUp
  <1>4. Compared(a, m, id, verdict) /\ <<m.kind, exchanges[a][id].state, after, pc>> \in Resumptions
    BY <1>1 DEF ResumeStep
  <1>5. exchanges[a][id].verified # TRUE /\ exchanges[a][id].credentials = {}
    BY <1>3, <1>4, AwaitingStates, AwaitingIsBlank
  <1>6. /\ m.kind = "issue-credential" <=> pc = "storeCredential"
        /\ m.kind = "presentation" => pc = "saveReceived"
        /\ pc \in Receiving
    BY <1>4, ResumptionKinds
  <1>7. verdict = TRUE => /\ m.kind = "presentation" /\ pc # "updateReceived"
                          /\ Sole(a, id, "request-presentation")
                          /\ ContentOf(a, id, "request-presentation") = m.content
    BY <1>4, <1>5, <1>6 DEF Compared
  <1>8. m.kind = "issue-credential" =>
          Sole(a, id, "request-credential") /\ ContentOf(a, id, "request-credential") = m.content
    BY <1>4 DEF Compared
  <1>9. ReceivesCompared(a, h)'
    <2>1. \A x : Sole(a, id, x)' = Sole(a, id, x) /\ ContentOf(a, id, x)' = ContentOf(a, id, x)
      BY <1>3 DEF Sole, ContentOf
    <2>2. /\ task.ex.verified = TRUE => /\ task.kind = "presentation" /\ task.pc # "updateReceived"
                                        /\ Sole(a, id, "request-presentation")'
                                        /\ ContentOf(a, id, "request-presentation")' = task.content
          /\ task.kind = "issue-credential" =>
               /\ Sole(a, id, "request-credential")'
               /\ ContentOf(a, id, "request-credential")' = task.content
               /\ task.pc = "storeCredential"
      BY <1>2, <1>6, <1>7, <1>8, <2>1
    <2>3. task.ex.credentials = {} /\ task.id = id
      BY <1>3, <1>5
    <2> QED
      BY <1>2, <1>6, <2>2, <2>3 DEF ReceivesCompared, Requested
  <1>10. Carries(a, h)' /\ WritesSettled(a, h)' /\ MadeBlank(a, h)'
    BY <1>2, <1>3, <1>6 DEF Carries, WritesSettled, MadeBlank, Creating, Receiving
  <1>11. TaskStands(a, h)'
    BY <1>9, <1>10 DEF TaskStands
  <1> QED
    BY <1>2, <1>3, <1>11, MoveKeepsContent

LEMMA DeclineKeepsContent ==
  ASSUME ExchangeTypes, ContentInv, NEW a \in Agents, NEW s \in Callers, NEW id \in RecordIds,
         DeclineStep(a, s, id)
  PROVE  ContentInv'
  <1>1. /\ TakesUp(a, s, id) /\ tasks'[a][s].pc = "updateOnly" /\ s \in Slots
        /\ tasks'[a][s].ex.state = "declined"
        /\ tasks'[a][s].ex.verified = exchanges[a][id].verified
    BY DeclinedTask DEF Slots
  <1>2. /\ OnlyTask(a, s) /\ UNCHANGED <<exchanges, stored, wallet>>
        /\ tasks'[a][s].ex.credentials = exchanges[a][id].credentials
    BY <1>1 DEF TakesUp
  <1>3. exchanges[a][id].verified # TRUE /\ exchanges[a][id].credentials = {}
    BY AwaitingIsBlank DEF DeclineStep
  <1>4. WritesSettled(a, s)'
    BY <1>1, <1>2, <1>3 DEF WritesSettled
  <1>5. TaskStands(a, s)'
    BY <1>1, <1>4, WriterStands
  <1> QED
    BY <1>1, <1>2, <1>5, MoveKeepsContent

\* What is answered by hand over a verdict, or over credentials, is not saved.
LEMMA HandSettles ==
  ASSUME NEW before, NEW kind, NEW state, <<before, kind, state>> \in RepliesByHand
  PROVE  /\ before = "presentation-received" =>
              /\ state = "done" /\ Family(kind) = "present-proof"
              /\ FirstWrite(kind) = "updateResponse"
         /\ before = "credential-received" =>
              state = "done" /\ FirstWrite(kind) = "updateResponse"
         /\ before \notin {"presentation-received", "credential-received"} =>
              /\ state \notin {"credential-received", "done"}
              /\ before \in {"offer-received", "request-received", "proposal-received"}
  BY DEF RepliesByHand, Family, FirstWrite, StoredKinds

LEMMA ReplyKeepsContent ==
  ASSUME ExchangeTypes, ExchangeAssumption, RolesInv, ContentInv, NEW a \in Agents,
         NEW s \in Callers, NEW id \in RecordIds, Replying(a, s, id)
  PROVE  ContentInv'
  <1> DEFINE task == tasks'[a][s]
             before == exchanges[a][id]
  <1>1. PICK answer \in Answers, option \in AutoModes \cup {None} :
          ReplyStep(a, s, id, answer, option)
    BY DEF Replying
  <1>w. RepliesWith(a, s, id, answer)
    BY <1>1, RepliedTask
  <1>2. /\ TakesUp(a, s, id) /\ task.pc \in {"saveResponse", "updateResponse"} /\ s \in Slots
        /\ task.pc = FirstWrite(answer.kind)
        /\ task.ex.state = answer.state /\ task.ex.verified = before.verified
    BY <1>1, <1>w DEF Slots, RepliesWith
  <1>3. /\ OnlyTask(a, s) /\ UNCHANGED <<exchanges, stored, wallet>> /\ before # None
        /\ task.ex.credentials = before.credentials /\ task.ex.thread = before.thread
    BY <1>2 DEF TakesUp
  <1>4. /\ <<before.state, answer.kind, answer.state>> \in RepliesByHand
        /\ KnowsFamily(a, id, answer.kind)
    BY <1>1 DEF ReplyStep
  <1>5. Family(answer.kind) = ProtocolOf[before.thread]
    BY <1>3, <1>4, FamilyKnown
  <1>6. VerdictStands(a, id) /\ CredentialsStand(a, id)
    BY <1>3 DEF ContentInv, RecordStands
  <1>7. WritesSettled(a, s)'
    <2>1. CASE before.state = "presentation-received"
      <3>1. /\ task.ex.state = "done" /\ task.pc = "updateResponse"
            /\ ProtocolOf[task.ex.thread] # "issue-credential"
        BY <1>2, <1>3, <1>4, <1>5, <2>1, HandSettles
      <3>2. task.ex.credentials = {}
        BY <1>3, <1>6, <2>1 DEF CredentialsStand
      <3> QED
        BY <3>1, <3>2 DEF WritesSettled
    <2>2. CASE before.state = "credential-received"
      <3>1. task.ex.state = "done" /\ task.pc = "updateResponse"
        BY <1>2, <1>4, <2>2, HandSettles
      <3>2. task.ex.credentials # {}
        BY <1>3, <1>6, <2>2 DEF CredentialsStand
      <3> QED
        BY <3>1, <3>2 DEF WritesSettled
    <2>3. CASE before.state \notin {"presentation-received", "credential-received"}
      <3>1. /\ task.ex.state \notin {"credential-received", "done"}
            /\ before.state \in {"offer-received", "request-received", "proposal-received"}
        BY <1>2, <1>4, <2>3, HandSettles
      <3>2. task.ex.verified # TRUE /\ task.ex.credentials = {}
        BY <1>2, <1>3, <3>1, AwaitingIsBlank
      <3> QED
        BY <3>1, <3>2 DEF WritesSettled
    <2> QED
      BY <2>1, <2>2, <2>3
  <1>8. TaskStands(a, s)'
    BY <1>2, <1>7, WriterStands
  <1> QED
    BY <1>2, <1>3, <1>8, MoveKeepsContent

LEMMA DecisionSettles ==
  ASSUME NEW kind, NEW answer, NEW state, <<kind, answer, state>> \in Replies
  PROVE  /\ kind \in {"presentation", "issue-credential"} =>
              state = "done" /\ FirstWrite(answer) = "updateResponse"
         /\ kind = "presentation" => Family(kind) = "present-proof"
         /\ kind \notin {"presentation", "issue-credential"} =>
              state \notin {"credential-received", "done"}
  BY DEF Replies, Family, FirstWrite, StoredKinds

LEMMA DecisionKeepsContent ==
  ASSUME ExchangeTypes, ExchangeAssumption, IdsInv, RolesInv, StatesInv, ContentInv,
         NEW a \in Agents, NEW h \in Handlers, NEW answer \in Answers, DecideStep(a, h, answer)
  PROVE  ContentInv'
  <1> DEFINE k == tasks[a][h]
             task == tasks'[a][h]
  <1>w. AnswersWith(a, h, answer)
    BY DecidedTask
  <1>1. /\ GoesOn(a, h) /\ UNCHANGED <<exchanges, stored, wallet>> /\ task.new = k.new
        /\ k.pc = "decide" /\ task.pc \in {"saveResponse", "updateResponse"}
        /\ task.pc = FirstWrite(answer.kind)
        /\ task.ex.state = answer.state /\ task.ex.verified = k.ex.verified
        /\ task.ex.credentials = k.ex.credentials
    BY <1>w DEF AnswersWith
  <1>2. OnlyTask(a, h) /\ task.id = k.id /\ task.ex.thread = k.ex.thread
    BY <1>1 DEF GoesOn
  <1>3. /\ FoundBefore(a, h) /\ RoleOfTask(a, k) /\ KindTells(a, h) /\ TaskStands(a, h)
        /\ h \in Slots
    BY DEF StatesInv, IdsInv, RolesInv, RolesOfTasks, ContentInv, Slots
  <1>4. /\ Family(k.kind) = ProtocolOf[k.ex.thread]
        /\ <<k.kind, k.ex.state>> \in Received
        /\ ~k.new
    BY <1>1, <1>3 DEF RoleOfTask, Active, KindTells, FoundBefore
  <1>5. Existing(a, h)' => Existing(a, h) /\ RecordOf(a, h)' = RecordOf(a, h)
    BY <1>1, <1>2, <1>4 DEF Existing, Holding, Creating, RecordOf
  <1>6. Carries(a, h) /\ WritesSettled(a, h)
    BY <1>3 DEF TaskStands
  <1>7. Carries(a, h)'
    BY <1>1, <1>5, <1>6 DEF Carries, Receiving
  <1>8. <<k.kind, answer.kind, answer.state>> \in Replies
    BY DEF DecideStep
  <1>9. ReceivesCompared(a, h)' /\ MadeBlank(a, h)'
    BY <1>1, <1>4 DEF ReceivesCompared, MadeBlank, Creating, Receiving
  <1>10. WritesSettled(a, h)'
    <2> SUFFICES ASSUME Existing(a, h) PROVE WritesSettled(a, h)'
      BY <1>5 DEF WritesSettled
    <2>1. CASE k.kind \in {"presentation", "issue-credential"}
      <3>1. task.ex.state = "done" /\ task.pc = "updateResponse"
        BY <1>1, <1>8, <2>1, DecisionSettles
      <3>2. ASSUME a = Holder, ProtocolOf[k.ex.thread] = "issue-credential"
            PROVE  task.ex.credentials # {}
        <4>1. k.kind = "issue-credential"
          BY <1>4, <1>8, <2>1, <3>2, DecisionSettles
        <4>2. k.ex.state = "credential-received"
          BY <1>4, <4>1 DEF Received, Openings
        <4> QED
          BY <1>1, <1>6, <3>2, <4>2 DEF WritesSettled
      <3> QED
        BY <1>2, <3>1, <3>2 DEF WritesSettled
    <2>2. CASE k.kind \notin {"presentation", "issue-credential"}
      <3>1. task.ex.state \notin {"credential-received", "done"}
        BY <1>1, <1>8, <2>2, DecisionSettles
      <3>2. task.ex.verified # TRUE /\ task.ex.credentials = {}
        BY <1>1, <1>6, <2>2 DEF WritesSettled
      <3> QED
        BY <3>1, <3>2 DEF WritesSettled
    <2> QED
      BY <2>1, <2>2
  <1>11. TaskStands(a, h)'
    BY <1>7, <1>9, <1>10 DEF TaskStands
  <1> QED
    BY <1>1, <1>2, <1>3, <1>11, MoveKeepsContent

\* A credential that has been compared with the request goes into the wallet.
LEMMA StoreKeepsContent ==
  ASSUME ExchangeTypes, IdsInv, ContentInv, NEW a \in Agents, NEW h \in Handlers,
         StoreCredential(a, h)
  PROVE  ContentInv'
  <1> DEFINE k == tasks[a][h]
             task == tasks'[a][h]
             n == Len(wallet[a]) + 1
  <1>w. StoresCredential(a, h)
    BY StoredTask
  <1>1. /\ GoesOn(a, h) /\ UNCHANGED <<exchanges, stored>>
        /\ k.pc = "storeCredential" /\ task.pc = "saveReceived"
        /\ task.new = k.new /\ task.kind = k.kind /\ task.content = k.content
        /\ task.ex.verified = k.ex.verified
        /\ task.ex.credentials = k.ex.credentials \cup {n}
    BY <1>w DEF StoresCredential
  <1>w2. StoresCredential(a, h)
    BY StoredTask
  <1>2. /\ k.content \in Contents /\ wallet[a] \in Seq(Contents)
        /\ wallet'[a] = Append(wallet[a], k.content)
        /\ \A b \in Agents \ {a} : wallet'[b] = wallet[b]
    BY <1>w2 DEF StoresCredential
  <1>3. OnlyTask(a, h) /\ task.id = k.id /\ k.id \in RecordIds
    BY <1>1 DEF GoesOn
  <1> PICK id, credentials, c, m :
        /\ id = k.id /\ id \in RecordIds /\ credentials = k.ex.credentials
        /\ c = k.content /\ m = n
    BY <1>3
  <1>4. /\ n \in DOMAIN wallet'[a] /\ wallet'[a][n] = k.content
        /\ \A i \in DOMAIN wallet[a] : i \in DOMAIN wallet'[a] /\ wallet'[a][i] = wallet[a][i]
    BY <1>2
  <1>5. ASSUME NEW b \in Agents, NEW i \in RecordIds PROVE SameContents(b, i)
    BY <1>1, <1>2, <1>4 DEF SameContents
  <1>6. FoundBefore(a, h) /\ TaskStands(a, h) /\ h \in Slots
    BY DEF IdsInv, ContentInv, Slots
  <1>7. ReceivesCompared(a, h)
    BY <1>6 DEF TaskStands
  <1>8. Existing(a, h)' => Existing(a, h)
    BY <1>1, <1>3, <1>6 DEF Existing, Holding, Creating, FoundBefore
  <1>9. \A x : Sole(a, id, x)' = Sole(a, id, x) /\ ContentOf(a, id, x)' = ContentOf(a, id, x)
    BY <1>1 DEF Sole, ContentOf
  <1>10. k.kind = "issue-credential"
    BY <1>1, <1>7 DEF ReceivesCompared
  <1>11. ReceivesCompared(a, h)'
    <2> SUFFICES ASSUME Existing(a, h) PROVE ReceivesCompared(a, h)'
      BY <1>1, <1>8 DEF ReceivesCompared
    <2>1. /\ k.ex.verified # TRUE
          /\ Requested(a, id, credentials)
          /\ ContentOf(a, id, "request-credential") = c
      BY <1>1, <1>7, <1>10 DEF ReceivesCompared, Receiving
    <2>2. m \in DOMAIN wallet'[a] /\ wallet'[a][m] = c
      BY <1>4
    <2>3. (Requested(a, id, credentials \cup {m}))'
      BY <1>4, <1>9, <2>1, <2>2 DEF Requested
    <2>4. /\ task.ex.credentials = credentials \cup {m} /\ task.ex.verified # TRUE
          /\ task.id = id
      BY <1>1, <1>3, <2>1
    <2> QED
      BY <1>1, <1>10, <2>3, <2>4 DEF ReceivesCompared
  <1>12. Carries(a, h)' /\ WritesSettled(a, h)' /\ MadeBlank(a, h)'
    BY <1>1, <1>6 DEF Carries, WritesSettled, MadeBlank, Creating, Receiving, FoundBefore
  <1>13. TaskStands(a, h)'
    BY <1>11, <1>12 DEF TaskStands
  <1>14. \A b \in Agents, u \in Slots : tasks'[b][u] = tasks[b][u] \/ TaskStands(b, u)'
    BY <1>3, <1>13 DEF OnlyTask
  <1> QED
    BY <1>5, <1>14, FrameKeepsContent

\* What has been saved is the only message of its kind.
LEMMA SavedSole ==
  ASSUME ExchangeTypes, SavedInv, NEW a \in Agents, NEW t \in Slots, SaveStep(a, t),
         NEW id, NEW kind, id = tasks[a][t].id, kind = tasks[a][t].kind
  PROVE  Sole(a, id, kind)' /\ ContentOf(a, id, kind)' = tasks[a][t].content
  <1> DEFINE k == tasks[a][t]
             old == stored[a][k.id][k.kind]
             new == stored'[a][k.id][k.kind]
  <1>w. SavesMessage(a, t)
    BY SavedMessage
  <1>1. /\ k.pc \in {"saveReceived", "saveResponse"}
        /\ k.id \in RecordIds /\ k.kind \in StoredKinds /\ k.content \in Contents
    BY <1>w DEF SaveStep, SavesMessage
  <1>2. old \in Seq(Contents) /\ Len(old) < 2
    BY <1>1, ReadMessage DEF SavedInv, OneMessagePerKind
  <1>3. Len(new) = 1 /\ new[1] = k.content
    <2>1. CASE k.found = 0
      <3>1. FoundIsCurrent(a, t)
        BY DEF SavedInv
      <3>2. old = <<>>
        BY <1>1, <2>1, <3>1 DEF FoundIsCurrent
      <3>w2. SavesMessage(a, t)
        BY <2>1, SavedMessage
      <3>3. new = Append(old, k.content)
        BY <2>1, <3>w2 DEF SavesMessage
      <3>4. new = <<k.content>>
        BY <3>2, <3>3
      <3> QED
        BY <3>4
    <2>2. CASE k.found # 0
      <3>w3. SavesMessage(a, t)
        BY <2>2, SavedMessage
      <3>1. new = [old EXCEPT ![1] = k.content]
        BY <2>2, <3>w3 DEF SavesMessage
      <3>w4. SavesMessage(a, t)
        BY <2>2, SavedMessage
      <3>2. old # <<>>
        BY <2>2, <3>w4 DEF SavesMessage
      <3>3. /\ Len([old EXCEPT ![1] = k.content]) = Len(old)
            /\ [old EXCEPT ![1] = k.content][1] = k.content
        BY <1>1, <1>2, <3>2, ReplacedFirst
      <3>4. Len(old) = 1
        <4>1. Len(old) # 0 /\ Len(old) \in Nat /\ Len(old) < 2
          BY <1>2, <3>2, EmptySeq
        <4>2. \A n \in Nat : n # 0 /\ n < 2 => n = 1
          OBVIOUS
        <4> QED
          BY <4>1, <4>2
      <3> QED
        BY <3>1, <3>3, <3>4
    <2> QED
      BY <2>1, <2>2
  <1> QED
    BY <1>3 DEF Sole, ContentOf

\* Nothing is saved with an exchange that has a verdict, or credentials.
LEMMA SavesBefore ==
  ASSUME ExchangeTypes, ExchangeAssumption, IdsInv, TurnsInv, ContentInv, NEW a \in Agents,
         NEW t \in Slots, tasks[a][t].pc \in {"saveReceived", "saveResponse"},
         exchanges[a][tasks[a][t].id] # None
  PROVE  /\ exchanges[a][tasks[a][t].id].verified # TRUE
         /\ exchanges[a][tasks[a][t].id].credentials = {}
  <1> DEFINE k == tasks[a][t]
  <1>1. /\ CreatingKeepsId(a, t) /\ StepsOfTask(a, t) /\ TakenInTurn(a, t) /\ TaskStands(a, t)
        /\ k.id \in RecordIds
    BY DEF IdsInv, TurnsInv, ContentInv, ExchangeTypes, TypedTask
  <1>2. Existing(a, t)
    BY <1>1 DEF Existing, Holding, CreatingKeepsId
  <1>3. CASE k.pc = "saveReceived"
    <2>1. exchanges[a][k.id].state \in Awaiting
      BY <1>1, <1>2, <1>3, RolesOfSlots DEF StepsOfTask, TakenInTurn, RecordOf, Receiving
    <2> QED
      BY <1>1, <2>1, AwaitingIsBlank
  <1>4. CASE k.pc = "saveResponse"
    <2>1. Carries(a, t) /\ WritesSettled(a, t)
      BY <1>1 DEF TaskStands
    <2> QED
      BY <1>2, <1>4, <2>1 DEF Carries, WritesSettled, RecordOf, Receiving
  <1> QED
    BY <1>3, <1>4

LEMMA SaveKeepsContent ==
  ASSUME ExchangeTypes, ExchangeAssumption, IdsInv, TurnsInv, SavedInv, ContentInv,
         NEW a \in Agents, NEW t \in Slots, SaveStep(a, t)
  PROVE  ContentInv'
  <1> DEFINE k == tasks[a][t]
             task == tasks'[a][t]
  <1>w. SavesAndGoesOn(a, t)
    BY SavedTask
  <1>1. /\ OnlyTask(a, t) /\ k.pc \in {"saveReceived", "saveResponse"}
        /\ task.pc = IF k.pc = "saveReceived" THEN "updateReceived" ELSE "updateResponse"
        /\ task.id = k.id /\ task.new = k.new /\ task.ex = k.ex /\ task.kind = k.kind
        /\ task.content = k.content
    BY <1>w DEF GoesOn, SavesAndGoesOn
  <1>2. UNCHANGED <<exchanges, wallet>>
    BY DEF SaveStep
  <1>w2. SavesMessage(a, t)
    BY SavedMessage
  <1>3. OnlyMessages(a, k.id, k.kind) /\ k.id \in RecordIds
    BY <1>w2 DEF SavesMessage
  <1> PICK id, kind, credentials :
        /\ id = k.id /\ id \in RecordIds /\ kind = k.kind
        /\ credentials = k.ex.credentials
    BY <1>3
  <1>4. Sole(a, id, kind)' /\ ContentOf(a, id, kind)' = k.content
    BY SavedSole
  <1>5. ASSUME NEW b \in Agents, NEW i \in RecordIds, <<b, i>> # <<a, id>>
        PROVE  SameContents(b, i)
    BY <1>2, <1>3, <1>5 DEF SameContents, OnlyMessages
  <1>6. ASSUME NEW x \in StoredKinds, x # kind
        PROVE  Sole(a, id, x)' = Sole(a, id, x) /\ ContentOf(a, id, x)' = ContentOf(a, id, x)
    <2>1. stored'[a][id][x] = stored[a][id][x]
      BY <1>3, <1>6 DEF OnlyMessages
    <2> QED
      BY <2>1 DEF Sole, ContentOf
  <1>7. TaskStands(a, t)
    BY DEF ContentInv
  <1>8. Existing(a, t)' = Existing(a, t) /\ RecordOf(a, t)' = RecordOf(a, t)
    BY <1>1, <1>2 DEF Existing, Holding, Creating, RecordOf
  <1>9. Carries(a, t)' /\ WritesSettled(a, t)' /\ MadeBlank(a, t)'
    <2>1. Carries(a, t) /\ WritesSettled(a, t) /\ MadeBlank(a, t)
      BY <1>7 DEF TaskStands
    <2>2. Carries(a, t)'
      BY <1>1, <1>8, <2>1 DEF Carries, Receiving
    <2>3. WritesSettled(a, t)'
      BY <1>1, <1>8, <2>1 DEF WritesSettled
    <2>4. MadeBlank(a, t)'
      BY <1>1, <2>1 DEF MadeBlank, Creating
    <2> QED
      BY <2>2, <2>3, <2>4
  <1>10. ReceivesCompared(a, t)'
    <2> SUFFICES ASSUME k.pc = "saveReceived", Existing(a, t) PROVE ReceivesCompared(a, t)'
      BY <1>1, <1>8 DEF ReceivesCompared, Receiving
    <2>1. task.pc = "updateReceived"
      BY <1>1
    <2>2. ReceivesCompared(a, t)
      BY <1>7 DEF TaskStands
    <2>3. ASSUME k.ex.verified = TRUE PROVE kind = "presentation" /\ Answered(a, id)'
      <3>1. /\ kind = "presentation" /\ Sole(a, id, "request-presentation")
            /\ ContentOf(a, id, "request-presentation") = k.content
        BY <2>2, <2>3 DEF ReceivesCompared, Receiving
      <3>2. /\ Sole(a, id, "request-presentation")'
            /\ ContentOf(a, id, "request-presentation")' = k.content
        BY <1>6, <3>1 DEF StoredKinds
      <3> QED
        BY <1>4, <3>1, <3>2 DEF Answered
    <2>4. ASSUME kind = "issue-credential"
          PROVE  credentials # {} /\ (Requested(a, id, credentials))'
      <3>1. credentials # {} /\ Requested(a, id, credentials)
        BY <2>2, <2>4 DEF ReceivesCompared, Receiving
      <3>2. /\ Sole(a, id, "request-credential")' = Sole(a, id, "request-credential")
            /\ ContentOf(a, id, "request-credential")' = ContentOf(a, id, "request-credential")
        BY <1>6, <2>4 DEF StoredKinds
      <3> QED
        BY <1>2, <3>1, <3>2 DEF Requested
    <2>5. kind # "issue-credential" => credentials = {}
      BY <2>2 DEF ReceivesCompared, Receiving
    <2>6. /\ task.id = id /\ task.kind = kind /\ task.ex.credentials = credentials
          /\ task.ex.verified = k.ex.verified
      BY <1>1
    <2> QED
      BY <2>1, <2>3, <2>4, <2>5, <2>6 DEF ReceivesCompared
  <1>11. TaskStands(a, t)'
    BY <1>9, <1>10 DEF TaskStands
  <1>12. ASSUME NEW u \in Slots, u # t, ~At(a, u, "idle"), tasks[a][u].id = k.id
         PROVE  TaskStands(a, u)'
    <2>1. tasks'[a][u] = tasks[a][u] /\ TaskStands(a, u)
      BY <1>1, <1>12 DEF OnlyTask, ContentInv
    <2>2. OneWorks(a) /\ StepsOfTask(a, t) /\ StepsOfTask(a, u)
      BY DEF TurnsInv
    <2>3. Engaged(a, t)
      BY <1>1, <2>2, RolesOfSlots DEF Engaged, StepsOfTask, Receiving
    <2>4. ~Engaged(a, u)
      BY <1>12, <2>2, <2>3 DEF OneWorks
    <2>5. tasks[a][u].pc \notin Receiving
      BY <2>2, <2>4, RolesOfSlots DEF Engaged, StepsOfTask, Receiving
    <2>6. Existing(a, u)' = Existing(a, u) /\ RecordOf(a, u)' = RecordOf(a, u)
      BY <1>2, <2>1 DEF Existing, RecordOf
    <2>7. Carries(a, u)' /\ WritesSettled(a, u)' /\ MadeBlank(a, u)'
      BY <2>1, <2>6 DEF TaskStands, Carries, WritesSettled, MadeBlank
    <2>8. ReceivesCompared(a, u)'
      BY <2>1, <2>5 DEF ReceivesCompared, Receiving
    <2> QED
      BY <2>7, <2>8 DEF TaskStands
  <1>13. ASSUME NEW b \in Agents, NEW u \in Slots PROVE TaskStands(b, u)'
    <2>1. CASE <<b, u>> = <<a, t>>
      BY <1>11, <2>1
    <2>2. CASE tasks[b][u].pc = "idle" /\ <<b, u>> # <<a, t>>
      BY <1>1, <2>2, IdleStands DEF OnlyTask
    <2>3. CASE /\ tasks[b][u].pc # "idle" /\ <<b, u>> # <<a, t>>
               /\ <<b, tasks[b][u].id>> = <<a, id>>
      BY <1>12, <2>3 DEF At
    <2>4. CASE /\ tasks[b][u].pc # "idle" /\ <<b, u>> # <<a, t>>
               /\ <<b, tasks[b][u].id>> # <<a, id>>
      <3>1. /\ tasks'[b][u] = tasks[b][u] /\ TaskStands(b, u) /\ tasks[b][u].id \in RecordIds
        BY <1>1, <2>4 DEF OnlyTask, ContentInv, ExchangeTypes, TypedTask
      <3> QED
        BY <1>5, <2>4, <3>1, SameTaskStands
    <2> QED
      BY <2>1, <2>2, <2>3, <2>4
  <1>14. ASSUME NEW b \in Agents, NEW i \in RecordIds PROVE RecordStands(b, i)'
    <2>1. RecordStands(b, i)
      BY DEF ContentInv
    <2>2. CASE <<b, i>> # <<a, id>>
      BY <1>5, <2>1, <2>2, SameRecordStands
    <2>3. CASE <<b, i>> = <<a, id>> /\ exchanges[a][k.id] # None
      <3>1. exchanges[a][k.id].verified # TRUE /\ exchanges[a][k.id].credentials = {}
        BY <1>1, <2>3, SavesBefore
      <3> QED
        BY <1>2, <2>1, <2>3, <3>1 DEF RecordStands, VerdictStands, CredentialsStand
    <2>4. CASE <<b, i>> = <<a, id>> /\ exchanges[a][k.id] = None
      BY <1>2, <2>4 DEF RecordStands
    <2> QED
      BY <2>2, <2>3, <2>4
  <1> QED
    BY <1>13, <1>14 DEF ContentInv

\* A task that writes a record makes it, or writes over what is there.
LEMMA WritesOver ==
  ASSUME ExchangeTypes, IdsInv, NEW a \in Agents, NEW t \in Slots, UpdateStep(a, t)
  PROVE  Creating(tasks[a][t]) \/ Existing(a, t)
  <1>0. WritesRecord(a, t)
    BY UpdatedRecord
  <1>1. /\ tasks[a][t].pc \in {"updateReceived", "updateResponse", "updateOnly"}
        /\ tasks[a][t].new \/ exchanges[a][tasks[a][t].id] # None
    BY <1>0 DEF WritesRecord
  <1>2. FoundBefore(a, t)
    BY DEF IdsInv
  <1> QED
    BY <1>1, <1>2 DEF Existing, Holding, Creating, FoundBefore

\* A handler that has received a message writes a verdict on the presentation, or the
\* credential.
LEMMA ReceivedIs ==
  ASSUME ExchangeAssumption, NEW a \in Agents, NEW t \in Slots, KindTells(a, t),
         RoleOfTask(a, tasks[a][t]), tasks[a][t].pc = "updateReceived"
  PROVE  LET k == tasks[a][t] IN
         /\ k.kind = "presentation" => k.ex.state = "presentation-received"
         /\ k.kind = "issue-credential" <=> k.ex.state = "credential-received"
         /\ k.ex.state = "done" => /\ k.kind \notin StoredKinds
                                   /\ a = Holder => ProtocolOf[k.ex.thread] # "issue-credential"
  <1> DEFINE k == tasks[a][t]
  <1>1. <<k.kind, k.ex.state>> \in Received
    BY DEF KindTells, Receiving
  <1>2. Family(k.kind) = ProtocolOf[k.ex.thread] /\ IsFor(a, k.kind)
    BY DEF RoleOfTask, Active
  <1>3. k.ex.state = "done" => k.kind \in {"credential-ack", "presentation-ack"}
    BY <1>1 DEF Received, Openings
  <1>4. k.ex.state = "done" /\ a = Holder => k.kind # "credential-ack"
    BY <1>2 DEF IsFor, ForHolder
  <1>5. k.ex.state = "done" /\ a = Holder => ProtocolOf[k.ex.thread] # "issue-credential"
    BY <1>2, <1>3, <1>4 DEF Family
  <1>6. /\ k.kind = "presentation" => k.ex.state = "presentation-received"
        /\ k.kind = "issue-credential" <=> k.ex.state = "credential-received"
    BY <1>1 DEF Received, Openings
  <1> QED
    BY <1>3, <1>5, <1>6 DEF StoredKinds

LEMMA WrittenStands ==
  ASSUME ExchangeTypes, ExchangeAssumption, IdsInv, RolesInv, TurnsInv, StatesInv, ContentInv,
         NEW a \in Agents, NEW t \in Slots, UpdateStep(a, t), NEW id, id = tasks[a][t].id
  PROVE  RecordStands(a, id)'
  <1> DEFINE k == tasks[a][t]
  <1>0. WritesRecord(a, t)
    BY UpdatedRecord
  <1>1. /\ id \in RecordIds /\ UNCHANGED <<stored, wallet>>
        /\ k.pc \in {"updateReceived", "updateResponse", "updateOnly"}
        /\ exchanges'[a][id] = k.ex
    BY <1>0 DEF WritesRecord
  <1> PICK ex : ex = k.ex
    OBVIOUS
  <1>2. /\ TaskStands(a, t) /\ RoleOfTask(a, k) /\ KindTells(a, t) /\ StepsOfTask(a, t)
        /\ RecordStands(a, id)
    BY <1>1 DEF ContentInv, RolesInv, RolesOfTasks, StatesInv, TurnsInv
  <1>3. Answered(a, id)' = Answered(a, id)
        /\ (Requested(a, id, ex.credentials))' = Requested(a, id, ex.credentials)
    BY <1>1 DEF Answered, Requested, Sole, ContentOf
  <1>4. SUFFICES
          /\ ex.verified = TRUE =>
               /\ ex.state \in {"presentation-received", "done", "abandoned"}
               /\ Answered(a, id)
          /\ ex.credentials # {} =>
               /\ ex.state \in {"credential-received", "done", "abandoned"}
               /\ Requested(a, id, ex.credentials)
          /\ \/ ex.state = "credential-received"
             \/ a = Holder /\ ProtocolOf[ex.thread] = "issue-credential" /\ ex.state = "done"
             => ex.credentials # {}
    BY <1>1, <1>3 DEF RecordStands, VerdictStands, CredentialsStand
  <1>5. CASE Creating(k)
    <2>1. MadeBlank(a, t)
      BY <1>2 DEF TaskStands
    <2> QED
      BY <1>5, <2>1 DEF MadeBlank
  <1>6. CASE Existing(a, t) /\ k.pc = "updateReceived"
    <2>1. /\ k.kind = "presentation" => ex.state = "presentation-received"
          /\ k.kind = "issue-credential" <=> ex.state = "credential-received"
          /\ ex.state = "done" /\ a = Holder => ProtocolOf[ex.thread] # "issue-credential"
      BY <1>2, <1>6, ReceivedIs
    <2>2. ReceivesCompared(a, t)
      BY <1>2 DEF TaskStands
    <2>3. ex.verified = TRUE => k.kind = "presentation" /\ Answered(a, id)
      BY <1>6, <2>2 DEF ReceivesCompared, Receiving
    <2>4. IF k.kind = "issue-credential"
          THEN Requested(a, id, ex.credentials) /\ ex.credentials # {}
          ELSE ex.credentials = {}
      BY <1>6, <2>2 DEF ReceivesCompared, Receiving
    <2> QED
      BY <2>1, <2>3, <2>4
  <1>7. CASE Existing(a, t) /\ k.pc \in {"updateResponse", "updateOnly"}
    <2>1. Carries(a, t) /\ WritesSettled(a, t)
      BY <1>2 DEF TaskStands
    <2>2. /\ ex.verified = exchanges[a][id].verified
          /\ ex.credentials = exchanges[a][id].credentials
      BY <1>7, <2>1 DEF Carries, RecordOf, Receiving
    <2>3. /\ ex.verified = TRUE => ex.state \in {"presentation-received", "done", "abandoned"}
          /\ ex.credentials # {} => ex.state \in {"credential-received", "done", "abandoned"}
          /\ a = Holder /\ ProtocolOf[ex.thread] = "issue-credential"
             /\ ex.state \in {"credential-received", "done"} => ex.credentials # {}
      BY <1>7, <2>1 DEF WritesSettled
    <2>4. ex.state = "credential-received" =>
            a = Holder /\ ProtocolOf[ex.thread] = "issue-credential"
      <3>1. ex.state \in StatesOf(a, ex.thread)
        BY <1>2, <1>7 DEF RoleOfTask, Active
      <3> QED
        BY <3>1 DEF StatesOf
    <2>5. VerdictStands(a, id) /\ CredentialsStand(a, id)
      BY <1>2, <1>7 DEF RecordStands, Existing
    <2> QED
      BY <2>2, <2>3, <2>4, <2>5 DEF VerdictStands, CredentialsStand
  <1> QED
    BY <1>1, <1>5, <1>6, <1>7, WritesOver

\* A handler goes on to decide on what it has written.
LEMMA WriterGoesOn ==
  ASSUME ExchangeTypes, ExchangeAssumption, IdsInv, RolesInv, StatesInv, ContentInv,
         NEW a \in Agents, NEW t \in Slots, UpdateStep(a, t)
  PROVE  TaskStands(a, t)'
  <1> DEFINE k == tasks[a][t]
             task == tasks'[a][t]
  <1>0. WritesRecord(a, t) /\ MovesOn(a, t)
    BY UpdatedRecord, UpdatedTask
  <1>1. CASE task.pc = "idle"
    BY <1>1, IdleStands
  <1>2. CASE task.pc = "sendResponse"
    BY <1>2 DEF TaskStands, Carries, ReceivesCompared, WritesSettled, MadeBlank, Creating,
                Receiving
  <1>3. CASE task.pc = "decide"
    <2>1. /\ task.id = k.id /\ task.ex = k.ex /\ task.kind = k.kind /\ task.new = FALSE
          /\ k.pc = "updateReceived" /\ k.kind \in StoredKinds /\ exchanges'[a][k.id] = k.ex
      BY <1>3, <1>0 DEF WritesRecord, MovesOn
    <2>2. Carries(a, t)'
      BY <2>1 DEF Carries, RecordOf
    <2>3. ReceivesCompared(a, t)' /\ MadeBlank(a, t)'
      BY <1>3 DEF ReceivesCompared, MadeBlank, Creating, Receiving
    <2>4. TaskStands(a, t) /\ RoleOfTask(a, k) /\ KindTells(a, t)
      BY DEF ContentInv, RolesInv, RolesOfTasks, StatesInv
    <2>5. /\ k.kind = "presentation" => k.ex.state = "presentation-received"
          /\ k.kind = "issue-credential" <=> k.ex.state = "credential-received"
          /\ k.ex.state # "done"
      BY <2>1, <2>4, ReceivedIs
    <2>6. /\ k.ex.verified = TRUE => k.kind = "presentation"
          /\ k.kind = "issue-credential" <=> k.ex.credentials # {}
      <3>1. CASE Creating(k)
        <4>1. MadeBlank(a, t)
          BY <2>4 DEF TaskStands
        <4> QED
          BY <2>5, <3>1, <4>1 DEF MadeBlank
      <3>2. CASE Existing(a, t)
        <4>1. ReceivesCompared(a, t)
          BY <2>4 DEF TaskStands
        <4> QED
          BY <2>1, <3>2, <4>1 DEF ReceivesCompared, Receiving
      <3> QED
        BY <3>1, <3>2, WritesOver
    <2>7. WritesSettled(a, t)'
      BY <1>3, <2>1, <2>5, <2>6 DEF WritesSettled
    <2> QED
      BY <2>2, <2>3, <2>7 DEF TaskStands
  <1>4. \/ task.pc = "idle"
        \/ /\ task.pc \in {"decide", "sendResponse"} /\ task.id = k.id
           /\ task.pc = "decide" => k.pc = "updateReceived"
    BY <1>0 DEF MovesOn
  <1> QED
    BY <1>1, <1>2, <1>3, <1>4

\* What another task makes of the exchange stands as well.
LEMMA OthersStand ==
  ASSUME ExchangeTypes, ExchangeAssumption, OneHandler, IdsInv, TurnsInv, ContentInv,
         NEW a \in Agents, NEW t \in Slots, UpdateStep(a, t),
         NEW u \in Slots, u # t, tasks[a][u].pc \notin {"idle", "deleteMessages"},
         tasks[a][u].id = tasks[a][t].id
  PROVE  TaskStands(a, u)'
  <1> DEFINE k == tasks[a][t]
             l == tasks[a][u]
  <1>0. WritesRecord(a, t) /\ MovesOn(a, t)
    BY UpdatedRecord, UpdatedTask
  <1>1. /\ OnlyTask(a, t) /\ UNCHANGED <<stored, wallet>>
        /\ k.pc \in {"updateReceived", "updateResponse", "updateOnly"}
        /\ exchanges'[a][k.id] = k.ex
    BY <1>0 DEF WritesRecord, MovesOn
  <1>2. /\ tasks'[a][u] = l /\ TaskStands(a, t) /\ TaskStands(a, u)
        /\ CreatingKeepsId(a, t) /\ CreatingKeepsId(a, u)
        /\ StepsOfTask(a, t) /\ StepsOfTask(a, u) /\ OneWorks(a)
    BY <1>1 DEF OnlyTask, ContentInv, IdsInv, TurnsInv
  <1>3. ~Creating(k) /\ ~Creating(l)
    BY <1>1, <1>2 DEF CreatingKeepsId, At
  <1>4. Existing(a, t) /\ Existing(a, u)
    <2>1. Existing(a, t)
      BY <1>3, WritesOver
    <2> QED
      BY <1>3, <2>1 DEF Existing, Holding
  <1>5. \/ t \in Handlers /\ k.pc = "updateOnly"
        \/ Engaged(a, t)
    BY <1>1, <1>2, RolesOfSlots DEF Engaged, StepsOfTask, Receiving
  <1>6. l.pc \notin Receiving \cup {"decide"}
    <2>1. CASE t \in Handlers
      BY <1>2, <2>1, RolesOfSlots DEF OneHandler, StepsOfTask
    <2>2. CASE t \notin Handlers
      <3>1. ~Engaged(a, u)
        BY <1>2, <1>5, <2>2 DEF OneWorks
      <3> QED
        BY <1>2, <3>1, RolesOfSlots DEF Engaged, StepsOfTask, Receiving
    <2> QED
      BY <2>1, <2>2
  <1>7. l.pc = "sendResponse" \/ k.pc \in {"updateResponse", "updateOnly"}
    <2>1. ASSUME k.pc = "updateReceived" PROVE l.pc = "sendResponse"
      <3>1. t \in Handlers /\ Engaged(a, t)
        BY <1>2, <2>1, RolesOfSlots DEF Engaged, StepsOfTask, Receiving
      <3>2. u \in Callers /\ u \notin Handlers /\ ~Engaged(a, u)
        BY <1>2, <3>1, RolesOfSlots DEF OneHandler, OneWorks
      <3>3. l.pc \in Steps /\ l.pc \notin {"idle", "deleteMessages"}
        BY DEF ExchangeTypes, TypeOK, TaskType
      <3> QED
        BY <1>6, <3>2, <3>3 DEF Engaged, Receiving, Steps
    <2> QED
      BY <1>1, <2>1
  <1>8. Carries(a, u)'
    <2>1. CASE l.pc = "sendResponse"
      BY <1>2, <2>1 DEF Carries
    <2>2. CASE l.pc # "sendResponse" /\ k.pc \in {"updateResponse", "updateOnly"}
      <3>1. Carries(a, t) /\ Carries(a, u)
        BY <1>2 DEF TaskStands
      <3>2. /\ k.ex.verified = RecordOf(a, t).verified
            /\ k.ex.credentials = RecordOf(a, t).credentials
        BY <1>4, <2>2, <3>1 DEF Carries, Receiving
      <3>3. /\ l.ex.verified = RecordOf(a, u).verified
            /\ l.ex.credentials = RecordOf(a, u).credentials
        BY <1>4, <1>6, <2>2, <3>1 DEF Carries
      <3>4. RecordOf(a, u)' = k.ex /\ RecordOf(a, u) = RecordOf(a, t)
        BY <1>1, <1>2 DEF RecordOf
      <3> QED
        BY <1>2, <1>6, <3>2, <3>3, <3>4 DEF Carries
    <2> QED
      BY <1>7, <2>1, <2>2
  <1>9. ReceivesCompared(a, u)' /\ MadeBlank(a, u)'
    BY <1>2, <1>3, <1>6 DEF ReceivesCompared, MadeBlank, Creating, Receiving
  <1>10. WritesSettled(a, u)'
    <2>1. WritesSettled(a, u)
      BY <1>2 DEF TaskStands
    <2> QED
      BY <1>2, <1>4, <2>1 DEF WritesSettled
  <1> QED
    BY <1>8, <1>9, <1>10 DEF TaskStands

LEMMA UpdateKeepsContent ==
  ASSUME ExchangeTypes, ExchangeAssumption, OneHandler, IdsInv, RolesInv, TurnsInv, StatesInv,
         ContentInv, NEW a \in Agents, NEW t \in Slots, UpdateStep(a, t)
  PROVE  ContentInv'
  <1> PICK id : id = tasks[a][t].id
    OBVIOUS
  <1>0. WritesRecord(a, t) /\ MovesOn(a, t)
    BY UpdatedRecord, UpdatedTask
  <1>1. /\ OnlyTask(a, t) /\ OnlyRecord(a, id) /\ UNCHANGED <<stored, wallet>>
    BY <1>0 DEF WritesRecord, MovesOn
  <1>2. ASSUME NEW b \in Agents, NEW i \in RecordIds, <<b, i>> # <<a, id>>
        PROVE  SameContents(b, i)
    BY <1>1, <1>2 DEF SameContents, OnlyRecord
  <1>3. ASSUME NEW b \in Agents, NEW i \in RecordIds PROVE RecordStands(b, i)'
    <2>1. CASE <<b, i>> = <<a, id>>
      BY <2>1, WrittenStands
    <2>2. CASE <<b, i>> # <<a, id>>
      BY <1>2, <2>2, SameRecordStands DEF ContentInv
    <2> QED
      BY <2>1, <2>2
  <1>4. ASSUME NEW b \in Agents, NEW u \in Slots PROVE TaskStands(b, u)'
    <2>1. CASE <<b, u>> = <<a, t>>
      BY <2>1, WriterGoesOn
    <2>2. CASE tasks[b][u].pc \in {"idle", "deleteMessages"} /\ <<b, u>> # <<a, t>>
      BY <1>1, <2>2, IdleStands DEF OnlyTask
    <2>3. CASE /\ tasks[b][u].pc \notin {"idle", "deleteMessages"} /\ <<b, u>> # <<a, t>>
               /\ <<b, tasks[b][u].id>> = <<a, id>>
      BY <2>3, OthersStand
    <2>4. CASE /\ tasks[b][u].pc \notin {"idle", "deleteMessages"} /\ <<b, u>> # <<a, t>>
               /\ <<b, tasks[b][u].id>> # <<a, id>>
      <3>1. /\ tasks'[b][u] = tasks[b][u] /\ TaskStands(b, u) /\ tasks[b][u].id \in RecordIds
        BY <1>1, <2>4 DEF OnlyTask, ContentInv, ExchangeTypes, TypedTask
      <3> QED
        BY <1>2, <2>4, <3>1, SameTaskStands
    <2> QED
      BY <2>1, <2>2, <2>3, <2>4
  <1> QED
    BY <1>3, <1>4 DEF ContentInv

\* Tasks end, and nothing is written.
LEMMA RestKeepsContent ==
  ASSUME ExchangeTypes, ContentInv, UNCHANGED <<exchanges, stored, wallet>>,
         \A b \in Agents, u \in Slots :
           tasks'[b][u] = tasks[b][u] \/ tasks'[b][u].pc \in {"idle", "deleteMessages"}
  PROVE  ContentInv'
  <1>1. \A b \in Agents, u \in Slots : tasks'[b][u] = tasks[b][u] \/ TaskStands(b, u)'
    BY IdleStands
  <1> QED
    BY <1>1, SameStorage, FrameKeepsContent

\* Messages of an exchange that is gone are deleted.
LEMMA DeletionKeepsContent ==
  ASSUME ExchangeTypes, IdsInv, ContentInv, NEW a \in Agents, NEW t \in Slots,
         NEW x \in StoredKinds, DeleteStep(a, t, x)
  PROVE  ContentInv'
  <1> PICK id : id = tasks[a][t].id
    OBVIOUS
  <1>w. DeletesMessage(a, t, x)
    BY DeletedMessage
  <1>1. OnlyMessages(a, id, x) /\ UNCHANGED <<exchanges, wallet, tasks>>
    BY <1>w DEF DeletesMessage
  <1>w2. DeletesMessage(a, t, x)
    BY DeletedMessage
  <1>2. At(a, t, "deleteMessages") /\ DeletedStays(a, t)
    BY <1>w2 DEF IdsInv, DeletesMessage
  <1>3. exchanges[a][id] = None
    BY <1>2 DEF DeletedStays
  <1>4. ASSUME NEW b \in Agents, NEW i \in RecordIds
        PROVE  exchanges'[b][i] = None \/ SameContents(b, i)
    <2>1. CASE <<b, i>> = <<a, id>>
      BY <1>1, <1>3, <2>1
    <2>2. CASE <<b, i>> # <<a, id>>
      <3>1. \A y \in StoredKinds : stored'[b][i][y] = stored[b][i][y]
        BY <1>1, <2>2 DEF OnlyMessages
      <3> QED
        BY <1>1, <3>1 DEF SameContents
    <2> QED
      BY <2>1, <2>2
  <1> QED
    BY <1>1, <1>4, FrameKeepsContent

LEMMA RemovalKeepsContent ==
  ASSUME ExchangeTypes, ContentInv, NEW a \in Agents, NEW s \in Callers, NEW id \in RecordIds,
         RemoveStep(a, s, id)
  PROVE  ContentInv'
  <1>1. /\ OnlyTask(a, s) /\ UNCHANGED <<stored, wallet>>
        /\ exchanges'[a][id] = None /\ OnlyRecord(a, id)
        /\ tasks'[a][s].pc = "deleteMessages" \/ tasks'[a][s] = tasks[a][s]
    BY RemovedTask
  <1>2. \A b \in Agents, i \in RecordIds : exchanges'[b][i] = None \/ SameContents(b, i)
    BY <1>1 DEF OnlyRecord, SameContents
  <1>3. \A b \in Agents, u \in Slots : tasks'[b][u] = tasks[b][u] \/ TaskStands(b, u)'
    BY <1>1, IdleStands DEF OnlyTask
  <1> QED
    BY <1>2, <1>3, FrameKeepsContent

LEMMA ReceiptsKeepContent ==
  ASSUME ExchangeTypes, ExchangeAssumption, ContentInv, NEW a \in Agents, NEW h \in Handlers,
         NEW m \in net, NEW id \in RecordIds, Receipts(a, h, m, id)
  PROVE  ContentInv'
  <1>1. CASE Opening(a, h, m, id)
    <2>1. PICK state \in StateNames : OpenStep(a, h, m, id, state)
      BY <1>1 DEF Opening
    <2>2. /\ Makes(a, h, id, m.thread, TRUE, state, m.kind, m.content)
          /\ tasks'[a][h].pc = "saveReceived" /\ h \in Slots
      BY <2>1, OpenedTask DEF Slots
    <2>3. state \notin {"credential-received", "done"}
      BY <2>1 DEF OpenStep, Openings
    <2> QED
      BY <2>2, <2>3, MakingKeepsContent
  <1> QED
    BY <1>1, AbandonKeepsContent, ResumeKeepsContent DEF Receipts

LEMMA CallsKeepContent ==
  ASSUME ExchangeTypes, ExchangeAssumption, RolesInv, ContentInv, NEW a \in Agents,
         NEW s \in Callers, NEW id \in RecordIds, CallShapes(a, s, id)
  PROVE  ContentInv'
  <1>1. CASE Starting(a, s, id)
    <2>1. PICK th \in Threads, kind \in StoredKinds, state \in StateNames,
               connected \in BOOLEAN, c \in Contents, option \in AutoModes \cup {None} :
            StartStep(a, s, th, id, kind, state, connected, c, option)
      BY <1>1 DEF Starting
    <2>2. /\ Makes(a, s, id, th, connected, state, kind, c)
          /\ tasks'[a][s].pc = "saveResponse" /\ s \in Slots
      BY <2>1, StartedTask DEF Slots
    <2>3. state \notin {"credential-received", "done"}
      BY <2>1 DEF StartStep, Starts
    <2> QED
      BY <2>2, <2>3, MakingKeepsContent
  <1>2. CASE ReportStep(a, id)
    <2>1. UNCHANGED <<exchanges, stored, wallet, tasks>>
      BY <1>2 DEF ReportStep
    <2> QED
      BY <2>1, RestKeepsContent
  <1> QED
    BY <1>1, <1>2, DeclineKeepsContent, ReplyKeepsContent, RemovalKeepsContent DEF CallShapes

LEMMA ContentKept ==
  ASSUME ExchangeTypes, ExchangeAssumption, OneHandler, IdsInv, RolesInv, TurnsInv, SavedInv,
         StatesInv, ContentInv, Shapes
  PROVE  ContentInv'
  <1>1. CASE \E a \in Agents : Crash(a)
    <2>1. PICK a \in Agents : Crash(a)
      BY <1>1
    <2>2. /\ \A u \in Slots : tasks'[a][u].pc = "idle"
          /\ \A b \in Agents \ {a}, u \in Slots : tasks'[b][u] = tasks[b][u]
          /\ UNCHANGED <<exchanges, stored, wallet>>
      BY <2>1, CrashedTasks
    <2>3. \A b \in Agents, u \in Slots :
            tasks'[b][u] = tasks[b][u] \/ tasks'[b][u].pc \in {"idle", "deleteMessages"}
      BY <2>2
    <2> QED
      BY <2>2, <2>3, RestKeepsContent
  <1>2. ASSUME NEW a \in Agents, NEW t \in Slots, TaskShapes(a, t) PROVE ContentInv'
    <2>1. ASSUME Finish(a, t), UNCHANGED <<exchanges, stored, wallet>> PROVE ContentInv'
      <3>1. tasks'[a][t].pc = "idle" /\ OnlyTask(a, t)
        BY <2>1, StoppedTask
      <3>2. \A b \in Agents, u \in Slots :
              tasks'[b][u] = tasks[b][u] \/ tasks'[b][u].pc \in {"idle", "deleteMessages"}
        BY <3>1 DEF OnlyTask
      <3> QED
        BY <2>1, <3>2, RestKeepsContent
    <2>2. Stop(a, t) \/ SendResponse(a, t) =>
            Finish(a, t) /\ UNCHANGED <<exchanges, stored, wallet>>
      BY DEF Stop, SendResponse
    <2> QED
      BY <1>2, <2>1, <2>2, SaveKeepsContent, UpdateKeepsContent, DeletionKeepsContent
         DEF TaskShapes
  <1>3. CASE \E a \in Agents, h \in Handlers, m \in net, id \in RecordIds : Receipts(a, h, m, id)
    BY <1>3, ReceiptsKeepContent
  <1>4. CASE \E a \in Agents, h \in Handlers : StoreCredential(a, h)
    BY <1>4, StoreKeepsContent
  <1>5. CASE \E a \in Agents, h \in Handlers : Deciding(a, h)
    BY <1>5, DecisionKeepsContent DEF Deciding
  <1>6. CASE \E a \in Agents, s \in Callers, id \in RecordIds : CallShapes(a, s, id)
    BY <1>6, CallsKeepContent
  <1> QED
    BY <1>1, <1>2, <1>3, <1>4, <1>5, <1>6 DEF Shapes

LEMMA ContentInit ==
  ASSUME Init
  PROVE  ContentInv
  <1>1. \A a \in Agents, t \in Slots : tasks[a][t].pc = "idle"
    BY DEF Init, Idle
  <1>2. \A a \in Agents, id \in RecordIds : exchanges[a][id] = None
    BY DEF Init
  <1> QED
    BY <1>1, <1>2, IdleStands DEF ContentInv, RecordStands

\* All of the invariants hold together.
LEMMA ContentHolds ==
  ASSUME OneHandler, OneCaller
  PROVE  Spec => [](ExchangeTypes /\ IdsInv /\ RolesInv /\ TurnsInv /\ SavedInv /\ StatesInv
                      /\ ContentInv)
  <1> DEFINE Base == ExchangeTypes /\ IdsInv /\ RolesInv /\ TurnsInv /\ SavedInv
             Inv == StatesInv /\ ContentInv
  <1>1. Base /\ Inv /\ [Next]_vars => Inv'
    <2>1. ASSUME Base, Inv, Next PROVE Inv'
      <3>1. Shapes
        BY <2>1, ExchangeAssumption, StepShapes
      <3> QED
        BY <2>1, <3>1, ExchangeAssumption, StatesKept, ContentKept
    <2>2. ASSUME Base, Inv, UNCHANGED vars PROVE Inv'
      <3>1. StatesInv'
        BY <2>2, LossKeepsStates DEF vars
      <3>2. ContentInv'
        BY <2>2, RestKeepsContent DEF vars
      <3> QED
        BY <3>1, <3>2
    <2> QED
      BY <2>1, <2>2
  <1>2. Init => Inv
    BY StatesInit, ContentInit
  <1> QED
    BY <1>1, <1>2, TurnsAndSaved, PTL DEF Spec

\* What a verifier calls valid answers what its application finds was requested
\* (VerifiedAnswersRequest), where an agent handles one message, and its application makes
\* one call, at a time: from the comparison until the exchange is deleted nobody saves
\* another request or presentation with it.
THEOREM VerdictsAreOnRequests ==
  ASSUME OneHandler, OneCaller
  PROVE  Spec => []VerifiedAnswersRequest
  <1>1. ContentInv => VerifiedAnswersRequest
    <2> SUFFICES ASSUME ContentInv, NEW id \in ExchangesOf(Authority),
                        exchanges[Authority][id].verified = TRUE
                 PROVE  Answered(Authority, id)
      BY DEF VerifiedAnswersRequest, Answered
    <2> QED
      BY DEF ContentInv, RecordStands, VerdictStands, ExchangesOf, Agents
  <1> QED
    BY <1>1, ContentHolds, PTL

\* The credentials that a holder has received are in its wallet, as it requested them
\* (HeldAsRequested), where an agent handles one message, and its application makes one
\* call, at a time.
THEOREM CredentialsAreAsRequested ==
  ASSUME OneHandler, OneCaller
  PROVE  Spec => []HeldAsRequested
  <1>1. ContentInv => HeldAsRequested
    <2> SUFFICES ASSUME ContentInv, NEW id \in ExchangesOf(Holder),
                        ProtocolOf[exchanges[Holder][id].thread] = "issue-credential",
                        exchanges[Holder][id].state \in {"credential-received", "done"}
                 PROVE  /\ exchanges[Holder][id].credentials # {}
                        /\ Requested(Holder, id, exchanges[Holder][id].credentials)
      BY DEF HeldAsRequested, Requested
    <2>1. CredentialsStand(Holder, id)
      BY DEF ContentInv, RecordStands, ExchangesOf, Agents
    <2> QED
      BY <2>1 DEF CredentialsStand
  <1> QED
    BY <1>1, ContentHolds, PTL

-------------------------------------------------------------------------------
(* What is answered automatically *)

\* The exchange is being made, or exists.
Live(a, t) == Creating(tasks[a][t]) \/ exchanges[a][tasks[a][t].id] # None

\* What a handler has received is what it has saved; what it answers is what was agreed.
Approves(a, h) ==
  LET k == tasks[a][h] IN
  Live(a, h) =>
    /\ k.pc \in {"updateReceived", "decide"} /\ k.kind \in StoredKinds => Equal(a, k, k.kind)
    /\ k.pc \in {"saveResponse", "updateResponse", "sendResponse"}
       /\ k.kind \in DOMAIN AgreedBefore /\ Mode(a, k.ex) = "contentApproved" =>
         Equal(a, k, AgreedBefore[k.kind])

ApprovedInv == \A a \in Agents, h \in Handlers : Approves(a, h)

LEMMA AgreedKinds == \A x \in DOMAIN AgreedBefore : AgreedBefore[x] \in StoredKinds
  BY DEF AgreedBefore, StoredKinds

\* A handler at another step approves nothing.
LEMMA SilentApproves ==
  ASSUME NEW a, NEW h
  PROVE  /\ \/ tasks[a][h].pc \in {"idle", "storeCredential", "saveReceived", "updateOnly",
                                   "deleteMessages"}
            \/ tasks[a][h].pc = "updateReceived" /\ tasks[a][h].kind \notin StoredKinds
            => Approves(a, h)
         /\ \/ tasks'[a][h].pc \in {"idle", "storeCredential", "saveReceived", "updateOnly",
                                    "deleteMessages"}
            \/ tasks'[a][h].pc = "updateReceived" /\ tasks'[a][h].kind \notin StoredKinds
            => Approves(a, h)'
  BY DEF Approves

\* The handler has not moved, and what it relies on is kept or gone.
LEMMA SameApproval ==
  ASSUME NEW a, NEW h, Approves(a, h), tasks'[a][h] = tasks[a][h],
         \/ ~Live(a, h)'
         \/ /\ Live(a, h)
            /\ \A x \in StoredKinds :
                 stored'[a][tasks[a][h].id][x] = stored[a][tasks[a][h].id][x]
  PROVE  Approves(a, h)'
  <1> DEFINE k == tasks[a][h]
  <1>1. CASE ~Live(a, h)'
    BY <1>1 DEF Approves
  <1>2. CASE /\ Live(a, h)
             /\ \A x \in StoredKinds : stored'[a][k.id][x] = stored[a][k.id][x]
    <2> PICK id, kind, content :
          id = k.id /\ kind = k.kind /\ content = k.content
      OBVIOUS
    <2>1. \A x \in StoredKinds : Sole(a, id, x)' = Sole(a, id, x)
                                 /\ ContentOf(a, id, x)' = ContentOf(a, id, x)
      BY <1>2 DEF Sole, ContentOf
    <2>2. \A x \in StoredKinds : Equal(a, k, x) => Equal(a, k, x)'
      <3> SUFFICES ASSUME NEW x \in StoredKinds, Equal(a, k, x) PROVE Equal(a, k, x)'
        OBVIOUS
      <3>1. Sole(a, id, x) /\ ContentOf(a, id, x) = content
        BY DEF Equal
      <3>2. Sole(a, id, x)' /\ ContentOf(a, id, x)' = content
        BY <2>1, <3>1
      <3> QED
        BY <3>2 DEF Equal
    <2>3. ASSUME k.kind \in StoredKinds, Equal(a, k, k.kind) PROVE (Equal(a, k, k.kind))'
      <3>1. Equal(a, k, kind)'
        BY <2>2, <2>3
      <3> QED
        BY <3>1
    <2>4. ASSUME k.kind \in DOMAIN AgreedBefore, Equal(a, k, AgreedBefore[k.kind])
          PROVE  (Equal(a, k, AgreedBefore[k.kind]))'
      <3>1. AgreedBefore[kind] \in StoredKinds
        BY <2>4, AgreedKinds
      <3>2. Equal(a, k, AgreedBefore[kind])'
        BY <2>2, <2>4, <3>1
      <3> QED
        BY <3>2
    <2> QED
      BY <1>2, <2>3, <2>4 DEF Approves, Mode
  <1> QED
    BY <1>1, <1>2

LEMMA MoveKeepsApproval ==
  ASSUME ApprovedInv, NEW a \in Agents, NEW t \in Slots, OnlyTask(a, t),
         UNCHANGED <<exchanges, stored>>, t \in Handlers => Approves(a, t)'
  PROVE  ApprovedInv'
  <1> SUFFICES ASSUME NEW b \in Agents, NEW h \in Handlers, <<b, h>> # <<a, t>>
               PROVE  Approves(b, h)'
    BY DEF ApprovedInv
  <1>1. tasks'[b][h] = tasks[b][h] /\ Approves(b, h)
    BY DEF OnlyTask, ApprovedInv, Slots
  <1>2. Live(b, h)' = Live(b, h)
    BY <1>1 DEF Live
  <1> QED
    BY <1>1, <1>2, SameApproval

\* Tasks end, and records and messages stay.
LEMMA RestKeepsApproval ==
  ASSUME ApprovedInv, UNCHANGED <<exchanges, stored>>,
         \A b \in Agents, u \in Slots : tasks'[b][u] = tasks[b][u] \/ tasks'[b][u].pc = "idle"
  PROVE  ApprovedInv'
  <1> SUFFICES ASSUME NEW b \in Agents, NEW h \in Handlers, tasks'[b][h] = tasks[b][h]
               PROVE  Approves(b, h)'
    BY SilentApproves DEF ApprovedInv, Slots
  <1>1. Approves(b, h)
    BY DEF ApprovedInv
  <1>2. Live(b, h)' = Live(b, h)
    BY DEF Live
  <1> QED
    BY <1>1, <1>2, SameApproval

\* An agent's only handler is the one that works on what it approves.
LEMMA OthersAreSilent ==
  ASSUME ExchangeTypes, ExchangeAssumption, OneHandler, IdsInv, TurnsInv, NEW a \in Agents,
         NEW t \in Slots, tasks[a][t].pc \in {"saveReceived", "saveResponse"},
         NEW h \in Handlers, h # t, tasks[a][h].id = tasks[a][t].id
  PROVE  tasks[a][h].pc \in {"idle", "updateOnly", "deleteMessages"}
  <1>1. t \in Callers /\ t \notin Handlers /\ h \in Slots
    BY RolesOfSlots DEF OneHandler, Slots
  <1>2. StepsOfTask(a, t) /\ OneWorks(a)
    BY DEF TurnsInv
  <1>3. ~Engaged(a, h)
    BY <1>1, <1>2 DEF StepsOfTask, OneWorks, Engaged, Receiving
  <1>4. tasks[a][h].pc \in Steps
    BY <1>1 DEF ExchangeTypes, TypeOK, TaskType
  <1> QED
    BY <1>3, <1>4 DEF Engaged, Steps

LEMMA SaveKeepsApproval ==
  ASSUME ExchangeTypes, ExchangeAssumption, OneHandler, IdsInv, TurnsInv, SavedInv, ApprovedInv,
         NEW a \in Agents, NEW t \in Slots, SaveStep(a, t)
  PROVE  ApprovedInv'
  <1> DEFINE k == tasks[a][t]
             task == tasks'[a][t]
  <1>w. SavesAndGoesOn(a, t)
    BY SavedTask
  <1>1. /\ OnlyTask(a, t) /\ k.pc \in {"saveReceived", "saveResponse"}
        /\ task.pc = IF k.pc = "saveReceived" THEN "updateReceived" ELSE "updateResponse"
        /\ task.id = k.id /\ task.new = k.new /\ task.ex = k.ex /\ task.kind = k.kind
        /\ task.content = k.content
    BY <1>w DEF GoesOn, SavesAndGoesOn
  <1>w2. SavesMessage(a, t)
    BY SavedMessage
  <1>2. UNCHANGED exchanges /\ OnlyMessages(a, k.id, k.kind) /\ k.id \in RecordIds
    BY <1>w2 DEF SaveStep, SavesMessage
  <1> PICK id, kind, content : id = k.id /\ kind = k.kind /\ content = k.content
    OBVIOUS
  <1>3. Sole(a, id, kind)' /\ ContentOf(a, id, kind)' = content
    BY SavedSole
  <1>4. ASSUME t \in Handlers PROVE Approves(a, t)'
    <2>1. Approves(a, t)
      BY <1>4 DEF ApprovedInv
    <2>2. Live(a, t)' = Live(a, t)
      BY <1>1, <1>2 DEF Live, Creating
    <2>3. (Equal(a, tasks[a][t], tasks[a][t].kind))'
      BY <1>1, <1>3 DEF Equal
    <2>4. CASE k.pc = "saveReceived"
      <3>1. task.pc = "updateReceived"
        BY <1>1, <2>4
      <3> QED
        BY <2>3, <3>1 DEF Approves
    <2>5. CASE k.pc = "saveResponse"
      <3>1. task.pc = "updateResponse"
        BY <1>1, <2>5
      <3> SUFFICES ASSUME Live(a, t), kind \in DOMAIN AgreedBefore,
                          Mode(a, k.ex) = "contentApproved"
                   PROVE  (Equal(a, tasks[a][t], AgreedBefore[tasks[a][t].kind]))'
        BY <1>1, <2>2, <3>1 DEF Approves, Mode
      <3>2. Equal(a, k, AgreedBefore[kind]) /\ AgreedBefore[kind] \in StoredKinds
        BY <2>1, <2>5, AgreedKinds DEF Approves
      <3>3. CASE AgreedBefore[kind] = kind
        BY <1>1, <2>3, <3>3
      <3>4. CASE AgreedBefore[kind] # kind
        <4> PICK x : x = AgreedBefore[kind]
          OBVIOUS
        <4>1. stored'[a][id][x] = stored[a][id][x]
          BY <1>2, <3>2, <3>4 DEF OnlyMessages
        <4>2. Sole(a, id, x) /\ ContentOf(a, id, x) = content
          BY <3>2 DEF Equal
        <4>3. Sole(a, id, x)' /\ ContentOf(a, id, x)' = content
          BY <4>1, <4>2 DEF Sole, ContentOf
        <4> QED
          BY <1>1, <4>3 DEF Equal
      <3> QED
        BY <3>3, <3>4
    <2> QED
      BY <1>1, <2>4, <2>5
  <1>5. ASSUME NEW b \in Agents, NEW h \in Handlers, <<b, h>> # <<a, t>>
        PROVE  Approves(b, h)'
    <2>1. tasks'[b][h] = tasks[b][h] /\ Approves(b, h) /\ h \in Slots
      BY <1>1, <1>5 DEF OnlyTask, ApprovedInv, Slots
    <2>2. CASE <<b, tasks[b][h].id>> = <<a, id>>
      <3>1. tasks[b][h].pc \in {"idle", "updateOnly", "deleteMessages"}
        BY <1>1, <1>5, <2>2, OthersAreSilent
      <3> QED
        BY <2>1, <3>1, SilentApproves
    <2>3. CASE tasks[b][h].pc = "idle"
      BY <2>1, <2>3, SilentApproves
    <2>4. CASE <<b, tasks[b][h].id>> # <<a, id>> /\ tasks[b][h].pc # "idle"
      <3>1. tasks[b][h].id \in RecordIds
        BY <2>1, <2>4 DEF ExchangeTypes, TypedTask
      <3>2. Live(b, h)' = Live(b, h)
        BY <1>2, <2>1 DEF Live
      <3>3. \A x \in StoredKinds :
              stored'[b][tasks[b][h].id][x] = stored[b][tasks[b][h].id][x]
        BY <1>2, <2>4, <3>1 DEF OnlyMessages
      <3> QED
        BY <2>1, <3>2, <3>3, SameApproval
    <2> QED
      BY <2>2, <2>3, <2>4
  <1> QED
    BY <1>4, <1>5 DEF ApprovedInv

LEMMA UpdateKeepsApproval ==
  ASSUME ExchangeTypes, IdsInv, ApprovedInv, NEW a \in Agents, NEW t \in Slots, UpdateStep(a, t)
  PROVE  ApprovedInv'
  <1> DEFINE k == tasks[a][t]
             task == tasks'[a][t]
  <1>0. WritesRecord(a, t) /\ MovesOn(a, t)
    BY UpdatedRecord, UpdatedTask
  <1>1. /\ OnlyTask(a, t) /\ OnlyRecord(a, k.id) /\ UNCHANGED stored
        /\ k.pc \in {"updateReceived", "updateResponse", "updateOnly"}
    BY <1>0 DEF WritesRecord, MovesOn
  <1>2. \/ task.pc = "idle"
        \/ /\ task.pc \in {"decide", "sendResponse"}
           /\ task.id = k.id /\ task.ex = k.ex /\ task.kind = k.kind
           /\ task.content = k.content
           /\ task.pc = "decide" => k.pc = "updateReceived"
           /\ task.pc = "sendResponse" => k.pc = "updateResponse"
    BY <1>0 DEF MovesOn
  <1>3. Live(a, t)
    BY WritesOver DEF Live, Existing
  <1> PICK id, kind, content : id = k.id /\ kind = k.kind /\ content = k.content
    OBVIOUS
  <1>4. ASSUME t \in Handlers, task.pc # "idle" PROVE Approves(a, t)'
    <2>1. Approves(a, t)
      BY <1>4 DEF ApprovedInv
    <2>2. \A x : (Equal(a, tasks[a][t], x))' = Equal(a, k, x)
      BY <1>1, <1>2, <1>4 DEF Equal, Sole, ContentOf
    <2>3. Mode(a, task.ex) = Mode(a, k.ex)
      BY <1>2, <1>4
    <2>4. CASE task.pc = "decide"
      <3>1. kind \in StoredKinds => Equal(a, k, kind)
        BY <1>2, <1>3, <2>1, <2>4 DEF Approves
      <3> QED
        BY <1>2, <2>2, <2>4, <3>1 DEF Approves
    <2>5. CASE task.pc = "sendResponse"
      <3>1. kind \in DOMAIN AgreedBefore /\ Mode(a, k.ex) = "contentApproved" =>
              Equal(a, k, AgreedBefore[kind])
        BY <1>2, <1>3, <2>1, <2>5 DEF Approves
      <3> QED
        BY <1>2, <2>2, <2>5, <3>1 DEF Approves, Mode
    <2> QED
      BY <1>2, <1>4, <2>4, <2>5
  <1>5. ASSUME NEW b \in Agents, NEW h \in Handlers, <<b, h>> # <<a, t>>
        PROVE  Approves(b, h)'
    <2>1. /\ tasks'[b][h] = tasks[b][h] /\ Approves(b, h) /\ h \in Slots
          /\ CreatingKeepsId(a, t)
      BY <1>1, <1>5 DEF OnlyTask, ApprovedInv, Slots, IdsInv
    <2>2. CASE tasks[b][h].pc = "idle"
      BY <2>1, <2>2, SilentApproves
    <2>3. CASE tasks[b][h].pc # "idle"
      <3>1. tasks[b][h].id \in RecordIds
        BY <2>1, <2>3 DEF ExchangeTypes, TypedTask
      <3>2. CASE <<b, tasks[b][h].id>> # <<a, id>>
        BY <1>1, <2>1, <3>1, <3>2, SameApproval DEF OnlyRecord, Live
      <3>3. CASE <<b, tasks[b][h].id>> = <<a, id>>
        <4>1. ~Creating(k)
          BY <1>5, <2>1, <2>3, <3>3 DEF CreatingKeepsId, At
        <4>2. exchanges[b][tasks[b][h].id] # None
          BY <1>3, <3>3, <4>1 DEF Live
        <4> QED
          BY <1>1, <2>1, <4>2, SameApproval DEF Live
      <3> QED
        BY <3>2, <3>3
    <2> QED
      BY <2>2, <2>3
  <1> QED
    BY <1>4, <1>5, SilentApproves DEF ApprovedInv

LEMMA DecisionKeepsApproval ==
  ASSUME ExchangeTypes, IdsInv, ApprovedInv, NEW a \in Agents, NEW h \in Handlers,
         NEW answer \in Answers, DecideStep(a, h, answer)
  PROVE  ApprovedInv'
  <1> DEFINE k == tasks[a][h]
             task == tasks'[a][h]
  <1>w. AnswersWith(a, h, answer)
    BY DecidedTask
  <1>1. /\ GoesOn(a, h) /\ UNCHANGED <<exchanges, stored>> /\ task.new = k.new
        /\ k.pc = "decide" /\ task.pc \in {"saveResponse", "updateResponse"}
        /\ task.ex.auto = k.ex.auto /\ task.kind = answer.kind /\ task.content = answer.content
        /\ k.kind \in StoredKinds
    BY <1>w DEF AnswersWith
  <1>2. OnlyTask(a, h) /\ task.id = k.id /\ h \in Slots
    BY <1>1 DEF GoesOn
  <1>3. Approves(a, h) /\ FoundBefore(a, h)
    BY <1>2 DEF ApprovedInv, IdsInv
  <1>4. Mode(a, task.ex) = Mode(a, k.ex)
    BY <1>1 DEF Mode
  <1>5. /\ answer.kind \in StoredKinds => answer.content = ContentOf(a, k.id, k.kind)
        /\ Mode(a, k.ex) = "contentApproved" /\ answer.kind \in StoredKinds =>
             Equal(a, k, AgreedBefore[answer.kind])
    BY DEF DecideStep
  <1> PICK id, kind, content : id = k.id /\ kind = answer.kind /\ content = k.content
    OBVIOUS
  <1>6. Live(a, h)' => Live(a, h)
    BY <1>1, <1>2, <1>3 DEF Live, Creating, FoundBefore
  <1>7. ASSUME Live(a, h), kind \in DOMAIN AgreedBefore, Mode(a, k.ex) = "contentApproved"
        PROVE  (Equal(a, tasks[a][h], AgreedBefore[kind]))'
    <2>1. kind \in StoredKinds
      BY <1>7 DEF AgreedBefore, StoredKinds
    <2>2. Equal(a, k, k.kind)
      BY <1>1, <1>3, <1>7 DEF Approves
    <2>3. task.content = content
      BY <1>1, <1>5, <2>1, <2>2 DEF Equal
    <2>4. Sole(a, id, AgreedBefore[kind]) /\ ContentOf(a, id, AgreedBefore[kind]) = content
      BY <1>5, <1>7, <2>1 DEF Equal
    <2> PICK x : x = AgreedBefore[kind]
      OBVIOUS
    <2>5. Sole(a, id, x)' /\ ContentOf(a, id, x)' = content
      BY <1>1, <2>4 DEF Sole, ContentOf
    <2> QED
      BY <1>2, <2>3, <2>5 DEF Equal
  <1>8. Approves(a, h)'
    BY <1>1, <1>4, <1>6, <1>7 DEF Approves, Mode
  <1> QED
    BY <1>1, <1>2, <1>8, MoveKeepsApproval

LEMMA DeletionKeepsApproval ==
  ASSUME ExchangeTypes, IdsInv, ApprovedInv, NEW a \in Agents, NEW t \in Slots,
         NEW x \in StoredKinds, DeleteStep(a, t, x)
  PROVE  ApprovedInv'
  <1> PICK id : id = tasks[a][t].id
    OBVIOUS
  <1>w. DeletesMessage(a, t, x)
    BY DeletedMessage
  <1>1. OnlyMessages(a, id, x) /\ UNCHANGED <<exchanges, tasks>> /\ At(a, t, "deleteMessages")
    BY <1>w DEF DeletesMessage
  <1>2. DeletedStays(a, t)
    BY DEF IdsInv
  <1>3. exchanges[a][id] = None
    BY <1>1, <1>2 DEF DeletedStays
  <1> SUFFICES ASSUME NEW b \in Agents, NEW h \in Handlers PROVE Approves(b, h)'
    BY DEF ApprovedInv
  <1>4. h \in Slots /\ Approves(b, h) /\ CreatingKeepsId(b, h) /\ Live(b, h)' = Live(b, h)
    BY <1>1 DEF Slots, ApprovedInv, IdsInv, Live
  <1>5. CASE tasks[b][h].pc \in {"idle", "deleteMessages"}
    BY <1>1, <1>5, SilentApproves
  <1>6. CASE tasks[b][h].pc \notin {"idle", "deleteMessages"}
    <2>1. tasks[b][h].id \in RecordIds
      BY <1>4, <1>6 DEF ExchangeTypes, TypedTask
    <2>2. CASE <<b, tasks[b][h].id>> = <<a, id>>
      <3>1. ~Creating(tasks[b][h])
        BY <1>1, <1>4, <1>6, <2>2 DEF CreatingKeepsId, At
      <3>2. ~Live(b, h)'
        BY <1>1, <1>3, <2>2, <3>1 DEF Live
      <3> QED
        BY <1>1, <1>4, <3>2, SameApproval
    <2>3. CASE <<b, tasks[b][h].id>> # <<a, id>>
      <3>1. \A y \in StoredKinds :
              stored'[b][tasks[b][h].id][y] = stored[b][tasks[b][h].id][y]
        BY <1>1, <2>1, <2>3 DEF OnlyMessages
      <3> QED
        BY <1>1, <1>4, <3>1, SameApproval
    <2> QED
      BY <2>2, <2>3
  <1> QED
    BY <1>5, <1>6

LEMMA RemovalKeepsApproval ==
  ASSUME ExchangeTypes, ExchangeAssumption, ApprovedInv, NEW a \in Agents, NEW s \in Callers,
         NEW id \in RecordIds, RemoveStep(a, s, id)
  PROVE  ApprovedInv'
  <1>1. /\ OnlyTask(a, s) /\ UNCHANGED stored /\ s \in Slots
        /\ exchanges'[a][id] = None /\ OnlyRecord(a, id)
    BY RemovedTask
  <1> SUFFICES ASSUME NEW b \in Agents, NEW h \in Handlers PROVE Approves(b, h)'
    BY DEF ApprovedInv
  <1>2. h \in Slots /\ h # s
    BY RolesOfSlots DEF Slots
  <1>3. Approves(b, h) /\ tasks'[b][h] = tasks[b][h]
    BY <1>1, <1>2 DEF ApprovedInv, OnlyTask
  <1>4. CASE tasks[b][h].pc = "idle"
    BY <1>3, <1>4, SilentApproves
  <1>5. CASE tasks[b][h].pc # "idle"
    <2>1. tasks[b][h].id \in RecordIds
      BY <1>2, <1>5 DEF ExchangeTypes, TypedTask
    <2>2. Live(b, h)' => Live(b, h)
      BY <1>1, <1>3, <2>1 DEF Live, OnlyRecord
    <2> QED
      BY <1>1, <1>3, <2>2, SameApproval
  <1> QED
    BY <1>4, <1>5

LEMMA ReceiptsKeepApproval ==
  ASSUME ExchangeTypes, ApprovedInv, NEW a \in Agents, NEW h \in Handlers, NEW m \in net,
         NEW id \in RecordIds, Receipts(a, h, m, id)
  PROVE  ApprovedInv'
  <1>0. h \in Slots
    BY DEF Slots
  <1>1. CASE AbandonStep(a, h, m, id)
    <2>1. OnlyTask(a, h) /\ UNCHANGED <<exchanges, stored>> /\ tasks'[a][h].pc = "updateOnly"
      BY <1>1, AbandonedTask DEF TakesUp
    <2> QED
      BY <1>0, <2>1, SilentApproves, MoveKeepsApproval
  <1>2. CASE Opening(a, h, m, id)
    <2>1. PICK state \in StateNames : OpenStep(a, h, m, id, state)
      BY <1>2 DEF Opening
    <2>2. /\ Makes(a, h, id, m.thread, TRUE, state, m.kind, m.content)
          /\ tasks'[a][h].pc = "saveReceived"
      BY <2>1, OpenedTask
    <2>3. OnlyTask(a, h) /\ UNCHANGED <<exchanges, stored>>
      BY <2>2 DEF Makes
    <2> QED
      BY <1>0, <2>2, <2>3, SilentApproves, MoveKeepsApproval
  <1>3. CASE Resuming(a, h, m, id)
    <2>1. PICK after \in StateNames, pc \in Steps, verdict \in BOOLEAN \cup {None} :
            ResumeStep(a, h, m, id, after, pc, verdict)
      BY <1>3 DEF Resuming
    <2>w. ResumesWith(a, h, m, id, after, pc, verdict)
      BY <2>1, ResumedTask
    <2>2. /\ TakesUp(a, h, id) /\ tasks'[a][h].pc = pc
          /\ tasks'[a][h].kind = m.kind /\ tasks'[a][h].content = m.content
      BY <2>1, <2>w DEF ResumesWith
    <2>3. OnlyTask(a, h) /\ UNCHANGED <<exchanges, stored>>
      BY <2>2 DEF TakesUp
    <2>4. \/ pc \in {"storeCredential", "saveReceived"}
          \/ pc = "updateReceived" /\ m.kind \notin StoredKinds
      BY <2>1 DEF ResumeStep, Resumptions, StoredKinds
    <2> QED
      BY <1>0, <2>2, <2>3, <2>4, SilentApproves, MoveKeepsApproval
  <1> QED
    BY <1>1, <1>2, <1>3 DEF Receipts

LEMMA CallsKeepApproval ==
  ASSUME ExchangeTypes, ExchangeAssumption, ApprovedInv, NEW a \in Agents, NEW s \in Callers,
         NEW id \in RecordIds, CallShapes(a, s, id)
  PROVE  ApprovedInv'
  <1>1. ASSUME OnlyTask(a, s), UNCHANGED <<exchanges, stored>> PROVE ApprovedInv'
    <2>1. s \in Slots /\ s \notin Handlers
      BY RolesOfSlots DEF Slots
    <2> QED
      BY <1>1, <2>1, MoveKeepsApproval
  <1>2. CASE DeclineStep(a, s, id)
    BY <1>1, <1>2, DeclinedTask DEF TakesUp
  <1>3. CASE ReportStep(a, id)
    BY <1>1, <1>3 DEF ReportStep, OnlyTask
  <1>4. CASE Replying(a, s, id)
    <2>1. PICK answer \in Answers, option \in AutoModes \cup {None} :
            ReplyStep(a, s, id, answer, option)
      BY <1>4 DEF Replying
    <2>2. RepliesWith(a, s, id, answer)
      BY <2>1, RepliedTask
    <2> QED
      BY <1>1, <2>2 DEF RepliesWith, TakesUp
  <1>5. CASE Starting(a, s, id)
    <2>1. PICK th \in Threads, kind \in StoredKinds, state \in StateNames,
               connected \in BOOLEAN, c \in Contents, option \in AutoModes \cup {None} :
            StartStep(a, s, th, id, kind, state, connected, c, option)
      BY <1>5 DEF Starting
    <2>2. Makes(a, s, id, th, connected, state, kind, c)
      BY <2>1, StartedTask
    <2> QED
      BY <1>1, <2>2 DEF Makes
  <1> QED
    BY <1>2, <1>3, <1>4, <1>5, RemovalKeepsApproval DEF CallShapes

LEMMA ApprovedKept ==
  ASSUME ExchangeTypes, ExchangeAssumption, OneHandler, IdsInv, TurnsInv, SavedInv, ApprovedInv,
         Shapes
  PROVE  ApprovedInv'
  <1>1. CASE \E a \in Agents : Crash(a)
    <2>1. PICK a \in Agents : Crash(a)
      BY <1>1
    <2>2. /\ \A u \in Slots : tasks'[a][u].pc = "idle"
          /\ \A b \in Agents \ {a}, u \in Slots : tasks'[b][u] = tasks[b][u]
          /\ UNCHANGED <<exchanges, stored>>
      BY <2>1, CrashedTasks
    <2>3. \A b \in Agents, u \in Slots :
            tasks'[b][u] = tasks[b][u] \/ tasks'[b][u].pc = "idle"
      BY <2>2
    <2> QED
      BY <2>2, <2>3, RestKeepsApproval
  <1>2. ASSUME NEW a \in Agents, NEW t \in Slots, TaskShapes(a, t) PROVE ApprovedInv'
    <2>1. ASSUME Finish(a, t), UNCHANGED <<exchanges, stored>> PROVE ApprovedInv'
      <3>1. tasks'[a][t].pc = "idle" /\ OnlyTask(a, t)
        BY <2>1, StoppedTask
      <3> QED
        BY <2>1, <3>1, SilentApproves, MoveKeepsApproval
    <2>2. Stop(a, t) \/ SendResponse(a, t) => Finish(a, t) /\ UNCHANGED <<exchanges, stored>>
      BY DEF Stop, SendResponse
    <2> QED
      BY <1>2, <2>1, <2>2, SaveKeepsApproval, UpdateKeepsApproval, DeletionKeepsApproval
         DEF TaskShapes
  <1>3. CASE \E a \in Agents, h \in Handlers, m \in net, id \in RecordIds : Receipts(a, h, m, id)
    BY <1>3, ReceiptsKeepApproval
  <1>4. ASSUME NEW a \in Agents, NEW h \in Handlers, StoreCredential(a, h) PROVE ApprovedInv'
    <2>w. StoresCredential(a, h)
      BY <1>4, StoredTask
    <2>1. /\ GoesOn(a, h) /\ UNCHANGED <<exchanges, stored>> /\ h \in Slots
          /\ tasks'[a][h].pc = "saveReceived"
      BY <1>4, <2>w DEF Slots, StoresCredential
    <2>2. OnlyTask(a, h)
      BY <2>1 DEF GoesOn
    <2> QED
      BY <2>1, <2>2, SilentApproves, MoveKeepsApproval
  <1>5. CASE \E a \in Agents, h \in Handlers : Deciding(a, h)
    BY <1>5, DecisionKeepsApproval DEF Deciding
  <1>6. CASE \E a \in Agents, s \in Callers, id \in RecordIds : CallShapes(a, s, id)
    BY <1>6, CallsKeepApproval
  <1> QED
    BY <1>1, <1>2, <1>3, <1>4, <1>5, <1>6 DEF Shapes

\* What an agent that accepts approved content answers on its own is what it agreed to
\* before (AutomaticAnswersAreApproved), from the comparison until the answer is sent,
\* where an agent handles one message, and its application makes one call, at a time.
THEOREM AutomaticAnswersWereAgreed ==
  ASSUME OneHandler, OneCaller
  PROVE  Spec => []AutomaticAnswersAreApproved
  <1> DEFINE Base == ExchangeTypes /\ IdsInv /\ TurnsInv /\ SavedInv
  <1>1. Init => ApprovedInv
    <2> SUFFICES ASSUME Init PROVE ApprovedInv
      OBVIOUS
    <2>1. \A a \in Agents, h \in Handlers : tasks[a][h].pc = "idle"
      BY DEF Init, Idle, Slots
    <2> QED
      BY <2>1, SilentApproves DEF ApprovedInv
  <1>2. Base /\ ApprovedInv /\ [Next]_vars => ApprovedInv'
    <2>1. ASSUME Base, ApprovedInv, Next PROVE ApprovedInv'
      BY <2>1, ExchangeAssumption, StepShapes, ApprovedKept
    <2>2. ASSUME Base, ApprovedInv, UNCHANGED vars PROVE ApprovedInv'
      BY <2>2, RestKeepsApproval DEF vars
    <2> QED
      BY <2>1, <2>2
  <1>3. ApprovedInv => AutomaticAnswersAreApproved
    <2> SUFFICES ASSUME ApprovedInv, NEW a \in Agents, NEW h \in Handlers,
                        tasks[a][h].pc \in {"saveResponse", "updateResponse", "sendResponse"},
                        tasks[a][h].kind \in DOMAIN AgreedBefore,
                        Mode(a, tasks[a][h].ex) = "contentApproved",
                        exchanges[a][tasks[a][h].id] # None
                 PROVE  Equal(a, tasks[a][h], AgreedBefore[tasks[a][h].kind])
      BY DEF AutomaticAnswersAreApproved
    <2> QED
      BY DEF ApprovedInv, Approves, Live
  <1> QED
    BY <1>1, <1>2, <1>3, TurnsAndSaved, PTL DEF Spec
-------------------------------------------------------------------------------
(* What an issuer is told *)

Issuing(th) == ProtocolOf[th] = "issue-credential"

\* The states of an issuer's exchange from which it issues nothing.
Final == {"credential-issued", "done", "abandoned"}

\* The task saves no message with the exchange, and leaves it in such a state.
LeavesFinal(t, id) ==
  LET k == tasks[Authority][t] IN
  k.id = id /\ k.pc \notin {"idle", "sendResponse"} =>
    /\ k.pc \in {"updateReceived", "updateResponse", "updateOnly"}
    /\ k.ex.state \in Final /\ k.ex.connected

\* The issuer has issued c in this exchange, and will issue nothing else in it.
IssuedAt(id, th, c) ==
  LET e == exchanges[Authority][id] IN
  /\ e # None
  /\ e.thread = th /\ e.connected /\ e.state \in Final
  /\ Sole(Authority, id, "issue-credential")
  /\ ContentOf(Authority, id, "issue-credential") = c
  /\ \A t \in Slots : LeavesFinal(t, id)

Issued(th, c) == \E id \in RecordIds : IssuedAt(id, th, c)

InWallet(c) == \E n \in DOMAIN wallet[Holder] : wallet[Holder][n] = c

HeldAt(id, th) == \E c \in Contents : IssuedAt(id, th, c) /\ InWallet(c)

Held(th) == \E id \in RecordIds : HeldAt(id, th)

\* What a message says.
Tells(kind, th, c) ==
  /\ kind = "issue-credential" => Issued(th, c)
  /\ kind = "credential-ack" => Held(th)

\* What an exchange says of itself, or a task of the exchange it works on, when it is in
\* this state.
Says(a, id, th, state) ==
  Issuing(th) /\ state \in {"credential-received", "done"} =>
    IF a = Authority THEN HeldAt(id, th) ELSE Held(th)

RecordSays(a, id) ==
  exchanges[a][id] # None => Says(a, id, exchanges[a][id].thread, exchanges[a][id].state)

\* A task that has received a credential stores it before it says so; one that issues a
\* credential saves it before it is sent.
TaskSays(a, t) ==
  LET k == tasks[a][t] IN
  /\ IF k.pc = "storeCredential"
     THEN Issued(k.ex.thread, k.content)
     ELSE Active(k) => Says(a, k.id, k.ex.thread, k.ex.state)
  /\ k.pc = "sendResponse" => Tells(k.kind, k.ex.thread, k.content)
  /\ k.pc = "updateResponse" /\ k.kind = "credential-ack" => Held(k.ex.thread)
  /\ k.pc \in {"saveResponse", "updateResponse"} /\ k.kind = "issue-credential" =>
       /\ k.ex.state = "credential-issued" /\ k.ex.connected /\ ~k.new
       /\ k.pc = "updateResponse" /\ exchanges[a][k.id] # None =>
            Sole(a, k.id, "issue-credential") /\ ContentOf(a, k.id, "issue-credential") = k.content
  /\ t \in Handlers /\ Active(k) => k.ex.connected

IssuedInv ==
  /\ \A m \in net : Tells(m.kind, m.thread, m.content)
  /\ \A a \in Agents :
       (\A id \in RecordIds : RecordSays(a, id)) /\ (\A t \in Slots : TaskSays(a, t))

\* The step takes back nothing that was issued or stored.
Onward ==
  /\ \A id \in RecordIds : \A th, c : IssuedAt(id, th, c) => IssuedAt(id, th, c)'
  /\ \A c : InWallet(c) => InWallet(c)'

LEMMA OnwardSays ==
  ASSUME Onward
  PROVE  /\ \A th, c : Issued(th, c) => Issued(th, c)'
         /\ \A th : Held(th) => Held(th)'
         /\ \A kind, th, c : Tells(kind, th, c) => Tells(kind, th, c)'
         /\ \A id \in RecordIds : \A a, th, state : Says(a, id, th, state) => Says(a, id, th, state)'
  <1>1. \A id \in RecordIds : \A th : HeldAt(id, th) => HeldAt(id, th)'
    BY DEF Onward, HeldAt
  <1>2. \A th, c : Issued(th, c) => Issued(th, c)'
    BY DEF Onward, Issued
  <1>3. \A th : Held(th) => Held(th)'
    BY <1>1 DEF Held
  <1> QED
    BY <1>1, <1>2, <1>3 DEF Tells, Says

\* What was issued in an exchange stays so.
LEMMA IssuedStays ==
  ASSUME NEW id, NEW th, NEW c, IssuedAt(id, th, c),
         \/ exchanges'[Authority][id] = exchanges[Authority][id]
         \/ LET e == exchanges'[Authority][id]
            IN  e # None /\ e.thread = th /\ e.connected /\ e.state \in Final,
         stored'[Authority][id]["issue-credential"] = stored[Authority][id]["issue-credential"],
         \A t \in Slots : tasks'[Authority][t] = tasks[Authority][t] \/ LeavesFinal(t, id)'
  PROVE  IssuedAt(id, th, c)'
  <1>1. \A t \in Slots : LeavesFinal(t, id)'
    BY DEF IssuedAt, LeavesFinal
  <1>2. /\ Sole(Authority, id, "issue-credential")'
        /\ (ContentOf(Authority, id, "issue-credential") = c)'
    BY DEF IssuedAt, Sole, ContentOf
  <1> QED
    BY <1>1, <1>2 DEF IssuedAt

\* Tasks move, and nothing is written.
LEMMA MovesAreOnward ==
  ASSUME UNCHANGED <<exchanges, stored, wallet>>,
         \A id \in RecordIds, t \in Slots : \A th, c :
           IssuedAt(id, th, c) => tasks'[Authority][t] = tasks[Authority][t] \/ LeavesFinal(t, id)'
  PROVE  Onward
  <1>1. ASSUME NEW id \in RecordIds, NEW th, NEW c, IssuedAt(id, th, c) PROVE IssuedAt(id, th, c)'
    BY <1>1, IssuedStays
  <1> QED
    BY <1>1 DEF Onward, InWallet

\* The message that a task has saved with an exchange stays.
SavedStays(a, t) ==
  LET k == tasks[a][t] IN
  k.pc = "updateResponse" /\ k.kind = "issue-credential" /\ exchanges'[a][k.id] # None =>
    /\ exchanges[a][k.id] # None
    /\ stored'[a][k.id]["issue-credential"] = stored[a][k.id]["issue-credential"]

LEMMA SameTaskSays ==
  ASSUME ExchangeTypes, Onward, NEW a \in Agents, NEW t \in Slots, TaskSays(a, t),
         tasks'[a][t] = tasks[a][t], SavedStays(a, t)
  PROVE  TaskSays(a, t)'
  <1> DEFINE k == tasks[a][t]
  <1>1. Active(k) => k.id \in RecordIds
    BY DEF ExchangeTypes, TypedTask, Active
  <1>2. /\ \A th, c : Issued(th, c) => Issued(th, c)'
        /\ \A th : Held(th) => Held(th)'
        /\ \A kind, th, c : Tells(kind, th, c) => Tells(kind, th, c)'
        /\ \A id \in RecordIds : \A th, state : Says(a, id, th, state) => Says(a, id, th, state)'
    BY OnwardSays
  <1> DEFINE th == k.ex.thread
             c == k.content
             kind == k.kind
             state == k.ex.state
             id == k.id
  <1>3. /\ tasks'[a][t].ex.thread = th /\ tasks'[a][t].content = c /\ tasks'[a][t].kind = kind
        /\ tasks'[a][t].ex.state = state /\ tasks'[a][t].id = id /\ tasks'[a][t].pc = k.pc
    OBVIOUS
  <1>4. ASSUME NEW x, NEW y, NEW z, NEW w, NEW i, x = th, y = c, z = kind, w = state, i = id
        PROVE  /\ k.pc = "storeCredential" => Issued(x, y)'
               /\ k.pc # "storeCredential" /\ Active(k) => Says(a, i, x, w)'
               /\ k.pc = "sendResponse" => Tells(z, x, y)'
               /\ k.pc = "updateResponse" /\ z = "credential-ack" => Held(x)'
    BY <1>1, <1>2, <1>4 DEF TaskSays
  <1>5. SavedStays(a, t) => (k.pc = "updateResponse" /\ k.kind = "issue-credential"
            /\ exchanges'[a][id] # None =>
              Sole(a, id, "issue-credential")' /\ ContentOf(a, id, "issue-credential")' = c)
    BY DEF TaskSays, SavedStays, Sole, ContentOf
  <1> QED
    BY <1>3, <1>4, <1>5 DEF TaskSays, Active

LEMMA StepKeepsIssued ==
  ASSUME ExchangeTypes, IssuedInv, Onward,
         \A m \in net' : m \in net \/ (Tells(m.kind, m.thread, m.content))',
         \A b \in Agents, i \in RecordIds :
           exchanges'[b][i] = exchanges[b][i] \/ RecordSays(b, i)',
         \A b \in Agents, u \in Slots :
           (tasks'[b][u] = tasks[b][u] /\ SavedStays(b, u)) \/ TaskSays(b, u)'
  PROVE  IssuedInv'
  <1>1. ASSUME NEW m \in net' PROVE (Tells(m.kind, m.thread, m.content))'
    <2>1. CASE m \in net
      <3>1. Tells(m.kind, m.thread, m.content)
        BY <2>1 DEF IssuedInv
      <3> QED
        BY <3>1, OnwardSays
    <2> QED
      BY <2>1
  <1>2. ASSUME NEW b \in Agents, NEW i \in RecordIds PROVE RecordSays(b, i)'
    <2>1. CASE exchanges'[b][i] = exchanges[b][i]
      <3> SUFFICES ASSUME exchanges[b][i] # None
                   PROVE  Says(b, i, exchanges[b][i].thread, exchanges[b][i].state)'
        BY <2>1 DEF RecordSays
      <3>1. Says(b, i, exchanges[b][i].thread, exchanges[b][i].state)
        BY DEF IssuedInv, RecordSays
      <3>2. ASSUME NEW th, NEW state, th = exchanges[b][i].thread, state = exchanges[b][i].state
            PROVE  Says(b, i, th, state)'
        BY <3>1, <3>2, OnwardSays
      <3> QED
        BY <2>1, <3>2
    <2> QED
      BY <2>1
  <1>3. ASSUME NEW b \in Agents, NEW u \in Slots PROVE TaskSays(b, u)'
    BY <1>3, SameTaskSays DEF IssuedInv
  <1> QED
    BY <1>1, <1>2, <1>3 DEF IssuedInv

LEMMA SilentSays ==
  ASSUME NEW a, NEW t, tasks'[a][t].pc \in {"idle", "deleteMessages"}
  PROVE  TaskSays(a, t)'
  BY DEF TaskSays, Active

LEMMA SameSaved ==
  ASSUME UNCHANGED <<exchanges, stored>>
  PROVE  \A a, t : SavedStays(a, t)
  BY DEF SavedStays

\* A task moves, and nothing is written.
LEMMA MoveKeepsIssued ==
  ASSUME ExchangeTypes, IssuedInv, Onward, NEW a \in Agents, NEW t \in Slots, OnlyTask(a, t),
         UNCHANGED <<exchanges, stored>>, TaskSays(a, t)',
         \A m \in net' : m \in net \/ (Tells(m.kind, m.thread, m.content))'
  PROVE  IssuedInv'
  <1>1. \A b \in Agents, u \in Slots :
          (tasks'[b][u] = tasks[b][u] /\ SavedStays(b, u)) \/ TaskSays(b, u)'
    BY SameSaved DEF OnlyTask
  <1> QED
    BY <1>1, StepKeepsIssued

\* Tasks end, and something may be sent.
LEMMA RestIsOnward ==
  ASSUME UNCHANGED <<exchanges, stored, wallet>>,
         \A b \in Agents, u \in Slots : tasks'[b][u] = tasks[b][u] \/ tasks'[b][u].pc = "idle"
  PROVE  Onward
  <1>1. \A id \in RecordIds, t \in Slots :
          tasks'[Authority][t] = tasks[Authority][t] \/ LeavesFinal(t, id)'
    BY DEF LeavesFinal, Agents
  <1> QED
    BY <1>1, MovesAreOnward

LEMMA RestKeepsIssued ==
  ASSUME ExchangeTypes, IssuedInv, UNCHANGED <<exchanges, stored, wallet>>,
         \A b \in Agents, u \in Slots : tasks'[b][u] = tasks[b][u] \/ tasks'[b][u].pc = "idle",
         \A m \in net' : m \in net \/ (Tells(m.kind, m.thread, m.content))'
  PROVE  IssuedInv'
  <1>1. \A b \in Agents, u \in Slots :
          (tasks'[b][u] = tasks[b][u] /\ SavedStays(b, u)) \/ TaskSays(b, u)'
    BY SameSaved, SilentSays
  <1> QED
    BY <1>1, RestIsOnward, StepKeepsIssued

LEMMA ReportTells ==
  ASSUME NEW a, NEW id, net' \in {net, net \cup {Report(a, id)}}
  PROVE  \A m \in net' : m \in net \/ (Tells(m.kind, m.thread, m.content))'
  BY DEF Report, Tells

LEMMA SendingKeepsIssued ==
  ASSUME ExchangeTypes, IssuedInv, NEW a \in Agents, NEW t \in Slots, SendResponse(a, t)
  PROVE  IssuedInv'
  <1> DEFINE k == tasks[a][t]
  <1>1. /\ tasks'[a][t].pc = "idle" /\ OnlyTask(a, t) /\ k.pc = "sendResponse"
        /\ UNCHANGED <<exchanges, stored, wallet>> /\ net' = net \cup {Sent(a, k)}
    BY StoppedTask DEF SendResponse, Sent, At
  <1>2. \A b \in Agents, u \in Slots : tasks'[b][u] = tasks[b][u] \/ tasks'[b][u].pc = "idle"
    BY <1>1 DEF OnlyTask
  <1>3. Onward
    BY <1>1, <1>2, RestIsOnward
  <1>4. Tells(k.kind, k.ex.thread, k.content)
    BY <1>1 DEF IssuedInv, TaskSays
  <1>5. ASSUME NEW m \in net', m \notin net PROVE (Tells(m.kind, m.thread, m.content))'
    <2>1. m.kind = k.kind /\ m.thread = k.ex.thread /\ m.content = k.content
      BY <1>1, <1>5 DEF Sent
    <2>2. Tells(m.kind, m.thread, m.content)
      BY <1>4, <2>1
    <2> QED
      BY <1>3, <2>2, OnwardSays
  <1> QED
    BY <1>1, <1>2, <1>5, RestKeepsIssued

\* A task that works on an exchange in which a credential was issued saves no message.
LEMMA WorksAfterIssue ==
  ASSUME NEW id, NEW th, NEW c, IssuedAt(id, th, c), NEW t \in Slots,
         tasks[Authority][t].pc \in {"storeCredential", "saveReceived", "decide", "saveResponse"}
  PROVE  tasks[Authority][t].id # id
  BY DEF IssuedAt, LeavesFinal

LEMMA GoingOnLeavesFinal ==
  ASSUME NEW id, NEW th, NEW c, IssuedAt(id, th, c), NEW t \in Slots, GoesOn(Authority, t),
         tasks[Authority][t].pc \in {"storeCredential", "saveReceived", "decide", "saveResponse"}
  PROVE  LeavesFinal(t, id)'
  <1>1. tasks'[Authority][t].id # id
    BY WorksAfterIssue DEF GoesOn
  <1> QED
    BY <1>1 DEF LeavesFinal

LEMMA SavingIsOnward ==
  ASSUME ExchangeTypes, NEW a \in Agents, NEW t \in Slots, SaveStep(a, t)
  PROVE  Onward
  <1> DEFINE k == tasks[a][t]
  <1>1. /\ GoesOn(a, t) /\ OnlyTask(a, t) /\ k.pc \in {"saveReceived", "saveResponse"}
        /\ OnlyMessages(a, k.id, k.kind) /\ UNCHANGED <<exchanges, wallet>>
    BY SavedTask, SavedMessage DEF SavesAndGoesOn, SavesMessage, GoesOn, SaveStep
  <1>2. ASSUME NEW id \in RecordIds, NEW th, NEW c, IssuedAt(id, th, c) PROVE IssuedAt(id, th, c)'
    <2>1. a # Authority \/ k.id # id
      BY <1>1, <1>2, WorksAfterIssue
    <2>2. stored'[Authority][id]["issue-credential"] = stored[Authority][id]["issue-credential"]
      BY <1>1, <2>1 DEF OnlyMessages, Agents, StoredKinds
    <2>3. \A u \in Slots : tasks'[Authority][u] = tasks[Authority][u] \/ LeavesFinal(u, id)'
      BY <1>1, <1>2, GoingOnLeavesFinal DEF OnlyTask, Agents
    <2> QED
      BY <1>1, <1>2, <2>2, <2>3, IssuedStays
  <1> QED
    BY <1>1, <1>2 DEF Onward, InWallet

LEMMA SavingKeepsIssued ==
  ASSUME ExchangeTypes, ExchangeAssumption, TurnsInv, SavedInv, IssuedInv,
         NEW a \in Agents, NEW t \in Slots, SaveStep(a, t)
  PROVE  IssuedInv'
  <1> DEFINE k == tasks[a][t]
  <1>0. SavesAndGoesOn(a, t) /\ SavesMessage(a, t)
    BY SavedTask, SavedMessage
  <1>1. /\ SavesAndGoesOn(a, t) /\ GoesOn(a, t) /\ OnlyTask(a, t)
        /\ k.pc \in {"saveReceived", "saveResponse"}
        /\ OnlyMessages(a, k.id, k.kind) /\ UNCHANGED <<exchanges, wallet, net>>
    BY <1>0 DEF SavesAndGoesOn, SavesMessage, GoesOn, SaveStep
  <1>2. Onward
    BY SavingIsOnward
  <1>3. TaskSays(a, t)'
    <2> DEFINE task == tasks'[a][t]
    <2>1. /\ task.pc \in {"updateReceived", "updateResponse"} /\ task.ex = k.ex /\ task.id = k.id
          /\ task.kind = k.kind /\ task.content = k.content /\ task.new = k.new
          /\ k.kind \in StoredKinds /\ k.id \in RecordIds
          /\ task.pc = "updateResponse" <=> k.pc = "saveResponse"
      BY <1>1 DEF SavesAndGoesOn, GoesOn
    <2>2. TaskSays(a, t)
      BY DEF IssuedInv
    <2>3. ASSUME NEW th, NEW state, NEW id \in RecordIds,
                 th = k.ex.thread, state = k.ex.state, id = k.id
          PROVE  Says(a, id, th, state)'
      <3>1. Says(a, id, th, state)
        BY <1>1, <2>2, <2>3 DEF TaskSays, Active
      <3> QED
        BY <1>2, <3>1, OnwardSays
    <2>4. Says(a, k.id, k.ex.thread, k.ex.state)'
      BY <2>1, <2>3
    <2>5. k.kind = "issue-credential" =>
            /\ Sole(a, k.id, "issue-credential")'
            /\ ContentOf(a, k.id, "issue-credential")' = task.content
      BY <2>1, SavedSole
    <2>6. k.kind # "credential-ack"
      BY <2>1 DEF StoredKinds
    <2> QED
      BY <1>1, <2>1, <2>2, <2>4, <2>5, <2>6 DEF TaskSays, Active
  <1>4. ASSUME NEW b \in Agents, NEW u \in Slots, <<b, u>> # <<a, t>> PROVE SavedStays(b, u)
    <2> SUFFICES ASSUME At(b, u, "updateResponse"), b = a, tasks[b][u].id = k.id PROVE FALSE
      <3>1. tasks[b][u].pc = "updateResponse" => tasks[b][u].id \in RecordIds
        BY DEF ExchangeTypes, TypedTask
      <3> QED
        BY <1>1, <3>1 DEF SavedStays, OnlyMessages, At, StoredKinds
    <2>1. Engaged(a, u) /\ Engaged(a, t)
      <3>1. StepsOfTask(a, t)
        BY DEF TurnsInv
      <3> QED
        BY <1>1, <3>1, RolesOfSlots DEF Engaged, StepsOfTask, Receiving, At
    <2> QED
      BY <1>4, <2>1 DEF TurnsInv, OneWorks
  <1>5. \A b \in Agents, u \in Slots :
          (tasks'[b][u] = tasks[b][u] /\ SavedStays(b, u)) \/ TaskSays(b, u)'
    BY <1>1, <1>3, <1>4 DEF OnlyTask
  <1> QED
    BY <1>1, <1>2, <1>5, StepKeepsIssued

\* Messages go of exchanges that are gone.
LEMMA DeletingKeepsIssued ==
  ASSUME ExchangeTypes, IdsInv, IssuedInv, NEW a \in Agents, NEW t \in Slots, NEW x \in StoredKinds,
         DeleteStep(a, t, x)
  PROVE  IssuedInv'
  <1> DEFINE gone == tasks[a][t].id
  <1>1. /\ OnlyMessages(a, gone, x) /\ UNCHANGED <<exchanges, wallet, net, tasks>>
        /\ exchanges[a][gone] = None
    BY DeletedMessage DEF DeletesMessage, IdsInv, DeletedStays
  <1>2. Onward
    <2>1. ASSUME NEW id \in RecordIds, NEW th, NEW c, IssuedAt(id, th, c)
          PROVE  IssuedAt(id, th, c)'
      <3>1. <<Authority, id>> # <<a, gone>>
        BY <1>1, <2>1 DEF IssuedAt
      <3>2. stored'[Authority][id]["issue-credential"] = stored[Authority][id]["issue-credential"]
        BY <1>1, <3>1 DEF OnlyMessages, Agents, StoredKinds
      <3> QED
        BY <1>1, <2>1, <3>2, IssuedStays
    <2> QED
      BY <1>1, <2>1 DEF Onward, InWallet
  <1>3. ASSUME NEW b \in Agents, NEW u \in Slots PROVE SavedStays(b, u)
    <2>1. tasks[b][u].pc = "updateResponse" => tasks[b][u].id \in RecordIds
      BY DEF ExchangeTypes, TypedTask
    <2> QED
      BY <1>1, <2>1 DEF SavedStays, OnlyMessages, StoredKinds
  <1> QED
    BY <1>1, <1>2, <1>3, StepKeepsIssued

\* The holder stores what was issued.
LEMMA StoringKeepsIssued ==
  ASSUME ExchangeTypes, ExchangeAssumption, RolesInv, ContentInv, IssuedInv,
         NEW a \in Agents, NEW h \in Handlers, StoreCredential(a, h)
  PROVE  IssuedInv'
  <1> DEFINE k == tasks[a][h]
             task == tasks'[a][h]
  <1>1. /\ StoresCredential(a, h) /\ OnlyTask(a, h) /\ UNCHANGED <<exchanges, stored, net>>
        /\ h \in Slots /\ k.id \in RecordIds /\ k.content \in Contents
        /\ k.pc = "storeCredential" /\ task.pc = "saveReceived"
        /\ task.id = k.id /\ task.ex.thread = k.ex.thread /\ task.ex.state = k.ex.state
        /\ task.ex.connected = k.ex.connected
        /\ wallet[a] \in Seq(Contents) /\ wallet'[a] = Append(wallet[a], k.content)
    BY StoredTask DEF StoresCredential, GoesOn
  <1>2. a = Holder /\ a # Authority
    <2>1. k.kind = "issue-credential" /\ IsFor(a, k.kind)
      BY <1>1 DEF ContentInv, TaskStands, ReceivesCompared, RolesInv, RolesOfTasks, RoleOfTask
    <2> QED
      BY <2>1 DEF IsFor, ForHolder, ExchangeAssumption
  <1>3. \A n \in DOMAIN wallet[a] : n \in DOMAIN wallet'[a] /\ wallet'[a][n] = wallet[a][n]
    BY <1>1
  <1>4. Onward
    <2>1. ASSUME NEW id \in RecordIds, NEW th, NEW c, IssuedAt(id, th, c)
          PROVE  IssuedAt(id, th, c)'
      <3>1. \A u \in Slots : tasks'[Authority][u] = tasks[Authority][u]
        BY <1>1, <1>2 DEF OnlyTask, Agents
      <3> QED
        BY <1>1, <2>1, <3>1, IssuedStays
    <2> QED
      BY <1>2, <1>3, <2>1 DEF Onward, InWallet
  <1>5. TaskSays(a, h)'
    <2>1. TaskSays(a, h)
      BY <1>1 DEF IssuedInv
    <2>2. ASSUME NEW th, NEW c \in Contents, th = k.ex.thread, c = k.content
          PROVE  Held(th)'
      <3>1. Issued(th, c)
        BY <1>1, <2>1, <2>2 DEF TaskSays
      <3>2. Issued(th, c)'
        BY <1>4, <3>1, OnwardSays
      <3>3. InWallet(c)'
        <4>1. Len(wallet'[a]) \in DOMAIN wallet'[a] /\ wallet'[a][Len(wallet'[a])] = c
          BY <1>1, <2>2
        <4> QED
          BY <1>2, <4>1 DEF InWallet
      <3> QED
        BY <3>2, <3>3 DEF Held, HeldAt, Issued
    <2>3. Held(k.ex.thread)'
      BY <1>1, <2>2
    <2>4. Says(a, k.id, k.ex.thread, k.ex.state)'
      BY <1>2, <2>3 DEF Says
    <2> QED
      BY <1>1, <2>1, <2>4 DEF TaskSays, Active
  <1> QED
    BY <1>1, <1>4, <1>5, MoveKeepsIssued

\* What a handler has received is not what the issuer's exchange ends with, but an
\* acknowledgement.
LEMMA FinalReceived ==
  ASSUME NEW kind \in StoredKinds, NEW state \in Final
  PROVE  <<kind, state>> \notin Received
  BY DEF StoredKinds, Final, Received, Openings

\* The record of an exchange in which a credential was issued is written in a final state.
LEMMA WritingIsOnward ==
  ASSUME ExchangeTypes, IdsInv, StatesInv, NEW a \in Agents, NEW t \in Slots, UpdateStep(a, t)
  PROVE  Onward
  <1> DEFINE k == tasks[a][t]
  <1>0. WritesRecord(a, t) /\ MovesOn(a, t)
    BY UpdatedRecord, UpdatedTask
  <1>1. /\ k.pc \in {"updateReceived", "updateResponse", "updateOnly"} /\ k.id \in RecordIds
        /\ k.ex \in ExchangeRecordType /\ exchanges'[a][k.id] = k.ex /\ OnlyRecord(a, k.id)
        /\ OnlyTask(a, t) /\ UNCHANGED <<stored, wallet>>
    BY <1>0 DEF WritesRecord, MovesOn
  <1>2. ASSUME NEW id \in RecordIds, NEW th, NEW c, IssuedAt(id, th, c) PROVE IssuedAt(id, th, c)'
    <2>1. CASE <<Authority, id>> = <<a, k.id>>
      <3>1. /\ k.ex.state \in Final /\ k.ex.connected /\ exchanges[a][k.id] # None
            /\ exchanges[a][k.id].thread = th
        BY <1>1, <1>2, <2>1 DEF IssuedAt, LeavesFinal
      <3>2. Holding(k) /\ k.ex.thread = th
        <4>1. ~Creating(k)
          BY <3>1 DEF IdsInv, CreatingKeepsId
        <4>2. Holding(k)
          BY <1>1, <4>1 DEF Holding
        <4> QED
          BY <3>1, <4>2 DEF IdsInv, HoldingKeepsThread
      <3>3. k.ex # None
        BY <1>1, NoneIsNoRecord
      <3>4. tasks'[a][t].pc # "decide"
        <4>1. KindTells(a, t)
          BY DEF StatesInv
        <4> QED
          BY <1>0, <3>1, <4>1, FinalReceived DEF MovesOn, KindTells, Receiving
      <3>5. LeavesFinal(t, id)'
        BY <1>0, <2>1, <3>4 DEF MovesOn, LeavesFinal
      <3>6. \A u \in Slots : tasks'[Authority][u] = tasks[Authority][u] \/ LeavesFinal(u, id)'
        BY <1>1, <2>1, <3>5 DEF OnlyTask, Agents
      <3> QED
        BY <1>1, <1>2, <2>1, <3>1, <3>2, <3>3, <3>6, IssuedStays
    <2>2. CASE <<Authority, id>> # <<a, k.id>>
      <3>1. exchanges'[Authority][id] = exchanges[Authority][id]
        BY <1>1, <2>2 DEF OnlyRecord, Agents
      <3>2. a = Authority => LeavesFinal(t, id)'
        BY <1>0, <2>2 DEF MovesOn, LeavesFinal
      <3>3. \A u \in Slots : tasks'[Authority][u] = tasks[Authority][u] \/ LeavesFinal(u, id)'
        BY <1>1, <3>2 DEF OnlyTask, Agents
      <3> QED
        BY <1>1, <1>2, <3>1, <3>3, IssuedStays
    <2> QED
      BY <2>1, <2>2
  <1> QED
    BY <1>1, <1>2 DEF Onward, InWallet

\* The other tasks of an agent do not work on an exchange that a task answers in, unless to
\* abandon it.
LEMMA OthersAbandon ==
  ASSUME ExchangeTypes, ExchangeAssumption, IdsInv, TurnsInv, NEW a \in Agents, NEW t \in Slots,
         At(a, t, "updateResponse"), exchanges[a][tasks[a][t].id] # None,
         NEW u \in Slots, u # t, tasks[a][u].id = tasks[a][t].id
  PROVE  \/ tasks[a][u].pc \in {"idle", "sendResponse"}
         \/ u \in Handlers /\ At(a, u, "updateOnly") /\ tasks[a][u].ex.state = "abandoned"
  <1>1. Engaged(a, t)
    BY DEF Engaged, At
  <1>2. ~Engaged(a, u) /\ StepsOfTask(a, u) /\ DeletedStays(a, u)
    BY <1>1 DEF TurnsInv, OneWorks, IdsInv
  <1>3. tasks[a][u].pc # "deleteMessages" /\ tasks[a][u].pc \in Steps
    BY <1>2 DEF DeletedStays, At, ExchangeTypes, TypeOK, TaskType
  <1> QED
    BY <1>2, <1>3, RolesOfSlots DEF Engaged, StepsOfTask, Receiving, Steps, At

\* The issuer's record says that it has issued.
LEMMA RecordIssues ==
  ASSUME ExchangeTypes, ExchangeAssumption, IdsInv, RolesInv, TurnsInv, IssuedInv,
         NEW a \in Agents, NEW t \in Slots, UpdateStep(a, t), At(a, t, "updateResponse"),
         tasks[a][t].kind = "issue-credential",
         NEW th, NEW c, th = tasks[a][t].ex.thread, c = tasks[a][t].content
  PROVE  Issued(th, c)'
  <1> DEFINE k == tasks[a][t]
  <1>0. WritesRecord(a, t) /\ MovesOn(a, t)
    BY UpdatedRecord, UpdatedTask
  <1>1. /\ k.pc = "updateResponse" /\ k.id \in RecordIds /\ k.ex \in ExchangeRecordType
        /\ exchanges'[a][k.id] = k.ex /\ OnlyTask(a, t) /\ UNCHANGED stored
        /\ k.new \/ exchanges[a][k.id] # None
        /\ tasks'[a][t].pc \in {"idle", "decide", "sendResponse"} /\ tasks'[a][t].pc # "decide"
    BY <1>0 DEF WritesRecord, MovesOn, At
  <1>2. a = Authority
    <2>1. ~IsFor(a, "issue-credential")
      BY <1>1 DEF RolesInv, RolesOfTasks, RoleOfTask
    <2> QED
      BY <2>1 DEF IsFor, ForHolder, Agents
  <1>3. TaskSays(a, t)
    BY DEF IssuedInv
  <1>4. /\ k.ex.state = "credential-issued" /\ k.ex.connected /\ exchanges[a][k.id] # None
        /\ Sole(a, k.id, "issue-credential") /\ ContentOf(a, k.id, "issue-credential") = c
    BY <1>1, <1>3 DEF TaskSays
  <1>5. ASSUME NEW id \in RecordIds, id = k.id PROVE IssuedAt(id, th, c)'
    <2>1. /\ Sole(a, id, "issue-credential")'
          /\ (ContentOf(a, id, "issue-credential") = c)'
      BY <1>1, <1>4, <1>5 DEF Sole, ContentOf
    <2>2. ASSUME NEW u \in Slots PROVE LeavesFinal(u, id)'
      <3>1. CASE u = t
        BY <1>1, <1>2, <3>1 DEF LeavesFinal
      <3>2. CASE u # t
        <4>1. tasks'[a][u] = tasks[a][u]
          BY <1>1, <3>2 DEF OnlyTask
        <4>2. tasks[a][u].id = k.id =>
                \/ tasks[a][u].pc \in {"idle", "sendResponse"}
                \/ u \in Handlers /\ At(a, u, "updateOnly") /\ tasks[a][u].ex.state = "abandoned"
          BY <1>4, <3>2, OthersAbandon
        <4>3. u \in Handlers /\ At(a, u, "updateOnly") => tasks[a][u].ex.connected
          BY DEF IssuedInv, TaskSays, Active, At
        <4> QED
          BY <1>2, <1>5, <4>1, <4>2, <4>3 DEF LeavesFinal, At, Final
      <3> QED
        BY <3>1, <3>2
    <2>3. exchanges'[a][id] # None
      BY <1>1, <1>5, NoneIsNoRecord
    <2> QED
      BY <1>1, <1>2, <1>4, <1>5, <2>1, <2>2, <2>3 DEF IssuedAt, Final
  <1> QED
    BY <1>1, <1>5 DEF Issued

LEMMA WritingKeepsIssued ==
  ASSUME ExchangeTypes, ExchangeAssumption, IdsInv, RolesInv, TurnsInv, StatesInv, IssuedInv,
         NEW a \in Agents, NEW t \in Slots, UpdateStep(a, t)
  PROVE  IssuedInv'
  <1> DEFINE k == tasks[a][t]
  <1>0. WritesRecord(a, t) /\ MovesOn(a, t)
    BY UpdatedRecord, UpdatedTask
  <1>1. /\ k.pc \in {"updateReceived", "updateResponse", "updateOnly"} /\ k.id \in RecordIds
        /\ exchanges'[a][k.id] = k.ex /\ OnlyRecord(a, k.id) /\ OnlyTask(a, t)
        /\ k.new \/ exchanges[a][k.id] # None
        /\ UNCHANGED <<stored, wallet, net>>
    BY <1>0 DEF WritesRecord, MovesOn
  <1>2. Onward
    BY WritingIsOnward
  <1>3. TaskSays(a, t)
    BY DEF IssuedInv
  <1>4. ASSUME NEW id \in RecordIds, NEW th, NEW state,
               id = k.id, th = k.ex.thread, state = k.ex.state
        PROVE  Says(a, id, th, state)'
    <2>1. Says(a, id, th, state)
      BY <1>1, <1>3, <1>4 DEF TaskSays, Active
    <2> QED
      BY <1>2, <2>1, OnwardSays
  <1>5. ASSUME NEW b \in Agents, NEW i \in RecordIds
        PROVE  exchanges'[b][i] = exchanges[b][i] \/ RecordSays(b, i)'
    <2>1. CASE <<b, i>> = <<a, k.id>>
      BY <1>1, <1>4, <2>1 DEF RecordSays
    <2>2. CASE <<b, i>> # <<a, k.id>>
      BY <1>1, <2>2 DEF OnlyRecord
    <2> QED
      BY <2>1, <2>2
  <1>6. TaskSays(a, t)'
    <2>1. CASE tasks'[a][t].pc = "idle"
      BY <2>1, SilentSays
    <2>2. CASE tasks'[a][t].pc = "decide"
      <3>1. /\ tasks'[a][t].id = k.id /\ tasks'[a][t].ex = k.ex
        BY <1>0, <2>2 DEF MovesOn
      <3>2. t \in Handlers => k.ex.connected
        BY <1>1, <1>3 DEF TaskSays, Active
      <3> QED
        BY <1>1, <1>4, <2>2, <3>1, <3>2 DEF TaskSays
    <2>3. CASE tasks'[a][t].pc = "sendResponse"
      <3>1. /\ tasks'[a][t].id = k.id /\ tasks'[a][t].ex = k.ex /\ tasks'[a][t].kind = k.kind
            /\ tasks'[a][t].content = k.content /\ k.pc = "updateResponse"
        BY <1>0, <2>3 DEF MovesOn
      <3>2. t \in Handlers => k.ex.connected
        BY <1>1, <1>3 DEF TaskSays, Active
      <3>3. ASSUME NEW th, NEW c, NEW kind, th = k.ex.thread, c = k.content, kind = k.kind
            PROVE  Tells(kind, th, c)'
        <4>1. kind = "issue-credential" => Issued(th, c)'
          BY <3>1, <3>3, RecordIssues DEF At
        <4>2. kind = "credential-ack" => Held(th)'
          <5>1. kind = "credential-ack" => Held(th)
            BY <1>3, <3>1, <3>3 DEF TaskSays
          <5> QED
            BY <1>2, <5>1, OnwardSays
        <4> QED
          BY <4>1, <4>2 DEF Tells
      <3> QED
        BY <1>1, <1>4, <2>3, <3>1, <3>2, <3>3 DEF TaskSays
    <2> QED
      BY <1>0, <2>1, <2>2, <2>3 DEF MovesOn
  <1>7. ASSUME NEW b \in Agents, NEW u \in Slots, <<b, u>> # <<a, t>> PROVE SavedStays(b, u)
    <2> SUFFICES ASSUME tasks[b][u].pc = "updateResponse", exchanges'[b][tasks[b][u].id] # None
                 PROVE  exchanges[b][tasks[b][u].id] # None
      BY <1>1 DEF SavedStays
    <2>1. tasks[b][u].id \in RecordIds
      BY DEF ExchangeTypes, TypedTask
    <2>2. CASE <<b, tasks[b][u].id>> # <<a, k.id>>
      BY <1>1, <2>1, <2>2 DEF OnlyRecord
    <2>3. CASE <<b, tasks[b][u].id>> = <<a, k.id>>
      <3>1. ~Creating(k)
        BY <1>7, <2>3 DEF IdsInv, CreatingKeepsId, At
      <3>2. ~k.new
        BY <1>1, <3>1 DEF Creating, IdsInv, FoundBefore
      <3> QED
        BY <1>1, <2>3, <3>2
    <2> QED
      BY <2>2, <2>3
  <1>8. \A b \in Agents, u \in Slots :
          (tasks'[b][u] = tasks[b][u] /\ SavedStays(b, u)) \/ TaskSays(b, u)'
    BY <1>1, <1>6, <1>7 DEF OnlyTask
  <1> QED
    BY <1>1, <1>2, <1>5, <1>8, StepKeepsIssued

\* A handler answers a credential with an acknowledgement, and nothing else with one.
LEMMA AcknowledgingReplies ==
  ASSUME NEW kind, NEW answer, NEW after, <<kind, answer, after>> \in Replies
  PROVE  /\ answer = "credential-ack" => kind = "issue-credential"
         /\ answer = "issue-credential" => after = "credential-issued"
         /\ answer = "issue-credential" => FirstWrite(answer) = "saveResponse"
         /\ after \in {"credential-received", "done"} =>
              kind = "issue-credential" \/ Family(kind) = "present-proof"
  BY DEF Replies, Family, FirstWrite, StoredKinds

LEMMA DecidingKeepsIssued ==
  ASSUME ExchangeTypes, ExchangeAssumption, IdsInv, RolesInv, StatesInv, IssuedInv,
         NEW a \in Agents, NEW h \in Handlers, NEW answer \in Answers, DecideStep(a, h, answer)
  PROVE  IssuedInv'
  <1> DEFINE k == tasks[a][h]
             task == tasks'[a][h]
  <1>0. AnswersWith(a, h, answer)
    BY DecidedTask
  <1>1. /\ GoesOn(a, h) /\ OnlyTask(a, h) /\ UNCHANGED <<exchanges, stored, wallet, net>>
        /\ h \in Slots /\ k.id \in RecordIds /\ k.pc = "decide"
        /\ task.pc = FirstWrite(answer.kind) /\ task.pc \in {"saveResponse", "updateResponse"}
        /\ task.new = k.new /\ task.id = k.id /\ task.kind = answer.kind
        /\ task.ex.state = answer.state /\ task.ex.thread = k.ex.thread
        /\ task.ex.connected = k.ex.connected
    BY <1>0 DEF AnswersWith, GoesOn
  <1>2. <<k.kind, answer.kind, answer.state>> \in Replies
    BY DEF DecideStep
  <1>3. Onward
    <2>1. \A id \in RecordIds, t \in Slots : \A th, c :
            IssuedAt(id, th, c) => tasks'[Authority][t] = tasks[Authority][t] \/ LeavesFinal(t, id)'
      BY <1>1, GoingOnLeavesFinal DEF OnlyTask, Agents
    <2> QED
      BY <1>1, <2>1, MovesAreOnward
  <1>4. TaskSays(a, h) /\ KindTells(a, h) /\ RoleOfTask(a, k)
    BY <1>1 DEF IssuedInv, StatesInv, RolesInv, RolesOfTasks
  <1>5. k.kind = "issue-credential" => a = Holder /\ k.ex.state = "credential-received"
    <2>1. IsFor(a, k.kind) /\ <<k.kind, k.ex.state>> \in Received
      BY <1>1, <1>4 DEF RoleOfTask, KindTells
    <2> QED
      BY <2>1 DEF IsFor, ForHolder, Received, Openings
  <1>6. ASSUME NEW th, th = k.ex.thread, k.kind = "issue-credential" PROVE Held(th)'
    <2>1. Family(k.kind) = ProtocolOf[th]
      BY <1>1, <1>4, <1>6 DEF RoleOfTask, Active
    <2>2. Held(th)
      BY <1>1, <1>4, <1>5, <1>6, <2>1 DEF TaskSays, Active, Says, Issuing, Family, ExchangeAssumption
    <2> QED
      BY <1>3, <2>2, OnwardSays
  <1>7. ASSUME NEW id, NEW th, NEW state, id = k.id, th = k.ex.thread, state = answer.state
        PROVE  Says(a, id, th, state)'
    <2> SUFFICES ASSUME Issuing(th), state \in {"credential-received", "done"}
                 PROVE  k.kind = "issue-credential"
      BY <1>5, <1>6, <1>7 DEF Says, ExchangeAssumption
    <2>1. Family(k.kind) = ProtocolOf[th]
      BY <1>1, <1>4, <1>7 DEF RoleOfTask, Active
    <2> QED
      BY <1>2, <1>7, <2>1, AcknowledgingReplies DEF Issuing
  <1>8. TaskSays(a, h)'
    <2>1. ~k.new
      BY <1>1 DEF IdsInv, FoundBefore
    <2>2. k.ex.connected
      BY <1>1, <1>4 DEF TaskSays, Active
    <2> QED
      BY <1>1, <1>2, <1>6, <1>7, <2>1, <2>2, AcknowledgingReplies DEF TaskSays
  <1> QED
    BY <1>1, <1>3, <1>8, MoveKeepsIssued

\* A task takes up an exchange: in one in which a credential was issued, to end it.
LEMMA TakingUpIsOnward ==
  ASSUME NEW a \in Agents, NEW t \in Slots, NEW id \in RecordIds, TakesUp(a, t, id),
         a = Authority /\ exchanges[a][id].state \in Final /\ exchanges[a][id].connected =>
           /\ tasks'[a][t].pc \in {"updateReceived", "updateResponse", "updateOnly"}
           /\ tasks'[a][t].ex.state \in Final
  PROVE  Onward
  <1>1. /\ OnlyTask(a, t) /\ UNCHANGED <<exchanges, stored, wallet>>
        /\ tasks'[a][t].id = id /\ tasks'[a][t].ex.connected = exchanges[a][id].connected
    BY DEF TakesUp
  <1>2. ASSUME NEW i \in RecordIds, NEW th, NEW c, IssuedAt(i, th, c), a = Authority
        PROVE  LeavesFinal(t, i)'
    BY <1>1, <1>2 DEF IssuedAt, LeavesFinal
  <1>3. \A i \in RecordIds, u \in Slots : \A th, c :
          IssuedAt(i, th, c) => tasks'[Authority][u] = tasks[Authority][u] \/ LeavesFinal(u, i)'
    BY <1>1, <1>2 DEF OnlyTask, Agents
  <1> QED
    BY <1>1, <1>3, MovesAreOnward

\* A task makes an exchange: another than those that exist.
LEMMA MakingIsOnward ==
  ASSUME NEW a \in Agents, NEW t \in Slots, NEW id \in RecordIds, NEW th, NEW connected,
         NEW state, NEW kind, NEW content, Makes(a, t, id, th, connected, state, kind, content)
  PROVE  Onward
  <1>1. /\ OnlyTask(a, t) /\ UNCHANGED <<exchanges, stored, wallet>>
        /\ tasks'[a][t].id = id /\ exchanges[a][id] = None
    BY DEF Makes, FreshId, Unused
  <1>2. ASSUME NEW i \in RecordIds, NEW x, NEW c, IssuedAt(i, x, c), a = Authority
        PROVE  LeavesFinal(t, i)'
    BY <1>1, <1>2 DEF IssuedAt, LeavesFinal
  <1>3. \A i \in RecordIds, u \in Slots : \A x, c :
          IssuedAt(i, x, c) => tasks'[Authority][u] = tasks[Authority][u] \/ LeavesFinal(u, i)'
    BY <1>1, <1>2 DEF OnlyTask, Agents
  <1> QED
    BY <1>1, <1>3, MovesAreOnward

LEMMA MakingKeepsIssued ==
  ASSUME ExchangeTypes, IssuedInv, NEW a \in Agents, NEW t \in Slots, NEW id \in RecordIds,
         NEW th, NEW connected, NEW state, NEW kind, NEW content,
         Makes(a, t, id, th, connected, state, kind, content), net' \subseteq net,
         state \notin {"credential-received", "done"},
         \/ t \in Handlers /\ connected /\ tasks'[a][t].pc = "saveReceived"
         \/ t \notin Handlers /\ kind # "issue-credential" /\ tasks'[a][t].pc = "saveResponse"
  PROVE  IssuedInv'
  <1>1. /\ OnlyTask(a, t) /\ UNCHANGED <<exchanges, stored, wallet>>
        /\ tasks'[a][t].ex.state = state /\ tasks'[a][t].ex.connected = connected
        /\ tasks'[a][t].kind = kind
    BY DEF Makes
  <1>2. TaskSays(a, t)'
    BY <1>1 DEF TaskSays, Says
  <1> QED
    BY <1>1, <1>2, MakingIsOnward, MoveKeepsIssued

LEMMA ConnectedMatch ==
  ASSUME NEW a, NEW th, NEW id, Matching(a, th) = {id}
  PROVE  /\ id \in RecordIds /\ exchanges[a][id] # None /\ exchanges[a][id].thread = th
         /\ exchanges[a][id].connected
         /\ \A i \in RecordIds : exchanges[a][i] # None /\ exchanges[a][i].thread = th
                                 /\ exchanges[a][i].connected => i = id
  BY DEF Matching

\* The messages that an exchange awaits in a final state, and what tells of credentials.
LEMMA FinalResumptions ==
  ASSUME NEW kind, NEW before, NEW after, NEW pc, <<kind, before, after, pc>> \in Resumptions
  PROVE  /\ before \in Final => pc = "updateReceived" /\ after = "done"
         /\ after \in {"credential-received", "done"} =>
              \/ kind = "issue-credential" /\ pc = "storeCredential"
              \/ kind = "credential-ack"
              \/ Family(kind) = "present-proof"
         /\ pc = "storeCredential" => kind = "issue-credential"
         /\ pc \notin {"saveResponse", "updateResponse", "sendResponse"}
  BY DEF Resumptions, Final, Family

LEMMA ResumingKeepsIssued ==
  ASSUME ExchangeTypes, ExchangeAssumption, RolesInv, IssuedInv, NEW a \in Agents,
         NEW h \in Handlers, NEW m \in net, NEW id \in RecordIds, NEW after \in StateNames,
         NEW pc \in Steps, NEW verdict, ResumeStep(a, h, m, id, after, pc, verdict)
  PROVE  IssuedInv'
  <1> DEFINE task == tasks'[a][h]
  <1>0. ResumesWith(a, h, m, id, after, pc, verdict)
    BY ResumedTask
  <1>1. /\ TakesUp(a, h, id) /\ OnlyTask(a, h) /\ UNCHANGED <<exchanges, stored, wallet>>
        /\ task.pc = pc /\ task.kind = m.kind /\ task.content = m.content /\ task.id = id
        /\ task.ex.state = after /\ task.ex.thread = m.thread
        /\ task.ex.connected = exchanges[a][id].connected
        /\ h \in Slots /\ net' \subseteq net
    BY <1>0, DeliveredTypes DEF ResumesWith, TakesUp, ResumeStep
  <1>2. /\ <<m.kind, exchanges[a][id].state, after, pc>> \in Resumptions
        /\ Matching(a, m.thread) = {id} /\ m.to = a
    BY DEF ResumeStep, Delivers
  <1>3. Onward
    BY <1>1, <1>2, FinalResumptions, TakingUpIsOnward DEF Final
  <1>4. Tells(m.kind, m.thread, m.content)
    BY DEF IssuedInv
  <1>5. m.kind # "problem-report" => Family(m.kind) = ProtocolOf[m.thread] /\ IsFor(a, m.kind)
    BY <1>2 DEF RolesInv, RolesOfMessages
  <1>6. ASSUME m.kind = "credential-ack" PROVE a = Authority /\ HeldAt(id, m.thread)
    <2>1. a = Authority
      BY <1>5, <1>6 DEF IsFor, ForHolder, Agents
    <2>2. PICK i \in RecordIds : HeldAt(i, m.thread)
      BY <1>4, <1>6 DEF Tells, Held
    <2>3. i = id
      BY <1>2, <2>1, <2>2, ConnectedMatch DEF HeldAt, IssuedAt
    <2> QED
      BY <2>1, <2>2, <2>3
  <1>7. ASSUME pc = "storeCredential" PROVE Issued(m.thread, m.content)'
    <2>1. Issued(m.thread, m.content)
      BY <1>2, <1>4, <1>7, FinalResumptions DEF Tells
    <2> QED
      BY <1>3, <2>1, OnwardSays
  <1>8. ASSUME pc # "storeCredential" PROVE Says(a, id, m.thread, after)'
    <2> SUFFICES ASSUME Issuing(m.thread), after \in {"credential-received", "done"}
                 PROVE  a = Authority /\ HeldAt(id, m.thread)'
      BY DEF Says
    <2>1. m.kind = "credential-ack"
      <3>1. m.kind # "problem-report"
        BY <1>2 DEF Resumptions
      <3> QED
        BY <1>2, <1>5, <1>8, <3>1, FinalResumptions DEF Issuing
    <2>2. a = Authority /\ HeldAt(id, m.thread)
      BY <1>6, <2>1
    <2>3. Says(a, id, m.thread, after)
      BY <2>2 DEF Says
    <2>4. Says(a, id, m.thread, after)'
      BY <1>3, <2>3, OnwardSays
    <2> QED
      BY <2>2, <2>4 DEF Says, Issuing
  <1>9. TaskSays(a, h)'
    <2>1. exchanges[a][id].connected
      BY <1>2, ConnectedMatch
    <2> QED
      BY <1>1, <1>2, <1>7, <1>8, <2>1, FinalResumptions DEF TaskSays
  <1> QED
    BY <1>1, <1>3, <1>9, MoveKeepsIssued

LEMMA ReceiptsKeepIssued ==
  ASSUME ExchangeTypes, ExchangeAssumption, RolesInv, IssuedInv, NEW a \in Agents,
         NEW h \in Handlers, NEW m \in net, NEW id \in RecordIds, Receipts(a, h, m, id)
  PROVE  IssuedInv'
  <1>1. CASE AbandonStep(a, h, m, id)
    <2>1. /\ TakesUp(a, h, id) /\ tasks'[a][h].pc = "updateOnly"
          /\ tasks'[a][h].ex.state = "abandoned"
      BY <1>1, AbandonedTask
    <2>2. net' \subseteq net /\ exchanges[a][id].connected
      <3>1. Delivers(a, h, m, "problem-report") /\ Matching(a, m.thread) = {id}
        BY <1>1 DEF AbandonStep
      <3>2. net' \subseteq net
        BY <3>1, DeliveredTypes
      <3>3. exchanges[a][id].connected
        <4> id \in Matching(a, m.thread)
          BY <3>1
        <4> QED
          BY DEF Matching
      <3> QED
        BY <3>2, <3>3
    <2>3. Onward
      <3>1. "updateOnly" \in {"updateReceived", "updateResponse", "updateOnly"}
            /\ "abandoned" \in Final /\ h \in Slots
        BY DEF Final, Slots
      <3> QED
        BY <2>1, <3>1, TakingUpIsOnward
    <2>4. TaskSays(a, h)'
      BY <2>1, <2>2 DEF TaskSays, Says, TakesUp
    <2> QED
      BY <2>1, <2>2, <2>3, <2>4, MoveKeepsIssued DEF TakesUp
  <1>2. CASE Opening(a, h, m, id)
    <2>1. PICK state \in StateNames : OpenStep(a, h, m, id, state)
      BY <1>2 DEF Opening
    <2>2. /\ Makes(a, h, id, m.thread, TRUE, state, m.kind, m.content)
          /\ tasks'[a][h].pc = "saveReceived" /\ h \in Slots
      BY <2>1, OpenedTask DEF Slots
    <2>3. net' \subseteq net /\ state \notin {"credential-received", "done"}
      BY <2>1, DeliveredTypes DEF OpenStep, Openings
    <2> QED
      BY <2>2, <2>3, MakingKeepsIssued
  <1>3. CASE Resuming(a, h, m, id)
    BY <1>3, ResumingKeepsIssued DEF Resuming
  <1> QED
    BY <1>1, <1>2, <1>3 DEF Receipts

\* What an application answers by hand ends no exchange in which a credential was issued.
LEMMA FinalReplies ==
  ASSUME NEW before, NEW kind, NEW state, <<before, kind, state>> \in RepliesByHand
  PROVE  /\ before \notin Final
         /\ state \in {"credential-received", "done"} =>
              before = "credential-received" \/ Family(kind) = "present-proof"
         /\ kind = "credential-ack" => before = "credential-received"
         /\ kind = "issue-credential" => state = "credential-issued"
         /\ kind = "issue-credential" => FirstWrite(kind) = "saveResponse"
  BY DEF RepliesByHand, Final, Family, FirstWrite, StoredKinds

LEMMA ReplyingKeepsIssued ==
  ASSUME ExchangeTypes, ExchangeAssumption, RolesInv, IssuedInv, NEW a \in Agents,
         NEW s \in Callers, NEW id \in RecordIds, Replying(a, s, id)
  PROVE  IssuedInv'
  <1> DEFINE task == tasks'[a][s]
  <1>0. PICK answer \in Answers, option \in AutoModes \cup {None} :
          ReplyStep(a, s, id, answer, option)
    BY DEF Replying
  <1>1. RepliesWith(a, s, id, answer)
    BY <1>0, RepliedTask
  <1>2. /\ TakesUp(a, s, id) /\ OnlyTask(a, s) /\ UNCHANGED <<exchanges, stored, wallet, net>>
        /\ task.pc = FirstWrite(answer.kind) /\ task.pc \in {"saveResponse", "updateResponse"}
        /\ task.kind = answer.kind /\ task.id = id /\ task.new = FALSE
        /\ task.ex.state = answer.state /\ task.ex.thread = exchanges[a][id].thread
        /\ task.ex.connected = exchanges[a][id].connected
        /\ s \in Slots /\ s \notin Handlers
    BY <1>0, <1>1 DEF RepliesWith, TakesUp, ReplyStep, ExchangeAssumption
  <1>3. /\ <<exchanges[a][id].state, answer.kind, answer.state>> \in RepliesByHand
        /\ exchanges[a][id] # None /\ exchanges[a][id].connected
        /\ KnowsFamily(a, id, answer.kind)
    BY <1>0 DEF ReplyStep
  <1>4. Onward
    <2>1. exchanges[a][id].state \notin Final
      BY <1>3, FinalReplies
    <2> QED
      BY <1>2, <2>1, TakingUpIsOnward
  <1>5. Family(answer.kind) = ProtocolOf[exchanges[a][id].thread]
    BY <1>3, FamilyKnown
  <1>6. RecordSays(a, id)
    BY DEF IssuedInv
  <1>7. ASSUME NEW th, th = exchanges[a][id].thread, answer.kind = "credential-ack"
        PROVE  Held(th)'
    <2>1. Says(a, id, th, exchanges[a][id].state) /\ exchanges[a][id].state = "credential-received"
      BY <1>3, <1>6, <1>7, FinalReplies DEF RecordSays
    <2>2. Held(th)
      BY <1>5, <1>7, <2>1 DEF Says, Issuing, Family, Held
    <2> QED
      BY <1>4, <2>2, OnwardSays
  <1>8. ASSUME NEW th, NEW state, th = exchanges[a][id].thread, state = answer.state
        PROVE  Says(a, id, th, state)'
    <2> SUFFICES ASSUME Issuing(th), state \in {"credential-received", "done"}
                 PROVE  Says(a, id, th, state)'
      BY DEF Says, Issuing
    <2>1. exchanges[a][id].state = "credential-received"
      BY <1>3, <1>5, <1>8, FinalReplies DEF Issuing
    <2>2. Says(a, id, th, state)
      BY <1>3, <1>6, <1>8, <2>1 DEF RecordSays, Says
    <2> QED
      BY <1>4, <2>2, OnwardSays
  <1>9. TaskSays(a, s)'
    BY <1>2, <1>3, <1>7, <1>8, FinalReplies DEF TaskSays
  <1> QED
    BY <1>2, <1>4, <1>9, MoveKeepsIssued

\* The holder's record may go, the issuer's stays.
LEMMA RemovalKeepsIssued ==
  ASSUME ExchangeTypes, ExchangeAssumption, "delete" \notin Calls[Authority], IssuedInv,
         NEW a \in Agents, NEW s \in Callers, NEW id \in RecordIds, RemoveStep(a, s, id)
  PROVE  IssuedInv'
  <1>1. /\ s \in Slots /\ OnlyTask(a, s) /\ exchanges'[a][id] = None /\ OnlyRecord(a, id)
        /\ UNCHANGED <<stored, wallet, net>>
        /\ tasks'[a][s].pc = "deleteMessages" \/ tasks'[a][s] = tasks[a][s]
    BY RemovedTask
  <1>2. a # Authority
    BY DEF RemoveStep
  <1>3. Onward
    <2>1. ASSUME NEW i \in RecordIds, NEW th, NEW c, IssuedAt(i, th, c)
          PROVE  IssuedAt(i, th, c)'
      <3>1. /\ exchanges'[Authority][i] = exchanges[Authority][i]
            /\ \A u \in Slots : tasks'[Authority][u] = tasks[Authority][u]
        BY <1>1, <1>2 DEF OnlyRecord, OnlyTask, Agents
      <3> QED
        BY <1>1, <2>1, <3>1, IssuedStays
    <2> QED
      BY <1>1, <2>1 DEF Onward, InWallet
  <1>4. \A b \in Agents, i \in RecordIds :
          exchanges'[b][i] = exchanges[b][i] \/ RecordSays(b, i)'
    BY <1>1 DEF OnlyRecord, RecordSays
  <1>5. ASSUME NEW b \in Agents, NEW u \in Slots PROVE SavedStays(b, u)
    <2>1. tasks[b][u].pc = "updateResponse" => tasks[b][u].id \in RecordIds
      BY DEF ExchangeTypes, TypedTask
    <2> QED
      BY <1>1, <2>1 DEF SavedStays, OnlyRecord
  <1>6. \A b \in Agents, u \in Slots : tasks'[b][u] = tasks[b][u] \/ TaskSays(b, u)'
    BY <1>1, SilentSays DEF OnlyTask
  <1> QED
    BY <1>1, <1>3, <1>4, <1>5, <1>6, StepKeepsIssued

LEMMA CallsKeepIssued ==
  ASSUME ExchangeTypes, ExchangeAssumption, "delete" \notin Calls[Authority], RolesInv, IssuedInv,
         NEW a \in Agents, NEW s \in Callers, NEW id \in RecordIds, CallShapes(a, s, id)
  PROVE  IssuedInv'
  <1>1. CASE DeclineStep(a, s, id)
    <2>1. /\ TakesUp(a, s, id) /\ tasks'[a][s].pc = "updateOnly"
          /\ tasks'[a][s].ex.state = "declined" /\ s \in Slots /\ s \notin Handlers
      BY <1>1, DeclinedTask DEF Slots, ExchangeAssumption
    <2>2. exchanges[a][id].state \notin Final /\ net' \in {net, net \cup {Report(a, id)}}
      BY <1>1 DEF DeclineStep, Final
    <2>3. Onward
      BY <2>1, <2>2, TakingUpIsOnward
    <2>4. TaskSays(a, s)'
      BY <2>1 DEF TaskSays, Says
    <2>5. OnlyTask(a, s) /\ UNCHANGED <<exchanges, stored>>
      BY <2>1 DEF TakesUp
    <2> QED
      BY <2>1, <2>2, <2>3, <2>4, <2>5, ReportTells, MoveKeepsIssued
  <1>2. CASE ReportStep(a, id)
    <2>1. net' \in {net, net \cup {Report(a, id)}} /\ UNCHANGED <<exchanges, stored, wallet, tasks>>
      BY <1>2 DEF ReportStep
    <2> QED
      BY <2>1, ReportTells, RestKeepsIssued
  <1>3. CASE Starting(a, s, id)
    <2>1. PICK th \in Threads, kind \in StoredKinds, state \in StateNames, connected \in BOOLEAN,
               c \in Contents, option \in AutoModes \cup {None} :
            StartStep(a, s, th, id, kind, state, connected, c, option)
      BY <1>3 DEF Starting
    <2>2. Makes(a, s, id, th, connected, state, kind, c) /\ tasks'[a][s].pc = "saveResponse"
      BY <2>1, StartedTask
    <2>3. /\ state \notin {"credential-received", "done"} /\ kind # "issue-credential"
          /\ net' \subseteq net /\ s \in Slots /\ s \notin Handlers
      BY <2>1 DEF StartStep, Starts, Slots, ExchangeAssumption
    <2> QED
      BY <2>2, <2>3, MakingKeepsIssued
  <1> QED
    BY <1>1, <1>2, <1>3, ReplyingKeepsIssued, RemovalKeepsIssued DEF CallShapes

LEMMA IssuedKept ==
  ASSUME ExchangeTypes, ExchangeAssumption, "delete" \notin Calls[Authority], IdsInv, RolesInv,
         TurnsInv, SavedInv, StatesInv, ContentInv, IssuedInv, Shapes
  PROVE  IssuedInv'
  <1>1. CASE \E a \in Agents : Crash(a)
    <2>1. PICK a \in Agents : Crash(a)
      BY <1>1
    <2>2. /\ \A u \in Slots : tasks'[a][u].pc = "idle"
          /\ \A b \in Agents \ {a}, u \in Slots : tasks'[b][u] = tasks[b][u]
          /\ UNCHANGED <<exchanges, stored, wallet, net>>
      BY <2>1, CrashedTasks
    <2>3. \A b \in Agents, u \in Slots : tasks'[b][u] = tasks[b][u] \/ tasks'[b][u].pc = "idle"
      BY <2>2
    <2> QED
      BY <2>2, <2>3, RestKeepsIssued
  <1>2. ASSUME NEW a \in Agents, NEW t \in Slots, TaskShapes(a, t) PROVE IssuedInv'
    <2>1. CASE Stop(a, t)
      <3>1. tasks'[a][t].pc = "idle" /\ OnlyTask(a, t) /\ UNCHANGED <<exchanges, stored, wallet, net>>
        BY <2>1, StoppedTask DEF Stop
      <3>2. \A b \in Agents, u \in Slots : tasks'[b][u] = tasks[b][u] \/ tasks'[b][u].pc = "idle"
        BY <3>1 DEF OnlyTask
      <3> QED
        BY <3>1, <3>2, RestKeepsIssued
    <2> QED
      BY <1>2, <2>1, SavingKeepsIssued, WritingKeepsIssued, SendingKeepsIssued, DeletingKeepsIssued
         DEF TaskShapes
  <1>3. CASE \E a \in Agents, h \in Handlers, m \in net, id \in RecordIds : Receipts(a, h, m, id)
    BY <1>3, ReceiptsKeepIssued
  <1>4. CASE \E a \in Agents, h \in Handlers : StoreCredential(a, h)
    BY <1>4, StoringKeepsIssued
  <1>5. CASE \E a \in Agents, h \in Handlers : Deciding(a, h)
    BY <1>5, DecidingKeepsIssued DEF Deciding
  <1>6. CASE \E a \in Agents, s \in Callers, id \in RecordIds : CallShapes(a, s, id)
    BY <1>6, CallsKeepIssued
  <1> QED
    BY <1>1, <1>2, <1>3, <1>4, <1>5, <1>6 DEF Shapes

LEMMA IssuedInit ==
  ASSUME Init
  PROVE  IssuedInv
  <1>1. /\ \A a \in Agents, t \in Slots : tasks[a][t].pc = "idle"
        /\ \A a \in Agents, id \in RecordIds : exchanges[a][id] = None
        /\ net = {}
    BY DEF Init, Idle
  <1> QED
    BY <1>1 DEF IssuedInv, RecordSays, TaskSays, Active

\* An issuer whose exchange is done has issued a credential that the holder holds
\* (IssuedIsHeld), where an agent handles one message, and its application makes one call,
\* at a time, and the issuer deletes no exchange: whatever is lost, repeated or abandoned,
\* whichever agent crashes, and also when the offer was handed over out of band.
THEOREM IssuedCredentialsAreHeld ==
  ASSUME OneHandler, OneCaller, "delete" \notin Calls[Authority]
  PROVE  Spec => []IssuedIsHeld
  <1> DEFINE Base == /\ ExchangeTypes /\ IdsInv /\ RolesInv /\ TurnsInv /\ SavedInv /\ StatesInv
                     /\ ContentInv
  <1>1. Base /\ IssuedInv /\ [Next]_vars => IssuedInv'
    <2>1. ASSUME Base, IssuedInv, Next PROVE IssuedInv'
      <3>1. Shapes
        BY <2>1, ExchangeAssumption, StepShapes
      <3> QED
        BY <2>1, <3>1, ExchangeAssumption, IssuedKept
    <2>2. ASSUME Base, IssuedInv, UNCHANGED vars PROVE IssuedInv'
      BY <2>2, RestKeepsIssued DEF vars
    <2> QED
      BY <2>1, <2>2
  <1>2. IssuedInv => IssuedIsHeld
    <2> SUFFICES ASSUME IssuedInv, NEW id \in ExchangesOf(Authority),
                        Issuing(exchanges[Authority][id].thread),
                        exchanges[Authority][id].state = "done"
                 PROVE  /\ Sole(Authority, id, "issue-credential")
                        /\ InWallet(ContentOf(Authority, id, "issue-credential"))
      BY DEF IssuedIsHeld, Issuing, InWallet
    <2>1. RecordSays(Authority, id)
      BY DEF IssuedInv, ExchangesOf, Agents
    <2>2. HeldAt(id, exchanges[Authority][id].thread)
      BY <2>1 DEF RecordSays, Says, ExchangesOf
    <2> QED
      BY <2>2 DEF HeldAt, IssuedAt
  <1> QED
    BY <1>1, <1>2, IssuedInit, ContentHolds, PTL DEF Spec
===============================================================================
