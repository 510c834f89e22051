----------------------------- MODULE MessagePickup -----------------------------
(***************************************************************************)
(* A mediator forwards messages to a recipient that has no endpoint of its *)
(* own: over the session of the recipient's WebSocket if there is one,     *)
(* else through the message queue, from which the recipient picks messages *)
(* up with pickup protocol v2 (status, delivery, messages received) or v1  *)
(* (batches).  The WebSocket may close at any time and is opened again.    *)
(*                                                                         *)
(* Granularity: one action per message handled; the in-memory queue and    *)
(* the tables of sockets and sessions are read and written without an      *)
(* await in between.                                                       *)
(***************************************************************************)
EXTENDS Naturals, Sequences, FiniteSets, SequencesExt

CONSTANTS
  Forwards,       \* messages that other agents send to the recipient
  MaxDrops,       \* bounds the WebSockets that close
  MaxPolls,       \* bounds the polls of pickup v1
  MaxBatch,       \* maximumBatchSize / maximumMessagePickup
  PickupVersions  \* the pickup strategies a behaviour may start with

\* A closed WebSocket is replaced, and its closing may orphan one more.
Sockets == 1 .. (2 * MaxDrops + 1)

ASSUME PickupAssumption ==
  /\ MaxDrops \in Nat /\ MaxPolls \in Nat /\ MaxBatch \in Nat \ {0}
  /\ PickupVersions \subseteq {"PickUpV1", "PickUpV2", "Implicit"}

VARIABLES
  strategy,   \* the recipient's MediatorPickupStrategy
  started,    \* message pickup has been initiated
  sockets,    \* sockets[s]: state of the WebSocket and what is in flight on it
  table,      \* transportTable: the socket for the mediator's endpoint, or 0
  sessions,   \* transportSessionTable of the mediator, in order of insertion
  queue,      \* the mediator's messages for the recipient's connection
  inbox,      \* AgentMessageReceived events that the recipient has yet to handle
  reconnects, \* reconnections that the recipient has scheduled
  polls,      \* polls made
  forwarded,  \* messages that the mediator has accepted
  received,   \* messages that the recipient has handled
  lost,       \* messages written to a socket that dropped them
  mishaps     \* what has gone wrong in this behaviour

pickupVars == <<strategy, started, sockets, table, sessions, queue, inbox, reconnects,
                polls, forwarded, received, lost, mishaps>>

-------------------------------------------------------------------------------
(* Messages *)

\* The forwarded messages in messages, batches and deliveries; what is queued again may
\* be nested.
Carries(m) == IF m.type \in {"forwarded", "batch", "delivery"} THEN m.carries ELSE {}

CarriedBy(ms) == UNION {Carries(m) : m \in ms}

Carried(ms) == CarriedBy(ToSet(ms))

Forwarded(f)       == [type |-> "forwarded", message |-> f, carries |-> {f}]
StatusRequest      == [type |-> "status-request"]
Status(n)          == [type |-> "status", count |-> n]
DeliveryRequest(n) == [type |-> "delivery-request", limit |-> n]
Delivery(ms)       == [type |-> "delivery", messages |-> ms, carries |-> Carried(ms)]
MessagesReceived(n) == [type |-> "messages-received", count |-> n]
BatchPickup(n)     == [type |-> "batch-pickup", size |-> n]
Batch(ms)          == [type |-> "batch", messages |-> ms, carries |-> Carried(ms)]
TrustPing          == [type |-> "ping"]

\* The messages of a round of pickup v2: each of them brings forth the next one.
RoundTypes == {"status-request", "status", "delivery-request", "delivery",
               "messages-received"}

NewSocket == [state |-> "open", up |-> <<>>, down |-> <<>>]

InRound(ms) == {i \in DOMAIN ms : ms[i].type \in RoundTypes}

\* Where rounds of pickup are under way.
Rounds ==
  {<<"inbox", 0, i>> : i \in InRound(inbox)} \cup {<<"queue", 0, i>> : i \in InRound(queue)}
  \cup UNION {{<<"up", s, i>> : i \in InRound(sockets[s].up)}
              \cup {<<"down", s, i>> : i \in InRound(sockets[s].down)} : s \in Sockets}

-------------------------------------------------------------------------------
(* Sending *)

Opened == {s \in Sockets : sockets[s].state # "unused"}

\* WsOutboundTransport.sendMessage: the socket in the table carries the message,
\* unless there is none or it is closing, when a new one is opened.  The recipient
\* asks for return routing, so a new socket stays open.
SendToMediator(m) ==
  IF table # 0 /\ sockets[table].state = "open"
  THEN /\ sockets' = [sockets EXCEPT ![table].up = Append(@, m)]
       /\ UNCHANGED table
  ELSE \E s \in Sockets :
         /\ sockets[s].state = "unused" /\ \A r \in Sockets : r < s => r \in Opened
         /\ sockets' = [sockets EXCEPT ![s] = [NewSocket EXCEPT !.up = <<m>>]]
         /\ table' = s

\* A session that still finds its WebSocket open.
Usable(s) == sockets[s].state = "open"

\* MessageSender.sendMessage for an answer: the session of the message answered if it
\* is in the table, else the first session of the connection; if the session fails,
\* the queue, for the recipient's DID document has no other service.  left is what
\* the handler has left in the queue.
Reply(s, left, m) ==
  LET session == IF Contains(sessions', s) THEN s ELSE Head(sessions')
      taken   == [sockets EXCEPT ![s].up = Tail(@)]
  IN  IF Usable(session)
      THEN /\ sockets' = [taken EXCEPT ![session].down = Append(@, m)]
           /\ queue' = left
      ELSE sockets' = taken /\ queue' = Append(left, m)

\* ForwardHandler and MessageSender.sendPackage: the first session of the connection,
\* else (or if that session fails) the queue.
Forward(f) ==
  /\ f \in Forwards \ forwarded
  /\ forwarded' = forwarded \cup {f}
  /\ IF sessions # <<>> /\ Usable(Head(sessions))
       THEN /\ sockets' = [sockets EXCEPT ![Head(sessions)].down = Append(@, Forwarded(f))]
            /\ UNCHANGED queue
       ELSE queue' = Append(queue, Forwarded(f)) /\ UNCHANGED sockets
  /\ UNCHANGED <<strategy, started, table, sessions, inbox, reconnects, polls, received, lost,
                 mishaps>>

-------------------------------------------------------------------------------
(* The mediator handles a message of the recipient *)

\* MessageReceiver.receiveEncryptedMessage saves the session before the message is
\* handled, even when its socket has closed in the meantime.
SaveSession(s) == IF Contains(sessions, s) THEN sessions ELSE Append(sessions, s)

Noted(s) ==
  mishaps' = mishaps \cup {x \in {"dead session"} : ~Usable(s)}
                     \cup {x \in {"overlap"} : \E p, q \in Rounds : p # q}

TakesUp(s, type) ==
  /\ sockets[s].state # "unused" /\ sockets[s].up # <<>>
  /\ Head(sockets[s].up).type = type
  /\ sessions' = SaveSession(s)
  /\ Noted(s)

ProcessStatusRequest(s) ==
  /\ TakesUp(s, "status-request")
  /\ Reply(s, queue, Status(Len(queue)))
  /\ UNCHANGED <<strategy, started, table, inbox, reconnects, polls, forwarded, received, lost>>

\* takeFromQueue(limit)
FirstOf(limit) == SubSeq(queue, 1, IF limit < Len(queue) THEN limit ELSE Len(queue))

Without(n) == SubSeq(queue, (IF n < Len(queue) THEN n ELSE Len(queue)) + 1, Len(queue))

\* Mutant: the messages are taken out of the queue when they are delivered.
ProcessDeliveryRequest_Takes(s) ==
  /\ TakesUp(s, "delivery-request")
  /\ Reply(s, Without(Head(sockets[s].up).limit),
           IF queue = <<>> THEN Status(0) ELSE Delivery(FirstOf(Head(sockets[s].up).limit)))
  /\ UNCHANGED <<strategy, started, table, inbox, reconnects, polls, forwarded, received, lost>>

\* The messages stay in the queue until their receipt is confirmed.
ProcessDeliveryRequest(s) ==
  /\ TakesUp(s, "delivery-request")
  /\ Reply(s, queue,
           IF queue = <<>> THEN Status(0) ELSE Delivery(FirstOf(Head(sockets[s].up).limit)))
  /\ UNCHANGED <<strategy, started, table, inbox, reconnects, polls, forwarded, received, lost>>

\* The confirmation takes as many messages from the front as it has ids: messages
\* are not stored with an id.
ProcessMessagesReceived(s) ==
  /\ TakesUp(s, "messages-received")
  /\ LET rest == Without(Head(sockets[s].up).count) IN Reply(s, rest, Status(Len(rest)))
  /\ UNCHANGED <<strategy, started, table, inbox, reconnects, polls, forwarded, received, lost>>

\* Pickup v1: the messages leave the queue with the batch that carries them.
ProcessBatchPickup(s) ==
  /\ TakesUp(s, "batch-pickup")
  /\ LET size == Head(sockets[s].up).size IN Reply(s, Without(size), Batch(FirstOf(size)))
  /\ UNCHANGED <<strategy, started, table, inbox, reconnects, polls, forwarded, received, lost>>

\* A trust ping without response leaves nothing but the session.
ProcessPing(s) ==
  /\ TakesUp(s, "ping")
  /\ sockets' = [sockets EXCEPT ![s].up = Tail(@)]
  /\ UNCHANGED <<strategy, started, table, queue, inbox, reconnects, polls, forwarded, received,
                 lost>>

-------------------------------------------------------------------------------
(* The recipient handles a message *)

\* The WebSocket emits an event for each message that arrives.
Arrive(s) ==
  /\ sockets[s].state # "unused" /\ sockets[s].down # <<>>
  /\ inbox' = Append(inbox, Head(sockets[s].down))
  /\ sockets' = [sockets EXCEPT ![s].down = Tail(@)]
  /\ UNCHANGED <<strategy, started, table, sessions, queue, reconnects, polls, forwarded,
                 received, lost, mishaps>>

Handles(type) == inbox # <<>> /\ Head(inbox).type = type

RecipientUnchanged ==
  UNCHANGED <<strategy, started, sessions, queue, reconnects, polls, forwarded, lost, mishaps>>

ReceiveForwarded ==
  /\ Handles("forwarded")
  /\ received' = received \cup {Head(inbox).message}
  /\ inbox' = Tail(inbox)
  /\ UNCHANGED <<sockets, table>> /\ RecipientUnchanged

\* With nothing in the queue the recipient keeps the WebSocket for live delivery.
ProcessStatus ==
  /\ Handles("status")
  /\ LET n == Head(inbox).count
     IN  IF n = 0 THEN SendToMediator(TrustPing)
         ELSE SendToMediator(DeliveryRequest(IF n < MaxBatch THEN n ELSE MaxBatch))
  /\ inbox' = Tail(inbox)
  /\ UNCHANGED received /\ RecipientUnchanged

\* The messages join the events to be handled, and are confirmed at once.
ProcessDelivery ==
  /\ Handles("delivery")
  /\ inbox' = Tail(inbox) \o Head(inbox).messages
  /\ SendToMediator(MessagesReceived(Len(Head(inbox).messages)))
  /\ UNCHANGED received /\ RecipientUnchanged

ProcessBatch ==
  /\ Handles("batch")
  /\ inbox' = Tail(inbox) \o Head(inbox).messages
  /\ UNCHANGED <<sockets, table, received>> /\ RecipientUnchanged

-------------------------------------------------------------------------------
(* Pickup is initiated, the WebSocket closes and is opened again *)

\* The message that opens the WebSocket or starts a round.
FirstMessage == IF strategy = "PickUpV2" THEN StatusRequest ELSE TrustPing

\* initiateMessagePickup; with pickup v1 it starts to poll.
InitiateMessagePickup ==
  /\ ~started /\ started' = TRUE
  /\ IF strategy = "PickUpV1" THEN UNCHANGED <<sockets, table>> ELSE SendToMediator(FirstMessage)
  /\ UNCHANGED <<strategy, sessions, queue, inbox, reconnects, polls, forwarded, received, lost,
                 mishaps>>

Poll ==
  /\ started /\ strategy = "PickUpV1" /\ polls < MaxPolls
  /\ polls' = polls + 1
  /\ SendToMediator(BatchPickup(MaxBatch))
  /\ UNCHANGED <<strategy, started, sessions, queue, inbox, reconnects, forwarded, received,
                 lost, mishaps>>

\* The connection drops: of what is in flight each way, some has arrived.  The session
\* is removed.
Drop(s) ==
  /\ sockets[s].state = "open"
  /\ Cardinality({r \in Sockets : sockets[r].state \in {"closing", "closed"}}) < MaxDrops
  /\ \E i \in 0 .. Len(sockets[s].up), j \in 0 .. Len(sockets[s].down) :
       /\ sockets' = [sockets EXCEPT ![s] =
            [state |-> "closing", up |-> SubSeq(@.up, 1, i), down |-> SubSeq(@.down, 1, j)]]
       /\ LET dropped == ToSet(SubSeq(sockets[s].down, j + 1, Len(sockets[s].down)))
          IN  lost' = lost \cup CarriedBy({m \in dropped : m.type # "delivery"})
  /\ sessions' = RemoveFirst(sessions, s)
  /\ UNCHANGED <<strategy, started, table, queue, inbox, reconnects, polls, forwarded, received,
                 mishaps>>

\* onclose removes the entry of the endpoint, which may be that of a newer socket.
\* The closed event schedules a reconnection, unless it is throttled: then one is
\* scheduled already.
OnClose(s) ==
  /\ sockets[s].state = "closing"
  /\ sockets' = [sockets EXCEPT ![s].state = "closed"]
  /\ table' = 0
  /\ reconnects' = IF strategy = "PickUpV1" THEN 0 ELSE 1
  /\ UNCHANGED <<strategy, started, sessions, queue, inbox, polls, forwarded, received, lost,
                 mishaps>>

\* Mutant: after a reconnection the recipient only opens the WebSocket.
Reconnect_PingOnly ==
  /\ reconnects > 0 /\ reconnects' = reconnects - 1
  /\ SendToMediator(TrustPing)
  /\ UNCHANGED <<strategy, started, sessions, queue, inbox, polls, forwarded, received, lost,
                 mishaps>>

\* openWebSocketAndPickUp, when the interval is over.
Reconnect ==
  /\ reconnects > 0 /\ reconnects' = reconnects - 1
  /\ SendToMediator(FirstMessage)
  /\ UNCHANGED <<strategy, started, sessions, queue, inbox, polls, forwarded, received, lost,
                 mishaps>>

-------------------------------------------------------------------------------
PickupInit ==
  /\ strategy \in PickupVersions
  /\ started = FALSE
  /\ sockets = [s \in Sockets |-> [NewSocket EXCEPT !.state = "unused"]]
  /\ table = 0 /\ sessions = <<>> /\ queue = <<>> /\ inbox = <<>>
  /\ reconnects = 0 /\ polls = 0
  /\ forwarded = {} /\ received = {} /\ lost = {} /\ mishaps = {}

MediatorHandles(s) ==
  \/ ProcessStatusRequest(s) \/ ProcessDeliveryRequest(s) \/ ProcessMessagesReceived(s)
  \/ ProcessBatchPickup(s) \/ ProcessPing(s)

RecipientHandles ==
  ReceiveForwarded \/ ProcessStatus \/ ProcessDelivery \/ ProcessBatch

PickupNext ==
  \/ \E f \in Forwards : Forward(f)
  \/ \E s \in Sockets : MediatorHandles(s) \/ Arrive(s) \/ Drop(s) \/ OnClose(s)
  \/ RecipientHandles
  \/ InitiateMessagePickup \/ Poll \/ Reconnect

\* Messages that have arrived are handled, what is in flight arrives, a closed socket
\* is reported, and timers fire.  Sockets need not drop, messages need not be sent.
PickupFairness ==
  /\ \A s \in Sockets : WF_pickupVars(MediatorHandles(s) \/ Arrive(s) \/ OnClose(s))
  /\ WF_pickupVars(RecipientHandles)
  /\ WF_pickupVars(InitiateMessagePickup \/ Poll)
  /\ WF_pickupVars(Reconnect)

PickupSpec == PickupInit /\ [][PickupNext]_pickupVars

-------------------------------------------------------------------------------
(* Properties *)

\* A message the mediator has accepted is in its queue, on its way, or handled, unless
\* the WebSocket dropped while it carried the message, or two rounds of pickup
\* overlapped: a confirmation takes messages by their number, not by their id.
NothingIsLost ==
  \A f \in forwarded \ (received \cup lost) :
    \/ f \in Carried(queue) \cup Carried(inbox)
    \/ \E s \in Sockets : f \in Carried(sockets[s].down)
    \/ "overlap" \in mishaps

\* Every accepted message is handled in the end, though the WebSocket closes now and
\* then: with pickup v2, unless a message overtook the closing of its own socket (the
\* mediator then keeps a dead session in front of the live one).
EventuallyReceived ==
  \A f \in Forwards :
    (f \in forwarded) ~> (\/ f \in received \cup lost \/ mishaps # {} \/ strategy # "PickUpV2")
================================================================================
