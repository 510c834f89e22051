---------------------------- MODULE MessagePipeline ----------------------------
(***************************************************************************)
(* How an agent takes in messages and gets its answers out: the receiver,  *)
(* the dispatcher, the table of transport sessions, and the sender with    *)
(* its services and its queue.  Inbound transports hand messages to the    *)
(* receiver without waiting for each other, so several are under way, and  *)
(* two of them may have come over one session.                             *)
(*                                                                         *)
(* Granularity: a step ends where the code awaits something that others    *)
(* can overtake: the handler, the packing of a message, each attempt to    *)
(* send it.                                                                *)
(***************************************************************************)
EXTENDS Naturals, Sequences, FiniteSets, SequencesExt

CONSTANTS
  Inbound,            \* messages that arrive
  InboundKinds,       \* what they may be, see MessageKind
  Parties,            \* who sends them; each shares one connection with the agent
  SessionIds,         \* transport sessions, in the order they enter the table
  ServicesOf,         \* schemes of the services in each party's DID document
  OutboundTransports, \* schemes the agent has an outbound transport for
  Absent              \* "undefined" / "null"

QueueScheme == "didcomm:transport/queue"

\* An authenticated envelope shows who sent the message, an anonymous one does not; a
\* message may also come in plain text.  ready: the connection with the sender is
\* ready.  known: a handler takes this type.  report: it is a problem report.
MessageKind ==
  [envelope : {"authenticated", "anonymous", "none"}, party : Parties, ready : BOOLEAN,
   known : BOOLEAN, report : BOOLEAN, returnRoute : BOOLEAN]

\* What has taken a message, and the party it was packed for.
CarrierType == [by : {"session", "service", "queue"}, for : Parties \cup {Absent}]

ASSUME PipelineAssumption ==
  /\ SessionIds \subseteq Nat
  /\ InboundKinds \subseteq MessageKind
  /\ ServicesOf \in [Parties -> Seq({"http", "ws", QueueScheme})]
  /\ OutboundTransports \subseteq {"http", "ws"}
  /\ Absent \notin Parties \cup SessionIds \cup CarrierType

VARIABLES
  progress,     \* progress[i]: how far the agent is with message i
  sessionTable, \* transportSessionTable: what the session with that id holds
  channels,     \* channels[s]: the channel behind session s is open
  carriers,     \* carriers[i]: what has taken the answer to message i, and for whom
  overwritten   \* sessions whose keys were replaced while an answer was due on them

pipelineVars == <<progress, sessionTable, channels, carriers, overwritten>>

-------------------------------------------------------------------------------
(* Values *)

Stages == {"new", "handling", "answering", "session", "services", "sent", "undeliverable",
           "dropped", "handled"}

\* What goes out: an answer or a report of a failed handler, a report of a message
\* that could not be parsed, an answer to a service, a package that is forwarded.
Outgoing == {"answer", "report", "parse report", "service answer", "package"}

\* what goes out to whom; the session it is sent to with the keys that were read from
\* it; the services tried so far.
ProgressType ==
  [stage : Stages, kind : InboundKinds \cup {Absent}, session : SessionIds \cup {Absent},
   what : Outgoing \cup {Absent}, to : Parties \cup {Absent}, keys : Parties \cup {Absent},
   tried : Nat]

NotReceived == [stage |-> "new", kind |-> Absent, session |-> Absent, what |-> Absent,
                to |-> Absent, keys |-> Absent, tried |-> 0]

NoSession == [keys |-> Absent, connection |-> Absent]

\* The services of a party that messages can be sent to.
Direct(p) == SelectSeq(ServicesOf[p], LAMBDA s : s # QueueScheme)

AtStage(i, stage) == progress[i].stage = stage

Advance(i, step) == progress' = [progress EXCEPT ![i] = step]

-------------------------------------------------------------------------------
(* MessageReceiver *)

\* findConnectionByMessageKeys; plain text comes without keys.
Authenticated(kind) == kind.envelope = "authenticated"

\* transformAndValidate and sendProblemReportMessage: a report tells the sender, if it
\* is known, unless the message is a report itself.  The session stays as it is.
Unparsable(i, kind) ==
  Advance(i, IF Authenticated(kind) /\ ~kind.report
             THEN [NotReceived EXCEPT !.stage = "answering", !.kind = kind,
                                      !.what = "parse report", !.to = kind.party]
             ELSE [NotReceived EXCEPT !.stage = "dropped", !.kind = kind])

AnswerDue(s) ==
  \E j \in Inbound : /\ progress[j].session = s
                     /\ progress[j].stage \in {"handling", "answering"}

\* receiveEncryptedMessage: the session is saved with the keys of this message, or it is
\* closed, before the message is dispatched.
SaveOrClose(kind, s) ==
  IF Authenticated(kind) /\ kind.returnRoute
  THEN /\ sessionTable' = [sessionTable EXCEPT ![s] =
                             [keys |-> kind.party, connection |-> kind.party]]
       /\ overwritten' = overwritten \cup
            {x \in {s} : sessionTable[s].keys \notin {Absent, kind.party} /\ AnswerDue(s)}
       /\ UNCHANGED channels
  ELSE /\ sessionTable' = [sessionTable EXCEPT ![s] = NoSession]
       /\ channels' = [channels EXCEPT ![s] = FALSE]
       /\ UNCHANGED overwritten

Dispatched(i, kind, session) ==
  Advance(i, [NotReceived EXCEPT !.stage = "handling", !.kind = kind, !.session = session])

\* receiveMessage, up to the handler.
ReceiveMessage(i, kind, s) ==
  /\ AtStage(i, "new") /\ channels[s]
  /\ \/ /\ ~kind.known /\ Unparsable(i, kind)
        /\ UNCHANGED <<sessionTable, channels, overwritten>>
     \/ /\ kind.known /\ kind.envelope # "none"
        /\ SaveOrClose(kind, s)
        /\ Dispatched(i, kind, IF Authenticated(kind) /\ kind.returnRoute THEN s ELSE Absent)
     \/ /\ kind.known /\ kind.envelope = "none"
        /\ Dispatched(i, kind, Absent)
        /\ UNCHANGED <<sessionTable, channels, overwritten>>
  /\ UNCHANGED carriers

-------------------------------------------------------------------------------
(* Dispatcher *)

Answers(i, what, party) ==
  /\ Advance(i, [progress[i] EXCEPT !.stage = "answering", !.what = what, !.to = party])
  /\ UNCHANGED sessionTable

\* dispatch: the handler answers the sender, answers a service of the message (without
\* a connection), forwards a package to a party, or has nothing to say.
HandlerReturns(i) ==
  LET kind == progress[i].kind IN
  /\ AtStage(i, "handling")
  /\ \/ Authenticated(kind) /\ Answers(i, "answer", kind.party)
     \/ Direct(kind.party) # <<>> /\ Answers(i, "service answer", kind.party)
     \/ \E p \in Parties : kind.envelope = "anonymous" /\ Answers(i, "package", p)
     \/ /\ Advance(i, [progress[i] EXCEPT !.stage = "handled"])
        /\ UNCHANGED sessionTable
  /\ UNCHANGED <<channels, carriers, overwritten>>

\* The handler throws.  An error with a problem report is answered if the connection is
\* ready; the message context holds no other connection.
HandlerThrows(i) ==
  LET kind == progress[i].kind IN
  /\ AtStage(i, "handling")
  /\ \/ Authenticated(kind) /\ kind.ready /\ Answers(i, "report", kind.party)
     \/ /\ Advance(i, [progress[i] EXCEPT !.stage = "dropped"])
        /\ UNCHANGED sessionTable
  /\ UNCHANGED <<channels, carriers, overwritten>>

\* The handlers of connection requests tie the session to the connection they have made
\* (setConnectionIdForSession), and throw when it is no longer in the table.
HandlerConnects(i) ==
  LET s == progress[i].session IN
  /\ AtStage(i, "handling") /\ s # Absent /\ ~progress[i].kind.ready
  /\ IF sessionTable[s] = NoSession
       THEN Advance(i, [progress[i] EXCEPT !.stage = "dropped"]) /\ UNCHANGED sessionTable
       ELSE /\ sessionTable' = [sessionTable EXCEPT ![s].connection = progress[i].kind.party]
            /\ Advance(i, [progress[i] EXCEPT !.stage = "answering", !.what = "answer",
                                              !.to = progress[i].kind.party])
  /\ UNCHANGED <<channels, carriers, overwritten>>

-------------------------------------------------------------------------------
(* MessageSender: sessions *)

\* findSessionByConnectionId: the first session that belongs to the connection.
SessionsOf(p) ==
  {s \in SessionIds : /\ sessionTable[s].connection = p
                      /\ \A r \in SessionIds : r < s => sessionTable[r].connection # p}

\* Mutant: any session in the table will do.
FindSession_Any(i) == {s \in SessionIds : sessionTable[s] # NoSession}

\* findSessionForOutboundContext: the session of the message that is answered, if it is
\* still there, else a session of the connection.  sendPackage and the report of a
\* message that was not parsed know the connection only.
FindSession(i) ==
  LET s == progress[i].session IN
  IF s # Absent /\ sessionTable[s] # NoSession /\ progress[i].what # "package"
  THEN {s} ELSE SessionsOf(progress[i].to)

\* The keys are those that the session holds now: of the last message over it.
ChooseSession(i) ==
  /\ AtStage(i, "answering")
  /\ IF FindSession(i) = {}
       THEN Advance(i, [progress[i] EXCEPT !.stage = "services"])
       ELSE \E s \in FindSession(i) :
              Advance(i, [progress[i] EXCEPT !.stage = "session", !.session = s,
                            !.keys = IF progress[i].what # "package"
                                     THEN sessionTable[s].keys ELSE progress[i].to])
  /\ UNCHANGED <<sessionTable, channels, carriers, overwritten>>

\* Mutant: a session that fails is taken for one that has sent.
SendToSession_Unchecked(i) ==
  LET p == progress[i] IN
  /\ AtStage(i, "session")
  /\ IF channels[p.session]
       THEN carriers' = [carriers EXCEPT ![i] = [by |-> "session", for |-> p.keys]]
       ELSE UNCHANGED carriers
  /\ Advance(i, [p EXCEPT !.stage = "sent"])
  /\ UNCHANGED <<sessionTable, channels, overwritten>>

\* A session whose channel has closed fails, and the services are tried.
SendToSession(i) ==
  LET p == progress[i] IN
  /\ AtStage(i, "session")
  /\ IF channels[p.session]
       THEN /\ carriers' = [carriers EXCEPT ![i] = [by |-> "session", for |-> p.keys]]
            /\ Advance(i, [p EXCEPT !.stage = "sent"])
       ELSE /\ Advance(i, [p EXCEPT !.stage = "services"])
            /\ UNCHANGED carriers
  /\ UNCHANGED <<sessionTable, channels, overwritten>>

\* The channel of a session closes at any time; its transport removes the session.
CloseChannel(s) ==
  /\ channels[s]
  /\ channels' = [channels EXCEPT ![s] = FALSE]
  /\ sessionTable' = [sessionTable EXCEPT ![s] = NoSession]
  /\ UNCHANGED <<progress, carriers, overwritten>>

-------------------------------------------------------------------------------
(* MessageSender: services and the queue *)

\* retrieveServicesByConnection sets the queue apart from the services.  An answer to
\* a service has that service only.
Services(i) ==
  LET services == Direct(progress[i].to)
  IN  IF progress[i].what = "service answer" THEN <<Head(services)>> ELSE services

HasQueue(i) ==
  /\ progress[i].what # "service answer"
  /\ Contains(ServicesOf[progress[i].to], QueueScheme)

Supported(i) == Services(i)[progress[i].tried + 1] \in OutboundTransports

Sent(i, by) ==
  /\ carriers' = [carriers EXCEPT ![i] = [by |-> by, for |-> progress[i].to]]
  /\ Advance(i, [progress[i] EXCEPT !.stage = "sent"])

\* The transport takes the message, or fails and the next service is tried.
\* sendToService throws for a scheme without a transport; sendPackage returns as though
\* it had sent the package.  Without any transport and queue sendPackage throws.
TryService(i) ==
  /\ AtStage(i, "services") /\ progress[i].tried + 1 \in DOMAIN Services(i)
  /\ \/ Supported(i) /\ Sent(i, "service")
     \/ /\ Supported(i) \/ progress[i].what # "package"
        /\ Advance(i, [progress[i] EXCEPT !.tried = @ + 1])
        /\ UNCHANGED carriers
     \/ /\ ~Supported(i) /\ progress[i].what = "package"
        /\ OutboundTransports # {} \/ HasQueue(i)
        /\ Advance(i, [progress[i] EXCEPT !.stage = "sent"])
        /\ UNCHANGED carriers
     \/ /\ progress[i].what = "package" /\ OutboundTransports = {} /\ ~HasQueue(i)
        /\ Advance(i, [progress[i] EXCEPT !.stage = "undeliverable"])
        /\ UNCHANGED carriers
  /\ UNCHANGED <<sessionTable, channels, overwritten>>

\* No service has taken it: the queue of the connection does, or it is undeliverable.
QueueOrFail(i) ==
  /\ AtStage(i, "services") /\ progress[i].tried + 1 \notin DOMAIN Services(i)
  /\ IF HasQueue(i)
       THEN Sent(i, "queue")
       ELSE /\ Advance(i, [progress[i] EXCEPT !.stage = "undeliverable"])
            /\ UNCHANGED carriers
  /\ UNCHANGED <<sessionTable, channels, overwritten>>

-------------------------------------------------------------------------------
PipelineInit ==
  /\ progress = [i \in Inbound |-> NotReceived]
  /\ sessionTable = [s \in SessionIds |-> NoSession]
  /\ channels = [s \in SessionIds |-> TRUE]
  /\ carriers = [i \in Inbound |-> Absent]
  /\ overwritten = {}

PipelineNext ==
  \/ \E i \in Inbound :
       \/ \E kind \in InboundKinds, s \in SessionIds : ReceiveMessage(i, kind, s)
       \/ HandlerReturns(i) \/ HandlerThrows(i) \/ HandlerConnects(i)
       \/ ChooseSession(i) \/ SendToSession(i) \/ TryService(i) \/ QueueOrFail(i)
  \/ \E s \in SessionIds : CloseChannel(s)

PipelineSpec == PipelineInit /\ [][PipelineNext]_pipelineVars

-------------------------------------------------------------------------------
(* Properties *)

\* Where the sender reports success, something has taken the message, except a package
\* whose service has a scheme the agent has no transport for.
SentIsCarried ==
  \A i \in Inbound : AtStage(i, "sent") =>
    \/ carriers[i] # Absent
    \/ /\ progress[i].what = "package"
       /\ \E k \in DOMAIN Services(i) : Services(i)[k] \notin OutboundTransports

\* An answer is packed for the party whose message it answers, unless another party's
\* message took over the session before the answer was due.
AnswersReachTheirSender ==
  \A i \in Inbound : carriers[i] # Absent =>
    carriers[i].for = progress[i].to \/ progress[i].session \in overwritten
================================================================================
