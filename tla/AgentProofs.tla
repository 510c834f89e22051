------------------------------ MODULE AgentProofs ------------------------------
(***************************************************************************)
(* Proofs about what carries an agent, for every value of the constants:   *)
(* that its answers go out, and for the party they answer; that an agent   *)
(* which says it is initialized is ready; that an update of the storage    *)
(* never loses what it started from, that the version of the storage says  *)
(* no more than the migrations have done and that no migration leaves a    *)
(* record without what it refers to; that credentials verify for who       *)
(* signed them; that a cache does not answer with what is no longer so.    *)
(*                                                                         *)
(* Each part has an invariant that says what the steps under way rely on:  *)
(* the session that an answer waits for, what a call of initialize has     *)
(* started, which backup an update can fall back on, how far the records   *)
(* of a wallet are migrated and what the writes that wait will take away,  *)
(* what a JWT was made of, which of two maps and the record of a cache is  *)
(* ahead.                                                                  *)
(***************************************************************************)
EXTENDS MessagePipeline, AgentLifecycle, StorageUpdates, W3cCredentials, LruCache,
        WellFoundedInduction, FiniteSetTheorems, SequenceTheorems, TLAPS

-------------------------------------------------------------------------------
(* The message pipeline *)

SessionType == [keys : Parties \cup {Absent}, connection : Parties \cup {Absent}]

PipelineTypeOK ==
  /\ progress \in [Inbound -> ProgressType]
  /\ sessionTable \in [SessionIds -> SessionType]
  /\ channels \in [SessionIds -> BOOLEAN]
  /\ carriers \in [Inbound -> CarrierType \cup {Absent}]
  /\ overwritten \subseteq SessionIds

\* The keys that a session holds are those of p, unless an answer lost it to another.
KeysAreOf(s, p) == sessionTable[s].keys = p \/ s \in overwritten

\* A session leaves the table with its channel, and never returns.  The connection it is
\* tied to is that of its keys.
SessionInv(s) ==
  /\ ~channels[s] => sessionTable[s] = NoSession
  /\ KeysAreOf(s, sessionTable[s].connection)

\* An answer that is due on session s still finds the keys of its sender there.
DueOn(s, party) ==
  IF sessionTable[s] = NoSession THEN ~channels[s] ELSE KeysAreOf(s, party)

ProgressInv(i) ==
  LET p == progress[i] IN
  /\ p.stage # "new" => p.kind \in InboundKinds
  /\ p.stage \in {"handling", "answering"} /\ p.session # Absent =>
       Authenticated(p.kind) /\ DueOn(p.session, p.kind.party)
  /\ p.stage = "answering" /\ p.session # Absent => p.what # "package" /\ p.to = p.kind.party
  /\ p.stage = "session" => p.session \in SessionIds /\ (p.keys = p.to \/ p.session \in overwritten)
  /\ p.stage # "sent" => carriers[i] = Absent

PipelineInv ==
  /\ PipelineTypeOK
  /\ \A s \in SessionIds : SessionInv(s)
  /\ \A i \in Inbound : ProgressInv(i)
  /\ SentIsCarried
  /\ AnswersReachTheirSender

\* The two properties, of one message.
Carried(i) ==
  AtStage(i, "sent") =>
    \/ carriers[i] # Absent
    \/ /\ progress[i].what = "package"
       /\ \E k \in DOMAIN Services(i) : Services(i)[k] \notin OutboundTransports

Reaches(i) ==
  carriers[i] # Absent =>
    carriers[i].for = progress[i].to \/ progress[i].session \in overwritten

LEMMA PropertiesOfEach ==
  /\ SentIsCarried <=> \A i \in Inbound : Carried(i)
  /\ AnswersReachTheirSender <=> \A i \in Inbound : Reaches(i)
  BY DEF SentIsCarried, AnswersReachTheirSender, Carried, Reaches

LEMMA OthersStay ==
  ASSUME NEW j \in Inbound, ProgressInv(j), Carried(j), Reaches(j),
         progress'[j] = progress[j], carriers'[j] = carriers[j],
         UNCHANGED <<sessionTable, channels, overwritten>>
  PROVE  ProgressInv(j)' /\ Carried(j)' /\ Reaches(j)'
  <1>1. ProgressInv(j)'
    BY DEF ProgressInv, DueOn, KeysAreOf, Authenticated
  <1>2. Carried(j)'
    BY DEF Carried, AtStage, Services
  <1>3. Reaches(j)'
    BY DEF Reaches
  <1> QED
    BY <1>1, <1>2, <1>3

\* A step of the answer to message i that leaves the sessions alone.
LEMMA AnswerMovesOn ==
  ASSUME PipelineInv, NEW i \in Inbound, NEW step \in ProgressType, Advance(i, step),
         UNCHANGED <<sessionTable, channels, overwritten>>,
         NEW carrier \in CarrierType \cup {Absent},
         carriers' = [carriers EXCEPT ![i] = carrier],
         ProgressInv(i)', Carried(i)', Reaches(i)'
  PROVE  PipelineInv'
  <1>1. PipelineTypeOK'
    BY DEF PipelineInv, PipelineTypeOK, Advance
  <1>2. ASSUME NEW s \in SessionIds PROVE SessionInv(s)'
    BY DEF PipelineInv, SessionInv, KeysAreOf
  <1>3. ASSUME NEW j \in Inbound PROVE ProgressInv(j)' /\ Carried(j)' /\ Reaches(j)'
    <2>1. CASE j = i
      BY <2>1
    <2>2. CASE j # i
      <3>1. progress'[j] = progress[j] /\ carriers'[j] = carriers[j]
        BY <2>2 DEF PipelineInv, PipelineTypeOK, Advance
      <3>2. ProgressInv(j) /\ Carried(j) /\ Reaches(j)
        BY PropertiesOfEach DEF PipelineInv
      <3> QED
        BY <3>1, <3>2, OthersStay
    <2> QED
      BY <2>1, <2>2
  <1>4. SentIsCarried' /\ AnswersReachTheirSender'
    BY <1>3 DEF SentIsCarried, AnswersReachTheirSender, Carried, Reaches
  <1> QED
    BY <1>1, <1>2, <1>3, <1>4 DEF PipelineInv

\* The same when nothing has taken the message yet.
LEMMA NothingIsSent ==
  ASSUME PipelineInv, NEW i \in Inbound, NEW step \in ProgressType, Advance(i, step),
         UNCHANGED <<sessionTable, channels, overwritten, carriers>>,
         progress[i].stage # "sent", step.stage # "sent", ProgressInv(i)'
  PROVE  PipelineInv'
  <1>1. carriers[i] = Absent /\ carriers' = [carriers EXCEPT ![i] = Absent]
    BY DEF PipelineInv, PipelineTypeOK, ProgressInv
  <1>2. progress'[i] = step
    BY DEF PipelineInv, PipelineTypeOK, Advance
  <1>3. Carried(i)' /\ Reaches(i)'
    BY <1>1, <1>2 DEF Carried, Reaches, AtStage
  <1> QED
    BY <1>1, <1>3, AnswerMovesOn

LEMMA HandlerReturnsKeeps ==
  ASSUME PipelineInv, NEW i \in Inbound, HandlerReturns(i)
  PROVE  PipelineInv'
  <1> DEFINE p == progress[i]
  <1>1. /\ p \in ProgressType /\ p.stage = "handling" /\ p.kind \in MessageKind
        /\ ProgressInv(i) /\ carriers[i] = Absent
    BY PipelineAssumption DEF HandlerReturns, PipelineInv, PipelineTypeOK, ProgressInv, AtStage
  <1>2. UNCHANGED <<sessionTable, channels, overwritten, carriers>>
    BY DEF HandlerReturns, Answers
  <1>3. ASSUME NEW what \in Outgoing, NEW party \in Parties, Answers(i, what, party),
               p.session # Absent => what # "package" /\ party = p.kind.party
        PROVE  PipelineInv'
    <2> DEFINE step == [p EXCEPT !.stage = "answering", !.what = what, !.to = party]
    <2>1. Advance(i, step) /\ step \in ProgressType
      BY <1>1, <1>3 DEF Answers, ProgressType, Stages
    <2>2. progress'[i] = step
      BY <2>1 DEF Advance, PipelineInv, PipelineTypeOK
    <2>3. ProgressInv(i)'
      BY <1>1, <1>2, <1>3, <2>2 DEF ProgressInv, ProgressType, DueOn, KeysAreOf, Authenticated
    <2>4. step.stage # "sent"
      BY <1>1 DEF ProgressType
    <2> QED
      BY <1>1, <1>2, <2>1, <2>3, <2>4, NothingIsSent
  <1>4. ASSUME Advance(i, [p EXCEPT !.stage = "handled"])
        PROVE  PipelineInv'
    <2> DEFINE step == [p EXCEPT !.stage = "handled"]
    <2>1. step \in ProgressType /\ step.stage = "handled"
      BY <1>1 DEF ProgressType, Stages
    <2>2. progress'[i] = step
      BY <1>4 DEF Advance, PipelineInv, PipelineTypeOK
    <2>3. ProgressInv(i)'
      BY <1>1, <1>2, <2>1, <2>2 DEF ProgressInv, ProgressType
    <2> QED
      BY <1>1, <1>2, <1>4, <2>1, <2>3, NothingIsSent
  <1>5. p.kind.party \in Parties
    BY <1>1 DEF MessageKind
  <1>6. CASE Authenticated(p.kind) /\ Answers(i, "answer", p.kind.party)
    BY <1>3, <1>5, <1>6 DEF Outgoing
  <1>7. CASE Answers(i, "service answer", p.kind.party)
    BY <1>3, <1>5, <1>7 DEF Outgoing
  <1>8. CASE \E q \in Parties : p.kind.envelope = "anonymous" /\ Answers(i, "package", q)
    <2>1. p.session = Absent
      BY <1>1, <1>8 DEF ProgressInv, Authenticated
    <2> QED
      BY <1>3, <1>8, <2>1 DEF Outgoing
  <1>9. CASE Advance(i, [p EXCEPT !.stage = "handled"])
    BY <1>4, <1>9
  <1> QED
    BY <1>6, <1>7, <1>8, <1>9 DEF HandlerReturns

LEMMA HandlerThrowsKeeps ==
  ASSUME PipelineInv, NEW i \in Inbound, HandlerThrows(i)
  PROVE  PipelineInv'
  <1> DEFINE p == progress[i]
  <1>1. /\ p \in ProgressType /\ p.stage = "handling" /\ p.kind \in MessageKind
        /\ ProgressInv(i) /\ carriers[i] = Absent
    BY PipelineAssumption DEF HandlerThrows, PipelineInv, PipelineTypeOK, ProgressInv, AtStage
  <1>2. UNCHANGED <<sessionTable, channels, overwritten, carriers>>
    BY DEF HandlerThrows, Answers
  <1>3. PICK step :
          /\ Advance(i, step)
          /\ \/ step = [p EXCEPT !.stage = "answering", !.what = "report", !.to = p.kind.party]
             \/ step = [p EXCEPT !.stage = "dropped"]
    BY DEF HandlerThrows, Answers
  <1>4. step \in ProgressType /\ step.stage # "sent"
    BY <1>1, <1>3 DEF ProgressType, Stages, Outgoing, MessageKind
  <1>5. progress'[i] = step
    BY <1>3 DEF Advance, PipelineInv, PipelineTypeOK
  <1>6. ProgressInv(i)'
    BY <1>1, <1>2, <1>3, <1>5 DEF ProgressInv, ProgressType, DueOn, KeysAreOf, Authenticated
  <1> QED
    BY <1>1, <1>2, <1>3, <1>4, <1>6, NothingIsSent

LEMMA ChooseSessionKeeps ==
  ASSUME PipelineInv, NEW i \in Inbound, ChooseSession(i)
  PROVE  PipelineInv'
  <1> DEFINE p == progress[i]
  <1>1. /\ p \in ProgressType /\ p.stage = "answering" /\ p.kind \in InboundKinds
        /\ ProgressInv(i) /\ carriers[i] = Absent
    BY DEF ChooseSession, PipelineInv, PipelineTypeOK, ProgressInv, AtStage
  <1>2. UNCHANGED <<sessionTable, channels, overwritten, carriers>>
    BY DEF ChooseSession
  <1>3. CASE Advance(i, [p EXCEPT !.stage = "services"])
    <2> DEFINE step == [p EXCEPT !.stage = "services"]
    <2>1. step \in ProgressType /\ step.stage = "services"
      BY <1>1 DEF ProgressType, Stages
    <2>2. progress'[i] = step
      BY <1>3 DEF Advance, PipelineInv, PipelineTypeOK
    <2>3. ProgressInv(i)'
      BY <1>1, <1>2, <2>1, <2>2 DEF ProgressInv, ProgressType
    <2> QED
      BY <1>1, <1>2, <1>3, <2>1, <2>3, NothingIsSent
  <1>4. CASE \E s \in FindSession(i) :
               Advance(i, [p EXCEPT !.stage = "session", !.session = s,
                             !.keys = IF p.what # "package" THEN sessionTable[s].keys ELSE p.to])
    <2>1. PICK s \in FindSession(i) :
            Advance(i, [p EXCEPT !.stage = "session", !.session = s,
                          !.keys = IF p.what # "package" THEN sessionTable[s].keys ELSE p.to])
      BY <1>4
    <2> DEFINE keys == IF p.what # "package" THEN sessionTable[s].keys ELSE p.to
               step == [p EXCEPT !.stage = "session", !.session = s, !.keys = keys]
    <2>2. s \in SessionIds
      BY <1>1 DEF FindSession, SessionsOf, ProgressType
    <2>3. sessionTable[s] \in SessionType /\ SessionInv(s)
      BY <2>2 DEF PipelineInv, PipelineTypeOK
    <2>4. KeysAreOf(s, p.to) \/ p.what = "package"
      BY <1>1, <2>3 DEF FindSession, SessionsOf, ProgressInv, DueOn, SessionInv, KeysAreOf
    <2>5. keys = p.to \/ s \in overwritten
      BY <2>4 DEF KeysAreOf
    <2>6. keys \in Parties \cup {Absent}
      BY <1>1, <2>3 DEF SessionType, ProgressType
    <2> HIDE DEF keys
    <2>7. step \in ProgressType /\ step.stage = "session"
      BY <1>1, <2>2, <2>6 DEF ProgressType, Stages
    <2>8. progress'[i] = step
      BY <2>1 DEF Advance, PipelineInv, PipelineTypeOK, keys
    <2>9. ProgressInv(i)'
      BY <1>1, <1>2, <2>2, <2>5, <2>7, <2>8 DEF ProgressInv, ProgressType
    <2> QED
      BY <1>1, <1>2, <2>1, <2>7, <2>9, NothingIsSent DEF keys
  <1> QED
    BY <1>3, <1>4 DEF ChooseSession

LEMMA SendToSessionKeeps ==
  ASSUME PipelineInv, NEW i \in Inbound, SendToSession(i)
  PROVE  PipelineInv'
  <1> DEFINE p == progress[i]
  <1>1. /\ p \in ProgressType /\ p.stage = "session" /\ p.kind \in InboundKinds
        /\ ProgressInv(i) /\ carriers[i] = Absent
    BY DEF SendToSession, PipelineInv, PipelineTypeOK, ProgressInv, AtStage
  <1>2. UNCHANGED <<sessionTable, channels, overwritten>>
    BY DEF SendToSession
  <1>3. CASE channels[p.session]
    <2> DEFINE step == [p EXCEPT !.stage = "sent"]
               carrier == [by |-> "session", for |-> p.keys]
    <2>1. Advance(i, step) /\ carriers' = [carriers EXCEPT ![i] = carrier]
      BY <1>3 DEF SendToSession
    <2>2. step \in ProgressType /\ carrier \in CarrierType
      BY <1>1 DEF ProgressType, Stages, CarrierType
    <2>3. carrier # Absent
      BY <2>2, PipelineAssumption
    <2>4. progress'[i] = step /\ carriers'[i] = carrier
      BY <2>1 DEF Advance, PipelineInv, PipelineTypeOK
    <2>5. ProgressInv(i)' /\ Carried(i)' /\ Reaches(i)'
      BY <1>1, <1>2, <2>2, <2>3, <2>4 DEF ProgressInv, Carried, Reaches, ProgressType
    <2> QED
      BY <1>2, <2>1, <2>2, <2>5, AnswerMovesOn
  <1>4. CASE ~channels[p.session]
    <2> DEFINE step == [p EXCEPT !.stage = "services"]
    <2>1. Advance(i, step) /\ UNCHANGED carriers
      BY <1>4 DEF SendToSession
    <2>2. step \in ProgressType /\ step.stage = "services"
      BY <1>1 DEF ProgressType, Stages
    <2>3. progress'[i] = step
      BY <2>1 DEF Advance, PipelineInv, PipelineTypeOK
    <2>4. ProgressInv(i)'
      BY <1>1, <1>2, <2>1, <2>2, <2>3 DEF ProgressInv, ProgressType
    <2> QED
      BY <1>1, <1>2, <2>1, <2>2, <2>4, NothingIsSent
  <1> QED
    BY <1>3, <1>4

\* A service or the queue takes the message for the party it is meant for.
LEMMA SentKeeps ==
  ASSUME PipelineInv, NEW i \in Inbound, NEW by \in {"service", "queue"},
         progress[i].stage = "services", Sent(i, by),
         UNCHANGED <<sessionTable, channels, overwritten>>
  PROVE  PipelineInv'
  <1> DEFINE p == progress[i]
             step == [p EXCEPT !.stage = "sent"]
             carrier == [by |-> by, for |-> p.to]
  <1>1. p \in ProgressType /\ p.kind \in InboundKinds
    BY DEF PipelineInv, PipelineTypeOK, ProgressInv
  <1>2. Advance(i, step) /\ carriers' = [carriers EXCEPT ![i] = carrier]
    BY DEF Sent
  <1>3. step \in ProgressType /\ carrier \in CarrierType
    BY <1>1 DEF ProgressType, Stages, CarrierType
  <1>4. carrier # Absent
    BY <1>3, PipelineAssumption
  <1>5. progress'[i] = step /\ carriers'[i] = carrier
    BY <1>2 DEF Advance, PipelineInv, PipelineTypeOK
  <1>6. ProgressInv(i)' /\ Carried(i)' /\ Reaches(i)'
    BY <1>1, <1>4, <1>5 DEF ProgressInv, Carried, Reaches, ProgressType
  <1> QED
    BY <1>2, <1>3, <1>6, AnswerMovesOn

LEMMA TryServiceKeeps ==
  ASSUME PipelineInv, NEW i \in Inbound, TryService(i)
  PROVE  PipelineInv'
  <1> DEFINE p == progress[i]
  <1>1. /\ p \in ProgressType /\ p.stage = "services" /\ p.kind \in InboundKinds
        /\ ProgressInv(i) /\ carriers[i] = Absent
    BY DEF TryService, PipelineInv, PipelineTypeOK, ProgressInv, AtStage
  <1>2. UNCHANGED <<sessionTable, channels, overwritten>>
    BY DEF TryService
  <1>3. CASE Sent(i, "service")
    BY <1>1, <1>2, <1>3, SentKeeps
  <1>4. CASE UNCHANGED carriers /\ Advance(i, [p EXCEPT !.tried = @ + 1])
    <2> DEFINE step == [p EXCEPT !.tried = @ + 1]
    <2>1. step \in ProgressType /\ step.stage = "services"
      BY <1>1 DEF ProgressType, Stages
    <2>2. progress'[i] = step
      BY <1>4 DEF Advance, PipelineInv, PipelineTypeOK
    <2>3. ProgressInv(i)'
      BY <1>1, <1>2, <1>4, <2>1, <2>2 DEF ProgressInv, ProgressType
    <2> QED
      BY <1>1, <1>2, <1>4, <2>1, <2>3, NothingIsSent
  <1>5. CASE /\ ~Supported(i) /\ p.what = "package" /\ UNCHANGED carriers
             /\ Advance(i, [p EXCEPT !.stage = "sent"])
    <2> DEFINE step == [p EXCEPT !.stage = "sent"]
    <2>1. step \in ProgressType /\ step.what = p.what /\ step.to = p.to /\ step.stage = "sent"
      BY <1>1 DEF ProgressType, Stages
    <2>2. progress'[i] = step
      BY <1>5 DEF Advance, PipelineInv, PipelineTypeOK
    <2>3. carriers'[i] = Absent /\ carriers' = [carriers EXCEPT ![i] = Absent]
      BY <1>1, <1>5 DEF PipelineInv, PipelineTypeOK
    <2>4. p.tried + 1 \in DOMAIN Services(i) /\ Services(i)[p.tried + 1] \notin OutboundTransports
      BY <1>5 DEF TryService, Supported
    <2>5. Services(i)' = Services(i)
      BY <2>1, <2>2 DEF Services
    <2>6. Carried(i)'
      BY <1>5, <2>1, <2>2, <2>4, <2>5 DEF Carried
    <2>7. ProgressInv(i)' /\ Reaches(i)'
      BY <1>1, <2>1, <2>2, <2>3 DEF ProgressInv, Reaches, ProgressType
    <2> QED
      BY <1>2, <1>5, <2>1, <2>3, <2>6, <2>7, AnswerMovesOn
  <1>6. CASE UNCHANGED carriers /\ Advance(i, [p EXCEPT !.stage = "undeliverable"])
    <2> DEFINE step == [p EXCEPT !.stage = "undeliverable"]
    <2>1. step \in ProgressType /\ step.stage = "undeliverable"
      BY <1>1 DEF ProgressType, Stages
    <2>2. progress'[i] = step
      BY <1>6 DEF Advance, PipelineInv, PipelineTypeOK
    <2>3. ProgressInv(i)'
      BY <1>1, <1>2, <1>6, <2>1, <2>2 DEF ProgressInv, ProgressType
    <2> QED
      BY <1>1, <1>2, <1>6, <2>1, <2>3, NothingIsSent
  <1> QED
    BY <1>3, <1>4, <1>5, <1>6 DEF TryService

LEMMA QueueOrFailKeeps ==
  ASSUME PipelineInv, NEW i \in Inbound, QueueOrFail(i)
  PROVE  PipelineInv'
  <1> DEFINE p == progress[i]
             step == [p EXCEPT !.stage = "undeliverable"]
  <1>1. /\ p \in ProgressType /\ p.stage = "services" /\ p.kind \in InboundKinds
        /\ ProgressInv(i) /\ carriers[i] = Absent
        /\ UNCHANGED <<sessionTable, channels, overwritten>>
    BY DEF QueueOrFail, PipelineInv, PipelineTypeOK, ProgressInv, AtStage
  <1>2. CASE Sent(i, "queue")
    BY <1>1, <1>2, SentKeeps
  <1>3. CASE Advance(i, step) /\ UNCHANGED carriers
    <2>1. step \in ProgressType /\ step.stage = "undeliverable"
      BY <1>1 DEF ProgressType, Stages
    <2>2. progress'[i] = step
      BY <1>3 DEF Advance, PipelineInv, PipelineTypeOK
    <2>3. ProgressInv(i)'
      BY <1>1, <1>3, <2>1, <2>2 DEF ProgressInv, ProgressType
    <2> QED
      BY <1>1, <1>3, <2>1, <2>3, NothingIsSent
  <1> QED
    BY <1>2, <1>3 DEF QueueOrFail

-------------------------------------------------------------------------------
(* The steps that change the table of sessions *)

\* A step that changes one session, and what it leaves due to the other messages.
LEMMA SessionChanges ==
  ASSUME PipelineInv, PipelineTypeOK', NEW i \in Inbound, NEW s \in SessionIds,
         \A r \in SessionIds \ {s} :
           sessionTable'[r] = sessionTable[r] /\ channels'[r] = channels[r],
         overwritten \subseteq overwritten', overwritten' \subseteq overwritten \cup {s},
         UNCHANGED carriers, \A j \in Inbound \ {i} : progress'[j] = progress[j],
         SessionInv(s)', ProgressInv(i)', Carried(i)', Reaches(i)',
         \A j \in Inbound \ {i} :
           progress[j].stage \in {"handling", "answering"} /\ progress[j].session = s =>
             DueOn(s, progress[j].kind.party)'
  PROVE  PipelineInv'
  <1>1. ASSUME NEW r \in SessionIds PROVE SessionInv(r)'
    <2>1. CASE r # s
      <3>1. SessionInv(r)
        BY DEF PipelineInv
      <3> QED
        BY <2>1, <3>1 DEF SessionInv, KeysAreOf
    <2> QED
      BY <2>1
  <1>2. ASSUME NEW j \in Inbound PROVE ProgressInv(j)' /\ Carried(j)' /\ Reaches(j)'
    <2>1. CASE j = i
      BY <2>1
    <2>2. CASE j # i
      <3>1. progress'[j] = progress[j] /\ carriers'[j] = carriers[j]
        BY <2>2
      <3>2. ProgressInv(j) /\ Carried(j) /\ Reaches(j)
        BY PropertiesOfEach DEF PipelineInv
      <3>3. Carried(j)'
        BY <3>1, <3>2 DEF Carried, AtStage, Services
      <3>4. Reaches(j)'
        BY <3>1, <3>2 DEF Reaches
      <3>5. progress[j].session \in SessionIds \cup {Absent}
        BY DEF PipelineInv, PipelineTypeOK, ProgressType
      <3>6. ASSUME progress[j].stage \in {"handling", "answering"}, progress[j].session # Absent
            PROVE  DueOn(progress[j].session, progress[j].kind.party)'
        <4>1. CASE progress[j].session = s
          <5>1. DueOn(s, progress[j].kind.party)'
            BY <2>2, <3>6, <4>1
          <5> QED
            BY <3>1, <4>1, <5>1 DEF DueOn, KeysAreOf
        <4>2. CASE progress[j].session # s
          BY <3>1, <3>2, <3>5, <3>6, <4>2 DEF ProgressInv, DueOn, KeysAreOf
        <4> QED
          BY <4>1, <4>2
      <3>7. ProgressInv(j)'
        BY <3>1, <3>2, <3>6 DEF ProgressInv, Authenticated
      <3> QED
        BY <3>3, <3>4, <3>7
    <2> QED
      BY <2>1, <2>2
  <1>3. SentIsCarried' /\ AnswersReachTheirSender'
    BY <1>2 DEF SentIsCarried, AnswersReachTheirSender, Carried, Reaches
  <1> QED
    BY <1>1, <1>2, <1>3 DEF PipelineInv

LEMMA CloseChannelKeeps ==
  ASSUME PipelineInv, NEW s \in SessionIds, CloseChannel(s)
  PROVE  PipelineInv'
  <1>1. /\ channels' = [channels EXCEPT ![s] = FALSE]
        /\ sessionTable' = [sessionTable EXCEPT ![s] = NoSession]
        /\ UNCHANGED <<progress, carriers, overwritten>>
    BY DEF CloseChannel
  <1>2. NoSession \in SessionType
    BY DEF NoSession, SessionType
  <1>3. PipelineTypeOK'
    BY <1>1, <1>2 DEF PipelineInv, PipelineTypeOK
  <1>4. sessionTable'[s] = NoSession /\ channels'[s] = FALSE
    BY <1>1 DEF PipelineInv, PipelineTypeOK
  <1>5. SessionInv(s)' /\ \A party : DueOn(s, party)'
    BY <1>4 DEF SessionInv, DueOn, KeysAreOf, NoSession
  <1>6. ASSUME NEW r \in SessionIds PROVE SessionInv(r)'
    <2>1. CASE r # s
      <3>1. SessionInv(r) /\ sessionTable'[r] = sessionTable[r] /\ channels'[r] = channels[r]
        BY <1>1, <2>1 DEF PipelineInv, PipelineTypeOK
      <3> QED
        BY <1>1, <3>1 DEF SessionInv, KeysAreOf
    <2> QED
      BY <1>5, <2>1
  <1>7. ASSUME NEW j \in Inbound PROVE ProgressInv(j)'
    <2>1. ProgressInv(j) /\ progress[j].session \in SessionIds \cup {Absent}
      BY DEF PipelineInv, PipelineTypeOK, ProgressType
    <2>2. ASSUME NEW party, progress[j].session # Absent, DueOn(progress[j].session, party)
          PROVE  DueOn(progress[j].session, party)'
      <3>1. CASE progress[j].session = s
        BY <1>1, <1>4, <3>1 DEF DueOn
      <3>2. CASE progress[j].session # s
        BY <1>1, <2>1, <2>2, <3>2 DEF DueOn, KeysAreOf, PipelineInv, PipelineTypeOK
      <3> QED
        BY <3>1, <3>2
    <2> QED
      BY <1>1, <2>1, <2>2 DEF ProgressInv, Authenticated
  <1>8. SentIsCarried' /\ AnswersReachTheirSender'
    BY <1>1 DEF PipelineInv, SentIsCarried, AnswersReachTheirSender, AtStage, Services
  <1> QED
    BY <1>3, <1>6, <1>7, <1>8 DEF PipelineInv

LEMMA HandlerConnectsKeeps ==
  ASSUME PipelineInv, NEW i \in Inbound, HandlerConnects(i)
  PROVE  PipelineInv'
  <1>0. PICK p, s, party : p = progress[i] /\ s = p.session /\ party = p.kind.party
    OBVIOUS
  <1>1. /\ p \in ProgressType /\ p.stage = "handling" /\ p.kind \in MessageKind
        /\ p.kind \in InboundKinds
        /\ ProgressInv(i) /\ carriers[i] = Absent /\ s \in SessionIds
        /\ UNCHANGED <<channels, carriers, overwritten>>
    BY <1>0, PipelineAssumption
    DEF HandlerConnects, PipelineInv, PipelineTypeOK, ProgressInv, AtStage, ProgressType
  <1>2. CASE sessionTable[s] = NoSession
    <2> DEFINE step == [p EXCEPT !.stage = "dropped"]
    <2>1. Advance(i, step) /\ UNCHANGED sessionTable
      BY <1>0, <1>2 DEF HandlerConnects
    <2>2. step \in ProgressType /\ step.stage = "dropped"
      BY <1>1 DEF ProgressType, Stages
    <2>3. progress'[i] = step
      BY <2>1 DEF Advance, PipelineInv, PipelineTypeOK
    <2>4. ProgressInv(i)'
      BY <1>1, <2>1, <2>2, <2>3 DEF ProgressInv, ProgressType
    <2> QED
      BY <1>0, <1>1, <2>1, <2>2, <2>4, NothingIsSent
  <1>3. CASE sessionTable[s] # NoSession
    <2> DEFINE step == [p EXCEPT !.stage = "answering", !.what = "answer", !.to = party]
               session == [sessionTable[s] EXCEPT !.connection = party]
    <2>1. Advance(i, step) /\ sessionTable' = [sessionTable EXCEPT ![s] = session]
      BY <1>0, <1>3 DEF HandlerConnects
    <2>2. party \in Parties /\ sessionTable[s] \in SessionType
      BY <1>0, <1>1 DEF MessageKind, PipelineInv, PipelineTypeOK
    <2>3. step \in ProgressType /\ session \in SessionType
      BY <1>1, <2>2 DEF ProgressType, Stages, Outgoing, SessionType
    <2>4. PipelineTypeOK'
      BY <1>1, <2>1, <2>3 DEF PipelineInv, PipelineTypeOK, Advance
    <2>5. progress'[i] = step /\ sessionTable'[s] = session
      BY <1>1, <2>1 DEF Advance, PipelineInv, PipelineTypeOK
    <2>6. session.keys = sessionTable[s].keys /\ session.connection = party
      BY <2>2 DEF SessionType
    <2>7. Authenticated(p.kind) /\ KeysAreOf(s, party)
      BY <1>0, <1>1, <1>3, PipelineAssumption DEF ProgressInv, DueOn
    <2>8. channels[s]
      BY <1>1, <1>3 DEF PipelineInv, PipelineTypeOK, SessionInv
    <2>9. session # NoSession
      BY <2>2, <2>6, PipelineAssumption DEF NoSession
    <2>10. SessionInv(s)'
      BY <1>1, <2>5, <2>6, <2>7, <2>8 DEF SessionInv, KeysAreOf
    <2>11. \A q : DueOn(s, q) => DueOn(s, q)'
      BY <1>1, <1>3, <2>5, <2>6, <2>9 DEF DueOn, KeysAreOf
    <2>12. DueOn(s, party)'
      BY <1>3, <2>7, <2>11 DEF DueOn
    <2>13. ProgressInv(i)'
      <3>1. /\ step.stage = "answering" /\ step.what = "answer" /\ step.to = party
            /\ step.session = s /\ step.kind = p.kind
        BY <1>0, <1>1 DEF ProgressType
      <3>2. /\ progress'[i].kind.party = party /\ progress'[i].session = s
            /\ progress'[i].stage = "answering" /\ Authenticated(progress[i].kind)'
            /\ progress'[i].kind \in InboundKinds
        BY <1>0, <1>1, <2>5, <2>7, <3>1 DEF Authenticated
      <3>3. DueOn(progress[i].session, progress[i].kind.party)'
        BY <2>12, <3>2 DEF DueOn, KeysAreOf
      <3> QED
        BY <1>1, <2>5, <3>1, <3>2, <3>3 DEF ProgressInv
    <2>14. Carried(i)' /\ Reaches(i)'
      BY <1>1, <2>3, <2>5 DEF Carried, Reaches, AtStage, ProgressType
    <2>15. /\ \A r \in SessionIds \ {s} :
                sessionTable'[r] = sessionTable[r] /\ channels'[r] = channels[r]
           /\ \A j \in Inbound \ {i} : progress'[j] = progress[j]
      BY <1>1, <2>1 DEF Advance, PipelineInv, PipelineTypeOK
    <2>16. ASSUME NEW j \in Inbound \ {i}, progress[j].stage \in {"handling", "answering"},
                  progress[j].session = s
           PROVE  DueOn(s, progress[j].kind.party)'
      <3>1. DueOn(s, progress[j].kind.party)
        BY <1>1, <2>16, PipelineAssumption DEF PipelineInv, ProgressInv
      <3>2. progress'[j] = progress[j]
        BY <2>15
      <3> QED
        BY <2>11, <3>1, <3>2
    <2> QED
      BY <1>1, <2>4, <2>10, <2>13, <2>14, <2>15, <2>16, SessionChanges
  <1> QED
    BY <1>2, <1>3

LEMMA ReceiveMessageKeeps ==
  ASSUME PipelineInv, NEW i \in Inbound, NEW kind \in InboundKinds, NEW s \in SessionIds,
         ReceiveMessage(i, kind, s)
  PROVE  PipelineInv'
  <1>1. /\ progress[i].stage = "new" /\ channels[s] /\ kind \in MessageKind
        /\ ProgressInv(i) /\ carriers[i] = Absent /\ UNCHANGED carriers
    BY PipelineAssumption DEF ReceiveMessage, PipelineInv, ProgressInv, AtStage
  <1>2. kind.party \in Parties
    BY <1>1 DEF MessageKind
  <1>3. NotReceived \in ProgressType
    BY DEF NotReceived, ProgressType, Stages
  <1>4. CASE Unparsable(i, kind) /\ UNCHANGED <<sessionTable, channels, overwritten>>
    <2>1. PICK step :
            /\ Advance(i, step)
            /\ \/ step = [NotReceived EXCEPT !.stage = "answering", !.kind = kind,
                                             !.what = "parse report", !.to = kind.party]
               \/ step = [NotReceived EXCEPT !.stage = "dropped", !.kind = kind]
      BY <1>4 DEF Unparsable
    <2>2. /\ step \in ProgressType /\ step.kind = kind /\ step.session = Absent
          /\ step.stage \in {"answering", "dropped"}
      BY <1>2, <1>3, <2>1 DEF NotReceived, ProgressType, Stages, Outgoing
    <2>3. progress'[i] = step
      BY <2>1 DEF Advance, PipelineInv, PipelineTypeOK
    <2>4. ProgressInv(i)'
      BY <1>1, <2>2, <2>3 DEF ProgressInv
    <2> QED
      BY <1>1, <1>4, <2>1, <2>2, <2>4, NothingIsSent
  <1>5. CASE Dispatched(i, kind, Absent) /\ UNCHANGED <<sessionTable, channels, overwritten>>
    <2> DEFINE step == [NotReceived EXCEPT !.stage = "handling", !.kind = kind, !.session = Absent]
    <2>1. /\ step \in ProgressType /\ step.kind = kind /\ step.session = Absent
          /\ step.stage = "handling"
      BY <1>3 DEF NotReceived, ProgressType, Stages
    <2>2. progress'[i] = step /\ Advance(i, step)
      BY <1>5 DEF Dispatched, Advance, PipelineInv, PipelineTypeOK
    <2>3. ProgressInv(i)'
      BY <1>1, <2>1, <2>2 DEF ProgressInv
    <2> QED
      BY <1>1, <1>5, <2>1, <2>2, <2>3, NothingIsSent
  <1>6. CASE /\ SaveOrClose(kind, s)
             /\ Dispatched(i, kind, IF Authenticated(kind) /\ kind.returnRoute THEN s ELSE Absent)
    <2> DEFINE saved == Authenticated(kind) /\ kind.returnRoute
               own == IF saved THEN s ELSE Absent
               step == [NotReceived EXCEPT !.stage = "handling", !.kind = kind, !.session = own]
               session == IF saved THEN [keys |-> kind.party, connection |-> kind.party]
                          ELSE NoSession
    <2>1. /\ step \in ProgressType /\ session \in SessionType
          /\ step.stage = "handling" /\ step.kind = kind /\ step.session = own
      BY <1>2, <1>3 DEF NotReceived, ProgressType, Stages, SessionType, NoSession
    <2>2. sessionTable' = [sessionTable EXCEPT ![s] = session] /\ Advance(i, step)
      BY <1>6 DEF SaveOrClose, Dispatched
    <2>3. /\ overwritten \subseteq overwritten' /\ overwritten' \subseteq overwritten \cup {s}
          /\ channels' = IF saved THEN channels ELSE [channels EXCEPT ![s] = FALSE]
          /\ ~saved => overwritten' = overwritten
          /\ saved /\ sessionTable[s].keys \notin {Absent, kind.party} /\ AnswerDue(s)
               => s \in overwritten'
      BY <1>6 DEF SaveOrClose
    <2> HIDE DEF step, session
    <2>4. PipelineTypeOK'
      BY <1>1, <2>1, <2>2, <2>3 DEF PipelineInv, PipelineTypeOK, Advance
    <2>5. /\ progress'[i] = step /\ sessionTable'[s] = session
          /\ channels'[s] = (saved /\ channels[s])
      BY <1>1, <2>2, <2>3 DEF Advance, PipelineInv, PipelineTypeOK
    <2>6. SessionInv(s)'
      <3>1. session.keys = session.connection
        BY DEF session, NoSession
      <3>2. ~saved => session = NoSession
        BY DEF session
      <3> QED
        BY <1>1, <2>5, <3>1, <3>2 DEF SessionInv, KeysAreOf
    <2>7. ~saved => \A q : DueOn(s, q)'
      BY <2>5 DEF DueOn, session
    <2>8. saved => session # NoSession /\ session.keys = kind.party
      BY <1>2, PipelineAssumption DEF session, NoSession
    <2>9. ProgressInv(i)'
      <3>1. saved => DueOn(s, kind.party)'
        BY <2>5, <2>8 DEF DueOn, KeysAreOf
      <3> QED
        BY <1>1, <2>1, <2>5, <3>1 DEF ProgressInv, DueOn, KeysAreOf, Authenticated
    <2>10. Carried(i)' /\ Reaches(i)'
      BY <1>1, <2>1, <2>5 DEF Carried, Reaches, AtStage
    <2>11. /\ \A r \in SessionIds \ {s} :
                sessionTable'[r] = sessionTable[r] /\ channels'[r] = channels[r]
           /\ \A j \in Inbound \ {i} : progress'[j] = progress[j]
      BY <2>2, <2>3 DEF Advance, PipelineInv, PipelineTypeOK
    <2>12. ASSUME NEW j \in Inbound \ {i}, progress[j].stage \in {"handling", "answering"},
                  progress[j].session = s
           PROVE  DueOn(s, progress[j].kind.party)'
      <3> DEFINE q == progress[j].kind.party
      <3>1. DueOn(s, q) /\ q \in Parties /\ q # Absent
        BY <2>12, PipelineAssumption DEF PipelineInv, ProgressInv, MessageKind
      <3>2. KeysAreOf(s, q)
        BY <1>1, <3>1 DEF DueOn
      <3>3. progress'[j] = progress[j]
        BY <2>11
      <3>4. AnswerDue(s)
        BY <2>12 DEF AnswerDue
      <3>5. CASE saved
        <4>1. kind.party = q \/ s \in overwritten'
          BY <2>3, <3>1, <3>2, <3>4, <3>5 DEF KeysAreOf
        <4> QED
          BY <2>5, <2>8, <3>3, <3>5, <4>1 DEF DueOn, KeysAreOf
      <3> QED
        BY <2>7, <3>3, <3>5
    <2> QED
      BY <1>1, <2>3, <2>4, <2>6, <2>9, <2>10, <2>11, <2>12, SessionChanges
  <1> QED
    BY <1>4, <1>5, <1>6 DEF ReceiveMessage

LEMMA PipelineInvInitially == PipelineInit => PipelineInv
  <1> SUFFICES ASSUME PipelineInit PROVE PipelineInv
    OBVIOUS
  <1>1. PipelineTypeOK
    BY DEF PipelineInit, PipelineTypeOK, NotReceived, NoSession, ProgressType, Stages, SessionType
  <1>2. \A s \in SessionIds : SessionInv(s)
    BY DEF PipelineInit, SessionInv, KeysAreOf, NoSession
  <1>3. \A i \in Inbound : ProgressInv(i)
    BY DEF PipelineInit, ProgressInv, NotReceived
  <1>4. SentIsCarried /\ AnswersReachTheirSender
    BY DEF PipelineInit, SentIsCarried, AnswersReachTheirSender, AtStage, NotReceived
  <1> QED
    BY <1>1, <1>2, <1>3, <1>4 DEF PipelineInv

LEMMA PipelineInvKept == PipelineInv /\ [PipelineNext]_pipelineVars => PipelineInv'
  <1>1. ASSUME PipelineInv, PipelineNext PROVE PipelineInv'
    BY <1>1, ReceiveMessageKeeps, HandlerReturnsKeeps, HandlerThrowsKeeps, HandlerConnectsKeeps,
       ChooseSessionKeeps, SendToSessionKeeps, TryServiceKeeps, QueueOrFailKeeps, CloseChannelKeeps
    DEF PipelineNext
  <1>2. ASSUME PipelineInv, UNCHANGED pipelineVars PROVE PipelineInv'
    BY <1>2 DEF PipelineInv, PipelineTypeOK, SessionInv, ProgressInv, DueOn, KeysAreOf,
                Authenticated, SentIsCarried, AnswersReachTheirSender, AtStage, Services,
                pipelineVars
  <1> QED
    BY <1>1, <1>2

LEMMA PipelineInvHolds == PipelineSpec => []PipelineInv
  BY PipelineInvInitially, PipelineInvKept, PTL DEF PipelineSpec

\* MessageSender: where a call of sendMessage or sendPackage ends without an error, a
\* session, a service or the queue has the message, but for packages to services of a
\* scheme without a transport.
THEOREM SentMessagesAreCarried == PipelineSpec => []SentIsCarried
  <1>1. PipelineInv => SentIsCarried
    BY DEF PipelineInv
  <1> QED
    BY <1>1, PipelineInvHolds, PTL

\* MessageReceiver and MessageSender: an answer is packed with the keys of the party it
\* answers, whichever messages and closed channels come between, unless another party
\* took over the session while the answer was due.
THEOREM AnswersGoToTheirSender == PipelineSpec => []AnswersReachTheirSender
  <1>1. PipelineInv => AnswersReachTheirSender
    BY DEF PipelineInv
  <1> QED
    BY <1>1, PipelineInvHolds, PTL

-------------------------------------------------------------------------------
(* The lifecycle of an agent *)

CallStages == {"none", "open", "open only", "create", "create only", "set version",
               "set version only", "version", "update", "close", "start", "stop", "stop wallet"}

AgentTypeOK ==
  /\ walletFile \in {"missing", "none", "old", "current"}
  /\ walletOpen \in BOOLEAN /\ isInitialized \in BOOLEAN /\ subscribed \in BOOLEAN
  /\ undisturbed \in BOOLEAN /\ wasShutDown \in BOOLEAN
  /\ agentCalls \in [AgentCallers -> [stage : CallStages, next : Nat \ {0}]]

\* What a call of initialize has started so far, unless calls disturbed each other.
Progressed(c) ==
  At(c, "start") =>
    /\ walletFile = "current"
    /\ undisturbed =>
         \A k \in DOMAIN StartUp : k < agentCalls[c].next => StartUp[k] \in running

Alone == \A c, d \in AgentCallers : ~At(c, "none") /\ ~At(d, "none") => c = d

Complete ==
  isInitialized => \/ ToSet(StartUp) \subseteq running
                   \/ \E c \in AgentCallers : At(c, "stop wallet")

\* The storage is current from the time initialize has looked at it, since it never gets
\* old again.  Only a shutdown stops what was started, and it ends what is initialized.
AgentInv ==
  /\ AgentTypeOK
  /\ isInitialized => walletFile = "current"
  /\ subscribed \/ wasShutDown
  /\ \A c \in AgentCallers : Progressed(c)
  /\ undisturbed => Alone /\ Complete

LEMMA SetAsSequence ==
  ASSUME NEW S, IsFiniteSet(S)
  PROVE  SetToSeq(S) \in Seq(S)
  <1>1. Cardinality(S) \in Nat /\ ExistsBijection(1 .. Cardinality(S), S)
    BY FS_CardinalityType
  <1>2. \E f \in [1 .. Cardinality(S) -> S] : IsInjective(f)
    BY <1>1 DEF ExistsBijection, Bijection, Injection, IsInjective
  <1>3. SetToSeq(S) \in [1 .. Cardinality(S) -> S]
    BY <1>2 DEF SetToSeq
  <1> QED
    BY <1>1, <1>3

\* What initialize starts, in a sequence.
LEMMA StartUpIsSequence ==
  /\ Len(StartUp) \in Nat /\ DOMAIN StartUp = 1 .. Len(StartUp)
  /\ ToSet(StartUp) = {StartUp[k] : k \in DOMAIN StartUp}
  <1> DEFINE modules == Modules \cap InitializingModules
             last == {"provision", "mediator", "mediationRecipient"}
             all == modules \cup InboundTransports \cup AgentTransports \cup last
  <1>1. IsFiniteSet(modules)
    <2>1. IsFiniteSet(GivenModules \cup DefaultModules)
      BY AgentAssumption, FS_Union
    <2>2. modules \subseteq GivenModules \cup DefaultModules
      BY DEF Modules
    <2> QED
      BY <2>1, <2>2, FS_Subset
  <1>2. /\ SetToSeq(modules) \in Seq(all) /\ SetToSeq(InboundTransports) \in Seq(all)
        /\ SetToSeq(AgentTransports) \in Seq(all)
    <2>1. /\ SetToSeq(modules) \in Seq(modules)
          /\ SetToSeq(InboundTransports) \in Seq(InboundTransports)
          /\ SetToSeq(AgentTransports) \in Seq(AgentTransports)
      BY <1>1, AgentAssumption, SetAsSequence
    <2>2. ASSUME NEW S, NEW s \in Seq(S), S \subseteq all PROVE s \in Seq(all)
      BY <2>2
    <2> HIDE DEF modules, last
    <2> QED
      BY <2>1, <2>2
  <1>3. <<"provision", "mediator", "mediationRecipient">> \in Seq(all)
    OBVIOUS
  <1> HIDE DEF all
  <1>4. StartUp \in Seq(all)
    BY <1>2, <1>3 DEF StartUp
  <1> QED
    BY <1>4 DEF ToSet

LEMMA CallIsTyped ==
  ASSUME NEW stage \in CallStages
  PROVE  /\ AgentCall(stage, 1) \in [stage : CallStages, next : Nat \ {0}]
         /\ AgentCall(stage, 1).stage = stage /\ AgentCall(stage, 1).next = 1
  BY DEF AgentCall

\* A step of the call of c that stops nothing, and does not make the agent initialized.
LEMMA NothingStops ==
  ASSUME AgentInv, AgentTypeOK', NEW c \in AgentCallers, NEW call,
         agentCalls' = [agentCalls EXCEPT ![c] = call],
         ~At(c, "none"), ~At(c, "stop wallet"),
         walletFile = "current" => walletFile' = "current",
         running \subseteq running',
         UNCHANGED <<isInitialized, subscribed, wasShutDown, undisturbed>>,
         Progressed(c)'
  PROVE  AgentInv'
  <1>1. \A d \in AgentCallers : d # c => agentCalls'[d] = agentCalls[d]
    BY DEF AgentInv, AgentTypeOK
  <1>2. ASSUME NEW d \in AgentCallers PROVE Progressed(d)'
    <2>1. CASE d # c
      <3>1. Progressed(d) /\ agentCalls'[d] = agentCalls[d]
        BY <1>1, <2>1 DEF AgentInv
      <3> QED
        BY <3>1 DEF Progressed, At
    <2> QED
      BY <2>1
  <1>3. Alone => Alone'
    BY <1>1 DEF Alone, At
  <1>4. Complete => Complete'
    BY <1>1 DEF Complete, At
  <1> QED
    BY <1>2, <1>3, <1>4 DEF AgentInv

\* A call begins, or is refused.
LEMMA CallBegins ==
  ASSUME AgentInv, AgentTypeOK', NEW c \in AgentCallers, Calls(c), NEW call,
         agentCalls' = [agentCalls EXCEPT ![c] = call], call.stage # "start",
         UNCHANGED <<walletFile, running, isInitialized>>,
         subscribed' \/ wasShutDown'
  PROVE  AgentInv'
  <1>1. /\ agentCalls'[c] = call
        /\ \A d \in AgentCallers : d # c => agentCalls'[d] = agentCalls[d]
    BY DEF AgentInv, AgentTypeOK
  <1>2. undisturbed' => undisturbed /\ \A d \in AgentCallers : At(d, "none")
    BY DEF Calls
  <1>3. ASSUME NEW d \in AgentCallers PROVE Progressed(d)'
    <2>1. CASE d # c
      <3>1. Progressed(d) /\ agentCalls'[d] = agentCalls[d]
        BY <1>1, <2>1 DEF AgentInv
      <3> QED
        BY <1>2, <3>1 DEF Progressed, At
    <2>2. CASE d = c
      BY <1>1, <2>2 DEF Progressed, At
    <2> QED
      BY <2>1, <2>2
  <1>4. undisturbed' => Alone'
    BY <1>1, <1>2 DEF Alone, At
  <1>5. undisturbed' => Complete'
    BY <1>2 DEF AgentInv, Complete, At
  <1> QED
    BY <1>3, <1>4, <1>5 DEF AgentInv

LEMMA CallsBeginKeep ==
  ASSUME AgentInv, NEW c \in AgentCallers, Initialize(c) \/ OpenWallet(c) \/ Shutdown(c)
  PROVE  AgentInv'
  <1>1. PICK stage \in CallStages \ {"start"} :
          agentCalls' = [agentCalls EXCEPT ![c] = AgentCall(stage, 1)]
    BY DEF Initialize, OpenWallet, Shutdown, Proceed, Return, NotCalled, CallStages
  <1>2. AgentCall(stage, 1) \in [stage : CallStages, next : Nat \ {0}]
    BY DEF AgentCall
  <1>3. Calls(c) /\ undisturbed' \in BOOLEAN
    BY DEF Initialize, OpenWallet, Shutdown, Calls, AgentInv, AgentTypeOK
  <1>4. /\ UNCHANGED <<walletFile, walletOpen, running, isInitialized>>
        /\ \/ UNCHANGED <<subscribed, wasShutDown>>
           \/ subscribed' = FALSE /\ wasShutDown' = TRUE
    BY DEF Initialize, OpenWallet, Shutdown
  <1>5. AgentTypeOK'
    BY <1>1, <1>2, <1>3, <1>4 DEF AgentInv, AgentTypeOK
  <1>6. AgentCall(stage, 1).stage # "start"
    BY DEF AgentCall
  <1> QED
    BY <1>1, <1>3, <1>4, <1>5, <1>6, CallBegins DEF AgentInv

\* The steps with the wallet, and steps that throw.
LEMMA WalletStepsKeep ==
  ASSUME AgentInv, NEW c \in AgentCallers,
         \/ Open(c) \/ Create(c) \/ SetStorageVersion(c) \/ CheckStorageVersion(c)
         \/ UpdateStorage(c) \/ CloseWallet(c) \/ InitializeThrows(c)
  PROVE  AgentInv'
  <1>1. PICK stage \in CallStages : agentCalls' = [agentCalls EXCEPT ![c] = AgentCall(stage, 1)]
    BY DEF Open, Create, SetStorageVersion, CheckStorageVersion, UpdateStorage, CloseWallet,
           InitializeThrows, Proceed, Return, NotCalled, CallStages
  <1>2. /\ AgentCall(stage, 1) \in [stage : CallStages, next : Nat \ {0}]
        /\ AgentCall(stage, 1).stage = stage /\ AgentCall(stage, 1).next = 1
    BY CallIsTyped
  <1>3. agentCalls'[c] = AgentCall(stage, 1)
    BY <1>1 DEF AgentInv, AgentTypeOK
  <1>4. /\ UNCHANGED <<isInitialized, subscribed, wasShutDown, undisturbed, running>>
        /\ walletOpen' \in BOOLEAN
        /\ \/ walletFile' = walletFile \/ walletFile' = "current"
           \/ walletFile = "missing" /\ walletFile' = "none"
    BY DEF Open, Create, SetStorageVersion, CheckStorageVersion, UpdateStorage, CloseWallet,
           InitializeThrows, AgentInv, AgentTypeOK
  <1>5. AgentTypeOK'
    BY <1>1, <1>2, <1>4 DEF AgentInv, AgentTypeOK
  <1>6. ~At(c, "none") /\ ~At(c, "stop wallet")
    BY DEF Open, Create, SetStorageVersion, CheckStorageVersion, UpdateStorage, CloseWallet,
           InitializeThrows, At
  <1>7. stage = "start" => walletFile' = "current"
    <2>1. CASE CheckStorageVersion(c) \/ UpdateStorage(c)
      <3>1. CASE CheckStorageVersion(c)
        <4>1. agentCalls'[c] = AgentCall(IF walletFile = "current" THEN "start"
                                         ELSE IF autoUpdate THEN "update" ELSE "close", 1)
          BY <3>1 DEF CheckStorageVersion, Proceed, AgentInv, AgentTypeOK
        <4>2. walletFile' = walletFile
          BY <3>1 DEF CheckStorageVersion
        <4> QED
          BY <1>2, <1>3, <4>1, <4>2 DEF AgentCall
      <3>2. CASE UpdateStorage(c)
        BY <3>2 DEF UpdateStorage
      <3> QED
        BY <2>1, <3>1, <3>2
    <2>2. CASE ~(CheckStorageVersion(c) \/ UpdateStorage(c))
      <3>1. PICK other \in CallStages \ {"start"} :
              agentCalls' = [agentCalls EXCEPT ![c] = AgentCall(other, 1)]
        BY <2>2 DEF Open, Create, SetStorageVersion, CloseWallet, InitializeThrows, Proceed,
                    Return, NotCalled, CallStages
      <3>2. agentCalls'[c] = AgentCall(other, 1)
        BY <3>1 DEF AgentInv, AgentTypeOK
      <3> QED
        BY <1>2, <1>3, <3>2 DEF AgentCall
    <2> QED
      BY <2>1, <2>2
  <1>8. Progressed(c)'
    <2>1. \A k \in DOMAIN StartUp : ~(k < 1)
      BY StartUpIsSequence
    <2> QED
      BY <1>2, <1>3, <1>7, <2>1 DEF Progressed, At
  <1>9. walletFile = "current" => walletFile' = "current"
    BY <1>4
  <1> QED
    BY <1>1, <1>4, <1>5, <1>6, <1>8, <1>9, NothingStops

LEMMA StartNextKeeps ==
  ASSUME AgentInv, NEW c \in AgentCallers, StartNext(c)
  PROVE  AgentInv'
  <1> DEFINE n == agentCalls[c].next
             call == [agentCalls[c] EXCEPT !.next = n + 1]
  <1>1. /\ agentCalls' = [agentCalls EXCEPT ![c] = call]
        /\ running' = running \cup {StartUp[n]} /\ At(c, "start")
        /\ UNCHANGED <<walletFile, walletOpen, isInitialized, subscribed, wasShutDown, undisturbed>>
    BY DEF StartNext
  <1>2. agentCalls[c] \in [stage : CallStages, next : Nat \ {0}]
    BY DEF AgentInv, AgentTypeOK
  <1>3. call \in [stage : CallStages, next : Nat \ {0}] /\ call.next = n + 1 /\ n \in Nat
    BY <1>2
  <1>4. agentCalls'[c] = call
    BY <1>1 DEF AgentInv, AgentTypeOK
  <1>5. AgentTypeOK'
    BY <1>1, <1>3 DEF AgentInv, AgentTypeOK
  <1>6. Progressed(c)'
    <2>1. Progressed(c)
      BY DEF AgentInv
    <2>2. ASSUME NEW k \in DOMAIN StartUp, k < n + 1 PROVE k < n \/ k = n
      BY <1>3, <2>2, StartUpIsSequence
    <2>3. n' = n + 1
      BY <1>3, <1>4
    <2> HIDE DEF call
    <2> QED
      BY <1>1, <2>1, <2>2, <2>3 DEF Progressed
  <1> QED
    BY <1>1, <1>5, <1>6, NothingStops DEF At

LEMMA FinishInitializeKeeps ==
  ASSUME AgentInv, NEW c \in AgentCallers, FinishInitialize(c)
  PROVE  AgentInv'
  <1>1. /\ agentCalls' = [agentCalls EXCEPT ![c] = NotCalled]
        /\ At(c, "start") /\ agentCalls[c].next > Len(StartUp) /\ isInitialized' = TRUE
        /\ UNCHANGED <<walletFile, walletOpen, running, subscribed, wasShutDown, undisturbed>>
    BY DEF FinishInitialize, Return
  <1>2. NotCalled \in [stage : CallStages, next : Nat \ {0}] /\ NotCalled.stage = "none"
    BY DEF NotCalled, AgentCall, CallStages
  <1>3. AgentTypeOK'
    BY <1>1, <1>2 DEF AgentInv, AgentTypeOK
  <1>4. \A d \in AgentCallers : agentCalls'[d] = IF d = c THEN NotCalled ELSE agentCalls[d]
    BY <1>1 DEF AgentInv, AgentTypeOK
  <1>5. Progressed(c) /\ walletFile = "current"
    BY <1>1 DEF AgentInv, Progressed
  <1>6. ASSUME NEW d \in AgentCallers PROVE Progressed(d)'
    <2>1. Progressed(d)
      BY DEF AgentInv
    <2> QED
      BY <1>1, <1>2, <1>4, <2>1 DEF Progressed, At
  <1>7. undisturbed' => Alone'
    BY <1>1, <1>2, <1>4 DEF AgentInv, Alone, At
  <1>8. undisturbed' => Complete'
    <2> SUFFICES ASSUME undisturbed, NEW k \in DOMAIN StartUp PROVE StartUp[k] \in running
      BY <1>1, StartUpIsSequence DEF Complete
    <2>1. agentCalls[c].next \in Nat
      BY DEF AgentInv, AgentTypeOK
    <2>2. k < agentCalls[c].next
      BY <1>1, <2>1, StartUpIsSequence
    <2> QED
      BY <1>1, <1>5, <2>2 DEF Progressed
  <1> QED
    BY <1>1, <1>3, <1>5, <1>6, <1>7, <1>8 DEF AgentInv

\* The steps of a shutdown: what it stops is not needed by any other call, unless the two
\* met.
LEMMA StoppingKeeps ==
  ASSUME AgentInv, NEW c \in AgentCallers, StopTransports(c) \/ StopWallet(c)
  PROVE  AgentInv'
  <1>1. PICK stage \in {"stop wallet", "none"} :
          agentCalls' = [agentCalls EXCEPT ![c] = AgentCall(stage, 1)]
    BY DEF StopTransports, StopWallet, Proceed, Return, NotCalled
  <1>2. /\ AgentCall(stage, 1) \in [stage : CallStages, next : Nat \ {0}]
        /\ AgentCall(stage, 1).stage = stage
    <2>1. stage \in CallStages
      BY DEF CallStages
    <2> QED
      BY <2>1, CallIsTyped
  <1>3. /\ UNCHANGED <<walletFile, subscribed, wasShutDown>>
        /\ isInitialized' = isInitialized \/ isInitialized' = FALSE
        /\ undisturbed' = undisturbed \/ undisturbed' = FALSE
        /\ walletOpen' = walletOpen \/ walletOpen' = FALSE
    BY DEF StopTransports, StopWallet
  <1>4. (isInitialized' => isInitialized) /\ (undisturbed' => undisturbed)
    <2>1. isInitialized' = isInitialized \/ isInitialized' = FALSE
            => (isInitialized' => isInitialized)
      BY Zenon
    <2>2. undisturbed' = undisturbed \/ undisturbed' = FALSE
            => (undisturbed' => undisturbed)
      BY Zenon
    <2> QED
      BY <1>3, <2>1, <2>2
  <1>5. AgentTypeOK'
    BY <1>1, <1>2, <1>3 DEF AgentInv, AgentTypeOK
  <1>6. \A d \in AgentCallers :
          agentCalls'[d] = IF d = c THEN AgentCall(stage, 1) ELSE agentCalls[d]
    BY <1>1 DEF AgentInv, AgentTypeOK
  <1>7. ~At(c, "none") /\ ~At(c, "start")
    BY DEF StopTransports, StopWallet, At
  <1>8. undisturbed' => undisturbed /\ Alone /\ Complete
    BY <1>4 DEF AgentInv
  <1>9. undisturbed' => Alone'
    BY <1>2, <1>6, <1>7, <1>8 DEF Alone, At
  <1>10. ASSUME NEW d \in AgentCallers PROVE Progressed(d)'
    <2>1. CASE d = c
      BY <1>2, <1>6, <2>1 DEF Progressed, At
    <2>2. CASE d # c
      <3>1. Progressed(d) /\ agentCalls'[d] = agentCalls[d]
        BY <1>6, <2>2 DEF AgentInv
      <3>2. At(d, "start") => ~undisturbed'
        BY <1>7, <1>8, <2>2 DEF Alone, At
      <3> QED
        BY <1>3, <3>1, <3>2 DEF Progressed, At
    <2> QED
      BY <2>1, <2>2
  <1>11. undisturbed' => Complete'
    <2>1. CASE StopTransports(c)
      <3>1. undisturbed' => agentCalls' = [agentCalls EXCEPT ![c] = AgentCall("stop wallet", 1)]
        BY <2>1 DEF StopTransports, Proceed
      <3>2. AgentCall("stop wallet", 1).stage = "stop wallet"
        BY DEF AgentCall
      <3>3. undisturbed' => agentCalls'[c] = AgentCall("stop wallet", 1)
        BY <3>1 DEF AgentInv, AgentTypeOK
      <3> QED
        BY <3>2, <3>3 DEF Complete, At
    <2>2. CASE StopWallet(c)
      BY <2>2 DEF StopWallet, Complete
    <2> QED
      BY <2>1, <2>2
  <1> QED
    BY <1>3, <1>4, <1>5, <1>9, <1>10, <1>11 DEF AgentInv

LEMMA CrashAgentKeeps ==
  ASSUME AgentInv, CrashAgent
  PROVE  AgentInv'
  <1>1. NotCalled \in [stage : CallStages, next : Nat \ {0}] /\ NotCalled.stage = "none"
    BY DEF NotCalled, AgentCall, CallStages
  <1>2. \A c \in AgentCallers : agentCalls'[c] = NotCalled
    BY DEF CrashAgent
  <1> QED
    BY <1>1, <1>2 DEF CrashAgent, AgentInv, AgentTypeOK, Progressed, Alone, Complete, At

LEMMA AgentInvInitially == AgentInit => AgentInv
  <1> SUFFICES ASSUME AgentInit PROVE AgentInv
    OBVIOUS
  <1>1. NotCalled \in [stage : CallStages, next : Nat \ {0}] /\ NotCalled.stage = "none"
    BY DEF NotCalled, AgentCall, CallStages
  <1>2. \A c \in AgentCallers : agentCalls[c] = NotCalled
    BY DEF AgentInit
  <1> QED
    BY <1>1, <1>2 DEF AgentInit, AgentInv, AgentTypeOK, Progressed, Alone, Complete, At

LEMMA AgentInvKept == AgentInv /\ [AgentNext]_agentVars => AgentInv'
  <1>1. ASSUME AgentInv, AgentNext PROVE AgentInv'
    BY <1>1, CallsBeginKeep, WalletStepsKeep, StartNextKeeps, FinishInitializeKeeps,
       StoppingKeeps, CrashAgentKeeps
    DEF AgentNext
  <1>2. ASSUME AgentInv, UNCHANGED agentVars PROVE AgentInv'
    BY <1>2 DEF AgentInv, AgentTypeOK, Progressed, Alone, Complete, At, agentVars
  <1> QED
    BY <1>1, <1>2

\* BaseAgent.initialize, Agent.initialize and shutdown: however calls overlap, fail and are
\* repeated, what says it is initialized has storage of the current version; it has its
\* modules, transports and mediation started, unless calls overlapped or a shutdown failed.
THEOREM InitializedAgentsAreReady == AgentSpec => []InitializedAgentIsReady
  <1>1. AgentInv => InitializedAgentIsReady
    BY DEF AgentInv, InitializedAgentIsReady, IsInitialized, Complete, ShuttingDown, At
  <1> QED
    BY <1>1, AgentInvInitially, AgentInvKept, PTL DEF AgentSpec

-------------------------------------------------------------------------------
(* Filters *)

\* A nonempty set of natural numbers has a least element.
LEMMA LeastIsElement ==
  ASSUME NEW S, S \subseteq Nat, S # {}
  PROVE  Min(S) \in S /\ \A y \in S : Min(S) <= y
  <1>1. PICK x \in S : \A y \in S : <<y, x>> \notin OpToRel(<, Nat)
    BY NatLessThanWellFounded, WFMin
  <1>2. \A y \in S : x =< y
    <2> TAKE y \in S
    <2>1. ~(y < x)
      BY <1>1 DEF OpToRel
    <2> QED
      BY <2>1
  <1> QED
    BY <1>2 DEF Min

LEMMA Appended ==
  ASSUME NEW S, NEW s \in Seq(S), NEW x \in S
  PROVE  x \in ToSet(Append(s, x)) /\ ToSet(s) \subseteq ToSet(Append(s, x))
  <1>1. Len(s) + 1 \in DOMAIN Append(s, x) /\ Append(s, x)[Len(s) + 1] = x
    OBVIOUS
  <1>2. \A i \in DOMAIN s : i \in DOMAIN Append(s, x) /\ Append(s, x)[i] = s[i]
    OBVIOUS
  <1> QED
    BY <1>1, <1>2 DEF ToSet

\* The elements of a sequence that are in a set: all of them, and no others.
LEMMA AmongType ==
  ASSUME NEW S, NEW map \in Seq(S), NEW entries
  PROVE  /\ Among(map, entries) \in Seq(S \cap entries)
         /\ \A k \in 1 .. Len(map) : map[k] \in entries => map[k] \in ToSet(Among(map, entries))
  <1> DEFINE n == Len(map)
             T == S \cap entries
             Value(g, k) == IF k = 0 THEN <<>>
                           ELSE IF map[k] \in entries THEN Append(g[k - 1], map[k]) ELSE g[k - 1]
             Solves(g, m) == g = [k \in 0 .. m |-> Value(g, k)]
             Unsolved == {m \in 0 .. n : \A g : ~Solves(g, m)}
  <1>1. n \in Nat /\ \A k \in 1 .. n : map[k] \in S
    OBVIOUS
  <1> HIDE DEF n
  <1>2. Unsolved = {}
    <2> SUFFICES ASSUME Unsolved # {} PROVE FALSE
      OBVIOUS
    <2>1. PICK m \in Unsolved : \A y \in Unsolved : m <= y
      <3>1. Unsolved \subseteq Nat
        BY <1>1
      <3> HIDE DEF Unsolved
      <3> QED
        BY <3>1, LeastIsElement
    <2>2. CASE m = 0
      <3>1. Solves([k \in 0 .. 0 |-> <<>>], 0)
        OBVIOUS
      <3> QED
        BY <2>1, <2>2, <3>1
    <2>3. CASE m # 0
      <3>1. m - 1 \in 0 .. n /\ m - 1 \notin Unsolved
        <4>1. m \in 0 .. n
          BY <2>1
        <4>2. m - 1 \in 0 .. n /\ ~(m <= m - 1)
          BY <1>1, <2>3, <4>1
        <4> HIDE DEF Unsolved
        <4> QED
          BY <2>1, <4>2
      <3>2. PICK g : Solves(g, m - 1)
        BY <3>1
      <3> DEFINE h == [k \in 0 .. m |-> IF k = m THEN Value(g, m) ELSE g[k]]
      <3>3. ASSUME NEW k \in 0 .. m PROVE h[k] = Value(h, k)
        <4>1. m \in Nat /\ k \in Nat
          BY <1>1
        <4>2. k # 0 => h[k - 1] = g[k - 1]
          BY <4>1
        <4>3. Value(h, k) = Value(g, k)
          BY <4>2
        <4>4. k # m => g[k] = Value(g, k)
          <5> SUFFICES ASSUME k # m PROVE g[k] = Value(g, k)
            OBVIOUS
          <5>1. k \in 0 .. m - 1
            BY <4>1
          <5> QED
            BY <3>2, <5>1
        <4> HIDE DEF Value
        <4> QED
          BY <4>3, <4>4
      <3>4. Solves(h, m)
        <4> HIDE DEF Value
        <4>1. h = [k \in 0 .. m |-> h[k]]
          OBVIOUS
        <4> HIDE DEF h
        <4> QED
          BY <3>3, <4>1
      <3> HIDE DEF Solves, h
      <3> QED
        BY <2>1, <3>4
    <2> QED
      BY <2>2, <2>3
  <1> DEFINE upTo == CHOOSE g : Solves(g, n)
  <1>3. Solves(upTo, n)
    <2>1. \E g : Solves(g, n)
      <3> HIDE DEF Solves
      <3> QED
        BY <1>1, <1>2
    <2> HIDE DEF Solves
    <2> QED
      BY <2>1
  <1>4. Among(map, entries) = upTo[n]
    BY DEF Among, n
  <1> HIDE DEF upTo
  <1> DEFINE Untyped == {k \in 0 .. n : upTo[k] \notin Seq(T)}
  <1>5. Untyped = {}
    <2> SUFFICES ASSUME Untyped # {} PROVE FALSE
      OBVIOUS
    <2>1. PICK k \in Untyped : \A y \in Untyped : k <= y
      <3>1. Untyped \subseteq Nat
        BY <1>1
      <3> HIDE DEF Untyped
      <3> QED
        BY <3>1, LeastIsElement
    <2>2. upTo[k] = Value(upTo, k) /\ k \in Nat
      <3>1. k \in 0 .. n
        BY <2>1
      <3> HIDE DEF Value
      <3> QED
        BY <1>1, <1>3, <3>1
    <2>3. k # 0 => upTo[k - 1] \in Seq(T)
      BY <1>1, <2>1, <2>2
    <2>4. k # 0 /\ map[k] \in entries => map[k] \in T
      BY <1>1, <2>1, <2>2
    <2>5. upTo[k] \in Seq(T)
      <3> HIDE DEF T
      <3> QED
        BY <2>2, <2>3, <2>4
    <2> QED
      BY <2>1, <2>5
  <1> DEFINE Dropped == {m \in 0 .. n : \E k \in 1 .. m : map[k] \in entries /\ map[k] \notin ToSet(upTo[m])}
  <1>6. Dropped = {}
    <2> SUFFICES ASSUME Dropped # {} PROVE FALSE
      OBVIOUS
    <2>1. PICK m \in Dropped : \A y \in Dropped : m <= y
      <3>1. Dropped \subseteq Nat
        BY <1>1
      <3> HIDE DEF Dropped
      <3> QED
        BY <3>1, LeastIsElement
    <2>2. m \in 0 .. n /\ m # 0 /\ m - 1 \in 0 .. n /\ ~(m <= m - 1)
      <3>1. m \in 0 .. n /\ \E k \in 1 .. m : TRUE
        BY <2>1
      <3> QED
        BY <1>1, <3>1
    <2>3. PICK k \in 1 .. m : map[k] \in entries /\ map[k] \notin ToSet(upTo[m])
      BY <2>1
    <2>4. m - 1 \notin Dropped
      <3> HIDE DEF Dropped
      <3> QED
        BY <2>1, <2>2
    <2>5. k \in 1 .. m - 1 => map[k] \in ToSet(upTo[m - 1])
      BY <2>2, <2>3, <2>4
    <2>6. upTo[m] = IF map[m] \in entries THEN Append(upTo[m - 1], map[m]) ELSE upTo[m - 1]
      <3>1. upTo[m] = Value(upTo, m)
        <4> HIDE DEF Value
        <4> QED
          BY <1>3, <2>2
      <3> QED
        BY <2>2, <3>1
    <2>7. upTo[m - 1] \in Seq(T) /\ (map[m] \in entries => map[m] \in T)
      BY <1>1, <1>5, <2>2
    <2> HIDE DEF T
    <2>8. map[m] \in entries =>
            map[m] \in ToSet(upTo[m]) /\ ToSet(upTo[m - 1]) \subseteq ToSet(upTo[m])
      BY <2>6, <2>7, Appended
    <2>9. map[m] \notin entries => upTo[m] = upTo[m - 1]
      BY <2>6
    <2>10. k = m \/ k \in 1 .. m - 1
      BY <2>2, <2>3
    <2> QED
      BY <2>3, <2>5, <2>8, <2>9, <2>10
  <1>7. ASSUME NEW k \in 1 .. n, map[k] \in entries
        PROVE  map[k] \in ToSet(upTo[n])
    BY <1>1, <1>6, <1>7
  <1> QED
    BY <1>1, <1>4, <1>5, <1>7 DEF n

-------------------------------------------------------------------------------
(* Updates of the storage *)

\* "undefined" is no record of a wallet.
UnsetIsNoWallet ==
  \A open, version, records : Unset # [open |-> open, version |-> version, records |-> records]

IsWallet(w) == w = [open |-> w.open, version |-> w.version, records |-> w.records]

IsWork(w) ==
  w = [stage |-> w.stage, updates |-> w.updates, done |-> w.done, migration |-> w.migration,
       todo |-> w.todo, writes |-> w.writes]

IsContents(contents) ==
  contents = [version |-> StorageVersion(contents), records |-> contents.records]

\* A backup file is of the update that runs or of one before; an update has one only.
BackupsInv ==
  /\ updateRuns \in Nat
  /\ \A b \in backups : b.run \in Nat /\ b.run <= updateRuns /\ IsContents(b.contents)
  /\ AtUpdateStage("backup") => \A b \in backups : b.run < updateRuns
  /\ \A b, c \in OwnBackup : b.contents = c.contents

\* While records are migrated the original is in a backup; once the backup is imported
\* the wallet is what the backup says, whichever the original is in.
WorkInv ==
  /\ work.todo # {} \/ work.writes # <<>> => AtUpdateStage("migrating")
  /\ work.stage \in {"migrating", "export", "delete", "import"} =>
       \E b \in backups : b.contents = settled
  /\ work.stage \in {"backup", "migrating", "export", "delete", "open", "clean up"} =>
       wallet # Unset
  /\ work.stage \in {"open", "clean up"} => \E b \in OwnBackup : b.contents = Contents(wallet)

UpdateInv ==
  /\ wallet # Unset => IsWallet(wallet)
  /\ IsWork(work)
  /\ BackupsInv
  /\ WorkInv
  /\ OriginalIsKept

\* A version that was read stays what it is when it is written and read again.
LEMMA ContentsAreContents ==
  ASSUME NEW w
  PROVE  /\ IsContents(Contents(w))
         /\ Contents(w).version = StorageVersion(w) /\ Contents(w).records = w.records
  BY DEF IsContents, Contents, StorageVersion

LEMMA WalletOfContents ==
  ASSUME NEW open, NEW contents, IsContents(contents)
  PROVE  LET w == [open |-> open, version |-> contents.version, records |-> contents.records]
         IN  IsWallet(w) /\ Contents(w) = contents
  BY DEF IsWallet, IsContents, Contents, StorageVersion

\* Opening, closing or reading the version of a wallet leaves its contents.
LEMMA WalletEdits ==
  ASSUME IsWallet(wallet)
  PROVE  /\ \A open : LET w == [wallet EXCEPT !.open = open]
                      IN  IsWallet(w) /\ Contents(w) = Contents(wallet)
         /\ LET w == [wallet EXCEPT !.version = StorageVersion(wallet)]
            IN  IsWallet(w) /\ Contents(w) = Contents(wallet)
         /\ \A version : IsWallet([wallet EXCEPT !.version = version])
         /\ \A records : IsWallet([wallet EXCEPT !.records = records])
  BY DEF IsWallet, Contents, StorageVersion

LEMMA WalletIsThere ==
  ASSUME UnsetIsNoWallet, NEW w, IsWallet(w)
  PROVE  w # Unset
  BY DEF UnsetIsNoWallet, IsWallet

LEMMA StageOnly ==
  ASSUME NEW stage, ToStage(stage)
  PROVE  IsWork(work') /\ work'.stage = stage /\ work'.todo = {} /\ work'.writes = <<>>
  BY DEF ToStage, NoUpdate, IsWork

LEMMA InitializeWalletKeeps ==
  ASSUME UnsetIsNoWallet, UpdateInv, InitializeWallet
  PROVE  UpdateInv'
  <1>1. work.stage = "none" /\ UNCHANGED <<backups, work, settled, updateRuns, updateCrashes>>
    BY DEF InitializeWallet, AtUpdateStage
  <1>2. wallet' # Unset /\ IsWallet(wallet') /\ OriginalIsKept'
    <2>1. CASE wallet = Unset
      <3>1. wallet' = [open |-> TRUE, version |-> FrameworkVersion, records |-> {}]
        BY <2>1 DEF InitializeWallet
      <3>2. IsWallet(wallet')
        BY <3>1 DEF IsWallet
      <3> QED
        BY <1>1, <2>1, <3>2, WalletIsThere DEF UpdateInv, OriginalIsKept
    <2>2. CASE wallet # Unset
      <3>1. wallet' = [wallet EXCEPT !.open = TRUE]
        BY <2>2 DEF InitializeWallet
      <3>2. IsWallet(wallet') /\ Contents(wallet') = Contents(wallet)
        BY <2>2, <3>1, WalletEdits DEF UpdateInv
      <3>3. wallet' # Unset
        BY <3>2, WalletIsThere
      <3> QED
        BY <1>1, <2>2, <3>2, <3>3 DEF UpdateInv, OriginalIsKept, Contents
    <2> QED
      BY <2>1, <2>2
  <1> QED
    BY <1>1, <1>2 DEF UpdateInv, BackupsInv, WorkInv, AtUpdateStage, OwnBackup

LEMMA ReadStorageVersionKeeps ==
  ASSUME UnsetIsNoWallet, UpdateInv, ReadStorageVersion
  PROVE  UpdateInv'
  <1>1. /\ work.stage = "none" /\ wallet # Unset
        /\ wallet' = [wallet EXCEPT !.version = StorageVersion(wallet)]
        /\ UNCHANGED <<backups, work, settled, updateRuns, updateCrashes>>
    BY DEF ReadStorageVersion, AtUpdateStage, Opened
  <1>2. IsWallet(wallet') /\ Contents(wallet') = Contents(wallet)
    BY <1>1, WalletEdits DEF UpdateInv
  <1>3. wallet' # Unset
    BY <1>2, WalletIsThere
  <1> QED
    BY <1>1, <1>2, <1>3
    DEF UpdateInv, BackupsInv, WorkInv, AtUpdateStage, OwnBackup, OriginalIsKept, Contents

LEMMA StartUpdateKeeps ==
  ASSUME UnsetIsNoWallet, UpdateInv, NEW toVersion, StartUpdate(toVersion)
  PROVE  UpdateInv'
  <1>1. /\ work.stage = "none" /\ wallet # Unset
        /\ wallet' = [wallet EXCEPT !.version = StorageVersion(wallet)]
        /\ UNCHANGED <<backups, settled>> /\ updateRuns' = updateRuns + 1
    BY DEF StartUpdate, AtUpdateStage, Opened
  <1>2. IsWallet(wallet') /\ Contents(wallet') = Contents(wallet)
    BY <1>1, WalletEdits DEF UpdateInv
  <1>3. wallet' # Unset
    BY <1>2, WalletIsThere
  <1>4. IsWork(work') /\ work'.stage = "backup" /\ work'.todo = {} /\ work'.writes = <<>>
    BY DEF StartUpdate, NoUpdate, IsWork
  <1>5. \A b \in backups : b.run < updateRuns'
    BY <1>1 DEF UpdateInv, BackupsInv
  <1>6. BackupsInv'
    BY <1>1, <1>4, <1>5
    DEF UpdateInv, BackupsInv, AtUpdateStage, OwnBackup, IsContents, StorageVersion
  <1>7. WorkInv'
    BY <1>3, <1>4 DEF WorkInv
  <1>8. OriginalIsKept'
    BY <1>1, <1>2, <1>3 DEF UpdateInv, OriginalIsKept, Contents
  <1> QED
    BY <1>2, <1>4, <1>6, <1>7, <1>8 DEF UpdateInv

LEMMA CreateBackupKeeps ==
  ASSUME UpdateInv, CreateBackup
  PROVE  UpdateInv'
  <1>1. work.stage = "backup" /\ UNCHANGED <<wallet, settled, updateRuns>> /\ wallet # Unset
    BY DEF CreateBackup, UpdateInv, WorkInv, AtUpdateStage
  <1>2. CASE /\ backups' = backups \cup {[run |-> updateRuns, contents |-> Contents(wallet)]}
             /\ work' = [work EXCEPT !.stage = "migrating"]
    <2> DEFINE new == [run |-> updateRuns, contents |-> Contents(wallet)]
    <2>1. new.run = updateRuns /\ new.contents = Contents(wallet) /\ IsContents(new.contents)
      BY ContentsAreContents
    <2> HIDE DEF new
    <2>2. IsWork(work') /\ work'.stage = "migrating"
      BY <1>2 DEF UpdateInv, IsWork
    <2>3. \A b \in backups : b.run < updateRuns
      BY <1>1 DEF UpdateInv, BackupsInv, AtUpdateStage
    <2>4. OwnBackup' = {new}
      BY <1>1, <1>2, <2>1, <2>3 DEF OwnBackup, UpdateInv, BackupsInv, new
    <2>5. BackupsInv'
      <3>1. \A b \in backups' : b.run \in Nat /\ b.run <= updateRuns /\ IsContents(b.contents)
        BY <1>2, <2>1 DEF UpdateInv, BackupsInv, new
      <3> QED
        BY <1>1, <2>2, <2>4, <3>1
        DEF UpdateInv, BackupsInv, AtUpdateStage, IsContents, StorageVersion
    <2>6. \E b \in backups' : b.contents = settled
      BY <1>2, <2>1 DEF UpdateInv, OriginalIsKept, new
    <2>7. WorkInv'
      BY <1>1, <2>2, <2>6 DEF WorkInv, AtUpdateStage
    <2>8. OriginalIsKept'
      BY <1>1, <2>6 DEF OriginalIsKept
    <2> QED
      BY <1>1, <2>2, <2>5, <2>7, <2>8 DEF UpdateInv, IsWallet
  <1>3. CASE ToStage("none") /\ UNCHANGED backups
    <2>1. IsWork(work') /\ work'.stage = "none" /\ work'.todo = {} /\ work'.writes = <<>>
      BY <1>3, StageOnly
    <2> QED
      BY <1>1, <1>3, <2>1
      DEF UpdateInv, BackupsInv, WorkInv, AtUpdateStage, OwnBackup, OriginalIsKept, Contents,
          StorageVersion, IsWallet, IsContents
  <1> QED
    BY <1>2, <1>3 DEF CreateBackup

\* The migrations change the wallet and what is left to do, with the backup in its place.
LEMMA MigratingKeeps ==
  ASSUME UpdateInv, AtUpdateStage("migrating"), IsWork(work'), AtUpdateStage("migrating")',
         wallet' # Unset, IsWallet(wallet'), UNCHANGED <<backups, settled, updateRuns>>
  PROVE  UpdateInv'
  <1>1. \E b \in backups : b.contents = settled
    BY DEF UpdateInv, WorkInv, AtUpdateStage
  <1>2. BackupsInv'
    BY DEF UpdateInv, BackupsInv, AtUpdateStage, OwnBackup, IsContents, StorageVersion
  <1>3. WorkInv'
    BY <1>1 DEF WorkInv, AtUpdateStage
  <1>4. OriginalIsKept'
    BY <1>1 DEF OriginalIsKept
  <1> QED
    BY <1>2, <1>3, <1>4 DEF UpdateInv

LEMMA MigrationsKeep ==
  ASSUME UnsetIsNoWallet, UpdateInv,
         \/ NextMigration \/ SetCurrentStorageVersion \/ WriteRecord
         \/ \E r \in work.todo : MigrateRecord(r)
  PROVE  UpdateInv'
  <1>1. AtUpdateStage("migrating")
    BY DEF NextMigration, SetCurrentStorageVersion, WriteRecord, Idle, UpdateInv, WorkInv
  <1>2. wallet # Unset /\ IsWallet(wallet) /\ IsWork(work)
    BY <1>1 DEF UpdateInv, WorkInv, AtUpdateStage
  <1>3. UNCHANGED <<backups, settled, updateRuns>>
    BY DEF NextMigration, SetCurrentStorageVersion, WriteRecord, MigrateRecord
  <1>4. IsWork(work') /\ AtUpdateStage("migrating")'
    <2>1. CASE NextMigration
      BY <1>1, <1>2, <2>1 DEF NextMigration, IsWork, AtUpdateStage
    <2>2. CASE SetCurrentStorageVersion
      BY <1>1, <1>2, <2>2 DEF SetCurrentStorageVersion, IsWork, AtUpdateStage
    <2>3. CASE WriteRecord
      BY <1>1, <1>2, <2>3 DEF WriteRecord, IsWork, AtUpdateStage
    <2>4. CASE \E r \in work.todo : MigrateRecord(r)
      BY <1>1, <1>2, <2>4 DEF MigrateRecord, IsWork, AtUpdateStage
    <2> QED
      BY <2>1, <2>2, <2>3, <2>4
  <1>5. IsWallet(wallet')
    BY <1>2, WalletEdits DEF NextMigration, SetCurrentStorageVersion, WriteRecord, MigrateRecord
  <1>6. wallet' # Unset
    BY <1>5, WalletIsThere
  <1> QED
    BY <1>1, <1>3, <1>4, <1>5, <1>6, MigratingKeeps

LEMMA FinishUpdateKeeps ==
  ASSUME UpdateInv, FinishUpdate
  PROVE  UpdateInv'
  <1>1. /\ AtUpdateStage("migrating") /\ UNCHANGED <<wallet, updateRuns>>
        /\ backups' = backups \ OwnBackup /\ settled' = Contents(wallet)
    BY DEF FinishUpdate, Idle
  <1>2. wallet # Unset
    BY <1>1 DEF UpdateInv, WorkInv, AtUpdateStage
  <1>3. IsWork(work') /\ work'.stage = "none" /\ work'.todo = {} /\ work'.writes = <<>>
    BY DEF FinishUpdate, NoUpdate, IsWork
  <1>4. BackupsInv'
    BY <1>1, <1>3 DEF UpdateInv, BackupsInv, AtUpdateStage, OwnBackup, IsContents, StorageVersion
  <1>5. WorkInv'
    BY <1>3 DEF WorkInv
  <1>6. OriginalIsKept'
    BY <1>1, <1>2 DEF OriginalIsKept, Contents, StorageVersion
  <1> QED
    BY <1>1, <1>3, <1>4, <1>5, <1>6 DEF UpdateInv, IsWallet

LEMMA FailuresKeep ==
  ASSUME UpdateInv, FailUpdate \/ RestoreFails
  PROVE  UpdateInv'
  <1>1. UNCHANGED <<wallet, backups, settled, updateRuns>>
    BY DEF FailUpdate, RestoreFails
  <1>2. PICK stage \in {"export", "none"} : ToStage(stage) /\ (stage = "export" => FailUpdate)
    BY DEF FailUpdate, RestoreFails
  <1>3. IsWork(work') /\ work'.stage = stage /\ work'.todo = {} /\ work'.writes = <<>>
    BY <1>2, StageOnly
  <1>4. stage = "export" => wallet # Unset /\ \E b \in backups : b.contents = settled
    BY <1>2 DEF FailUpdate, UpdateInv, WorkInv, AtUpdateStage
  <1>5. BackupsInv'
    BY <1>1, <1>2, <1>3
    DEF UpdateInv, BackupsInv, AtUpdateStage, OwnBackup, IsContents, StorageVersion
  <1>6. WorkInv'
    BY <1>1, <1>2, <1>3, <1>4 DEF WorkInv
  <1> QED
    BY <1>1, <1>3, <1>5, <1>6 DEF UpdateInv, OriginalIsKept, Contents, StorageVersion, IsWallet

\* The backup is imported, opened and deleted.
LEMMA RestoreBackupKeeps ==
  ASSUME UnsetIsNoWallet, UpdateInv, RestoreBackup
  PROVE  UpdateInv'
  <1>1. UNCHANGED <<settled, updateRuns>>
    BY DEF RestoreBackup
  <1>2. CASE AtUpdateStage("export") /\ ToStage("delete") /\ UNCHANGED <<wallet, backups>>
    <2>1. IsWork(work') /\ work'.stage = "delete" /\ work'.todo = {} /\ work'.writes = <<>>
      BY <1>2, StageOnly
    <2> QED
      BY <1>1, <1>2, <2>1
      DEF UpdateInv, BackupsInv, WorkInv, AtUpdateStage, OwnBackup, OriginalIsKept, Contents,
          StorageVersion, IsWallet, IsContents
  <1>3. CASE AtUpdateStage("delete") /\ ToStage("import") /\ wallet' = Unset /\ UNCHANGED backups
    <2>1. IsWork(work') /\ work'.stage = "import" /\ work'.todo = {} /\ work'.writes = <<>>
      BY <1>3, StageOnly
    <2>2. \E b \in backups : b.contents = settled
      BY <1>3 DEF UpdateInv, WorkInv, AtUpdateStage
    <2> QED
      BY <1>1, <1>3, <2>1, <2>2
      DEF UpdateInv, BackupsInv, WorkInv, AtUpdateStage, OwnBackup, OriginalIsKept,
          StorageVersion, IsContents
  <1>4. CASE /\ AtUpdateStage("import") /\ ToStage("open") /\ UNCHANGED backups
             /\ \E b \in OwnBackup :
                  wallet' = [open |-> FALSE, version |-> b.contents.version,
                             records |-> b.contents.records]
    <2>1. IsWork(work') /\ work'.stage = "open" /\ work'.todo = {} /\ work'.writes = <<>>
      BY <1>4, StageOnly
    <2>2. PICK b \in OwnBackup :
            wallet' = [open |-> FALSE, version |-> b.contents.version,
                       records |-> b.contents.records]
      BY <1>4
    <2>3. IsContents(b.contents)
      BY DEF OwnBackup, UpdateInv, BackupsInv
    <2>4. IsWallet(wallet') /\ Contents(wallet') = b.contents
      BY <2>2, <2>3, WalletOfContents
    <2>5. wallet' # Unset
      BY <2>4, WalletIsThere
    <2>6. OwnBackup' = OwnBackup
      BY <1>1, <1>4 DEF OwnBackup
    <2>7. BackupsInv'
      BY <1>1, <1>4, <2>1, <2>6 DEF UpdateInv, BackupsInv, AtUpdateStage, IsContents, StorageVersion
    <2>8. WorkInv'
      <3>1. Contents(wallet)' = b.contents
        BY <2>4 DEF Contents, StorageVersion
      <3> QED
        BY <2>1, <2>5, <2>6, <3>1 DEF WorkInv
    <2>9. OriginalIsKept'
      BY <1>1, <1>4 DEF UpdateInv, WorkInv, AtUpdateStage, OriginalIsKept
    <2> QED
      BY <2>1, <2>4, <2>7, <2>8, <2>9 DEF UpdateInv, IsWallet
  <1>5. CASE /\ AtUpdateStage("open") /\ ToStage("clean up") /\ UNCHANGED backups
             /\ wallet' = [wallet EXCEPT !.open = TRUE]
    <2>1. IsWork(work') /\ work'.stage = "clean up" /\ work'.todo = {} /\ work'.writes = <<>>
      BY <1>5, StageOnly
    <2>2. IsWallet(wallet) /\ wallet # Unset
      BY <1>5 DEF UpdateInv, WorkInv, AtUpdateStage
    <2>3. IsWallet(wallet') /\ Contents(wallet') = Contents(wallet)
      BY <1>5, <2>2, WalletEdits
    <2>4. wallet' # Unset
      BY <2>3, WalletIsThere
    <2>5. OwnBackup' = OwnBackup /\ Contents(wallet)' = Contents(wallet)
      BY <1>1, <1>5, <2>3 DEF OwnBackup, Contents, StorageVersion
    <2>6. BackupsInv'
      BY <1>1, <1>5, <2>1, <2>5 DEF UpdateInv, BackupsInv, AtUpdateStage, IsContents, StorageVersion
    <2>7. WorkInv'
      BY <1>5, <2>1, <2>4, <2>5 DEF UpdateInv, WorkInv, AtUpdateStage
    <2>8. OriginalIsKept'
      BY <1>1, <1>5, <2>2, <2>4, <2>5 DEF UpdateInv, OriginalIsKept
    <2> QED
      BY <2>1, <2>3, <2>6, <2>7, <2>8 DEF UpdateInv, IsWallet
  <1>6. CASE /\ AtUpdateStage("clean up") /\ ToStage("none") /\ UNCHANGED wallet
             /\ backups' = backups \ OwnBackup
    <2>1. IsWork(work') /\ work'.stage = "none" /\ work'.todo = {} /\ work'.writes = <<>>
      BY <1>6, StageOnly
    <2>2. wallet # Unset /\ \E b \in OwnBackup : b.contents = Contents(wallet)
      BY <1>6 DEF UpdateInv, WorkInv, AtUpdateStage
    <2>3. BackupsInv'
      BY <1>1, <1>6, <2>1
      DEF UpdateInv, BackupsInv, AtUpdateStage, OwnBackup, IsContents, StorageVersion
    <2>4. WorkInv'
      BY <2>1 DEF WorkInv
    <2>5. Contents(wallet) = settled \/ \E b \in backups \ OwnBackup : b.contents = settled
      <3>1. CASE \E b \in OwnBackup : b.contents = settled
        BY <2>2, <3>1 DEF UpdateInv, BackupsInv
      <3>2. CASE ~ \E b \in OwnBackup : b.contents = settled
        BY <3>2 DEF UpdateInv, OriginalIsKept
      <3> QED
        BY <3>1, <3>2
    <2>6. OriginalIsKept'
      BY <1>1, <1>6, <2>2, <2>5 DEF OriginalIsKept, Contents, StorageVersion
    <2> QED
      BY <1>6, <2>1, <2>3, <2>4, <2>6 DEF UpdateInv, IsWallet
  <1> QED
    BY <1>2, <1>3, <1>4, <1>5, <1>6 DEF RestoreBackup

LEMMA CrashInUpdateKeeps ==
  ASSUME UnsetIsNoWallet, UpdateInv, CrashInUpdate
  PROVE  UpdateInv'
  <1>1. /\ UNCHANGED <<backups, settled, updateRuns>>
        /\ wallet' = IF wallet = Unset THEN Unset ELSE [wallet EXCEPT !.open = FALSE]
    BY DEF CrashInUpdate
  <1>2. IsWork(work') /\ work'.stage = "none" /\ work'.todo = {} /\ work'.writes = <<>>
    BY DEF CrashInUpdate, NoUpdate, IsWork
  <1>3. BackupsInv'
    BY <1>1, <1>2 DEF UpdateInv, BackupsInv, AtUpdateStage, OwnBackup, IsContents, StorageVersion
  <1>4. WorkInv'
    BY <1>2 DEF WorkInv
  <1>5. CASE wallet = Unset
    BY <1>1, <1>2, <1>3, <1>4, <1>5 DEF UpdateInv, OriginalIsKept
  <1>6. CASE wallet # Unset
    <2>1. IsWallet(wallet') /\ Contents(wallet') = Contents(wallet)
      BY <1>1, <1>6, WalletEdits DEF UpdateInv
    <2>2. wallet' # Unset
      BY <2>1, WalletIsThere
    <2>3. OriginalIsKept'
      BY <1>1, <1>6, <2>1, <2>2 DEF UpdateInv, OriginalIsKept, Contents, StorageVersion
    <2> QED
      BY <1>2, <1>3, <1>4, <2>1, <2>3 DEF UpdateInv, IsWallet
  <1> QED
    BY <1>5, <1>6

LEMMA UpdateInvInitially ==
  ASSUME UnsetIsNoWallet, UpdateInit
  PROVE  UpdateInv
  <1>1. PICK w \in LegacyWallets :
          /\ wallet = [open |-> FALSE, version |-> w.version, records |-> w.records]
          /\ settled = Contents(w)
    BY DEF UpdateInit
  <1>2. IsWallet(wallet) /\ Contents(wallet) = Contents(w)
    BY <1>1 DEF IsWallet, Contents, StorageVersion
  <1>3. wallet # Unset
    BY <1>2, WalletIsThere
  <1>4. IsWork(work) /\ work.stage = "none" /\ work.todo = {} /\ work.writes = <<>>
    BY DEF UpdateInit, NoUpdate, IsWork
  <1>5. BackupsInv
    BY <1>4 DEF UpdateInit, BackupsInv, OwnBackup, AtUpdateStage
  <1>6. WorkInv
    BY <1>4 DEF WorkInv
  <1> QED
    BY <1>1, <1>2, <1>3, <1>4, <1>5, <1>6 DEF UpdateInv, OriginalIsKept

LEMMA UpdateInvKept ==
  ASSUME UnsetIsNoWallet, UpdateInv, [UpdateNext]_updateVars
  PROVE  UpdateInv'
  <1>1. CASE UpdateNext
    BY <1>1, InitializeWalletKeeps, ReadStorageVersionKeeps, StartUpdateKeeps, CreateBackupKeeps,
       MigrationsKeep, FinishUpdateKeeps, FailuresKeep, RestoreBackupKeeps, CrashInUpdateKeeps
    DEF UpdateNext
  <1>2. CASE UNCHANGED updateVars
    <2>1. UNCHANGED <<wallet, backups, work, settled, updateRuns>>
      BY <1>2 DEF updateVars
    <2> QED
      BY <2>1
      DEF UpdateInv, BackupsInv, WorkInv, AtUpdateStage, OwnBackup, OriginalIsKept, Contents,
          StorageVersion, IsWallet, IsWork, IsContents
  <1> QED
    BY <1>1, <1>2

\* UpdateAssistant: whatever a migration or a step of the restoration does wrong, wherever
\* the process crashes and however often updates are run again, the contents that the last
\* completed update has left, or those at the start, are in the wallet or in a backup.
THEOREM UpdatesKeepTheOriginal ==
  ASSUME UnsetIsNoWallet
  PROVE  UpdateSpec => []OriginalIsKept
  <1>1. UpdateInit => UpdateInv
    BY UpdateInvInitially
  <1>2. UpdateInv /\ [UpdateNext]_updateVars => UpdateInv'
    BY UpdateInvKept
  <1>3. UpdateInv => OriginalIsKept
    BY DEF UpdateInv
  <1> QED
    BY <1>1, <1>2, <1>3, PTL DEF UpdateSpec
-------------------------------------------------------------------------------
(* What the migrations have done *)

VersionAt(j) == IF j = 0 THEN v0_1 ELSE SupportedUpdates[j].to

\* All migrations in their order, and how many of them lead to each version.
Migrations ==
  <<"credentials", "mediation", "connections", "proofs", "connection types", "did ids",
    "sov dids", "cache", "w3c credentials">>

MigrationsTo(j) == <<0, 3, 5, 6, 9>>[j + 1]

\* What the first n migrations have made of a record.
UpTo(n, r) ==
  /\ n >= 1 /\ r.kind = "credential" =>
       r.messages = {} /\ r.credentialId = Unset /\ r.version # Unset
  /\ n >= 2 /\ r.kind = "mediation" => r.role # Unset
  /\ n >= 3 /\ r.kind = "connection" =>
       /\ r.didDoc = Unset /\ r.theirDidDoc = Unset /\ r.invitation = Unset /\ r.multiUse = FALSE
       /\ r.role \in {"requester", "responder"}
  /\ n >= 4 /\ r.kind = "proof" => r.messages = {} /\ r.version # Unset
  /\ n >= 5 /\ r.kind = "connection" => r.typeTag = {}
  /\ n >= 6 /\ r.kind = "did" => r.id[1] = "uuid"
  /\ n >= 7 /\ r.kind = "did" /\ r.role = "created" => r.did[1] # "sov"
  /\ n >= 8 => r.kind # "cache"
  /\ n >= 9 /\ r.kind = "w3c" => r.claimFormat

\* The records that the n-th migration goes through.
IsFor(n, r) ==
  /\ r.kind = CASE n = 1 -> "credential" [] n = 2 -> "mediation" [] n = 4 -> "proof"
                [] n \in {3, 5} -> "connection" [] n \in {6, 7} -> "did"
                [] n = 8 -> "cache" [] n = 9 -> "w3c"
  /\ n = 7 => r.did[1] = "sov" /\ r.role = "created"

DataAt(j, contents) ==
  /\ StorageVersion(contents) = VersionAt(j)
  /\ \A r \in contents.records : WellFormed(r) /\ UpTo(MigrationsTo(j), r)

\* What is written has been migrated.
SoundWrite(n, write) ==
  /\ write.op \in {"save", "update", "delete"}
  /\ write.op # "delete" /\ ~WriteThrows(write) => WellFormed(write.record) /\ UpTo(n, write.record)

\* A record is migrated, or the migration comes to it, or is about to replace it.
OnTheWay(n, r) ==
  \/ UpTo(n, r)
  \/ /\ UpTo(n - 1, r)
     /\ r \in work.todo \/ \E write \in ToSet(work.writes) : write.op # "save" /\ write.old = r

\* The wallet has version j, the updates from there to hi are to come, and n migrations
\* have been started in all.
Progress(j, hi, n) ==
  /\ DataAt(j, wallet) /\ work.updates = j + 1 .. hi
  /\ n = MigrationsTo(j) + work.done /\ work.done \in Nat
  /\ work.done > 0 => j < 4 /\ j < hi /\ n <= MigrationsTo(j + 1) /\ work.migration = Migrations[n]
  /\ work.done = 0 => work.todo = {} /\ work.writes = <<>>
  /\ \A r \in wallet.records : OnTheWay(n, r)
  /\ \A r \in work.todo : WellFormed(r) /\ UpTo(n - 1, r) /\ IsFor(n, r)
  /\ work.writes \in Seq(ToSet(work.writes))
  /\ \A write \in ToSet(work.writes) : SoundWrite(n, write)

DataInv ==
  /\ \A b \in backups : \E j \in 0 .. 4 : DataAt(j, b.contents)
  /\ wallet # Unset => \E j \in 0 .. 4, hi \in 0 .. 4, n \in 0 .. 9 : Progress(j, hi, n)
  /\ work.stage \notin {"backup", "migrating"} => work.updates = {} /\ work.done = 0
  /\ work.stage = "backup" => work.done = 0

LEMMA MigrationNames ==
  /\ Migrations[1] = "credentials" /\ Migrations[2] = "mediation" /\ Migrations[3] = "connections"
  /\ Migrations[4] = "proofs" /\ Migrations[5] = "connection types" /\ Migrations[6] = "did ids"
  /\ Migrations[7] = "sov dids" /\ Migrations[8] = "cache" /\ Migrations[9] = "w3c credentials"
  <1>1. PICK all : all = Migrations
    OBVIOUS
  <1>2. all = <<"credentials", "mediation", "connections", "proofs", "connection types", "did ids",
                "sov dids", "cache", "w3c credentials">>
    BY <1>1 DEF Migrations
  <1>3. /\ all[1] = "credentials" /\ all[2] = "mediation" /\ all[3] = "connections"
        /\ all[4] = "proofs" /\ all[5] = "connection types" /\ all[6] = "did ids"
        /\ all[7] = "sov dids" /\ all[8] = "cache" /\ all[9] = "w3c credentials"
    BY <1>2
  <1> QED
    BY <1>1, <1>3

LEMMA UpdateTable ==
  /\ VersionAt(0) = v0_1 /\ VersionAt(1) = v0_2 /\ VersionAt(2) = v0_3
  /\ VersionAt(3) = v0_3_1 /\ VersionAt(4) = v0_4
  /\ DOMAIN SupportedUpdates = 1 .. 4
  /\ \A k \in 1 .. 4 : LET u == SupportedUpdates[k] IN
       /\ u.from = VersionAt(k - 1) /\ u.to = VersionAt(k)
       /\ Len(u.migrations) = MigrationsTo(k) - MigrationsTo(k - 1)
       /\ \A d \in 1 .. Len(u.migrations) : u.migrations[d] = Migrations[MigrationsTo(k - 1) + d]
  <1>1. DOMAIN SupportedUpdates = 1 .. 4
    BY DEF SupportedUpdates
  <1>2. /\ SupportedUpdates[1] =
             [from |-> v0_1, to |-> v0_2, migrations |-> <<"credentials", "mediation", "connections">>]
        /\ SupportedUpdates[2] =
             [from |-> v0_2, to |-> v0_3, migrations |-> <<"proofs", "connection types">>]
        /\ SupportedUpdates[3] = [from |-> v0_3, to |-> v0_3_1, migrations |-> <<"did ids">>]
        /\ SupportedUpdates[4] =
             [from |-> v0_3_1, to |-> v0_4, migrations |-> <<"sov dids", "cache", "w3c credentials">>]
    BY DEF SupportedUpdates
  <1> DEFINE Row(k, from, to, migrations) ==
               /\ SupportedUpdates[k].from = from /\ SupportedUpdates[k].to = to
               /\ SupportedUpdates[k].migrations = migrations
  <1>11. /\ Row(1, v0_1, v0_2, <<"credentials", "mediation", "connections">>)
         /\ Row(2, v0_2, v0_3, <<"proofs", "connection types">>)
         /\ Row(3, v0_3, v0_3_1, <<"did ids">>)
         /\ Row(4, v0_3_1, v0_4, <<"sov dids", "cache", "w3c credentials">>)
    <2>1. Row(1, v0_1, v0_2, <<"credentials", "mediation", "connections">>)
      <3>1. PICK u : u = SupportedUpdates[1]
        OBVIOUS
      <3>2. u = [from |-> v0_1, to |-> v0_2, migrations |-> <<"credentials", "mediation", "connections">>]
        BY <1>2, <3>1
      <3>3. u.from = v0_1 /\ u.to = v0_2 /\ u.migrations = <<"credentials", "mediation", "connections">>
        BY <3>2
      <3> QED
        BY <3>1, <3>3
    <2>2. Row(2, v0_2, v0_3, <<"proofs", "connection types">>)
      <3>1. PICK u : u = SupportedUpdates[2]
        OBVIOUS
      <3>2. u = [from |-> v0_2, to |-> v0_3, migrations |-> <<"proofs", "connection types">>]
        BY <1>2, <3>1
      <3>3. u.from = v0_2 /\ u.to = v0_3 /\ u.migrations = <<"proofs", "connection types">>
        BY <3>2
      <3> QED
        BY <3>1, <3>3
    <2>3. Row(3, v0_3, v0_3_1, <<"did ids">>)
      <3>1. PICK u : u = SupportedUpdates[3]
        OBVIOUS
      <3>2. u = [from |-> v0_3, to |-> v0_3_1, migrations |-> <<"did ids">>]
        BY <1>2, <3>1
      <3>3. u.from = v0_3 /\ u.to = v0_3_1 /\ u.migrations = <<"did ids">>
        BY <3>2
      <3> QED
        BY <3>1, <3>3
    <2>4. Row(4, v0_3_1, v0_4, <<"sov dids", "cache", "w3c credentials">>)
      <3>1. PICK u : u = SupportedUpdates[4]
        OBVIOUS
      <3>2. u = [from |-> v0_3_1, to |-> v0_4, migrations |-> <<"sov dids", "cache", "w3c credentials">>]
        BY <1>2, <3>1
      <3>3. u.from = v0_3_1 /\ u.to = v0_4 /\ u.migrations = <<"sov dids", "cache", "w3c credentials">>
        BY <3>2
      <3> QED
        BY <3>1, <3>3
    <2> QED
      BY <2>1, <2>2, <2>3, <2>4
  <1>3. /\ VersionAt(0) = v0_1 /\ VersionAt(1) = v0_2 /\ VersionAt(2) = v0_3
        /\ VersionAt(3) = v0_3_1 /\ VersionAt(4) = v0_4
    <2>1. VersionAt(0) = v0_1
      BY DEF VersionAt
    <2>2. \A k \in 1 .. 4 : VersionAt(k) = SupportedUpdates[k].to
      BY DEF VersionAt
    <2>3. 1 \in 1 .. 4 /\ 2 \in 1 .. 4 /\ 3 \in 1 .. 4 /\ 4 \in 1 .. 4
      OBVIOUS
    <2> QED
      BY <1>11, <2>1, <2>2, <2>3, Zenon
  <1>4. /\ MigrationsTo(0) = 0 /\ MigrationsTo(1) = 3 /\ MigrationsTo(2) = 5
        /\ MigrationsTo(3) = 6 /\ MigrationsTo(4) = 9
    BY DEF MigrationsTo
  <1> DEFINE Fits(k) == LET u == SupportedUpdates[k] IN
       /\ u.from = VersionAt(k - 1) /\ u.to = VersionAt(k)
       /\ Len(u.migrations) = MigrationsTo(k) - MigrationsTo(k - 1)
       /\ \A d \in 1 .. Len(u.migrations) : u.migrations[d] = Migrations[MigrationsTo(k - 1) + d]
  <1>5. Fits(1)
    <2>1. /\ SupportedUpdates[1].migrations = <<"credentials", "mediation", "connections">>
          /\ SupportedUpdates[1].from = v0_1 /\ SupportedUpdates[1].to = v0_2
      BY <1>11
    <2>4. PICK s : s = <<"credentials", "mediation", "connections">>
      OBVIOUS
    <2>5. Len(s) = 3 /\ s[1] = "credentials" /\ s[2] = "mediation" /\ s[3] = "connections"
      BY <2>4
    <2>2. 1 - 1 = 0 /\ MigrationsTo(0) = 0 /\ MigrationsTo(1) = 3
      BY <1>4
    <2>3. \A d \in 1 .. 3 : s[d] = Migrations[0 + d]
      <3>1. \A d \in 1 .. 3 : d = 1 \/ d = 2 \/ d = 3
        OBVIOUS
      <3>2. Migrations[1] = "credentials" /\ Migrations[2] = "mediation" /\ Migrations[3] = "connections"
        BY MigrationNames
      <3>3. 0 + 1 = 1 /\ 0 + 2 = 2 /\ 0 + 3 = 3
        OBVIOUS
      <3> QED
        BY <2>5, <3>1, <3>2, <3>3, Zenon
    <2>6. SupportedUpdates[1].migrations = s
      BY <2>1, <2>4
    <2>7. 3 - 0 = 3 /\ 1 - 1 = 0
      OBVIOUS
    <2> QED
      BY <1>3, <2>1, <2>2, <2>3, <2>5, <2>6, <2>7, Zenon
  <1>6. Fits(2)
    <2>1. /\ SupportedUpdates[2].migrations = <<"proofs", "connection types">>
          /\ SupportedUpdates[2].from = v0_2 /\ SupportedUpdates[2].to = v0_3
      BY <1>11
    <2>4. PICK s : s = <<"proofs", "connection types">>
      OBVIOUS
    <2>5. Len(s) = 2 /\ s[1] = "proofs" /\ s[2] = "connection types"
      BY <2>4
    <2>2. 2 - 1 = 1 /\ MigrationsTo(1) = 3 /\ MigrationsTo(2) = 5
      BY <1>4
    <2>3. \A d \in 1 .. 2 : s[d] = Migrations[3 + d]
      <3>1. \A d \in 1 .. 2 : d = 1 \/ d = 2
        OBVIOUS
      <3>2. Migrations[4] = "proofs" /\ Migrations[5] = "connection types"
        BY MigrationNames
      <3>3. 3 + 1 = 4 /\ 3 + 2 = 5
        OBVIOUS
      <3> QED
        BY <2>5, <3>1, <3>2, <3>3, Zenon
    <2>6. SupportedUpdates[2].migrations = s
      BY <2>1, <2>4
    <2>7. 5 - 3 = 2 /\ 2 - 1 = 1
      OBVIOUS
    <2> QED
      BY <1>3, <2>1, <2>2, <2>3, <2>5, <2>6, <2>7, Zenon
  <1>7. Fits(3)
    <2>1. /\ SupportedUpdates[3].migrations = <<"did ids">>
          /\ SupportedUpdates[3].from = v0_3 /\ SupportedUpdates[3].to = v0_3_1
      BY <1>11
    <2>4. PICK s : s = <<"did ids">>
      OBVIOUS
    <2>5. Len(s) = 1 /\ s[1] = "did ids"
      BY <2>4
    <2>2. 3 - 1 = 2 /\ MigrationsTo(2) = 5 /\ MigrationsTo(3) = 6
      BY <1>4
    <2>3. \A d \in 1 .. 1 : s[d] = Migrations[5 + d]
      <3>1. \A d \in 1 .. 1 : d = 1
        OBVIOUS
      <3>2. Migrations[6] = "did ids"
        BY MigrationNames
      <3>3. 5 + 1 = 6
        OBVIOUS
      <3> QED
        BY <2>5, <3>1, <3>2, <3>3, Zenon
    <2>6. SupportedUpdates[3].migrations = s
      BY <2>1, <2>4
    <2>7. 6 - 5 = 1 /\ 3 - 1 = 2
      OBVIOUS
    <2> QED
      BY <1>3, <2>1, <2>2, <2>3, <2>5, <2>6, <2>7, Zenon
  <1>8. Fits(4)
    <2>1. /\ SupportedUpdates[4].migrations = <<"sov dids", "cache", "w3c credentials">>
          /\ SupportedUpdates[4].from = v0_3_1 /\ SupportedUpdates[4].to = v0_4
      BY <1>11
    <2>4. PICK s : s = <<"sov dids", "cache", "w3c credentials">>
      OBVIOUS
    <2>5. Len(s) = 3 /\ s[1] = "sov dids" /\ s[2] = "cache" /\ s[3] = "w3c credentials"
      BY <2>4
    <2>2. 4 - 1 = 3 /\ MigrationsTo(3) = 6 /\ MigrationsTo(4) = 9
      BY <1>4
    <2>3. \A d \in 1 .. 3 : s[d] = Migrations[6 + d]
      <3>1. \A d \in 1 .. 3 : d = 1 \/ d = 2 \/ d = 3
        OBVIOUS
      <3>2. Migrations[7] = "sov dids" /\ Migrations[8] = "cache" /\ Migrations[9] = "w3c credentials"
        BY MigrationNames
      <3>3. 6 + 1 = 7 /\ 6 + 2 = 8 /\ 6 + 3 = 9
        OBVIOUS
      <3> QED
        BY <2>5, <3>1, <3>2, <3>3, Zenon
    <2>6. SupportedUpdates[4].migrations = s
      BY <2>1, <2>4
    <2>7. 9 - 6 = 3 /\ 4 - 1 = 3
      OBVIOUS
    <2> QED
      BY <1>3, <2>1, <2>2, <2>3, <2>5, <2>6, <2>7, Zenon
  <1> HIDE DEF Fits
  <1>9. \A k \in 1 .. 4 : k = 1 \/ k = 2 \/ k = 3 \/ k = 4
    OBVIOUS
  <1>10. \A k \in 1 .. 4 : Fits(k)
    BY <1>5, <1>6, <1>7, <1>8, <1>9
  <1> QED
    BY <1>1, <1>3, <1>10 DEF Fits

LEMMA MigrationCounts ==
  /\ \A j \in 0 .. 4 : MigrationsTo(j) \in 0 .. 9
  /\ \A j \in 0 .. 3 : MigrationsTo(j) < MigrationsTo(j + 1)
  <1>1. /\ MigrationsTo(0) = 0 /\ MigrationsTo(1) = 3 /\ MigrationsTo(2) = 5
        /\ MigrationsTo(3) = 6 /\ MigrationsTo(4) = 9
    BY DEF MigrationsTo
  <1>2. \A j \in 0 .. 4 : j = 0 \/ j = 1 \/ j = 2 \/ j = 3 \/ j = 4
    OBVIOUS
  <1> QED
    BY <1>1, <1>2

LEMMA VersionOrder ==
  ASSUME NEW i \in 0 .. 4, NEW j \in 0 .. 4
  PROVE  IsHigher(VersionAt(i), VersionAt(j)) <=> i > j
  <1> DEFINE Triple(k) == VersionAt(k) = <<0, IF k = 4 THEN 4 ELSE IF k = 3 THEN 3 ELSE k + 1,
                                           IF k = 3 THEN 1 ELSE 0>>
  <1>1. \A k \in 0 .. 4 : Triple(k)
    <2>1. VersionAt(0) = <<0, 1, 0>>
      BY DEF VersionAt, v0_1
    <2>2. /\ VersionAt(1) = v0_2 /\ VersionAt(2) = v0_3 /\ VersionAt(3) = v0_3_1 /\ VersionAt(4) = v0_4
      BY UpdateTable
    <2>5. /\ VersionAt(1) = <<0, 2, 0>> /\ VersionAt(2) = <<0, 3, 0>>
          /\ VersionAt(3) = <<0, 3, 1>> /\ VersionAt(4) = <<0, 4, 0>>
      BY <2>2 DEF v0_2, v0_3, v0_3_1, v0_4
    <2>3. \A k \in 0 .. 4 : k = 0 \/ k = 1 \/ k = 2 \/ k = 3 \/ k = 4
      OBVIOUS
    <2> QED
      BY <2>1, <2>3, <2>5
  <1> DEFINE a == VersionAt(i)
             b == VersionAt(j)
  <1>2. IsHigher(a, b) <=>
          a[1] > b[1] \/ (a[1] = b[1] /\ (a[2] > b[2] \/ (a[2] = b[2] /\ a[3] > b[3])))
    <2> HIDE DEF a, b
    <2>1. 1 .. 3 = {1, 2, 3} /\ 1 .. 1 - 1 = {} /\ 1 .. 2 - 1 = {1} /\ 1 .. 3 - 1 = {1, 2}
      OBVIOUS
    <2> QED
      BY <2>1 DEF IsHigher
  <1>3. /\ a[1] = 0 /\ a[2] = (IF i = 4 THEN 4 ELSE IF i = 3 THEN 3 ELSE i + 1)
        /\ a[3] = (IF i = 3 THEN 1 ELSE 0)
    BY <1>1
  <1>4. /\ b[1] = 0 /\ b[2] = (IF j = 4 THEN 4 ELSE IF j = 3 THEN 3 ELSE j + 1)
        /\ b[3] = (IF j = 3 THEN 1 ELSE 0)
    BY <1>1
  <1> HIDE DEF a, b
  <1>5. IsHigher(a, b) <=> i > j
    BY <1>2, <1>3, <1>4
  <1> QED
    BY <1>5 DEF a, b

\* What the first migrations have made of a record, fewer of them have not undone.
LEMMA FewerMigrations ==
  ASSUME NEW n \in 0 .. 9, NEW m \in 0 .. n, NEW r, UpTo(n, r)
  PROVE  UpTo(m, r)
  BY DEF UpTo

LEMMA LaterMigrations ==
  ASSUME NEW n \in 1 .. 9, NEW r, UpTo(n - 1, r), ~IsFor(n, r)
  PROVE  UpTo(n, r)
  <1>1. \/ n = 1 \/ n = 2 \/ n = 3 \/ n = 4 \/ n = 5 \/ n = 6 \/ n = 7 \/ n = 8 \/ n = 9
    OBVIOUS
  <1>2. CASE n \in {1, 2, 3}
    BY <1>2 DEF UpTo, IsFor
  <1>3. CASE n \in {4, 5, 6}
    BY <1>3 DEF UpTo, IsFor
  <1>4. CASE n \in {7, 8, 9}
    BY <1>4 DEF UpTo, IsFor
  <1> QED
    BY <1>1, <1>2, <1>3, <1>4

LEMMA RecordFields ==
  /\ DOMAIN Fields = {"credential", "proof", "message", "mediation", "connection", "outOfBand",
                      "did", "cache", "w3c"}
  /\ Fields["credential"] =
       {"kind", "id", "state", "messages", "version", "credentialId", "credentials", "metadata"}
  /\ Fields["proof"] = {"kind", "id", "state", "messages", "version", "isVerified"}
  /\ Fields["message"] = {"kind", "id", "of", "key", "role"}
  /\ Fields["mediation"] = {"kind", "id", "connection", "endpoint", "role"}
  /\ Fields["connection"] =
       {"kind", "id", "role", "state", "didDoc", "theirDidDoc", "did", "theirDid",
        "invitation", "multiUse", "outOfBandId", "typeTag", "types"}
  /\ Fields["outOfBand"] = {"kind", "id", "invitation", "role", "state", "reusable"}
  /\ Fields["did"] = {"kind", "id", "did", "role", "qualified"}
  /\ Fields["cache"] = {"kind", "id"}
  /\ Fields["w3c"] = {"kind", "id", "claimFormat"}
  BY DEF Fields

\* "undefined" is no DID or id of a record, and no version.
UnsetIsNoTuple ==
  /\ \A x, y : Unset # <<x, y>>
  /\ \A x, y, z : Unset # <<x, y, z>>

\* The writes of a record are sound, and one of them replaces it.
SoundWrites(n, writes) ==
  /\ writes \in Seq(ToSet(writes))
  /\ \A write \in ToSet(writes) : SoundWrite(n, write)

Replaces(writes, r) == \E write \in ToSet(writes) : write.op # "save" /\ write.old = r

LEMMA Operations ==
  /\ \A record : Saving(record).op = "save" /\ Saving(record).record = record
  /\ \A old, new : /\ Updating(old, new).op = "update" /\ Updating(old, new).record = new
                   /\ Updating(old, new).old = old
  /\ \A old : Deleting(old).op = "delete" /\ Deleting(old).old = old
  BY DEF Saving, Updating, Deleting

LEMMA Concatenated ==
  ASSUME NEW s, NEW t, s \in Seq(ToSet(s)), t \in Seq(ToSet(t))
  PROVE  /\ s \o t \in Seq(ToSet(s \o t))
         /\ ToSet(s \o t) = ToSet(s) \cup ToSet(t)
  <1> DEFINE U == ToSet(s) \cup ToSet(t)
  <1>1. s \in Seq(U) /\ t \in Seq(U) /\ Len(s) \in Nat /\ Len(t) \in Nat
    OBVIOUS
  <1> DEFINE both == s \o t
  <1>2. /\ both \in Seq(U) /\ Len(both) = Len(s) + Len(t) /\ DOMAIN both = 1 .. Len(both)
        /\ \A i \in 1 .. Len(s) : both[i] = s[i]
        /\ \A i \in 1 .. Len(t) : both[Len(s) + i] = t[i]
    BY <1>1
  <1> HIDE DEF both, U
  <1>3. \A i \in DOMAIN both : both[i] \in U
    BY <1>2
  <1>4. \A x \in ToSet(s) : x \in ToSet(both)
    <2> TAKE x \in ToSet(s)
    <2>1. PICK i \in 1 .. Len(s) : s[i] = x
      BY DEF ToSet
    <2>2. i \in DOMAIN both /\ both[i] = x
      BY <1>1, <1>2, <2>1
    <2> QED
      BY <2>2 DEF ToSet
  <1>5. \A x \in ToSet(t) : x \in ToSet(both)
    <2> TAKE x \in ToSet(t)
    <2>1. PICK i \in 1 .. Len(t) : t[i] = x
      BY DEF ToSet
    <2>2. Len(s) + i \in DOMAIN both /\ both[Len(s) + i] = x
      BY <1>1, <1>2, <2>1
    <2> QED
      BY <2>2 DEF ToSet
  <1>6. ToSet(both) = U
    BY <1>3, <1>4, <1>5 DEF ToSet, U
  <1> QED
    BY <1>2, <1>6 DEF both, U

LEMMA OneOrTwo ==
  /\ \A x : <<x>> \in Seq(ToSet(<<x>>)) /\ ToSet(<<x>>) = {x}
  /\ \A x, y : <<x, y>> \in Seq(ToSet(<<x, y>>)) /\ ToSet(<<x, y>>) = {x, y}
  /\ <<>> \in Seq(ToSet(<<>>)) /\ ToSet(<<>>) = {}
  BY DEF ToSet

LEMMA SoundTogether ==
  ASSUME NEW n, NEW s, NEW t, SoundWrites(n, s), SoundWrites(n, t)
  PROVE  SoundWrites(n, s \o t) /\ \A r : Replaces(t, r) => Replaces(s \o t, r)
  BY Concatenated DEF SoundWrites, Replaces

LEMMA OneWrite ==
  ASSUME NEW n, NEW write, SoundWrite(n, write)
  PROVE  /\ SoundWrites(n, <<write>>)
         /\ write.op # "save" => Replaces(<<write>>, write.old)
  BY OneOrTwo DEF SoundWrites, Replaces

LEMMA SoundUpdate ==
  ASSUME NEW n, NEW old, NEW new, WellFormed(new), UpTo(n, new)
  PROVE  SoundWrites(n, <<Updating(old, new)>>) /\ Replaces(<<Updating(old, new)>>, old)
  <1>1. SoundWrite(n, Updating(old, new))
    BY Operations DEF SoundWrite
  <1> QED
    BY <1>1, OneWrite, Operations

LEMMA SoundSave ==
  ASSUME NEW n, NEW record, WriteThrows(Saving(record)) \/ (WellFormed(record) /\ UpTo(n, record))
  PROVE  SoundWrites(n, <<Saving(record)>>)
  <1>1. SoundWrite(n, Saving(record))
    BY Operations DEF SoundWrite
  <1> QED
    BY <1>1, OneWrite

LEMMA SoundDelete ==
  ASSUME NEW n, NEW old
  PROVE  SoundWrites(n, <<Deleting(old)>>) /\ Replaces(<<Deleting(old)>>, old)
  <1>1. SoundWrite(n, Deleting(old))
    BY Operations DEF SoundWrite
  <1> QED
    BY <1>1, OneWrite, Operations

LEMMA MessageIsWellFormed ==
  ASSUME NEW id, NEW of, NEW key, NEW role
  PROVE  LET message == [kind |-> "message", id |-> id, of |-> of, key |-> key, role |-> role]
         IN  WellFormed(message) /\ \A n : UpTo(n, message)
  <1> DEFINE message == [kind |-> "message", id |-> id, of |-> of, key |-> key, role |-> role]
  <1>1. message.kind = "message"
    OBVIOUS
  <1>2. message = [f \in {"kind", "id", "of", "key", "role"} |-> message[f]]
    OBVIOUS
  <1> HIDE DEF message
  <1>3. message = [f \in Fields[message.kind] |-> message[f]]
    BY <1>1, <1>2, RecordFields
  <1>4. WellFormed(message)
    BY <1>1, <1>3, RecordFields DEF WellFormed
  <1>5. \A n : UpTo(n, message)
    BY <1>1 DEF UpTo
  <1> QED
    BY <1>4, <1>5 DEF message

LEMMA MovedMessages ==
  ASSUME NEW n, NEW records, NEW old, NEW r, NEW keys, NEW roles, keys \in Seq(ToSet(keys)),
         WellFormed(r), r.kind \in {"credential", "proof"},
         \A new : /\ new.kind = r.kind /\ new.messages = {}
                  /\ \A f \in Fields[r.kind] \ {"messages"} : new[f] = r[f]
                  => UpTo(n, new)
  PROVE  LET writes == MoveDidCommMessages(records, old, r, keys, roles)
         IN  SoundWrites(n, writes) /\ Replaces(writes, old)
  <1> DEFINE present == Among(keys, r.messages)
             Message(k) == [kind |-> "message", id |-> Uuid(records, k), of |-> r.id,
                            key |-> present[k], role |-> roles[present[k]]]
             saves == [k \in DOMAIN present |-> Saving(Message(k))]
             moved == [r EXCEPT !.messages = {}]
  <1>1. present \in Seq(ToSet(keys) \cap r.messages)
    BY AmongType
  <1>2. \A k : WellFormed(Message(k)) /\ UpTo(n, Message(k))
    <2> TAKE k
    <2> QED
      BY MessageIsWellFormed
  <1>3. MoveDidCommMessages(records, old, r, keys, roles) = saves \o <<Updating(old, moved)>>
    BY DEF MoveDidCommMessages
  <1> HIDE DEF Message, present
  <1>4. \A k \in DOMAIN present : saves[k] = Saving(Message(k))
    OBVIOUS
  <1>5. saves \in Seq(ToSet(saves))
    <2>1. DOMAIN saves = 1 .. Len(present) /\ Len(present) \in Nat
      BY <1>1
    <2>2. saves \in [1 .. Len(present) -> {saves[k] : k \in DOMAIN saves}]
      BY <2>1
    <2> HIDE DEF saves
    <2> QED
      BY <2>1, <2>2 DEF ToSet
  <1>6. SoundWrites(n, saves)
    <2>1. DOMAIN saves = DOMAIN present
      OBVIOUS
    <2> HIDE DEF saves
    <2>2. \A write \in ToSet(saves) : \E k \in DOMAIN present : write = Saving(Message(k))
      BY <1>4, <2>1 DEF ToSet
    <2> QED
      BY <1>2, <1>5, <2>2, Operations DEF SoundWrites, SoundWrite
  <1>7. r = [f \in Fields[r.kind] |-> r[f]] /\ {"kind", "messages"} \subseteq Fields[r.kind]
    BY RecordFields DEF WellFormed
  <1>8. /\ moved.kind = r.kind /\ moved.messages = {}
        /\ \A f \in Fields[r.kind] \ {"messages"} : moved[f] = r[f]
        /\ moved = [f \in Fields[moved.kind] |-> moved[f]]
    BY <1>7
  <1> HIDE DEF moved, saves
  <1>9. WellFormed(moved) /\ UpTo(n, moved)
    BY <1>8 DEF WellFormed
  <1>10. SoundWrites(n, <<Updating(old, moved)>>) /\ Replaces(<<Updating(old, moved)>>, old)
    BY <1>9, SoundUpdate
  <1>11. PICK last : last = <<Updating(old, moved)>>
    OBVIOUS
  <1>12. SoundWrites(n, saves \o last) /\ Replaces(saves \o last, old)
    <2>1. SoundWrites(n, last) /\ Replaces(last, old)
      BY <1>10, <1>11, Zenon
    <2> QED
      BY <1>6, <2>1, SoundTogether
  <1> QED
    BY <1>3, <1>11, <1>12, Zenon

LEMMA SoundCredential ==
  ASSUME NEW records, NEW r, WellFormed(r), IsFor(1, r)
  PROVE  LET writes == MigrateCredential(records, r)
         IN  SoundWrites(1, writes) /\ Replaces(writes, r)
  <1> DEFINE F == {"kind", "id", "state", "messages", "version", "credentialId", "credentials",
                   "metadata"}
             new == UpdatedCredential(r)
  <1>1. r.kind = "credential" /\ r = [f \in F |-> r[f]]
    BY RecordFields DEF WellFormed, IsFor
  <1>2. /\ new = [f \in F |-> new[f]] /\ new.kind = "credential"
        /\ new.messages = r.messages /\ new.credentialId = Unset
        /\ new.version = IF r.version = Unset THEN "v1" ELSE r.version
    BY <1>1 DEF UpdatedCredential
  <1> HIDE DEF new
  <1>5. new.version # Unset
    BY <1>2, UpdateAssumption
  <1>7. WellFormed(new)
    BY <1>1, <1>2, RecordFields DEF WellFormed
  <1>8. \A moved : /\ moved.kind = new.kind /\ moved.messages = {}
                   /\ \A f \in Fields[new.kind] \ {"messages"} : moved[f] = new[f]
                   => UpTo(1, moved)
    BY <1>2, <1>5, RecordFields DEF UpTo
  <1>9. CredentialMessages \in Seq(ToSet(CredentialMessages))
    BY DEF CredentialMessages, ToSet
  <1> QED
    BY <1>2, <1>7, <1>8, <1>9, MovedMessages DEF MigrateCredential, new

LEMMA SoundMediation ==
  ASSUME NEW r, WellFormed(r), IsFor(2, r)
  PROVE  SoundWrites(2, MigrateMediation(r)) /\ Replaces(MigrateMediation(r), r)
  <1> DEFINE F == {"kind", "id", "connection", "endpoint", "role"}
             new == [r EXCEPT !.role = UpdatedMediationRole(r)]
  <1>1. r.kind = "mediation" /\ r = [f \in F |-> r[f]]
    BY RecordFields DEF WellFormed, IsFor
  <1>2. UpdatedMediationRole(r) # Unset
    BY <1>1, UpdateAssumption DEF UpdatedMediationRole, WellFormed
  <1>3. /\ new = [f \in F |-> new[f]] /\ new.kind = "mediation"
        /\ new.role = UpdatedMediationRole(r)
    BY <1>1
  <1>4. MigrateMediation(r) = <<Updating(r, new)>>
    BY DEF MigrateMediation
  <1> HIDE DEF new
  <1>5. WellFormed(new) /\ UpTo(2, new)
    BY <1>2, <1>3, RecordFields DEF WellFormed, UpTo
  <1> QED
    BY <1>4, <1>5, SoundUpdate

LEMMA SoundProof ==
  ASSUME NEW records, NEW r, WellFormed(r), IsFor(4, r)
  PROVE  LET writes == MigrateProof(records, r)
         IN  SoundWrites(4, writes) /\ Replaces(writes, r)
  <1> DEFINE F == {"kind", "id", "state", "messages", "version", "isVerified"}
             new == UpdatedProof(r)
  <1>1. r.kind = "proof" /\ r = [f \in F |-> r[f]]
    BY RecordFields DEF WellFormed, IsFor
  <1>2. /\ new = [f \in F |-> new[f]] /\ new.kind = "proof" /\ new.messages = r.messages
        /\ new.version = IF r.version = Unset THEN "v1" ELSE r.version
    BY <1>1 DEF UpdatedProof
  <1> HIDE DEF new
  <1>3. new.version # Unset
    BY <1>2, UpdateAssumption
  <1>4. WellFormed(new)
    BY <1>1, <1>2, RecordFields DEF WellFormed
  <1>5. \A moved : /\ moved.kind = new.kind /\ moved.messages = {}
                   /\ \A f \in Fields[new.kind] \ {"messages"} : moved[f] = new[f]
                   => UpTo(4, moved)
    BY <1>2, <1>3, RecordFields DEF UpTo
  <1>6. ProofMessages \in Seq(ToSet(ProofMessages))
    BY DEF ProofMessages, ToSet
  <1> QED
    BY <1>2, <1>4, <1>5, <1>6, MovedMessages DEF MigrateProof, new

LEMMA SoundConnectionTypes ==
  ASSUME NEW records, NEW r, WellFormed(r), UpTo(4, r), IsFor(5, r)
  PROVE  LET writes == MigrateConnectionTypes(records, r)
         IN  SoundWrites(5, writes) /\ Replaces(writes, r)
  <1> DEFINE F == {"kind", "id", "role", "state", "didDoc", "theirDidDoc", "did", "theirDid",
                   "invitation", "multiUse", "outOfBandId", "typeTag", "types"}
             types == r.typeTag \cup (IF \E md \in OfKind(records, "mediation") : md.connection = r.id
                                      THEN {"mediator"} ELSE {})
             new == [r EXCEPT !.typeTag = {}, !.types = types]
  <1>1. r.kind = "connection" /\ r = [f \in F |-> r[f]]
    BY RecordFields DEF WellFormed, IsFor
  <1>2. MigrateConnectionTypes(records, r) = <<Updating(r, new)>>
    BY DEF MigrateConnectionTypes
  <1> HIDE DEF types
  <1>3. /\ new = [f \in F |-> new[f]] /\ new.kind = "connection" /\ new.typeTag = {}
        /\ \A f \in F \ {"typeTag", "types"} : new[f] = r[f]
    BY <1>1
  <1> HIDE DEF new
  <1>4. WellFormed(new)
    BY <1>1, <1>3, RecordFields DEF WellFormed
  <1>5. UpTo(5, new)
    BY <1>1, <1>3 DEF UpTo
  <1> QED
    BY <1>2, <1>4, <1>5, SoundUpdate

LEMMA SoundDidId ==
  ASSUME UnsetIsNoTuple, NEW records, NEW r, WellFormed(r), IsFor(6, r)
  PROVE  LET writes == MigrateDidId(records, r)
         IN  SoundWrites(6, writes) /\ Replaces(writes, r)
  <1> DEFINE F == {"kind", "id", "did", "role", "qualified"}
             did == IF r.id[1] = "did" THEN r.id[2] ELSE r.id
             id == Uuid(records, 1)
             new == [r EXCEPT !.did = did, !.id = id]
  <1>1. r.kind = "did" /\ r = [f \in F |-> r[f]] /\ DidIsKnown(r)
    BY RecordFields DEF WellFormed, IsFor
  <1>2. MigrateDidId(records, r) = <<Saving(new)>> \o <<Deleting(r)>>
    BY DEF MigrateDidId
  <1>3. id[1] = "uuid" /\ id # Unset
    BY DEF Uuid, UnsetIsNoTuple
  <1> HIDE DEF id, did
  <1>4. /\ new = [f \in F |-> new[f]] /\ new.kind = "did" /\ new.did = did /\ new.id = id
        /\ new.role = r.role /\ new.qualified = r.qualified
    BY <1>1
  <1> HIDE DEF new
  <1>5. UpTo(6, new)
    BY <1>3, <1>4 DEF UpTo
  <1>6. CASE r.id[1] = "did"
    <2>1. did = r.id[2] /\ did # Unset /\ DidOf(r) = did
      BY <1>1, <1>6 DEF DidIsKnown, DidOf, did
    <2>2. DidOf(new) = did
      BY <1>4, <2>1 DEF DidOf
    <2>3. DidIsKnown(new)
      BY <1>1, <1>3, <1>4, <2>1, <2>2 DEF DidIsKnown
    <2>4. WellFormed(new)
      BY <1>4, <2>3, RecordFields DEF WellFormed
    <2>5. SoundWrites(6, <<Saving(new)>>)
      BY <1>5, <2>4, SoundSave
    <2> QED
      BY <1>2, <2>5, SoundDelete, SoundTogether
  <1>7. CASE r.id[1] # "did"
    <2>1. did = r.id /\ did[1] = "uuid" /\ did # Unset
      BY <1>1, <1>7 DEF DidIsKnown, did
    <2>2. WriteThrows(Saving(new))
      BY <1>4, <2>1, Operations DEF WriteThrows
    <2>3. SoundWrites(6, <<Saving(new)>>)
      BY <2>2, SoundSave
    <2> QED
      BY <1>2, <2>3, SoundDelete, SoundTogether
  <1> QED
    BY <1>6, <1>7

LEMMA SoundSovDid ==
  ASSUME NEW r, WellFormed(r), UpTo(6, r), IsFor(7, r)
  PROVE  SoundWrites(7, MigrateSovDid(r)) /\ Replaces(MigrateSovDid(r), r)
  <1> DEFINE F == {"kind", "id", "did", "role", "qualified"}
             new == [r EXCEPT !.did = r.qualified, !.qualified = Unset]
  <1>1. /\ r.kind = "did" /\ r = [f \in F |-> r[f]] /\ DidIsKnown(r)
        /\ r.did[1] = "sov" /\ r.role = "created" /\ r.id[1] = "uuid"
    BY RecordFields DEF WellFormed, IsFor, UpTo
  <1>2. r.did # Unset /\ DidOf(r) = r.did
    BY <1>1 DEF DidIsKnown, DidOf
  <1>3. r.qualified # Unset /\ r.qualified[1] \notin {"uuid", "sov"}
    BY <1>1, <1>2 DEF DidIsKnown
  <1>4. /\ new = [f \in F |-> new[f]] /\ new.kind = "did" /\ new.did = r.qualified
        /\ new.id = r.id /\ new.role = r.role
    BY <1>1
  <1>5. MigrateSovDid(r) = <<Updating(r, new)>>
    BY DEF MigrateSovDid
  <1> HIDE DEF new
  <1>6. DidOf(new) = r.qualified
    BY <1>3, <1>4 DEF DidOf
  <1>7. DidIsKnown(new)
    BY <1>1, <1>3, <1>4, <1>6 DEF DidIsKnown
  <1>8. WellFormed(new) /\ UpTo(7, new)
    BY <1>1, <1>3, <1>4, <1>7, RecordFields DEF WellFormed, UpTo
  <1> QED
    BY <1>5, <1>8, SoundUpdate

LEMMA SoundW3cCredential ==
  ASSUME NEW r, WellFormed(r), IsFor(9, r)
  PROVE  SoundWrites(9, MigrateW3cCredential(r)) /\ Replaces(MigrateW3cCredential(r), r)
  <1> DEFINE F == {"kind", "id", "claimFormat"}
             new == [r EXCEPT !.claimFormat = TRUE]
  <1>1. r.kind = "w3c" /\ r = [f \in F |-> r[f]]
    BY RecordFields DEF WellFormed, IsFor
  <1>2. new = [f \in F |-> new[f]] /\ new.kind = "w3c" /\ new.claimFormat = TRUE
    BY <1>1
  <1>3. MigrateW3cCredential(r) = <<Updating(r, new)>>
    BY DEF MigrateW3cCredential
  <1> HIDE DEF new
  <1>4. WellFormed(new) /\ UpTo(9, new)
    BY <1>2, RecordFields DEF WellFormed, UpTo
  <1> QED
    BY <1>3, <1>4, SoundUpdate

\* The DID record that ExtractDidDocument saves, and the record of an invitation.
LEMMA ExtractedDid ==
  ASSUME UnsetIsNoTuple, NEW records, NEW doc, NEW role
  PROVE  SoundWrites(3, ExtractDidDocument(records, doc, role))
  <1> DEFINE new == [kind |-> "did", id |-> <<"did", PeerDid(doc)>>, did |-> PeerDid(doc),
                     role |-> role, qualified |-> Unset]
             id == <<"did", PeerDid(doc)>>
             did == PeerDid(doc)
  <1>1. /\ id[1] = "did" /\ id[2] = did /\ did[1] = "peer" /\ did # Unset /\ id # Unset
    BY DEF PeerDid, UnsetIsNoTuple
  <1>2. /\ new = [f \in {"kind", "id", "did", "role", "qualified"} |-> new[f]] /\ new.kind = "did"
        /\ new.id = id /\ new.did = did /\ new.role = role
    OBVIOUS
  <1>3. ExtractDidDocument(records, doc, role) = <<>>
          \/ ExtractDidDocument(records, doc, role) = <<Saving(new)>>
    BY DEF ExtractDidDocument
  <1> HIDE DEF new, id, did
  <1>4. DidOf(new) = did
    BY <1>1, <1>2 DEF DidOf
  <1>5. DidIsKnown(new)
    BY <1>1, <1>2, <1>4 DEF DidIsKnown
  <1>6. WellFormed(new) /\ UpTo(3, new)
    BY <1>2, <1>5, RecordFields DEF WellFormed, UpTo
  <1>7. SoundWrites(3, <<Saving(new)>>)
    BY <1>6, SoundSave
  <1>8. SoundWrites(3, <<>>)
    BY OneOrTwo DEF SoundWrites
  <1> QED
    BY <1>3, <1>7, <1>8

LEMMA MovedInvitation ==
  ASSUME NEW records, \A x \in records : WellFormed(x),
         NEW old, NEW r, WellFormed(r), r.kind = "connection",
         r.didDoc = Unset, r.theirDidDoc = Unset, r.role \in {"requester", "responder"}
  PROVE  LET writes == MigrateToOobRecord(records, old, r)
         IN  SoundWrites(3, writes) /\ Replaces(writes, old)
  <1> DEFINE F == {"kind", "id", "role", "state", "didDoc", "theirDidDoc", "did", "theirDid",
                   "invitation", "multiUse", "outOfBandId", "typeTag", "types"}
             G == {"kind", "id", "invitation", "role", "state", "reusable"}
             found == OobRecordsOf(records, r)
             made == [kind |-> "outOfBand", id |-> Uuid(records, 1), invitation |-> r.invitation,
                      role |-> OobRole(r), state |-> OobState(r.role, r.state),
                      reusable |-> r.multiUse]
             oob == IF found = {} THEN made ELSE CHOOSE o \in found : TRUE
             open == [oob EXCEPT !.reusable = TRUE, !.state = "await-response"]
             single == [r EXCEPT !.multiUse = FALSE]
             moved == [r EXCEPT !.invitation = Unset, !.multiUse = FALSE, !.outOfBandId = oob.id]
             saves == IF found = {} THEN <<Saving(made)>> ELSE <<>>
  <1>1. r = [f \in F |-> r[f]]
    BY RecordFields DEF WellFormed
  <1>2. made = [f \in G |-> made[f]] /\ made.kind = "outOfBand"
    OBVIOUS
  <1>3. \A o \in found : o = [f \in G |-> o[f]] /\ o.kind = "outOfBand"
    <2> TAKE o \in found
    <2>1. o \in records /\ o.kind = "outOfBand"
      BY DEF OobRecordsOf, OfKind
    <2>2. WellFormed(o)
      BY <2>1
    <2> QED
      BY <2>1, <2>2, RecordFields DEF WellFormed
  <1>4. MigrateToOobRecord(records, old, r) =
          IF r.invitation = Unset THEN <<Updating(old, single)>>
          ELSE saves \o (IF r.multiUse THEN <<Updating(oob, open), Deleting(old)>>
                         ELSE <<Updating(old, moved)>>)
    BY DEF MigrateToOobRecord
  <1>5. \A o : o.kind = "outOfBand" /\ o = [f \in G |-> o[f]] => WellFormed(o) /\ UpTo(3, o)
    BY RecordFields DEF WellFormed, UpTo
  <1>6. oob = [f \in G |-> oob[f]] /\ oob.kind = "outOfBand"
    <2> HIDE DEF made, found
    <2> QED
      BY <1>2, <1>3
  <1> HIDE DEF made, found
  <1>7. SoundWrites(3, saves)
    <2>1. SoundWrites(3, <<Saving(made)>>)
      BY <1>2, <1>5, SoundSave
    <2>2. SoundWrites(3, <<>>)
      BY OneOrTwo DEF SoundWrites
    <2> QED
      BY <2>1, <2>2
  <1> HIDE DEF saves, oob
  <1>8. open = [f \in G |-> open[f]] /\ open.kind = "outOfBand"
    BY <1>6
  <1>9. /\ single = [f \in F |-> single[f]] /\ single.multiUse = FALSE /\ single.kind = "connection"
        /\ single.role = r.role /\ single.did = r.did /\ single.theirDid = r.theirDid
        /\ single.didDoc = Unset /\ single.theirDidDoc = Unset
        /\ single.invitation = r.invitation
    BY <1>1
  <1>10. /\ moved = [f \in F |-> moved[f]] /\ moved.multiUse = FALSE /\ moved.kind = "connection"
         /\ moved.role = r.role /\ moved.did = r.did /\ moved.theirDid = r.theirDid
         /\ moved.didDoc = Unset /\ moved.theirDidDoc = Unset
         /\ moved.invitation = Unset
    BY <1>1
  <1> HIDE DEF open, single, moved
  <1>11. \A c : /\ c = [f \in F |-> c[f]] /\ c.multiUse = FALSE /\ c.kind = "connection"
               /\ c.role = r.role /\ c.did = r.did /\ c.theirDid = r.theirDid
               /\ c.didDoc = Unset /\ c.theirDidDoc = Unset /\ c.invitation = Unset
               => WellFormed(c) /\ UpTo(3, c)
    <2>1. \A did \in {r.did, r.theirDid} \ {Unset} : did[1] # "sov"
      BY DEF WellFormed
    <2> SUFFICES ASSUME NEW c,
                        c = [f \in F |-> c[f]], c.multiUse = FALSE, c.kind = "connection",
                        c.role = r.role, c.did = r.did, c.theirDid = r.theirDid,
                        c.didDoc = Unset, c.theirDidDoc = Unset, c.invitation = Unset
                 PROVE  WellFormed(c) /\ UpTo(3, c)
      BY Zenon
    <2>2. UpTo(3, c)
      BY DEF UpTo
    <2>3. c = [f \in Fields[c.kind] |-> c[f]] /\ c.kind \in DOMAIN Fields
      BY RecordFields
    <2>4. WellFormed(c)
      BY <2>1, <2>3 DEF WellFormed
    <2> QED
      BY <2>2, <2>4
  <1>12. /\ r.invitation = Unset => WellFormed(single) /\ UpTo(3, single)
         /\ WellFormed(moved) /\ UpTo(3, moved)
    BY <1>9, <1>10, <1>11, Zenon
  <1>13. PICK writes : writes = MigrateToOobRecord(records, old, r)
    OBVIOUS
  <1>14. CASE r.invitation = Unset
    <2>1. writes = <<Updating(old, single)>>
      BY <1>4, <1>13, <1>14
    <2> QED
      BY <1>12, <1>13, <1>14, <2>1, SoundUpdate
  <1>15. CASE r.invitation # Unset /\ r.multiUse
    <2>1. PICK rest : rest = <<Updating(oob, open)>> \o <<Deleting(old)>>
      OBVIOUS
    <2>2. writes = saves \o rest
      BY <1>4, <1>13, <1>15, <2>1
    <2>3. SoundWrites(3, <<Updating(oob, open)>>)
      BY <1>5, <1>8, SoundUpdate
    <2>4. SoundWrites(3, rest) /\ Replaces(rest, old)
      BY <2>1, <2>3, SoundDelete, SoundTogether
    <2> QED
      BY <1>7, <1>13, <2>2, <2>4, SoundTogether
  <1>16. CASE r.invitation # Unset /\ ~r.multiUse
    <2>1. PICK rest : rest = <<Updating(old, moved)>>
      OBVIOUS
    <2>2. writes = saves \o rest
      BY <1>4, <1>13, <1>16, <2>1
    <2>3. SoundWrites(3, rest) /\ Replaces(rest, old)
      BY <1>12, <2>1, SoundUpdate, Zenon
    <2> QED
      BY <1>7, <1>13, <2>2, <2>3, SoundTogether
  <1> QED
    BY <1>14, <1>15, <1>16

LEMMA SoundConnection ==
  ASSUME UnsetIsNoTuple, NEW records, \A x \in records : WellFormed(x),
         NEW r, WellFormed(r), IsFor(3, r)
  PROVE  LET writes == MigrateConnection(records, r)
         IN  SoundWrites(3, writes) /\ Replaces(writes, r)
  <1> DEFINE F == {"kind", "id", "role", "state", "didDoc", "theirDidDoc", "did", "theirDid",
                   "invitation", "multiUse", "outOfBandId", "typeTag", "types"}
             new == UpdatedConnection(r)
             created == ExtractDidDocument(records, r.didDoc, "created")
             received == ExtractDidDocument(records, r.theirDidDoc, "received")
             rest == MigrateToOobRecord(records, r, new)
  <1>1. /\ r.kind = "connection" /\ r = [f \in F |-> r[f]] /\ r.multiUse \in BOOLEAN
        /\ r.role \in {"inviter", "invitee", "requester", "responder"}
        /\ \A did \in {r.did, r.theirDid} \ {Unset} : did[1] # "sov"
    BY RecordFields DEF WellFormed, IsFor
  <1>2. NewRole(r.role) \in {"requester", "responder"}
    BY <1>1 DEF NewRole
  <1>3. \A did, doc : DidAfter(did, doc)[1] = "peer" \/ DidAfter(did, doc) = did
    BY DEF DidAfter, PeerDid
  <1>4. /\ new = [f \in F |-> new[f]] /\ new.kind = "connection" /\ new.multiUse = r.multiUse
        /\ new.role = NewRole(r.role) /\ new.didDoc = Unset /\ new.theirDidDoc = Unset
        /\ new.did = DidAfter(r.did, r.didDoc) /\ new.theirDid = DidAfter(r.theirDid, r.theirDidDoc)
    BY <1>1 DEF UpdatedConnection
  <1> HIDE DEF new
  <1>5. WellFormed(new)
    <2>1. \A did \in {new.did, new.theirDid} \ {Unset} : did[1] # "sov"
      BY <1>1, <1>3, <1>4
    <2> QED
      BY <1>1, <1>2, <1>4, <2>1, RecordFields DEF WellFormed
  <1>6. SoundWrites(3, rest) /\ Replaces(rest, r)
    BY <1>2, <1>4, <1>5, MovedInvitation
  <1>7. SoundWrites(3, created) /\ SoundWrites(3, received)
    BY ExtractedDid
  <1>8. MigrateConnection(records, r) = (created \o received) \o rest
    BY DEF MigrateConnection, new
  <1> HIDE DEF created, received, rest
  <1>9. SoundWrites(3, created \o received)
    BY <1>7, SoundTogether
  <1> QED
    BY <1>6, <1>8, <1>9, SoundTogether

\* What the n-th migration goes through, and what it writes for a record.
LEMMA MigrationsAreSound ==
  ASSUME UnsetIsNoTuple, NEW n \in 1 .. 9, NEW records, \A x \in records : WellFormed(x)
  PROVE  /\ ToMigrate(Migrations[n], records) = {r \in records : IsFor(n, r)}
         /\ \A r : WellFormed(r) /\ UpTo(n - 1, r) /\ IsFor(n, r) =>
              LET writes == WritesFor(Migrations[n], records, r)
              IN  SoundWrites(n, writes) /\ Replaces(writes, r)
  <1> DEFINE Goal(k, name) ==
               /\ ToMigrate(name, records) = {r \in records : IsFor(k, r)}
               /\ \A r : WellFormed(r) /\ UpTo(k - 1, r) /\ IsFor(k, r) =>
                    /\ SoundWrites(k, WritesFor(name, records, r))
                    /\ Replaces(WritesFor(name, records, r), r)
  <1>1. Goal(1, "credentials")
    <2>1. \A r : WritesFor("credentials", records, r) = MigrateCredential(records, r)
      BY DEF WritesFor
    <2>2. ToMigrate("credentials", records) = {r \in records : IsFor(1, r)}
      BY DEF ToMigrate, OfKind, IsFor
    <2> QED
      BY <2>1, <2>2, SoundCredential
  <1>2. Goal(2, "mediation")
    <2>1. \A r : WritesFor("mediation", records, r) = MigrateMediation(r)
      BY DEF WritesFor
    <2>2. ToMigrate("mediation", records) = {r \in records : IsFor(2, r)}
      BY DEF ToMigrate, OfKind, IsFor
    <2> QED
      BY <2>1, <2>2, SoundMediation
  <1>3. Goal(3, "connections")
    <2>1. \A r : WritesFor("connections", records, r) = MigrateConnection(records, r)
      BY DEF WritesFor
    <2>2. ToMigrate("connections", records) = {r \in records : IsFor(3, r)}
      BY DEF ToMigrate, OfKind, IsFor
    <2> QED
      BY <2>1, <2>2, SoundConnection
  <1>4. Goal(4, "proofs")
    <2>1. \A r : WritesFor("proofs", records, r) = MigrateProof(records, r)
      BY DEF WritesFor
    <2>2. ToMigrate("proofs", records) = {r \in records : IsFor(4, r)}
      BY DEF ToMigrate, OfKind, IsFor
    <2> QED
      BY <2>1, <2>2, SoundProof
  <1>5. Goal(5, "connection types")
    <2>1. \A r : WritesFor("connection types", records, r) = MigrateConnectionTypes(records, r)
      BY DEF WritesFor
    <2>2. ToMigrate("connection types", records) = {r \in records : IsFor(5, r)}
      BY DEF ToMigrate, OfKind, IsFor
    <2>3. 5 - 1 = 4
      OBVIOUS
    <2> QED
      BY <2>1, <2>2, <2>3, SoundConnectionTypes
  <1>6. Goal(6, "did ids")
    <2>1. \A r : WritesFor("did ids", records, r) = MigrateDidId(records, r)
      BY DEF WritesFor
    <2>2. ToMigrate("did ids", records) = {r \in records : IsFor(6, r)}
      BY DEF ToMigrate, OfKind, IsFor
    <2> QED
      BY <2>1, <2>2, SoundDidId
  <1>7. Goal(7, "sov dids")
    <2>1. \A r : WritesFor("sov dids", records, r) = MigrateSovDid(r)
      BY DEF WritesFor
    <2>2. ToMigrate("sov dids", records) = {r \in records : IsFor(7, r)}
      BY DEF ToMigrate, OfKind, IsFor
    <2>3. 7 - 1 = 6
      OBVIOUS
    <2> QED
      BY <2>1, <2>2, <2>3, SoundSovDid
  <1>8. Goal(8, "cache")
    <2>1. \A r : WritesFor("cache", records, r) = <<Deleting(r)>>
      BY DEF WritesFor
    <2>2. ToMigrate("cache", records) = {r \in records : IsFor(8, r)}
      BY DEF ToMigrate, OfKind, IsFor
    <2> QED
      BY <2>1, <2>2, SoundDelete
  <1>9. Goal(9, "w3c credentials")
    <2>1. \A r : WritesFor("w3c credentials", records, r) = MigrateW3cCredential(r)
      BY DEF WritesFor
    <2>2. ToMigrate("w3c credentials", records) = {r \in records : IsFor(9, r)}
      BY DEF ToMigrate, OfKind, IsFor
    <2> QED
      BY <2>1, <2>2, SoundW3cCredential
  <1> HIDE DEF Goal
  <1>10. Goal(n, Migrations[n])
    <2>1. \/ n = 1 \/ n = 2 \/ n = 3 \/ n = 4 \/ n = 5 \/ n = 6 \/ n = 7 \/ n = 8 \/ n = 9
      OBVIOUS
    <2> QED
      BY <1>1, <1>2, <1>3, <1>4, <1>5, <1>6, <1>7, <1>8, <1>9, <2>1, MigrationNames
  <1> QED
    BY <1>10 DEF Goal

LEMMA NeededAreNext ==
  ASSUME NEW j \in 0 .. 4,
         NEW toVersion \in {u.to : u \in ToSet(SupportedUpdates)} \cup {Unset}
  PROVE  \E hi \in 0 .. 4 : NeededUpdates(VersionAt(j), toVersion) = j + 1 .. hi
  <1>1. \A k \in 1 .. 4 : SupportedUpdates[k].to = VersionAt(k)
    BY UpdateTable
  <1>2. DOMAIN SupportedUpdates = 1 .. 4
    BY UpdateTable
  <1>3. \A i, k \in 0 .. 4 : IsHigher(VersionAt(i), VersionAt(k)) <=> i > k
    BY VersionOrder
  <1>4. CASE toVersion = Unset
    <2>1. NeededUpdates(VersionAt(j), toVersion) = {k \in 1 .. 4 : k > j}
      BY <1>1, <1>2, <1>3, <1>4 DEF NeededUpdates
    <2>2. {k \in 1 .. 4 : k > j} = j + 1 .. 4
      OBVIOUS
    <2> QED
      BY <2>1, <2>2
  <1>5. CASE toVersion # Unset
    <2>1. PICK t \in 1 .. 4 : toVersion = VersionAt(t)
      BY <1>1, <1>2, <1>5 DEF ToSet
    <2>2. IsHigher(toVersion, VersionAt(j)) <=> t > j
      BY <1>3, <2>1
    <2>3. CASE t > j
      <3>1. NeededUpdates(VersionAt(j), toVersion) = {k \in 1 .. 4 : k > j /\ ~(k > t)}
        BY <1>1, <1>2, <1>3, <1>5, <2>1, <2>2, <2>3 DEF NeededUpdates
      <3>2. {k \in 1 .. 4 : k > j /\ ~(k > t)} = j + 1 .. t
        OBVIOUS
      <3> QED
        BY <3>1, <3>2
    <2>4. CASE ~(t > j)
      <3>1. NeededUpdates(VersionAt(j), toVersion) = {}
        BY <1>5, <2>2, <2>4 DEF NeededUpdates
      <3>2. j + 1 .. j = {}
        OBVIOUS
      <3> QED
        BY <3>1, <3>2
    <2> QED
      BY <2>3, <2>4
  <1> QED
    BY <1>4, <1>5

LEMMA FirstOfNext ==
  ASSUME NEW j \in 0 .. 4, NEW hi \in 0 .. 4, j + 1 .. hi # {}
  PROVE  /\ j < hi /\ Min(j + 1 .. hi) = j + 1
         /\ (j + 1 .. hi) \ {Min(j + 1 .. hi)} = (j + 1) + 1 .. hi
  <1> DEFINE S == j + 1 .. hi
  <1>1. j < hi /\ S \subseteq Nat /\ j + 1 \in S /\ \A k \in S : j + 1 <= k
    OBVIOUS
  <1>2. Min(S) \in S /\ \A k \in S : Min(S) <= k
    <2> HIDE DEF S
    <2> QED
      BY <1>1, LeastIsElement
  <1>3. Min(S) = j + 1
    <2> HIDE DEF S
    <2>1. Min(S) \in Nat /\ Min(S) <= j + 1 /\ j + 1 <= Min(S)
      BY <1>1, <1>2
    <2> QED
      BY <2>1
  <1>4. S \ {j + 1} = (j + 1) + 1 .. hi
    OBVIOUS
  <1> QED
    BY <1>1, <1>3, <1>4

LEMMA DataOfContents ==
  ASSUME NEW w
  PROVE  \A j : DataAt(j, Contents(w)) <=> DataAt(j, w)
  BY DEF DataAt, Contents, StorageVersion

LEMMA SameContents ==
  ASSUME NEW w, NEW v, Contents(v) = Contents(w)
  PROVE  \A j : DataAt(j, w) => DataAt(j, v)
  BY DataOfContents

\* When no update runs the wallet is as one of the versions has it.
LEMMA Rest ==
  ASSUME work'.stage \notin {"backup", "migrating"}, work'.updates = {}, work'.done = 0,
         work'.todo = {}, work'.writes = <<>>,
         \A b \in backups' : \E j \in 0 .. 4 : DataAt(j, b.contents),
         wallet' = Unset \/ \E j \in 0 .. 4 : DataAt(j, wallet')
  PROVE  DataInv'
  <1>1. ASSUME NEW j \in 0 .. 4, DataAt(j, wallet')
        PROVE  Progress(j, j, MigrationsTo(j))'
    <2>1. j + 1 .. j = {}
      OBVIOUS
    <2>2. MigrationsTo(j) \in Nat /\ MigrationsTo(j) = MigrationsTo(j) + 0
      BY MigrationCounts
    <2>3. \A r \in wallet'.records : OnTheWay(MigrationsTo(j), r)'
      BY <1>1 DEF DataAt, OnTheWay
    <2>4. ToSet(<<>>) = {} /\ <<>> \in Seq(ToSet(<<>>))
      BY OneOrTwo
    <2> QED
      BY <1>1, <2>1, <2>2, <2>3, <2>4 DEF Progress
  <1>2. \A j \in 0 .. 4 : MigrationsTo(j) \in 0 .. 9
    BY MigrationCounts
  <1>3. wallet' # Unset => \E j \in 0 .. 4, hi \in 0 .. 4, n \in 0 .. 9 : Progress(j, hi, n)'
    BY <1>1, <1>2
  <1> QED
    BY <1>3 DEF DataInv

LEMMA RestStage ==
  ASSUME NEW stage, ToStage(stage)
  PROVE  /\ work'.stage = stage /\ work'.updates = {} /\ work'.done = 0
         /\ work'.todo = {} /\ work'.writes = <<>>
  <1>1. work' = [stage |-> stage, updates |-> {}, done |-> 0, migration |-> Unset, todo |-> {},
                 writes |-> <<>>]
    BY DEF ToStage, NoUpdate
  <1> QED
    BY <1>1

\* While no update runs, nothing of one is left over.
LEMMA NothingToDo ==
  ASSUME UpdateInv, DataInv, work.stage \notin {"backup", "migrating"}
  PROVE  work.updates = {} /\ work.done = 0 /\ work.todo = {} /\ work.writes = <<>>
  BY DEF DataInv, UpdateInv, WorkInv, AtUpdateStage

LEMMA InitializeWalletData ==
  ASSUME UpdateInv, DataInv, InitializeWallet
  PROVE  DataInv'
  <1>1. work.stage = "none" /\ UNCHANGED <<backups, work>>
    BY DEF InitializeWallet, AtUpdateStage
  <1>2. work.updates = {} /\ work.done = 0 /\ work.todo = {} /\ work.writes = <<>>
    BY <1>1, NothingToDo
  <1>3. \E j \in 0 .. 4 : DataAt(j, wallet')
    <2>1. CASE wallet = Unset
      <3>1. wallet' = [open |-> TRUE, version |-> FrameworkVersion, records |-> {}]
        BY <2>1 DEF InitializeWallet
      <3>2. Len(SupportedUpdates) = 4
        BY DEF SupportedUpdates
      <3>3. FrameworkVersion = VersionAt(4)
        BY <3>2, UpdateTable DEF FrameworkVersion, Last
      <3>4. StorageVersion(wallet') \in {VersionAt(0), VersionAt(4)}
        BY <3>1, <3>3, UpdateTable DEF StorageVersion
      <3>5. wallet'.records = {}
        BY <3>1
      <3> QED
        BY <3>4, <3>5 DEF DataAt
    <2>2. CASE wallet # Unset
      <3>1. Contents(wallet') = Contents(wallet)
        <4>1. wallet' = [wallet EXCEPT !.open = TRUE]
          BY <2>2 DEF InitializeWallet
        <4> QED
          BY <2>2, <4>1, WalletEdits DEF UpdateInv
      <3> QED
        BY <2>2, <3>1, SameContents DEF DataInv, Progress
    <2> QED
      BY <2>1, <2>2
  <1> QED
    BY <1>1, <1>2, <1>3, Rest DEF DataInv

LEMMA ReadStorageVersionData ==
  ASSUME UpdateInv, DataInv, ReadStorageVersion
  PROVE  DataInv'
  <1>1. /\ work.stage = "none" /\ wallet # Unset /\ UNCHANGED <<backups, work>>
        /\ wallet' = [wallet EXCEPT !.version = StorageVersion(wallet)]
    BY DEF ReadStorageVersion, AtUpdateStage, Opened
  <1>2. work.updates = {} /\ work.done = 0 /\ work.todo = {} /\ work.writes = <<>>
    BY <1>1, NothingToDo
  <1>3. Contents(wallet') = Contents(wallet)
    BY <1>1, WalletEdits DEF UpdateInv
  <1>4. \E j \in 0 .. 4 : DataAt(j, wallet')
    BY <1>1, <1>3, SameContents DEF DataInv, Progress
  <1> QED
    BY <1>1, <1>2, <1>4, Rest DEF DataInv

LEMMA StartUpdateData ==
  ASSUME UpdateInv, DataInv,
         NEW toVersion \in {u.to : u \in ToSet(SupportedUpdates)} \cup {Unset},
         StartUpdate(toVersion)
  PROVE  DataInv'
  <1> DEFINE needed == NeededUpdates(StorageVersion(wallet), toVersion)
  <1>1. /\ work.stage = "none" /\ wallet # Unset /\ UNCHANGED backups
        /\ wallet' = [wallet EXCEPT !.version = StorageVersion(wallet)]
        /\ work' = [NoUpdate EXCEPT !.stage = "backup", !.updates = needed]
    BY DEF StartUpdate, AtUpdateStage, Opened
  <1> HIDE DEF needed
  <1>2. /\ work'.stage = "backup" /\ work'.updates = needed /\ work'.done = 0
        /\ work'.todo = {} /\ work'.writes = <<>>
    <2>1. work' = [stage |-> "backup", updates |-> needed, done |-> 0, migration |-> Unset,
                   todo |-> {}, writes |-> <<>>]
      BY <1>1 DEF NoUpdate
    <2> QED
      BY <2>1
  <1>3. PICK j \in 0 .. 4 : DataAt(j, wallet)
    BY <1>1 DEF DataInv, Progress
  <1>4. DataAt(j, wallet')
    <2>1. Contents(wallet') = Contents(wallet)
      BY <1>1, WalletEdits DEF UpdateInv
    <2> QED
      BY <1>3, <2>1, SameContents
  <1>5. PICK hi \in 0 .. 4 : needed = j + 1 .. hi
    <2>1. StorageVersion(wallet) = VersionAt(j)
      BY <1>3 DEF DataAt
    <2> QED
      BY <2>1, NeededAreNext DEF needed
  <1>6. Progress(j, hi, MigrationsTo(j))'
    <2>1. MigrationsTo(j) \in Nat /\ MigrationsTo(j) = MigrationsTo(j) + 0
      BY MigrationCounts
    <2>2. \A r \in wallet'.records : OnTheWay(MigrationsTo(j), r)'
      BY <1>4 DEF DataAt, OnTheWay
    <2>3. ToSet(<<>>) = {} /\ <<>> \in Seq(ToSet(<<>>))
      BY OneOrTwo
    <2> QED
      BY <1>2, <1>4, <1>5, <2>1, <2>2, <2>3 DEF Progress
  <1>7. MigrationsTo(j) \in 0 .. 9
    BY MigrationCounts
  <1> QED
    BY <1>1, <1>2, <1>6, <1>7 DEF DataInv

LEMMA CreateBackupData ==
  ASSUME UpdateInv, DataInv, CreateBackup
  PROVE  DataInv'
  <1>1. work.stage = "backup" /\ UNCHANGED wallet /\ wallet # Unset
    BY DEF CreateBackup, UpdateInv, WorkInv, AtUpdateStage
  <1>2. CASE /\ backups' = backups \cup {[run |-> updateRuns, contents |-> Contents(wallet)]}
             /\ work' = [work EXCEPT !.stage = "migrating"]
    <2> DEFINE new == [run |-> updateRuns, contents |-> Contents(wallet)]
    <2>1. \E j \in 0 .. 4 : DataAt(j, new.contents)
      <3>1. new.contents = Contents(wallet)
        OBVIOUS
      <3>2. \E j \in 0 .. 4 : DataAt(j, wallet)
        BY <1>1 DEF DataInv, Progress
      <3> QED
        BY <3>1, <3>2, DataOfContents
    <2> HIDE DEF new
    <2>2. \A b \in backups' : \E j \in 0 .. 4 : DataAt(j, b.contents)
      BY <1>2, <2>1 DEF DataInv, new
    <2>3. /\ work'.stage = "migrating" /\ work'.updates = work.updates /\ work'.done = work.done
          /\ work'.migration = work.migration /\ work'.todo = work.todo
          /\ work'.writes = work.writes
      BY <1>2 DEF UpdateInv, IsWork
    <2>4. \A j, hi, n : Progress(j, hi, n) => Progress(j, hi, n)'
      BY <1>1, <2>3 DEF Progress, OnTheWay
    <2> QED
      BY <1>1, <2>2, <2>3, <2>4 DEF DataInv
  <1>3. CASE ToStage("none") /\ UNCHANGED backups
    <2>1. \E j \in 0 .. 4 : DataAt(j, wallet')
      BY <1>1 DEF DataInv, Progress
    <2>2. \A b \in backups' : \E j \in 0 .. 4 : DataAt(j, b.contents)
      BY <1>3 DEF DataInv
    <2> QED
      BY <1>3, <2>1, <2>2, RestStage, Rest
  <1> QED
    BY <1>2, <1>3 DEF CreateBackup

\* What an update that runs has come to.
LEMMA Migrating ==
  ASSUME UpdateInv, DataInv, AtUpdateStage("migrating")
  PROVE  wallet # Unset /\ \E j \in 0 .. 4, hi \in 0 .. 4, n \in 0 .. 9 : Progress(j, hi, n)
  BY DEF DataInv, UpdateInv, WorkInv, AtUpdateStage

LEMMA AllMigrated ==
  ASSUME NEW j, NEW hi, NEW n, Progress(j, hi, n), Idle
  PROVE  \A r \in wallet.records : WellFormed(r) /\ UpTo(n, r)
  BY OneOrTwo DEF Progress, OnTheWay, DataAt, Idle

LEMMA NextMigrationData ==
  ASSUME UnsetIsNoTuple, UpdateInv, DataInv, NextMigration
  PROVE  DataInv'
  <1>1. Idle /\ work.updates # {} /\ work.done < Len(CurrentUpdate.migrations)
    BY DEF NextMigration
  <1>2. AtUpdateStage("migrating")
    BY <1>1 DEF Idle
  <1>3. PICK j \in 0 .. 4, hi \in 0 .. 4, n \in 0 .. 9 : Progress(j, hi, n)
    BY <1>2, Migrating
  <1>4. work.updates = j + 1 .. hi /\ work.done \in Nat /\ n = MigrationsTo(j) + work.done
    BY <1>3 DEF Progress
  <1>5. j < hi /\ Min(work.updates) = j + 1
    BY <1>1, <1>4, FirstOfNext
  <1> DEFINE migration == CurrentUpdate.migrations[work.done + 1]
             todo == ToMigrate(migration, wallet.records)
  <1>6. n < MigrationsTo(j + 1) /\ migration = Migrations[n + 1] /\ n + 1 \in 1 .. 9
    <2>1. j + 1 \in 1 .. 4 /\ (j + 1) - 1 = j
      BY <1>5
    <2>2. PICK u : u = SupportedUpdates[j + 1]
      OBVIOUS
    <2>3. /\ Len(u.migrations) = MigrationsTo(j + 1) - MigrationsTo(j)
          /\ \A d \in 1 .. Len(u.migrations) : u.migrations[d] = Migrations[MigrationsTo(j) + d]
      BY <2>1, <2>2, UpdateTable
    <2>4. CurrentUpdate = u
      BY <1>5, <2>2 DEF CurrentUpdate
    <2>5. MigrationsTo(j) \in 0 .. 9 /\ MigrationsTo(j + 1) \in 0 .. 9
      BY <2>1, MigrationCounts
    <2>6. work.done + 1 \in 1 .. Len(u.migrations)
      BY <1>1, <1>4, <2>3, <2>4, <2>5
    <2>7. PICK a \in 0 .. 9 : a = MigrationsTo(j)
      BY <2>5
    <2>8. PICK b \in 0 .. 9 : b = MigrationsTo(j + 1)
      BY <2>5
    <2>9. PICK d \in Nat : d = work.done
      BY <1>4
    <2>10. n = a + d
      BY <1>4, <2>7, <2>9
    <2>11. d + 1 <= b - a
      BY <2>3, <2>6, <2>7, <2>8, <2>9
    <2>12. n < b /\ n + 1 \in 1 .. 9 /\ a + (d + 1) = n + 1
      BY <2>10, <2>11
    <2>13. migration = Migrations[a + (d + 1)]
      BY <2>3, <2>4, <2>6, <2>7, <2>9
    <2> QED
      BY <2>8, <2>12, <2>13
  <1>7. /\ work' = [work EXCEPT !.done = work.done + 1, !.migration = migration, !.todo = todo]
        /\ UNCHANGED <<wallet, backups>>
    BY DEF NextMigration
  <1> HIDE DEF migration, todo
  <1>8. /\ work'.stage = "migrating" /\ work'.updates = work.updates /\ work'.done = work.done + 1
        /\ work'.migration = migration /\ work'.todo = todo /\ work'.writes = <<>>
    BY <1>1, <1>2, <1>7 DEF UpdateInv, IsWork, AtUpdateStage, Idle
  <1>9. \A r \in wallet.records : WellFormed(r) /\ UpTo(n, r)
    BY <1>1, <1>3, AllMigrated
  <1>10. todo = {r \in wallet.records : IsFor(n + 1, r)}
    BY <1>6, <1>9, MigrationsAreSound DEF todo
  <1>11. n + 1 - 1 = n
    OBVIOUS
  <1>12. \A r \in wallet.records : OnTheWay(n + 1, r)'
    <2> TAKE r \in wallet.records
    <2>1. CASE IsFor(n + 1, r)
      BY <1>8, <1>9, <1>10, <1>11, <2>1 DEF OnTheWay
    <2>2. CASE ~IsFor(n + 1, r)
      BY <1>6, <1>9, <1>11, <2>2, LaterMigrations DEF OnTheWay
    <2> QED
      BY <2>1, <2>2
  <1>13. \A r \in work'.todo : WellFormed(r) /\ UpTo(n + 1 - 1, r) /\ IsFor(n + 1, r)
    BY <1>8, <1>9, <1>10, <1>11
  <1>14. ToSet(<<>>) = {} /\ <<>> \in Seq(ToSet(<<>>))
    BY OneOrTwo
  <1>15. /\ n + 1 = MigrationsTo(j) + work'.done /\ work'.done \in Nat /\ j < 4
         /\ n + 1 <= MigrationsTo(j + 1) /\ work'.done > 0
    <2>1. MigrationsTo(j) \in 0 .. 9 /\ MigrationsTo(j + 1) \in 0 .. 9
      BY <1>5, MigrationCounts
    <2>2. PICK a \in 0 .. 9 : a = MigrationsTo(j)
      BY <2>1
    <2>3. PICK b \in 0 .. 9 : b = MigrationsTo(j + 1)
      BY <2>1
    <2>4. PICK d \in Nat : d = work.done
      BY <1>4
    <2>5. n = a + d /\ n < b /\ work'.done = d + 1
      BY <1>4, <1>6, <1>8, <2>2, <2>3, <2>4
    <2>6. n + 1 = a + (d + 1) /\ d + 1 \in Nat /\ n + 1 <= b /\ d + 1 > 0 /\ j < 4
      BY <1>5, <2>5
    <2> QED
      BY <2>2, <2>3, <2>5, <2>6
  <1>16. Progress(j, hi, n + 1)'
    BY <1>3, <1>4, <1>5, <1>6, <1>7, <1>8, <1>12, <1>13, <1>14, <1>15 DEF Progress
  <1> QED
    BY <1>6, <1>7, <1>8, <1>16 DEF DataInv

\* The version is written when the migrations that lead to it have all ended.
LEMMA SetCurrentStorageVersionData ==
  ASSUME UnsetIsNoTuple, UpdateInv, DataInv, SetCurrentStorageVersion
  PROVE  DataInv'
  <1>1. Idle /\ work.updates # {} /\ work.done = Len(CurrentUpdate.migrations)
    BY DEF SetCurrentStorageVersion
  <1>2. AtUpdateStage("migrating")
    BY <1>1 DEF Idle
  <1>3. PICK j \in 0 .. 4, hi \in 0 .. 4, n \in 0 .. 9 : Progress(j, hi, n)
    BY <1>2, Migrating
  <1>4. work.updates = j + 1 .. hi /\ work.done \in Nat /\ n = MigrationsTo(j) + work.done
    BY <1>3 DEF Progress
  <1>5. /\ j < hi /\ Min(work.updates) = j + 1 /\ j + 1 \in 1 .. 4
        /\ work.updates \ {Min(work.updates)} = (j + 1) + 1 .. hi
    <2>1. work.updates = j + 1 .. hi /\ j + 1 .. hi # {}
      BY <1>1, <1>4
    <2>2. /\ j < hi /\ Min(j + 1 .. hi) = j + 1
          /\ (j + 1 .. hi) \ {Min(j + 1 .. hi)} = (j + 1) + 1 .. hi
      BY <2>1, FirstOfNext
    <2>3. j + 1 \in 1 .. 4
      BY <2>2
    <2> QED
      BY <2>1, <2>2, <2>3, Zenon
  <1>6. n = MigrationsTo(j + 1) /\ CurrentUpdate.to = VersionAt(j + 1)
    <2>1. (j + 1) - 1 = j
      BY <1>5
    <2>2. PICK u : u = SupportedUpdates[j + 1]
      OBVIOUS
    <2>3. Len(u.migrations) = MigrationsTo(j + 1) - MigrationsTo(j) /\ u.to = VersionAt(j + 1)
      BY <1>5, <2>1, <2>2, UpdateTable
    <2>4. CurrentUpdate = u
      BY <1>5, <2>2 DEF CurrentUpdate
    <2>5. PICK a \in 0 .. 9 : a = MigrationsTo(j)
      BY MigrationCounts
    <2>6. PICK b \in 0 .. 9 : b = MigrationsTo(j + 1)
      BY <1>5, MigrationCounts
    <2>7. PICK d \in Nat : d = work.done
      BY <1>4
    <2>8. d = b - a /\ n = a + d
      BY <1>1, <1>4, <2>3, <2>4, <2>5, <2>6, <2>7
    <2>9. n = b
      BY <2>8
    <2> QED
      BY <2>3, <2>4, <2>6, <2>9
  <1> DEFINE version == CurrentUpdate.to
             updates == work.updates \ {Min(work.updates)}
  <1>7. /\ wallet' = [wallet EXCEPT !.version = version]
        /\ work' = [work EXCEPT !.updates = updates, !.done = 0] /\ UNCHANGED backups
    BY DEF SetCurrentStorageVersion
  <1> HIDE DEF version, updates
  <1>8. /\ work'.stage = "migrating" /\ work'.updates = updates /\ work'.done = 0
        /\ work'.todo = {} /\ work'.writes = <<>>
    BY <1>1, <1>2, <1>7 DEF UpdateInv, IsWork, AtUpdateStage, Idle
  <1>9. wallet'.records = wallet.records /\ wallet'.version = version
    BY <1>2, <1>7, Migrating DEF UpdateInv, IsWallet
  <1>10. StorageVersion(wallet') = VersionAt(j + 1)
    <2>1. VersionAt(j + 1) # Unset
      <3>1. j + 1 = 1 \/ j + 1 = 2 \/ j + 1 = 3 \/ j + 1 = 4
        BY <1>5
      <3> QED
        BY <3>1, UpdateTable DEF v0_2, v0_3, v0_3_1, v0_4, UnsetIsNoTuple
    <2> QED
      BY <1>6, <1>9, <2>1 DEF StorageVersion, version
  <1>11. \A r \in wallet'.records : WellFormed(r) /\ UpTo(n, r)
    BY <1>1, <1>3, <1>9, AllMigrated
  <1>12. DataAt(j + 1, wallet')
    BY <1>6, <1>10, <1>11 DEF DataAt
  <1>13. ToSet(<<>>) = {} /\ <<>> \in Seq(ToSet(<<>>))
    BY OneOrTwo
  <1>14. n = MigrationsTo(j + 1) + 0
    BY <1>6
  <1>15. Progress(j + 1, hi, n)'
    BY <1>5, <1>8, <1>11, <1>12, <1>13, <1>14 DEF Progress, OnTheWay, updates
  <1>16. j + 1 \in 0 .. 4
    BY <1>5
  <1> QED
    BY <1>7, <1>8, <1>15, <1>16 DEF DataInv

LEMMA MigrateRecordData ==
  ASSUME UnsetIsNoTuple, UpdateInv, DataInv, NEW r, MigrateRecord(r)
  PROVE  DataInv'
  <1>1. r \in work.todo /\ work.writes = <<>> /\ UNCHANGED <<wallet, backups>>
    BY DEF MigrateRecord
  <1>2. AtUpdateStage("migrating")
    BY <1>1 DEF UpdateInv, WorkInv
  <1>3. PICK j \in 0 .. 4, hi \in 0 .. 4, n \in 0 .. 9 : Progress(j, hi, n)
    BY <1>2, Migrating
  <1>4. work.done \in Nat /\ work.done > 0
    BY <1>1, <1>3 DEF Progress
  <1>5. n \in 1 .. 9 /\ work.migration = Migrations[n]
    <2>1. PICK a \in 0 .. 9 : a = MigrationsTo(j)
      BY MigrationCounts
    <2>2. PICK d \in Nat : d = work.done
      BY <1>4
    <2>3. n = a + d /\ d > 0
      BY <1>3, <1>4, <2>1, <2>2 DEF Progress
    <2>4. n \in 1 .. 9
      BY <2>3
    <2> QED
      BY <1>3, <1>4, <2>4 DEF Progress
  <1> DEFINE writes == WritesFor(work.migration, wallet.records, r)
  <1>6. SoundWrites(n, writes) /\ Replaces(writes, r)
    <2>1. \A x \in wallet.records : WellFormed(x)
      BY <1>3 DEF Progress, DataAt
    <2>2. WellFormed(r) /\ UpTo(n - 1, r) /\ IsFor(n, r)
      BY <1>1, <1>3 DEF Progress
    <2> QED
      BY <1>5, <2>1, <2>2, MigrationsAreSound
  <1>7. work' = [work EXCEPT !.todo = work.todo \ {r}, !.writes = writes]
    BY DEF MigrateRecord
  <1> HIDE DEF writes
  <1>8. /\ work'.stage = work.stage /\ work'.updates = work.updates /\ work'.done = work.done
        /\ work'.migration = work.migration /\ work'.todo = work.todo \ {r}
        /\ work'.writes = writes
    BY <1>7 DEF UpdateInv, IsWork
  <1>9. \A x \in wallet.records : OnTheWay(n, x)'
    <2> TAKE x \in wallet.records
    <2>1. UpTo(n, x) \/ (UpTo(n - 1, x) /\ x \in work.todo)
      BY <1>1, <1>3, OneOrTwo DEF Progress, OnTheWay
    <2>2. x = r => \E write \in ToSet(work'.writes) : write.op # "save" /\ write.old = x
      BY <1>6, <1>8 DEF Replaces
    <2> QED
      BY <1>8, <2>1, <2>2 DEF OnTheWay
  <1>10. Progress(j, hi, n)'
    BY <1>1, <1>3, <1>4, <1>6, <1>8, <1>9 DEF Progress, SoundWrites
  <1> QED
    BY <1>1, <1>2, <1>8, <1>10 DEF DataInv, AtUpdateStage

LEMMA FirstAndRest ==
  ASSUME NEW S, NEW writes \in Seq(S), writes # <<>>
  PROVE  /\ Head(writes) \in ToSet(writes)
         /\ Tail(writes) \in Seq(ToSet(Tail(writes)))
         /\ ToSet(writes) = {Head(writes)} \cup ToSet(Tail(writes))
  <1>1. PICK rest : rest = Tail(writes)
    OBVIOUS
  <1>2. PICK n \in Nat : n = Len(writes)
    OBVIOUS
  <1>3. /\ n >= 1 /\ Head(writes) = writes[1] /\ DOMAIN writes = 1 .. n
        /\ rest \in Seq(S) /\ Len(rest) = n - 1 /\ DOMAIN rest = 1 .. n - 1
        /\ \A i \in 1 .. n - 1 : rest[i] = writes[i + 1]
    BY <1>1, <1>2
  <1>4. \A x \in ToSet(writes) : x = Head(writes) \/ x \in ToSet(rest)
    <2> TAKE x \in ToSet(writes)
    <2>1. PICK i \in 1 .. n : writes[i] = x
      BY <1>3 DEF ToSet
    <2>2. i = 1 \/ (i - 1 \in 1 .. n - 1 /\ i - 1 + 1 = i)
      BY <1>3
    <2> QED
      BY <1>3, <2>1, <2>2 DEF ToSet
  <1>5. \A x \in ToSet(rest) : x \in ToSet(writes)
    <2> TAKE x \in ToSet(rest)
    <2>1. PICK i \in 1 .. n - 1 : rest[i] = x
      BY <1>3 DEF ToSet
    <2>2. i + 1 \in 1 .. n
      BY <1>3
    <2> QED
      BY <1>3, <2>1, <2>2 DEF ToSet
  <1>6. Head(writes) \in ToSet(writes)
    BY <1>3 DEF ToSet
  <1>7. rest \in Seq(ToSet(rest))
    <2>1. \A i \in 1 .. n - 1 : rest[i] \in ToSet(rest)
      BY <1>3 DEF ToSet
    <2> QED
      BY <1>3, <2>1
  <1> QED
    BY <1>1, <1>4, <1>5, <1>6, <1>7

LEMMA WriteRecordData ==
  ASSUME UpdateInv, DataInv, WriteRecord
  PROVE  DataInv'
  <1> DEFINE first == Head(work.writes)
             rest == Tail(work.writes)
             records == Written(wallet.records, first)
  <1>1. work.writes # <<>> /\ ~WriteThrows(first) /\ UNCHANGED backups
    BY DEF WriteRecord
  <1>2. AtUpdateStage("migrating")
    BY <1>1 DEF UpdateInv, WorkInv
  <1>3. PICK j \in 0 .. 4, hi \in 0 .. 4, n \in 0 .. 9 : Progress(j, hi, n)
    BY <1>2, Migrating
  <1>4. wallet' = [wallet EXCEPT !.records = records] /\ work' = [work EXCEPT !.writes = rest]
    BY DEF WriteRecord
  <1>5. /\ first \in ToSet(work.writes) /\ rest \in Seq(ToSet(rest))
        /\ ToSet(work.writes) = {first} \cup ToSet(rest)
    BY <1>1, <1>3, FirstAndRest DEF Progress
  <1>6. first.op # "delete" => WellFormed(first.record) /\ UpTo(n, first.record)
    BY <1>1, <1>3, <1>5 DEF Progress, SoundWrite
  <1>7. \A x \in records :
          \/ x \in wallet.records /\ (first.op # "save" => x # first.old)
          \/ first.op # "delete" /\ x = first.record
    BY DEF Written
  <1> HIDE DEF first, rest, records
  <1>8. /\ work'.stage = "migrating" /\ work'.updates = work.updates /\ work'.done = work.done
        /\ work'.migration = work.migration /\ work'.todo = work.todo /\ work'.writes = rest
    BY <1>2, <1>4 DEF UpdateInv, IsWork, AtUpdateStage
  <1>9. /\ wallet'.records = records /\ wallet'.version = wallet.version
        /\ StorageVersion(wallet') = StorageVersion(wallet)
    BY <1>2, <1>4, Migrating DEF UpdateInv, IsWallet, StorageVersion
  <1>10. MigrationsTo(j) \in 0 .. n
    <2>1. PICK a \in 0 .. 9 : a = MigrationsTo(j)
      BY MigrationCounts
    <2>2. PICK d \in Nat : d = work.done
      BY <1>3 DEF Progress
    <2>3. n = a + d
      BY <1>3, <2>1, <2>2 DEF Progress
    <2> QED
      BY <2>1, <2>3
  <1>11. DataAt(j, wallet')
    <2>1. \A x \in wallet.records : WellFormed(x) /\ UpTo(MigrationsTo(j), x)
      BY <1>3 DEF Progress, DataAt
    <2>2. StorageVersion(wallet') = VersionAt(j)
      BY <1>3, <1>9 DEF Progress, DataAt
    <2>3. first.op # "delete" => WellFormed(first.record) /\ UpTo(MigrationsTo(j), first.record)
      BY <1>6, <1>10, FewerMigrations
    <2> QED
      BY <1>7, <1>9, <2>1, <2>2, <2>3 DEF DataAt
  <1>12. \A x \in records : OnTheWay(n, x)'
    <2> TAKE x \in records
    <2>1. CASE first.op # "delete" /\ x = first.record
      BY <1>6, <2>1 DEF OnTheWay
    <2>2. CASE x \in wallet.records /\ (first.op # "save" => x # first.old)
      BY <1>3, <1>5, <1>8, <2>2 DEF Progress, OnTheWay
    <2> QED
      BY <1>7, <2>1, <2>2
  <1>13. work.done # 0 /\ work.done > 0
    BY <1>1, <1>3 DEF Progress
  <1>14. Progress(j, hi, n)'
    BY <1>3, <1>5, <1>8, <1>9, <1>11, <1>12, <1>13 DEF Progress
  <1> QED
    BY <1>1, <1>8, <1>14 DEF DataInv

LEMMA FinishUpdateData ==
  ASSUME UpdateInv, DataInv, FinishUpdate
  PROVE  DataInv'
  <1>1. /\ AtUpdateStage("migrating") /\ UNCHANGED wallet /\ backups' = backups \ OwnBackup
        /\ work' = NoUpdate
    BY DEF FinishUpdate, Idle
  <1>2. /\ work'.stage = "none" /\ work'.updates = {} /\ work'.done = 0
        /\ work'.todo = {} /\ work'.writes = <<>>
    BY <1>1 DEF NoUpdate
  <1>3. \E j \in 0 .. 4 : DataAt(j, wallet')
    BY <1>1, Migrating DEF Progress
  <1>4. \A b \in backups' : \E j \in 0 .. 4 : DataAt(j, b.contents)
    BY <1>1 DEF DataInv
  <1> QED
    BY <1>2, <1>3, <1>4, Rest

LEMMA FailuresData ==
  ASSUME UpdateInv, DataInv, FailUpdate \/ RestoreFails
  PROVE  DataInv'
  <1>1. UNCHANGED <<wallet, backups>> /\ \E stage \in {"export", "none"} : ToStage(stage)
    BY DEF FailUpdate, RestoreFails
  <1>2. wallet' = Unset \/ \E j \in 0 .. 4 : DataAt(j, wallet')
    BY <1>1 DEF DataInv, Progress
  <1>3. \A b \in backups' : \E j \in 0 .. 4 : DataAt(j, b.contents)
    BY <1>1 DEF DataInv
  <1> QED
    BY <1>1, <1>2, <1>3, RestStage, Rest

LEMMA RestoreBackupData ==
  ASSUME UpdateInv, DataInv, RestoreBackup
  PROVE  DataInv'
  <1>1. \E stage \in {"delete", "import", "open", "clean up", "none"} : ToStage(stage)
    BY DEF RestoreBackup
  <1>2. \A b \in backups' : \E j \in 0 .. 4 : DataAt(j, b.contents)
    BY DEF RestoreBackup, DataInv
  <1>3. wallet' = Unset \/ \E j \in 0 .. 4 : DataAt(j, wallet')
    <2>1. CASE UNCHANGED wallet \/ wallet' = Unset
      BY <2>1 DEF DataInv, Progress
    <2>2. CASE \E b \in OwnBackup :
                 wallet' = [open |-> FALSE, version |-> b.contents.version,
                            records |-> b.contents.records]
      <3>1. PICK b \in OwnBackup :
              wallet' = [open |-> FALSE, version |-> b.contents.version,
                         records |-> b.contents.records]
        BY <2>2
      <3>2. b \in backups /\ IsContents(b.contents)
        BY DEF OwnBackup, UpdateInv, BackupsInv
      <3>3. Contents(wallet') = b.contents
        BY <3>1, <3>2, WalletOfContents
      <3>4. \E j \in 0 .. 4 : DataAt(j, b.contents)
        BY <3>2 DEF DataInv
      <3> QED
        BY <3>3, <3>4, DataOfContents
    <2>3. CASE AtUpdateStage("open") /\ wallet' = [wallet EXCEPT !.open = TRUE]
      <3>1. wallet # Unset
        BY <2>3 DEF UpdateInv, WorkInv, AtUpdateStage
      <3>2. Contents(wallet') = Contents(wallet)
        BY <2>3, <3>1, WalletEdits DEF UpdateInv
      <3> QED
        BY <3>1, <3>2, SameContents DEF DataInv, Progress
    <2> QED
      BY <2>1, <2>2, <2>3 DEF RestoreBackup
  <1> QED
    BY <1>1, <1>2, <1>3, RestStage, Rest

LEMMA CrashInUpdateData ==
  ASSUME UpdateInv, DataInv, CrashInUpdate
  PROVE  DataInv'
  <1>1. /\ wallet' = IF wallet = Unset THEN Unset ELSE [wallet EXCEPT !.open = FALSE]
        /\ work' = NoUpdate /\ UNCHANGED backups
    BY DEF CrashInUpdate
  <1>2. /\ work'.stage = "none" /\ work'.updates = {} /\ work'.done = 0
        /\ work'.todo = {} /\ work'.writes = <<>>
    BY <1>1 DEF NoUpdate
  <1>3. wallet' = Unset \/ \E j \in 0 .. 4 : DataAt(j, wallet')
    <2>1. wallet # Unset => Contents(wallet') = Contents(wallet)
      BY <1>1, WalletEdits DEF UpdateInv
    <2> QED
      BY <1>1, <2>1, SameContents DEF DataInv, Progress
  <1>4. \A b \in backups' : \E j \in 0 .. 4 : DataAt(j, b.contents)
    BY <1>1 DEF DataInv
  <1> QED
    BY <1>2, <1>3, <1>4, Rest

LEMMA DataInvKept ==
  ASSUME UnsetIsNoTuple, UpdateInv, DataInv, [UpdateNext]_updateVars
  PROVE  DataInv'
  <1>1. CASE UpdateNext
    BY <1>1, InitializeWalletData, ReadStorageVersionData, StartUpdateData, CreateBackupData,
       NextMigrationData, SetCurrentStorageVersionData, MigrateRecordData, WriteRecordData,
       FinishUpdateData, FailuresData, RestoreBackupData, CrashInUpdateData
    DEF UpdateNext
  <1>2. CASE UNCHANGED updateVars
    <2>1. UNCHANGED <<wallet, backups, work>>
      BY <1>2 DEF updateVars
    <2> QED
      BY <2>1 DEF DataInv, Progress, OnTheWay
  <1> QED
    BY <1>1, <1>2

\* What a version says of a wallet is what its migrations have made of each record.
LEMMA DataIsMigrated ==
  ASSUME NEW j \in 0 .. 4, NEW contents, StorageVersion(contents) = VersionAt(j),
         \A r \in contents.records : WellFormed(r)
  PROVE  (\A r \in contents.records : UpTo(MigrationsTo(j), r))
           <=> MigratedTo(StorageVersion(contents), contents.records)
  <1>1. /\ ~IsHigher(v0_2, VersionAt(j)) <=> j >= 1
        /\ ~IsHigher(v0_3, VersionAt(j)) <=> j >= 2
        /\ ~IsHigher(v0_3_1, VersionAt(j)) <=> j >= 3
        /\ ~IsHigher(v0_4, VersionAt(j)) <=> j >= 4
    <2>1. 1 \in 0 .. 4 /\ 2 \in 0 .. 4 /\ 3 \in 0 .. 4 /\ 4 \in 0 .. 4
      OBVIOUS
    <2>2. \A k \in 0 .. 4 : IsHigher(VersionAt(k), VersionAt(j)) <=> k > j
      BY VersionOrder
    <2>3. /\ IsHigher(v0_2, VersionAt(j)) <=> 1 > j
          /\ IsHigher(v0_3, VersionAt(j)) <=> 2 > j
          /\ IsHigher(v0_3_1, VersionAt(j)) <=> 3 > j
          /\ IsHigher(v0_4, VersionAt(j)) <=> 4 > j
      BY <2>1, <2>2, UpdateTable
    <2> QED
      BY <2>3
  <1> DEFINE n == MigrationsTo(j)
             records == contents.records
  <1>2. /\ n \in 0 .. 9 /\ (j >= 1 <=> n >= 3) /\ (j >= 2 <=> n >= 5) /\ (j >= 3 <=> n >= 6)
        /\ (j >= 4 <=> n >= 9) /\ n \in {0, 3, 5, 6, 9}
    <2>1. j = 0 \/ j = 1 \/ j = 2 \/ j = 3 \/ j = 4
      OBVIOUS
    <2>2. /\ MigrationsTo(0) = 0 /\ MigrationsTo(1) = 3 /\ MigrationsTo(2) = 5
          /\ MigrationsTo(3) = 6 /\ MigrationsTo(4) = 9
      BY DEF MigrationsTo
    <2> QED
      BY <2>1, <2>2
  <1> HIDE DEF n, records
  <1>3. MigratedTo(StorageVersion(contents), records) <=>
          /\ n >= 3 => Migrated_0_2(records)
          /\ n >= 5 => Migrated_0_3(records)
          /\ n >= 6 => Migrated_0_3_1(records)
          /\ n >= 9 => Migrated_0_4(records)
    BY <1>1, <1>2 DEF MigratedTo
  <1>4. ASSUME \A r \in records : UpTo(n, r)
        PROVE  /\ n >= 3 => Migrated_0_2(records)
               /\ n >= 5 => Migrated_0_3(records)
               /\ n >= 6 => Migrated_0_3_1(records)
               /\ n >= 9 => Migrated_0_4(records)
    <2>1. n >= 3 => Migrated_0_2(records)
      BY <1>2, <1>4 DEF Migrated_0_2, OfKind, UpTo
    <2>2. n >= 5 => Migrated_0_3(records)
      BY <1>2, <1>4 DEF Migrated_0_3, OfKind, UpTo
    <2>3. n >= 6 => Migrated_0_3_1(records)
      <3> SUFFICES ASSUME n >= 6, NEW r \in records, r.kind = "did"
                   PROVE  r.id[1] = "uuid" /\ r.did # Unset /\ r.did[1] # "uuid"
        BY DEF Migrated_0_3_1, OfKind
      <3>1. r.id[1] = "uuid"
        BY <1>2, <1>4 DEF UpTo
      <3>2. DidIsKnown(r)
        BY DEF WellFormed, records
      <3> QED
        BY <3>1, <3>2 DEF DidIsKnown, DidOf
    <2>4. n >= 9 => Migrated_0_4(records)
      BY <1>2, <1>4 DEF Migrated_0_4, OfKind, UpTo
    <2> QED
      BY <2>1, <2>2, <2>3, <2>4
  <1>5. ASSUME n >= 3 => Migrated_0_2(records), n >= 5 => Migrated_0_3(records),
               n >= 6 => Migrated_0_3_1(records), n >= 9 => Migrated_0_4(records),
               NEW r \in records
        PROVE  UpTo(n, r)
    <2>1. n >= 3 =>
            /\ r.kind = "credential" => r.messages = {} /\ r.credentialId = Unset /\ r.version # Unset
            /\ r.kind = "mediation" => r.role # Unset
            /\ r.kind = "connection" =>
                 /\ r.didDoc = Unset /\ r.theirDidDoc = Unset /\ r.invitation = Unset
                 /\ r.multiUse = FALSE /\ r.role \in {"requester", "responder"}
      BY <1>5 DEF Migrated_0_2, OfKind, WellFormed, records
    <2>2. n >= 5 => /\ r.kind = "proof" => r.messages = {} /\ r.version # Unset
                    /\ r.kind = "connection" => r.typeTag = {}
      BY <1>5 DEF Migrated_0_3, OfKind
    <2>3. n >= 6 /\ r.kind = "did" => r.id[1] = "uuid"
      BY <1>5 DEF Migrated_0_3_1, OfKind
    <2>4. n >= 9 => /\ r.kind # "cache"
                    /\ r.kind = "did" /\ r.role = "created" => r.did[1] # "sov"
                    /\ r.kind = "w3c" => r.claimFormat
      BY <1>5 DEF Migrated_0_4, OfKind
    <2> QED
      BY <1>2, <2>1, <2>2, <2>3, <2>4 DEF UpTo
  <1>6. (\A r \in records : UpTo(n, r)) <=> MigratedTo(StorageVersion(contents), records)
    BY <1>3, <1>4, <1>5
  <1> QED
    BY <1>6 DEF n, records

LEMMA DataInvInitially ==
  ASSUME UpdateInit
  PROVE  DataInv
  <1>1. PICK w \in LegacyWallets :
          wallet = [open |-> FALSE, version |-> w.version, records |-> w.records]
    BY DEF UpdateInit
  <1>2. wallet.version = w.version /\ wallet.records = w.records
    BY <1>1
  <1>3. /\ \A r \in wallet.records : WellFormed(r)
        /\ MigratedTo(StorageVersion(wallet), wallet.records)
        /\ w.version \in {Unset, v0_1} \cup {u.to : u \in ToSet(SupportedUpdates)}
    BY <1>2, UpdateAssumption DEF StorageVersion
  <1>4. PICK j \in 0 .. 4 : StorageVersion(wallet) = VersionAt(j)
    <2>1. \A u \in ToSet(SupportedUpdates) : \E k \in 1 .. 4 : u.to = VersionAt(k)
      BY UpdateTable DEF ToSet
    <2> QED
      BY <1>2, <1>3, <2>1, UpdateTable DEF StorageVersion
  <1>5. DataAt(j, wallet)
    BY <1>3, <1>4, DataIsMigrated DEF DataAt
  <1>6. /\ work.stage = "none" /\ work.updates = {} /\ work.done = 0
        /\ work.todo = {} /\ work.writes = <<>> /\ backups = {}
    BY DEF UpdateInit, NoUpdate
  <1>7. Progress(j, j, MigrationsTo(j))
    <2>1. j + 1 .. j = {}
      OBVIOUS
    <2>2. MigrationsTo(j) \in Nat /\ MigrationsTo(j) = MigrationsTo(j) + 0
      BY MigrationCounts
    <2>3. \A r \in wallet.records : OnTheWay(MigrationsTo(j), r)
      BY <1>5 DEF DataAt, OnTheWay
    <2>4. ToSet(<<>>) = {} /\ <<>> \in Seq(ToSet(<<>>))
      BY OneOrTwo
    <2> QED
      BY <1>5, <1>6, <2>1, <2>2, <2>3, <2>4 DEF Progress
  <1>8. MigrationsTo(j) \in 0 .. 9
    BY MigrationCounts
  <1> QED
    BY <1>6, <1>7, <1>8 DEF DataInv

\* UpdateAssistant: the version of the storage never says more than the migrations have
\* done, whatever fails, wherever the process crashes and whichever backup is imported.
THEOREM VersionsMatchTheData ==
  ASSUME UnsetIsNoWallet, UnsetIsNoTuple
  PROVE  UpdateSpec => []VersionMatchesData
  <1>1. UpdateInit => UpdateInv /\ DataInv
    BY UpdateInvInitially, DataInvInitially
  <1>2. UpdateInv /\ DataInv /\ [UpdateNext]_updateVars => (UpdateInv /\ DataInv)'
    BY UpdateInvKept, DataInvKept
  <1>3. DataInv => VersionMatchesData
    <2> SUFFICES ASSUME DataInv, wallet # Unset
                 PROVE  MigratedTo(StorageVersion(wallet), wallet.records)
      BY DEF VersionMatchesData
    <2>1. PICK j \in 0 .. 4 : DataAt(j, wallet)
      BY DEF DataInv, Progress
    <2> QED
      BY <2>1, DataIsMigrated DEF DataAt
  <1> QED
    BY <1>1, <1>2, <1>3, PTL DEF UpdateSpec

-------------------------------------------------------------------------------
(* What migrated records refer to *)

DidsOf(records) == {DidOf(d) : d \in OfKind(records, "did")}

OobIdsOf(records) == {o.id : o \in OfKind(records, "outOfBand")}

OpenOob(o, invitation) ==
  o.kind = "outOfBand" /\ o.invitation = invitation /\ o.reusable /\ o.state = "await-response"

\* A multi-use connection has the invitation that it had when the update began.
InvitationsStay(records) ==
  \A old \in OfKind(settled.records, "connection"), c \in OfKind(records, "connection") :
    old.multiUse /\ c.multiUse /\ c.id = old.id => c.invitation = old.invitation

WholeRecords(records) ==
  /\ IdsAreUnique(records) /\ ConnectionsAreWhole(records) /\ MessagesAreKept(records)
  /\ records = {} \/ InvitationsAreKept(records)
  /\ InvitationsStay(records)

\* What the last write for a record takes from the wallet is elsewhere among the records.
KeepsExchange(write, records) ==
  /\ write.op = "update" /\ write.record.id = write.old.id
  /\ \A key \in write.old.messages :
       \/ key \in write.record.messages
       \/ \E x \in records : x.kind = "message" /\ x.of = write.old.id /\ x.key = key

RefersTo(c, records) ==
  /\ {c.did, c.theirDid} \ {Unset} \subseteq DidsOf(records)
  /\ c.outOfBandId # Unset => c.outOfBandId \in OobIdsOf(records)

KeepsConnection(write, records) ==
  \/ /\ write.op = "update" /\ write.record.id = write.old.id /\ RefersTo(write.record, records)
     /\ write.record.multiUse => write.old.multiUse /\ write.record.invitation = write.old.invitation
  \/ /\ write.op = "delete" /\ write.old.multiUse
     /\ \E o \in records : OpenOob(o, write.old.invitation)

KeepsDid(write, records) ==
  \/ write.op = "update" /\ DidOf(write.old)[1] = "sov"
  \/ /\ write.op = "delete"
     /\ \E d \in records \ {write.old} : d.kind = "did" /\ DidOf(d) = DidOf(write.old)

LastWrite(write, records) ==
  /\ write.op \in {"update", "delete"}
  /\ write.op = "update" => write.record.kind = write.old.kind
  /\ write.old.kind \notin {"message", "outOfBand"}
  /\ write.old.kind \in {"credential", "proof"} => KeepsExchange(write, records)
  /\ write.old.kind = "connection" => KeepsConnection(write, records)
  /\ write.old.kind = "did" => KeepsDid(write, records)

\* The writes before it add records, and open those of invitations.
EarlierWrite(write) ==
  \/ write.op = "save" /\ write.record.kind \in {"message", "did", "outOfBand"}
  \/ /\ write.op = "update" /\ write.old.kind = "outOfBand" /\ write.record.id = write.old.id
     /\ OpenOob(write.record, write.old.invitation)

EarlierWrites(writes) ==
  writes \in Seq(ToSet(writes)) /\ \A write \in ToSet(writes) : EarlierWrite(write)

WholeWrites(earlier, last, records) ==
  /\ EarlierWrites(earlier)
  /\ (\A write \in ToSet(earlier) : ~WriteThrows(write)) =>
       LastWrite(last, records \cup {write.record : write \in ToSet(earlier)})

WholeInv ==
  /\ wallet # Unset => WholeRecords(wallet.records)
  /\ work.stage \in {"migrating", "export", "delete", "import", "open", "clean up"} =>
       \A b \in OwnBackup : WholeRecords(b.contents.records)
  /\ work.todo # {} => work.todo \subseteq wallet.records
  /\ work.writes # <<>> => \E earlier, last :
       /\ work.writes = earlier \o <<last>> /\ last.old \in wallet.records \ work.todo
       /\ last.old.kind # "outOfBand"
       /\ WholeWrites(earlier, last, wallet.records)

\* The records of one set are among another, or are open invitations there.
Provides(records, later) ==
  \A x \in records :
    \/ x \in later
    \/ x.kind = "outOfBand" /\ \E y \in later : y.id = x.id /\ OpenOob(y, x.invitation)

LEMMA ProvidedIds ==
  ASSUME NEW R, NEW T, Provides(R, T)
  PROVE  DidsOf(R) \subseteq DidsOf(T) /\ OobIdsOf(R) \subseteq OobIdsOf(T)
  <1>1. \A d \in DidsOf(R) : d \in DidsOf(T)
    <2> TAKE d \in DidsOf(R)
    <2>1. PICK x \in R : x.kind = "did" /\ DidOf(x) = d
      BY DEF DidsOf, OfKind
    <2>2. x \in T
      BY <2>1 DEF Provides
    <2> QED
      BY <2>1, <2>2 DEF DidsOf, OfKind
  <1>2. \A id \in OobIdsOf(R) : id \in OobIdsOf(T)
    <2> TAKE id \in OobIdsOf(R)
    <2>1. PICK x \in R : x.kind = "outOfBand" /\ x.id = id
      BY DEF OobIdsOf, OfKind
    <2>2. \E y \in T : y.kind = "outOfBand" /\ y.id = id
      BY <2>1 DEF Provides, OpenOob
    <2> QED
      BY <2>2 DEF OobIdsOf, OfKind
  <1> QED
    BY <1>1, <1>2

LEMMA LastWriteStays ==
  ASSUME NEW write, NEW R, NEW T, Provides(R, T), LastWrite(write, R)
  PROVE  LastWrite(write, T)
  <1>1. \A c : RefersTo(c, R) => RefersTo(c, T)
    BY ProvidedIds DEF RefersTo
  <1>2. write.old.kind \in {"credential", "proof"} => KeepsExchange(write, T)
    BY DEF LastWrite, KeepsExchange, Provides
  <1>3. write.old.kind = "connection" => KeepsConnection(write, T)
    <2> SUFFICES ASSUME write.old.kind = "connection" PROVE KeepsConnection(write, T)
      OBVIOUS
    <2>1. KeepsConnection(write, R)
      BY DEF LastWrite
    <2>2. \A invitation : (\E o \in R : OpenOob(o, invitation)) => \E o \in T : OpenOob(o, invitation)
      BY DEF Provides, OpenOob
    <2> QED
      BY <1>1, <2>1, <2>2 DEF KeepsConnection
  <1>4. write.old.kind = "did" => KeepsDid(write, T)
    BY DEF LastWrite, KeepsDid, Provides
  <1> QED
    BY <1>2, <1>3, <1>4 DEF LastWrite

LEMMA WholeAfterEarlier ==
  ASSUME NEW R, NEW T, WholeRecords(R), R # {}, Provides(R, T),
         \A x \in T \ R : x.kind \in {"message", "did", "outOfBand"}
  PROVE  WholeRecords(T)
  <1>1. \A x \in T : x.kind \in {"connection", "credential", "proof"} => x \in R
    OBVIOUS
  <1>2. IdsAreUnique(T)
    BY <1>1 DEF IdsAreUnique, WholeRecords
  <1>3. ConnectionsAreWhole(T)
    <2> SUFFICES ASSUME NEW c \in T, c.kind = "connection"
                 PROVE  /\ {c.did, c.theirDid} \ {Unset} \subseteq DidsOf(T)
                        /\ c.outOfBandId # Unset => c.outOfBandId \in OobIdsOf(T)
      BY DEF ConnectionsAreWhole, DidsOf, OobIdsOf, OfKind
    <2>1. /\ {c.did, c.theirDid} \ {Unset} \subseteq DidsOf(R)
          /\ c.outOfBandId # Unset => c.outOfBandId \in OobIdsOf(R)
      BY <1>1 DEF WholeRecords, ConnectionsAreWhole, DidsOf, OobIdsOf, OfKind
    <2> QED
      BY <2>1, ProvidedIds
  <1>4. MessagesAreKept(T)
    <2> SUFFICES ASSUME NEW old \in settled.records, old.kind \in {"credential", "proof"},
                        NEW r \in T, r.kind = old.kind, r.id = old.id,
                        NEW key \in old.messages, key \notin r.messages
                 PROVE  \E x \in OfKind(T, "message") : x.of = r.id /\ x.key = key
      BY DEF MessagesAreKept
    <2>1. PICK x \in R : x.kind = "message" /\ x.of = r.id /\ x.key = key
      BY <1>1 DEF WholeRecords, MessagesAreKept, OfKind
    <2>2. x \in T
      BY <2>1 DEF Provides
    <2> QED
      BY <2>1, <2>2 DEF OfKind
  <1>5. InvitationsAreKept(T)
    <2> SUFFICES ASSUME NEW old \in OfKind(settled.records, "connection"), old.multiUse
                 PROVE  \/ \E c \in OfKind(T, "connection") : c.id = old.id
                        \/ \E o \in T : OpenOob(o, old.invitation)
      BY DEF InvitationsAreKept, OpenOob, OfKind
    <2>1. \/ \E c \in R : c.kind = "connection" /\ c.id = old.id
          \/ \E o \in R : OpenOob(o, old.invitation)
      BY DEF WholeRecords, InvitationsAreKept, OpenOob, OfKind
    <2> QED
      BY <2>1 DEF Provides, OpenOob, OfKind
  <1>6. InvitationsStay(T)
    BY <1>1 DEF WholeRecords, InvitationsStay, OfKind
  <1> QED
    BY <1>2, <1>3, <1>4, <1>5, <1>6 DEF WholeRecords

LEMMA EarlierIsWritten ==
  ASSUME NEW R, NEW write, EarlierWrite(write)
  PROVE  /\ Provides(R \cup {write.record}, Written(R, write))
         /\ \A x \in Written(R, write) \ R : x.kind \in {"message", "did", "outOfBand"}
  BY DEF EarlierWrite, Written, Provides, OpenOob

LEMMA WholeAfterLast ==
  ASSUME NEW R, NEW write, WholeRecords(R), \A x \in R : WellFormed(x),
         LastWrite(write, R), write.old \in R
  PROVE  WholeRecords(Written(R, write))
  <1> DEFINE old == write.old
             new == write.record
             T == Written(R, write)
  <1>1. /\ \A x \in R : x = old \/ x \in T
        /\ \A x \in T : (x \in R /\ x # old) \/ (write.op = "update" /\ x = new)
        /\ write.op = "update" => new \in T /\ new.kind = old.kind
        /\ write.op \in {"update", "delete"} /\ old \in R
        /\ old.kind \notin {"message", "outOfBand"}
    BY DEF Written, LastWrite
  <1>2. /\ old.kind \in {"credential", "proof"} => KeepsExchange(write, R)
        /\ old.kind = "connection" => KeepsConnection(write, R)
        /\ old.kind = "did" => KeepsDid(write, R)
    BY DEF LastWrite
  <1> HIDE DEF T, old, new
  <1>3. write.op = "update" /\ old.kind \in {"credential", "proof", "connection"} => new.id = old.id
    BY <1>2 DEF KeepsExchange, KeepsConnection, old, new
  <1>4. IdsAreUnique(T)
    <2> SUFFICES ASSUME NEW r \in T, NEW x \in T, r.kind = x.kind, r.id = x.id,
                        r.kind \in {"connection", "credential", "proof"}
                 PROVE  r = x
      BY DEF IdsAreUnique
    <2>1. \A y \in R : y.kind = r.kind /\ y.id = r.id =>
            \A z \in R : z.kind = r.kind /\ z.id = r.id => y = z
      BY DEF WholeRecords, IdsAreUnique
    <2> QED
      BY <1>1, <1>3, <2>1
  <1>5. OobIdsOf(R) \subseteq OobIdsOf(T)
    BY <1>1 DEF OobIdsOf, OfKind
  <1>6. ConnectionsAreWhole(T)
    <2> SUFFICES ASSUME NEW c \in T, c.kind = "connection"
                 PROVE  /\ {c.did, c.theirDid} \ {Unset} \subseteq DidsOf(T)
                        /\ c.outOfBandId # Unset => c.outOfBandId \in OobIdsOf(T)
      BY DEF ConnectionsAreWhole, DidsOf, OobIdsOf, OfKind
    <2>1. /\ {c.did, c.theirDid} \ {Unset} \subseteq DidsOf(R)
          /\ c.outOfBandId # Unset => c.outOfBandId \in OobIdsOf(R)
      <3>1. CASE c \in R
        BY <3>1 DEF WholeRecords, ConnectionsAreWhole, DidsOf, OobIdsOf, OfKind
      <3>2. CASE write.op = "update" /\ c = new
        BY <1>1, <1>2, <3>2 DEF KeepsConnection, RefersTo, new
      <3> QED
        BY <1>1, <3>1, <3>2
    <2>2. CASE old.kind # "did"
      <3>1. DidsOf(R) \subseteq DidsOf(T)
        BY <1>1, <2>2 DEF DidsOf, OfKind
      <3> QED
        BY <1>5, <2>1, <3>1
    <2>3. CASE old.kind = "did"
      <3>1. c \in R
        BY <1>1, <2>3
      <3>2. \A did \in {c.did, c.theirDid} \ {Unset} : did[1] # "sov"
        BY <3>1 DEF WellFormed
      <3>3. \A did \in DidsOf(R) : did[1] # "sov" => did \in DidsOf(T)
        <4> SUFFICES ASSUME NEW d \in R, d.kind = "did", DidOf(d)[1] # "sov"
                     PROVE  DidOf(d) \in DidsOf(T)
          BY DEF DidsOf, OfKind
        <4>1. CASE d # old
          BY <1>1, <4>1 DEF DidsOf, OfKind
        <4>2. CASE d = old
          <5>1. PICK e \in R \ {old} : e.kind = "did" /\ DidOf(e) = DidOf(old)
            BY <1>2, <2>3, <4>2 DEF KeepsDid, old
          <5>2. e \in T
            BY <1>1, <5>1
          <5> QED
            BY <4>2, <5>1, <5>2 DEF DidsOf, OfKind
        <4> QED
          BY <4>1, <4>2
      <3> QED
        BY <1>5, <2>1, <3>2, <3>3
    <2> QED
      BY <2>2, <2>3
  <1>7. \A x \in R : x.kind = "message" => x \in T
    BY <1>1
  <1>8. MessagesAreKept(T)
    <2> SUFFICES ASSUME NEW was \in settled.records, was.kind \in {"credential", "proof"},
                        NEW r \in T, r.kind = was.kind, r.id = was.id,
                        NEW key \in was.messages, key \notin r.messages
                 PROVE  \E x \in OfKind(T, "message") : x.of = r.id /\ x.key = key
      BY DEF MessagesAreKept
    <2>1. \A q \in R : q.kind = was.kind /\ q.id = was.id =>
            key \in q.messages \/ \E x \in R : x.kind = "message" /\ x.of = q.id /\ x.key = key
      BY DEF WholeRecords, MessagesAreKept, OfKind
    <2>2. CASE r \in R
      BY <1>7, <2>1, <2>2 DEF OfKind
    <2>3. CASE write.op = "update" /\ r = new
      <3>1. old.kind = was.kind /\ old.id = was.id
        BY <1>1, <1>3, <2>3
      <3>2. key \in old.messages \/ \E x \in R : x.kind = "message" /\ x.of = old.id /\ x.key = key
        BY <1>1, <2>1, <3>1
      <3>3. \E x \in R : x.kind = "message" /\ x.of = old.id /\ x.key = key
        BY <1>2, <2>3, <3>1, <3>2 DEF KeepsExchange, old, new
      <3> QED
        BY <1>7, <3>1, <3>3 DEF OfKind
    <2> QED
      BY <1>1, <2>2, <2>3
  <1>9. InvitationsAreKept(T)
    <2> SUFFICES ASSUME NEW was \in OfKind(settled.records, "connection"), was.multiUse
                 PROVE  \/ \E c \in OfKind(T, "connection") : c.id = was.id
                        \/ \E o \in T : OpenOob(o, was.invitation)
      BY DEF InvitationsAreKept, OpenOob, OfKind
    <2>1. \A o \in R : OpenOob(o, was.invitation) => o \in T
      BY <1>1 DEF OpenOob
    <2>2. CASE \E o \in R : OpenOob(o, was.invitation)
      BY <2>1, <2>2
    <2>3. CASE \E c \in R : c.kind = "connection" /\ c.id = was.id
      <3>1. PICK c \in R : c.kind = "connection" /\ c.id = was.id
        BY <2>3
      <3>2. CASE c # old
        BY <1>1, <3>1, <3>2 DEF OfKind
      <3>3. CASE c = old /\ write.op = "update"
        BY <1>1, <1>3, <3>1, <3>3 DEF OfKind
      <3>4. CASE c = old /\ write.op = "delete"
        <4>1. old.multiUse /\ \E o \in R : OpenOob(o, old.invitation)
          BY <1>2, <3>1, <3>4 DEF KeepsConnection, old
        <4>2. old.invitation = was.invitation
          BY <3>1, <3>4, <4>1 DEF WholeRecords, InvitationsStay, OfKind
        <4> QED
          BY <2>1, <4>1, <4>2
      <3> QED
        BY <1>1, <3>2, <3>3, <3>4
    <2> QED
      BY <1>1, <2>2, <2>3 DEF WholeRecords, InvitationsAreKept, OpenOob, OfKind
  <1>10. InvitationsStay(T)
    <2> SUFFICES ASSUME NEW was \in OfKind(settled.records, "connection"), NEW c \in T,
                        c.kind = "connection", was.multiUse, c.multiUse, c.id = was.id
                 PROVE  c.invitation = was.invitation
      BY DEF InvitationsStay, OfKind
    <2>1. \A q \in R : q.kind = "connection" /\ q.multiUse /\ q.id = was.id =>
            q.invitation = was.invitation
      BY DEF WholeRecords, InvitationsStay, OfKind
    <2>2. CASE c \in R
      BY <2>1, <2>2
    <2>3. CASE write.op = "update" /\ c = new
      <3>1. old.kind = "connection" /\ old.multiUse /\ c.invitation = old.invitation /\ old.id = c.id
        BY <1>1, <1>2, <1>3, <2>3 DEF KeepsConnection, old, new
      <3> QED
        BY <1>1, <2>1, <3>1
    <2> QED
      BY <1>1, <2>2, <2>3
  <1> QED
    BY <1>4, <1>6, <1>8, <1>9, <1>10 DEF WholeRecords, T

\* Records that are settled are whole to begin with.
LEMMA SettledAreWhole ==
  ASSUME IdsAreUnique(settled.records), ConnectionsAreWhole(settled.records)
  PROVE  WholeRecords(settled.records)
  <1>1. MessagesAreKept(settled.records)
    BY DEF MessagesAreKept, IdsAreUnique
  <1>2. InvitationsAreKept(settled.records)
    BY DEF InvitationsAreKept, OfKind
  <1>3. InvitationsStay(settled.records)
    BY DEF InvitationsStay, IdsAreUnique, OfKind
  <1> QED
    BY <1>1, <1>2, <1>3 DEF WholeRecords

\* The writes for a record are such, and the last of them is the one that replaces it.
WholeFor(writes, r, records) ==
  \E earlier, last :
    writes = earlier \o <<last>> /\ last.old = r /\ WholeWrites(earlier, last, records)

LEMMA OnlyWrite ==
  ASSUME NEW write, NEW records, LastWrite(write, records)
  PROVE  WholeFor(<<write>>, write.old, records)
  <1>1. <<write>> = <<>> \o <<write>>
    OBVIOUS
  <1>2. <<>> \in Seq(ToSet(<<>>)) /\ ToSet(<<>>) = {}
    BY OneOrTwo
  <1>3. records \cup {w.record : w \in ToSet(<<>>)} = records
    BY <1>2
  <1>4. WholeWrites(<<>>, write, records)
    BY <1>2, <1>3, Zenon DEF WholeWrites, EarlierWrites
  <1> QED
    BY <1>1, <1>4 DEF WholeFor

LEMMA WholeMessages ==
  ASSUME NEW records, NEW old, NEW r, NEW keys, NEW roles, keys \in Seq(ToSet(keys)),
         r = [f \in Fields[r.kind] |-> r[f]], r.kind \in {"credential", "proof"},
         r.kind = old.kind, r.id = old.id, r.messages = old.messages, r.messages \subseteq ToSet(keys)
  PROVE  WholeFor(MoveDidCommMessages(records, old, r, keys, roles), old, records)
  <1> DEFINE present == Among(keys, r.messages)
             Message(k) == [kind |-> "message", id |-> Uuid(records, k), of |-> r.id,
                            key |-> present[k], role |-> roles[present[k]]]
             saves == [k \in DOMAIN present |-> Saving(Message(k))]
             moved == [r EXCEPT !.messages = {}]
             last == Updating(old, moved)
             supply == records \cup {write.record : write \in ToSet(saves)}
  <1>1. present \in Seq(ToSet(keys) \cap r.messages)
    BY AmongType
  <1>2. \A key \in r.messages : \E k \in DOMAIN present : present[k] = key
    <2> TAKE key \in r.messages
    <2>1. PICK i \in 1 .. Len(keys) : keys[i] = key
      BY DEF ToSet
    <2>2. key \in ToSet(present)
      BY <2>1, AmongType
    <2> HIDE DEF present
    <2> QED
      BY <2>2 DEF ToSet
  <1>3. \A k : Message(k).kind = "message" /\ Message(k).of = r.id /\ Message(k).key = present[k]
    OBVIOUS
  <1>4. MoveDidCommMessages(records, old, r, keys, roles) = saves \o <<last>>
    BY DEF MoveDidCommMessages
  <1> HIDE DEF Message, present
  <1>5. \A k \in DOMAIN present : saves[k] = Saving(Message(k)) /\ saves[k] \in ToSet(saves)
    BY DEF ToSet
  <1>6. saves \in Seq(ToSet(saves))
    <2>1. DOMAIN saves = 1 .. Len(present) /\ Len(present) \in Nat
      BY <1>1
    <2>2. saves \in [1 .. Len(present) -> {saves[k] : k \in DOMAIN saves}]
      BY <2>1
    <2> HIDE DEF saves
    <2> QED
      BY <2>1, <2>2 DEF ToSet
  <1>7. \A write \in ToSet(saves) : EarlierWrite(write)
    <2>1. DOMAIN saves = DOMAIN present
      OBVIOUS
    <2> HIDE DEF saves
    <2>2. \A write \in ToSet(saves) : \E k \in DOMAIN present : write = Saving(Message(k))
      BY <1>5, <2>1 DEF ToSet
    <2> QED
      BY <1>3, <2>2, Operations DEF EarlierWrite
  <1>8. moved.kind = old.kind /\ moved.id = old.id
    <2>1. {"kind", "id"} \subseteq Fields[r.kind]
      BY RecordFields
    <2> QED
      BY <2>1
  <1>9. /\ last.op = "update" /\ last.old = old /\ last.record = moved
    BY Operations
  <1> HIDE DEF moved, saves, last
  <1>10. KeepsExchange(last, supply)
    <2> SUFFICES ASSUME NEW key \in old.messages
                 PROVE  \E x \in supply : x.kind = "message" /\ x.of = old.id /\ x.key = key
      BY <1>8, <1>9 DEF KeepsExchange
    <2>1. PICK k \in DOMAIN present : present[k] = key
      BY <1>2
    <2>2. saves[k].record = Message(k) /\ saves[k] \in ToSet(saves)
      BY <1>5, Operations
    <2>3. Message(k) \in supply
      BY <2>2
    <2> QED
      BY <1>3, <2>1, <2>3
  <1> HIDE DEF supply
  <1>11. LastWrite(last, supply)
    BY <1>8, <1>9, <1>10 DEF LastWrite
  <1>12. WholeWrites(saves, last, records)
    BY <1>6, <1>7, <1>11 DEF WholeWrites, EarlierWrites, supply
  <1> QED
    BY <1>4, <1>9, <1>12 DEF WholeFor

LEMMA WholeCredential ==
  ASSUME NEW records, NEW r, WellFormed(r), IsFor(1, r)
  PROVE  WholeFor(MigrateCredential(records, r), r, records)
  <1> DEFINE F == {"kind", "id", "state", "messages", "version", "credentialId", "credentials",
                   "metadata"}
             new == UpdatedCredential(r)
  <1>1. /\ r.kind = "credential" /\ r = [f \in F |-> r[f]]
        /\ r.messages \subseteq ToSet(CredentialMessages)
    BY RecordFields DEF WellFormed, IsFor
  <1>2. /\ new = [f \in F |-> new[f]] /\ new.kind = "credential"
        /\ new.messages = r.messages /\ new.id = r.id
    BY <1>1 DEF UpdatedCredential
  <1> HIDE DEF new
  <1>3. new = [f \in Fields[new.kind] |-> new[f]]
    BY <1>2, RecordFields
  <1>4. CredentialMessages \in Seq(ToSet(CredentialMessages))
    BY DEF CredentialMessages, ToSet
  <1> QED
    BY <1>1, <1>2, <1>3, <1>4, WholeMessages DEF MigrateCredential, new

LEMMA WholeProof ==
  ASSUME NEW records, NEW r, WellFormed(r), IsFor(4, r)
  PROVE  WholeFor(MigrateProof(records, r), r, records)
  <1> DEFINE F == {"kind", "id", "state", "messages", "version", "isVerified"}
             new == UpdatedProof(r)
  <1>1. /\ r.kind = "proof" /\ r = [f \in F |-> r[f]]
        /\ r.messages \subseteq ToSet(ProofMessages)
    BY RecordFields DEF WellFormed, IsFor
  <1>2. /\ new = [f \in F |-> new[f]] /\ new.kind = "proof"
        /\ new.messages = r.messages /\ new.id = r.id
    BY <1>1 DEF UpdatedProof
  <1> HIDE DEF new
  <1>3. new = [f \in Fields[new.kind] |-> new[f]]
    BY <1>2, RecordFields
  <1>4. ProofMessages \in Seq(ToSet(ProofMessages))
    BY DEF ProofMessages, ToSet
  <1> QED
    BY <1>1, <1>2, <1>3, <1>4, WholeMessages DEF MigrateProof, new

LEMMA WholeMediation ==
  ASSUME NEW records, NEW r, WellFormed(r), IsFor(2, r)
  PROVE  WholeFor(MigrateMediation(r), r, records)
  <1> DEFINE new == [r EXCEPT !.role = UpdatedMediationRole(r)]
             write == Updating(r, new)
  <1>1. r.kind = "mediation" /\ r = [f \in {"kind", "id", "connection", "endpoint", "role"} |-> r[f]]
    BY RecordFields DEF WellFormed, IsFor
  <1>2. new.kind = "mediation"
    BY <1>1
  <1>3. write.op = "update" /\ write.old = r /\ write.record = new
    BY Operations
  <1>4. MigrateMediation(r) = <<write>>
    BY DEF MigrateMediation
  <1> HIDE DEF write, new
  <1>5. LastWrite(write, records)
    BY <1>1, <1>2, <1>3 DEF LastWrite
  <1> QED
    BY <1>3, <1>4, <1>5, OnlyWrite

LEMMA WholeW3cCredential ==
  ASSUME NEW records, NEW r, WellFormed(r), IsFor(9, r)
  PROVE  WholeFor(MigrateW3cCredential(r), r, records)
  <1> DEFINE new == [r EXCEPT !.claimFormat = TRUE]
             write == Updating(r, new)
  <1>1. r.kind = "w3c" /\ r = [f \in {"kind", "id", "claimFormat"} |-> r[f]]
    BY RecordFields DEF WellFormed, IsFor
  <1>2. new.kind = "w3c"
    BY <1>1
  <1>3. write.op = "update" /\ write.old = r /\ write.record = new
    BY Operations
  <1>4. MigrateW3cCredential(r) = <<write>>
    BY DEF MigrateW3cCredential
  <1> HIDE DEF write, new
  <1>5. LastWrite(write, records)
    BY <1>1, <1>2, <1>3 DEF LastWrite
  <1> QED
    BY <1>3, <1>4, <1>5, OnlyWrite

LEMMA WholeCache ==
  ASSUME NEW records, NEW r, IsFor(8, r)
  PROVE  WholeFor(<<Deleting(r)>>, r, records)
  <1> DEFINE write == Deleting(r)
  <1>1. write.op = "delete" /\ write.old = r
    BY Operations
  <1>2. r.kind = "cache"
    BY DEF IsFor
  <1> HIDE DEF write
  <1>3. LastWrite(write, records)
    BY <1>1, <1>2 DEF LastWrite
  <1> QED
    BY <1>1, <1>3, OnlyWrite DEF write

LEMMA WholeSovDid ==
  ASSUME NEW records, NEW r, WellFormed(r), UpTo(6, r), IsFor(7, r)
  PROVE  WholeFor(MigrateSovDid(r), r, records)
  <1> DEFINE new == [r EXCEPT !.did = r.qualified, !.qualified = Unset]
             write == Updating(r, new)
  <1>1. /\ r.kind = "did" /\ r = [f \in {"kind", "id", "did", "role", "qualified"} |-> r[f]]
        /\ r.did[1] = "sov" /\ r.id[1] = "uuid" /\ DidIsKnown(r)
    BY RecordFields DEF WellFormed, IsFor, UpTo
  <1>2. new.kind = "did"
    BY <1>1
  <1>3. write.op = "update" /\ write.old = r /\ write.record = new
    BY Operations
  <1>4. MigrateSovDid(r) = <<write>>
    BY DEF MigrateSovDid
  <1>5. DidOf(r)[1] = "sov"
    BY <1>1 DEF DidIsKnown, DidOf
  <1> HIDE DEF write, new
  <1>6. LastWrite(write, records)
    BY <1>1, <1>2, <1>3, <1>5 DEF LastWrite, KeepsDid
  <1> QED
    BY <1>3, <1>4, <1>6, OnlyWrite

LEMMA WholeConnectionTypes ==
  ASSUME NEW records, ConnectionsAreWhole(records), NEW r \in records, WellFormed(r), IsFor(5, r)
  PROVE  WholeFor(MigrateConnectionTypes(records, r), r, records)
  <1> DEFINE types == r.typeTag \cup (IF \E md \in OfKind(records, "mediation") : md.connection = r.id
                                      THEN {"mediator"} ELSE {})
             new == [r EXCEPT !.typeTag = {}, !.types = types]
             write == Updating(r, new)
  <1>1. r.kind = "connection" /\ r = [f \in Fields["connection"] |-> r[f]]
    BY DEF WellFormed, IsFor
  <1>2. MigrateConnectionTypes(records, r) = <<write>>
    BY DEF MigrateConnectionTypes
  <1> HIDE DEF types
  <1>3. /\ new.kind = "connection" /\ new.id = r.id /\ new.did = r.did /\ new.theirDid = r.theirDid
        /\ new.outOfBandId = r.outOfBandId /\ new.multiUse = r.multiUse
        /\ new.invitation = r.invitation
    BY <1>1, RecordFields
  <1>4. write.op = "update" /\ write.old = r /\ write.record = new
    BY Operations
  <1> HIDE DEF write, new
  <1>5. RefersTo(r, records)
    BY <1>1 DEF ConnectionsAreWhole, RefersTo, DidsOf, OobIdsOf, OfKind
  <1>6. RefersTo(new, records)
    BY <1>3, <1>5 DEF RefersTo
  <1>7. LastWrite(write, records)
    BY <1>1, <1>3, <1>4, <1>6 DEF LastWrite, KeepsConnection
  <1> QED
    BY <1>2, <1>4, <1>7, OnlyWrite

LEMMA WholeDidId ==
  ASSUME UnsetIsNoTuple, NEW records, NEW r, WellFormed(r), IsFor(6, r)
  PROVE  WholeFor(MigrateDidId(records, r), r, records)
  <1> DEFINE did == IF r.id[1] = "did" THEN r.id[2] ELSE r.id
             id == Uuid(records, 1)
             new == [r EXCEPT !.did = did, !.id = id]
             save == Saving(new)
             last == Deleting(r)
             supply == records \cup {write.record : write \in ToSet(<<save>>)}
  <1>1. r.kind = "did" /\ r = [f \in Fields["did"] |-> r[f]] /\ DidIsKnown(r)
    BY RecordFields DEF WellFormed, IsFor
  <1>2. MigrateDidId(records, r) = <<save>> \o <<last>>
    BY DEF MigrateDidId
  <1>3. id[1] = "uuid"
    BY DEF Uuid
  <1> HIDE DEF id, did
  <1>4. new.kind = "did" /\ new.did = did /\ new.id = id
    BY <1>1, RecordFields
  <1>5. save.op = "save" /\ save.record = new /\ last.op = "delete" /\ last.old = r
    BY Operations
  <1>6. <<save>> \in Seq(ToSet(<<save>>)) /\ ToSet(<<save>>) = {save}
    BY OneOrTwo
  <1> HIDE DEF new, save, last
  <1>7. EarlierWrite(save)
    BY <1>4, <1>5 DEF EarlierWrite
  <1>8. new \in supply
    BY <1>5, <1>6
  <1> HIDE DEF supply
  <1>9. ~WriteThrows(save) => LastWrite(last, supply)
    <2> SUFFICES ASSUME ~WriteThrows(save) PROVE LastWrite(last, supply)
      OBVIOUS
    <2>1. r.id[1] = "did"
      <3> SUFFICES ASSUME r.id[1] # "did" PROVE FALSE
        OBVIOUS
      <3>1. did = r.id /\ did[1] = "uuid" /\ did # Unset
        BY <1>1 DEF DidIsKnown, did
      <3> QED
        BY <1>4, <1>5, <3>1 DEF WriteThrows
    <2>2. did = r.id[2] /\ did # Unset /\ DidOf(r) = did
      BY <1>1, <2>1 DEF DidIsKnown, DidOf, did
    <2>3. DidOf(new) = DidOf(r) /\ new # r
      BY <1>3, <1>4, <2>1, <2>2 DEF DidOf
    <2>4. KeepsDid(last, supply)
      BY <1>4, <1>5, <1>8, <2>3 DEF KeepsDid
    <2> QED
      BY <1>1, <1>5, <2>4 DEF LastWrite
  <1>10. WholeWrites(<<save>>, last, records)
    BY <1>6, <1>7, <1>9 DEF WholeWrites, EarlierWrites, supply
  <1> QED
    BY <1>2, <1>5, <1>10 DEF WholeFor

LEMMA EarlierTogether ==
  ASSUME NEW s, NEW t, EarlierWrites(s), EarlierWrites(t)
  PROVE  EarlierWrites(s \o t) /\ ToSet(s \o t) = ToSet(s) \cup ToSet(t)
  BY Concatenated DEF EarlierWrites

LEMMA FewEarlier ==
  /\ EarlierWrites(<<>>)
  /\ \A write : EarlierWrite(write) => EarlierWrites(<<write>>)
  BY OneOrTwo DEF EarlierWrites

\* The document of a DID has a record, or gets one.
LEMMA ExtractedEarlier ==
  ASSUME NEW records, \A x \in records : WellFormed(x), NEW doc, NEW role
  PROVE  LET writes == ExtractDidDocument(records, doc, role)
         IN  /\ EarlierWrites(writes)
             /\ doc # Unset =>
                  PeerDid(doc) \in DidsOf(records \cup {write.record : write \in ToSet(writes)})
  <1> DEFINE did == PeerDid(doc)
             new == [kind |-> "did", id |-> <<"did", did>>, did |-> did, role |-> role,
                     qualified |-> Unset]
             save == Saving(new)
             writes == ExtractDidDocument(records, doc, role)
             supply == records \cup {write.record : write \in ToSet(writes)}
  <1>1. CASE doc = Unset \/ \E d \in OfKind(records, "did") : d.id = <<"did", did>>
    <2>1. writes = <<>>
      BY <1>1 DEF ExtractDidDocument
    <2>2. ASSUME NEW d \in OfKind(records, "did"), d.id = <<"did", did>>
          PROVE  did \in DidsOf(supply)
      <3>1. d \in records /\ d.kind = "did" /\ d.id[1] = "did" /\ d.id[2] = did
        BY <2>2 DEF OfKind
      <3>2. DidIsKnown(d)
        BY <3>1 DEF WellFormed
      <3>3. DidOf(d) = did
        BY <3>1, <3>2 DEF DidIsKnown, DidOf
      <3> QED
        BY <3>1, <3>3 DEF DidsOf, OfKind
    <2> QED
      BY <1>1, <2>1, <2>2, FewEarlier
  <1>2. CASE ~(doc = Unset \/ \E d \in OfKind(records, "did") : d.id = <<"did", did>>)
    <2>1. writes = <<save>>
      BY <1>2 DEF ExtractDidDocument
    <2>2. new.kind = "did" /\ new.did = did /\ new.id = <<"did", did>>
      OBVIOUS
    <2>3. save.op = "save" /\ save.record = new
      BY Operations
    <2> HIDE DEF new, save, writes
    <2>4. new \in supply
      BY <2>1, <2>3, OneOrTwo
    <2>5. DidOf(new) = did
      BY <2>2 DEF DidOf
    <2>6. did \in DidsOf(supply)
      BY <2>2, <2>4, <2>5 DEF DidsOf, OfKind
    <2>7. EarlierWrites(writes)
      BY <2>1, <2>2, <2>3, FewEarlier DEF EarlierWrite
    <2> QED
      BY <2>6, <2>7 DEF writes
  <1> QED
    BY <1>1, <1>2

LEMMA OneAndOne == \A x, y : <<x>> \o <<y>> = <<x, y>>
  <1> TAKE x, y
  <1>1. PICK S : S = {x, y}
    OBVIOUS
  <1>2. <<x>> \in Seq(S) /\ <<x, y>> = Append(<<x>>, y)
    BY <1>1
  <1> QED
    BY <1>1, <1>2, AppendIsConcat

\* The last of the writes replaces a record, when those before it have been added.
ReplacesLast(writes, old, supply) ==
  \E earlier, last :
    /\ writes = earlier \o <<last>> /\ last.old = old /\ EarlierWrites(earlier)
    /\ LastWrite(last, supply \cup {write.record : write \in ToSet(earlier)})

LEMMA InvitationMoves ==
  ASSUME NEW records, \A x \in records : WellFormed(x), NEW old, NEW r, WellFormed(r),
         r.kind = "connection", old.kind = "connection", r.id = old.id,
         r.invitation = old.invitation, r.multiUse = old.multiUse,
         NEW supply, records \subseteq supply, RefersTo(r, supply)
  PROVE  ReplacesLast(MigrateToOobRecord(records, old, r), old, supply)
  <1> DEFINE F == {"kind", "id", "role", "state", "didDoc", "theirDidDoc", "did", "theirDid",
                   "invitation", "multiUse", "outOfBandId", "typeTag", "types"}
             G == {"kind", "id", "invitation", "role", "state", "reusable"}
             found == OobRecordsOf(records, r)
             made == [kind |-> "outOfBand", id |-> Uuid(records, 1), invitation |-> r.invitation,
                      role |-> OobRole(r), state |-> OobState(r.role, r.state),
                      reusable |-> r.multiUse]
             oob == IF found = {} THEN made ELSE CHOOSE o \in found : TRUE
             open == [oob EXCEPT !.reusable = TRUE, !.state = "await-response"]
             single == [r EXCEPT !.multiUse = FALSE]
             moved == [r EXCEPT !.invitation = Unset, !.multiUse = FALSE, !.outOfBandId = oob.id]
             save == Saving(made)
             saves == IF found = {} THEN <<save>> ELSE <<>>
             opening == Updating(oob, open)
             From(earlier) == supply \cup {write.record : write \in ToSet(earlier)}
  <1>1. r = [f \in F |-> r[f]] /\ r.multiUse \in BOOLEAN
    BY RecordFields DEF WellFormed
  <1>2. /\ made = [f \in G |-> made[f]] /\ made.kind = "outOfBand"
        /\ made.invitation = r.invitation
    OBVIOUS
  <1>3. \A o \in found : /\ o = [f \in G |-> o[f]] /\ o.kind = "outOfBand" /\ o \in records
                         /\ o.invitation = r.invitation
    <2> TAKE o \in found
    <2>1. o \in records /\ o.kind = "outOfBand" /\ o.invitation = r.invitation
      BY DEF OobRecordsOf, OfKind
    <2>2. WellFormed(o)
      BY <2>1
    <2> QED
      BY <2>1, <2>2, RecordFields DEF WellFormed
  <1>4. MigrateToOobRecord(records, old, r) =
          IF r.invitation = Unset THEN <<Updating(old, single)>>
          ELSE saves \o (IF r.multiUse THEN <<opening, Deleting(old)>>
                         ELSE <<Updating(old, moved)>>)
    BY DEF MigrateToOobRecord
  <1>5. save.op = "save" /\ save.record = made
    BY Operations
  <1>6. opening.op = "update" /\ opening.record = open /\ opening.old = oob
    BY Operations
  <1> HIDE DEF made, found
  <1>7. /\ oob = [f \in G |-> oob[f]] /\ oob.kind = "outOfBand"
        /\ oob.invitation = r.invitation
        /\ oob \in records \/ (found = {} /\ oob = made)
    BY <1>2, <1>3
  <1> HIDE DEF save, opening
  <1>8. EarlierWrites(saves)
    BY <1>2, <1>5, FewEarlier DEF EarlierWrite
  <1>9. oob \in From(saves)
    <2>1. CASE oob \in records
      BY <2>1
    <2>2. CASE found = {} /\ oob = made
      <3>1. save \in ToSet(saves)
        BY <2>2, OneOrTwo
      <3> HIDE DEF saves
      <3>2. made \in From(saves)
        BY <1>5, <3>1
      <3> QED
        BY <2>2, <3>2
    <2> QED
      BY <1>7, <2>1, <2>2
  <1> HIDE DEF saves, oob
  <1>10. open.id = oob.id /\ OpenOob(open, oob.invitation)
    BY <1>7 DEF OpenOob
  <1>11. /\ single.multiUse = FALSE /\ single.kind = "connection" /\ single.id = r.id
         /\ single.did = r.did /\ single.theirDid = r.theirDid
         /\ single.outOfBandId = r.outOfBandId
    BY <1>1
  <1>12. /\ moved.multiUse = FALSE /\ moved.kind = "connection" /\ moved.id = r.id
         /\ moved.did = r.did /\ moved.theirDid = r.theirDid
         /\ moved.outOfBandId = oob.id
    BY <1>1
  <1> HIDE DEF open, single, moved, From
  <1>13. \A earlier : supply \subseteq From(earlier)
    BY DEF From
  <1>14. \A c, earlier :
           /\ c.kind = "connection" /\ c.id = r.id /\ c.multiUse = FALSE /\ RefersTo(c, From(earlier))
           => LastWrite(Updating(old, c), From(earlier)) /\ Updating(old, c).old = old
    <2> SUFFICES ASSUME NEW c, NEW earlier, c.kind = "connection", c.id = r.id,
                        c.multiUse = FALSE, RefersTo(c, From(earlier))
                 PROVE  LastWrite(Updating(old, c), From(earlier)) /\ Updating(old, c).old = old
      BY Zenon
    <2>1. PICK write : write = Updating(old, c)
      OBVIOUS
    <2>2. write.op = "update" /\ write.record = c /\ write.old = old
      BY <2>1, Operations
    <2>3. KeepsConnection(write, From(earlier))
      BY <2>2 DEF KeepsConnection
    <2>4. LastWrite(write, From(earlier))
      BY <2>2, <2>3 DEF LastWrite
    <2> QED
      BY <2>1, <2>2, <2>4
  <1>15. \A earlier : DidsOf(supply) \subseteq DidsOf(From(earlier))
                      /\ OobIdsOf(supply) \subseteq OobIdsOf(From(earlier))
    BY <1>13 DEF DidsOf, OobIdsOf, OfKind
  <1>16. CASE r.invitation = Unset
    <2>1. MigrateToOobRecord(records, old, r) = <<>> \o <<Updating(old, single)>>
      BY <1>4, <1>16
    <2>2. RefersTo(single, From(<<>>))
      BY <1>11, <1>15 DEF RefersTo
    <2>3. LastWrite(Updating(old, single), From(<<>>)) /\ Updating(old, single).old = old
      BY <1>11, <1>14, <2>2
    <2> QED
      BY <2>1, <2>3, FewEarlier DEF ReplacesLast, From
  <1>17. CASE r.invitation # Unset /\ r.multiUse
    <2>1. PICK earlier : earlier = saves \o <<opening>>
      OBVIOUS
    <2>2. EarlierWrites(<<opening>>)
      BY <1>6, <1>7, <1>10, FewEarlier DEF EarlierWrite
    <2>3. EarlierWrites(earlier) /\ ToSet(earlier) = ToSet(saves) \cup {opening}
      BY <1>8, <2>1, <2>2, EarlierTogether, OneOrTwo
    <2>4. PICK last : last = Deleting(old)
      OBVIOUS
    <2>5. last.op = "delete" /\ last.old = old
      BY <2>4, Operations
    <2>6. MigrateToOobRecord(records, old, r) = earlier \o <<last>>
      <3>1. PICK S : S = ToSet(saves) \cup {opening, last}
        OBVIOUS
      <3>2. saves \in Seq(S) /\ <<opening>> \in Seq(S) /\ <<last>> \in Seq(S)
        BY <1>8, <3>1 DEF EarlierWrites
      <3>3. (saves \o <<opening>>) \o <<last>> = saves \o (<<opening>> \o <<last>>)
        BY <3>2, ConcatAssociative
      <3>4. <<opening>> \o <<last>> = <<opening, last>>
        BY OneAndOne
      <3> QED
        BY <1>4, <1>17, <2>1, <2>4, <3>3, <3>4
    <2>7. open \in From(earlier)
      BY <1>6, <2>3 DEF From
    <2>8. OpenOob(open, old.invitation)
      BY <1>7, <1>10
    <2>9. KeepsConnection(last, From(earlier))
      BY <1>17, <2>5, <2>7, <2>8 DEF KeepsConnection
    <2>10. LastWrite(last, From(earlier))
      BY <2>5, <2>9 DEF LastWrite
    <2> QED
      BY <2>3, <2>5, <2>6, <2>10 DEF ReplacesLast, From
  <1>18. CASE r.invitation # Unset /\ ~r.multiUse
    <2>1. MigrateToOobRecord(records, old, r) = saves \o <<Updating(old, moved)>>
      BY <1>4, <1>18
    <2>2. oob.id \in OobIdsOf(From(saves))
      BY <1>7, <1>9 DEF OobIdsOf, OfKind
    <2>3. RefersTo(moved, From(saves))
      BY <1>12, <1>15, <2>2 DEF RefersTo
    <2>4. LastWrite(Updating(old, moved), From(saves)) /\ Updating(old, moved).old = old
      BY <1>12, <1>14, <2>3
    <2> QED
      BY <1>8, <2>1, <2>4 DEF ReplacesLast, From
  <1> QED
    BY <1>16, <1>17, <1>18

LEMMA WholeConnection ==
  ASSUME UnsetIsNoTuple, NEW records, \A x \in records : WellFormed(x),
         ConnectionsAreWhole(records), NEW r \in records, IsFor(3, r)
  PROVE  WholeFor(MigrateConnection(records, r), r, records)
  <1> DEFINE F == {"kind", "id", "role", "state", "didDoc", "theirDidDoc", "did", "theirDid",
                   "invitation", "multiUse", "outOfBandId", "typeTag", "types"}
             new == UpdatedConnection(r)
             created == ExtractDidDocument(records, r.didDoc, "created")
             received == ExtractDidDocument(records, r.theirDidDoc, "received")
             before == created \o received
             supply == records \cup {write.record : write \in ToSet(before)}
  <1>1. /\ WellFormed(r) /\ r.kind = "connection" /\ r = [f \in F |-> r[f]]
        /\ r.multiUse \in BOOLEAN
        /\ r.role \in {"inviter", "invitee", "requester", "responder"}
        /\ \A did \in {r.did, r.theirDid} \ {Unset} : did[1] # "sov"
    BY RecordFields DEF WellFormed, IsFor
  <1>2. NewRole(r.role) \in {"requester", "responder"}
    BY <1>1 DEF NewRole
  <1>3. \A did, doc : DidAfter(did, doc)[1] = "peer" \/ DidAfter(did, doc) = did
    BY DEF DidAfter, PeerDid
  <1>4. /\ new = [f \in F |-> new[f]] /\ new.kind = "connection" /\ new.multiUse = r.multiUse
        /\ new.role = NewRole(r.role) /\ new.id = r.id /\ new.invitation = r.invitation
        /\ new.outOfBandId = r.outOfBandId
        /\ new.did = DidAfter(r.did, r.didDoc) /\ new.theirDid = DidAfter(r.theirDid, r.theirDidDoc)
    BY <1>1 DEF UpdatedConnection
  <1>5. MigrateConnection(records, r) = before \o MigrateToOobRecord(records, r, new)
    BY DEF MigrateConnection
  <1> HIDE DEF new
  <1>6. WellFormed(new)
    <2>1. \A did \in {new.did, new.theirDid} \ {Unset} : did[1] # "sov"
      BY <1>1, <1>3, <1>4
    <2> QED
      BY <1>1, <1>2, <1>4, <2>1, RecordFields DEF WellFormed
  <1>7. /\ EarlierWrites(created) /\ EarlierWrites(received)
        /\ r.didDoc # Unset =>
             PeerDid(r.didDoc) \in DidsOf(records \cup {write.record : write \in ToSet(created)})
        /\ r.theirDidDoc # Unset =>
             PeerDid(r.theirDidDoc) \in DidsOf(records \cup {write.record : write \in ToSet(received)})
    BY ExtractedEarlier
  <1> HIDE DEF created, received
  <1>8. EarlierWrites(before) /\ ToSet(before) = ToSet(created) \cup ToSet(received)
    BY <1>7, EarlierTogether
  <1> HIDE DEF before
  <1>9. /\ records \subseteq supply
        /\ records \cup {write.record : write \in ToSet(created)} \subseteq supply
        /\ records \cup {write.record : write \in ToSet(received)} \subseteq supply
    BY <1>8
  <1> HIDE DEF supply
  <1>10. \A R : R \subseteq supply => DidsOf(R) \subseteq DidsOf(supply) /\ OobIdsOf(R) \subseteq OobIdsOf(supply)
    BY DEF DidsOf, OobIdsOf, OfKind
  <1>11. RefersTo(r, records)
    BY <1>1 DEF ConnectionsAreWhole, RefersTo, DidsOf, OobIdsOf, OfKind
  <1>12. RefersTo(new, supply)
    <2>1. r.outOfBandId # Unset => r.outOfBandId \in OobIdsOf(supply)
      BY <1>9, <1>10, <1>11 DEF RefersTo
    <2>2. new.did # Unset => new.did \in DidsOf(supply)
      <3>1. r.did # Unset => r.did \in DidsOf(supply)
        BY <1>9, <1>10, <1>11 DEF RefersTo
      <3>2. r.didDoc # Unset => PeerDid(r.didDoc) \in DidsOf(supply)
        BY <1>7, <1>9, <1>10
      <3> QED
        BY <1>4, <3>1, <3>2 DEF DidAfter
    <2>3. new.theirDid # Unset => new.theirDid \in DidsOf(supply)
      <3>1. r.theirDid # Unset => r.theirDid \in DidsOf(supply)
        BY <1>9, <1>10, <1>11 DEF RefersTo
      <3>2. r.theirDidDoc # Unset => PeerDid(r.theirDidDoc) \in DidsOf(supply)
        BY <1>7, <1>9, <1>10
      <3> QED
        BY <1>4, <3>1, <3>2 DEF DidAfter
    <2> QED
      BY <1>4, <2>1, <2>2, <2>3 DEF RefersTo
  <1>13. PICK earlier, last :
           /\ MigrateToOobRecord(records, r, new) = earlier \o <<last>>
           /\ last.old = r /\ EarlierWrites(earlier)
           /\ LastWrite(last, supply \cup {write.record : write \in ToSet(earlier)})
    <2>1. /\ \A x \in records : WellFormed(x)
          /\ WellFormed(new) /\ new.kind = "connection" /\ r.kind = "connection"
          /\ new.id = r.id /\ new.invitation = r.invitation /\ new.multiUse = r.multiUse
          /\ records \subseteq supply /\ RefersTo(new, supply)
      BY <1>1, <1>4, <1>6, <1>9, <1>12
    <2>2. ReplacesLast(MigrateToOobRecord(records, r, new), r, supply)
      BY <2>1, InvitationMoves
    <2> QED
      BY <2>2 DEF ReplacesLast
  <1>14. PICK all : all = before \o earlier
    OBVIOUS
  <1>15. EarlierWrites(all) /\ ToSet(all) = ToSet(before) \cup ToSet(earlier)
    BY <1>8, <1>13, <1>14, EarlierTogether
  <1>16. MigrateConnection(records, r) = all \o <<last>>
    <2>1. PICK S : S = ToSet(before) \cup ToSet(earlier) \cup {last}
      OBVIOUS
    <2>2. before \in Seq(S) /\ earlier \in Seq(S) /\ <<last>> \in Seq(S)
      BY <1>8, <1>13, <2>1 DEF EarlierWrites
    <2>3. (before \o earlier) \o <<last>> = before \o (earlier \o <<last>>)
      BY <2>2, ConcatAssociative
    <2> QED
      BY <1>5, <1>13, <1>14, <2>3
  <1>17. supply \cup {write.record : write \in ToSet(earlier)} =
           records \cup {write.record : write \in ToSet(all)}
    BY <1>15 DEF supply
  <1>18. WholeWrites(all, last, records)
    BY <1>13, <1>15, <1>17 DEF WholeWrites
  <1> QED
    BY <1>13, <1>16, <1>18 DEF WholeFor

LEMMA MigrationsAreWhole ==
  ASSUME UnsetIsNoTuple, NEW n \in 1 .. 9, NEW records, \A x \in records : WellFormed(x),
         ConnectionsAreWhole(records), NEW r \in records, UpTo(n - 1, r), IsFor(n, r)
  PROVE  WholeFor(WritesFor(Migrations[n], records, r), r, records)
  <1> DEFINE Goal(k, name) == IsFor(k, r) /\ UpTo(k - 1, r) =>
                                WholeFor(WritesFor(name, records, r), r, records)
  <1>1. WellFormed(r)
    OBVIOUS
  <1>2. Goal(1, "credentials")
    BY <1>1, WholeCredential DEF WritesFor
  <1>3. Goal(2, "mediation")
    BY <1>1, WholeMediation DEF WritesFor
  <1>4. Goal(3, "connections")
    BY WholeConnection DEF WritesFor
  <1>5. Goal(4, "proofs")
    BY <1>1, WholeProof DEF WritesFor
  <1>6. Goal(5, "connection types")
    BY <1>1, WholeConnectionTypes DEF WritesFor
  <1>7. Goal(6, "did ids")
    BY <1>1, WholeDidId DEF WritesFor
  <1>8. Goal(7, "sov dids")
    <2>1. 7 - 1 = 6
      OBVIOUS
    <2> QED
      BY <1>1, <2>1, WholeSovDid DEF WritesFor
  <1>9. Goal(8, "cache")
    BY WholeCache DEF WritesFor
  <1>10. Goal(9, "w3c credentials")
    BY <1>1, WholeW3cCredential DEF WritesFor
  <1> HIDE DEF Goal
  <1>11. Goal(n, Migrations[n])
    <2>1. \/ n = 1 \/ n = 2 \/ n = 3 \/ n = 4 \/ n = 5 \/ n = 6 \/ n = 7 \/ n = 8 \/ n = 9
      OBVIOUS
    <2> QED
      BY <1>2, <1>3, <1>4, <1>5, <1>6, <1>7, <1>8, <1>9, <1>10, <2>1, MigrationNames
  <1> QED
    BY <1>11 DEF Goal

LEMMA StillWhole ==
  ASSUME UNCHANGED settled
  PROVE  \A R : WholeRecords(R) => WholeRecords(R)'
  <1> TAKE R
  <1>1. MessagesAreKept(R) => MessagesAreKept(R)'
    BY DEF MessagesAreKept
  <1>2. InvitationsAreKept(R) => InvitationsAreKept(R)'
    BY DEF InvitationsAreKept
  <1>3. InvitationsStay(R) => InvitationsStay(R)'
    BY DEF InvitationsStay
  <1> QED
    BY <1>1, <1>2, <1>3 DEF WholeRecords

\* While no update writes, the wallet and the backup that may be restored are whole.
LEMMA WholeAtRest ==
  ASSUME UNCHANGED settled, work'.todo = {}, work'.writes = <<>>,
         wallet' = Unset \/ WholeRecords(wallet'.records),
         work'.stage \in {"migrating", "export", "delete", "import", "open", "clean up"} =>
           \A b \in OwnBackup' : WholeRecords(b.contents.records)
  PROVE  WholeInv'
  <1>1. wallet' # Unset => WholeRecords(wallet.records)'
    BY StillWhole
  <1>2. \A b : WholeRecords(b.contents.records) => WholeRecords(b.contents.records)'
    BY StillWhole
  <1> QED
    BY <1>1, <1>2 DEF WholeInv

LEMMA SameRecords ==
  ASSUME NEW w, NEW v, Contents(v) = Contents(w)
  PROVE  v.records = w.records
  BY ContentsAreContents

LEMMA InitializeWalletWhole ==
  ASSUME UpdateInv, DataInv, WholeInv, InitializeWallet
  PROVE  WholeInv'
  <1>1. work.stage = "none" /\ UNCHANGED <<backups, work, settled, updateRuns>>
    BY DEF InitializeWallet, AtUpdateStage
  <1>2. work.todo = {} /\ work.writes = <<>>
    BY <1>1, NothingToDo
  <1>3. WholeRecords(wallet'.records)
    <2>1. CASE wallet = Unset
      <3>1. wallet' = [open |-> TRUE, version |-> FrameworkVersion, records |-> {}]
        BY <2>1 DEF InitializeWallet
      <3>2. wallet'.records = {}
        BY <3>1
      <3> QED
        BY <3>2 DEF WholeRecords, IdsAreUnique, ConnectionsAreWhole, MessagesAreKept,
                    InvitationsStay, OfKind
    <2>2. CASE wallet # Unset
      <3>1. wallet' = [wallet EXCEPT !.open = TRUE]
        BY <2>2 DEF InitializeWallet
      <3>2. Contents(wallet') = Contents(wallet)
        BY <2>2, <3>1, WalletEdits DEF UpdateInv
      <3> QED
        BY <2>2, <3>2, SameRecords DEF WholeInv
    <2> QED
      BY <2>1, <2>2
  <1> QED
    BY <1>1, <1>2, <1>3, WholeAtRest

LEMMA BeforeUpdateWhole ==
  ASSUME UpdateInv, DataInv, WholeInv,
         ReadStorageVersion \/ \E toVersion : StartUpdate(toVersion)
  PROVE  WholeInv'
  <1>1. /\ work.stage = "none" /\ wallet # Unset /\ UNCHANGED <<backups, settled>>
        /\ wallet' = [wallet EXCEPT !.version = StorageVersion(wallet)]
    BY DEF ReadStorageVersion, StartUpdate, AtUpdateStage, Opened
  <1>2. work'.stage \in {"none", "backup"} /\ work'.todo = {} /\ work'.writes = <<>>
    <2>1. CASE ReadStorageVersion
      BY <1>1, <2>1, NothingToDo DEF ReadStorageVersion
    <2>2. CASE \E toVersion : StartUpdate(toVersion)
      <3>1. PICK needed : work' = [stage |-> "backup", updates |-> needed, done |-> 0,
                                   migration |-> Unset, todo |-> {}, writes |-> <<>>]
        BY <2>2 DEF StartUpdate, NoUpdate
      <3> QED
        BY <3>1
    <2> QED
      BY <2>1, <2>2
  <1>3. Contents(wallet') = Contents(wallet)
    BY <1>1, WalletEdits DEF UpdateInv
  <1>4. WholeRecords(wallet'.records)
    BY <1>1, <1>3, SameRecords DEF WholeInv
  <1> QED
    BY <1>1, <1>2, <1>4, WholeAtRest

LEMMA CreateBackupWhole ==
  ASSUME UpdateInv, DataInv, WholeInv, CreateBackup
  PROVE  WholeInv'
  <1>1. work.stage = "backup" /\ UNCHANGED <<wallet, settled, updateRuns>> /\ wallet # Unset
    BY DEF CreateBackup, UpdateInv, WorkInv, AtUpdateStage
  <1>2. WholeRecords(wallet.records)
    BY <1>1 DEF WholeInv
  <1>3. CASE /\ backups' = backups \cup {[run |-> updateRuns, contents |-> Contents(wallet)]}
             /\ work' = [work EXCEPT !.stage = "migrating"]
    <2>1. work'.todo = work.todo /\ work'.writes = work.writes
      BY <1>3 DEF UpdateInv, IsWork
    <2>2. work.todo = {} /\ work.writes = <<>>
      BY <1>1 DEF UpdateInv, WorkInv, AtUpdateStage
    <2>3. \A b \in OwnBackup' : b.contents = Contents(wallet)
      BY <1>1, <1>3 DEF OwnBackup, UpdateInv, BackupsInv, AtUpdateStage
    <2>4. \A b \in OwnBackup' : b.contents.records = wallet.records
      BY <2>3, ContentsAreContents
    <2> QED
      BY <1>1, <1>2, <2>1, <2>2, <2>4, WholeAtRest
  <1>4. CASE ToStage("none") /\ UNCHANGED backups
    <2>1. work'.stage = "none" /\ work'.todo = {} /\ work'.writes = <<>>
      BY <1>4, StageOnly
    <2> QED
      BY <1>1, <1>2, <2>1, WholeAtRest
  <1> QED
    BY <1>3, <1>4 DEF CreateBackup

LEMMA SetCurrentStorageVersionWhole ==
  ASSUME UpdateInv, DataInv, WholeInv, SetCurrentStorageVersion
  PROVE  WholeInv'
  <1>1. /\ work.stage = "migrating" /\ work.todo = {} /\ work.writes = <<>>
        /\ UNCHANGED <<backups, settled, updateRuns>>
    BY DEF SetCurrentStorageVersion, Idle, AtUpdateStage
  <1>2. wallet # Unset
    BY <1>1 DEF UpdateInv, WorkInv
  <1>3. /\ \E version : wallet' = [wallet EXCEPT !.version = version]
        /\ \E updates : work' = [work EXCEPT !.updates = updates, !.done = 0]
    BY DEF SetCurrentStorageVersion
  <1>4. wallet'.records = wallet.records
    BY <1>2, <1>3 DEF UpdateInv, IsWallet
  <1>5. work'.stage = "migrating" /\ work'.todo = {} /\ work'.writes = <<>>
    BY <1>1, <1>3 DEF UpdateInv, IsWork
  <1>6. OwnBackup' = OwnBackup
    BY <1>1 DEF OwnBackup
  <1> QED
    BY <1>1, <1>2, <1>4, <1>5, <1>6, WholeAtRest DEF WholeInv

LEMMA FailuresWhole ==
  ASSUME UpdateInv, DataInv, WholeInv, FailUpdate \/ RestoreFails
  PROVE  WholeInv'
  <1>1. UNCHANGED <<wallet, backups, settled, updateRuns>>
    BY DEF FailUpdate, RestoreFails
  <1>2. PICK stage \in {"export", "none"} :
          ToStage(stage) /\ (stage = "export" => work.stage = "migrating")
    BY DEF FailUpdate, RestoreFails, AtUpdateStage
  <1>3. OwnBackup' = OwnBackup
    BY <1>1 DEF OwnBackup
  <1>4. work'.stage = stage /\ work'.todo = {} /\ work'.writes = <<>>
    BY <1>2, StageOnly
  <1> QED
    BY <1>1, <1>2, <1>3, <1>4, WholeAtRest DEF WholeInv

LEMMA RestoreBackupWhole ==
  ASSUME UpdateInv, DataInv, WholeInv, RestoreBackup
  PROVE  WholeInv'
  <1>1. PICK stage \in {"delete", "import", "open", "clean up", "none"} : ToStage(stage)
    BY DEF RestoreBackup
  <1>2. work'.stage = stage /\ work'.todo = {} /\ work'.writes = <<>>
    BY <1>1, StageOnly
  <1>3. UNCHANGED <<settled, updateRuns>> /\ work.stage \in {"export", "delete", "import", "open", "clean up"}
    BY DEF RestoreBackup, AtUpdateStage
  <1>4. \A b \in OwnBackup : WholeRecords(b.contents.records)
    BY <1>3 DEF WholeInv
  <1>5. OwnBackup' \subseteq OwnBackup
    BY <1>3 DEF RestoreBackup, OwnBackup
  <1>6. wallet' = Unset \/ WholeRecords(wallet'.records)
    <2>1. CASE UNCHANGED wallet \/ wallet' = Unset
      BY <2>1 DEF WholeInv
    <2>2. CASE \E b \in OwnBackup :
                 wallet' = [open |-> FALSE, version |-> b.contents.version,
                            records |-> b.contents.records]
      <3>1. PICK b \in OwnBackup :
              wallet' = [open |-> FALSE, version |-> b.contents.version,
                         records |-> b.contents.records]
        BY <2>2
      <3>2. wallet'.records = b.contents.records
        BY <3>1
      <3> QED
        BY <1>4, <3>2
    <2>3. CASE AtUpdateStage("open") /\ wallet' = [wallet EXCEPT !.open = TRUE]
      <3>1. wallet # Unset
        BY <2>3 DEF UpdateInv, WorkInv, AtUpdateStage
      <3>2. Contents(wallet') = Contents(wallet)
        BY <2>3, <3>1, WalletEdits DEF UpdateInv
      <3> QED
        BY <3>1, <3>2, SameRecords DEF WholeInv
    <2> QED
      BY <2>1, <2>2, <2>3 DEF RestoreBackup
  <1> QED
    BY <1>2, <1>3, <1>4, <1>5, <1>6, WholeAtRest

LEMMA CrashInUpdateWhole ==
  ASSUME UpdateInv, DataInv, WholeInv, CrashInUpdate
  PROVE  WholeInv'
  <1>1. /\ UNCHANGED settled /\ work' = NoUpdate
        /\ wallet' = IF wallet = Unset THEN Unset ELSE [wallet EXCEPT !.open = FALSE]
    BY DEF CrashInUpdate
  <1>2. work'.stage = "none" /\ work'.todo = {} /\ work'.writes = <<>>
    BY <1>1 DEF NoUpdate
  <1>3. wallet # Unset => Contents(wallet') = Contents(wallet)
    BY <1>1, WalletEdits DEF UpdateInv
  <1>4. wallet' = Unset \/ WholeRecords(wallet'.records)
    BY <1>1, <1>3, SameRecords DEF WholeInv
  <1> QED
    BY <1>1, <1>2, <1>4, WholeAtRest

LEMMA NextMigrationWhole ==
  ASSUME UnsetIsNoTuple, UpdateInv, DataInv, WholeInv, NextMigration
  PROVE  WholeInv'
  <1>1. /\ Idle /\ work.stage = "migrating" /\ work.writes = <<>>
        /\ UNCHANGED <<wallet, backups, settled, updateRuns>>
    BY DEF NextMigration, Idle, AtUpdateStage
  <1>2. wallet # Unset /\ wallet' # Unset
    BY <1>1 DEF UpdateInv, WorkInv
  <1> DEFINE migration == CurrentUpdate.migrations[work.done + 1]
  <1>3. work' = [work EXCEPT !.done = work.done + 1, !.migration = migration,
                             !.todo = ToMigrate(migration, wallet.records)]
    BY DEF NextMigration
  <1> HIDE DEF migration
  <1>4. /\ work'.stage = "migrating" /\ work'.done = work.done + 1 /\ work'.migration = migration
        /\ work'.todo = ToMigrate(migration, wallet.records) /\ work'.writes = <<>>
    BY <1>1, <1>3 DEF UpdateInv, IsWork
  <1>5. DataInv'
    BY NextMigrationData
  <1>6. PICK j \in 0 .. 4, hi \in 0 .. 4, n \in 0 .. 9 : Progress(j, hi, n)'
    BY <1>2, <1>5 DEF DataInv
  <1>7. work.done \in Nat
    BY <1>2 DEF DataInv, Progress
  <1>8. n \in 1 .. 9 /\ migration = Migrations[n]
    <2>1. PICK a \in 0 .. 9 : a = MigrationsTo(j)
      BY MigrationCounts
    <2>2. PICK d \in Nat : d = work.done
      BY <1>7
    <2>3. n = a + (d + 1)
      BY <1>4, <1>6, <2>1, <2>2 DEF Progress
    <2>4. work'.done > 0
      BY <1>4, <2>2
    <2>5. n \in 1 .. 9
      BY <2>3
    <2> QED
      BY <1>4, <1>6, <2>4, <2>5 DEF Progress
  <1>9. \A x \in wallet.records : WellFormed(x)
    BY <1>2 DEF DataInv, Progress, DataAt
  <1>10. work'.todo \subseteq wallet'.records
    <2>1. ToMigrate(Migrations[n], wallet.records) = {r \in wallet.records : IsFor(n, r)}
      BY <1>8, <1>9, MigrationsAreSound
    <2>2. work'.todo = {r \in wallet.records : IsFor(n, r)}
      BY <1>4, <1>8, <2>1
    <2>3. wallet'.records = wallet.records
      BY <1>1
    <2> QED
      BY <2>2, <2>3
  <1>11. OwnBackup' = OwnBackup
    BY <1>1 DEF OwnBackup
  <1>12. WholeRecords(wallet.records)'
    BY <1>1, <1>2, StillWhole DEF WholeInv
  <1>13. \A b \in OwnBackup' : WholeRecords(b.contents.records)'
    BY <1>1, <1>11, StillWhole DEF WholeInv
  <1> QED
    BY <1>4, <1>10, <1>12, <1>13 DEF WholeInv

\* The migration that goes through the records that are left.
LEMMA UnderWay ==
  ASSUME UpdateInv, DataInv, work.todo # {} \/ work.writes # <<>>
  PROVE  /\ work.stage = "migrating" /\ wallet # Unset
         /\ \A x \in wallet.records : WellFormed(x)
         /\ \E n \in 1 .. 9 :
              /\ work.migration = Migrations[n]
              /\ \A r \in work.todo : WellFormed(r) /\ UpTo(n - 1, r) /\ IsFor(n, r)
  <1>1. AtUpdateStage("migrating") /\ wallet # Unset
    BY DEF UpdateInv, WorkInv, AtUpdateStage
  <1>2. PICK j \in 0 .. 4, hi \in 0 .. 4, n \in 0 .. 9 : Progress(j, hi, n)
    BY <1>1, Migrating
  <1>3. work.done \in Nat /\ work.done > 0
    BY <1>2 DEF Progress
  <1>4. n \in 1 .. 9
    <2>1. PICK a \in 0 .. 9 : a = MigrationsTo(j)
      BY MigrationCounts
    <2>2. PICK d \in Nat : d = work.done
      BY <1>3
    <2>3. n = a + d /\ d > 0
      BY <1>2, <1>3, <2>1, <2>2 DEF Progress
    <2> QED
      BY <2>3
  <1>5. \A x \in wallet.records : WellFormed(x)
    BY <1>2 DEF Progress, DataAt
  <1> QED
    BY <1>1, <1>2, <1>3, <1>4, <1>5 DEF Progress, AtUpdateStage

LEMMA NotOutOfBand ==
  ASSUME NEW n \in 1 .. 9, NEW r, IsFor(n, r)
  PROVE  r.kind # "outOfBand"
  <1>1. \/ n = 1 \/ n = 2 \/ n = 3 \/ n = 4 \/ n = 5 \/ n = 6 \/ n = 7 \/ n = 8 \/ n = 9
    OBVIOUS
  <1> QED
    BY <1>1 DEF IsFor

LEMMA MigrateRecordWhole ==
  ASSUME UnsetIsNoTuple, UpdateInv, DataInv, WholeInv, NEW r, MigrateRecord(r)
  PROVE  WholeInv'
  <1>1. /\ r \in work.todo /\ work.writes = <<>>
        /\ UNCHANGED <<wallet, backups, settled, updateRuns>>
    BY DEF MigrateRecord
  <1>2. /\ work.stage = "migrating" /\ wallet # Unset
        /\ \A x \in wallet.records : WellFormed(x)
    BY <1>1, UnderWay
  <1>3. PICK n \in 1 .. 9 :
          /\ work.migration = Migrations[n]
          /\ \A x \in work.todo : WellFormed(x) /\ UpTo(n - 1, x) /\ IsFor(n, x)
    BY <1>1, UnderWay
  <1> DEFINE writes == WritesFor(work.migration, wallet.records, r)
  <1>4. WholeRecords(wallet.records) /\ work.todo \subseteq wallet.records
    BY <1>1, <1>2 DEF WholeInv
  <1>5. WholeFor(writes, r, wallet.records)
    BY <1>1, <1>2, <1>3, <1>4, MigrationsAreWhole DEF WholeRecords
  <1>6. work' = [work EXCEPT !.todo = work.todo \ {r}, !.writes = writes]
    BY DEF MigrateRecord
  <1> HIDE DEF writes
  <1>7. work'.stage = "migrating" /\ work'.todo = work.todo \ {r} /\ work'.writes = writes
    BY <1>2, <1>6 DEF UpdateInv, IsWork
  <1>8. OwnBackup' = OwnBackup
    BY <1>1 DEF OwnBackup
  <1>9. WholeRecords(wallet.records)'
    BY <1>1, <1>4, StillWhole
  <1>10. \A b \in OwnBackup' : WholeRecords(b.contents.records)'
    BY <1>1, <1>2, <1>8, StillWhole DEF WholeInv
  <1>11. r.kind # "outOfBand"
    BY <1>1, <1>3, NotOutOfBand
  <1>12. \E earlier, last :
           /\ work'.writes = earlier \o <<last>> /\ last.old \in wallet'.records \ work'.todo
           /\ last.old.kind # "outOfBand"
           /\ WholeWrites(earlier, last, wallet'.records)
    BY <1>1, <1>4, <1>5, <1>7, <1>11 DEF WholeFor
  <1>13. work'.todo \subseteq wallet'.records
    BY <1>1, <1>4, <1>7
  <1> QED
    BY <1>9, <1>10, <1>12, <1>13 DEF WholeInv

LEMMA HeadAndTail ==
  ASSUME NEW S, NEW s \in Seq(S), NEW e
  PROVE  /\ s = <<>> => Head(s \o <<e>>) = e /\ Tail(s \o <<e>>) = <<>>
         /\ s # <<>> => Head(s \o <<e>>) = Head(s) /\ Tail(s \o <<e>>) = Tail(s) \o <<e>>
  <1>1. PICK U : U = S \cup {e}
    OBVIOUS
  <1>2. s \in Seq(U) /\ e \in U
    BY <1>1
  <1>3. Append(s, e) = s \o <<e>>
    BY <1>2, AppendIsConcat
  <1>4. /\ s = <<>> => Head(s \o <<e>>) = e /\ Tail(s \o <<e>>) = <<>>
        /\ s # <<>> => Head(s \o <<e>>) = Head(s) /\ Tail(s \o <<e>>) = Append(Tail(s), e)
    BY <1>2, <1>3, HeadTailAppend
  <1>5. s # <<>> => Append(Tail(s), e) = Tail(s) \o <<e>>
    <2>1. s # <<>> => Tail(s) \in Seq(U)
      BY <1>2
    <2> QED
      BY <1>2, <2>1, AppendIsConcat
  <1> QED
    BY <1>4, <1>5

\* One of the earlier writes has been done.
LEMMA FirstWritten ==
  ASSUME NEW R, NEW earlier, NEW last, WholeWrites(earlier, last, R), earlier # <<>>,
         ~WriteThrows(Head(earlier)), WholeRecords(R), R # {}
  PROVE  LET T == Written(R, Head(earlier)) IN
         /\ WholeRecords(T)
         /\ WholeWrites(Tail(earlier), last, T)
         /\ \A x \in R : x.kind # "outOfBand" => x \in T
  <1> DEFINE first == Head(earlier)
             rest == Tail(earlier)
             T == Written(R, first)
             A == R \cup {write.record : write \in ToSet(earlier)}
             B == T \cup {write.record : write \in ToSet(rest)}
  <1>1. /\ first \in ToSet(earlier) /\ rest \in Seq(ToSet(rest))
        /\ ToSet(earlier) = {first} \cup ToSet(rest)
    BY FirstAndRest DEF WholeWrites, EarlierWrites
  <1>2. EarlierWrite(first) /\ EarlierWrites(rest)
    BY <1>1 DEF WholeWrites, EarlierWrites
  <1>3. /\ Provides(R \cup {first.record}, T)
        /\ \A x \in T \ R : x.kind \in {"message", "did", "outOfBand"}
    BY <1>2, EarlierIsWritten
  <1>4. (\A write \in ToSet(earlier) : ~WriteThrows(write)) => LastWrite(last, A)
    BY DEF WholeWrites
  <1> HIDE DEF first, rest, T
  <1>5. Provides(R, T)
    BY <1>3 DEF Provides
  <1>6. WholeRecords(T)
    BY <1>3, <1>5, WholeAfterEarlier
  <1>7. Provides(A, B)
    BY <1>1, <1>3 DEF Provides
  <1> HIDE DEF A, B
  <1>8. (\A write \in ToSet(rest) : ~WriteThrows(write)) => LastWrite(last, B)
    <2>1. (\A write \in ToSet(rest) : ~WriteThrows(write)) => LastWrite(last, A)
      BY <1>1, <1>4 DEF first
    <2> QED
      BY <1>7, <2>1, LastWriteStays
  <1>9. WholeWrites(rest, last, T)
    BY <1>2, <1>8 DEF WholeWrites, B
  <1>10. \A x \in R : x.kind # "outOfBand" => x \in T
    BY <1>5 DEF Provides
  <1> QED
    BY <1>6, <1>9, <1>10 DEF first, rest, T

LEMMA WriteRecordWhole ==
  ASSUME UpdateInv, DataInv, WholeInv, WriteRecord
  PROVE  WholeInv'
  <1> DEFINE R == wallet.records
             T == Written(R, Head(work.writes))
  <1>1. /\ work.writes # <<>> /\ ~WriteThrows(Head(work.writes))
        /\ wallet' = [wallet EXCEPT !.records = T]
        /\ work' = [work EXCEPT !.writes = Tail(work.writes)]
        /\ UNCHANGED <<backups, settled, updateRuns>>
    BY DEF WriteRecord
  <1>2. /\ work.stage = "migrating" /\ wallet # Unset
        /\ \A x \in R : WellFormed(x)
    BY <1>1, UnderWay
  <1>3. PICK n \in 1 .. 9 :
          \A x \in work.todo : WellFormed(x) /\ UpTo(n - 1, x) /\ IsFor(n, x)
    BY <1>1, UnderWay
  <1>4. PICK earlier, last :
          /\ work.writes = earlier \o <<last>> /\ last.old \in R \ work.todo
          /\ last.old.kind # "outOfBand"
          /\ WholeWrites(earlier, last, R)
    BY <1>1 DEF WholeInv
  <1> HIDE DEF T
  <1>5. wallet'.records = T
    BY <1>1, <1>2 DEF UpdateInv, IsWallet
  <1>6. work'.stage = "migrating" /\ work'.todo = work.todo /\ work'.writes = Tail(work.writes)
    BY <1>1, <1>2 DEF UpdateInv, IsWork
  <1>7. WholeRecords(R) /\ work.todo \subseteq R
    BY <1>2 DEF WholeInv
  <1>8. earlier \in Seq(ToSet(earlier))
    BY <1>4 DEF WholeWrites, EarlierWrites
  <1>9. OwnBackup' = OwnBackup
    BY <1>1 DEF OwnBackup
  <1>10. \A b \in OwnBackup' : WholeRecords(b.contents.records)'
    BY <1>1, <1>2, <1>9, StillWhole DEF WholeInv
  <1>11. CASE earlier = <<>>
    <2>1. Head(work.writes) = last /\ work'.writes = <<>>
      BY <1>4, <1>6, <1>8, <1>11, HeadAndTail
    <2>2. LastWrite(last, R)
      <3>1. ToSet(earlier) = {}
        BY <1>11, OneOrTwo
      <3>2. R \cup {write.record : write \in ToSet(earlier)} = R
        BY <3>1
      <3>3. \A write \in ToSet(earlier) : ~WriteThrows(write)
        BY <3>1
      <3>4. LastWrite(last, R \cup {write.record : write \in ToSet(earlier)})
        BY <1>4, <3>3 DEF WholeWrites
      <3> QED
        BY <3>2, <3>4, Zenon
    <2>3. T = Written(R, last)
      BY <2>1 DEF T
    <2>4. WholeRecords(T)
      BY <1>2, <1>4, <1>7, <2>2, <2>3, WholeAfterLast
    <2>5. last.old \in R /\ last.op \in {"update", "delete"}
      BY <1>4, <2>2 DEF LastWrite
    <2>6. \A x \in R : x # last.old => x \in T
      BY <2>3, <2>5 DEF Written
    <2>7. work'.todo \subseteq wallet'.records
      BY <1>4, <1>5, <1>6, <1>7, <2>6
    <2>8. WholeRecords(wallet.records)'
      BY <1>1, <1>5, <2>4, StillWhole
    <2> QED
      BY <1>10, <2>1, <2>7, <2>8 DEF WholeInv
  <1>12. CASE earlier # <<>>
    <2>1. Head(work.writes) = Head(earlier) /\ work'.writes = Tail(earlier) \o <<last>>
      <3>1. /\ Head(earlier \o <<last>>) = Head(earlier)
            /\ Tail(earlier \o <<last>>) = Tail(earlier) \o <<last>>
        BY <1>8, <1>12, HeadAndTail
      <3> QED
        BY <1>4, <1>6, <3>1
    <2>2. T = Written(R, Head(earlier)) /\ ~WriteThrows(Head(earlier))
      BY <1>1, <2>1 DEF T
    <2>3. R # {}
      BY <1>4
    <2>4. /\ WholeRecords(T) /\ WholeWrites(Tail(earlier), last, T)
          /\ \A x \in R : x.kind # "outOfBand" => x \in T
      BY <1>4, <1>7, <1>12, <2>2, <2>3, FirstWritten
    <2>5. \A x \in work.todo : x.kind # "outOfBand"
      BY <1>3, NotOutOfBand
    <2>6. work'.todo \subseteq wallet'.records
      BY <1>5, <1>6, <1>7, <2>4, <2>5
    <2>7. WholeRecords(wallet.records)'
      BY <1>1, <1>5, <2>4, StillWhole
    <2>8. last.old \in wallet'.records \ work'.todo
      BY <1>4, <1>5, <1>6, <2>4
    <2>9. WholeWrites(Tail(earlier), last, wallet'.records)
      BY <1>5, <2>4
    <2>10. \E before, final :
             /\ work'.writes = before \o <<final>> /\ final.old \in wallet'.records \ work'.todo
             /\ final.old.kind # "outOfBand"
             /\ WholeWrites(before, final, wallet'.records)
      BY <1>4, <2>1, <2>8, <2>9
    <2> QED
      BY <1>10, <2>6, <2>7, <2>10 DEF WholeInv
  <1> QED
    BY <1>11, <1>12

\* What an update leaves is whole for the updates to come.
LEMMA FinishUpdateWhole ==
  ASSUME UpdateInv, DataInv, WholeInv, FinishUpdate
  PROVE  WholeInv'
  <1>1. /\ work.stage = "migrating" /\ UNCHANGED wallet /\ settled' = Contents(wallet)
        /\ work' = NoUpdate
    BY DEF FinishUpdate, Idle, AtUpdateStage
  <1>2. work'.stage = "none" /\ work'.todo = {} /\ work'.writes = <<>>
    BY <1>1 DEF NoUpdate
  <1>3. wallet # Unset /\ settled'.records = wallet'.records
    BY <1>1, ContentsAreContents DEF UpdateInv, WorkInv
  <1>4. IdsAreUnique(wallet'.records) /\ ConnectionsAreWhole(wallet'.records)
    BY <1>1, <1>3 DEF WholeInv, WholeRecords
  <1>5. MessagesAreKept(wallet.records)'
    BY <1>3, <1>4 DEF MessagesAreKept, IdsAreUnique
  <1>6. InvitationsAreKept(wallet.records)'
    BY <1>3 DEF InvitationsAreKept, OfKind
  <1>7. InvitationsStay(wallet.records)'
    BY <1>3, <1>4 DEF InvitationsStay, IdsAreUnique, OfKind
  <1>8. WholeRecords(wallet.records)'
    BY <1>4, <1>5, <1>6, <1>7 DEF WholeRecords
  <1> QED
    BY <1>2, <1>8 DEF WholeInv

LEMMA WholeInvKept ==
  ASSUME UnsetIsNoTuple, UpdateInv, DataInv, WholeInv, [UpdateNext]_updateVars
  PROVE  WholeInv'
  <1>1. CASE UpdateNext
    BY <1>1, InitializeWalletWhole, BeforeUpdateWhole, CreateBackupWhole, NextMigrationWhole,
       SetCurrentStorageVersionWhole, MigrateRecordWhole, WriteRecordWhole, FinishUpdateWhole,
       FailuresWhole, RestoreBackupWhole, CrashInUpdateWhole
    DEF UpdateNext
  <1>2. CASE UNCHANGED updateVars
    <2>1. UNCHANGED <<wallet, backups, work, settled, updateRuns>>
      BY <1>2 DEF updateVars
    <2>2. OwnBackup' = OwnBackup
      BY <2>1 DEF OwnBackup
    <2>3. wallet' # Unset => WholeRecords(wallet.records)'
      BY <2>1, StillWhole DEF WholeInv
    <2>4. \A b : WholeRecords(b.contents.records) => WholeRecords(b.contents.records)'
      BY <2>1, StillWhole
    <2> QED
      BY <2>1, <2>2, <2>3, <2>4 DEF WholeInv
  <1> QED
    BY <1>1, <1>2

LEMMA WholeInvInitially ==
  ASSUME UpdateInit
  PROVE  WholeInv
  <1>1. PICK w \in LegacyWallets :
          /\ wallet = [open |-> FALSE, version |-> w.version, records |-> w.records]
          /\ settled = Contents(w)
    BY DEF UpdateInit
  <1>2. wallet.records = w.records /\ settled.records = w.records
    BY <1>1, ContentsAreContents
  <1>3. IdsAreUnique(w.records) /\ ConnectionsAreWhole(w.records)
    BY UpdateAssumption
  <1>4. WholeRecords(wallet.records)
    BY <1>2, <1>3, SettledAreWhole
  <1>5. work.stage = "none" /\ work.todo = {} /\ work.writes = <<>>
    BY DEF UpdateInit, NoUpdate
  <1> QED
    BY <1>4, <1>5 DEF WholeInv

-------------------------------------------------------------------------------
(* The types of connections *)

\* A tag stays what it was, or has been moved.
TagsStay(records) ==
  \A old \in OfKind(settled.records, "connection"), c \in OfKind(records, "connection") :
    c.id = old.id => c.typeTag \in {{}, old.typeTag}

\* TypesAreKept, with the backups among some.
TypesIn(files, records) ==
  \A old \in OfKind(settled.records, "connection"), c \in OfKind(records, "connection") :
    c.id = old.id =>
      \/ old.typeTag \subseteq c.typeTag \cup c.types
      \/ \E b \in files : \E x \in OfKind(b.contents.records, "connection") :
           x.id = c.id /\ x.typeTag = {}

\* A connection has the tag that it had when the update began.
BackedUp(c) ==
  \E b \in OwnBackup : \E x \in OfKind(b.contents.records, "connection") :
    x.id = c.id /\ x.typeTag = c.typeTag

\* Only the fifth migration writes the types of a connection.
Retags(n, write) ==
  write.op = "update" /\ write.old.kind = "connection" =>
    /\ write.record.id = write.old.id
    /\ IF n = 5 THEN write.record.typeTag = {} /\ write.old.typeTag \subseteq write.record.types
       ELSE write.record.typeTag = write.old.typeTag /\ write.record.types = write.old.types

\* What the fifth migration has not come to is as it was when the update began.
TypesToCome(n) ==
  /\ \A c \in OfKind(wallet.records, "connection") :
       n < 5 \/ (n = 5 /\ c \in work.todo) => BackedUp(c)
  /\ \A write \in ToSet(work.writes) :
       /\ Retags(n, write)
       /\ n = 5 /\ write.op = "update" /\ write.old.kind = "connection" => BackedUp(write.old)

TypesInv ==
  /\ wallet # Unset => TagsStay(wallet.records) /\ TypesIn(backups, wallet.records)
  /\ work.stage \in {"migrating", "export", "delete", "import"} =>
       \A b \in OwnBackup : /\ TagsStay(b.contents.records)
                            /\ TypesIn(backups \ OwnBackup, b.contents.records)
  /\ work.stage \in {"open", "clean up"} => TypesIn(backups \ OwnBackup, wallet.records)
  /\ work.stage = "migrating" =>
       \A j \in 0 .. 4 : StorageVersion(wallet) = VersionAt(j) =>
         TypesToCome(MigrationsTo(j) + work.done)

LEMMA OneVersion ==
  ASSUME NEW i \in 0 .. 4, NEW j \in 0 .. 4, VersionAt(i) = VersionAt(j)
  PROVE  i = j
  <1>1. /\ IsHigher(VersionAt(i), VersionAt(j)) <=> i > j
        /\ IsHigher(VersionAt(j), VersionAt(i)) <=> j > i
        /\ IsHigher(VersionAt(j), VersionAt(j)) <=> j > j
    BY VersionOrder
  <1>2. ~(i > j) /\ ~(j > i)
    BY <1>1
  <1> QED
    BY <1>2

LEMMA SameTypes ==
  ASSUME UNCHANGED settled
  PROVE  \A records, files, more : files \subseteq more =>
           /\ TagsStay(records) => TagsStay(records)'
           /\ TypesIn(files, records) => TypesIn(more, records)'
  <1> TAKE records, files, more
  <1>1. TagsStay(records) => TagsStay(records)'
    BY DEF TagsStay
  <1>2. files \subseteq more /\ TypesIn(files, records) => TypesIn(more, records)'
    BY DEF TypesIn
  <1> QED
    BY <1>1, <1>2

\* The writes of the migration of connections to 0.2.
LEMMA InvitationRetags ==
  ASSUME NEW records, NEW old, NEW r, r = [f \in Fields["connection"] |-> r[f]],
         r.id = old.id, r.typeTag = old.typeTag, r.types = old.types
  PROVE  LET writes == MigrateToOobRecord(records, old, r)
         IN  writes \in Seq(ToSet(writes)) /\ \A write \in ToSet(writes) : Retags(3, write)
  <1> DEFINE found == OobRecordsOf(records, r)
             made == [kind |-> "outOfBand", id |-> Uuid(records, 1), invitation |-> r.invitation,
                      role |-> OobRole(r), state |-> OobState(r.role, r.state),
                      reusable |-> r.multiUse]
             oob == IF found = {} THEN made ELSE CHOOSE o \in found : TRUE
             open == [oob EXCEPT !.reusable = TRUE, !.state = "await-response"]
             single == [r EXCEPT !.multiUse = FALSE]
             moved == [r EXCEPT !.invitation = Unset, !.multiUse = FALSE, !.outOfBandId = oob.id]
             saves == IF found = {} THEN <<Saving(made)>> ELSE <<>>
             opening == Updating(oob, open)
  <1>1. MigrateToOobRecord(records, old, r) =
          IF r.invitation = Unset THEN <<Updating(old, single)>>
          ELSE saves \o (IF r.multiUse THEN <<opening, Deleting(old)>>
                         ELSE <<Updating(old, moved)>>)
    BY DEF MigrateToOobRecord
  <1>2. r = [f \in {"kind", "id", "role", "state", "didDoc", "theirDidDoc", "did", "theirDid",
                    "invitation", "multiUse", "outOfBandId", "typeTag", "types"} |-> r[f]]
    BY RecordFields
  <1>3. oob.kind = "outOfBand"
    <2>1. made.kind = "outOfBand"
      OBVIOUS
    <2>2. \A o \in found : o.kind = "outOfBand"
      BY DEF OobRecordsOf, OfKind
    <2> HIDE DEF made, found
    <2> QED
      BY <2>1, <2>2
  <1> HIDE DEF oob
  <1>4. /\ single.id = r.id /\ single.typeTag = r.typeTag /\ single.types = r.types
        /\ moved.id = r.id /\ moved.typeTag = r.typeTag /\ moved.types = r.types
    BY <1>2
  <1> HIDE DEF single, moved, open, made, found
  <1>5. Retags(3, Updating(old, single)) /\ Retags(3, Updating(old, moved))
    <2>1. \A c : c.id = r.id /\ c.typeTag = r.typeTag /\ c.types = r.types => Retags(3, Updating(old, c))
      <3> TAKE c
      <3>1. PICK write : write = Updating(old, c)
        OBVIOUS
      <3>2. write.record = c /\ write.old = old
        BY <3>1, Operations
      <3>3. c.id = r.id /\ c.typeTag = r.typeTag /\ c.types = r.types => Retags(3, write)
        BY <3>2 DEF Retags
      <3> QED
        BY <3>1, <3>3
    <2> QED
      BY <1>4, <2>1
  <1>6. Retags(3, opening) /\ Retags(3, Deleting(old)) /\ Retags(3, Saving(made))
    <2>1. PICK w1 : w1 = opening
      OBVIOUS
    <2>2. PICK w2 : w2 = Deleting(old)
      OBVIOUS
    <2>3. PICK w3 : w3 = Saving(made)
      OBVIOUS
    <2>4. w1.old = oob /\ w2.op = "delete" /\ w3.op = "save"
      BY <2>1, <2>2, <2>3, Operations
    <2>5. Retags(3, w1) /\ Retags(3, w2) /\ Retags(3, w3)
      BY <1>3, <2>4 DEF Retags
    <2> QED
      BY <2>1, <2>2, <2>3, <2>5
  <1>7. saves \in Seq(ToSet(saves)) /\ \A write \in ToSet(saves) : Retags(3, write)
    BY <1>6, OneOrTwo
  <1> HIDE DEF saves, opening
  <1>8. CASE r.invitation = Unset
    <2>1. MigrateToOobRecord(records, old, r) = <<Updating(old, single)>>
      BY <1>1, <1>8
    <2> QED
      BY <1>5, <2>1, OneOrTwo
  <1>9. CASE r.invitation # Unset
    <2>1. PICK rest : rest = IF r.multiUse THEN <<opening, Deleting(old)>> ELSE <<Updating(old, moved)>>
      OBVIOUS
    <2>2. rest \in Seq(ToSet(rest)) /\ \A write \in ToSet(rest) : Retags(3, write)
      <3>1. CASE r.multiUse
        <4>1. rest = <<opening, Deleting(old)>>
          BY <2>1, <3>1
        <4> QED
          BY <1>6, <4>1, OneOrTwo
      <3>2. CASE ~r.multiUse
        <4>1. rest = <<Updating(old, moved)>>
          BY <2>1, <3>2
        <4> QED
          BY <1>5, <4>1, OneOrTwo
      <3> QED
        BY <3>1, <3>2
    <2>3. PICK all : all = saves \o rest
      OBVIOUS
    <2>4. all \in Seq(ToSet(all)) /\ ToSet(all) = ToSet(saves) \cup ToSet(rest)
      BY <1>7, <2>2, <2>3, Concatenated
    <2>5. MigrateToOobRecord(records, old, r) = all
      BY <1>1, <1>9, <2>1, <2>3
    <2>6. \A write \in ToSet(all) : Retags(3, write)
      BY <1>7, <2>2, <2>4
    <2> QED
      BY <2>4, <2>5, <2>6
  <1> QED
    BY <1>8, <1>9

\* A write that is not the last for a record, or that deletes one, is of no connection.
LEMMA EarlierRetags ==
  ASSUME NEW n, NEW write, EarlierWrite(write)
  PROVE  Retags(n, write)
  BY DEF EarlierWrite, Retags

LEMMA ConnectionRetags ==
  ASSUME NEW records, \A x \in records : WellFormed(x), NEW r \in records, IsFor(3, r)
  PROVE  \A write \in ToSet(MigrateConnection(records, r)) : Retags(3, write)
  <1> DEFINE F == {"kind", "id", "role", "state", "didDoc", "theirDidDoc", "did", "theirDid",
                   "invitation", "multiUse", "outOfBandId", "typeTag", "types"}
             new == UpdatedConnection(r)
             created == ExtractDidDocument(records, r.didDoc, "created")
             received == ExtractDidDocument(records, r.theirDidDoc, "received")
             moving == MigrateToOobRecord(records, r, new)
  <1>1. r = [f \in F |-> r[f]]
    BY RecordFields DEF WellFormed, IsFor
  <1>2. /\ new = [f \in F |-> new[f]] /\ new.id = r.id /\ new.typeTag = r.typeTag
        /\ new.types = r.types
    BY <1>1 DEF UpdatedConnection
  <1>3. MigrateConnection(records, r) = (created \o received) \o moving
    BY DEF MigrateConnection
  <1> HIDE DEF new
  <1>4. moving \in Seq(ToSet(moving)) /\ \A write \in ToSet(moving) : Retags(3, write)
    BY <1>2, RecordFields, InvitationRetags
  <1>5. EarlierWrites(created) /\ EarlierWrites(received)
    BY ExtractedEarlier
  <1> HIDE DEF created, received, moving
  <1>6. EarlierWrites(created \o received)
    BY <1>5, EarlierTogether
  <1>7. ToSet((created \o received) \o moving) = ToSet(created \o received) \cup ToSet(moving)
    BY <1>4, <1>6, Concatenated DEF EarlierWrites
  <1> QED
    BY <1>3, <1>4, <1>6, <1>7, EarlierRetags DEF EarlierWrites

LEMMA TypesRetag ==
  ASSUME NEW records, NEW r, WellFormed(r), IsFor(5, r)
  PROVE  \A write \in ToSet(MigrateConnectionTypes(records, r)) : Retags(5, write) /\ write.old = r
  <1> DEFINE types == r.typeTag \cup (IF \E md \in OfKind(records, "mediation") : md.connection = r.id
                                      THEN {"mediator"} ELSE {})
             new == [r EXCEPT !.typeTag = {}, !.types = types]
             write == Updating(r, new)
  <1>1. r = [f \in Fields["connection"] |-> r[f]]
    BY DEF WellFormed, IsFor
  <1>2. MigrateConnectionTypes(records, r) = <<write>>
    BY DEF MigrateConnectionTypes
  <1>3. r.typeTag \subseteq types
    OBVIOUS
  <1> HIDE DEF types
  <1>4. new.id = r.id /\ new.typeTag = {} /\ new.types = types
    BY <1>1, RecordFields
  <1>5. write.old = r /\ write.record = new
    BY Operations
  <1> HIDE DEF write, new
  <1>6. Retags(5, write)
    BY <1>3, <1>4, <1>5 DEF Retags
  <1> QED
    BY <1>2, <1>5, <1>6, OneOrTwo

\* The fifth migration takes the tag of a connection along, the others leave it.
LEMMA MigrationsRetag ==
  ASSUME UnsetIsNoTuple, NEW n \in 1 .. 9, NEW records, \A x \in records : WellFormed(x),
         ConnectionsAreWhole(records), NEW r \in records, UpTo(n - 1, r), IsFor(n, r)
  PROVE  \A write \in ToSet(WritesFor(Migrations[n], records, r)) :
           Retags(n, write) /\ (n = 5 => write.old = r)
  <1>1. CASE n = 3
    <2>1. WritesFor(Migrations[n], records, r) = MigrateConnection(records, r)
      BY <1>1, MigrationNames DEF WritesFor
    <2> QED
      BY <1>1, <2>1, ConnectionRetags
  <1>2. CASE n = 5
    <2>1. WritesFor(Migrations[n], records, r) = MigrateConnectionTypes(records, r)
      BY <1>2, MigrationNames DEF WritesFor
    <2> QED
      BY <1>2, <2>1, TypesRetag
  <1>3. CASE n \notin {3, 5}
    <2>1. PICK earlier, last :
            /\ WritesFor(Migrations[n], records, r) = earlier \o <<last>> /\ last.old = r
            /\ WholeWrites(earlier, last, records)
      BY MigrationsAreWhole DEF WholeFor
    <2>2. EarlierWrites(earlier)
      BY <2>1 DEF WholeWrites
    <2>3. ToSet(earlier \o <<last>>) = ToSet(earlier) \cup {last}
      <3>1. PICK end : end = <<last>>
        OBVIOUS
      <3>2. end \in Seq(ToSet(end)) /\ ToSet(end) = {last}
        BY <3>1, OneOrTwo
      <3>3. ToSet(earlier \o end) = ToSet(earlier) \cup ToSet(end)
        BY <2>2, <3>2, Concatenated DEF EarlierWrites
      <3> QED
        BY <3>1, <3>2, <3>3
    <2>4. r.kind # "connection"
      <3>1. \/ n = 1 \/ n = 2 \/ n = 4 \/ n = 6 \/ n = 7 \/ n = 8 \/ n = 9
        BY <1>3
      <3> QED
        BY <3>1 DEF IsFor
    <2>5. Retags(n, last)
      BY <2>1, <2>4 DEF Retags
    <2> QED
      BY <1>3, <2>1, <2>2, <2>3, <2>5, EarlierRetags DEF EarlierWrites
  <1> QED
    BY <1>1, <1>2, <1>3

\* While no update migrates, there is nothing to come.
LEMMA TypesAtRest ==
  ASSUME UNCHANGED settled, work'.stage # "migrating",
         wallet' = Unset \/ (TagsStay(wallet'.records) /\ TypesIn(backups', wallet'.records)),
         work'.stage \in {"export", "delete", "import"} =>
           \A b \in OwnBackup' : /\ TagsStay(b.contents.records)
                                 /\ TypesIn(backups' \ OwnBackup', b.contents.records),
         work'.stage \in {"open", "clean up"} => TypesIn(backups' \ OwnBackup', wallet'.records)
  PROVE  TypesInv'
  <1>1. \A records, files : (TagsStay(records) => TagsStay(records)')
                            /\ (TypesIn(files, records) => TypesIn(files, records)')
    BY SameTypes
  <1>2. wallet' # Unset => (TagsStay(wallet.records) /\ TypesIn(backups, wallet.records))'
    <2>1. TypesIn(backups', wallet'.records) => TypesIn(backups, wallet.records)'
      BY DEF TypesIn
    <2> QED
      BY <1>1, <2>1
  <1>3. \A b : TypesIn(backups' \ OwnBackup', b.contents.records) =>
                 TypesIn(backups \ OwnBackup, b.contents.records)'
    BY DEF TypesIn
  <1>4. TypesIn(backups' \ OwnBackup', wallet'.records) => TypesIn(backups \ OwnBackup, wallet.records)'
    BY DEF TypesIn
  <1> QED
    BY <1>1, <1>2, <1>3, <1>4 DEF TypesInv

\* While one migrates, it is the migrations that have been started that count.
LEMMA TypesOnTheWay ==
  ASSUME DataInv', wallet' # Unset, work'.stage = "migrating", UNCHANGED settled,
         TagsStay(wallet'.records), TypesIn(backups', wallet'.records),
         \A b \in OwnBackup' : /\ TagsStay(b.contents.records)
                               /\ TypesIn(backups' \ OwnBackup', b.contents.records),
         \A j \in 0 .. 4, hi \in 0 .. 4, n \in 0 .. 9 : Progress(j, hi, n)' => TypesToCome(n)'
  PROVE  TypesInv'
  <1>1. PICK j \in 0 .. 4, hi \in 0 .. 4, n \in 0 .. 9 : Progress(j, hi, n)'
    BY DEF DataInv
  <1>2. StorageVersion(wallet') = VersionAt(j) /\ n = MigrationsTo(j) + work'.done
    BY <1>1 DEF Progress, DataAt
  <1>3. \A i \in 0 .. 4 : StorageVersion(wallet') = VersionAt(i) =>
                            TypesToCome(MigrationsTo(i) + work.done)'
    <2> SUFFICES ASSUME NEW i \in 0 .. 4, StorageVersion(wallet') = VersionAt(i)
                 PROVE  TypesToCome(MigrationsTo(i) + work.done)'
      OBVIOUS
    <2>1. i = j
      BY <1>2, OneVersion
    <2>2. TypesToCome(n)'
      BY <1>1
    <2>3. n = MigrationsTo(i) + work'.done
      BY <1>2, <2>1
    <2> QED
      BY <2>2, <2>3 DEF TypesToCome
  <1>4. \A records, files : (TagsStay(records) => TagsStay(records)')
                            /\ (TypesIn(files, records) => TypesIn(files, records)')
    BY SameTypes
  <1>5. TypesIn(backups', wallet'.records) => TypesIn(backups, wallet.records)'
    BY DEF TypesIn
  <1>6. \A b : TypesIn(backups' \ OwnBackup', b.contents.records) =>
                 TypesIn(backups \ OwnBackup, b.contents.records)'
    BY DEF TypesIn
  <1>7. StorageVersion(wallet)' = StorageVersion(wallet')
    BY DEF StorageVersion
  <1> QED
    BY <1>3, <1>4, <1>5, <1>6, <1>7 DEF TypesInv

LEMMA TypesOfProgress ==
  ASSUME UpdateInv, DataInv, TypesInv, work.stage = "migrating"
  PROVE  \E j \in 0 .. 4, hi \in 0 .. 4, n \in 0 .. 9 : Progress(j, hi, n) /\ TypesToCome(n)
  <1>1. PICK j \in 0 .. 4, hi \in 0 .. 4, n \in 0 .. 9 : Progress(j, hi, n)
    BY Migrating DEF AtUpdateStage
  <1>2. StorageVersion(wallet) = VersionAt(j) /\ n = MigrationsTo(j) + work.done
    BY <1>1 DEF Progress, DataAt
  <1> QED
    BY <1>1, <1>2 DEF TypesInv

LEMMA InitializeWalletTypes ==
  ASSUME UpdateInv, DataInv, TypesInv, InitializeWallet
  PROVE  TypesInv'
  <1>1. work.stage = "none" /\ work'.stage = "none" /\ UNCHANGED <<backups, settled>>
    BY DEF InitializeWallet, AtUpdateStage
  <1>2. TagsStay(wallet'.records) /\ TypesIn(backups, wallet'.records)
    <2>1. CASE wallet = Unset
      <3>1. wallet' = [open |-> TRUE, version |-> FrameworkVersion, records |-> {}]
        BY <2>1 DEF InitializeWallet
      <3>2. wallet'.records = {}
        BY <3>1
      <3> QED
        BY <3>2 DEF TagsStay, TypesIn, OfKind
    <2>2. CASE wallet # Unset
      <3>1. wallet' = [wallet EXCEPT !.open = TRUE]
        BY <2>2 DEF InitializeWallet
      <3>2. Contents(wallet') = Contents(wallet)
        BY <2>2, <3>1, WalletEdits DEF UpdateInv
      <3> QED
        BY <2>2, <3>2, SameRecords DEF TypesInv
    <2> QED
      BY <2>1, <2>2
  <1> QED
    BY <1>1, <1>2, TypesAtRest

LEMMA BeforeUpdateTypes ==
  ASSUME UpdateInv, DataInv, TypesInv, ReadStorageVersion \/ \E toVersion : StartUpdate(toVersion)
  PROVE  TypesInv'
  <1>1. /\ work.stage = "none" /\ wallet # Unset /\ UNCHANGED <<backups, settled>>
        /\ wallet' = [wallet EXCEPT !.version = StorageVersion(wallet)]
    BY DEF ReadStorageVersion, StartUpdate, AtUpdateStage, Opened
  <1>2. work'.stage \in {"none", "backup"}
    <2>1. CASE ReadStorageVersion
      BY <1>1, <2>1 DEF ReadStorageVersion
    <2>2. CASE \E toVersion : StartUpdate(toVersion)
      <3>1. PICK needed : work' = [stage |-> "backup", updates |-> needed, done |-> 0,
                                   migration |-> Unset, todo |-> {}, writes |-> <<>>]
        BY <2>2 DEF StartUpdate, NoUpdate
      <3> QED
        BY <3>1
    <2> QED
      BY <2>1, <2>2
  <1>3. Contents(wallet') = Contents(wallet)
    BY <1>1, WalletEdits DEF UpdateInv
  <1>4. TagsStay(wallet'.records) /\ TypesIn(backups', wallet'.records)
    BY <1>1, <1>3, SameRecords DEF TypesInv
  <1> QED
    BY <1>1, <1>2, <1>4, TypesAtRest

\* The backup has the connections as they are when the update begins.
LEMMA CreateBackupTypes ==
  ASSUME UpdateInv, DataInv, TypesInv, CreateBackup
  PROVE  TypesInv'
  <1>1. work.stage = "backup" /\ UNCHANGED <<wallet, settled, updateRuns>> /\ wallet # Unset
    BY DEF CreateBackup, UpdateInv, WorkInv, AtUpdateStage
  <1>2. TagsStay(wallet.records) /\ TypesIn(backups, wallet.records)
    BY <1>1 DEF TypesInv
  <1>3. CASE /\ backups' = backups \cup {[run |-> updateRuns, contents |-> Contents(wallet)]}
             /\ work' = [work EXCEPT !.stage = "migrating"]
    <2> DEFINE new == [run |-> updateRuns, contents |-> Contents(wallet)]
    <2>1. work'.stage = "migrating" /\ work'.writes = <<>>
      BY <1>1, <1>3 DEF UpdateInv, IsWork, WorkInv, AtUpdateStage
    <2>2. new.run = updateRuns /\ new.contents.records = wallet.records
      BY ContentsAreContents
    <2>3. backups' = backups \cup {new}
      BY <1>3
    <2> HIDE DEF new
    <2>4. OwnBackup' = {new} /\ backups' \ OwnBackup' = backups
      BY <1>1, <2>2, <2>3 DEF OwnBackup, UpdateInv, BackupsInv, AtUpdateStage
    <2>5. TypesIn(backups', wallet'.records)
      BY <1>1, <1>2, <2>3 DEF TypesIn
    <2>6. \A c \in OfKind(wallet'.records, "connection") : BackedUp(c)'
      BY <1>1, <2>2, <2>4 DEF BackedUp
    <2>7. \A n : TypesToCome(n)'
      BY <2>1, <2>6, OneOrTwo DEF TypesToCome
    <2>8. \A b \in OwnBackup' : /\ TagsStay(b.contents.records)
                                /\ TypesIn(backups' \ OwnBackup', b.contents.records)
      BY <1>2, <2>2, <2>4
    <2>9. DataInv'
      BY CreateBackupData
    <2> QED
      BY <1>1, <1>2, <2>1, <2>5, <2>7, <2>8, <2>9, TypesOnTheWay
  <1>4. CASE ToStage("none") /\ UNCHANGED backups
    <2>1. work'.stage = "none"
      BY <1>4, StageOnly
    <2> QED
      BY <1>1, <1>2, <1>4, <2>1, TypesAtRest
  <1> QED
    BY <1>3, <1>4 DEF CreateBackup

LEMMA NextMigrationTypes ==
  ASSUME UnsetIsNoTuple, UpdateInv, DataInv, WholeInv, TypesInv, NextMigration
  PROVE  TypesInv'
  <1>1. /\ Idle /\ work.stage = "migrating" /\ work.writes = <<>>
        /\ UNCHANGED <<wallet, backups, settled, updateRuns>>
    BY DEF NextMigration, Idle, AtUpdateStage
  <1>2. wallet # Unset
    BY <1>1 DEF UpdateInv, WorkInv
  <1>3. PICK migration : work' = [work EXCEPT !.done = work.done + 1, !.migration = migration,
                                  !.todo = ToMigrate(migration, wallet.records)]
    BY DEF NextMigration
  <1>4. work'.stage = "migrating" /\ work'.done = work.done + 1 /\ work'.writes = <<>>
    BY <1>1, <1>3 DEF UpdateInv, IsWork
  <1>5. PICK j \in 0 .. 4, hi \in 0 .. 4, n \in 0 .. 9 : Progress(j, hi, n) /\ TypesToCome(n)
    BY <1>1, TypesOfProgress
  <1>6. OwnBackup' = OwnBackup
    BY <1>1 DEF OwnBackup
  <1>7. WholeInv'
    BY NextMigrationWhole
  <1>8. work'.todo # {} => work'.todo \subseteq wallet.records
    BY <1>1, <1>7 DEF WholeInv
  <1>9. \A c : BackedUp(c) => BackedUp(c)'
    BY <1>6 DEF BackedUp
  <1>10. ASSUME NEW i \in 0 .. 4, NEW top \in 0 .. 4, NEW m \in 0 .. 9, Progress(i, top, m)'
         PROVE  TypesToCome(m)'
    <2>1. VersionAt(i) = VersionAt(j)
      BY <1>1, <1>5, <1>10 DEF Progress, DataAt, StorageVersion
    <2>2. i = j
      BY <2>1, OneVersion
    <2>3. n = MigrationsTo(j) + work.done /\ m = MigrationsTo(j) + work'.done /\ work.done \in Nat
      BY <1>5, <1>10, <2>2 DEF Progress
    <2>4. MigrationsTo(j) \in 0 .. 9
      BY MigrationCounts
    <2>5. m = n + 1
      <3>1. PICK a \in 0 .. 9 : a = MigrationsTo(j)
        BY <2>4
      <3>2. PICK d \in Nat : d = work.done
        BY <2>3
      <3>3. n = a + d /\ m = a + (d + 1)
        BY <1>4, <2>3, <3>1, <3>2
      <3> QED
        BY <3>3
    <2>6. \A c \in OfKind(wallet.records, "connection") : m <= 5 => BackedUp(c)'
      BY <1>5, <1>9, <2>5 DEF TypesToCome
    <2> QED
      BY <1>1, <1>4, <2>6, OneOrTwo DEF TypesToCome
  <1>11. DataInv'
    BY NextMigrationData
  <1>12. TagsStay(wallet'.records) /\ TypesIn(backups', wallet'.records)
    BY <1>1, <1>2 DEF TypesInv
  <1>13. \A b \in OwnBackup' : /\ TagsStay(b.contents.records)
                               /\ TypesIn(backups' \ OwnBackup', b.contents.records)
    BY <1>1, <1>6 DEF TypesInv
  <1> QED
    BY <1>1, <1>2, <1>4, <1>10, <1>11, <1>12, <1>13, TypesOnTheWay

\* The migrations that have been started stay so many.
LEMMA SetCurrentStorageVersionTypes ==
  ASSUME UnsetIsNoWallet, UnsetIsNoTuple, UpdateInv, DataInv, TypesInv, SetCurrentStorageVersion
  PROVE  TypesInv'
  <1>1. /\ work.stage = "migrating" /\ work.todo = {} /\ work.writes = <<>> /\ work.updates # {}
        /\ UNCHANGED <<backups, settled, updateRuns>>
    BY DEF SetCurrentStorageVersion, Idle, AtUpdateStage
  <1>2. wallet # Unset
    BY <1>1 DEF UpdateInv, WorkInv
  <1>3. PICK j \in 0 .. 4, hi \in 0 .. 4, n \in 0 .. 9 : Progress(j, hi, n) /\ TypesToCome(n)
    BY <1>1, TypesOfProgress
  <1>4. j < hi /\ Min(work.updates) = j + 1 /\ j + 1 \in 1 .. 4
    <2>1. work.updates = j + 1 .. hi /\ j + 1 .. hi # {}
      BY <1>1, <1>3 DEF Progress
    <2>2. j < hi /\ Min(j + 1 .. hi) = j + 1
      BY <2>1, FirstOfNext
    <2>3. j + 1 \in 1 .. 4
      BY <2>2
    <2> QED
      BY <2>1, <2>2, <2>3, Zenon
  <1>5. CurrentUpdate.to = VersionAt(j + 1)
    <2>1. PICK u : u = SupportedUpdates[j + 1]
      OBVIOUS
    <2>2. u.to = VersionAt(j + 1)
      BY <1>4, <2>1, UpdateTable
    <2> QED
      BY <1>4, <2>1, <2>2 DEF CurrentUpdate
  <1>6. /\ wallet' = [wallet EXCEPT !.version = VersionAt(j + 1)]
        /\ \E updates : work' = [work EXCEPT !.updates = updates, !.done = 0]
    BY <1>5 DEF SetCurrentStorageVersion
  <1>7. wallet'.records = wallet.records /\ wallet'.version = VersionAt(j + 1) /\ IsWallet(wallet')
    BY <1>2, <1>6, WalletEdits DEF UpdateInv, IsWallet
  <1>8. work'.stage = "migrating" /\ work'.todo = {} /\ work'.writes = <<>> /\ work'.done = 0
    BY <1>1, <1>6 DEF UpdateInv, IsWork
  <1>9. StorageVersion(wallet') = VersionAt(j + 1)
    <2>1. VersionAt(j + 1) # Unset
      <3>1. j + 1 = 1 \/ j + 1 = 2 \/ j + 1 = 3 \/ j + 1 = 4
        BY <1>4
      <3> QED
        BY <3>1, UpdateTable DEF v0_2, v0_3, v0_3_1, v0_4, UnsetIsNoTuple
    <2> QED
      BY <1>7, <2>1 DEF StorageVersion
  <1>10. OwnBackup' = OwnBackup
    BY <1>1 DEF OwnBackup
  <1>11. \A c : BackedUp(c) => BackedUp(c)'
    BY <1>10 DEF BackedUp
  <1>12. ASSUME NEW i \in 0 .. 4, NEW top \in 0 .. 4, NEW m \in 0 .. 9, Progress(i, top, m)'
         PROVE  TypesToCome(m)'
    <2>1. VersionAt(i) = VersionAt(j + 1)
      BY <1>9, <1>12 DEF Progress, DataAt
    <2>2. i = j + 1
      BY <1>4, <2>1, OneVersion
    <2>3. n <= m
      <3>1. PICK a \in 0 .. 9 : a = MigrationsTo(j)
        BY MigrationCounts
      <3>2. PICK b \in 0 .. 9 : b = MigrationsTo(j + 1)
        BY <1>4, MigrationCounts
      <3>3. a < b
        BY <1>4, <3>1, <3>2, MigrationCounts
      <3>4. m = b
        BY <1>8, <1>12, <2>2, <3>2 DEF Progress
      <3>5. CASE work.done = 0
        <4>1. n = a
          BY <1>3, <3>1, <3>5 DEF Progress
        <4> QED
          BY <3>3, <3>4, <4>1
      <3>6. CASE work.done # 0
        <4>1. n <= b
          BY <1>3, <3>2, <3>6 DEF Progress
        <4> QED
          BY <3>4, <4>1
      <3> QED
        BY <3>5, <3>6
    <2>4. \A c \in OfKind(wallet'.records, "connection") : m < 5 => BackedUp(c)'
      BY <1>3, <1>7, <1>11, <2>3 DEF TypesToCome
    <2> QED
      BY <1>8, <2>4, OneOrTwo DEF TypesToCome
  <1>13. DataInv'
    BY SetCurrentStorageVersionData
  <1>14. wallet' # Unset
    BY <1>7, WalletIsThere
  <1>15. TagsStay(wallet'.records) /\ TypesIn(backups', wallet'.records)
    BY <1>1, <1>2, <1>7 DEF TypesInv
  <1>16. \A b \in OwnBackup' : /\ TagsStay(b.contents.records)
                               /\ TypesIn(backups' \ OwnBackup', b.contents.records)
    BY <1>1, <1>10 DEF TypesInv
  <1> QED
    BY <1>1, <1>8, <1>12, <1>13, <1>14, <1>15, <1>16, TypesOnTheWay

LEMMA MigrateRecordTypes ==
  ASSUME UnsetIsNoTuple, UpdateInv, DataInv, WholeInv, TypesInv, NEW r, MigrateRecord(r)
  PROVE  TypesInv'
  <1>1. /\ r \in work.todo /\ work.writes = <<>>
        /\ UNCHANGED <<wallet, backups, settled, updateRuns>>
    BY DEF MigrateRecord
  <1>2. /\ work.stage = "migrating" /\ wallet # Unset
        /\ \A x \in wallet.records : WellFormed(x)
    BY <1>1, UnderWay
  <1>3. PICK j \in 0 .. 4, hi \in 0 .. 4, n \in 0 .. 9 : Progress(j, hi, n) /\ TypesToCome(n)
    BY <1>2, TypesOfProgress
  <1>4. n \in 1 .. 9 /\ work.migration = Migrations[n]
    <2>1. PICK a \in 0 .. 9 : a = MigrationsTo(j)
      BY MigrationCounts
    <2>2. PICK d \in Nat : d = work.done
      BY <1>3 DEF Progress
    <2>3. d > 0 /\ n = a + d /\ work.migration = Migrations[n]
      BY <1>1, <1>3, <2>1, <2>2 DEF Progress
    <2>4. n \in 1 .. 9
      BY <2>3
    <2> QED
      BY <2>3, <2>4
  <1> DEFINE writes == WritesFor(work.migration, wallet.records, r)
  <1>5. work' = [work EXCEPT !.todo = work.todo \ {r}, !.writes = writes]
    BY DEF MigrateRecord
  <1>6. \A write \in ToSet(writes) : Retags(n, write) /\ (n = 5 => write.old = r)
    <2>1. WellFormed(r) /\ UpTo(n - 1, r) /\ IsFor(n, r)
      BY <1>1, <1>3 DEF Progress
    <2>2. r \in wallet.records /\ ConnectionsAreWhole(wallet.records)
      BY <1>1, <1>2 DEF WholeInv, WholeRecords
    <2> QED
      BY <1>2, <1>4, <2>1, <2>2, MigrationsRetag
  <1> HIDE DEF writes
  <1>7. /\ work'.stage = "migrating" /\ work'.todo = work.todo \ {r} /\ work'.writes = writes
        /\ work'.done = work.done
    BY <1>2, <1>5 DEF UpdateInv, IsWork
  <1>8. OwnBackup' = OwnBackup
    BY <1>1 DEF OwnBackup
  <1>9. \A c : BackedUp(c) => BackedUp(c)'
    BY <1>8 DEF BackedUp
  <1>10. r.kind = "connection" /\ n = 5 => BackedUp(r)
    <2>1. r \in wallet.records
      BY <1>1, <1>2 DEF WholeInv
    <2> QED
      BY <1>1, <1>3, <2>1 DEF TypesToCome, OfKind
  <1>11. TypesToCome(n)'
    <2>1. \A c \in OfKind(wallet'.records, "connection") :
            n < 5 \/ (n = 5 /\ c \in work'.todo) => BackedUp(c)'
      BY <1>1, <1>3, <1>7, <1>9 DEF TypesToCome
    <2>2. \A write \in ToSet(work'.writes) :
            /\ Retags(n, write)
            /\ n = 5 /\ write.op = "update" /\ write.old.kind = "connection" => BackedUp(write.old)'
      BY <1>6, <1>7, <1>9, <1>10
    <2> QED
      BY <2>1, <2>2 DEF TypesToCome
  <1>12. \A i \in 0 .. 4, top \in 0 .. 4, m \in 0 .. 9 : Progress(i, top, m)' => TypesToCome(m)'
    <2> SUFFICES ASSUME NEW i \in 0 .. 4, NEW top \in 0 .. 4, NEW m \in 0 .. 9,
                        Progress(i, top, m)'
                 PROVE  m = n
      BY <1>11
    <2>1. VersionAt(i) = VersionAt(j)
      BY <1>1, <1>3 DEF Progress, DataAt, StorageVersion
    <2>2. i = j
      BY <2>1, OneVersion
    <2> QED
      BY <1>3, <1>7, <2>2 DEF Progress
  <1>13. DataInv'
    BY MigrateRecordData
  <1>14. TagsStay(wallet'.records) /\ TypesIn(backups', wallet'.records)
    BY <1>1, <1>2 DEF TypesInv
  <1>15. \A b \in OwnBackup' : /\ TagsStay(b.contents.records)
                               /\ TypesIn(backups' \ OwnBackup', b.contents.records)
    BY <1>1, <1>2, <1>8 DEF TypesInv
  <1> QED
    BY <1>1, <1>2, <1>7, <1>12, <1>13, <1>14, <1>15, TypesOnTheWay

\* A write that leaves a connection that was not there has replaced the one that was.
LEMMA ConnectionWritten ==
  ASSUME UpdateInv, DataInv, WholeInv, WriteRecord
  PROVE  LET first == Head(work.writes) IN
         /\ first \in ToSet(work.writes)
         /\ \A c \in OfKind(wallet'.records, "connection") : c \notin wallet.records =>
              /\ first.op = "update" /\ c = first.record
              /\ first.old \in OfKind(wallet.records, "connection")
  <1> DEFINE R == wallet.records
             first == Head(work.writes)
  <1>1. /\ work.writes # <<>> /\ wallet' = [wallet EXCEPT !.records = Written(R, first)]
    BY DEF WriteRecord
  <1>2. work.stage = "migrating" /\ wallet # Unset
    BY <1>1, UnderWay
  <1>3. wallet'.records = Written(R, first)
    BY <1>1, <1>2 DEF UpdateInv, IsWallet
  <1>4. work.writes \in Seq(ToSet(work.writes))
    BY <1>2 DEF DataInv, Progress
  <1>5. first \in ToSet(work.writes)
    BY <1>1, <1>4, FirstAndRest
  <1>6. PICK earlier, last :
          /\ work.writes = earlier \o <<last>> /\ last.old \in R
          /\ WholeWrites(earlier, last, R)
    BY <1>1 DEF WholeInv
  <1>7. EarlierWrites(earlier)
    BY <1>6 DEF WholeWrites
  <1>8. CASE earlier # <<>>
    <2>1. first = Head(earlier)
      BY <1>6, <1>7, <1>8, HeadAndTail DEF EarlierWrites
    <2>2. Head(earlier) \in ToSet(earlier)
      BY <1>7, <1>8, FirstAndRest DEF EarlierWrites
    <2>3. EarlierWrite(first)
      BY <1>7, <2>1, <2>2 DEF EarlierWrites
    <2> HIDE DEF first
    <2>4. \A c \in Written(R, first) \ R : c.kind # "connection"
      BY <2>3, EarlierIsWritten
    <2> QED
      BY <1>3, <1>5, <2>4 DEF OfKind, first
  <1>9. CASE earlier = <<>>
    <2>1. first = last
      BY <1>6, <1>7, <1>9, HeadAndTail DEF EarlierWrites
    <2>2. ToSet(earlier) = {}
      BY <1>9, OneOrTwo
    <2>3. R \cup {write.record : write \in ToSet(earlier)} = R
      BY <2>2
    <2>4. LastWrite(last, R)
      BY <1>6, <2>2, <2>3 DEF WholeWrites
    <2> HIDE DEF first
    <2>5. \A c \in Written(R, first) \ R : first.op = "update" /\ c = first.record
      BY <2>1, <2>4 DEF Written, LastWrite
    <2>6. first.op = "update" => first.record.kind = first.old.kind
      BY <2>1, <2>4 DEF LastWrite
    <2>7. \A c \in OfKind(wallet'.records, "connection") : c \notin R =>
            first.op = "update" /\ c = first.record /\ first.old \in OfKind(R, "connection")
      BY <1>3, <1>6, <2>1, <2>5, <2>6 DEF OfKind
    <2> QED
      BY <1>5, <2>7 DEF first
  <1> QED
    BY <1>8, <1>9

LEMMA WriteRecordTypes ==
  ASSUME UnsetIsNoWallet, UpdateInv, DataInv, WholeInv, TypesInv, WriteRecord
  PROVE  TypesInv'
  <1> DEFINE first == Head(work.writes)
  <1>1. /\ work.writes # <<>>
        /\ \E records : wallet' = [wallet EXCEPT !.records = records]
        /\ work' = [work EXCEPT !.writes = Tail(work.writes)]
        /\ UNCHANGED <<backups, settled, updateRuns>>
    BY DEF WriteRecord
  <1>2. work.stage = "migrating" /\ wallet # Unset
    BY <1>1, UnderWay
  <1>3. PICK j \in 0 .. 4, hi \in 0 .. 4, n \in 0 .. 9 : Progress(j, hi, n) /\ TypesToCome(n)
    BY <1>2, TypesOfProgress
  <1>4. wallet'.version = wallet.version /\ IsWallet(wallet')
    BY <1>1, <1>2, WalletEdits DEF UpdateInv, IsWallet
  <1>5. /\ work'.stage = "migrating" /\ work'.todo = work.todo /\ work'.writes = Tail(work.writes)
        /\ work'.done = work.done
    BY <1>1, <1>2 DEF UpdateInv, IsWork
  <1>6. ToSet(work'.writes) \subseteq ToSet(work.writes)
    <2>1. work.writes \in Seq(ToSet(work.writes))
      BY <1>3 DEF Progress
    <2> QED
      BY <1>1, <1>5, <2>1, FirstAndRest
  <1>7. /\ first \in ToSet(work.writes)
        /\ \A c \in OfKind(wallet'.records, "connection") : c \notin wallet.records =>
             /\ first.op = "update" /\ c = first.record
             /\ first.old \in OfKind(wallet.records, "connection")
    BY ConnectionWritten
  <1> HIDE DEF first
  <1>8. OwnBackup' = OwnBackup
    BY <1>1 DEF OwnBackup
  <1>9. \A c : BackedUp(c) => BackedUp(c)'
    BY <1>8 DEF BackedUp
  <1>10. TagsStay(wallet.records) /\ TypesIn(backups, wallet.records)
    BY <1>2 DEF TypesInv
  \* The connection that is replaced, if one is.
  <1>11. ASSUME NEW c \in OfKind(wallet'.records, "connection"), c \notin wallet.records
         PROVE  /\ first.old \in OfKind(wallet.records, "connection") /\ c.id = first.old.id
                /\ n = 5 => /\ c.typeTag = {} /\ first.old.typeTag \subseteq c.types
                            /\ BackedUp(first.old)
                /\ n # 5 => c.typeTag = first.old.typeTag /\ c.types = first.old.types
    <2>1. /\ first.op = "update" /\ c = first.record
          /\ first.old \in OfKind(wallet.records, "connection")
      BY <1>7, <1>11
    <2>2. Retags(n, first) /\ first.old.kind = "connection"
      BY <1>3, <1>7, <2>1 DEF TypesToCome, OfKind
    <2>3. n = 5 => BackedUp(first.old)
      BY <1>3, <1>7, <2>1, <2>2 DEF TypesToCome
    <2> QED
      BY <2>1, <2>2, <2>3 DEF Retags
  <1>12. \A c \in OfKind(wallet'.records, "connection") :
           c \in wallet.records => c \in OfKind(wallet.records, "connection")
    BY DEF OfKind
  <1>13. TagsStay(wallet'.records)
    BY <1>10, <1>11, <1>12 DEF TagsStay
  <1>14. TypesIn(backups, wallet'.records)
    <2> DEFINE Lost(c) == \E b \in backups : \E x \in OfKind(b.contents.records, "connection") :
                            x.id = c.id /\ x.typeTag = {}
    <2> SUFFICES ASSUME NEW old \in OfKind(settled.records, "connection"),
                        NEW c \in OfKind(wallet'.records, "connection"), c.id = old.id
                 PROVE  old.typeTag \subseteq c.typeTag \cup c.types \/ Lost(c)
      BY DEF TypesIn
    <2>1. CASE c \in wallet.records
      BY <1>10, <1>12, <2>1 DEF TypesIn
    <2>2. CASE c \notin wallet.records
      <3>1. first.old \in OfKind(wallet.records, "connection") /\ first.old.id = old.id
        BY <1>11, <2>2
      <3>2. Lost(first.old) => Lost(c)
        BY <1>11, <2>2
      <3>3. CASE n # 5
        <4>1. old.typeTag \subseteq first.old.typeTag \cup first.old.types \/ Lost(first.old)
          BY <1>10, <3>1 DEF TypesIn
        <4> QED
          BY <1>11, <2>2, <3>2, <3>3, <4>1
      <3>4. CASE n = 5
        <4>1. first.old.typeTag \in {{}, old.typeTag}
          BY <1>10, <3>1 DEF TagsStay
        <4>2. first.old.typeTag = {} => Lost(first.old)
          BY <1>11, <2>2, <3>4 DEF BackedUp, OwnBackup
        <4>3. first.old.typeTag \subseteq c.types
          BY <1>11, <2>2, <3>4
        <4> HIDE DEF Lost
        <4> QED
          BY <3>2, <4>1, <4>2, <4>3
      <3> QED
        BY <3>3, <3>4
    <2> QED
      BY <2>1, <2>2
  <1>15. TypesToCome(n)'
    <2>1. ASSUME NEW c \in OfKind(wallet'.records, "connection"),
                 n < 5 \/ (n = 5 /\ c \in work'.todo)
          PROVE  BackedUp(c)'
      <3>1. work.todo # {} => work.todo \subseteq wallet.records
        BY DEF WholeInv
      <3>2. CASE c \in wallet.records
        BY <1>3, <1>5, <1>9, <1>12, <2>1, <3>2 DEF TypesToCome
      <3>3. CASE c \notin wallet.records
        <4>1. n < 5
          BY <1>5, <2>1, <3>1, <3>3
        <4>2. BackedUp(first.old)
          BY <1>3, <1>11, <3>3, <4>1 DEF TypesToCome
        <4>3. c.id = first.old.id /\ c.typeTag = first.old.typeTag
          BY <1>11, <3>3, <4>1
        <4>4. BackedUp(c)
          BY <4>2, <4>3 DEF BackedUp
        <4> QED
          BY <1>9, <4>4
      <3> QED
        BY <3>2, <3>3
    <2>2. \A write \in ToSet(work'.writes) :
            /\ Retags(n, write)
            /\ n = 5 /\ write.op = "update" /\ write.old.kind = "connection" => BackedUp(write.old)'
      BY <1>3, <1>6, <1>9 DEF TypesToCome
    <2> QED
      BY <2>1, <2>2 DEF TypesToCome
  <1>16. \A i \in 0 .. 4, top \in 0 .. 4, m \in 0 .. 9 : Progress(i, top, m)' => TypesToCome(m)'
    <2> SUFFICES ASSUME NEW i \in 0 .. 4, NEW top \in 0 .. 4, NEW m \in 0 .. 9,
                        Progress(i, top, m)'
                 PROVE  m = n
      BY <1>15
    <2>1. VersionAt(i) = VersionAt(j)
      BY <1>3, <1>4 DEF Progress, DataAt, StorageVersion
    <2>2. i = j
      BY <2>1, OneVersion
    <2> QED
      BY <1>3, <1>5, <2>2 DEF Progress
  <1>17. DataInv'
    BY WriteRecordData
  <1>18. wallet' # Unset
    BY <1>4, WalletIsThere
  <1>19. \A b \in OwnBackup' : /\ TagsStay(b.contents.records)
                               /\ TypesIn(backups' \ OwnBackup', b.contents.records)
    BY <1>1, <1>2, <1>8 DEF TypesInv
  <1> QED
    BY <1>1, <1>5, <1>13, <1>14, <1>16, <1>17, <1>18, <1>19, TypesOnTheWay

LEMMA FinishUpdateTypes ==
  ASSUME UpdateInv, DataInv, WholeInv, FinishUpdate
  PROVE  TypesInv'
  <1>1. /\ work.stage = "migrating" /\ UNCHANGED wallet /\ settled' = Contents(wallet)
        /\ work' = NoUpdate
    BY DEF FinishUpdate, Idle, AtUpdateStage
  <1>2. work'.stage = "none"
    BY <1>1 DEF NoUpdate
  <1>3. wallet # Unset /\ settled'.records = wallet'.records
    BY <1>1, ContentsAreContents DEF UpdateInv, WorkInv
  <1>4. IdsAreUnique(wallet'.records)
    BY <1>1, <1>3 DEF WholeInv, WholeRecords
  <1>5. TagsStay(wallet.records)'
    BY <1>3, <1>4 DEF TagsStay, IdsAreUnique, OfKind
  <1>6. TypesIn(backups, wallet.records)'
    BY <1>3, <1>4 DEF TypesIn, IdsAreUnique, OfKind
  <1> QED
    BY <1>2, <1>5, <1>6 DEF TypesInv

LEMMA FailuresTypes ==
  ASSUME UpdateInv, DataInv, TypesInv, FailUpdate \/ RestoreFails
  PROVE  TypesInv'
  <1>1. UNCHANGED <<wallet, backups, settled, updateRuns>>
    BY DEF FailUpdate, RestoreFails
  <1>2. PICK stage \in {"export", "none"} :
          ToStage(stage) /\ (stage = "export" => work.stage = "migrating")
    BY DEF FailUpdate, RestoreFails, AtUpdateStage
  <1>3. OwnBackup' = OwnBackup
    BY <1>1 DEF OwnBackup
  <1>4. work'.stage = stage
    BY <1>2, StageOnly
  <1> QED
    BY <1>1, <1>2, <1>3, <1>4, TypesAtRest DEF TypesInv

\* The backup that is imported does without itself.
LEMMA RestoreBackupTypes ==
  ASSUME UpdateInv, DataInv, TypesInv, RestoreBackup
  PROVE  TypesInv'
  <1> DEFINE others == backups \ OwnBackup
  <1>1. UNCHANGED <<settled, updateRuns>>
    BY DEF RestoreBackup
  <1>2. \A records : TypesIn(others, records) => TypesIn(backups, records)
    BY DEF TypesIn
  <1>3. CASE /\ AtUpdateStage("export") /\ ToStage("delete")
             /\ UNCHANGED <<wallet, backups>>
    <2>1. work.stage = "export" /\ work'.stage = "delete" /\ OwnBackup' = OwnBackup
      BY <1>1, <1>3, StageOnly DEF AtUpdateStage, OwnBackup
    <2> QED
      BY <1>1, <1>3, <2>1, TypesAtRest DEF TypesInv
  <1>4. CASE /\ AtUpdateStage("delete") /\ ToStage("import")
             /\ wallet' = Unset
             /\ UNCHANGED backups
    <2>1. work.stage = "delete" /\ work'.stage = "import" /\ OwnBackup' = OwnBackup
      BY <1>1, <1>4, StageOnly DEF AtUpdateStage, OwnBackup
    <2> QED
      BY <1>1, <1>4, <2>1, TypesAtRest DEF TypesInv
  <1>5. CASE /\ AtUpdateStage("import") /\ ToStage("open")
             /\ \E b \in OwnBackup :
                  wallet' = [open |-> FALSE, version |-> b.contents.version,
                             records |-> b.contents.records]
             /\ UNCHANGED backups
    <2>1. work.stage = "import" /\ work'.stage = "open" /\ OwnBackup' = OwnBackup
      BY <1>1, <1>5, StageOnly DEF AtUpdateStage, OwnBackup
    <2>2. PICK b \in OwnBackup :
            wallet' = [open |-> FALSE, version |-> b.contents.version,
                       records |-> b.contents.records]
      BY <1>5
    <2>3. wallet'.records = b.contents.records
      BY <2>2
    <2>4. TagsStay(wallet'.records) /\ TypesIn(others, wallet'.records)
      BY <2>1, <2>2, <2>3 DEF TypesInv
    <2> QED
      BY <1>1, <1>2, <1>5, <2>1, <2>4, TypesAtRest
  <1>6. CASE /\ AtUpdateStage("open") /\ ToStage("clean up")
             /\ wallet' = [wallet EXCEPT !.open = TRUE]
             /\ UNCHANGED backups
    <2>1. work.stage = "open" /\ work'.stage = "clean up" /\ OwnBackup' = OwnBackup
      BY <1>1, <1>6, StageOnly DEF AtUpdateStage, OwnBackup
    <2>2. wallet # Unset
      BY <2>1 DEF UpdateInv, WorkInv
    <2>3. Contents(wallet') = Contents(wallet)
      BY <1>6, <2>2, WalletEdits DEF UpdateInv
    <2>4. wallet'.records = wallet.records
      BY <2>3, SameRecords
    <2>5. TagsStay(wallet'.records) /\ TypesIn(others, wallet'.records)
      BY <2>1, <2>2, <2>4 DEF TypesInv
    <2> QED
      BY <1>1, <1>2, <1>6, <2>1, <2>5, TypesAtRest
  <1>7. CASE /\ AtUpdateStage("clean up") /\ ToStage("none")
             /\ backups' = backups \ OwnBackup
             /\ UNCHANGED wallet
    <2>1. work.stage = "clean up" /\ work'.stage = "none"
      BY <1>7, StageOnly DEF AtUpdateStage
    <2>2. wallet # Unset
      BY <2>1 DEF UpdateInv, WorkInv
    <2>3. TagsStay(wallet'.records) /\ TypesIn(backups', wallet'.records)
      BY <1>7, <2>1, <2>2 DEF TypesInv
    <2> QED
      BY <1>1, <2>1, <2>3, TypesAtRest
  <1> QED
    BY <1>3, <1>4, <1>5, <1>6, <1>7 DEF RestoreBackup

LEMMA CrashInUpdateTypes ==
  ASSUME UpdateInv, DataInv, TypesInv, CrashInUpdate
  PROVE  TypesInv'
  <1>1. /\ UNCHANGED <<settled, backups>> /\ work' = NoUpdate
        /\ wallet' = IF wallet = Unset THEN Unset ELSE [wallet EXCEPT !.open = FALSE]
    BY DEF CrashInUpdate
  <1>2. work'.stage = "none"
    BY <1>1 DEF NoUpdate
  <1>3. wallet # Unset => Contents(wallet') = Contents(wallet)
    BY <1>1, WalletEdits DEF UpdateInv
  <1>4. wallet' = Unset \/ (TagsStay(wallet'.records) /\ TypesIn(backups', wallet'.records))
    BY <1>1, <1>3, SameRecords DEF TypesInv
  <1> QED
    BY <1>1, <1>2, <1>4, TypesAtRest

LEMMA TypesInvKept ==
  ASSUME UnsetIsNoWallet, UnsetIsNoTuple, UpdateInv, DataInv, WholeInv, TypesInv,
         [UpdateNext]_updateVars
  PROVE  TypesInv'
  <1>1. CASE UpdateNext
    BY <1>1, InitializeWalletTypes, BeforeUpdateTypes, CreateBackupTypes, NextMigrationTypes,
       SetCurrentStorageVersionTypes, MigrateRecordTypes, WriteRecordTypes, FinishUpdateTypes,
       FailuresTypes, RestoreBackupTypes, CrashInUpdateTypes
    DEF UpdateNext
  <1>2. CASE UNCHANGED updateVars
    <2>1. UNCHANGED <<wallet, backups, work, settled, updateRuns>>
      BY <1>2 DEF updateVars
    <2>2. OwnBackup' = OwnBackup
      BY <2>1 DEF OwnBackup
    <2>3. \A c : BackedUp(c) => BackedUp(c)'
      BY <2>2 DEF BackedUp
    <2>4. CASE work.stage = "migrating"
      <3>1. PICK j \in 0 .. 4, hi \in 0 .. 4, n \in 0 .. 9 : Progress(j, hi, n) /\ TypesToCome(n)
        BY <2>4, TypesOfProgress
      <3>2. TypesToCome(n)'
        BY <2>1, <2>3, <3>1 DEF TypesToCome
      <3>3. \A i \in 0 .. 4, top \in 0 .. 4, m \in 0 .. 9 : Progress(i, top, m)' => TypesToCome(m)'
        <4> SUFFICES ASSUME NEW i \in 0 .. 4, NEW top \in 0 .. 4, NEW m \in 0 .. 9,
                            Progress(i, top, m)'
                     PROVE  m = n
          BY <3>2
        <4>1. VersionAt(i) = VersionAt(j)
          BY <2>1, <3>1 DEF Progress, DataAt, StorageVersion
        <4>2. i = j
          BY <4>1, OneVersion
        <4> QED
          BY <2>1, <3>1, <4>2 DEF Progress
      <3>4. wallet # Unset
        BY <2>4 DEF UpdateInv, WorkInv
      <3>5. TagsStay(wallet'.records) /\ TypesIn(backups', wallet'.records)
        BY <2>1, <3>4 DEF TypesInv
      <3>6. \A b \in OwnBackup' : /\ TagsStay(b.contents.records)
                                  /\ TypesIn(backups' \ OwnBackup', b.contents.records)
        BY <2>1, <2>2, <2>4 DEF TypesInv
      <3>7. DataInv'
        BY <1>2, DataInvKept
      <3> QED
        BY <2>1, <2>4, <3>3, <3>4, <3>5, <3>6, <3>7, TypesOnTheWay
    <2>5. CASE work.stage # "migrating"
      BY <2>1, <2>2, <2>5, TypesAtRest DEF TypesInv
    <2> QED
      BY <2>4, <2>5
  <1> QED
    BY <1>1, <1>2

LEMMA TypesInvInitially ==
  ASSUME UpdateInit
  PROVE  TypesInv
  <1>1. PICK w \in LegacyWallets :
          /\ wallet = [open |-> FALSE, version |-> w.version, records |-> w.records]
          /\ settled = Contents(w)
    BY DEF UpdateInit
  <1>2. wallet.records = w.records /\ settled.records = w.records
    BY <1>1, ContentsAreContents
  <1>3. IdsAreUnique(w.records)
    BY UpdateAssumption
  <1>4. TagsStay(wallet.records) /\ TypesIn(backups, wallet.records)
    BY <1>2, <1>3 DEF TagsStay, TypesIn, IdsAreUnique, OfKind
  <1>5. work.stage = "none"
    BY DEF UpdateInit, NoUpdate
  <1> QED
    BY <1>4, <1>5 DEF TypesInv

\* The migrations: at every write of every record, also of one that is migrated again after
\* a crash or in a backup that was restored, connections find their DIDs and their
\* invitation, and no message of an exchange, open invitation or type of a connection has
\* been lost; but the types may be when an update starts again from a wallet in which they
\* had been moved.
THEOREM MigratedRecordsStayWhole ==
  ASSUME UnsetIsNoWallet, UnsetIsNoTuple
  PROVE  UpdateSpec => []MigratedRecordsAreWhole
  <1> DEFINE Inv == UpdateInv /\ DataInv /\ WholeInv /\ TypesInv
  <1>1. UpdateInit => Inv
    BY UpdateInvInitially, DataInvInitially, WholeInvInitially, TypesInvInitially
  <1>2. Inv /\ [UpdateNext]_updateVars => Inv'
    BY UpdateInvKept, DataInvKept, WholeInvKept, TypesInvKept
  <1>3. Inv => MigratedRecordsAreWhole
    BY DEF WholeInv, WholeRecords, TypesInv, TypesIn, TypesAreKept, MigratedRecordsAreWhole
  <1> QED
    BY <1>1, <1>2, <1>3, PTL DEF UpdateSpec

-------------------------------------------------------------------------------
(* Credentials and presentations as JWTs *)

\* The payloads that are made of a credential: with its content in the claims only, or
\* repeated (ReceiveCredential).
PayloadsOf(c) ==
  LET p == PayloadFromCredential(c) IN
  {p, [p EXCEPT !.vc = c, !.iat = NumericDate(c.issuanceDate)]}

\* What is known of a credential that was signed here: it can be read, and its header names
\* the method.
SignedHere(made) ==
  LET header == made.jwt.header IN
  /\ made.jwt.payload = PayloadFromCredential(made.of)
  /\ CredentialFromPayload(made.jwt.payload) # Missing
  /\ header.kid # Missing /\ header.kid.did # Missing /\ header.jwk = Missing
  /\ CanSign(made.jwt.signedBy, header.alg)

\* The claims of a presentation, which may be repeated (ReceivePresentation).
IsPresentationOf(jwt, presentation) ==
  /\ jwt.payload.iss = presentation.holder
  /\ jwt.payload.vp # Missing => jwt.payload.vp.credentials = presentation.credentials
  /\ presentation.holder \in SignerDids \cup {Missing}

W3cTypes ==
  /\ now \in Nat
  /\ DOMAIN didDocuments = SignerDids
  /\ \A did \in SignerDids : didDocuments[did] \in ToSet(DocumentsOf[did])

JwtsInv ==
  \A made \in jwts :
    IF IsCredential(made)
    THEN /\ made.of \in Credentials /\ PayloadFromCredential(made.of) # Missing
         /\ made.jwt.payload \in PayloadsOf(made.of)
         /\ made.here => SignedHere(made)
    ELSE IsPresentationOf(made.jwt, made.of)

W3cInv == W3cTypes /\ JwtsInv

\* The claims of a payload that is made of a credential.
LEMMA Claims ==
  ASSUME NEW c \in Credentials, PayloadFromCredential(c) # Missing, NEW p \in PayloadsOf(c)
  PROVE  /\ Len(c.subjects) = 1
         /\ p.iss = c.issuer /\ p.jti = c.id /\ p.sub = Head(c.subjects)
         /\ p.nbf = NumericDate(c.issuanceDate) /\ p.nbf # Missing
         /\ p.exp = NumericDate(c.expirationDate)
         /\ p.vc \in {c, WithoutClaims(c)}
         /\ p.iat \in {Missing, p.nbf}
         /\ [PayloadFromCredential(c) EXCEPT !.vc = c, !.iat = NumericDate(c.issuanceDate)].vc = c
  <1>1. Len(c.subjects) = 1 /\ NumericDate(c.issuanceDate) # Missing
    BY DEF PayloadFromCredential
  <1> DEFINE q == PayloadFromCredential(c)
             from == NumericDate(c.issuanceDate)
  <1>2. q = [iss |-> c.issuer, sub |-> Head(c.subjects), aud |-> Missing,
             exp |-> NumericDate(c.expirationDate), nbf |-> from, iat |-> Missing, jti |-> c.id,
             nonce |-> Missing, vc |-> WithoutClaims(c), vp |-> Missing]
    BY <1>1 DEF PayloadFromCredential, NoClaims
  <1>3. p = q \/ p = [q EXCEPT !.vc = c, !.iat = from]
    BY DEF PayloadsOf
  <1> HIDE DEF q
  <1>4. [q EXCEPT !.vc = c, !.iat = from].vc = c
    BY <1>2
  <1>5. CASE p = q
    BY <1>1, <1>2, <1>5
  <1>6. CASE p = [q EXCEPT !.vc = c, !.iat = from]
    <2>1. p = [iss |-> c.issuer, sub |-> Head(c.subjects), aud |-> Missing,
               exp |-> NumericDate(c.expirationDate), nbf |-> from, iat |-> from,
               jti |-> c.id, nonce |-> Missing, vc |-> c, vp |-> Missing]
      BY <1>2, <1>6
    <2> QED
      BY <1>1, <2>1
  <1> QED
    BY <1>1, <1>3, <1>4, <1>5, <1>6 DEF q

\* What is read back is the credential with its dates cut to the second, if it can be read.
LEMMA ReadBack ==
  ASSUME NEW c \in Credentials, PayloadFromCredential(c) # Missing, NEW p \in PayloadsOf(c),
         CredentialFromPayload(p) # Missing
  PROVE  /\ c.issuer # Missing
         /\ p.nbf = c.issuanceDate.seconds /\ p.nbf \in Nat
         /\ IF c.expirationDate = Missing THEN p.exp = Missing
            ELSE p.exp = c.expirationDate.seconds /\ p.exp \in Nat
         /\ CredentialFromPayload(p).status = c.status
         /\ CredentialFromPayload(p) = AsReadBack(c)
  <1> DEFINE until == c.expirationDate
  <1>1. /\ c = [id |-> c.id, issuer |-> c.issuer, issuanceDate |-> c.issuanceDate,
                expirationDate |-> c.expirationDate, subjects |-> c.subjects, status |-> c.status]
        /\ c.subjects \in Seq(ToSet(c.subjects))
        /\ c.issuanceDate \in Dates /\ until \in Dates \cup {Missing}
        /\ Missing \notin Nat /\ Missing \notin Dates
    BY W3cAssumption
  <1>2. c.subjects = <<Head(c.subjects)>>
    BY <1>1, Claims
  <1>3. /\ p.iss = c.issuer /\ p.jti = c.id /\ p.sub = Head(c.subjects)
        /\ p.nbf = NumericDate(c.issuanceDate) /\ p.nbf # Missing /\ p.exp = NumericDate(until)
        /\ p.vc \in {c, WithoutClaims(c)}
    BY Claims
  <1>4. /\ p.iss # Missing /\ AgreesWith(p.vc.expirationDate, p.exp)
        /\ CredentialFromPayload(p) =
             [p.vc EXCEPT !.id = p.jti, !.issuer = p.iss, !.issuanceDate = W3cDate(p.nbf),
                          !.expirationDate = IF p.exp \in {Missing, 0} THEN Missing ELSE W3cDate(p.exp),
                          !.subjects = <<p.sub>>]
    BY DEF CredentialFromPayload
  <1>5. \A date \in Dates : date.seconds \in Nat
    BY DEF Dates
  <1>6. p.nbf = c.issuanceDate.seconds
    BY <1>3 DEF NumericDate
  <1>7. until # Missing => until.written # "unreadable"
    <2> SUFFICES ASSUME until # Missing, until.written = "unreadable" PROVE FALSE
      OBVIOUS
    <2>1. NumericDate(until) = Missing
      BY DEF NumericDate
    <2>2. WithoutClaims(c).expirationDate = until
      BY <1>1, <2>1 DEF WithoutClaims
    <2>3. p.vc.expirationDate = until
      BY <1>3, <2>2
    <2> QED
      BY <1>4, <2>3 DEF AgreesWith
  <1>8. IF until = Missing THEN p.exp = Missing ELSE p.exp = until.seconds /\ p.exp \in Nat
    BY <1>1, <1>3, <1>5, <1>7 DEF NumericDate
  <1> DEFINE end == IF p.exp \in {Missing, 0} THEN Missing ELSE W3cDate(p.exp)
             whole == [id |-> c.id, issuer |-> c.issuer, issuanceDate |-> W3cDate(p.nbf),
                       expirationDate |-> end, subjects |-> <<Head(c.subjects)>>,
                       status |-> c.status]
  <1>9. CredentialFromPayload(p) = whole
    <2> DEFINE F == {"id", "issuer", "issuanceDate", "expirationDate", "subjects", "status"}
    <2>1. PICK vc : vc = p.vc
      OBVIOUS
    <2>2. vc = [id |-> vc.id, issuer |-> vc.issuer, issuanceDate |-> vc.issuanceDate,
                expirationDate |-> vc.expirationDate, subjects |-> vc.subjects,
                status |-> c.status]
      <3>1. CASE vc = c
        BY <1>1, <3>1
      <3>2. CASE vc = WithoutClaims(c)
        <4>1. PICK kept : kept = IF NumericDate(until) = Missing THEN until ELSE Missing
          OBVIOUS
        <4>2. WithoutClaims(c) =
                [c EXCEPT !.id = Missing, !.issuer = Missing, !.issuanceDate = Missing,
                          !.expirationDate = kept, !.subjects = <<Missing>>]
          BY <4>1 DEF WithoutClaims
        <4> DEFINE none == <<Missing>>
        <4> HIDE DEF none
        <4>3. vc = [f \in F |-> vc[f]] /\ vc.status = c.status
          <5>1. c = [f \in F |-> c[f]]
            BY <1>1
          <5> QED
            BY <3>2, <4>2, <5>1 DEF none
        <4> QED
          BY <4>3
      <3> QED
        BY <1>3, <2>1, <3>1, <3>2
    <2> DEFINE subjects == <<Head(c.subjects)>>
               start == W3cDate(p.nbf)
    <2>3. CredentialFromPayload(p) =
            [vc EXCEPT !.id = c.id, !.issuer = c.issuer, !.issuanceDate = start,
                       !.expirationDate = end, !.subjects = subjects]
      BY <1>3, <1>4, <2>1
    <2> HIDE DEF end, subjects, start
    <2>4. CredentialFromPayload(p) =
            [id |-> c.id, issuer |-> c.issuer, issuanceDate |-> start, expirationDate |-> end,
             subjects |-> subjects, status |-> c.status]
      <3> DEFINE new == [vc EXCEPT !.id = c.id, !.issuer = c.issuer, !.issuanceDate = start,
                                   !.expirationDate = end, !.subjects = subjects]
      <3>1. vc = [f \in F |-> vc[f]] /\ vc.status = c.status
        BY <2>2
      <3>2. /\ new = [f \in F |-> new[f]] /\ new.id = c.id /\ new.issuer = c.issuer
            /\ new.issuanceDate = start /\ new.expirationDate = end /\ new.subjects = subjects
            /\ new.status = c.status
        BY <3>1
      <3>3. CredentialFromPayload(p) = new
        BY <2>3
      <3> HIDE DEF new
      <3> QED
        BY <3>2, <3>3
    <2> QED
      BY <2>4 DEF subjects, start
  <1>10. whole = AsReadBack(c)
    <2> DEFINE last == IF until = Missing \/ until.seconds = 0 THEN Missing
                       ELSE W3cDate(until.seconds)
               first == W3cDate(c.issuanceDate.seconds)
    <2>1. end = last
      BY <1>1, <1>8
    <2>2. AsReadBack(c) = [c EXCEPT !.issuanceDate = first, !.expirationDate = last]
      BY DEF AsReadBack
    <2> HIDE DEF end, last, first
    <2>3. AsReadBack(c) = [id |-> c.id, issuer |-> c.issuer, issuanceDate |-> first,
                           expirationDate |-> last, subjects |-> c.subjects, status |-> c.status]
      BY <1>1, <2>2
    <2>4. W3cDate(p.nbf) = first
      BY <1>6 DEF first
    <2> QED
      BY <1>2, <2>1, <2>3, <2>4
  <1>11. whole.status = c.status
    OBVIOUS
  <1> HIDE DEF whole
  <1> QED
    BY <1>1, <1>3, <1>4, <1>5, <1>6, <1>8, <1>9, <1>10, <1>11

LEMMA W3cInvInitially == W3cInit => W3cInv
  <1> SUFFICES ASSUME W3cInit PROVE W3cInv
    OBVIOUS
  <1>1. ASSUME NEW did \in SignerDids PROVE Head(DocumentsOf[did]) \in ToSet(DocumentsOf[did])
    <2> DEFINE S == ToSet(DocumentsOf[did])
    <2>1. DocumentsOf[did] # <<>> /\ DocumentsOf[did] \in Seq(S)
      BY W3cAssumption
    <2> HIDE DEF S
    <2>2. Head(DocumentsOf[did]) \in S
      BY <2>1
    <2> QED
      BY <2>2 DEF S
  <1> QED
    BY <1>1 DEF W3cInit, W3cInv, W3cTypes, JwtsInv

\* A key that signs comes from a method with an absolute id.
LEMMA SignersHaveIds ==
  ASSUME W3cTypes, NEW did \in SignerDids, NEW id \in MethodIds(did, "assertionMethod"),
         NEW purposes,
         KeyFromVerificationMethod(ResolveVerificationMethod(id, purposes)) # Missing
  PROVE  id # Missing /\ id.did # Missing
  <1>1. id # Missing
    BY W3cAssumption DEF MethodIds, W3cTypes
  <1>2. id.did \in SignerDids
    BY DEF KeyFromVerificationMethod, ResolveVerificationMethod
  <1> QED
    BY <1>1, <1>2, W3cAssumption

\* One more JWT leaves the others as they are.
LEMMA MakeKeeps ==
  ASSUME W3cInv, NEW jwt, NEW of, NEW here, Make(jwt, of, here),
         LET made == [jwt |-> jwt, of |-> of, here |-> here] IN
         IF IsCredential(made)
         THEN /\ of \in Credentials /\ PayloadFromCredential(of) # Missing
              /\ jwt.payload \in PayloadsOf(of)
              /\ here => SignedHere(made)
         ELSE IsPresentationOf(jwt, of)
  PROVE  W3cInv'
  <1>1. W3cTypes'
    BY DEF W3cInv, W3cTypes, Make
  <1>2. JwtsInv'
    BY DEF W3cInv, JwtsInv, Make
  <1> QED
    BY <1>1, <1>2 DEF W3cInv

LEMMA SignCredentialKeeps ==
  ASSUME W3cInv, SignCredential
  PROVE  W3cInv'
  <1>1. PICK c \in Credentials, did \in SignerDids, alg \in Algorithms :
          \E id \in MethodIds(did, "assertionMethod") :
          LET key == KeyFromVerificationMethod(ResolveVerificationMethod(id, <<"assertionMethod">>))
              payload == PayloadFromCredential(c)
          IN  /\ payload # Missing /\ CanSign(key, alg)
              /\ CredentialFromPayload(payload) # Missing
              /\ Make(Jwt(alg, id, Missing, payload, key), c, TRUE)
    BY DEF SignCredential
  <1>2. PICK id \in MethodIds(did, "assertionMethod") :
          LET key == KeyFromVerificationMethod(ResolveVerificationMethod(id, <<"assertionMethod">>))
              payload == PayloadFromCredential(c)
          IN  /\ payload # Missing /\ CanSign(key, alg)
              /\ CredentialFromPayload(payload) # Missing
              /\ Make(Jwt(alg, id, Missing, payload, key), c, TRUE)
    BY <1>1
  <1> DEFINE key == KeyFromVerificationMethod(ResolveVerificationMethod(id, <<"assertionMethod">>))
             jwt == Jwt(alg, id, Missing, PayloadFromCredential(c), key)
             made == [jwt |-> jwt, of |-> c, here |-> TRUE]
  <1>3. id # Missing /\ id.did # Missing
    BY <1>2, SignersHaveIds DEF W3cInv, CanSign
  <1>4. /\ jwt.payload = PayloadFromCredential(c) /\ jwt.signedBy = key
        /\ jwt.header.alg = alg /\ jwt.header.kid = id /\ jwt.header.jwk = Missing
    BY DEF Jwt
  <1>5. PayloadFromCredential(c).vc # Missing
    BY <1>2 DEF CredentialFromPayload
  <1> HIDE DEF jwt
  <1>6. SignedHere(made)
    BY <1>2, <1>3, <1>4 DEF SignedHere
  <1>7. jwt.payload \in PayloadsOf(c)
    BY <1>4 DEF PayloadsOf
  <1>8. IsCredential(made)
    BY <1>4, <1>5 DEF IsCredential
  <1>9. Make(jwt, c, TRUE) /\ PayloadFromCredential(c) # Missing
    BY <1>2 DEF jwt
  <1> QED
    BY <1>6, <1>7, <1>8, <1>9, MakeKeeps

LEMMA ReceiveCredentialKeeps ==
  ASSUME W3cInv, ReceiveCredential
  PROVE  W3cInv'
  <1> DEFINE Repeated(c) ==
               [PayloadFromCredential(c) EXCEPT !.vc = c, !.iat = NumericDate(c.issuanceDate)]
  <1>0. PICK c \in Credentials :
          /\ PayloadFromCredential(c) # Missing
          /\ \E header, id, key : Make(JwtOfOthers(header, id, Repeated(c), key), c, FALSE)
    BY DEF ReceiveCredential
  <1>1. PICK header, id, key : Make(JwtOfOthers(header, id, Repeated(c), key), c, FALSE)
    BY <1>0
  <1> DEFINE payload == Repeated(c)
             jwt == JwtOfOthers(header, id, payload, key)
             made == [jwt |-> jwt, of |-> c, here |-> FALSE]
  <1>2. payload \in PayloadsOf(c)
    BY DEF PayloadsOf
  <1>3. payload.vc = c /\ c # Missing
    BY <1>0, <1>2, Claims, W3cAssumption
  <1> HIDE DEF payload
  <1>4. jwt.payload = payload
    BY DEF JwtOfOthers, Jwt
  <1> HIDE DEF jwt
  <1>5. IsCredential(made)
    BY <1>3, <1>4 DEF IsCredential
  <1>6. Make(jwt, c, FALSE)
    BY <1>1 DEF jwt, payload
  <1> QED
    BY <1>0, <1>2, <1>4, <1>5, <1>6, MakeKeeps

\* A presentation is kept whoever has signed it.
LEMMA PresentationKeeps ==
  ASSUME W3cInv, NEW holder \in SignerDids \cup {Missing}, NEW vc, NEW options, NEW vp, NEW jwt, NEW here,
         LET presentation == [id |-> Missing, holder |-> holder, credentials |-> <<vc>>] IN
         /\ vp = presentation \/ vp = [presentation EXCEPT !.id = Missing, !.holder = Missing]
         /\ jwt.payload = [PayloadFromPresentation(presentation, options) EXCEPT !.vp = vp]
         /\ Make(jwt, presentation, here)
  PROVE  W3cInv'
  <1> DEFINE contents == <<vc>>
             presentation == [id |-> Missing, holder |-> holder, credentials |-> contents]
             made == [jwt |-> jwt, of |-> presentation, here |-> here]
  <1> HIDE DEF contents
  <1>1. /\ vp = presentation \/ vp = [presentation EXCEPT !.id = Missing, !.holder = Missing]
        /\ jwt.payload = [PayloadFromPresentation(presentation, options) EXCEPT !.vp = vp]
        /\ Make(jwt, presentation, here)
    BY DEF contents
  <1>2. presentation.holder = holder /\ presentation.credentials = contents /\ vp.credentials = contents
    <2>1. presentation.holder = holder /\ presentation.credentials = contents
      OBVIOUS
    <2>2. [presentation EXCEPT !.id = Missing, !.holder = Missing].credentials = contents
      OBVIOUS
    <2> HIDE DEF presentation
    <2>3. vp = presentation \/ vp = [presentation EXCEPT !.id = Missing, !.holder = Missing]
      BY <1>1
    <2> QED
      BY <2>1, <2>2, <2>3
  <1> HIDE DEF presentation
  <1>3. jwt.payload.vc = Missing /\ jwt.payload.iss = holder /\ jwt.payload.vp = vp
    BY <1>1, <1>2 DEF PayloadFromPresentation, NoClaims
  <1>4. IsPresentationOf(jwt, presentation)
    BY <1>2, <1>3 DEF IsPresentationOf
  <1>5. ~IsCredential(made)
    BY <1>3 DEF IsCredential
  <1> QED
    BY <1>1, <1>4, <1>5, MakeKeeps

LEMMA SignPresentationKeeps ==
  ASSUME W3cInv, SignPresentation
  PROVE  W3cInv'
  <1> DEFINE Of(h, c) == [id |-> Missing, holder |-> h, credentials |-> <<c>>]
             Of0(h, c) == [Of(h, c) EXCEPT !.id = Missing, !.holder = Missing]
  <1>1. PICK holder \in SignerDids \cup {Missing}, options \in Challenges :
          \E vc, id, alg, key :
            Make(Jwt(alg, id, Missing, PayloadFromPresentation(Of(holder, vc), options), key),
                 Of(holder, vc), TRUE)
    BY DEF SignPresentation
  <1>2. PICK vc, id, alg, key :
            Make(Jwt(alg, id, Missing, PayloadFromPresentation(Of(holder, vc), options), key),
                 Of(holder, vc), TRUE)
    BY <1>1
  <1>3. PayloadFromPresentation(Of(holder, vc), options) =
          [PayloadFromPresentation(Of(holder, vc), options) EXCEPT !.vp = Of0(holder, vc)]
    <2> HIDE DEF Of
    <2> QED
      BY DEF PayloadFromPresentation, NoClaims
  <1> DEFINE jwt == Jwt(alg, id, Missing, PayloadFromPresentation(Of(holder, vc), options), key)
  <1>4. jwt.payload = PayloadFromPresentation(Of(holder, vc), options)
    BY DEF Jwt
  <1> HIDE DEF jwt
  <1>5. Make(jwt, Of(holder, vc), TRUE)
    BY <1>2 DEF jwt
  <1> QED
    BY <1>3, <1>4, <1>5, PresentationKeeps

LEMMA ReceivePresentationKeeps ==
  ASSUME W3cInv, ReceivePresentation
  PROVE  W3cInv'
  <1> DEFINE Of(h, c) == [id |-> Missing, holder |-> h, credentials |-> <<c>>]
             Repeated(h, c, o) == [PayloadFromPresentation(Of(h, c), o) EXCEPT !.vp = Of(h, c)]
  <1>1. PICK holder \in SignerDids \cup {Missing}, options \in Challenges :
          \E vc, header, id, key :
            Make(JwtOfOthers(header, id, Repeated(holder, vc, options), key), Of(holder, vc), FALSE)
    BY DEF ReceivePresentation
  <1>2. PICK vc, header, id, key :
            Make(JwtOfOthers(header, id, Repeated(holder, vc, options), key), Of(holder, vc), FALSE)
    BY <1>1
  <1> DEFINE jwt == JwtOfOthers(header, id, Repeated(holder, vc, options), key)
  <1>3. jwt.payload = Repeated(holder, vc, options)
    BY DEF JwtOfOthers, Jwt
  <1> HIDE DEF jwt
  <1>4. Make(jwt, Of(holder, vc), FALSE)
    BY <1>2 DEF jwt
  <1> QED
    BY <1>3, <1>4, PresentationKeeps

LEMMA W3cInvKept == W3cInv /\ [W3cNext]_w3cVars => W3cInv'
  <1> SUFFICES ASSUME W3cInv, [W3cNext]_w3cVars PROVE W3cInv'
    OBVIOUS
  <1>1. CASE Tick
    BY <1>1 DEF Tick, W3cInv, W3cTypes, JwtsInv
  <1>2. CASE Rotate
    BY <1>2 DEF Rotate, W3cInv, W3cTypes, JwtsInv
  <1>3. CASE UNCHANGED w3cVars
    BY <1>3 DEF w3cVars, W3cInv, W3cTypes, JwtsInv
  <1> QED
    BY <1>1, <1>2, <1>3, SignCredentialKeeps, ReceiveCredentialKeeps, SignPresentationKeeps,
       ReceivePresentationKeeps
    DEF W3cNext

\* A method that is found under a purpose is one of those under it.
LEMMA FoundIsUnder ==
  ASSUME NEW doc, NEW id, NEW p, doc.purposes[p] \in Seq(ToSet(doc.purposes[p])),
         DereferenceKey(doc, id, <<p>>) # Missing
  PROVE  \E k \in DOMAIN doc.purposes[p] :
           DereferenceKey(doc, id, <<p>>) = Dereferenced(doc, doc.purposes[p][k])
  <1> DEFINE s == doc.purposes[p]
             I == {i \in 1 .. Len(s) : EndsWith(s[i].id, id)}
             Under(q) == FirstWhere(doc.purposes[q], LAMBDA e : EndsWith(e.id, id))
             J == {j \in 1 .. Len(<<p>>) : Under(<<p>>[j]) # Missing}
  <1>1. DereferenceKey(doc, id, <<p>>) =
          LET purpose == IF J = {} THEN Missing ELSE <<p>>[Min(J)]
          IN  IF purpose = Missing THEN Missing ELSE Dereferenced(doc, Under(purpose))
    <2>1. Min(J) = 0 => J = {}
      <3>1. J \subseteq Nat /\ 0 \notin J
        <4> HIDE DEF Under
        <4> QED
          OBVIOUS
      <3> HIDE DEF J
      <3> QED
        BY <3>1, LeastIsElement
    <2> QED
      BY <2>1 DEF DereferenceKey, FirstWhere, SelectInSeq
  <1>2. J # {} /\ Min(J) = 1 /\ Under(p) # Missing
    <2>1. J # {}
      BY <1>1
    <2> HIDE DEF Under
    <2>2. J \subseteq {1}
      OBVIOUS
    <2>3. Min(J) \in J
      <3>1. J \subseteq Nat
        BY <2>2
      <3> HIDE DEF J
      <3> QED
        BY <2>1, <3>1, LeastIsElement
    <2> QED
      BY <2>1, <2>2, <2>3
  <1>3. DereferenceKey(doc, id, <<p>>) = Dereferenced(doc, Under(p))
    <2> HIDE DEF J, Under
    <2> QED
      BY <1>1, <1>2
  <1>4. Under(p) = LET k == IF I # {} THEN Min(I) ELSE 0 IN IF k = 0 THEN Missing ELSE s[k]
    BY DEF FirstWhere, SelectInSeq
  <1>5. I # {}
    BY <1>2, <1>4
  <1>6. Min(I) \in I
    <2>1. I \subseteq Nat
      OBVIOUS
    <2> HIDE DEF I
    <2> QED
      BY <1>5, <2>1, LeastIsElement
  <1>7. Min(I) \in DOMAIN s /\ Min(I) # 0
    <2>1. DOMAIN s = 1 .. Len(s)
      OBVIOUS
    <2> QED
      BY <1>6, <2>1
  <1>8. Under(p) = s[Min(I)]
    BY <1>4, <1>5, <1>7
  <1> QED
    BY <1>3, <1>7, <1>8

LEMMA ResolvedIsUnder ==
  ASSUME W3cTypes, NEW p \in Purposes, NEW id, ResolveVerificationMethod(id, <<p>>) # Missing
  PROVE  /\ id.did \in SignerDids
         /\ LET doc == didDocuments[id.did] IN
            \E k \in DOMAIN doc.purposes[p] :
              ResolveVerificationMethod(id, <<p>>) = Dereferenced(doc, doc.purposes[p][k])
  <1>1. id.did \in SignerDids
        /\ ResolveVerificationMethod(id, <<p>>) = DereferenceKey(didDocuments[id.did], id, <<p>>)
    BY DEF ResolveVerificationMethod
  <1> DEFINE doc == didDocuments[id.did]
  <1>2. doc.purposes[p] \in Seq(ToSet(doc.purposes[p]))
    BY <1>1, W3cAssumption DEF W3cTypes
  <1> HIDE DEF doc
  <1>3. \E k \in DOMAIN doc.purposes[p] :
          DereferenceKey(doc, id, <<p>>) = Dereferenced(doc, doc.purposes[p][k])
    BY <1>1, <1>2, FoundIsUnder DEF doc
  <1> QED
    BY <1>1, <1>3 DEF doc

LEMMA OnlyMethodIsUnder ==
  ASSUME NEW did, NEW alg, OnlyMethodFor(did, alg) # Missing
  PROVE  LET doc == didDocuments[did] IN
         \E k \in DOMAIN doc.purposes["assertionMethod"] :
           OnlyMethodFor(did, alg) = Dereferenced(doc, doc.purposes["assertionMethod"][k])
  <1> DEFINE doc == didDocuments[did]
             entries == doc.purposes["assertionMethod"]
             types == ToSet(SupportedVerificationMethodTypes(KeyTypeFor(alg)))
             usable == {k \in DOMAIN entries : Dereferenced(doc, entries[k]).type \in types}
  <1>1. Cardinality(usable) = 1
        /\ OnlyMethodFor(did, alg) = Dereferenced(doc, entries[CHOOSE k \in usable : TRUE])
    BY DEF OnlyMethodFor
  <1>2. usable # {}
    <2> HIDE DEF usable
    <2> QED
      BY <1>1, FS_EmptySet
  <1>3. (CHOOSE k \in usable : TRUE) \in DOMAIN entries
    BY <1>2
  <1> HIDE DEF usable
  <1> QED
    BY <1>1, <1>3

\* The method that a signature is verified with is of the issuer, if that is known.
LEMMA IssuerHasMethod ==
  ASSUME W3cTypes, NEW jwt, jwt.payload.iss # Missing,
         VerificationMethodForJwt(jwt, <<"assertionMethod">>) # Missing
  PROVE  KeyFromVerificationMethod(VerificationMethodForJwt(jwt, <<"assertionMethod">>))
           \in KeysFor(jwt.payload.iss, "assertionMethod")
  <1> DEFINE signer == jwt.payload.iss
             kid == jwt.header.kid
             doc == didDocuments[signer]
             m == VerificationMethodForJwt(jwt, <<"assertionMethod">>)
  <1>1. \E k \in DOMAIN doc.purposes["assertionMethod"] :
          m = Dereferenced(doc, doc.purposes["assertionMethod"][k])
    <2>1. CASE kid = Missing
      <3>1. m = OnlyMethodFor(signer, jwt.header.alg)
        BY <2>1 DEF VerificationMethodForJwt
      <3> HIDE DEF m
      <3> QED
        BY <3>1, OnlyMethodIsUnder DEF m
    <2>2. ASSUME NEW id, id.did = signer, m = ResolveVerificationMethod(id, <<"assertionMethod">>)
          PROVE  \E k \in DOMAIN doc.purposes["assertionMethod"] :
                   m = Dereferenced(doc, doc.purposes["assertionMethod"][k])
      <3> HIDE DEF m
      <3>1. "assertionMethod" \in Purposes /\ m # Missing
        BY DEF Purposes, m
      <3> QED
        BY <2>2, <3>1, ResolvedIsUnder
    <2>3. CASE kid # Missing /\ kid.did = Relative
      <3>1. m = ResolveVerificationMethod(IdOf(signer, kid.fragment), <<"assertionMethod">>)
        BY <2>3 DEF VerificationMethodForJwt
      <3>2. IdOf(signer, kid.fragment).did = signer
        BY DEF IdOf
      <3> QED
        BY <2>2, <3>1, <3>2
    <2>4. CASE kid # Missing /\ kid.did # Relative
      <3>1. kid.did = signer /\ m = ResolveVerificationMethod(kid, <<"assertionMethod">>)
        BY <2>4 DEF VerificationMethodForJwt
      <3> QED
        BY <2>2, <3>1
    <2> QED
      BY <2>1, <2>3, <2>4
  <1> HIDE DEF m
  <1> QED
    BY <1>1 DEF KeysFor, m

\* A credential that verifies is signed with a key of its issuer, and is in its time.
LEMMA CredentialIsSigned ==
  ASSUME W3cInv, NEW made \in jwts, IsCredential(made), VerifyCredential(made.jwt, TRUE)
  PROVE  /\ made.jwt.signedBy \in KeysFor(made.of.issuer, "assertionMethod")
         /\ made.of.issuanceDate.seconds - Skew <= now
         /\ made.of.expirationDate # Missing => now <= made.of.expirationDate.seconds + Skew
         /\ ~made.of.status
  <1> DEFINE jwt == made.jwt
             c == made.of
             method == VerificationMethodForJwt(jwt, <<"assertionMethod">>)
             key == KeyFromVerificationMethod(method)
  <1>1. /\ c \in Credentials /\ PayloadFromCredential(c) # Missing
        /\ jwt.payload \in PayloadsOf(c)
    BY DEF W3cInv, JwtsInv
  <1>2. /\ CredentialFromPayload(jwt.payload) # Missing /\ Validate(jwt.payload)
        /\ key # Missing /\ key \in VerifyJws(jwt, key)
        /\ ~CredentialFromPayload(jwt.payload).status
    BY DEF VerifyCredential
  <1>3. jwt.payload.iss = c.issuer /\ c.issuer # Missing
    BY <1>1, <1>2, Claims, ReadBack
  <1>4. jwt.signedBy = key /\ method # Missing
    BY <1>2 DEF VerifyJws, KeyFromVerificationMethod
  <1>5. key \in KeysFor(c.issuer, "assertionMethod")
    BY <1>3, <1>4, IssuerHasMethod DEF W3cInv
  <1>6. ~c.status
    BY <1>1, <1>2, ReadBack
  <1>7. /\ c.issuanceDate.seconds - Skew <= now
        /\ c.expirationDate # Missing => now <= c.expirationDate.seconds + Skew
    <2>1. Missing \notin Nat /\ now \in Nat /\ Skew \in Nat
      BY W3cAssumption, W3cBounds DEF W3cInv, W3cTypes
    <2>2. PICK p : p = jwt.payload
      OBVIOUS
    <2>3. /\ p.nbf = c.issuanceDate.seconds /\ p.nbf \in Nat
          /\ c.expirationDate # Missing => p.exp = c.expirationDate.seconds /\ p.exp \in Nat
      BY <1>1, <1>2, <2>2, ReadBack
    <2>4. p.nbf <= now + Skew /\ (c.expirationDate # Missing => p.exp >= now - Skew)
      BY <1>2, <2>1, <2>2, <2>3 DEF Validate
    <2>5. p.nbf - Skew <= now /\ (c.expirationDate # Missing => now <= p.exp + Skew)
      BY <2>1, <2>3, <2>4
    <2> QED
      BY <2>3, <2>5
  <1> QED
    BY <1>4, <1>5, <1>6, <1>7

\* A method of a DID for a purpose is one of those that control its key for it.
LEMMA MethodControls ==
  ASSUME NEW did \in SignerDids, NEW p, NEW method,
         LET doc == didDocuments[did] IN
         \E k \in DOMAIN doc.purposes[p] : method = Dereferenced(doc, doc.purposes[p][k])
  PROVE  method.controller \in ControllersOf(method.key, p)
  <1> DEFINE Methods(d) == {Dereferenced(d, d.purposes[p][k]) : k \in DOMAIN d.purposes[p]}
             all == UNION {Methods(didDocuments[x]) : x \in SignerDids}
  <1>1. method \in Methods(didDocuments[did])
    OBVIOUS
  <1>2. method \in all
    <2> HIDE DEF Methods
    <2> QED
      BY <1>1
  <1>3. ControllersOf(method.key, p) = {m.controller : m \in {x \in all : x.key = method.key}}
    BY DEF ControllersOf
  <1> HIDE DEF all
  <1> QED
    BY <1>2, <1>3

\* What is looked up for a presentation.
LEMMA PresentersMethod ==
  ASSUME W3cTypes, NEW jwt, jwt.payload.iss \in SignerDids \cup {Missing},
         VerificationMethodForJwt(jwt, <<"authentication">>) # Missing
  PROVE  LET method == VerificationMethodForJwt(jwt, <<"authentication">>)
             purpose == IF jwt.header.kid = Missing THEN "assertionMethod" ELSE "authentication"
         IN  /\ method.controller \in ControllersOf(method.key, purpose)
             /\ jwt.payload.iss \in {Missing, method.controller}
             /\ jwt.header.kid = Missing => jwt.payload.iss # Missing
  <1> DEFINE method == VerificationMethodForJwt(jwt, <<"authentication">>)
             kid == jwt.header.kid
             signer == jwt.payload.iss
  <1>1. signer \in {Missing, method.controller}
    BY DEF VerificationMethodForJwt
  <1>2. kid = Missing => signer # Missing
    BY DEF VerificationMethodForJwt
  <1>3. CASE kid = Missing
    <2>1. method = OnlyMethodFor(signer, jwt.header.alg)
      BY <1>3 DEF VerificationMethodForJwt
    <2>2. method # Missing /\ signer \in SignerDids
      BY <1>2, <1>3
    <2> HIDE DEF method
    <2>3. LET doc == didDocuments[signer] IN
          \E k \in DOMAIN doc.purposes["assertionMethod"] :
            method = Dereferenced(doc, doc.purposes["assertionMethod"][k])
      BY <2>1, <2>2, OnlyMethodIsUnder
    <2>4. method.controller \in ControllersOf(method.key, "assertionMethod")
      BY <2>2, <2>3, MethodControls
    <2> QED
      BY <1>1, <1>2, <1>3, <2>4 DEF method
  <1>4. CASE kid # Missing
    <2>1. \E id : method = ResolveVerificationMethod(id, <<"authentication">>)
      BY <1>4 DEF VerificationMethodForJwt
    <2>2. method # Missing /\ "authentication" \in Purposes
      BY DEF Purposes
    <2> HIDE DEF method
    <2>3. PICK id : method = ResolveVerificationMethod(id, <<"authentication">>)
      BY <2>1
    <2>4. /\ id.did \in SignerDids
          /\ LET doc == didDocuments[id.did] IN
             \E k \in DOMAIN doc.purposes["authentication"] :
               method = Dereferenced(doc, doc.purposes["authentication"][k])
      BY <2>2, <2>3, ResolvedIsUnder
    <2>5. method.controller \in ControllersOf(method.key, "authentication")
      BY <2>4, MethodControls
    <2> QED
      BY <1>1, <1>4, <2>5 DEF method
  <1> QED
    BY <1>3, <1>4

\* A presentation that verifies is signed by one who controls the key, or names a key and
\* the one it is of, and presents valid credentials about that one.
LEMMA PresentationIsSigned ==
  ASSUME W3cInv, NEW made \in jwts, ~IsCredential(made), NEW options \in Challenges,
         VerifyPresentation(made.jwt, options)
  PROVE  \E holder \in Signatories(made.jwt) :
           /\ made.of.holder \in {Missing, holder}
           /\ made.jwt.payload.nonce = options.challenge
           /\ \A k \in DOMAIN made.of.credentials :
                LET vc == made.of.credentials[k] IN
                /\ VerifyCredential(vc, TRUE)
                /\ Head(CredentialFromPayload(vc.payload).subjects) \in {Missing, holder}
  <1> DEFINE jwt == made.jwt
             kid == jwt.header.kid
             read == PresentationFromPayload(jwt.payload)
             method == VerificationMethodForJwt(jwt, <<"authentication">>)
             key == KeyFromVerificationMethod(method)
             purpose == IF kid = Missing THEN "assertionMethod" ELSE "authentication"
  <1>1. IsPresentationOf(jwt, made.of)
    BY DEF W3cInv, JwtsInv
  <1>2. /\ read # Missing /\ jwt.payload.nonce = options.challenge
        /\ key # Missing /\ VerifyJws(jwt, key) # {}
        /\ read.holder \in {Missing, method.controller}
        /\ \A k \in DOMAIN read.credentials :
             /\ VerifyCredential(read.credentials[k], TRUE)
             /\ Head(CredentialFromPayload(read.credentials[k].payload).subjects)
                  \in {Missing, method.controller}
    BY DEF VerifyPresentation
  <1>3. read.credentials = made.of.credentials
    <2>1. /\ jwt.payload.vp # Missing
          /\ read = [jwt.payload.vp EXCEPT !.id = jwt.payload.jti, !.holder = jwt.payload.iss]
      BY <1>2 DEF PresentationFromPayload
    <2>2. jwt.payload.vp.credentials = made.of.credentials
      BY <1>1, <2>1 DEF IsPresentationOf
    <2> HIDE DEF read
    <2> QED
      BY <2>1, <2>2
  <1>4. method # Missing /\ key = method.key
    BY <1>2 DEF KeyFromVerificationMethod
  <1>5. /\ method.controller \in ControllersOf(method.key, purpose)
        /\ jwt.payload.iss \in {Missing, method.controller}
        /\ kid = Missing => jwt.payload.iss # Missing
    BY <1>1, <1>4, PresentersMethod DEF IsPresentationOf, W3cInv
  <1>6. made.of.holder \in {Missing, method.controller}
    BY <1>1, <1>5 DEF IsPresentationOf
  <1> HIDE DEF read, method
  <1>7. method.controller \in Signatories(jwt)
    <2>1. Missing \in {jwt.header.jwk, kid}
      BY <1>2 DEF VerifyJws
    <2>2. CASE jwt.header.jwk # Missing
      BY <1>5, <2>1, <2>2 DEF Signatories
    <2>3. CASE jwt.header.jwk = Missing
      <3>1. jwt.signedBy = method.key
        BY <1>2, <1>4, <2>3 DEF VerifyJws
      <3> QED
        BY <1>5, <2>3, <3>1 DEF Signatories
    <2> QED
      BY <2>2, <2>3
  <1> QED
    BY <1>2, <1>3, <1>6, <1>7

\* A credential signed here reads back as it was given but for its dates, and verifies
\* exactly as long as its method has the key.
LEMMA SignedVerifies ==
  ASSUME W3cInv, NEW made \in jwts, IsCredential(made), made.here
  PROVE  LET credential == made.of
             kid == made.jwt.header.kid
             method == ResolveVerificationMethod(kid, <<"assertionMethod">>)
             from == credential.issuanceDate.seconds
             until == credential.expirationDate
             inTime == from <= now + Skew /\ (until # Missing => now - Skew <= until.seconds)
         IN  /\ CredentialFromPayload(made.jwt.payload) = AsReadBack(credential)
             /\ VerifyCredential(made.jwt, TRUE) <=>
                  /\ inTime /\ ~credential.status
                  /\ KeyFromVerificationMethod(method) = made.jwt.signedBy
                  /\ credential.issuer = kid.did /\ credential.issuer = method.controller
  <1> DEFINE jwt == made.jwt
             c == made.of
             kid == jwt.header.kid
             method == ResolveVerificationMethod(kid, <<"assertionMethod">>)
             used == VerificationMethodForJwt(jwt, <<"assertionMethod">>)
             until == c.expirationDate
             inTime == /\ c.issuanceDate.seconds <= now + Skew
                       /\ until # Missing => now - Skew <= until.seconds
  <1>1. /\ c \in Credentials /\ PayloadFromCredential(c) # Missing
        /\ jwt.payload \in PayloadsOf(c) /\ SignedHere(made)
    BY DEF W3cInv, JwtsInv
  <1>2. CredentialFromPayload(jwt.payload) # Missing
    BY <1>1 DEF SignedHere
  <1>3. /\ CredentialFromPayload(jwt.payload) = AsReadBack(c) /\ c.issuer # Missing
        /\ CredentialFromPayload(jwt.payload).status = c.status
    BY <1>1, <1>2, ReadBack
  <1>4. jwt.payload.iss = c.issuer
    BY <1>1, Claims
  <1>5. Validate(jwt.payload) <=> inTime
    <2>1. Missing \notin Nat /\ now \in Nat /\ Skew \in Nat
      BY W3cAssumption, W3cBounds DEF W3cInv, W3cTypes
    <2>2. PICK p : p = jwt.payload
      OBVIOUS
    <2>3. /\ p.nbf = c.issuanceDate.seconds /\ p.nbf \in Nat
          /\ IF until = Missing THEN p.exp = Missing ELSE p.exp = until.seconds /\ p.exp \in Nat
      BY <1>1, <1>2, <2>2, ReadBack
    <2>4. p.iat \in {Missing, p.nbf}
      BY <1>1, <2>2, Claims
    <2> HIDE DEF until
    <2>5. Validate(p) <=> /\ p.nbf <= now + Skew
                          /\ until # Missing => p.exp >= now - Skew
      BY <2>1, <2>3, <2>4 DEF Validate
    <2>6. inTime <=> /\ p.nbf <= now + Skew
                     /\ until # Missing => now - Skew <= p.exp
      BY <2>3
    <2>7. until # Missing => (p.exp >= now - Skew <=> now - Skew <= p.exp)
      BY <2>1, <2>3
    <2> QED
      BY <2>2, <2>5, <2>6, <2>7
  <1>6. used = IF c.issuer = kid.did /\ method # Missing /\ c.issuer = method.controller
               THEN method ELSE Missing
    BY <1>1, <1>3, <1>4 DEF VerificationMethodForJwt, SignedHere, Relative
  <1>7. CanSign(jwt.signedBy, jwt.header.alg) /\ jwt.header.jwk = Missing
    BY <1>1 DEF SignedHere
  <1>8. \A key : key # Missing /\ HasJwk(key) /\ key \in VerifyJws(jwt, key) <=> key = jwt.signedBy
    BY <1>7 DEF VerifyJws, CanSign
  <1>9. KeyFromVerificationMethod(Missing) # jwt.signedBy
    BY <1>7 DEF KeyFromVerificationMethod, CanSign
  <1>10. VerifyCredential(jwt, TRUE) <=>
           inTime /\ ~c.status /\ KeyFromVerificationMethod(used) = jwt.signedBy
    <2> HIDE DEF inTime, used
    <2> QED
      BY <1>2, <1>3, <1>5, <1>8 DEF VerifyCredential, used
  <1> HIDE DEF inTime, used, method
  <1>11. VerifyCredential(jwt, TRUE) <=>
           /\ inTime /\ ~c.status
           /\ KeyFromVerificationMethod(method) = jwt.signedBy
           /\ c.issuer = kid.did /\ c.issuer = method.controller
    BY <1>6, <1>9, <1>10
  <1> QED
    BY <1>3, <1>11 DEF inTime, method

\* A credential that verifies was signed with a key that is still of its issuer.  So was a
\* presentation for its holder, whatever its header, but for one with a key in the header:
\* it is verified with that key, whosoever it is, and is only known to name a holder that
\* its credentials are about (VerifiedIsSigned).  Whoever signs, while documents change and
\* time passes (verifyCredential, verifyPresentation).
THEOREM VerifiedIsAlwaysSigned == W3cSpec => []VerifiedIsSigned
  <1>1. W3cInv => VerifiedIsSigned
    BY CredentialIsSigned, PresentationIsSigned DEF VerifiedIsSigned
  <1> QED
    BY <1>1, W3cInvInitially, W3cInvKept, PTL DEF W3cSpec

\* A credential signed here, however its dates are written, is read back with its dates cut
\* to the second, and verifies exactly as long as its method has its key
\* (SignedCredentialsVerify; signCredential, getCredentialFromJwtPayload).
THEOREM SignedCredentialsStayValid == W3cSpec => []SignedCredentialsVerify
  <1>1. W3cInv => SignedCredentialsVerify
    BY SignedVerifies DEF SignedCredentialsVerify
  <1> QED
    BY <1>1, W3cInvInitially, W3cInvKept, PTL DEF W3cSpec

-------------------------------------------------------------------------------
(* Caches *)

EntryType == [key : CacheKeys, value : CacheValues, expired : BOOLEAN]

\* A map or a record.
EntriesType == Seq(EntryType)

CacheStages == {"none", "find", "save", "install", "operate", "persist", "write"}

CacheCallType ==
  [stage : CacheStages, op : {"get", "set", "remove", Null}, key : CacheKeys \cup {Null},
   value : CacheValues \cup {Null}, map : CacheCallers \cup {Null}, snapshot : EntriesType]

CacheTypes ==
  /\ persistent \in BOOLEAN /\ disturbed \in BOOLEAN
  /\ limit \in Nat \ {0}
  /\ liveMap \in CacheCallers \cup {Null}
  /\ lruMaps \in [CacheCallers -> EntriesType]
  /\ cacheRecord \in EntriesType \cup {Null}
  /\ cacheCalls \in [CacheCallers -> CacheCallType]
  /\ latest \in [CacheKeys -> CacheValues \cup {Null}]

\* A call that works on a map, or that writes, has found one loaded; unless calls met while
\* they loaded it, it is the only one.
CallInv(c) ==
  LET call == cacheCalls[c] IN
  /\ call.stage # "none" => call.key \in CacheKeys
  /\ call.stage # "none" /\ call.op = "set" => call.value \in CacheValues
  /\ call.stage = "operate" => /\ call.map \in CacheCallers /\ liveMap # Null
                               /\ disturbed \/ call.map = liveMap
  /\ call.stage \in {"persist", "write"} => liveMap # Null
  /\ call.stage \notin {"none", "operate"} => persistent

UpToDate(entries) == \A e \in ToSet(entries) : e.value = latest[e.key]

\* Nothing that was set waits to be written.
AllPersisted == \A c \in CacheCallers : cacheCalls[c].stage # "persist"

\* What a call that loads or writes has read is what was set last, or a later write of
\* another call will replace it.
RecordInv ==
  /\ AllPersisted /\ (\A c \in CacheCallers : ~InStage(c, "write")) /\ cacheRecord # Null =>
       UpToDate(cacheRecord)
  /\ \A c \in CacheCallers :
       /\ InStage(c, "write") /\ AllPersisted => UpToDate(cacheCalls[c].snapshot)
       /\ InStage(c, "install") /\ liveMap = Null => UpToDate(cacheCalls[c].snapshot)
  /\ \A c, d \in CacheCallers : InStage(c, "write") /\ InStage(d, "write") => c = d

CacheInv ==
  /\ CacheTypes
  /\ ~persistent => liveMap # Null
  /\ \A c \in CacheCallers : CallInv(c)
  /\ ~disturbed => /\ liveMap # Null => UpToDate(lruMaps[liveMap])
                   /\ persistent => RecordInv
  /\ HitsAreCurrent

\* The elements of a sequence over a set.
LEMMA ElementsOf ==
  ASSUME NEW S, NEW T, S \subseteq T, NEW s \in Seq(S)
  PROVE  s \in Seq(T) /\ ToSet(s) \subseteq S
  BY DEF ToSet

\* What each operation on a map leaves in it.
LEMMA MapOperations ==
  ASSUME NEW map \in EntriesType, NEW key
  PROVE  /\ RemoveExpiredItems(map) \in EntriesType /\ WithoutKey(map, key) \in EntriesType
         /\ Touched(map, key) \in EntriesType
         /\ \A e \in ToSet(RemoveExpiredItems(map)) : e \in ToSet(map) /\ ~e.expired
         /\ \A e \in ToSet(WithoutKey(map, key)) : e \in ToSet(map) /\ e.key # key
         /\ ToSet(Touched(map, key)) \subseteq ToSet(map)
  <1> DEFINE fresh == {e \in ToSet(map) : ~e.expired}
             others == ToSet(map) \ Found(map, key)
             found == Found(map, key)
  <1>1. \A T : /\ Among(map, T) \in Seq(EntryType \cap T)
               /\ Among(map, T) \in EntriesType
               /\ ToSet(Among(map, T)) \subseteq T
    <2> TAKE T
    <2>1. Among(map, T) \in Seq(EntryType \cap T)
      BY AmongType DEF EntriesType
    <2>2. Among(map, T) \in Seq(EntryType) /\ ToSet(Among(map, T)) \subseteq EntryType \cap T
      <3>1. EntryType \cap T \subseteq EntryType
        OBVIOUS
      <3> QED
        BY <2>1, <3>1, ElementsOf
    <2> QED
      BY <2>1, <2>2 DEF EntriesType
  <1>2. /\ RemoveExpiredItems(map) \in EntriesType
        /\ \A e \in ToSet(RemoveExpiredItems(map)) : e \in ToSet(map) /\ ~e.expired
    BY <1>1 DEF RemoveExpiredItems
  <1>3. /\ WithoutKey(map, key) \in EntriesType
        /\ \A e \in ToSet(WithoutKey(map, key)) : e \in ToSet(map) /\ e.key # key
    BY <1>1 DEF WithoutKey, Found
  <1>4. Among(map, found) \in EntriesType /\ ToSet(Among(map, found)) \subseteq ToSet(map)
    <2>1. found \subseteq ToSet(map)
      BY DEF Found
    <2> QED
      BY <1>1, <2>1
  <1>5. \A s, t \in EntriesType : s \o t \in EntriesType /\ ToSet(s \o t) \subseteq ToSet(s) \cup ToSet(t)
    BY DEF EntriesType, ToSet
  <1>6. /\ Touched(map, key) \in EntriesType
        /\ ToSet(Touched(map, key)) \subseteq ToSet(WithoutKey(map, key)) \cup ToSet(Among(map, found))
    BY <1>3, <1>4, <1>5 DEF Touched
  <1> QED
    BY <1>2, <1>3, <1>4, <1>6

LEMMA PutOperation ==
  ASSUME limit \in Nat \ {0}, NEW map \in EntriesType, NEW entry \in EntryType
  PROVE  /\ Put(map, entry) \in EntriesType
         /\ \A e \in ToSet(Put(map, entry)) : e = entry \/ (e \in ToSet(map) /\ e.key # entry.key)
  <1> DEFINE others == WithoutKey(map, entry.key)
             kept == IF Len(others) = limit THEN Tail(others) ELSE others
  <1>1. others \in EntriesType /\ \A e \in ToSet(others) : e \in ToSet(map) /\ e.key # entry.key
    BY MapOperations
  <1> HIDE DEF others
  <1>2. kept \in EntriesType /\ ToSet(kept) \subseteq ToSet(others)
    <2>1. CASE Len(others) = limit
      <3>1. others # <<>>
        BY <2>1
      <3>2. Tail(others) \in EntriesType /\ ToSet(Tail(others)) \subseteq ToSet(others)
        BY <1>1, <3>1 DEF EntriesType, ToSet
      <3> QED
        BY <2>1, <3>2
    <2>2. CASE Len(others) # limit
      BY <1>1, <2>2
    <2> QED
      BY <2>1, <2>2
  <1> HIDE DEF kept
  <1>3. Append(kept, entry) \in EntriesType
        /\ \A e \in ToSet(Append(kept, entry)) : e = entry \/ e \in ToSet(kept)
    BY <1>2 DEF EntriesType, ToSet
  <1> QED
    BY <1>1, <1>2, <1>3 DEF Put, kept, others

LEMMA NoCallType == NoCall \in CacheCallType
  BY DEF NoCall, CacheCallType, CacheStages, EntriesType

LEMMA CacheInvInitially == CacheInit => CacheInv
  <1> SUFFICES ASSUME CacheInit PROVE CacheInv
    OBVIOUS
  <1>1. <<>> \in EntriesType /\ \A e \in ToSet(<<>>) : FALSE
    BY DEF EntriesType, ToSet
  <1>2. CacheTypes
    BY <1>1, NoCallType, CacheAssumption DEF CacheInit, CacheTypes
  <1>3. \A c \in CacheCallers : cacheCalls[c].stage = "none"
    BY DEF CacheInit, NoCall
  <1>4. \A c \in CacheCallers : CallInv(c)
    BY <1>3 DEF CallInv
  <1>5. ~persistent => liveMap # Null
    BY DEF CacheInit
  <1>6. liveMap # Null => UpToDate(lruMaps[liveMap])
    BY <1>1 DEF CacheInit, UpToDate
  <1>7. RecordInv
    BY <1>3 DEF RecordInv, InStage, CacheInit
  <1> QED
    BY <1>2, <1>4, <1>5, <1>6, <1>7 DEF CacheInv, CacheInit, HitsAreCurrent

LEMMA CallCacheKeeps ==
  ASSUME CacheInv, NEW c \in CacheCallers, NEW context, NEW op \in {"get", "set", "remove"},
         NEW key \in CacheKeys, NEW value \in CacheValues \cup {Null},
         op = "set" => value # Null, CallCache(c, context, op, key, value)
  PROVE  CacheInv'
  <1> DEFINE first == IF liveMap = Null THEN "find" ELSE "operate"
             call == [NoCall EXCEPT !.stage = first, !.op = op, !.key = key, !.value = value,
                                    !.map = liveMap]
  <1>1. /\ call \in CacheCallType
        /\ call.stage = first
        /\ call.op = op /\ call.key = key /\ call.value = value /\ call.map = liveMap
    <2>1. liveMap \in CacheCallers \cup {Null} /\ <<>> \in EntriesType
      BY DEF CacheInv, CacheTypes, EntriesType
    <2>2. first \in {"find", "operate"}
      OBVIOUS
    <2> HIDE DEF first
    <2>3. \A t \in CacheCallType : \A v \in CacheValues \cup {Null} :
            LET u == [t EXCEPT !.value = v] IN
            /\ u \in CacheCallType /\ u.value = v
            /\ u.stage = t.stage /\ u.op = t.op /\ u.key = t.key /\ u.map = t.map
      BY DEF CacheCallType
    <2>6. \A t \in CacheCallType : \A m \in CacheCallers \cup {Null} :
            LET u == [t EXCEPT !.map = m] IN
            /\ u \in CacheCallType /\ u.map = m
            /\ u.stage = t.stage /\ u.op = t.op /\ u.key = t.key /\ u.value = t.value
      BY DEF CacheCallType
    <2> DEFINE half == [NoCall EXCEPT !.stage = first, !.op = op, !.key = key]
    <2>4. half \in CacheCallType /\ half.stage = first /\ half.op = op /\ half.key = key
      <3>1. first \in CacheStages
        BY <2>2 DEF CacheStages
      <3> HIDE DEF first
      <3> QED
        BY <3>1, NoCallType DEF CacheCallType
    <2> DEFINE valued == [half EXCEPT !.value = value]
    <2>5. call = [valued EXCEPT !.map = liveMap]
      OBVIOUS
    <2> HIDE DEF half
    <2>7. /\ valued \in CacheCallType /\ valued.value = value
          /\ valued.stage = first /\ valued.op = op /\ valued.key = key
      BY <2>3, <2>4
    <2> HIDE DEF valued, call, first
    <2> QED
      BY <2>1, <2>5, <2>6, <2>7
  <1> HIDE DEF call
  <1>2. /\ cacheCalls' = [cacheCalls EXCEPT ![c] = call] /\ cacheCalls[c].stage = "none"
        /\ UNCHANGED <<persistent, limit, lruMaps, liveMap, cacheRecord, latest, lastHit, disturbed>>
    BY DEF CallCache, Step, InStage, call
  <1>3. CacheTypes'
    BY <1>1, <1>2 DEF CacheInv, CacheTypes
  <1>4. cacheCalls'[c] = call /\ \A d \in CacheCallers \ {c} : cacheCalls'[d] = cacheCalls[d]
    BY <1>2 DEF CacheInv, CacheTypes
  <1>5. ASSUME NEW d \in CacheCallers PROVE CallInv(d)'
    <2>1. CASE d = c
      BY <1>1, <1>2, <1>4, <2>1 DEF CallInv, CacheInv, CacheTypes
    <2>2. CASE d # c
      BY <1>2, <1>4, <2>2 DEF CallInv, CacheInv
    <2> QED
      BY <2>1, <2>2
  <1>6. RecordInv => RecordInv'
    <2>1. \A d \in CacheCallers :
            /\ InStage(d, "write")' <=> InStage(d, "write")
            /\ InStage(d, "install")' <=> InStage(d, "install")
            /\ (cacheCalls[d].stage = "persist")' <=> cacheCalls[d].stage = "persist"
            /\ InStage(d, "write") \/ InStage(d, "install") => cacheCalls'[d] = cacheCalls[d]
      BY <1>1, <1>2, <1>4 DEF InStage
    <2> QED
      BY <1>2, <2>1 DEF RecordInv, AllPersisted, UpToDate
  <1> QED
    BY <1>2, <1>3, <1>5, <1>6 DEF CacheInv, UpToDate, HitsAreCurrent

\* A call goes to its next stage.
LEMMA StageChanges ==
  ASSUME NEW t \in CacheCallType, NEW stage \in CacheStages, NEW u, u = [t EXCEPT !.stage = stage]
  PROVE  /\ u \in CacheCallType /\ u.stage = stage /\ u.snapshot = t.snapshot
         /\ u.op = t.op /\ u.key = t.key /\ u.value = t.value /\ u.map = t.map
  BY DEF CacheCallType

LEMMA FindCacheRecordKeeps ==
  ASSUME CacheInv, NEW c \in CacheCallers, FindCacheRecord(c)
  PROVE  CacheInv'
  <1> DEFINE old == cacheCalls[c]
             new == cacheCalls'[c]
  <1>1. UNCHANGED <<persistent, limit, lruMaps, liveMap, latest, lastHit, disturbed>>
    BY DEF FindCacheRecord
  <1>2. /\ old \in CacheCallType /\ old.stage \in {"find", "save"} /\ persistent
        /\ DOMAIN cacheCalls = CacheCallers
    BY DEF FindCacheRecord, InStage, CacheInv, CacheTypes, CallInv
  <1>3. /\ cacheCalls' = [cacheCalls EXCEPT ![c] = new] /\ new \in CacheCallType
        /\ new.op = old.op /\ new.key = old.key /\ new.value = old.value
        /\ cacheRecord' = IF cacheRecord = Null /\ new.stage = "install" THEN <<>> ELSE cacheRecord
        /\ \/ new.stage = "save"
           \/ new.stage = "install" /\ new.snapshot = <<>>
           \/ new.stage = "install" /\ cacheRecord # Null /\ new.snapshot = cacheRecord
    <2>1. {"save", "install"} \subseteq CacheStages /\ <<>> \in EntriesType
      BY DEF CacheStages, EntriesType
    <2>2. CASE old.stage = "find" /\ cacheRecord = Null /\ GoTo(c, "save") /\ UNCHANGED cacheRecord
      <3>1. new = [old EXCEPT !.stage = "save"] /\ cacheCalls' = [cacheCalls EXCEPT ![c] = new]
        BY <1>2, <2>2 DEF GoTo, Step
      <3> HIDE DEF new, old
      <3> QED
        BY <1>2, <2>1, <2>2, <3>1, StageChanges
    <2>3. CASE /\ cacheRecord = Null /\ cacheRecord' = <<>>
               /\ Step(c, [cacheCalls[c] EXCEPT !.stage = "install", !.snapshot = <<>>])
      <3>1. new = [old EXCEPT !.stage = "install", !.snapshot = <<>>]
            /\ cacheCalls' = [cacheCalls EXCEPT ![c] = new]
        BY <1>2, <2>3 DEF Step
      <3> HIDE DEF new, old
      <3>2. /\ new \in CacheCallType /\ new.stage = "install" /\ new.snapshot = <<>>
            /\ new.op = old.op /\ new.key = old.key /\ new.value = old.value
        BY <1>2, <2>1, <3>1 DEF CacheCallType
      <3> QED
        BY <2>3, <3>1, <3>2
    <2>4. CASE /\ cacheRecord # Null /\ UNCHANGED cacheRecord
               /\ Step(c, [cacheCalls[c] EXCEPT !.stage = "install", !.snapshot = cacheRecord])
      <3>1. new = [old EXCEPT !.stage = "install", !.snapshot = cacheRecord]
            /\ cacheCalls' = [cacheCalls EXCEPT ![c] = new]
        BY <1>2, <2>4 DEF Step
      <3>2. cacheRecord \in EntriesType
        BY <2>4 DEF CacheInv, CacheTypes
      <3> HIDE DEF new, old
      <3>3. /\ new \in CacheCallType /\ new.stage = "install" /\ new.snapshot = cacheRecord
            /\ new.op = old.op /\ new.key = old.key /\ new.value = old.value
        BY <1>2, <2>1, <3>1, <3>2 DEF CacheCallType
      <3> QED
        BY <2>4, <3>1, <3>3
    <2> QED
      BY <2>2, <2>3, <2>4 DEF FindCacheRecord, InStage
  <1>4. \A d \in CacheCallers \ {c} : cacheCalls'[d] = cacheCalls[d]
    BY <1>2, <1>3
  <1> HIDE DEF new, old
  <1>5. CacheTypes'
    <2>1. <<>> \in EntriesType
      BY DEF EntriesType
    <2> QED
      BY <1>1, <1>3, <2>1 DEF CacheInv, CacheTypes
  <1>6. ASSUME NEW d \in CacheCallers PROVE CallInv(d)'
    <2>1. CASE d = c
      BY <1>1, <1>2, <1>3, <2>1 DEF CallInv, CacheInv, old, new
    <2>2. CASE d # c
      BY <1>1, <1>4, <2>2 DEF CallInv, CacheInv
    <2> QED
      BY <2>1, <2>2
  <1>7. ASSUME ~disturbed PROVE RecordInv'
    <2>1. RecordInv
      BY <1>2, <1>7 DEF CacheInv
    <2>2. \A d \in CacheCallers :
            /\ InStage(d, "write")' <=> InStage(d, "write")
            /\ (cacheCalls[d].stage = "persist")' <=> cacheCalls[d].stage = "persist"
            /\ InStage(d, "write") => d # c /\ cacheCalls'[d] = cacheCalls[d]
      BY <1>2, <1>3, <1>4 DEF InStage, old, new
    <2>3. UpToDate(<<>>)
      BY DEF UpToDate, ToSet
    <2>4. ASSUME liveMap = Null, cacheRecord # Null PROVE UpToDate(cacheRecord)
      BY <2>1, <2>4 DEF RecordInv, AllPersisted, InStage, CacheInv, CallInv
    <2>5. liveMap = Null /\ new.stage = "install" => UpToDate(new.snapshot)
      BY <1>3, <2>3, <2>4
    <2>6. \A entries : UpToDate(entries)' <=> \A e \in ToSet(entries) : e.value = latest[e.key]
      BY <1>1 DEF UpToDate
    <2>7. (AllPersisted /\ (\A d \in CacheCallers : ~InStage(d, "write")) /\ cacheRecord # Null =>
             UpToDate(cacheRecord))'
      BY <1>1, <1>3, <2>1, <2>2, <2>3 DEF RecordInv, AllPersisted, UpToDate
    <2>8. ASSUME NEW d \in CacheCallers
          PROVE  (/\ InStage(d, "write") /\ AllPersisted => UpToDate(cacheCalls[d].snapshot)
                  /\ InStage(d, "install") /\ liveMap = Null => UpToDate(cacheCalls[d].snapshot))'
      <3>1. CASE d = c
        BY <1>1, <2>2, <2>5, <3>1 DEF InStage, UpToDate, new
      <3>2. CASE d # c
        BY <1>1, <1>4, <2>1, <2>2, <3>2 DEF InStage, UpToDate, RecordInv, AllPersisted
      <3> QED
        BY <3>1, <3>2
    <2>9. (\A d, e \in CacheCallers : InStage(d, "write") /\ InStage(e, "write") => d = e)'
      BY <2>1, <2>2 DEF RecordInv
    <2> QED
      BY <2>7, <2>8, <2>9 DEF RecordInv
  <1> QED
    BY <1>1, <1>2, <1>5, <1>6, <1>7 DEF CacheInv, UpToDate, HitsAreCurrent

LEMMA InstallMapKeeps ==
  ASSUME CacheInv, NEW c \in CacheCallers, InstallMap(c)
  PROVE  CacheInv'
  <1> DEFINE old == cacheCalls[c]
             new == cacheCalls'[c]
  <1>1. UNCHANGED <<persistent, limit, cacheRecord, latest, lastHit>>
    BY DEF InstallMap
  <1>2. /\ old \in CacheCallType /\ old.stage = "install" /\ persistent
        /\ DOMAIN cacheCalls = CacheCallers /\ old.snapshot \in EntriesType
    BY DEF InstallMap, InStage, CacheInv, CacheTypes, CallInv, CacheCallType
  <1>3. CASE Len(old.snapshot) > limit
    <2>1. /\ UNCHANGED <<lruMaps, liveMap, disturbed>> /\ cacheCalls' = [cacheCalls EXCEPT ![c] = NoCall]
      BY <1>3 DEF InstallMap, Step
    <2>2. /\ new = NoCall /\ \A d \in CacheCallers \ {c} : cacheCalls'[d] = cacheCalls[d]
      BY <1>2, <2>1
    <2>3. CacheTypes'
      BY <1>1, <2>1, NoCallType DEF CacheInv, CacheTypes
    <2>4. \A d \in CacheCallers : CallInv(d)'
      BY <1>1, <2>1, <2>2 DEF CacheInv, CallInv, NoCall
    <2>5. RecordInv => RecordInv'
      <3>1. \A d \in CacheCallers :
              /\ InStage(d, "write")' <=> InStage(d, "write")
              /\ InStage(d, "install")' => InStage(d, "install")
              /\ (cacheCalls[d].stage = "persist")' <=> cacheCalls[d].stage = "persist"
              /\ (InStage(d, "write") \/ InStage(d, "install"))' => cacheCalls'[d] = cacheCalls[d]
        BY <1>2, <2>2 DEF InStage, NoCall
      <3> QED
        BY <1>1, <2>1, <3>1 DEF RecordInv, AllPersisted, UpToDate
    <2> QED
      BY <1>1, <2>1, <2>3, <2>4, <2>5 DEF CacheInv, UpToDate, HitsAreCurrent
  <1>4. CASE ~(Len(old.snapshot) > limit)
    <2>1. /\ lruMaps' = [lruMaps EXCEPT ![c] = old.snapshot] /\ liveMap' = c
          /\ disturbed' = (disturbed \/ liveMap # Null)
          /\ new = [old EXCEPT !.stage = "operate", !.map = c]
          /\ cacheCalls' = [cacheCalls EXCEPT ![c] = new]
      BY <1>2, <1>4 DEF InstallMap, Step
    <2>2. \A d \in CacheCallers \ {c} : cacheCalls'[d] = cacheCalls[d]
      BY <1>2, <2>1
    <2> HIDE DEF new, old
    <2>3. /\ new \in CacheCallType /\ new.stage = "operate" /\ new.map = c
          /\ new.op = old.op /\ new.key = old.key /\ new.value = old.value
      <3>1. "operate" \in CacheStages
        BY DEF CacheStages
      <3> QED
        BY <1>2, <2>1, <3>1 DEF CacheCallType
    <2>4. CacheTypes'
      <3>1. disturbed' \in BOOLEAN
        BY <2>1 DEF CacheInv, CacheTypes
      <3> QED
        BY <1>1, <1>2, <2>1, <2>3, <3>1 DEF CacheInv, CacheTypes
    <2>5. liveMap' # Null /\ (~disturbed' => liveMap = Null /\ ~disturbed)
      BY <2>1, CacheAssumption DEF CacheInv, CacheTypes
    <2>6. ASSUME NEW d \in CacheCallers PROVE CallInv(d)'
      <3>1. CASE d = c
        BY <1>1, <1>2, <2>1, <2>3, <2>5, <3>1 DEF CallInv, CacheInv, old, new
      <3>2. CASE d # c
        BY <1>1, <2>2, <2>5, <3>2 DEF CallInv, CacheInv
      <3> QED
        BY <3>1, <3>2
    <2>7. ASSUME ~disturbed' PROVE UpToDate(lruMaps[liveMap])' /\ RecordInv'
      <3>1. RecordInv /\ liveMap = Null /\ ~disturbed
        BY <1>2, <2>5, <2>7 DEF CacheInv
      <3>2. UpToDate(old.snapshot)
        BY <1>2, <3>1 DEF RecordInv, InStage, old
      <3>3. lruMaps'[liveMap'] = old.snapshot
        BY <2>1 DEF CacheInv, CacheTypes
      <3>4. \A d \in CacheCallers :
              /\ ~InStage(d, "write") /\ cacheCalls[d].stage # "persist"
              /\ ~InStage(d, "write")' /\ (cacheCalls[d].stage # "persist")'
        BY <2>2, <2>3, <3>1 DEF CacheInv, CallInv, InStage, new
      <3>5. cacheRecord # Null => UpToDate(cacheRecord)
        BY <3>1, <3>4 DEF RecordInv, AllPersisted
      <3>6. RecordInv'
        BY <1>1, <2>5, <3>4, <3>5 DEF RecordInv, UpToDate
      <3> QED
        BY <1>1, <3>2, <3>3, <3>6 DEF UpToDate
    <2> QED
      BY <1>1, <1>2, <2>4, <2>5, <2>6, <2>7 DEF CacheInv, HitsAreCurrent
  <1> QED
    BY <1>3, <1>4

\* An operation on the map of a call: what is set or removed is persisted before the call
\* ends, if it is anywhere.
LEMMA OperationKeeps ==
  ASSUME CacheInv, NEW c \in CacheCallers, InStage(c, "operate"),
         NEW map \in EntriesType, NewMap(c, map),
         UNCHANGED <<persistent, limit, liveMap, cacheRecord, disturbed>>,
         latest' \in [CacheKeys -> CacheValues \cup {Null}],
         \/ Step(c, NoCall) /\ (persistent => latest' = latest)
         \/ persistent /\ GoTo(c, "persist"),
         UpToDate(lruMaps[cacheCalls[c].map]) => \A e \in ToSet(map) : e.value = latest'[e.key],
         HitsAreCurrent'
  PROVE  CacheInv'
  <1> DEFINE old == cacheCalls[c]
             new == cacheCalls'[c]
  <1>1. /\ old \in CacheCallType /\ old.stage = "operate" /\ old.map \in CacheCallers
        /\ liveMap # Null /\ (disturbed \/ old.map = liveMap)
        /\ DOMAIN cacheCalls = CacheCallers /\ old.key \in CacheKeys
        /\ (old.op = "set" => old.value \in CacheValues)
    BY DEF InStage, CacheInv, CacheTypes, CallInv
  <1>2. lruMaps' = [lruMaps EXCEPT ![old.map] = map]
    BY DEF NewMap
  <1>3. /\ cacheCalls' = [cacheCalls EXCEPT ![c] = new] /\ new \in CacheCallType
        /\ \/ new.stage = "none" /\ (persistent => latest' = latest)
           \/ new.stage = "persist" /\ persistent
        /\ (new.stage # "none" => new.op = old.op /\ new.key = old.key /\ new.value = old.value)
    <2>1. CASE Step(c, NoCall) /\ (persistent => latest' = latest)
      BY <1>1, <2>1, NoCallType DEF Step, NoCall
    <2>2. CASE persistent /\ GoTo(c, "persist")
      <3>1. new = [old EXCEPT !.stage = "persist"] /\ cacheCalls' = [cacheCalls EXCEPT ![c] = new]
        BY <1>1, <2>2 DEF GoTo, Step
      <3>2. "persist" \in CacheStages
        BY DEF CacheStages
      <3> HIDE DEF new, old
      <3> QED
        BY <1>1, <2>2, <3>1, <3>2, StageChanges
    <2> QED
      BY <2>1, <2>2
  <1>4. \A d \in CacheCallers \ {c} : cacheCalls'[d] = cacheCalls[d]
    BY <1>1, <1>3
  <1> HIDE DEF new, old
  <1>5. CacheTypes'
    BY <1>1, <1>2, <1>3 DEF CacheInv, CacheTypes
  <1>6. ASSUME NEW d \in CacheCallers PROVE CallInv(d)'
    <2>1. CASE d = c
      BY <1>1, <1>3, <2>1 DEF CallInv, CacheInv, new
    <2>2. CASE d # c
      BY <1>4, <2>2 DEF CallInv, CacheInv
    <2> QED
      BY <2>1, <2>2
  <1>7. ASSUME ~disturbed' PROVE UpToDate(lruMaps[liveMap])'
    <2>1. ~disturbed /\ old.map = liveMap /\ liveMap' = liveMap
      BY <1>1, <1>7
    <2>2. lruMaps'[liveMap'] = map /\ UpToDate(lruMaps[liveMap])
      BY <1>1, <1>2, <2>1 DEF CacheInv, CacheTypes
    <2>3. \A e \in ToSet(map) : e.value = latest'[e.key]
      BY <2>1, <2>2 DEF old
    <2> QED
      BY <2>2, <2>3 DEF UpToDate
  <1>8. ASSUME ~disturbed', persistent PROVE RecordInv'
    <2>1. RecordInv
      BY <1>8 DEF CacheInv
    <2>2. \A d \in CacheCallers :
            /\ InStage(d, "write")' <=> InStage(d, "write")
            /\ d # c => ((cacheCalls[d].stage = "persist")' <=> cacheCalls[d].stage = "persist")
            /\ InStage(d, "write") => d # c /\ cacheCalls'[d] = cacheCalls[d]
      BY <1>1, <1>3, <1>4 DEF InStage, old, new
    <2>3. liveMap' # Null
      BY <1>1
    <2>4. CASE new.stage = "persist"
      <3>1. ~AllPersisted'
        BY <2>4 DEF AllPersisted, new
      <3> QED
        BY <2>1, <2>2, <2>3, <3>1 DEF RecordInv
    <2>5. CASE new.stage = "none"
      <3>1. latest' = latest
        BY <1>3, <1>8, <2>5
      <3>2. AllPersisted' <=> AllPersisted
        BY <1>1, <2>2, <2>5 DEF AllPersisted, new, old
      <3> QED
        BY <2>1, <2>2, <2>3, <3>1, <3>2 DEF RecordInv, UpToDate
    <2> QED
      BY <1>3, <2>4, <2>5
  <1> QED
    BY <1>1, <1>5, <1>6, <1>7, <1>8 DEF CacheInv

LEMMA EntriesOf ==
  ASSUME NEW map \in EntriesType, NEW e \in ToSet(map)
  PROVE  e \in EntryType /\ e.key \in CacheKeys
  <1>1. e \in EntryType
    BY DEF EntriesType, ToSet
  <1> QED
    BY <1>1 DEF EntryType

\* What is left in the map of a call, before its own operation.
LEMMA CurrentMap ==
  ASSUME CacheInv, NEW c \in CacheCallers, InStage(c, "operate")
  PROVE  /\ Current(c) \in EntriesType
         /\ \A e \in ToSet(Current(c)) : e \in ToSet(lruMaps[cacheCalls[c].map]) /\ ~e.expired
         /\ cacheCalls[c].key \in CacheKeys
         /\ cacheCalls[c].op = "set" => cacheCalls[c].value \in CacheValues
  <1>1. lruMaps[cacheCalls[c].map] \in EntriesType
    BY DEF InStage, CacheInv, CacheTypes, CallInv
  <1>2. cacheCalls[c].stage # "none" /\ CallInv(c)
    BY DEF InStage, CacheInv
  <1> QED
    BY <1>1, <1>2, MapOperations DEF Current, CallInv

LEMMA GetItemKeeps ==
  ASSUME CacheInv, NEW c \in CacheCallers, GetItem(c)
  PROVE  CacheInv'
  <1> DEFINE key == cacheCalls[c].key
             current == Current(c)
             hit == CHOOSE e \in Found(current, key) : TRUE
  <1>1. /\ InStage(c, "operate") /\ NewMap(c, Touched(current, key)) /\ Step(c, NoCall)
        /\ UNCHANGED <<persistent, limit, liveMap, cacheRecord, latest, disturbed>>
    BY DEF GetItem
  <1>2. /\ current \in EntriesType
        /\ \A e \in ToSet(current) : e \in ToSet(lruMaps[cacheCalls[c].map]) /\ ~e.expired
    BY <1>1, CurrentMap
  <1>3. PICK map : map = Touched(current, key)
    OBVIOUS
  <1>4. map \in EntriesType /\ ToSet(map) \subseteq ToSet(current)
    BY <1>2, <1>3, MapOperations
  <1>5. latest' \in [CacheKeys -> CacheValues \cup {Null}]
    BY <1>1 DEF CacheInv, CacheTypes
  <1>6. HitsAreCurrent'
    <2>1. CASE Found(current, key) = {}
      <3>1. lastHit' = lastHit
        BY <2>1 DEF GetItem
      <3> QED
        BY <1>1, <3>1 DEF CacheInv, HitsAreCurrent
    <2>2. CASE Found(current, key) # {}
      <3>1. lastHit' = [entry |-> hit, latest |-> latest[key]]
        BY <2>2 DEF GetItem
      <3>2. hit \in ToSet(current) /\ hit.key = key
        BY <2>2 DEF Found
      <3>3. ~disturbed => hit.value = latest[key]
        <4>1. ~disturbed => UpToDate(lruMaps[cacheCalls[c].map])
          BY <1>1 DEF CacheInv, CallInv, InStage
        <4> HIDE DEF hit, current, key
        <4> QED
          BY <1>2, <3>2, <4>1 DEF UpToDate
      <3>4. ~hit.expired
        BY <1>2, <3>2
      <3> HIDE DEF hit, key
      <3> QED
        BY <1>1, <3>1, <3>3, <3>4 DEF HitsAreCurrent
    <2> QED
      BY <2>1, <2>2
  <1>7. UpToDate(lruMaps[cacheCalls[c].map]) => \A e \in ToSet(map) : e.value = latest'[e.key]
    BY <1>1, <1>2, <1>4 DEF UpToDate
  <1> HIDE DEF current, key, hit
  <1> QED
    BY <1>1, <1>3, <1>4, <1>5, <1>6, <1>7, OperationKeeps

\* What a call has set or removed, it is to persist next, if the cache persists at all.
LEMMA AfterWriteSteps ==
  ASSUME NEW c \in CacheCallers, AfterWrite(c), persistent \in BOOLEAN
  PROVE  \/ Step(c, NoCall) /\ ~persistent
         \/ persistent /\ GoTo(c, "persist")
  BY DEF AfterWrite

LEMMA GetItemExpiresKeeps ==
  ASSUME CacheInv, NEW c \in CacheCallers, GetItemExpires(c)
  PROVE  CacheInv'
  <1> DEFINE key == cacheCalls[c].key
             current == Current(c)
  <1>1. /\ InStage(c, "operate") /\ NewMap(c, WithoutKey(current, key)) /\ AfterWrite(c)
        /\ UNCHANGED <<persistent, limit, liveMap, cacheRecord, latest, lastHit, disturbed>>
    BY DEF GetItemExpires
  <1>2. /\ current \in EntriesType
        /\ \A e \in ToSet(current) : e \in ToSet(lruMaps[cacheCalls[c].map]) /\ ~e.expired
    BY <1>1, CurrentMap
  <1>3. PICK map : map = WithoutKey(current, key)
    OBVIOUS
  <1>4. map \in EntriesType /\ \A e \in ToSet(map) : e \in ToSet(current)
    BY <1>2, <1>3, MapOperations
  <1>5. latest' \in [CacheKeys -> CacheValues \cup {Null}] /\ HitsAreCurrent'
    BY <1>1 DEF CacheInv, CacheTypes, HitsAreCurrent
  <1>6. UpToDate(lruMaps[cacheCalls[c].map]) => \A e \in ToSet(map) : e.value = latest'[e.key]
    BY <1>1, <1>2, <1>4 DEF UpToDate
  <1>7. \/ Step(c, NoCall) /\ ~persistent
        \/ persistent /\ GoTo(c, "persist")
    BY <1>1, AfterWriteSteps DEF CacheInv, CacheTypes
  <1> HIDE DEF current, key
  <1> QED
    BY <1>1, <1>3, <1>4, <1>5, <1>6, <1>7, OperationKeeps

LEMMA SetItemKeeps ==
  ASSUME CacheInv, NEW c \in CacheCallers, SetItem(c)
  PROVE  CacheInv'
  <1> DEFINE key == cacheCalls[c].key
             value == cacheCalls[c].value
             current == Current(c)
  <1>1. /\ InStage(c, "operate") /\ cacheCalls[c].op = "set"
        /\ NewMap(c, Put(current, Entry(key, value))) /\ AfterWrite(c)
        /\ latest' = [latest EXCEPT ![key] = value]
        /\ UNCHANGED <<persistent, limit, liveMap, cacheRecord, lastHit, disturbed>>
    BY DEF SetItem
  <1>2. /\ current \in EntriesType /\ key \in CacheKeys /\ value \in CacheValues
        /\ \A e \in ToSet(current) : e \in ToSet(lruMaps[cacheCalls[c].map]) /\ ~e.expired
    BY <1>1, CurrentMap
  <1>3. PICK map, entry : entry = Entry(key, value) /\ map = Put(current, entry)
    OBVIOUS
  <1> HIDE DEF current, key, value
  <1>4. entry \in EntryType /\ entry.key = key /\ entry.value = value
    BY <1>2, <1>3 DEF Entry, EntryType
  <1>5. /\ map \in EntriesType
        /\ \A e \in ToSet(map) : e = entry \/ (e \in ToSet(current) /\ e.key # key)
    BY <1>2, <1>3, <1>4, PutOperation DEF CacheInv, CacheTypes
  <1>6. latest' \in [CacheKeys -> CacheValues \cup {Null}] /\ HitsAreCurrent'
        /\ latest'[key] = value /\ \A k : k # key /\ k \in CacheKeys => latest'[k] = latest[k]
    BY <1>1, <1>2 DEF CacheInv, CacheTypes, HitsAreCurrent
  <1>7. ASSUME UpToDate(lruMaps[cacheCalls[c].map]), NEW e \in ToSet(map)
        PROVE  e.value = latest'[e.key]
    <2>1. CASE e = entry
      BY <1>4, <1>6, <2>1
    <2>2. CASE e \in ToSet(current) /\ e.key # key
      <3>1. e.value = latest[e.key]
        BY <1>2, <1>7, <2>2 DEF UpToDate
      <3>2. e.key \in CacheKeys
        BY <1>2, <2>2, EntriesOf
      <3> QED
        BY <1>6, <2>2, <3>1, <3>2
    <2> QED
      BY <1>5, <2>1, <2>2
  <1>8. \/ Step(c, NoCall) /\ ~persistent
        \/ persistent /\ GoTo(c, "persist")
    BY <1>1, AfterWriteSteps DEF CacheInv, CacheTypes
  <1> QED
    BY <1>1, <1>3, <1>5, <1>6, <1>7, <1>8, OperationKeeps

LEMMA RemoveItemKeeps ==
  ASSUME CacheInv, NEW c \in CacheCallers, RemoveItem(c)
  PROVE  CacheInv'
  <1> DEFINE key == cacheCalls[c].key
             current == Current(c)
  <1>1. /\ InStage(c, "operate")
        /\ NewMap(c, WithoutKey(current, key)) /\ AfterWrite(c)
        /\ latest' = [latest EXCEPT ![key] = Null]
        /\ UNCHANGED <<persistent, limit, liveMap, cacheRecord, lastHit, disturbed>>
    BY DEF RemoveItem
  <1>2. /\ current \in EntriesType /\ key \in CacheKeys
        /\ \A e \in ToSet(current) : e \in ToSet(lruMaps[cacheCalls[c].map]) /\ ~e.expired
    BY <1>1, CurrentMap
  <1>3. PICK map : map = WithoutKey(current, key)
    OBVIOUS
  <1> HIDE DEF current, key
  <1>4. map \in EntriesType /\ \A e \in ToSet(map) : e \in ToSet(current) /\ e.key # key
    BY <1>2, <1>3, MapOperations
  <1>5. latest' \in [CacheKeys -> CacheValues \cup {Null}] /\ HitsAreCurrent'
        /\ \A k : k # key /\ k \in CacheKeys => latest'[k] = latest[k]
    BY <1>1, <1>2 DEF CacheInv, CacheTypes, HitsAreCurrent
  <1>6. ASSUME UpToDate(lruMaps[cacheCalls[c].map]), NEW e \in ToSet(map)
        PROVE  e.value = latest'[e.key]
    <2>1. e.value = latest[e.key]
      BY <1>2, <1>4, <1>6 DEF UpToDate
    <2>2. e.key \in CacheKeys
      BY <1>4, EntriesOf
    <2> QED
      BY <1>4, <1>5, <2>1, <2>2
  <1>7. \/ Step(c, NoCall) /\ ~persistent
        \/ persistent /\ GoTo(c, "persist")
    BY <1>1, AfterWriteSteps DEF CacheInv, CacheTypes
  <1> QED
    BY <1>1, <1>3, <1>4, <1>5, <1>6, <1>7, OperationKeeps

LEMMA PersistCacheKeeps ==
  ASSUME CacheInv, NEW c \in CacheCallers, PersistCache(c)
  PROVE  CacheInv'
  <1> DEFINE old == cacheCalls[c]
             new == cacheCalls'[c]
             entries == lruMaps[liveMap]
  <1>1. UNCHANGED <<persistent, limit, lruMaps, liveMap, cacheRecord, latest, lastHit>>
    BY DEF PersistCache
  <1>2. /\ old \in CacheCallType /\ old.stage = "persist" /\ persistent /\ liveMap # Null
        /\ DOMAIN cacheCalls = CacheCallers /\ entries \in EntriesType
    BY DEF PersistCache, InStage, CacheInv, CacheTypes, CallInv
  <1>3. /\ new = [old EXCEPT !.stage = "write", !.snapshot = entries]
        /\ cacheCalls' = [cacheCalls EXCEPT ![c] = new]
        /\ disturbed' = (disturbed \/ \E d \in CacheCallers : InStage(d, "write"))
    BY <1>2 DEF PersistCache, Step
  <1>4. \A d \in CacheCallers \ {c} : cacheCalls'[d] = cacheCalls[d]
    BY <1>2, <1>3
  <1> HIDE DEF new, old, entries
  <1>5. /\ new \in CacheCallType /\ new.stage = "write" /\ new.snapshot = entries
        /\ new.op = old.op /\ new.key = old.key /\ new.value = old.value
    <2>1. "write" \in CacheStages
      BY DEF CacheStages
    <2> QED
      BY <1>2, <1>3, <2>1 DEF CacheCallType
  <1>6. CacheTypes'
    <2>1. disturbed' \in BOOLEAN
      BY <1>3 DEF CacheInv, CacheTypes
    <2> QED
      BY <1>1, <1>3, <1>5, <2>1 DEF CacheInv, CacheTypes
  <1>7. ASSUME NEW d \in CacheCallers PROVE CallInv(d)'
    <2>1. CASE d = c
      BY <1>1, <1>2, <1>5, <2>1 DEF CallInv, CacheInv, old, new
    <2>2. CASE d # c
      <3>1. disturbed => disturbed'
        BY <1>3
      <3> QED
        BY <1>1, <1>4, <2>2, <3>1 DEF CallInv, CacheInv
    <2> QED
      BY <2>1, <2>2
  <1>8. ASSUME ~disturbed' PROVE UpToDate(lruMaps[liveMap])' /\ RecordInv'
    <2>1. /\ ~disturbed /\ (\A d \in CacheCallers : ~InStage(d, "write"))
          /\ RecordInv /\ UpToDate(entries)
      BY <1>2, <1>3, <1>8 DEF CacheInv, entries
    <2>2. \A d \in CacheCallers : InStage(d, "write")' <=> d = c
      BY <1>4, <1>5, <2>1 DEF InStage, new
    <2>3. UpToDate(entries) /\ new.snapshot = entries /\ liveMap' # Null
      BY <1>1, <1>2, <1>5, <2>1
    <2>4. (\A d \in CacheCallers :
             /\ InStage(d, "write") /\ AllPersisted => UpToDate(cacheCalls[d].snapshot)
             /\ InStage(d, "install") /\ liveMap = Null => UpToDate(cacheCalls[d].snapshot))'
      BY <1>1, <2>2, <2>3 DEF UpToDate, new
    <2>5. RecordInv'
      BY <2>2, <2>4 DEF RecordInv
    <2> QED
      BY <1>1, <2>1, <2>5 DEF UpToDate, entries
  <1>9. HitsAreCurrent'
    BY <1>1, <1>3 DEF CacheInv, HitsAreCurrent
  <1> QED
    BY <1>1, <1>2, <1>6, <1>7, <1>8, <1>9 DEF CacheInv

LEMMA WriteCacheRecordKeeps ==
  ASSUME CacheInv, NEW c \in CacheCallers, WriteCacheRecord(c)
  PROVE  CacheInv'
  <1> DEFINE entries == cacheCalls[c].snapshot
  <1>1. UNCHANGED <<persistent, limit, lruMaps, liveMap, latest, lastHit, disturbed>>
    BY DEF WriteCacheRecord
  <1>2. /\ cacheCalls[c] \in CacheCallType /\ cacheCalls[c].stage = "write" /\ liveMap # Null
        /\ DOMAIN cacheCalls = CacheCallers /\ entries \in EntriesType /\ InStage(c, "write")
        /\ persistent
    BY DEF WriteCacheRecord, InStage, CacheInv, CacheTypes, CallInv, CacheCallType
  <1>3. cacheCalls' = [cacheCalls EXCEPT ![c] = NoCall] /\ cacheRecord' = entries
    BY DEF WriteCacheRecord, Step
  <1>4. cacheCalls'[c] = NoCall /\ \A d \in CacheCallers \ {c} : cacheCalls'[d] = cacheCalls[d]
    BY <1>2, <1>3
  <1> HIDE DEF entries
  <1>5. CacheTypes'
    BY <1>1, <1>2, <1>3, NoCallType DEF CacheInv, CacheTypes
  <1>6. \A d \in CacheCallers : CallInv(d)'
    BY <1>1, <1>4 DEF CacheInv, CallInv, NoCall
  <1>7. ASSUME ~disturbed PROVE RecordInv'
    <2>1. RecordInv
      BY <1>2, <1>7 DEF CacheInv
    <2>2. AllPersisted' <=> AllPersisted
      BY <1>2, <1>4 DEF AllPersisted, NoCall
    <2>3. \A d \in CacheCallers : ~InStage(d, "write")'
      BY <1>2, <1>4, <2>1 DEF RecordInv, InStage, NoCall
    <2>4. AllPersisted => UpToDate(entries)
      BY <1>2, <2>1 DEF RecordInv, entries
    <2>5. liveMap' # Null
      BY <1>1, <1>2
    <2> QED
      BY <1>1, <1>3, <2>2, <2>3, <2>4, <2>5 DEF RecordInv, UpToDate
  <1> QED
    BY <1>1, <1>2, <1>5, <1>6, <1>7 DEF CacheInv, UpToDate, HitsAreCurrent

AgedEntry(e, key) == [e EXCEPT !.expired = @ \/ e.key = key]

\* Entries of a key expire: all keep their keys and values.
LEMMA AgedMap ==
  ASSUME NEW map \in EntriesType, NEW key, NEW aged, aged = [k \in DOMAIN map |-> aged[k]],
         \A k \in DOMAIN map : aged[k] = AgedEntry(map[k], key)
  PROVE  /\ aged \in EntriesType
         /\ \A a \in ToSet(aged) : \E e \in ToSet(map) : a.key = e.key /\ a.value = e.value
  <1>1. \A k \in DOMAIN map : map[k] \in EntryType
    BY DEF EntriesType
  <1>2. ASSUME NEW e \in EntryType, NEW a, a = AgedEntry(e, key)
        PROVE  a \in EntryType /\ a.key = e.key /\ a.value = e.value
    <2>1. (e.expired \/ e.key = key) \in BOOLEAN
      OBVIOUS
    <2> QED
      BY <1>2, <2>1 DEF EntryType, AgedEntry
  <1>3. \A k \in DOMAIN map : aged[k] \in EntryType /\ aged[k].key = map[k].key
                              /\ aged[k].value = map[k].value
    BY <1>1, <1>2
  <1> DEFINE n == Len(map)
  <1>4. n \in Nat /\ DOMAIN map = 1 .. n
    BY DEF EntriesType
  <1>5. aged \in [1 .. n -> EntryType]
    <2> HIDE DEF n
    <2> QED
      BY <1>3, <1>4
  <1>6. aged \in EntriesType
    <2>1. \A m \in Nat : \A f \in [1 .. m -> EntryType] : f \in Seq(EntryType)
      OBVIOUS
    <2> HIDE DEF n
    <2> QED
      BY <1>4, <1>5, <2>1 DEF EntriesType
  <1>7. DOMAIN aged = DOMAIN map
    OBVIOUS
  <1> QED
    BY <1>3, <1>6, <1>7 DEF ToSet

LEMMA ExpireKeeps ==
  ASSUME CacheInv, NEW key \in CacheKeys, Expire(key)
  PROVE  CacheInv'
  <1> DEFINE Aged(map) == [k \in DOMAIN map |-> [map[k] EXCEPT !.expired = @ \/ map[k].key = key]]
  <1>1. /\ lruMaps' = [c \in CacheCallers |-> Aged(lruMaps[c])]
        /\ cacheRecord' = IF cacheRecord = Null THEN Null ELSE Aged(cacheRecord)
        /\ cacheCalls' = [c \in CacheCallers |-> [cacheCalls[c] EXCEPT !.snapshot = Aged(@)]]
        /\ UNCHANGED <<persistent, limit, liveMap, latest, lastHit, disturbed>>
    BY DEF Expire
  <1>2. ASSUME NEW map \in EntriesType
        PROVE  /\ Aged(map) \in EntriesType
               /\ UpToDate(map) => UpToDate(Aged(map))
    <2>1. PICK aged : aged = Aged(map)
      OBVIOUS
    <2>2. /\ aged \in EntriesType
          /\ \A a \in ToSet(aged) : \E e \in ToSet(map) : a.key = e.key /\ a.value = e.value
      <3>1. /\ aged = [k \in DOMAIN map |-> aged[k]]
            /\ \A k \in DOMAIN map : aged[k] = AgedEntry(map[k], key)
        BY <2>1 DEF AgedEntry
      <3> HIDE DEF Aged
      <3> QED
        BY <3>1, AgedMap
    <2> HIDE DEF Aged
    <2>3. UpToDate(map) => UpToDate(aged)
      BY <2>2 DEF UpToDate
    <2> QED
      BY <2>1, <2>2, <2>3
  <1> HIDE DEF Aged
  <1>3. ASSUME NEW c \in CacheCallers
        PROVE  LET old == cacheCalls[c]
                   new == cacheCalls'[c]
               IN  /\ new \in CacheCallType /\ old.snapshot \in EntriesType
                   /\ new.stage = old.stage /\ new.op = old.op /\ new.key = old.key
                   /\ new.value = old.value /\ new.map = old.map
                   /\ new.snapshot = Aged(old.snapshot)
    <2> DEFINE old == cacheCalls[c]
               new == cacheCalls'[c]
    <2>1. new = [old EXCEPT !.snapshot = Aged(@)] /\ old \in CacheCallType
      BY <1>1 DEF CacheInv, CacheTypes
    <2> HIDE DEF old, new
    <2>2. old.snapshot \in EntriesType
      BY <2>1 DEF CacheCallType
    <2>3. Aged(old.snapshot) \in EntriesType
      BY <1>2, <2>2
    <2>4. /\ new \in CacheCallType
          /\ new.stage = old.stage /\ new.op = old.op /\ new.key = old.key
          /\ new.value = old.value /\ new.map = old.map
          /\ new.snapshot = Aged(old.snapshot)
      BY <2>1, <2>3 DEF CacheCallType
    <2> QED
      BY <2>2, <2>4 DEF old, new
  <1>4. CacheTypes'
    <2>1. lruMaps' \in [CacheCallers -> EntriesType]
      BY <1>1, <1>2 DEF CacheInv, CacheTypes
    <2>2. cacheRecord' \in EntriesType \cup {Null}
      BY <1>1, <1>2 DEF CacheInv, CacheTypes
    <2>3. cacheCalls' \in [CacheCallers -> CacheCallType]
      BY <1>1, <1>3
    <2> QED
      BY <1>1, <2>1, <2>2, <2>3 DEF CacheInv, CacheTypes
  <1>5. \A c \in CacheCallers : CallInv(c)'
    BY <1>1, <1>3 DEF CacheInv, CallInv
  <1>6. UpToDate(lruMaps[liveMap]) /\ liveMap # Null => UpToDate(lruMaps[liveMap])'
    <2> SUFFICES ASSUME UpToDate(lruMaps[liveMap]), liveMap # Null PROVE UpToDate(lruMaps[liveMap])'
      OBVIOUS
    <2>1. liveMap \in CacheCallers /\ lruMaps[liveMap] \in EntriesType
      BY DEF CacheInv, CacheTypes
    <2>2. UpToDate(Aged(lruMaps[liveMap])) /\ lruMaps'[liveMap'] = Aged(lruMaps[liveMap])
      BY <1>1, <1>2, <2>1
    <2> QED
      BY <1>1, <2>2 DEF UpToDate
  <1>7. RecordInv => RecordInv'
    <2> SUFFICES ASSUME RecordInv PROVE RecordInv'
      OBVIOUS
    <2>1. \A c \in CacheCallers : \A stage :
            cacheCalls'[c].stage = stage <=> cacheCalls[c].stage = stage
      BY <1>3
    <2>2. \A c \in CacheCallers : UpToDate(cacheCalls[c].snapshot) => UpToDate(cacheCalls[c].snapshot)'
      <3>1. \A c \in CacheCallers :
              UpToDate(cacheCalls[c].snapshot) => UpToDate(cacheCalls'[c].snapshot)
        BY <1>2, <1>3
      <3> QED
        BY <1>1, <3>1 DEF UpToDate
    <2>3. cacheRecord' # Null =>
            cacheRecord # Null /\ (UpToDate(cacheRecord) => UpToDate(cacheRecord)')
      <3> SUFFICES ASSUME cacheRecord # Null
                   PROVE  UpToDate(cacheRecord) => UpToDate(cacheRecord)'
        BY <1>1
      <3>1. cacheRecord' = Aged(cacheRecord) /\ (UpToDate(cacheRecord) => UpToDate(Aged(cacheRecord)))
        BY <1>1, <1>2 DEF CacheInv, CacheTypes
      <3> QED
        BY <1>1, <3>1 DEF UpToDate
    <2>4. /\ \A c \in CacheCallers : InStage(c, "write")' <=> InStage(c, "write")
          /\ \A c \in CacheCallers : InStage(c, "install")' <=> InStage(c, "install")
          /\ AllPersisted' <=> AllPersisted
      BY <2>1 DEF AllPersisted, InStage
    <2>5. (/\ AllPersisted /\ (\A c \in CacheCallers : ~InStage(c, "write")) /\ cacheRecord # Null
           => UpToDate(cacheRecord))'
      BY <2>3, <2>4 DEF RecordInv
    <2>6. (\A c \in CacheCallers :
             /\ InStage(c, "write") /\ AllPersisted => UpToDate(cacheCalls[c].snapshot)
             /\ InStage(c, "install") /\ liveMap = Null => UpToDate(cacheCalls[c].snapshot))'
      BY <1>1, <2>2, <2>4 DEF RecordInv
    <2>7. (\A c, d \in CacheCallers : InStage(c, "write") /\ InStage(d, "write") => c = d)'
      BY <2>4 DEF RecordInv
    <2> QED
      BY <2>5, <2>6, <2>7 DEF RecordInv
  <1> QED
    BY <1>1, <1>4, <1>5, <1>6, <1>7 DEF CacheInv, HitsAreCurrent

LEMMA RestartKeeps ==
  ASSUME CacheInv, NEW newLimit \in Limits, Restart(newLimit)
  PROVE  CacheInv'
  <1>1. /\ limit' = newLimit /\ lastHit' = Null
        /\ cacheCalls' = [c \in CacheCallers |-> NoCall]
        /\ lruMaps' = [c \in CacheCallers |-> <<>>]
        /\ liveMap' = IF persistent THEN Null ELSE liveMap
        /\ disturbed' = (disturbed \/ \E c \in CacheCallers :
                                        cacheCalls[c].stage \in {"persist", "write"})
        /\ UNCHANGED <<persistent, cacheRecord, latest>>
    BY DEF Restart
  <1>2. <<>> \in EntriesType /\ \A e \in ToSet(<<>>) : FALSE
    BY DEF EntriesType, ToSet
  <1>3. CacheTypes'
    <2>1. disturbed' \in BOOLEAN /\ limit' \in Nat \ {0}
      BY <1>1, CacheAssumption DEF CacheInv, CacheTypes
    <2> QED
      BY <1>1, <1>2, <2>1, NoCallType DEF CacheInv, CacheTypes
  <1>4. \A c \in CacheCallers : cacheCalls'[c].stage = "none"
    BY <1>1 DEF NoCall
  <1>5. \A c \in CacheCallers : CallInv(c)'
    BY <1>4 DEF CallInv
  <1>6. ~persistent' => liveMap' # Null
    BY <1>1 DEF CacheInv
  <1>7. liveMap' # Null => UpToDate(lruMaps[liveMap])'
    <2>1. liveMap' # Null => liveMap' \in CacheCallers
      BY <1>1 DEF CacheInv, CacheTypes
    <2> QED
      BY <1>1, <1>2, <2>1 DEF UpToDate
  <1>8. ASSUME ~disturbed', persistent PROVE RecordInv'
    <2>1. ~disturbed /\ \A c \in CacheCallers : cacheCalls[c].stage \notin {"persist", "write"}
      BY <1>1, <1>8
    <2>2. cacheRecord # Null => UpToDate(cacheRecord)
      BY <1>8, <2>1 DEF CacheInv, RecordInv, AllPersisted, InStage
    <2> QED
      BY <1>1, <1>4, <2>2 DEF RecordInv, InStage, UpToDate
  <1> QED
    BY <1>1, <1>3, <1>5, <1>6, <1>7, <1>8 DEF CacheInv, HitsAreCurrent

LEMMA CacheInvKept == CacheInv /\ [CacheNext]_cacheVars => CacheInv'
  <1> SUFFICES ASSUME CacheInv, [CacheNext]_cacheVars PROVE CacheInv'
    OBVIOUS
  <1>1. CASE UNCHANGED cacheVars
    BY <1>1 DEF cacheVars, CacheInv, CacheTypes, CallInv, UpToDate, RecordInv, AllPersisted,
                InStage, HitsAreCurrent
  <1>2. ASSUME NEW c \in CacheCallers, NEW context \in CacheContexts,
               NEW op \in {"get", "set", "remove"}, NEW key \in CacheKeys,
               NEW value \in CacheValues \cup {Null},
               op = "set" => value # Null, CallCache(c, context, op, key, value)
        PROVE  CacheInv'
    BY <1>2, CallCacheKeeps
  <1>3. ASSUME NEW c \in CacheCallers,
               \/ FindCacheRecord(c) \/ InstallMap(c)
               \/ GetItem(c) \/ GetItemExpires(c) \/ SetItem(c) \/ RemoveItem(c)
               \/ PersistCache(c) \/ WriteCacheRecord(c)
        PROVE  CacheInv'
    BY <1>3, FindCacheRecordKeeps, InstallMapKeeps, GetItemKeeps, GetItemExpiresKeeps,
       SetItemKeeps, RemoveItemKeeps, PersistCacheKeeps, WriteCacheRecordKeeps
  <1>4. ASSUME NEW key \in CacheKeys, Expire(key) PROVE CacheInv'
    BY <1>4, ExpireKeeps
  <1>5. ASSUME NEW newLimit \in Limits, Restart(newLimit) PROVE CacheInv'
    BY <1>5, RestartKeeps
  <1> QED
    BY <1>1, <1>2, <1>3, <1>4, <1>5 DEF CacheNext

\* A get of a cache that hits returns the value that was set last, never one that was
\* removed, replaced or lost to a restart, unless calls met while they loaded or wrote the
\* record of the storage or the process ended under one; and never one that had expired.
THEOREM HitsAreAlwaysCurrent == CacheSpec => []HitsAreCurrent
  <1>1. CacheInv => HitsAreCurrent
    BY DEF CacheInv
  <1> QED
    BY <1>1, CacheInvInitially, CacheInvKept, PTL DEF CacheSpec
================================================================================
